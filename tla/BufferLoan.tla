----------------------------- MODULE BufferLoan -----------------------------
(***************************************************************************)
(* What a USB transfer promises its caller about the caller's buffer       *)
(* (src/spectro/usbio_lx.c): a transfer lends pieces of the buffer to the  *)
(* driver, and while the driver is served it returns only when it has      *)
(* every piece back - whether it succeeded, failed, timed out or was       *)
(* cancelled.  A driver that is no longer served touches no buffer again,  *)
(* and is only served anew when no transfer is under way.                  *)
(***************************************************************************)
EXTENDS Integers

CONSTANTS Clients, Pieces

VARIABLES busy,     \* the client is in a transfer
          lent,     \* the pieces of its buffer the driver may still touch
          served    \* something collects what the driver completes

loanVars == <<busy, lent, served>>

LoanInit ==
    /\ busy = [c \in Clients |-> FALSE]
    /\ lent = [c \in Clients |-> {}]
    /\ served = FALSE

BeginTransfer(c) ==
    /\ served /\ ~busy[c]
    /\ busy' = [busy EXCEPT ![c] = TRUE]
    /\ UNCHANGED <<lent, served>>

Lend(c, i) ==
    /\ busy[c] /\ i \notin lent[c]
    /\ lent' = [lent EXCEPT ![c] = @ \union {i}]
    /\ UNCHANGED <<busy, served>>

GiveBack(c, i) ==
    /\ busy[c] /\ i \in lent[c]
    /\ lent' = [lent EXCEPT ![c] = @ \ {i}]
    /\ UNCHANGED <<busy, served>>

EndTransfer(c) ==
    /\ busy[c]
    /\ served => lent[c] = {}
    /\ busy' = [busy EXCEPT ![c] = FALSE]
    /\ UNCHANGED <<lent, served>>

StopServing ==
    /\ served
    /\ served' = FALSE
    /\ UNCHANGED <<busy, lent>>

\* Closing the device takes everything back at once.
Reclaim ==
    /\ ~served
    /\ lent' = [c \in Clients |-> {}]
    /\ UNCHANGED <<busy, served>>

Serve ==
    /\ ~served
    /\ \A c \in Clients : ~busy[c] /\ lent[c] = {}
    /\ served' = TRUE
    /\ UNCHANGED <<busy, lent>>

LoanNext ==
    \/ \E c \in Clients :
         \/ BeginTransfer(c) \/ EndTransfer(c)
         \/ \E i \in Pieces : Lend(c, i) \/ GiveBack(c, i)
    \/ StopServing \/ Reclaim \/ Serve

LoanSpec == LoanInit /\ [][LoanNext]_loanVars
=============================================================================
