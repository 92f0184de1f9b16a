---------------------------- MODULE UsbTransfer ----------------------------
(***************************************************************************)
(* The Linux USB transfer engine, src/spectro/usbio_lx.c, with the entry   *)
(* checks of src/spectro/usbio.c.                                          *)
(*                                                                         *)
(* A client thread (icoms_usb_transaction) cuts a transfer into URBs,      *)
(* submits them to the kernel and waits on its request's condition         *)
(* variable.  One reaper thread (urb_reaper) per open port collects the    *)
(* completed URBs of every request.  A request lives on its client's       *)
(* stack, so a request is named by its client.  Another thread may cancel  *)
(* the transfer through a token (icoms_usb_cancel_io), the wait may time   *)
(* out, the device may go away, and the port may be closed at any moment.  *)
(*                                                                         *)
(* A mutex that is only held within one action is that action; the ones    *)
(* held from one action to the next appear as ReqLockFree, UsbdLockFree    *)
(* and CmtxFree.                                                           *)
(***************************************************************************)
EXTENDS Integers, FiniteSets

CONSTANTS
    Clients,        \* threads that make transactions on the port
    TokenClients,   \* those that may pass a cancel token with a transfer
    MaxUrbs,        \* bound on the URBs of one transaction
    Results,        \* how the kernel may complete a URB on its own account
    Faults,         \* which of "submit", "poll", "unplug", "close" may happen
    MaxErrc,        \* consecutive reap failures tolerated (5 in the code)
    NoUrb           \* the reaper has no URB in hand

ASSUME ClientsAssumption == IsFiniteSet(Clients) /\ TokenClients \subseteq Clients
ASSUME MaxUrbsAssumption == MaxUrbs \in Nat \ {0}
ASSUME ResultsAssumption == Results \subseteq {"full", "part", "err"}
ASSUME FaultsAssumption  == Faults \subseteq {"submit", "poll", "unplug", "close"}
ASSUME MaxErrcAssumption == MaxErrc \in Nat
ASSUME NoUrbAssumption   ==
    NoUrb \notin [req : Clients, urb : 1..MaxUrbs, out : {"full", "part", "err", "canc"}]

VARIABLES
    (* the port: struct usb_idevice and icoms.is_open *)
    isOpen, closing, running, present, reqs,
    (* the reaper thread's place in its loop and its locals *)
    rpc, cur, rtmp, rix, errc, todo,
    (* the client threads: their place, locals and usbio_req *)
    pc, nurbs, nourbs, cancelled, reqrv, k, ctmp, woken,
    (* the URBs: what the kernel holds, and the status field in the request *)
    kern, stat,
    (* the cancel tokens: hcancel, and where icoms_usb_cancel_io is in cancel_req *)
    hcancel, cix

portVars   == <<isOpen, closing, running, present, reqs>>
reaperVars == <<rpc, cur, rtmp, rix, errc, todo>>
clientVars == <<pc, nurbs, nourbs, cancelled, reqrv, k, ctmp, woken>>
urbVars    == <<kern, stat>>
tokenVars  == <<hcancel, cix>>
vars == <<portVars, reaperVars, clientVars, urbVars, tokenVars>>

Urbs     == 1..MaxUrbs
Done     == {"full", "part", "err", "canc"}       \* completed, waiting to be reaped
KernT    == {"none", "flight"} \union Done
StatT    == {"inprog", "nomsg"} \union Done
ResultT  == {"ok", "short", "to", "canc", "usb", "sys"}
CurT     == [req : Clients, urb : Urbs, out : Done]
HandT    == {"lock", "dec", "check", "cancel"}    \* the reaper has a URB in hand
ReaperPc == {"exit", "poll", "stop", "walk"} \union HandT
ClientPc == {"idle", "link", "submit", "decr", "token", "check", "wait",
             "tocancel", "drain", "result", "done", "unlink"}

(***************************************************************************)
(* Who holds what                                                          *)
(***************************************************************************)

\* req.lock: held by the reaper from its lock to its unlock, and by a client
\* that cancels after a time out
ReqLockFree(c) ==
    /\ ~(rpc \in {"dec", "check", "cancel"} /\ cur # NoUrb /\ cur.req = c)
    /\ pc[c] # "tocancel"

\* (bug variant: unlinking without usbd.lock)
Bug_NoUsbdLock == TRUE

\* usbd.lock: held from one action to the next only by the dying reaper
UsbdLockFree == rpc # "walk"

\* (bug variant: the token is cleared without cmtx)
Bug_NoCmtx(c) == TRUE

\* cancelt.cmtx: held by icoms_usb_cancel_io while it walks the URBs
CmtxFree(c) == cix[c] = -1

(***************************************************************************)
(* The kernel (external): usbfs holds a submitted URB until it is reaped,  *)
(* discarding a URB it does not have in flight does nothing, and closing   *)
(* the file drops everything.                                              *)
(***************************************************************************)

Discarded(kn, c, i) ==
    [kn EXCEPT ![c][i] = IF @ = "flight" THEN "canc" ELSE @]

\* The URBs of a transfer queue on one endpoint, so they complete in order
\* while the device is there.
KernelCompletes(c, i) ==
    /\ kern[c][i] = "flight"
    /\ present => \A j \in 1..(i - 1) : kern[c][j] # "flight"
    /\ \E out \in (IF present THEN Results ELSE {"err"}) :
           kern' = [kern EXCEPT ![c][i] = out]
    /\ UNCHANGED <<portVars, reaperVars, clientVars, stat, tokenVars>>

Unplug ==
    /\ "unplug" \in Faults
    /\ isOpen /\ present
    /\ present' = FALSE
    /\ UNCHANGED <<isOpen, closing, running, reqs, reaperVars, clientVars, urbVars, tokenVars>>

(***************************************************************************)
(* cancel_req, shared by the reaper, a timed out client and                *)
(* icoms_usb_cancel_io: one URB per step, from the last one down; the      *)
(* status is overwritten whatever the state of the URB.                    *)
(***************************************************************************)

\* (bug variant: the loop stops above the first URB)
Bug_SkipFirst(c, i) ==
    /\ kern' = IF i > 1 THEN Discarded(kern, c, i) ELSE kern
    /\ stat' = [stat EXCEPT ![c][i] = "canc"]

CancelUrb(c, i) ==
    /\ kern' = Discarded(kern, c, i)
    /\ stat' = [stat EXCEPT ![c][i] = "canc"]

MarkCancelled(c) == cancelled' = [cancelled EXCEPT ![c] = TRUE]

\* (bug variant: only the first wait is signalled)
Bug_SignalFirstWait(c) == woken' = [woken EXCEPT ![c] = pc[c] = "wait"]

\* pthread_cond_signal(&req.cond)
Signal(c) == woken' = [woken EXCEPT ![c] = pc[c] \in {"wait", "drain"}]

(***************************************************************************)
(* The client thread: icoms_usb_rw and icoms_usb_transaction               *)
(***************************************************************************)

\* The port is not open or the reaper has died: no request is made at all.
Refuse(c) ==
    /\ pc[c] = "idle"
    /\ ~isOpen \/ ~running
    /\ reqrv' = [reqrv EXCEPT ![c] = "sys"]
    /\ UNCHANGED <<portVars, reaperVars, pc, nurbs, nourbs, cancelled, k, ctmp, woken,
                   urbVars, tokenVars>>

Begin(c, n) ==
    /\ pc[c] = "idle"
    /\ isOpen /\ running
    /\ pc'        = [pc EXCEPT ![c] = "link"]
    /\ nurbs'     = [nurbs EXCEPT ![c] = n]
    /\ nourbs'    = [nourbs EXCEPT ![c] = n]
    /\ cancelled' = [cancelled EXCEPT ![c] = FALSE]
    /\ reqrv'     = [reqrv EXCEPT ![c] = "ok"]
    /\ stat'      = [stat EXCEPT ![c] = [i \in Urbs |-> "inprog"]]
    /\ UNCHANGED <<portVars, reaperVars, k, ctmp, woken, kern, tokenVars>>

Link(c) ==
    /\ pc[c] = "link"
    /\ UsbdLockFree
    /\ reqs' = reqs \union {c}
    /\ pc' = [pc EXCEPT ![c] = "submit"]
    /\ k'  = [k EXCEPT ![c] = 1]
    /\ UNCHANGED <<isOpen, closing, running, present, reaperVars, nurbs, nourbs, cancelled,
                   reqrv, ctmp, woken, urbVars, tokenVars>>

\* Submitting takes no lock, so the reaper may already be at work on the
\* URBs submitted before this one.
Submit(c) ==
    /\ pc[c] = "submit" /\ k[c] <= nurbs[c]
    /\ isOpen /\ present
    /\ kern' = [kern EXCEPT ![c][k[c]] = "flight"]
    /\ k' = [k EXCEPT ![c] = @ + 1]
    /\ UNCHANGED <<portVars, reaperVars, pc, nurbs, nourbs, cancelled, reqrv, ctmp, woken,
                   stat, tokenVars>>

\* (bug variant: a failed submission abandons the URBs submitted before it)
Bug_AbandonOnFailure(c) ==
    /\ pc[c] = "submit" /\ k[c] <= nurbs[c]
    /\ ~isOpen \/ ~present \/ "submit" \in Faults
    /\ stat' = [stat EXCEPT ![c][k[c]] = "nomsg"]
    /\ pc'   = [pc EXCEPT ![c] = "result"]
    /\ UNCHANGED <<portVars, reaperVars, nurbs, nourbs, cancelled, reqrv, k, ctmp, woken,
                   kern, tokenVars>>

\* req.nourbs-- is a read and a write, outside req.lock.
SubmitFails(c) ==
    /\ pc[c] = "submit" /\ k[c] <= nurbs[c]
    /\ ~isOpen \/ ~present \/ "submit" \in Faults
    /\ stat' = [stat EXCEPT ![c][k[c]] = "nomsg"]
    /\ ctmp' = [ctmp EXCEPT ![c] = nourbs[c]]
    /\ pc'   = [pc EXCEPT ![c] = "decr"]
    /\ UNCHANGED <<portVars, reaperVars, nurbs, nourbs, cancelled, reqrv, k, woken, kern,
                   tokenVars>>

SubmitFailsDecrement(c) ==
    /\ pc[c] = "decr"
    /\ nourbs' = [nourbs EXCEPT ![c] = ctmp[c] - 1]
    /\ ctmp'   = [ctmp EXCEPT ![c] = 0]
    /\ pc'     = [pc EXCEPT ![c] = "submit"]
    /\ k'      = [k EXCEPT ![c] = @ + 1]
    /\ UNCHANGED <<portVars, reaperVars, nurbs, cancelled, reqrv, woken, urbVars, tokenVars>>

\* All are submitted.  The token is an argument of each transfer: a control
\* message never has one.
Submitted(c) ==
    /\ pc[c] = "submit" /\ k[c] > nurbs[c]
    /\ \E p \in {"check"} \union (IF c \in TokenClients THEN {"token"} ELSE {}) :
           pc' = [pc EXCEPT ![c] = p]
    /\ k'  = [k EXCEPT ![c] = 0]
    /\ UNCHANGED <<portVars, reaperVars, nurbs, nourbs, cancelled, reqrv, ctmp, woken,
                   urbVars, tokenVars>>

SetToken(c) ==
    /\ pc[c] = "token"
    /\ CmtxFree(c)
    /\ hcancel' = [hcancel EXCEPT ![c] = TRUE]
    /\ pc' = [pc EXCEPT ![c] = "check"]
    /\ UNCHANGED <<portVars, reaperVars, nurbs, nourbs, cancelled, reqrv, k, ctmp, woken,
                   urbVars, cix>>

CheckOutstanding(c) ==
    /\ pc[c] = "check"
    /\ ReqLockFree(c)
    /\ pc' = [pc EXCEPT ![c] = IF nourbs[c] > 0 THEN "wait" ELSE "result"]
    /\ UNCHANGED <<portVars, reaperVars, nurbs, nourbs, cancelled, reqrv, k, ctmp, woken,
                   urbVars, tokenVars>>

\* (bug variant: a wake-up is taken for the end of the transfer)
Bug_TrustWakeup(c) ==
    /\ pc[c] \in {"wait", "drain"}
    /\ ReqLockFree(c)
    /\ woken' = [woken EXCEPT ![c] = FALSE]
    /\ pc' = [pc EXCEPT ![c] = "result"]
    /\ UNCHANGED <<portVars, reaperVars, nurbs, nourbs, cancelled, reqrv, k, ctmp,
                   urbVars, tokenVars>>

\* A wake-up from either wait, by the signal or spurious: both loops look at
\* nourbs again.
Wake(c) ==
    /\ pc[c] \in {"wait", "drain"}
    /\ ReqLockFree(c)
    /\ woken' = [woken EXCEPT ![c] = FALSE]
    /\ pc' = [pc EXCEPT ![c] = IF nourbs[c] > 0 THEN @ ELSE "result"]
    /\ UNCHANGED <<portVars, reaperVars, nurbs, nourbs, cancelled, reqrv, k, ctmp,
                   urbVars, tokenVars>>

\* (bug variant: do not wait for the cancelled URBs)
Bug_NoDrain(c) == "result"

\* Leave the cancelling part of a time out with req.lock held.
DrainOrFinish(c) == IF nourbs[c] > 0 THEN "drain" ELSE "result"

TimesOut(c) ==
    /\ pc[c] = "wait"
    /\ ReqLockFree(c)
    /\ reqrv' = [reqrv EXCEPT ![c] = "to"]
    /\ woken' = [woken EXCEPT ![c] = FALSE]
    /\ IF cancelled[c]
         THEN pc' = [pc EXCEPT ![c] = DrainOrFinish(c)] /\ k' = k
         ELSE pc' = [pc EXCEPT ![c] = "tocancel"] /\ k' = [k EXCEPT ![c] = nurbs[c]]
    /\ UNCHANGED <<portVars, reaperVars, nurbs, nourbs, cancelled, ctmp, urbVars, tokenVars>>

TimeoutCancels(c) ==
    /\ pc[c] = "tocancel" /\ k[c] > 0
    /\ CancelUrb(c, k[c])
    /\ k' = [k EXCEPT ![c] = @ - 1]
    /\ UNCHANGED <<portVars, reaperVars, pc, nurbs, nourbs, cancelled, reqrv, ctmp, woken,
                   tokenVars>>

TimeoutCancelled(c) ==
    /\ pc[c] = "tocancel" /\ k[c] = 0
    /\ MarkCancelled(c)
    /\ pc' = [pc EXCEPT ![c] = DrainOrFinish(c)]
    /\ UNCHANGED <<portVars, reaperVars, nurbs, nourbs, reqrv, k, ctmp, woken, urbVars,
                   tokenVars>>

\* The loop over the URBs that computes the overall result: it stops at the
\* first short URB while all is well, a failed URB overrides everything, and
\* after a time out nothing else counts.  (A canceller goes down the URBs
\* while this goes up, so what the loop sees is a state of the array.)
Overall(rv, st, n) ==
    LET First(i) == st[i] # "full" /\ \A j \in 1..(i - 1) : st[j] = "full"
        FirstIs(s) == \E i \in 1..n : First(i) /\ st[i] = s
    IN  IF rv = "ok" /\ FirstIs("part") THEN "short"
        ELSE IF \E i \in 1..n : st[i] = "nomsg" THEN "sys"
        ELSE IF rv = "to" \/ (\A i \in 1..n : st[i] = "full") THEN rv
        ELSE IF FirstIs("canc") THEN "canc" ELSE "usb"

ComputeResult(c) ==
    /\ pc[c] = "result"
    /\ reqrv' = [reqrv EXCEPT ![c] = Overall(@, stat[c], nurbs[c])]
    /\ pc' = [pc EXCEPT ![c] = IF hcancel[c] THEN "done" ELSE "unlink"]
    /\ UNCHANGED <<portVars, reaperVars, nurbs, nourbs, cancelled, k, ctmp, woken, urbVars,
                   tokenVars>>

ClearToken(c) ==
    /\ pc[c] = "done"
    /\ CmtxFree(c)
    /\ hcancel' = [hcancel EXCEPT ![c] = FALSE]
    /\ pc' = [pc EXCEPT ![c] = "unlink"]
    /\ UNCHANGED <<portVars, reaperVars, nurbs, nourbs, cancelled, reqrv, k, ctmp, woken,
                   urbVars, cix>>

\* Unlink, free the URBs and return: the request on the stack is gone, which
\* the model shows by resetting it; only the result is left.
Return(c) ==
    /\ pc[c] = "unlink"
    /\ UsbdLockFree
    /\ reqs' = reqs \ {c}
    /\ pc'   = [pc EXCEPT ![c] = "idle"]
    /\ nurbs'     = [nurbs EXCEPT ![c] = 1]
    /\ nourbs'    = [nourbs EXCEPT ![c] = 0]
    /\ cancelled' = [cancelled EXCEPT ![c] = FALSE]
    /\ stat'      = [stat EXCEPT ![c] = [i \in Urbs |-> "inprog"]]
    /\ UNCHANGED <<isOpen, closing, running, present, reaperVars, reqrv, k, ctmp, woken,
                   kern, tokenVars>>

(***************************************************************************)
(* icoms_usb_cancel_io, called by a thread that shares the token           *)
(***************************************************************************)

CancelIo(c) ==
    /\ c \in TokenClients
    /\ CmtxFree(c) /\ hcancel[c]
    /\ cix' = [cix EXCEPT ![c] = nurbs[c]]
    /\ UNCHANGED <<portVars, reaperVars, clientVars, urbVars, hcancel>>

CancelIoUrb(c) ==
    /\ cix[c] > 0
    /\ CancelUrb(c, cix[c])
    /\ cix' = [cix EXCEPT ![c] = @ - 1]
    /\ UNCHANGED <<portVars, reaperVars, clientVars, hcancel>>

CancelIoDone(c) ==
    /\ cix[c] = 0
    /\ MarkCancelled(c)
    /\ cix' = [cix EXCEPT ![c] = -1]
    /\ UNCHANGED <<portVars, reaperVars, pc, nurbs, nourbs, reqrv, k, ctmp, woken, urbVars,
                   hcancel>>

(***************************************************************************)
(* The reaper thread: urb_reaper                                           *)
(***************************************************************************)

\* REAPURBNDELAY: the kernel writes the URB's status and lets go of it, in
\* the order of completion (a discarded URB may overtake an earlier one).
Reap(c, i) ==
    /\ rpc = "poll" /\ ~closing
    /\ kern[c][i] \in Done
    /\ present /\ kern[c][i] # "canc" => \A j \in 1..(i - 1) : kern[c][j] \notin Results
    /\ kern' = [kern EXCEPT ![c][i] = "none"]
    /\ stat' = [stat EXCEPT ![c][i] = kern[c][i]]
    /\ cur'  = [req |-> c, urb |-> i, out |-> kern[c][i]]
    /\ errc' = 0
    /\ rpc'  = "lock"
    /\ UNCHANGED <<portVars, rtmp, rix, todo, clientVars, tokenVars>>

\* pthread_mutex_lock(&req->lock), and the read half of req->nourbs--
ReaperLocks ==
    /\ rpc = "lock"
    /\ ReqLockFree(cur.req)
    /\ rtmp' = nourbs[cur.req]
    /\ rpc'  = "dec"
    /\ UNCHANGED <<portVars, cur, rix, errc, todo, clientVars, urbVars, tokenVars>>

ReaperDecrements ==
    /\ rpc = "dec"
    /\ nourbs' = [nourbs EXCEPT ![cur.req] = rtmp - 1]
    /\ rtmp' = 0
    /\ rpc'  = "check"
    /\ UNCHANGED <<portVars, cur, rix, errc, todo, pc, nurbs, cancelled, reqrv, k, ctmp,
                   woken, urbVars, tokenVars>>

\* A URB that failed or came back short ends the transfer: the following
\* URBs are cancelled.  (A failed or discarded URB is short as well.)
MustCancelFollowing ==
    /\ nourbs[cur.req] > 0
    /\ ~cancelled[cur.req]
    /\ cur.out # "full"

\* (bug variant: signal only below zero)
Bug_SignalOffByOne ==
    /\ IF nourbs[cur.req] < 0 THEN Signal(cur.req) ELSE woken' = woken
    /\ cur' = NoUrb
    /\ rpc' = "poll"

\* The end of a reap: signal if that was the last URB, and unlock.
EndReap ==
    /\ IF nourbs[cur.req] <= 0 THEN Signal(cur.req) ELSE woken' = woken
    /\ cur' = NoUrb
    /\ rpc' = "poll"

ReaperSignals ==
    /\ rpc = "check"
    /\ ~MustCancelFollowing
    /\ EndReap
    /\ UNCHANGED <<portVars, rtmp, rix, errc, todo, pc, nurbs, nourbs, cancelled, reqrv, k,
                   ctmp, urbVars, tokenVars>>

ReaperCancels ==
    /\ rpc = "check"
    /\ MustCancelFollowing
    /\ rix' = nurbs[cur.req]
    /\ rpc' = "cancel"
    /\ UNCHANGED <<portVars, cur, rtmp, errc, todo, clientVars, urbVars, tokenVars>>

\* (bug variant: the loop goes down to the URB in hand)
Bug_CancelInHand ==
    /\ rpc = "cancel" /\ rix >= cur.urb
    /\ CancelUrb(cur.req, rix)
    /\ rix' = rix - 1
    /\ UNCHANGED <<portVars, rpc, cur, rtmp, errc, todo, clientVars, tokenVars>>

ReaperCancelsUrb ==
    /\ rpc = "cancel" /\ rix > cur.urb
    /\ CancelUrb(cur.req, rix)
    /\ rix' = rix - 1
    /\ UNCHANGED <<portVars, rpc, cur, rtmp, errc, todo, clientVars, tokenVars>>

ReaperCancelled ==
    /\ rpc = "cancel" /\ rix <= cur.urb
    /\ MarkCancelled(cur.req)
    /\ rix' = 0
    /\ EndReap
    /\ UNCHANGED <<portVars, rtmp, errc, todo, pc, nurbs, nourbs, reqrv, k, ctmp, urbVars,
                   tokenVars>>

\* Leave the loop: usbd->running = 0.
ReaperGivesUp ==
    /\ running' = FALSE
    /\ rpc' = "stop"

\* (bug variant: wait for the requests to finish before shutting down)
Bug_ShutdownWhenIdle ==
    /\ rpc = "poll" /\ closing /\ reqs = {}
    /\ ReaperGivesUp
    /\ UNCHANGED <<isOpen, closing, present, reqs, cur, rtmp, rix, errc, todo, clientVars,
                   urbVars, tokenVars>>

ReaperSeesShutdown ==
    /\ rpc = "poll" /\ closing
    /\ ReaperGivesUp
    /\ UNCHANGED <<isOpen, closing, present, reqs, cur, rtmp, rix, errc, todo, clientVars,
                   urbVars, tokenVars>>

\* (bug variant: one failure too many is tolerated)
Bug_ErrcOffByOne ==
    /\ rpc = "poll" /\ ~closing
    /\ "poll" \in Faults
    /\ IF errc <= MaxErrc
         THEN errc' = errc + 1 /\ UNCHANGED <<running, rpc>>
         ELSE errc' = 0 /\ ReaperGivesUp
    /\ UNCHANGED <<isOpen, closing, present, reqs, cur, rtmp, rix, todo, clientVars, urbVars,
                   tokenVars>>

\* poll or reap failed; a device that is gone fails once nothing is left to reap.
ReapFails ==
    /\ rpc = "poll" /\ ~closing
    /\ \/ "poll" \in Faults
       \/ ~present /\ \A c \in Clients, i \in Urbs : kern[c][i] \notin Done
    /\ IF errc < MaxErrc
         THEN errc' = errc + 1 /\ UNCHANGED <<running, rpc>>
         ELSE errc' = 0 /\ ReaperGivesUp
    /\ UNCHANGED <<isOpen, closing, present, reqs, cur, rtmp, rix, todo, clientVars, urbVars,
                   tokenVars>>

\* Take usbd.lock and walk the requests on the list.
ReaperWalks ==
    /\ rpc = "stop"
    /\ rpc'  = "walk"
    /\ todo' = reqs
    /\ UNCHANGED <<portVars, cur, rtmp, rix, errc, clientVars, urbVars, tokenVars>>

ReaperFailsRequest(c) ==
    /\ rpc = "walk" /\ c \in todo
    /\ ReqLockFree(c)
    /\ stat' = [stat EXCEPT ![c] = [i \in Urbs |-> IF i <= nourbs[c] THEN "nomsg" ELSE @[i]]]
    /\ nourbs' = [nourbs EXCEPT ![c] = 0]
    /\ Signal(c)
    /\ todo' = todo \ {c}
    /\ UNCHANGED <<portVars, rpc, cur, rtmp, rix, errc, pc, nurbs, cancelled, reqrv, k, ctmp,
                   kern, tokenVars>>

ReaperExits ==
    /\ rpc = "walk" /\ todo = {}
    /\ rpc' = "exit"
    /\ UNCHANGED <<portVars, cur, rtmp, rix, errc, todo, clientVars, urbVars, tokenVars>>

(***************************************************************************)
(* usb_open_port and usb_close_port                                        *)
(***************************************************************************)

\* The program only reopens a port when nothing is using it.
OpenPort ==
    /\ ~isOpen
    /\ \A c \in Clients : pc[c] = "idle"
    /\ isOpen' = TRUE /\ running' = TRUE /\ present' = TRUE
    /\ rpc' = "poll"
    /\ UNCHANGED <<closing, reqs, cur, rtmp, rix, errc, todo, clientVars, urbVars, tokenVars>>

\* Write the shutdown pipe, whatever the other threads are doing.
ClosePort ==
    /\ "close" \in Faults
    /\ isOpen /\ ~closing
    /\ closing' = TRUE
    /\ UNCHANGED <<isOpen, running, present, reqs, reaperVars, clientVars, urbVars, tokenVars>>

\* The join returned: close the file, which drops what the kernel held.
ClosePortJoined ==
    /\ closing /\ rpc = "exit"
    /\ isOpen' = FALSE /\ closing' = FALSE
    /\ kern' = [c \in Clients |-> [i \in Urbs |-> "none"]]
    /\ UNCHANGED <<running, present, reqs, reaperVars, clientVars, stat, tokenVars>>

(***************************************************************************)
(* The specification                                                       *)
(***************************************************************************)

Init ==
    /\ isOpen = FALSE /\ closing = FALSE /\ running = FALSE /\ present = FALSE
    /\ reqs = {}
    /\ rpc = "exit" /\ cur = NoUrb /\ rtmp = 0 /\ rix = 0 /\ errc = 0 /\ todo = {}
    /\ pc = [c \in Clients |-> "idle"]
    /\ nurbs  = [c \in Clients |-> 1]
    /\ nourbs = [c \in Clients |-> 0]
    /\ cancelled = [c \in Clients |-> FALSE]
    /\ reqrv = [c \in Clients |-> "ok"]
    /\ k     = [c \in Clients |-> 0]
    /\ ctmp  = [c \in Clients |-> 0]
    /\ woken = [c \in Clients |-> FALSE]
    /\ kern  = [c \in Clients |-> [i \in Urbs |-> "none"]]
    /\ stat  = [c \in Clients |-> [i \in Urbs |-> "inprog"]]
    /\ hcancel = [c \in Clients |-> FALSE]
    /\ cix     = [c \in Clients |-> -1]

ClientStep(c) ==
    \/ Link(c) \/ Submit(c) \/ SubmitFails(c) \/ SubmitFailsDecrement(c) \/ Submitted(c)
    \/ SetToken(c) \/ CheckOutstanding(c) \/ TimeoutCancels(c) \/ TimeoutCancelled(c)
    \/ ComputeResult(c) \/ ClearToken(c) \/ Return(c)

CancellerStep(c) == CancelIoUrb(c) \/ CancelIoDone(c)

ReaperStep ==
    \/ \E c \in Clients, i \in Urbs : Reap(c, i)
    \/ ReaperLocks \/ ReaperDecrements \/ ReaperSignals \/ ReaperCancels
    \/ ReaperCancelsUrb \/ ReaperCancelled \/ ReaperSeesShutdown
    \/ ReaperWalks \/ (\E c \in Clients : ReaperFailsRequest(c)) \/ ReaperExits

Next ==
    \/ \E c \in Clients :
          \/ Refuse(c)
          \/ \E n \in Urbs : Begin(c, n)
          \/ ClientStep(c)
          \/ Wake(c)
          \/ TimesOut(c)
          \/ CancelIo(c)
          \/ CancellerStep(c)
          \/ \E i \in Urbs : KernelCompletes(c, i)
    \/ ReaperStep
    \/ ReapFails
    \/ OpenPort \/ ClosePort \/ ClosePortJoined
    \/ Unplug

Spec == Init /\ [][Next]_vars

(***************************************************************************)
(* Fairness: every thread that can run does; the kernel hands out          *)
(* completed URBs in turn; a dead device keeps failing.  Nothing obliges   *)
(* the device to answer, a caller to cancel or the program to close the    *)
(* port.  That deadlines pass is a hypothesis of TransactionReturns alone: *)
(* without them only a cancel ends a silent transfer.                      *)
(***************************************************************************)

ThreadFairness ==
    /\ \A c \in Clients :
          /\ WF_vars(ClientStep(c) /\ pc[c] # "done")
          /\ SF_vars(ClearToken(c))
          /\ WF_vars(Wake(c) /\ woken[c])
          /\ WF_vars(CancellerStep(c))
          /\ \A i \in Urbs : SF_vars(Reap(c, i))
    /\ WF_vars(ReaperStep)
    /\ WF_vars(ReapFails /\ ~present)
    /\ WF_vars(ClosePortJoined)

DeadlineFairness == \A c \in Clients : WF_vars(TimesOut(c))

FairSpec == Spec /\ ThreadFairness

(***************************************************************************)
(* Properties                                                              *)
(***************************************************************************)

\* Type correctness.  (nourbs may go below zero: a submission that fails
\* after the dying reaper cleared it still decrements it.)
TypeOK ==
    /\ isOpen \in BOOLEAN /\ closing \in BOOLEAN
    /\ running \in BOOLEAN /\ present \in BOOLEAN
    /\ reqs \subseteq Clients
    /\ rpc \in ReaperPc
    /\ cur \in CurT \union {NoUrb}
    /\ rtmp \in Int /\ rix \in 0..MaxUrbs /\ errc \in 0..MaxErrc
    /\ todo \subseteq Clients
    /\ pc \in [Clients -> ClientPc]
    /\ nurbs \in [Clients -> Urbs]
    /\ nourbs \in [Clients -> Int]
    /\ cancelled \in [Clients -> BOOLEAN]
    /\ reqrv \in [Clients -> ResultT]
    /\ k \in [Clients -> 0..(MaxUrbs + 1)]
    /\ ctmp \in [Clients -> Int]
    /\ woken \in [Clients -> BOOLEAN]
    /\ kern \in [Clients -> [Urbs -> KernT]]
    /\ stat \in [Clients -> [Urbs -> StatT]]
    /\ hcancel \in [Clients -> BOOLEAN]
    /\ cix \in [Clients -> -1..MaxUrbs]

InHand(c) == cur # NoUrb /\ cur.req = c

\* While the reaper serves the port, a transaction that has stopped waiting
\* - finished, timed out, cancelled or partly failed - has no URB left with
\* the kernel or in the reaper's hands: its buffer, its URBs and its request
\* can be freed.  (usbio_lx.c:913 waits for the cancelled URBs for this.)
BuffersReturned ==
    running => \A c \in Clients :
        pc[c] \in {"result", "done", "unlink", "idle"} =>
            /\ \A i \in Urbs : kern[c][i] = "none"
            /\ ~InHand(c)

\* Every thread that follows a pointer to a request finds a live one: the
\* reaper with a URB in hand, the dying reaper on the list and
\* icoms_usb_cancel_io through hcancel.
ReferencesLive ==
    /\ cur # NoUrb => pc[cur.req] \notin {"idle", "link"} /\ cur.urb <= nurbs[cur.req]
    /\ \A c \in todo : pc[c] \notin {"idle", "link"}
    /\ \A c \in Clients : cix[c] >= 0 => hcancel[c] /\ pc[c] \notin {"idle", "link"}

\* A transfer comes to the result ICOM_CANC only when it could be cancelled
\* through its token: the URBs the reaper itself cancels behind a short or
\* failed one, or a time out does, never show up as a cancellation of a transfer
\* that was made without one (usbio_lx.c:933-952).
NoCancelUnasked ==
    [][\A c \in Clients : reqrv'[c] = "canc" /\ reqrv[c] # "canc" => hcancel[c]]_vars

\* The engine implements the promise about the caller's buffers: piece i is
\* lent while the kernel holds URB i or the reaper has it in hand.
Lent(c) == {i \in Urbs : kern[c][i] # "none" \/ (InHand(c) /\ cur.urb = i)}

Loan == INSTANCE BufferLoan WITH
          Pieces <- Urbs,
          busy   <- [c \in Clients |-> pc[c] # "idle"],
          lent   <- [c \in Clients |-> Lent(c)],
          served <- running

ImplementsLoan == Loan!LoanSpec

\* usbio_lx.c:602, nourbs is the "Number of outstanding urbs, 0 when done": a
\* request that waits, and has no URB with the kernel or the reaper, is done.
ZeroWhenDone ==
    \A c \in Clients :
        /\ pc[c] \in {"check", "wait", "drain"}
        /\ running
        /\ \A i \in Urbs : kern[c][i] = "none"
        /\ ~InHand(c)
        => nourbs[c] <= 0

\* The three windows in which the code can lose track of a request: the reaper
\* cancels URBs not yet submitted (722), a decrement is lost (866), or the
\* reaper dies between the test of running (799) and the linking (856).
LostTrack ==
    \E c \in Clients :
        \/ rpc = "cancel" /\ InHand(c) /\ pc[c] \in {"submit", "decr"}
        \/ pc[c] = "decr" /\ nourbs[c] # ctmp[c]
        \/ rpc = "dec" /\ InHand(c) /\ nourbs[c] # rtmp
        \/ pc[c] = "link" /\ rpc \in {"walk", "exit"}

KeptTrack == []~LostTrack

\* Every transaction returns: a deadline makes the client cancel its URBs and
\* the reaper hands them all back, also when submissions fail, the device goes
\* away or the port is closed meanwhile.
TransactionReturns ==
    KeptTrack /\ DeadlineFairness => \A c \in Clients : pc[c] # "idle" ~> pc[c] = "idle"

\* icoms_usb_cancel_io alone, whatever the deadline, ends the transaction; so
\* does a time out: the wait for the cancelled URBs, which has no deadline of
\* its own (usbio_lx.c:913-916), comes to an end.
CancelEnds ==
    KeptTrack => \A c \in Clients :
                     cix[c] >= 0 \/ pc[c] \in {"tocancel", "drain"} ~> pc[c] = "idle"

\* usb_close_port joins the reaper, so it must come to an end.
CloseEnds == closing ~> ~isOpen

(***************************************************************************)
(* The inductive invariant behind BuffersReturned and ReferencesLive: the  *)
(* count nourbs, and every copy of it that is about to be written back,    *)
(* never falls below the number of URBs still to be accounted for.         *)
(***************************************************************************)

NotYet(c, i) ==
    /\ pc[c] \in {"link", "submit", "decr"}
    /\ i <= nurbs[c]
    /\ pc[c] = "link" \/ k[c] <= i

\* to be submitted, with the kernel, or reaped but not yet counted down
Outstanding(c) ==
    {i \in Urbs : \/ NotYet(c, i)
                  \/ kern[c][i] # "none"
                  \/ rpc \in {"lock", "dec"} /\ InHand(c) /\ cur.urb = i}

ReaperPhase ==
    /\ running <=> rpc \in {"poll"} \union HandT
    /\ cur # NoUrb <=> rpc \in HandT
    /\ ~isOpen => rpc = "exit" /\ \A c \in Clients, i \in Urbs : kern[c][i] = "none"
    /\ closing => isOpen
    /\ rpc # "walk" => todo = {}

ClientPhase(c) ==
    /\ c \in reqs <=> pc[c] \notin {"idle", "link"}
    /\ c \in todo => c \in reqs
    /\ pc[c] = "idle" => nourbs[c] = 0
    /\ pc[c] = "submit" => k[c] \in 1..(nurbs[c] + 1)
    /\ pc[c] = "decr" => k[c] \in 1..nurbs[c]
    /\ pc[c] = "tocancel" => k[c] \in 0..nurbs[c]
    /\ hcancel[c] \/ pc[c] = "token" => c \in TokenClients
    /\ hcancel[c] => pc[c] \in {"check", "wait", "tocancel", "drain", "result", "done"}
    /\ cix[c] >= 0 => hcancel[c]

\* What is outstanding is a URB of this request, in one place only.
Placed(c) ==
    /\ \A i \in Urbs : kern[c][i] # "none" => i <= nurbs[c] /\ ~NotYet(c, i)
    /\ InHand(c) => /\ cur.urb <= nurbs[c] /\ ~NotYet(c, cur.urb)
                    /\ rpc \in {"lock", "dec"} => kern[c][cur.urb] = "none"
    /\ pc[c] \in {"idle", "link", "result", "done", "unlink"} =>
         ~InHand(c) /\ \A i \in Urbs : kern[c][i] = "none"
    /\ pc[c] = "tocancel" => ~(rpc \in {"dec", "check", "cancel"} /\ InHand(c))

Counted(c) ==
    /\ nourbs[c] >= Cardinality(Outstanding(c))
    /\ pc[c] = "decr" => ctmp[c] >= Cardinality(Outstanding(c))
    /\ rpc = "dec" /\ InHand(c) => rtmp >= Cardinality(Outstanding(c))

IInv ==
    /\ TypeOK
    /\ ReaperPhase
    /\ \A c \in Clients : ClientPhase(c)
    /\ running => \A c \in Clients : Placed(c) /\ Counted(c)
=============================================================================
