--------------------------- MODULE UsbLoan_proofs ---------------------------
(***************************************************************************)
(* The USB transfer engine implements BufferLoan, for every number of      *)
(* clients and URBs: what is promised about the caller's buffer holds of   *)
(* every step of every thread.  The inductive invariant of                 *)
(* UsbTransfer_proofs says where each URB is; here every action is mapped  *)
(* to an operation on the loan, or to none.                                *)
(***************************************************************************)
EXTENDS UsbTransfer_proofs

\* The variables of the loan, in the order of BufferLoan's operators.
Busy == [c \in Clients |-> pc[c] # "idle"]
AllLent == [c \in Clients |-> Lent(c)]

\* A step that lends and returns nothing: no client starts or ends.
LoanSame == UNCHANGED <<Busy, AllLent, running>>

\* No transfer starts or ends if each client's place stays idle or stays not.
LEMMA BusySame ==
    ASSUME \A c \in Clients : (pc[c] = "idle") <=> (pc'[c] = "idle")
    PROVE  Busy' = Busy
BY DEF Busy

\* The pieces lent depend on the kernel's URBs and the one in hand alone.
LEMMA LentSame ==
    ASSUME \A c \in Clients : Lent(c)' = Lent(c)
    PROVE  AllLent' = AllLent
BY DEF AllLent

\* Discarding a URB leaves it with the kernel.
LEMMA DiscardKeeps ==
    ASSUME TypeOK, NEW c \in Clients, NEW i \in Urbs
    PROVE  \A d \in Clients, j \in Urbs :
              Discarded(kern, c, i)[d][j] = "none" <=> kern[d][j] = "none"
BY DEF TypeOK, Discarded, KernT, Done

\* Cancelling URBs lends and returns nothing: the kernel still has them.
LEMMA CancelLoan ==
    ASSUME TypeOK, NEW c \in Clients, NEW i \in Urbs, CancelUrb(c, i), cur' = cur
    PROVE  AllLent' = AllLent
<1>1. \A d \in Clients, j \in Urbs : kern'[d][j] = "none" <=> kern[d][j] = "none"
  BY DiscardKeeps DEF CancelUrb
<1> QED BY <1>1 DEF AllLent, Lent, InHand

\* The steps that only move a client on within its transfer, or touch nothing
\* the loan is made of.
LEMMA QuietStep ==
    ASSUME TypeOK, NEW c \in Clients, NEW x, pc[c] # "idle", x # "idle",
           pc' = pc \/ pc' = [pc EXCEPT ![c] = x],
           AllLent' = AllLent, running' = running
    PROVE  LoanSame
<1>1. \A d \in Clients : (pc[d] = "idle") <=> (pc'[d] = "idle")
  BY DEF TypeOK
<1> QED BY <1>1, BusySame DEF LoanSame

\* The pieces lent are the same while the kernel and the reaper have the same URBs.
LEMMA KernelSame ==
    ASSUME kern' = kern, cur' = cur
    PROVE  AllLent' = AllLent
BY DEF AllLent, Lent, InHand

\* Nothing is with the kernel or in hand: nothing is lent.
LEMMA NothingLent ==
    ASSUME NEW c \in Clients, ~InHand(c), \A i \in Urbs : kern[c][i] = "none"
    PROVE  Lent(c) = {}
BY DEF Lent

\* A transfer starts: a client that was idle, with the port served.
LEMMA BeginLoan ==
    ASSUME IInv, NEW c \in Clients, NEW n \in Urbs, Begin(c, n)
    PROVE  Loan!BeginTransfer(c)
<1>1. AllLent' = AllLent
  BY KernelSame DEF Begin, reaperVars
<1>2. Busy' = [Busy EXCEPT ![c] = TRUE]
  BY DEF Begin, Busy, IInv, TypeOK
<1>3. ~Busy[c]
  BY DEF Busy, Begin
<1> QED BY <1>1, <1>2, <1>3 DEF Begin, portVars, Loan!BeginTransfer, Busy, AllLent

\* A URB is submitted: its piece is lent.  (When nobody collects the URBs any
\* more a piece could be lent twice, which changes nothing.)
LEMMA SubmitLoan ==
    ASSUME IInv, NEW c \in Clients, Submit(c)
    PROVE  LoanSame \/ \E i \in Urbs : Loan!Lend(c, i)
<1> DEFINE i == k[c]
<1>1. i \in Urbs /\ pc[c] = "submit" /\ cur' = cur /\ running' = running /\ pc' = pc
      /\ kern' = [kern EXCEPT ![c][i] = "flight"]
  BY MaxUrbsAssumption DEF Submit, IInv, ClientPhase, TypeOK, Urbs, portVars, reaperVars
<1> HIDE DEF i
<1>2. Busy' = Busy /\ Busy[c]
  BY <1>1 DEF Busy
<1>3. \A d \in Clients : Lent(d)' = IF d = c THEN Lent(d) \union {i} ELSE Lent(d)
  <2>1. \A d \in Clients, j \in Urbs :
           kern'[d][j] # "none" <=> kern[d][j] # "none" \/ (d = c /\ j = i)
    BY <1>1 DEF IInv, TypeOK
  <2> QED BY <1>1, <2>1 DEF Lent, InHand
<1>4. AllLent' = [AllLent EXCEPT ![c] = @ \union {i}]
  BY <1>3 DEF AllLent
<1>5. CASE i \in AllLent[c]
  BY <1>1, <1>2, <1>4, <1>5 DEF LoanSame, AllLent
<1>6. CASE i \notin AllLent[c]
  BY <1>1, <1>2, <1>4, <1>6 DEF Loan!Lend, Busy, AllLent
<1> QED BY <1>5, <1>6

\* A transfer returns: while the port is served it has everything back.
LEMMA ReturnLoan ==
    ASSUME IInv, NEW c \in Clients, Return(c)
    PROVE  Loan!EndTransfer(c)
<1>1. AllLent' = AllLent
  BY KernelSame DEF Return, reaperVars
<1>2. Busy' = [Busy EXCEPT ![c] = FALSE] /\ Busy[c]
  BY DEF Return, Busy, IInv, TypeOK
<1>3. running => AllLent[c] = {}
  BY NothingLent DEF Return, IInv, Placed, AllLent
<1> QED BY <1>1, <1>2, <1>3 DEF Return, Loan!EndTransfer, Busy, AllLent

\* Every other step of a client is its own business.
LEMMA ClientLoan ==
    ASSUME IInv, NEW c \in Clients, ClientStep(c)
    PROVE  \/ LoanSame \/ Loan!EndTransfer(c)
           \/ \E i \in Urbs : Loan!Lend(c, i)
<1>t. TypeOK
  BY DEF IInv
<1>1. CASE Link(c) \/ SubmitFails(c) \/ SubmitFailsDecrement(c) \/ Submitted(c) \/ SetToken(c)
           \/ CheckOutstanding(c) \/ TimeoutCancelled(c) \/ ComputeResult(c) \/ ClearToken(c)
  <2>1. kern' = kern /\ cur' = cur /\ running' = running /\ pc[c] # "idle"
    BY <1>1 DEF Link, SubmitFails, SubmitFailsDecrement, Submitted, SetToken,
       CheckOutstanding, TimeoutCancelled, ComputeResult, ClearToken, portVars, reaperVars, urbVars
  <2>2. \E x : x # "idle" /\ pc' = [pc EXCEPT ![c] = x]
    BY <1>1 DEF Link, SubmitFails, SubmitFailsDecrement, Submitted, SetToken,
       CheckOutstanding, TimeoutCancelled, ComputeResult, ClearToken, DrainOrFinish
  <2> QED BY <1>t, <2>1, <2>2, KernelSame, QuietStep
<1>2. CASE Submit(c)
  BY <1>2, SubmitLoan
<1>3. CASE TimeoutCancels(c)
  <2>1. k[c] \in Urbs
    BY <1>3, MaxUrbsAssumption DEF IInv, ClientPhase, TypeOK, TimeoutCancels, Urbs
  <2>2. AllLent' = AllLent
    BY <1>t, <1>3, <2>1, CancelLoan DEF TimeoutCancels, reaperVars
  <2> QED BY <1>t, <1>3, <2>2, QuietStep DEF TimeoutCancels, portVars
<1>4. CASE Return(c)
  BY <1>4, ReturnLoan
<1> QED BY <1>1, <1>2, <1>3, <1>4 DEF ClientStep

\* A reaped URB passes from the kernel into the reaper's hand: still lent.
LEMMA ReapLoan ==
    ASSUME IInv, NEW c \in Clients, NEW i \in Urbs, Reap(c, i)
    PROVE  LoanSame
<1>1. cur = NoUrb /\ kern[c][i] \in Done /\ kern' = [kern EXCEPT ![c][i] = "none"]
      /\ cur' = [req |-> c, urb |-> i, out |-> kern[c][i]]
  BY DEF Reap, IInv, ReaperPhase, HandT
<1>2. cur' # NoUrb
  BY <1>1, NoUrbAssumption DEF Done, Urbs
<1>3. \A d \in Clients : Lent(d)' = Lent(d)
  <2>1. \A d \in Clients, j \in Urbs :
           kern'[d][j] # "none" <=> kern[d][j] # "none" /\ ~(d = c /\ j = i)
    BY <1>1 DEF IInv, TypeOK
  <2>2. kern[c][i] # "none"
    BY <1>1 DEF Done
  <2>3. \A d \in Clients, j \in Urbs :
           /\ (InHand(d)' /\ cur'.urb = j) <=> (d = c /\ j = i)
           /\ ~InHand(d)
    BY <1>1, <1>2 DEF InHand
  <2> QED BY <2>1, <2>2, <2>3 DEF Lent
<1> QED BY <1>3, LentSame DEF LoanSame, Reap, Busy, clientVars, portVars

\* The reaper lets go of the URB in its hand: the piece is given back, unless
\* it is with the kernel again.
LEMMA EndReapLoan ==
    ASSUME IInv, rpc \in HandT, cur' = NoUrb,
           UNCHANGED <<kern, pc, running>>
    PROVE  LoanSame \/ \E c \in Clients, i \in Urbs : Loan!GiveBack(c, i)
<1> DEFINE c == cur.req
           i == cur.urb
<1>1. cur # NoUrb /\ c \in Clients /\ i \in Urbs /\ running
  BY DEF IInv, ReaperPhase, TypeOK, CurT
<1>2. InHand(c) /\ \A d \in Clients : InHand(d) <=> d = c
  BY <1>1 DEF InHand
<1>3. pc[c] # "idle"
  BY <1>1, <1>2 DEF IInv, Placed
<1>4. Busy' = Busy /\ Busy[c]
  BY <1>1, <1>3 DEF Busy
<1>5. \A d \in Clients : Lent(d)' = {j \in Urbs : kern[d][j] # "none"}
  BY DEF Lent, InHand
<1>6. \A d \in Clients :
         Lent(d) = {j \in Urbs : kern[d][j] # "none"} \union (IF d = c THEN {i} ELSE {})
  BY <1>1, <1>2 DEF Lent
<1> HIDE DEF c, i
<1>7. CASE kern[c][i] # "none"
  <2>1. \A d \in Clients : Lent(d)' = Lent(d)
    <3>1. i \in {j \in Urbs : kern[c][j] # "none"}
      BY <1>1, <1>7
    <3> QED BY <1>5, <1>6, <3>1
  <2> QED BY <2>1, <1>4, LentSame DEF LoanSame
<1>8. CASE kern[c][i] = "none"
  <2>1. \A d \in Clients : Lent(d)' = IF d = c THEN Lent(d) \ {i} ELSE Lent(d)
    BY <1>1, <1>5, <1>6, <1>8
  <2>2. AllLent' = [AllLent EXCEPT ![c] = @ \ {i}] /\ i \in AllLent[c]
    BY <1>1, <1>6, <2>1 DEF AllLent
  <2>3. Loan!GiveBack(c, i)
    BY <1>1, <1>4, <2>2 DEF Loan!GiveBack, Busy, AllLent
  <2> QED BY <1>1, <2>3
<1> QED BY <1>7, <1>8

\* The steps of the reaper.
LEMMA ReaperLoan ==
    ASSUME IInv, ReaperStep \/ ReapFails
    PROVE  \/ LoanSame \/ Loan!StopServing
           \/ \E c \in Clients, i \in Urbs : Loan!GiveBack(c, i)
<1>1. CASE \E c \in Clients, i \in Urbs : Reap(c, i)
  BY <1>1, ReapLoan
<1>2. CASE ReaperSignals \/ ReaperCancelled
  <2>1. rpc \in HandT /\ cur' = NoUrb /\ UNCHANGED <<kern, pc, running>>
    BY <1>2 DEF ReaperSignals, ReaperCancelled, EndReap, HandT, portVars,
       urbVars
  <2> QED BY <2>1, EndReapLoan
<1>3. CASE ReaperCancelsUrb
  <2>1. cur.req \in Clients /\ rix \in Urbs
    BY <1>3, MaxUrbsAssumption
    DEF ReaperCancelsUrb, IInv, ReaperPhase, TypeOK, CurT, HandT, Urbs
  <2>2. AllLent' = AllLent
    BY <1>3, <2>1, CancelLoan DEF ReaperCancelsUrb, IInv
  <2> QED BY <1>3, <2>2 DEF ReaperCancelsUrb, LoanSame, Busy, clientVars, portVars
<1>4. CASE ReaperSeesShutdown \/ ReapFails
  <2>1. UNCHANGED <<kern, cur, pc>>
    BY <1>4 DEF ReaperSeesShutdown, ReapFails, clientVars, urbVars
  <2>2. AllLent' = AllLent /\ Busy' = Busy
    BY <2>1, KernelSame DEF Busy
  <2>3. running' = running \/ (running /\ running' = FALSE)
    BY <1>4 DEF ReaperSeesShutdown, ReapFails, ReaperGivesUp, IInv, ReaperPhase
  <2> QED BY <2>2, <2>3 DEF LoanSame, Loan!StopServing, Busy, AllLent
<1>5. CASE ReaperLocks \/ ReaperDecrements \/ ReaperCancels \/ ReaperWalks \/ ReaperExits
           \/ \E c \in Clients : ReaperFailsRequest(c)
  <2>1. UNCHANGED <<kern, cur, pc, running>>
    BY <1>5 DEF ReaperLocks, ReaperDecrements, ReaperCancels, ReaperWalks, ReaperExits,
       ReaperFailsRequest, clientVars, urbVars, portVars
  <2> QED BY <2>1, KernelSame DEF LoanSame, Busy
<1> QED BY <1>1, <1>2, <1>3, <1>4, <1>5 DEF ReaperStep

\* Opening the port has it served again, closing it takes everything back.
LEMMA PortLoan ==
    ASSUME IInv, OpenPort \/ ClosePort \/ ClosePortJoined \/ Unplug
    PROVE  LoanSame \/ Loan!Serve \/ Loan!Reclaim
<1>1. CASE OpenPort
  <2>1. cur = NoUrb /\ ~running
    BY <1>1 DEF OpenPort, IInv, ReaperPhase, HandT
  <2>2. \A c \in Clients : AllLent[c] = {} /\ ~Busy[c]
    BY <1>1, <2>1 DEF OpenPort, IInv, ReaperPhase, AllLent, Lent, InHand, Busy
  <2>3. AllLent' = AllLent /\ Busy' = Busy /\ running'
    BY <1>1, KernelSame DEF OpenPort, Busy, clientVars, urbVars
  <2>4. running' = TRUE
    BY <1>1 DEF OpenPort
  <2> QED BY <2>1, <2>2, <2>3, <2>4 DEF Loan!Serve, Busy, AllLent
<1>2. CASE ClosePort \/ Unplug
  BY <1>2, KernelSame DEF ClosePort, Unplug, LoanSame, Busy, reaperVars, clientVars, urbVars
<1>3. CASE ClosePortJoined
  <2>1. cur' = NoUrb /\ ~running /\ running' = running /\ Busy' = Busy
    BY <1>3 DEF ClosePortJoined, IInv, ReaperPhase, HandT, reaperVars, clientVars, Busy
  <2>2. \A c \in Clients, i \in Urbs : kern'[c][i] = "none"
    BY <1>3 DEF ClosePortJoined
  <2>3. AllLent' = [c \in Clients |-> {}]
    BY <2>1, <2>2 DEF AllLent, Lent, InHand
  <2> QED BY <2>1, <2>3 DEF Loan!Reclaim, Busy, AllLent
<1> QED BY <1>1, <1>2, <1>3

\* The kernel completing a URB, which the reaper will collect, keeps it lent;
\* so do the steps of a canceller and those of a client that waits.
LEMMA OtherLoan ==
    ASSUME IInv, NEW c \in Clients,
           \/ Refuse(c) \/ Wake(c) \/ TimesOut(c) \/ CancelIo(c) \/ CancellerStep(c)
           \/ \E i \in Urbs : KernelCompletes(c, i)
    PROVE  LoanSame
<1>t. TypeOK
  BY DEF IInv
<1>1. CASE Wake(c) \/ TimesOut(c)
  <2>1. kern' = kern /\ cur' = cur /\ running' = running /\ pc[c] # "idle"
    BY <1>1 DEF Wake, TimesOut, portVars, reaperVars, urbVars
  <2>2. \E x : x # "idle" /\ pc' = [pc EXCEPT ![c] = x]
    BY <1>1, <2>1 DEF Wake, TimesOut, DrainOrFinish
  <2> QED BY <1>t, <2>1, <2>2, KernelSame, QuietStep
<1>2. CASE Refuse(c) \/ CancelIo(c) \/ CancelIoDone(c)
  BY <1>2, KernelSame
  DEF Refuse, CancelIo, CancelIoDone, LoanSame, Busy, portVars, reaperVars, clientVars, urbVars
<1>3. CASE CancelIoUrb(c)
  <2>1. cix[c] \in Urbs
    BY <1>t, <1>3, MaxUrbsAssumption DEF TypeOK, CancelIoUrb, Urbs
  <2>2. AllLent' = AllLent
    BY <1>t, <1>3, <2>1, CancelLoan DEF CancelIoUrb, reaperVars
  <2> QED BY <1>3, <2>2 DEF CancelIoUrb, LoanSame, Busy, clientVars, portVars
<1>4. ASSUME NEW i \in Urbs, KernelCompletes(c, i)
      PROVE  LoanSame
  <2>1. \A d \in Clients, j \in Urbs : kern'[d][j] = "none" <=> kern[d][j] = "none"
    BY <1>t, <1>4, ResultsAssumption DEF TypeOK, KernelCompletes
  <2>2. AllLent' = AllLent
    BY <1>4, <2>1 DEF KernelCompletes, AllLent, Lent, InHand, reaperVars
  <2> QED BY <1>4, <2>2 DEF KernelCompletes, LoanSame, Busy, clientVars, portVars
<1> QED BY <1>1, <1>2, <1>3, <1>4 DEF CancellerStep

\* Every step of the engine is an operation on the loan, or none.
LEMMA LoanStep == IInv /\ [Next]_vars => [Loan!LoanNext]_(Loan!loanVars)
<1> SUFFICES ASSUME IInv, [Next]_vars
             PROVE  LoanSame \/ Loan!LoanNext
  BY DEF LoanSame, Loan!loanVars, Busy, AllLent
<1>1. CASE UNCHANGED vars
  BY <1>1, KernelSame DEF LoanSame, Busy, vars, portVars, reaperVars, clientVars, urbVars
<1>2. ASSUME NEW c \in Clients, NEW n \in Urbs, Begin(c, n)
      PROVE  Loan!LoanNext
  BY <1>2, BeginLoan DEF Loan!LoanNext
<1>3. ASSUME NEW c \in Clients, ClientStep(c)
      PROVE  LoanSame \/ Loan!LoanNext
  BY <1>3, ClientLoan DEF Loan!LoanNext
<1>4. ASSUME NEW c \in Clients,
             \/ Refuse(c) \/ Wake(c) \/ TimesOut(c) \/ CancelIo(c) \/ CancellerStep(c)
             \/ \E i \in Urbs : KernelCompletes(c, i)
      PROVE  LoanSame
  BY <1>4, OtherLoan
<1>5. CASE ReaperStep \/ ReapFails
  BY <1>5, ReaperLoan DEF Loan!LoanNext
<1>6. CASE OpenPort \/ ClosePort \/ ClosePortJoined \/ Unplug
  BY <1>6, PortLoan DEF Loan!LoanNext
<1> QED BY <1>1, <1>2, <1>3, <1>4, <1>5, <1>6 DEF Next

\* The engine starts with nothing lent and no transfer under way.
LEMMA LoanInitially == Init => Loan!LoanInit
<1> SUFFICES ASSUME Init
             PROVE  Loan!LoanInit
  OBVIOUS
<1>1. \A c \in Clients : Lent(c) = {}
  BY DEF Init, Lent, InHand
<1> QED BY <1>1 DEF Init, Loan!LoanInit

\* The engine implements the promise about the caller's buffers: while the
\* reaper serves the port a transaction only returns when the kernel and the
\* reaper have let go of every URB, in whatever way it ended.
THEOREM UsbImplementsLoan == Spec => ImplementsLoan
<1>1. Init => Loan!LoanInit
  BY LoanInitially
<1>2. IInv /\ [Next]_vars => [Loan!LoanNext]_(Loan!loanVars)
  BY LoanStep
<1>3. Spec => []IInv
  BY UsbInductive
<1> QED
  BY <1>1, <1>2, <1>3, PTL DEF Spec, ImplementsLoan, Loan!LoanSpec
=============================================================================
