--------------------------- MODULE UsbCancel_proofs ---------------------------
(***************************************************************************)
(* The proof of NoCancelUnasked, for every set of clients and every number *)
(* of URBs.  A URB of a transfer without a token can only be a cancelled   *)
(* one after a time out, or behind a URB that failed, came back short or   *)
(* was not submitted: the loop that computes the result meets that one     *)
(* first.                                                                  *)
(***************************************************************************)
EXTENDS UsbTransfer_proofs

\* URB j has been dealt with, and was not transferred in full.
EndedBy(c, j) ==
    /\ stat[c][j] \in {"part", "err", "nomsg"} /\ kern[c][j] = "none"
    /\ pc[c] # "link"
    /\ pc[c] = "submit" => j < k[c]
    /\ pc[c] = "decr" => j <= k[c]

\* Nobody can have asked for the end of c's transfer, which is not over.
Unasked(c) ==
    /\ ~hcancel[c] /\ reqrv[c] # "to"
    /\ pc[c] \in {"link", "submit", "decr", "check", "wait", "result"}

CancelPhase(c) ==
    /\ pc[c] \in {"tocancel", "drain"} => reqrv[c] = "to"
    /\ Unasked(c) => \A i \in Urbs : stat[c][i] = "canc" \/ kern[c][i] = "canc"
                       => \E j \in 1..(i - 1) : EndedBy(c, j)
    /\ Unasked(c) /\ InHand(c) /\ cur.out # "full" => \E j \in 1..cur.urb : EndedBy(c, j)

\* The reaper only cancels behind a URB that did not come back in full.
ReaperCancelPhase == rpc = "cancel" => cur.out # "full"

CInv == IInv /\ ReaperCancelPhase /\ \A c \in Clients : CancelPhase(c)

\* What of a request the steps of others leave alone.
RowSame(c) ==
    /\ stat'[c] = stat[c] /\ kern'[c] = kern[c]
    /\ pc'[c] = pc[c] /\ k'[c] = k[c] /\ reqrv'[c] = reqrv[c]
    /\ hcancel'[c] = hcancel[c]

\* A step that leaves the request alone and gives the reaper none of its URBs
\* keeps what is known of its cancelling.
LEMMA CancelFrame ==
    ASSUME NEW c \in Clients, CancelPhase(c), RowSame(c), InHand(c)' => cur' = cur
    PROVE  CancelPhase(c)'
<1>1. \A j : EndedBy(c, j)' <=> EndedBy(c, j)
  BY DEF EndedBy, RowSame
<1>2. Unasked(c)' <=> Unasked(c)
  BY DEF Unasked, RowSame
<1>3. InHand(c)' => InHand(c) /\ cur' = cur
  BY DEF InHand
<1> QED
  BY <1>1, <1>2, <1>3 DEF CancelPhase, RowSame

\* A step that adds no cancelled URB, gives the reaper none and leaves those
\* that ended the transfer as they are keeps what is known of its cancelling.
LEMMA CancelKept ==
    ASSUME NEW c \in Clients, CancelPhase(c), InHand(c)' => cur' = cur,
           cur # NoUrb => cur.urb \in Urbs, MaxUrbs \in Nat,
           reqrv'[c] = reqrv[c], pc'[c] \in {"tocancel", "drain"} => pc'[c] = pc[c],
           Unasked(c)' => Unasked(c),
           \A i \in Urbs : stat'[c][i] = "canc" => stat[c][i] = "canc",
           \A i \in Urbs : kern'[c][i] = "canc" => kern[c][i] = "canc",
           Unasked(c)' => \A j \in Urbs : EndedBy(c, j) => EndedBy(c, j)'
    PROVE  CancelPhase(c)'
<1>1. InHand(c)' => InHand(c) /\ cur' = cur /\ cur.urb \in Urbs
  BY DEF InHand
<1>2. ASSUME Unasked(c)', NEW i \in Urbs, stat'[c][i] = "canc" \/ kern'[c][i] = "canc"
      PROVE  \E j \in 1..(i - 1) : EndedBy(c, j)'
  <2>1. PICK j \in 1..(i - 1) : EndedBy(c, j)
    BY <1>2 DEF CancelPhase
  <2>2. j \in Urbs
    BY <1>2 DEF Urbs
  <2> QED
    BY <1>2, <2>1, <2>2
<1>3. ASSUME Unasked(c)', InHand(c)', cur'.out # "full"
      PROVE  \E j \in 1..cur'.urb : EndedBy(c, j)'
  <2>1. PICK j \in 1..cur.urb : EndedBy(c, j)
    BY <1>1, <1>3 DEF CancelPhase
  <2>2. j \in Urbs
    BY <1>1, <1>3 DEF Urbs
  <2> QED
    BY <1>1, <1>3, <2>1, <2>2
<1> QED
  BY <1>2, <1>3 DEF CancelPhase

\* The steps of the clients: what a client does to its own request, and to no
\* other, keeps what is known of its cancelling.
LEMMA ClientCancelStep ==
    ASSUME CInv, NEW c \in Clients, NEW d \in Clients,
           Refuse(c) \/ (\E n \in Urbs : Begin(c, n)) \/ ClientStep(c) \/ Wake(c) \/ TimesOut(c)
    PROVE  CancelPhase(d)'
<1> USE DEF Urbs
<1>1. /\ TypeOK /\ ReaperPhase /\ ClientPhase(c) /\ CancelPhase(c) /\ CancelPhase(d)
      /\ running => Placed(c)
  BY DEF CInv, IInv
<1>2. MaxUrbs \in Nat /\ (cur # NoUrb => cur.urb \in Urbs)
  BY <1>1, MaxUrbsAssumption DEF TypeOK, CurT
<1>3. UNCHANGED <<rpc, cur>>
  BY DEF ClientStep, Refuse, Begin, Wake, TimesOut, Link, Submit, SubmitFails,
         SubmitFailsDecrement, Submitted, SetToken, CheckOutstanding, TimeoutCancels,
         TimeoutCancelled, ComputeResult, ClearToken, Return, reaperVars
<1>4. CASE c # d
  <2>1. RowSame(d)
    BY <1>1, <1>4 DEF RowSame, TypeOK, ClientStep, Refuse, Begin, Wake, TimesOut, Link, Submit,
           SubmitFails, SubmitFailsDecrement, Submitted, SetToken, CheckOutstanding,
           TimeoutCancels, TimeoutCancelled, ComputeResult, ClearToken, Return, CancelUrb,
           Discarded, urbVars, clientVars, tokenVars
  <2> QED
    BY <1>1, <1>3, <2>1, CancelFrame DEF InHand
<1>5. CancelPhase(c)'
  <2>1. CASE Link(c)
    <3>1. /\ reqrv'[c] = reqrv[c] /\ (pc'[c] \in {"tocancel", "drain"} => pc'[c] = pc[c])
          /\ Unasked(c)' => Unasked(c)
      BY <1>1, <2>1 DEF Link, TypeOK, Unasked, tokenVars
    <3>2. \A i \in Urbs : /\ stat'[c][i] = "canc" => stat[c][i] = "canc"
                          /\ kern'[c][i] = "canc" => kern[c][i] = "canc"
      BY <1>1, <2>1 DEF Link, TypeOK, urbVars
    <3>3. ASSUME Unasked(c)', NEW j \in Urbs, EndedBy(c, j) PROVE EndedBy(c, j)'
      BY <1>1, <2>1, <3>3 DEF Link, TypeOK, EndedBy, Unasked, urbVars
    <3>4. InHand(c)' => cur' = cur
      BY <1>3
    <3> QED
      BY <1>1, <1>2, <3>1, <3>2, <3>3, <3>4, CancelKept
  <2>2. CASE Submit(c)
    <3>1. /\ reqrv'[c] = reqrv[c] /\ (pc'[c] \in {"tocancel", "drain"} => pc'[c] = pc[c])
          /\ Unasked(c)' => Unasked(c)
      BY <1>1, <2>2 DEF Submit, TypeOK, Unasked, tokenVars
    <3>2. \A i \in Urbs : /\ stat'[c][i] = "canc" => stat[c][i] = "canc"
                          /\ kern'[c][i] = "canc" => kern[c][i] = "canc"
      BY <1>1, <2>2 DEF Submit, TypeOK, urbVars
    <3>3. ASSUME Unasked(c)', NEW j \in Urbs, EndedBy(c, j) PROVE EndedBy(c, j)'
      BY <1>1, <2>2, <3>3 DEF Submit, TypeOK, EndedBy, Unasked, urbVars
    <3>4. InHand(c)' => cur' = cur
      BY <1>3
    <3> QED
      BY <1>1, <1>2, <3>1, <3>2, <3>3, <3>4, CancelKept
  <2>3. CASE SubmitFails(c)
    <3>1. /\ reqrv'[c] = reqrv[c] /\ (pc'[c] \in {"tocancel", "drain"} => pc'[c] = pc[c])
          /\ Unasked(c)' => Unasked(c)
      BY <1>1, <2>3 DEF SubmitFails, TypeOK, Unasked, tokenVars
    <3>2. \A i \in Urbs : /\ stat'[c][i] = "canc" => stat[c][i] = "canc"
                          /\ kern'[c][i] = "canc" => kern[c][i] = "canc"
      BY <1>1, <2>3 DEF SubmitFails, TypeOK, urbVars
    <3>3. ASSUME Unasked(c)', NEW j \in Urbs, EndedBy(c, j) PROVE EndedBy(c, j)'
      BY <1>1, <2>3, <3>3 DEF SubmitFails, TypeOK, EndedBy, Unasked, urbVars
    <3>4. InHand(c)' => cur' = cur
      BY <1>3
    <3> QED
      BY <1>1, <1>2, <3>1, <3>2, <3>3, <3>4, CancelKept
  <2>4. CASE SubmitFailsDecrement(c)
    <3>1. /\ reqrv'[c] = reqrv[c] /\ (pc'[c] \in {"tocancel", "drain"} => pc'[c] = pc[c])
          /\ Unasked(c)' => Unasked(c)
      BY <1>1, <2>4 DEF SubmitFailsDecrement, TypeOK, Unasked, tokenVars
    <3>2. \A i \in Urbs : /\ stat'[c][i] = "canc" => stat[c][i] = "canc"
                          /\ kern'[c][i] = "canc" => kern[c][i] = "canc"
      BY <1>1, <2>4 DEF SubmitFailsDecrement, TypeOK, urbVars
    <3>3. ASSUME Unasked(c)', NEW j \in Urbs, EndedBy(c, j) PROVE EndedBy(c, j)'
      BY <1>1, <2>4, <3>3 DEF SubmitFailsDecrement, TypeOK, EndedBy, Unasked, urbVars
    <3>4. InHand(c)' => cur' = cur
      BY <1>3
    <3> QED
      BY <1>1, <1>2, <3>1, <3>2, <3>3, <3>4, CancelKept
  <2>5. CASE Submitted(c)
    <3>1. /\ reqrv'[c] = reqrv[c] /\ (pc'[c] \in {"tocancel", "drain"} => pc'[c] = pc[c])
          /\ Unasked(c)' => Unasked(c)
      BY <1>1, <2>5 DEF Submitted, TypeOK, Unasked, tokenVars
    <3>2. \A i \in Urbs : /\ stat'[c][i] = "canc" => stat[c][i] = "canc"
                          /\ kern'[c][i] = "canc" => kern[c][i] = "canc"
      BY <1>1, <2>5 DEF Submitted, TypeOK, urbVars
    <3>3. ASSUME Unasked(c)', NEW j \in Urbs, EndedBy(c, j) PROVE EndedBy(c, j)'
      BY <1>1, <2>5, <3>3 DEF Submitted, TypeOK, EndedBy, Unasked, urbVars
    <3>4. InHand(c)' => cur' = cur
      BY <1>3
    <3> QED
      BY <1>1, <1>2, <3>1, <3>2, <3>3, <3>4, CancelKept
  <2>6. CASE SetToken(c)
    <3>1. /\ reqrv'[c] = reqrv[c] /\ (pc'[c] \in {"tocancel", "drain"} => pc'[c] = pc[c])
          /\ Unasked(c)' => Unasked(c)
      BY <1>1, <2>6 DEF SetToken, TypeOK, Unasked, tokenVars
    <3>2. \A i \in Urbs : /\ stat'[c][i] = "canc" => stat[c][i] = "canc"
                          /\ kern'[c][i] = "canc" => kern[c][i] = "canc"
      BY <1>1, <2>6 DEF SetToken, TypeOK, urbVars
    <3>3. ASSUME Unasked(c)', NEW j \in Urbs, EndedBy(c, j) PROVE EndedBy(c, j)'
      BY <1>1, <2>6, <3>3 DEF SetToken, TypeOK, EndedBy, Unasked, urbVars
    <3>4. InHand(c)' => cur' = cur
      BY <1>3
    <3> QED
      BY <1>1, <1>2, <3>1, <3>2, <3>3, <3>4, CancelKept
  <2>7. CASE CheckOutstanding(c)
    <3>1. /\ reqrv'[c] = reqrv[c] /\ (pc'[c] \in {"tocancel", "drain"} => pc'[c] = pc[c])
          /\ Unasked(c)' => Unasked(c)
      BY <1>1, <2>7 DEF CheckOutstanding, TypeOK, Unasked, tokenVars
    <3>2. \A i \in Urbs : /\ stat'[c][i] = "canc" => stat[c][i] = "canc"
                          /\ kern'[c][i] = "canc" => kern[c][i] = "canc"
      BY <1>1, <2>7 DEF CheckOutstanding, TypeOK, urbVars
    <3>3. ASSUME Unasked(c)', NEW j \in Urbs, EndedBy(c, j) PROVE EndedBy(c, j)'
      BY <1>1, <2>7, <3>3 DEF CheckOutstanding, TypeOK, EndedBy, Unasked, urbVars
    <3>4. InHand(c)' => cur' = cur
      BY <1>3
    <3> QED
      BY <1>1, <1>2, <3>1, <3>2, <3>3, <3>4, CancelKept
  <2>8. CASE Wake(c)
    <3>1. /\ reqrv'[c] = reqrv[c] /\ (pc'[c] \in {"tocancel", "drain"} => pc'[c] = pc[c])
          /\ Unasked(c)' => Unasked(c)
      BY <1>1, <2>8 DEF Wake, TypeOK, Unasked, CancelPhase, tokenVars
    <3>2. \A i \in Urbs : /\ stat'[c][i] = "canc" => stat[c][i] = "canc"
                          /\ kern'[c][i] = "canc" => kern[c][i] = "canc"
      BY <1>1, <2>8 DEF Wake, TypeOK, urbVars
    <3>3. ASSUME Unasked(c)', NEW j \in Urbs, EndedBy(c, j) PROVE EndedBy(c, j)'
      BY <1>1, <2>8, <3>3 DEF Wake, TypeOK, EndedBy, Unasked, urbVars
    <3>4. InHand(c)' => cur' = cur
      BY <1>3
    <3> QED
      BY <1>1, <1>2, <3>1, <3>2, <3>3, <3>4, CancelKept
  <2>9. CASE Refuse(c)
    <3>1. ~Unasked(c)'
      BY <1>1, <2>9 DEF Refuse, TypeOK, Unasked, CancelPhase, DrainOrFinish
    <3>2. pc'[c] \in {"tocancel", "drain"} => reqrv'[c] = "to"
      BY <1>1, <2>9 DEF Refuse, TypeOK, CancelPhase, DrainOrFinish
    <3> QED
      BY <3>1, <3>2 DEF CancelPhase
  <2>10. CASE TimesOut(c)
    <3>1. ~Unasked(c)'
      BY <1>1, <2>10 DEF TimesOut, TypeOK, Unasked, CancelPhase, DrainOrFinish
    <3>2. pc'[c] \in {"tocancel", "drain"} => reqrv'[c] = "to"
      BY <1>1, <2>10 DEF TimesOut, TypeOK, CancelPhase, DrainOrFinish
    <3> QED
      BY <3>1, <3>2 DEF CancelPhase
  <2>11. CASE TimeoutCancels(c)
    <3>1. ~Unasked(c)'
      BY <1>1, <2>11 DEF TimeoutCancels, TypeOK, Unasked, CancelPhase, DrainOrFinish
    <3>2. pc'[c] \in {"tocancel", "drain"} => reqrv'[c] = "to"
      BY <1>1, <2>11 DEF TimeoutCancels, TypeOK, CancelPhase, DrainOrFinish
    <3> QED
      BY <3>1, <3>2 DEF CancelPhase
  <2>12. CASE TimeoutCancelled(c)
    <3>1. ~Unasked(c)'
      BY <1>1, <2>12 DEF TimeoutCancelled, TypeOK, Unasked, CancelPhase, DrainOrFinish
    <3>2. pc'[c] \in {"tocancel", "drain"} => reqrv'[c] = "to"
      BY <1>1, <2>12 DEF TimeoutCancelled, TypeOK, CancelPhase, DrainOrFinish
    <3> QED
      BY <3>1, <3>2 DEF CancelPhase
  <2>13. CASE ClearToken(c)
    <3>1. ~Unasked(c)'
      BY <1>1, <2>13 DEF ClearToken, TypeOK, Unasked, CancelPhase, DrainOrFinish
    <3>2. pc'[c] \in {"tocancel", "drain"} => reqrv'[c] = "to"
      BY <1>1, <2>13 DEF ClearToken, TypeOK, CancelPhase, DrainOrFinish
    <3> QED
      BY <3>1, <3>2 DEF CancelPhase
  <2>14. CASE Return(c)
    <3>1. ~Unasked(c)'
      BY <1>1, <2>14 DEF Return, TypeOK, Unasked, CancelPhase, DrainOrFinish
    <3>2. pc'[c] \in {"tocancel", "drain"} => reqrv'[c] = "to"
      BY <1>1, <2>14 DEF Return, TypeOK, CancelPhase, DrainOrFinish
    <3> QED
      BY <3>1, <3>2 DEF CancelPhase
  <2>15. CASE \E n \in Urbs : Begin(c, n)
    <3>1. PICK n \in Urbs : Begin(c, n)
      BY <2>15
    <3>2. ~InHand(c) /\ \A i \in Urbs : kern[c][i] = "none"
      BY <1>1, <3>1 DEF Begin, Placed
    <3>3. ~InHand(c)' /\ \A i \in Urbs : kern'[c][i] = "none" /\ stat'[c][i] = "inprog"
      BY <1>1, <3>1, <3>2 DEF Begin, TypeOK, InHand, reaperVars
    <3>4. reqrv'[c] = "ok" /\ pc'[c] = "link"
      BY <1>1, <3>1 DEF Begin, TypeOK
    <3> QED
      BY <3>3, <3>4 DEF CancelPhase
  <2>16. CASE ComputeResult(c)
    <3>1. pc'[c] \in {"done", "unlink"} /\ reqrv'[c] = Overall(reqrv[c], stat[c], nurbs[c])
      BY <1>1, <2>16 DEF ComputeResult, TypeOK
    <3> QED
      BY <3>1 DEF CancelPhase, Unasked
  <2> QED
    BY <2>1, <2>2, <2>3, <2>4, <2>5, <2>6, <2>7, <2>8, <2>9, <2>10, <2>11, <2>12,
       <2>13, <2>14, <2>15, <2>16 DEF ClientStep
<1> QED
  BY <1>4, <1>5

\* The steps of a canceller and of the kernel.
LEMMA KernelCancelStep ==
    ASSUME CInv, NEW c \in Clients, NEW d \in Clients,
           CancelIo(c) \/ CancellerStep(c) \/ (\E i \in Urbs : KernelCompletes(c, i))
    PROVE  CancelPhase(d)'
<1>1. TypeOK /\ ClientPhase(c) /\ CancelPhase(c) /\ CancelPhase(d)
  BY DEF CInv, IInv
<1>2. MaxUrbs \in Nat /\ (cur # NoUrb => cur.urb \in Urbs)
  BY <1>1, MaxUrbsAssumption DEF TypeOK, CurT, Urbs
<1>3. UNCHANGED <<cur, pc, k, reqrv>>
  BY DEF CancelIo, CancellerStep, CancelIoUrb, CancelIoDone, KernelCompletes, reaperVars,
         clientVars
<1>4. InHand(d)' => cur' = cur
  BY <1>3
<1>5. CASE c # d \/ CancelIo(c) \/ CancelIoDone(c)
  <2>1. RowSame(d)
    BY <1>1, <1>3, <1>5 DEF RowSame, TypeOK, CancelIo, CancellerStep, CancelIoUrb,
           CancelIoDone, KernelCompletes, CancelUrb, Discarded, urbVars, tokenVars
  <2> QED
    BY <1>1, <1>4, <2>1, CancelFrame
<1>6. CASE CancelIoUrb(c) /\ c = d
  <2>1. hcancel[c] /\ hcancel' = hcancel
    BY <1>1, <1>6 DEF CancelIoUrb, ClientPhase, TypeOK
  <2> QED
    BY <1>1, <1>3, <1>6, <2>1 DEF CancelPhase, Unasked
<1>7. CASE (\E i \in Urbs : KernelCompletes(c, i)) /\ c = d
  <2>1. PICK i \in Urbs : KernelCompletes(c, i)
    BY <1>7
  <2>2. /\ kern[c][i] = "flight" /\ stat' = stat
        /\ \E out \in {"full", "part", "err"} : kern' = [kern EXCEPT ![c][i] = out]
    BY <2>1, ResultsAssumption DEF KernelCompletes
  <2>3. \A j \in Urbs : /\ kern'[c][j] = "canc" => kern[c][j] = "canc"
                        /\ kern[c][j] = "none" => kern'[c][j] = "none"
    BY <1>1, <2>2 DEF TypeOK
  <2>4. \A j \in Urbs : EndedBy(c, j) => EndedBy(c, j)'
    BY <1>3, <2>2, <2>3 DEF EndedBy
  <2>5. Unasked(c)' <=> Unasked(c)
    BY <1>3, <2>1 DEF Unasked, KernelCompletes, tokenVars
  <2> QED
    BY <1>1, <1>2, <1>3, <1>4, <1>7, <2>2, <2>3, <2>4, <2>5, CancelKept
<1> QED
  BY <1>5, <1>6, <1>7 DEF CancellerStep

\* The reaper takes a URB in hand: one that did not come back in full ended the
\* transfer, or was cancelled behind one that did.
LEMMA ReapCancelStep ==
    ASSUME CInv, NEW c \in Clients, NEW i \in Urbs, Reap(c, i), NEW d \in Clients
    PROVE  CancelPhase(d)'
<1>1. TypeOK /\ ReaperPhase /\ ClientPhase(c) /\ CancelPhase(c) /\ CancelPhase(d)
  BY DEF CInv, IInv
<1>2. MaxUrbs \in Nat
  BY MaxUrbsAssumption
<1>3. UNCHANGED <<pc, k, reqrv, nurbs>>
  BY DEF Reap, clientVars
<1>4. cur' = [req |-> c, urb |-> i, out |-> kern[c][i]] /\ kern[c][i] \in Done
  BY DEF Reap
<1>5. CASE c # d
  <2>1. RowSame(d)
    BY <1>1, <1>3, <1>5 DEF RowSame, TypeOK, Reap, tokenVars
  <2>2. ~InHand(d)'
    BY <1>4, <1>5 DEF InHand
  <2> QED
    BY <1>1, <2>1, <2>2, CancelFrame
<1>6. CASE c = d
  <2>1. /\ stat'[c][i] = kern[c][i] /\ kern'[c][i] = "none"
        /\ \A j \in Urbs : j # i => stat'[c][j] = stat[c][j] /\ kern'[c][j] = kern[c][j]
    BY <1>1 DEF Reap, TypeOK
  <2>2. \A j \in Urbs : EndedBy(c, j) => EndedBy(c, j)'
    BY <1>3, <1>4, <2>1 DEF EndedBy, Done
  <2>3. Unasked(c)' <=> Unasked(c)
    BY <1>3 DEF Unasked, Reap, tokenVars
  <2>4. Placed(c)
    BY <1>1 DEF CInv, IInv, ReaperPhase, Reap
  <2>5. kern[c][i] \in {"part", "err"} => EndedBy(c, i)'
    <3>1. i <= nurbs[c] /\ ~NotYet(c, i)
      BY <1>4, <2>4 DEF Placed, Done
    <3>2. /\ pc[c] # "link" /\ (pc[c] \in {"submit", "decr"} => ~(k[c] <= i))
          /\ k[c] \in Int /\ i \in Int
      BY <1>1, <1>2, <3>1 DEF NotYet, TypeOK, Urbs
    <3>3. pc'[c] # "link" /\ (pc'[c] \in {"submit", "decr"} => i < k'[c] /\ i <= k'[c])
      BY <1>3, <3>2
    <3> QED
      BY <2>1, <3>3 DEF EndedBy
  <2>6. ASSUME Unasked(c), NEW j \in Urbs, stat'[c][j] = "canc" \/ kern'[c][j] = "canc"
        PROVE  \E m \in 1..(j - 1) : EndedBy(c, m)'
    <3>1. stat[c][j] = "canc" \/ kern[c][j] = "canc"
      BY <2>1, <2>6
    <3>2. PICK m \in 1..(j - 1) : EndedBy(c, m)
      BY <1>1, <2>6, <3>1 DEF CancelPhase
    <3>3. m \in Urbs
      BY <1>2 DEF Urbs
    <3> QED
      BY <2>2, <3>2, <3>3
  <2>7. ASSUME Unasked(c), kern[c][i] # "full" PROVE \E m \in 1..i : EndedBy(c, m)'
    <3>1. CASE kern[c][i] = "canc"
      <4>1. PICK m \in 1..(i - 1) : EndedBy(c, m)'
        BY <2>1, <2>6, <2>7, <3>1
      <4> QED
        BY <4>1 DEF Urbs
    <3>2. CASE kern[c][i] \in {"part", "err"}
      BY <2>5, <3>2 DEF Urbs
    <3> QED
      BY <1>4, <2>7, <3>1, <3>2 DEF Done
  <2> QED
    BY <1>1, <1>3, <1>4, <1>6, <2>3, <2>6, <2>7 DEF CancelPhase
<1> QED
  BY <1>5, <1>6

\* The reaper cancels a URB behind the one in hand, which did not come back in
\* full, so that the transfer has been ended at or before that one.
LEMMA CancelsUrbCancelStep ==
    ASSUME CInv, ReaperCancelsUrb, NEW d \in Clients
    PROVE  CancelPhase(d)'
<1>1. TypeOK /\ ReaperPhase /\ CancelPhase(d)
  BY DEF CInv, IInv
<1>2. MaxUrbs \in Nat
  BY MaxUrbsAssumption
<1>3. /\ UNCHANGED <<cur, pc, k, reqrv>> /\ rpc = "cancel"
      /\ rix \in Int /\ rix > cur.urb /\ rix \in 0..MaxUrbs
  BY <1>1 DEF ReaperCancelsUrb, clientVars, TypeOK
<1>4. cur \in CurT /\ cur # NoUrb
  BY <1>1, <1>3 DEF TypeOK, ReaperPhase, HandT
<1> DEFINE c == cur.req
<1>5. c \in Clients /\ cur.urb \in Urbs /\ cur.urb \in Int /\ rix \in Urbs
  BY <1>2, <1>3, <1>4 DEF CurT, Urbs
<1>6. CASE c # d
  <2>1. RowSame(d)
    BY <1>1, <1>3, <1>5, <1>6 DEF RowSame, TypeOK, ReaperCancelsUrb, CancelUrb, Discarded,
           tokenVars
  <2> QED
    BY <1>1, <1>3, <2>1, CancelFrame
<1>7. CASE c = d
  <2>1. /\ stat'[c][rix] = "canc" /\ \A j \in Urbs : j # rix => stat'[c][j] = stat[c][j]
        /\ \A j \in Urbs : j # rix => kern'[c][j] = kern[c][j]
    BY <1>1, <1>5 DEF ReaperCancelsUrb, CancelUrb, Discarded, TypeOK
  <2>2. \A j \in Urbs : j # rix => (EndedBy(c, j) => EndedBy(c, j)')
    BY <1>3, <2>1 DEF EndedBy
  <2>3. Unasked(c)' <=> Unasked(c)
    BY <1>3 DEF Unasked, ReaperCancelsUrb, tokenVars
  <2>4. cur.out # "full"
    BY <1>3 DEF CInv, ReaperCancelPhase
  <2>5. ASSUME Unasked(c) PROVE \E j \in 1..cur.urb : EndedBy(c, j)'
    <3>1. InHand(c)
      BY <1>4 DEF InHand
    <3>2. PICK j \in 1..cur.urb : EndedBy(c, j)
      BY <1>1, <1>7, <2>4, <2>5, <3>1 DEF CancelPhase
    <3>3. j \in Urbs /\ j # rix
      BY <1>2, <1>3, <1>5 DEF Urbs
    <3> QED
      BY <2>2, <3>2, <3>3
  <2>6. ASSUME Unasked(c), NEW i \in Urbs, stat'[c][i] = "canc" \/ kern'[c][i] = "canc"
        PROVE  \E j \in 1..(i - 1) : EndedBy(c, j)'
    <3>1. CASE i > cur.urb
      BY <1>5, <2>5, <2>6, <3>1 DEF Urbs
    <3>2. CASE i <= cur.urb
      <4>1. i # rix /\ i \in Int
        BY <1>3, <1>5, <3>2 DEF Urbs
      <4>2. stat[c][i] = "canc" \/ kern[c][i] = "canc"
        BY <2>1, <2>6, <4>1
      <4>3. PICK j \in 1..(i - 1) : EndedBy(c, j)
        BY <1>1, <1>7, <2>6, <4>2 DEF CancelPhase
      <4>4. j \in Urbs /\ j # rix
        BY <1>2, <1>3, <1>5, <3>2 DEF Urbs
      <4> QED
        BY <2>2, <4>3, <4>4
    <3> QED
      BY <1>5, <3>1, <3>2 DEF Urbs
  <2> QED
    BY <1>1, <1>3, <1>7, <2>3, <2>5, <2>6 DEF CancelPhase
<1> QED
  BY <1>6, <1>7

\* The other steps of the reaper, and of the port.
LEMMA PortCancelStep ==
    ASSUME CInv, NEW d \in Clients,
           \/ ReaperLocks \/ ReaperDecrements \/ ReaperSignals \/ ReaperCancels
           \/ ReaperCancelled \/ ReaperSeesShutdown \/ ReaperWalks \/ ReaperExits
           \/ (\E c \in Clients : ReaperFailsRequest(c))
           \/ ReapFails \/ OpenPort \/ ClosePort \/ ClosePortJoined \/ Unplug
    PROVE  CancelPhase(d)'
<1>1. TypeOK /\ ReaperPhase /\ CancelPhase(d)
  BY DEF CInv, IInv
<1>2. MaxUrbs \in Nat /\ (cur # NoUrb => cur.urb \in Urbs)
  BY <1>1, MaxUrbsAssumption DEF TypeOK, CurT, Urbs
<1>3. UNCHANGED <<pc, k, reqrv, hcancel>> /\ (cur' = cur \/ cur' = NoUrb)
  BY DEF ReaperLocks, ReaperDecrements, ReaperSignals, ReaperCancels, ReaperCancelled,
         ReaperSeesShutdown, ReaperWalks, ReaperExits, ReaperFailsRequest, ReapFails, OpenPort,
         ClosePort, ClosePortJoined, Unplug, ReaperGivesUp, EndReap, clientVars, reaperVars,
         tokenVars
<1>4. InHand(d)' => cur' = cur
  BY <1>3 DEF InHand
<1>5. Unasked(d)' <=> Unasked(d)
  BY <1>3 DEF Unasked
<1>6. CASE \E c \in Clients : ReaperFailsRequest(c)
  <2>1. \A i \in Urbs : stat'[d][i] \in {stat[d][i], "nomsg"}
    BY <1>1, <1>6 DEF ReaperFailsRequest, TypeOK
  <2>2. kern' = kern
    BY <1>6 DEF ReaperFailsRequest
  <2>3. \A j \in Urbs : EndedBy(d, j) => EndedBy(d, j)'
    BY <1>3, <2>1, <2>2 DEF EndedBy
  <2>4. \A i \in Urbs : stat'[d][i] = "canc" => stat[d][i] = "canc"
    BY <2>1
  <2> QED
    BY <1>1, <1>2, <1>3, <1>4, <1>5, <2>2, <2>3, <2>4, CancelKept
<1>7. CASE ClosePortJoined
  <2>1. stat' = stat /\ \A i \in Urbs : kern'[d][i] = "none"
    BY <1>7 DEF ClosePortJoined
  <2>2. \A j \in Urbs : EndedBy(d, j) => EndedBy(d, j)'
    BY <1>3, <2>1 DEF EndedBy
  <2> QED
    BY <1>1, <1>2, <1>3, <1>4, <1>5, <2>1, <2>2, CancelKept
<1>8. CASE UNCHANGED urbVars
  <2>1. RowSame(d)
    BY <1>3, <1>8 DEF RowSame, urbVars
  <2> QED
    BY <1>1, <1>4, <2>1, CancelFrame
<1>9. UNCHANGED urbVars \/ ClosePortJoined \/ \E c \in Clients : ReaperFailsRequest(c)
  BY DEF ReaperLocks, ReaperDecrements, ReaperSignals, ReaperCancels, ReaperCancelled,
         ReaperSeesShutdown, ReaperWalks, ReaperExits, ReapFails, OpenPort, ClosePort, Unplug,
         urbVars
<1> QED
  BY <1>6, <1>7, <1>8, <1>9

\* Only ReaperCancels leads the reaper to its cancelling loop.
LEMMA ReaperCancelPhaseStep == CInv /\ [Next]_vars => ReaperCancelPhase'
<1> SUFFICES ASSUME CInv, [Next]_vars PROVE ReaperCancelPhase'
  OBVIOUS
<1>1. ReaperCancelPhase
  BY DEF CInv
<1>2. CASE ReaperStep
  BY <1>1, <1>2 DEF ReaperCancelPhase, ReaperStep, Reap, ReaperLocks, ReaperDecrements,
         ReaperSignals, ReaperCancels, ReaperCancelsUrb, ReaperCancelled, ReaperSeesShutdown,
         ReaperWalks, ReaperFailsRequest, ReaperExits, ReaperGivesUp, EndReap,
         MustCancelFollowing
<1>3. CASE ReapFails \/ OpenPort
  BY <1>3 DEF ReaperCancelPhase, ReapFails, OpenPort, ReaperGivesUp
<1>4. CASE UNCHANGED <<rpc, cur>>
  BY <1>1, <1>4 DEF ReaperCancelPhase
<1>5. ReaperStep \/ ReapFails \/ OpenPort \/ UNCHANGED <<rpc, cur>>
  BY DEF Next, ClientStep, CancellerStep, Refuse, Begin, Wake, TimesOut, Link, Submit,
         SubmitFails, SubmitFailsDecrement, Submitted, SetToken, CheckOutstanding,
         TimeoutCancels, TimeoutCancelled, ComputeResult, ClearToken, Return, CancelIo,
         CancelIoUrb, CancelIoDone, KernelCompletes, ClosePort, ClosePortJoined, Unplug, vars,
         reaperVars
<1> QED
  BY <1>2, <1>3, <1>4, <1>5

\* Every step keeps what is known of the cancelling of every request.
LEMMA CancelStep == CInv /\ [Next]_vars => \A d \in Clients : CancelPhase(d)'
<1> SUFFICES ASSUME CInv, [Next]_vars, NEW d \in Clients PROVE CancelPhase(d)'
  OBVIOUS
<1>1. ASSUME NEW c \in Clients,
             Refuse(c) \/ (\E n \in Urbs : Begin(c, n)) \/ ClientStep(c) \/ Wake(c) \/ TimesOut(c)
      PROVE  CancelPhase(d)'
  BY <1>1, ClientCancelStep
<1>2. ASSUME NEW c \in Clients,
             CancelIo(c) \/ CancellerStep(c) \/ (\E i \in Urbs : KernelCompletes(c, i))
      PROVE  CancelPhase(d)'
  BY <1>2, KernelCancelStep
<1>3. CASE ReaperStep
  <2>1. CASE \E c \in Clients, i \in Urbs : Reap(c, i)
    BY <2>1, ReapCancelStep
  <2>2. CASE ReaperCancelsUrb
    BY <2>2, CancelsUrbCancelStep
  <2> QED
    BY <1>3, <2>1, <2>2, PortCancelStep DEF ReaperStep
<1>4. CASE ReapFails \/ OpenPort \/ ClosePort \/ ClosePortJoined \/ Unplug
  BY <1>4, PortCancelStep
<1>5. CASE UNCHANGED vars
  <2>1. RowSame(d) /\ cur' = cur
    BY <1>5 DEF RowSame, vars, reaperVars, clientVars, urbVars, tokenVars
  <2> QED
    BY <2>1, CancelFrame DEF CInv
<1> QED
  BY <1>1, <1>2, <1>3, <1>4, <1>5 DEF Next

\* The result only becomes a cancellation when the loop over the URBs meets a
\* cancelled one first, which without a token it does not.
LEMMA CancelledByToken ==
    ASSUME CInv, [Next]_vars, NEW c \in Clients, reqrv'[c] = "canc", reqrv[c] # "canc"
    PROVE  hcancel[c]
<1>1. TypeOK /\ CancelPhase(c)
  BY DEF CInv, IInv
<1>2. ComputeResult(c)
  <2>1. PICK d \in Clients :
            \/ Refuse(d) \/ (\E n \in Urbs : Begin(d, n)) \/ ComputeResult(d) \/ TimesOut(d)
    BY <1>1 DEF Next, ClientStep, CancellerStep, Wake, Link, Submit, SubmitFails,
         SubmitFailsDecrement, Submitted, SetToken, CheckOutstanding, TimeoutCancels,
         TimeoutCancelled, ClearToken, Return, CancelIo, CancelIoUrb, CancelIoDone,
         KernelCompletes, ReaperStep, Reap, ReaperLocks, ReaperDecrements, ReaperSignals,
         ReaperCancels, ReaperCancelsUrb, ReaperCancelled, ReaperSeesShutdown, ReaperWalks,
         ReaperFailsRequest, ReaperExits, ReapFails, OpenPort, ClosePort, ClosePortJoined,
         Unplug, vars, clientVars
  <2> QED
    BY <1>1, <2>1 DEF TypeOK, Refuse, Begin, ComputeResult, TimesOut
<1>3. reqrv'[c] = Overall(reqrv[c], stat[c], nurbs[c])
  BY <1>1, <1>2 DEF ComputeResult, TypeOK
<1>4. /\ reqrv[c] # "to"
      /\ \E i \in 1..nurbs[c] : stat[c][i] = "canc" /\ \A j \in 1..(i - 1) : stat[c][j] = "full"
  BY <1>3 DEF Overall
<1>5. PICK i \in 1..nurbs[c] : stat[c][i] = "canc" /\ \A j \in 1..(i - 1) : stat[c][j] = "full"
  BY <1>4
<1>6. i \in Urbs
  BY <1>1, MaxUrbsAssumption DEF TypeOK, Urbs
<1>7. ASSUME ~hcancel[c] PROVE FALSE
  <2>1. Unasked(c)
    BY <1>2, <1>4, <1>7 DEF Unasked, ComputeResult
  <2>2. PICK j \in 1..(i - 1) : EndedBy(c, j)
    BY <1>1, <1>5, <1>6, <2>1 DEF CancelPhase
  <2> QED
    BY <1>5, <2>2 DEF EndedBy
<1> QED
  BY <1>7

\* A transfer without a token never comes to be a cancelled one, whichever of
\* its URBs fail, time out or are cancelled by the engine, for every number of
\* them.
THEOREM UsbNoCancelUnasked == Spec => NoCancelUnasked
<1>1. Init => CInv
  <2> SUFFICES ASSUME Init PROVE CInv
    OBVIOUS
  <2>1. IInv
    BY InitIInv
  <2>2. ReaperCancelPhase /\ \A c \in Clients : CancelPhase(c)
    BY DEF Init, ReaperCancelPhase, CancelPhase, Unasked
  <2> QED
    BY <2>1, <2>2 DEF CInv
<1>2. CInv /\ [Next]_vars => CInv'
  BY StepIInv, ReaperCancelPhaseStep, CancelStep DEF CInv
<1>3. CInv /\ [Next]_vars =>
        [\A c \in Clients : reqrv'[c] = "canc" /\ reqrv[c] # "canc" => hcancel[c]]_vars
  BY CancelledByToken
<1> QED
  BY <1>1, <1>2, <1>3, PTL DEF Spec, NoCancelUnasked
=============================================================================
