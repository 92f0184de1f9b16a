------------------------- MODULE CcastReply_proofs --------------------------
(***************************************************************************)
(* Proofs about the reply list of a ChromeCast session, for every number   *)
(* of requests and messages and every window.                              *)
(*                                                                         *)
(* With both kinds of receiver and all faults: types, and that the client  *)
(* never waits for a thread that has gone.  With a receiver that answers   *)
(* in order and without failures of calloc: the list is sound until a      *)
(* notice is let in, and no answer that is still wanted is lost, notices   *)
(* or not.  LInv is the invariant behind the last two: what is where       *)
(* (OrderInv, Covered), one channel at a time (Phase), and the list as a   *)
(* chain of nodes (ListInv).                                               *)
(***************************************************************************)
EXTENDS CcastReply, SequenceTheorems, FiniteSetTheorems, WellFoundedInduction, TLAPS

\* The ids up to n and the next one are the ids up to n + 1 (Send)
LEMMA OneMore ==
    ASSUME NEW n \in Nat, NEW S \in SUBSET (1..n)
    PROVE  S \union {n + 1} \subseteq 1..n + 1
OBVIOUS

\* The node after the last one is a node while there is room (ThreadAdd)
LEMMA NextNode ==
    ASSUME NEW n \in Nat, NEW b \in Nat, n < b
    PROVE  n + 1 \in 1..b /\ n + 1 \in 0..n + 1 /\ n + 1 <= b
OBVIOUS

(***************************************************************************)
(* Types                                                                   *)
(***************************************************************************)

Arrived == 0..Len(mes)

\* What TypeOK needs to be inductive: the client is inside get_a_reply_id only
\* when it has a request to wait for, and the thread has room for its message
CallInv ==
    /\ cpc \in Inside => first <= Len(chan)
    /\ tpc \in {"receive", "add"} => errc <= MaxErrc + 1
    /\ tpc = "add" => Len(mes) < MaxMsgs

\* Every pointer of the list and of the walk is to a node that has arrived, and
\* the walk's are not set outside the call, unless the program died in it
PointerInv ==
    /\ head \in Arrived /\ (\A n \in Nodes : next[n] \in Arrived)
    /\ walk \in Arrived /\ nlist \in Arrived /\ fmes \in Arrived
    /\ cpc \notin {"walk", "wait", "test", "want", "leave", "return", "dead"} =>
           walk = Nil /\ nlist = Nil /\ fmes = Nil

\* The inductive invariant behind TypeOK
TInv == TypeOK /\ CallInv /\ PointerInv

\* The program starts with no session and no list
LEMMA InitTInv == Init => TInv
<1> USE BoundsAssumption DEF Init, Arrived, Nil, Nodes, Ids, Channels, Inside, ClientPc,
        ThreadPc
<1>1. Init => TypeOK
  <2>1. Init => FlagTypes
    BY DEF FlagTypes
  <2>2. Init => ListTypes
    BY DEF ListTypes
  <2>3. Init => ThreadTypes
    <3>1. 0 \in 0..MaxErrc + 2
      OBVIOUS
    <3> QED
      BY <3>1 DEF ThreadTypes
  <2>4. Init => RequestTypes
    <3>1. 1 \in 1..MaxReq + 1 /\ <<>> \in Seq(Channels) /\ Len(<<>>) = 0
      OBVIOUS
    <3>2. Init => cpc \in ClientPc /\ launched \in BOOLEAN /\ pending \subseteq 1..Len(chan)
      OBVIOUS
    <3>3. Init => chan \in Seq(Channels) /\ Len(chan) <= MaxReq /\ first \in 1..MaxReq + 1
      BY <3>1
    <3> QED
      BY <3>2, <3>3 DEF RequestTypes
  <2>5. Init => WalkTypes
    BY DEF WalkTypes
  <2> QED
    BY <2>1, <2>2, <2>3, <2>4, <2>5 DEF TypeOK
<1>2. Init => CallInv /\ PointerInv
  BY DEF CallInv, PointerInv
<1> QED
  BY <1>1, <1>2 DEF TInv

\* A step of the receive thread keeps the types: the node it links is the next
\* one to arrive
LEMMA ThreadKeepsTypes ==
    ASSUME TInv, Thread
    PROVE  TInv'
<1> USE BoundsAssumption DEF TInv, TypeOK, FlagTypes, ListTypes, ThreadTypes, RequestTypes,
        WalkTypes, CallInv, PointerInv, Arrived, Nil, Nodes, Ids, Channels, Inside,
        ClientPc, ThreadPc, flagVars, wantVars, listVars, nodeVars, reqVars, walkVars
<1>0. Len(mes) \in Nat /\ Len(chan) \in Nat
  OBVIOUS
<1>1. CASE ThreadTest
  BY <1>0, <1>1 DEF ThreadTest
<1>2. CASE ReceiveNothing
  <2>1. errc' \in 0..MaxErrc + 1 /\ tpc' = "test"
    <3>1. errc \in 0..MaxErrc + 1 /\ errc' \in {errc, 0}
      BY <1>2 DEF ReceiveNothing
    <3> QED
      BY <1>2, <3>1 DEF ReceiveNothing
  <2>2. TypeOK'
    BY <1>0, <1>2, <2>1 DEF ReceiveNothing
  <2>3. CallInv' /\ PointerInv'
    BY <1>0, <1>2, <2>1 DEF ReceiveNothing
  <2> QED
    BY <2>2, <2>3
<1>3. CASE ReceiveError
  BY <1>0, <1>3 DEF ReceiveError, TooManyErrors
<1>4. CASE ReceiveClose
  BY <1>0, <1>4 DEF ReceiveClose
<1>5. CASE ReceiveReply
  <2>1. got' \in pending /\ pending' \subseteq pending /\ errc' = 0 /\ found' \in Wanted(got')
    BY <1>5 DEF ReceiveReply, Answerable, Accept
  <2>2. got' \in Ids
    BY <1>0, <2>1
  <2>3. tpc = "receive" /\ tpc' \in {"add", "test"} /\ Len(mes) < MaxMsgs
        /\ UNCHANGED <<flagVars, wantVars, listVars, nodeVars, cpc, reqVars, walkVars, rv, woken>>
    BY <1>5 DEF ReceiveReply, Accept
  <2>4. TypeOK'
    <3>1. found' \in BOOLEAN
      BY <2>1 DEF Wanted
    <3> QED
      BY <1>0, <2>1, <2>2, <2>3, <3>1
  <2>5. CallInv' /\ PointerInv'
    BY <1>0, <2>1, <2>3
  <2> QED
    BY <2>4, <2>5
<1>6. CASE ReceiveNotice
  BY <1>0, <1>6 DEF ReceiveNotice, Wanted, Accept
<1>7. CASE ThreadAdd
  <2>1. /\ mes' \in Seq(Ids \union {0}) /\ Len(mes') = Len(mes) + 1
    BY <1>7 DEF ThreadAdd
  <2>7. TypeOK'
    <3>1. FlagTypes'
      BY <1>0, <1>7, <2>1 DEF ThreadAdd, LinkedBefore
    <3>2. ListTypes'
      <4>1. Len(mes) + 1 \in Nodes /\ Len(mes') <= MaxMsgs
        <5>1. Len(mes) < MaxMsgs
          BY <1>7 DEF ThreadAdd
        <5>2. Len(mes) + 1 \in 1..MaxMsgs /\ Len(mes) + 1 <= MaxMsgs
          BY <1>0, <5>1, NextNode
        <5> QED
          BY <2>1, <5>2
      <4>2. head' \in Nodes /\ next' = [next EXCEPT ![Len(mes) + 1] = head]
        BY <1>7, <4>1 DEF ThreadAdd, LinkedBefore
      <4>3. next' \in [Nodes -> Nodes \union {Nil}]
        BY <4>2
      <4>4. gone' \subseteq 1..Len(mes')
        <5>1. gone \subseteq 1..Len(mes) /\ gone' = gone
          BY <1>7 DEF ThreadAdd
        <5> QED
          BY <1>0, <2>1, <5>1
      <4> QED
        BY <2>1, <4>1, <4>2, <4>3, <4>4
    <3>3. ThreadTypes'
      BY <1>0, <1>7, <2>1 DEF ThreadAdd, LinkedBefore
    <3>4. RequestTypes'
      BY <1>0, <1>7, <2>1 DEF ThreadAdd, LinkedBefore
    <3>5. WalkTypes'
      BY <1>0, <1>7, <2>1 DEF ThreadAdd, LinkedBefore
    <3> QED
      BY <3>1, <3>2, <3>3, <3>4, <3>5
  <2>8. CallInv'
    BY <1>0, <1>7, <2>1 DEF ThreadAdd, LinkedBefore
  <2>9. PointerInv'
    <3>1. Len(mes) + 1 \in Nodes /\ Len(mes) + 1 \in 0..Len(mes')
      <4>1. Len(mes) < MaxMsgs
        BY <1>7 DEF ThreadAdd
      <4>2. Len(mes) + 1 \in 1..MaxMsgs /\ Len(mes) + 1 \in 0..Len(mes) + 1
        BY <1>0, <4>1, NextNode
      <4> QED
        BY <2>1, <4>2
    <3>2. head' = Len(mes) + 1 /\ next' = [next EXCEPT ![Len(mes) + 1] = head]
      BY <1>7 DEF ThreadAdd, LinkedBefore
    <3>3. \A n \in Nodes : next'[n] \in Arrived'
      <4> SUFFICES ASSUME NEW n \in Nodes
                   PROVE  next'[n] \in Arrived'
        OBVIOUS
      <4>1. next'[n] = IF n = Len(mes) + 1 THEN head ELSE next[n]
        BY <3>1, <3>2
      <4>2. next[n] \in 0..Len(mes) /\ head \in 0..Len(mes)
        OBVIOUS
      <4> QED
        BY <1>0, <2>1, <4>1, <4>2
    <3>4. UNCHANGED <<walk, nlist, fmes, cpc>>
      BY <1>7 DEF ThreadAdd
    <3> QED
      BY <1>0, <2>1, <3>1, <3>2, <3>3, <3>4
  <2> QED
    BY <2>7, <2>8, <2>9
<1>8. CASE ThreadStopped
  BY <1>8 DEF ThreadStopped
<1>9. CASE ThreadRelease
  BY <1>9 DEF ThreadRelease
<1> QED
  BY <1>1, <1>2, <1>3, <1>4, <1>5, <1>6, <1>7, <1>8, <1>9 DEF Thread

\* A step of get_a_reply_id keeps the types: its walk only meets nodes that have
\* arrived
LEMMA ClientKeepsTypes ==
    ASSUME TInv, Client \/ StrayWake \/ TimesOut
    PROVE  TInv'
<1> USE BoundsAssumption DEF TInv, TypeOK, FlagTypes, ListTypes, ThreadTypes, RequestTypes,
        WalkTypes, CallInv, PointerInv, Arrived, Nil, Nodes, Ids, Channels, Inside,
        ClientPc, ThreadPc, flagVars, wantVars, listVars, nodeVars, threadVars, reqVars,
        walkVars
<1>0. Len(mes) \in Nat /\ Len(chan) \in Nat
  OBVIOUS
<1>1. CASE Enter
  <2>7. TypeOK'
    <3>1. FlagTypes'
      BY <1>0, <1>1 DEF Enter
    <3>2. ListTypes'
      BY <1>0, <1>1 DEF Enter
    <3>3. ThreadTypes'
      BY <1>0, <1>1 DEF Enter
    <3>4. RequestTypes'
      BY <1>0, <1>1 DEF Enter
    <3>5. WalkTypes'
      BY <1>0, <1>1 DEF Enter
    <3> QED
      BY <3>1, <3>2, <3>3, <3>4, <3>5
  <2>8. CallInv'
    BY <1>0, <1>1 DEF Enter
  <2>9. PointerInv'
    BY <1>0, <1>1 DEF Enter
  <2> QED
    BY <2>7, <2>8, <2>9
<1>2. CASE SetWant
  <2>1. chan[first] \in Channels
    BY <1>0, <1>2 DEF SetWant
  <2>2. wns' \in Channels /\ wid' \in Ids /\ first <= Len(chan)
    BY <1>0, <1>2, <2>1 DEF SetWant
  <2>3. TypeOK'
    <3>1. FlagTypes'
      BY <1>2, <2>2 DEF SetWant
    <3>2. ListTypes' /\ ThreadTypes'
      BY <1>2 DEF SetWant
    <3>3. RequestTypes' /\ WalkTypes'
      BY <1>2 DEF SetWant
    <3> QED
      BY <3>1, <3>2, <3>3
  <2>4. CallInv' /\ PointerInv'
    BY <1>2, <2>2 DEF SetWant
  <2> QED
    BY <2>3, <2>4
<1>3. CASE Test
  <2>7. TypeOK'
    <3>1. FlagTypes' /\ ListTypes' /\ ThreadTypes'
      BY <1>3 DEF Test
    <3>2. RequestTypes'
      <4>1. cpc' \in ClientPc
        BY <1>3 DEF Test
      <4>2. UNCHANGED <<chan, first, launched, pending>>
        BY <1>3 DEF Test
      <4> QED
        BY <4>1, <4>2
    <3>3. WalkTypes'
      BY <1>3 DEF Test
    <3> QED
      BY <3>1, <3>2, <3>3
  <2>8. CallInv' /\ PointerInv'
    BY <1>0, <1>3 DEF Test
  <2> QED
    BY <2>7, <2>8
<1>4. CASE WalkNode
  <2>1. walk \in Nodes /\ walk \in 1..Len(mes)
    BY <1>4 DEF WalkNode
  <2>7. TypeOK'
    <3>1. FlagTypes'
      BY <1>0, <1>4, <2>1 DEF WalkNode
    <3>2. ListTypes'
      BY <1>0, <1>4, <2>1 DEF WalkNode
    <3>3. ThreadTypes'
      BY <1>0, <1>4, <2>1 DEF WalkNode
    <3>4. RequestTypes'
      <4>1. cpc' \in {"walk", "dead"} /\ UNCHANGED <<chan, first, launched, pending>>
        BY <1>4 DEF WalkNode, MayDie
      <4> QED
        BY <4>1
    <3>5. WalkTypes'
      BY <1>0, <1>4, <2>1 DEF WalkNode
    <3> QED
      BY <3>1, <3>2, <3>3, <3>4, <3>5
  <2>8. CallInv'
    BY <1>0, <1>4, <2>1 DEF WalkNode
  <2>9. PointerInv'
    BY <1>0, <1>4, <2>1 DEF WalkNode, MayDie
  <2> QED
    BY <2>7, <2>8, <2>9
<1>5. CASE WalkEnds
  <2>7. TypeOK'
    <3>1. FlagTypes'
      BY <1>0, <1>5 DEF WalkEnds, PutBack
    <3>2. ListTypes'
      BY <1>0, <1>5 DEF WalkEnds, PutBack
    <3>3. ThreadTypes'
      BY <1>0, <1>5 DEF WalkEnds, PutBack
    <3>4. RequestTypes'
      BY <1>0, <1>5 DEF WalkEnds, PutBack
    <3>5. WalkTypes'
      BY <1>0, <1>5 DEF WalkEnds, PutBack
    <3> QED
      BY <3>1, <3>2, <3>3, <3>4, <3>5
  <2>8. CallInv'
    BY <1>0, <1>5 DEF WalkEnds, PutBack
  <2>9. PointerInv'
    BY <1>0, <1>5 DEF WalkEnds, PutBack
  <2> QED
    BY <2>7, <2>8, <2>9
<1>6. CASE WakeUp \/ StrayWake
  <2>1. /\ cpc = "wait" /\ cpc' = "test"
        /\ UNCHANGED <<flagVars, wantVars, listVars, nodeVars, threadVars, reqVars, walkVars,
                       rv, woken, pending>>
    BY <1>6 DEF WakeUp, StrayWake
  <2>2. TypeOK'
    BY <1>0, <2>1
  <2>3. CallInv' /\ PointerInv'
    BY <1>0, <2>1
  <2> QED
    BY <2>2, <2>3
<1>7. CASE Leave
  <2>7. TypeOK'
    <3>1. FlagTypes'
      BY <1>0, <1>7 DEF Leave
    <3>2. ListTypes'
      BY <1>0, <1>7 DEF Leave
    <3>3. ThreadTypes'
      BY <1>0, <1>7 DEF Leave
    <3>4. RequestTypes'
      BY <1>0, <1>7 DEF Leave
    <3>5. WalkTypes'
      BY <1>0, <1>7 DEF Leave
    <3> QED
      BY <3>1, <3>2, <3>3, <3>4, <3>5
  <2>8. CallInv'
    BY <1>0, <1>7 DEF Leave
  <2>9. PointerInv'
    BY <1>0, <1>7 DEF Leave
  <2> QED
    BY <2>7, <2>8, <2>9
<1>8. CASE Return
  <2>7. TypeOK'
    <3>1. FlagTypes'
      BY <1>0, <1>8 DEF Return, lastId
    <3>2. ListTypes'
      BY <1>0, <1>8 DEF Return, lastId
    <3>3. ThreadTypes'
      BY <1>0, <1>8 DEF Return, lastId
    <3>4. RequestTypes'
      <4>1. cpc' \in ClientPc
        BY <1>8 DEF Return
      <4>2. launched' \in BOOLEAN
        BY <1>8 DEF Return
      <4>3. chan' = chan /\ pending' = pending
        BY <1>8 DEF Return
      <4>4. first' \in 1..MaxReq + 1
        <5>1. first' \in {first, first + 1, Len(chan) + 1}
          BY <1>8 DEF Return, lastId
        <5>2. first \in Nat /\ first <= Len(chan) /\ Len(chan) <= MaxReq
          BY <1>8 DEF Return
        <5> QED
          BY <1>0, <5>1, <5>2
      <4> QED
        BY <4>1, <4>2, <4>3, <4>4
    <3>5. WalkTypes'
      BY <1>0, <1>8 DEF Return, lastId
    <3> QED
      BY <3>1, <3>2, <3>3, <3>4, <3>5
  <2>8. CallInv'
    BY <1>0, <1>8 DEF Return, lastId
  <2>9. PointerInv'
    BY <1>0, <1>8 DEF Return, lastId
  <2> QED
    BY <2>7, <2>8, <2>9
<1>9. CASE TimesOut
  BY <1>9 DEF TimesOut
<1> QED
  BY <1>1, <1>2, <1>3, <1>4, <1>5, <1>6, <1>7, <1>8, <1>9 DEF Client

\* Starting, using and shutting down a session keeps the types
LEMMA SessionKeepsTypes ==
    ASSUME TInv, Session
    PROVE  TInv'
<1> USE BoundsAssumption DEF TInv, TypeOK, FlagTypes, ListTypes, ThreadTypes, RequestTypes,
        WalkTypes, CallInv, PointerInv, Arrived, Nil, Nodes, Ids, Channels, Inside,
        ClientPc, ThreadPc, flagVars, wantVars, listVars, nodeVars, threadVars, reqVars,
        walkVars, lastId
<1>0. Len(mes) \in Nat /\ Len(chan) \in Nat
  OBVIOUS
<1>1. CASE Start
  <2>7. TypeOK'
    <3>1. FlagTypes'
      BY <1>0, <1>1 DEF Start
    <3>2. ListTypes'
      BY <1>0, <1>1 DEF Start
    <3>3. ThreadTypes'
      BY <1>0, <1>1 DEF Start
    <3>4. RequestTypes'
      <4>1. cpc' \in ClientPc /\ launched' \in BOOLEAN
        BY <1>1 DEF Start
      <4>2. chan' = chan /\ pending' = pending
        BY <1>1 DEF Start
      <4>3. first' \in 1..MaxReq + 1
        BY <1>0, <1>1 DEF Start
      <4> QED
        BY <4>1, <4>2, <4>3
    <3>5. WalkTypes'
      BY <1>0, <1>1 DEF Start
    <3> QED
      BY <3>1, <3>2, <3>3, <3>4, <3>5
  <2>8. CallInv'
    BY <1>0, <1>1 DEF Start
  <2>9. PointerInv'
    BY <1>0, <1>1 DEF Start
  <2> QED
    BY <2>7, <2>8, <2>9
<1>2. CASE Send
  <2>1. /\ chan' \in Seq(Channels) /\ Len(chan') = Len(chan) + 1
    BY <1>2 DEF Send
  <2>7. TypeOK'
    <3>1. FlagTypes'
      BY <1>0, <1>2, <2>1 DEF Send
    <3>2. ListTypes'
      BY <1>0, <1>2, <2>1 DEF Send
    <3>3. ThreadTypes'
      BY <1>0, <1>2, <2>1 DEF Send
    <3>4. RequestTypes'
      <4>1. cpc' = cpc /\ launched' = launched /\ first' = first
        BY <1>2 DEF Send
      <4>2. chan' \in Seq(Channels) /\ Len(chan') <= MaxReq
        BY <1>0, <1>2, <2>1 DEF Send
      <4>3. pending' \subseteq 1..Len(chan')
        <5>1. pending' = pending \union {Len(chan) + 1} /\ pending \subseteq 1..Len(chan)
          BY <1>2 DEF Send
        <5> QED
          BY <1>0, <2>1, <5>1, OneMore
      <4> QED
        BY <4>1, <4>2, <4>3
    <3>5. WalkTypes'
      BY <1>0, <1>2, <2>1 DEF Send
    <3> QED
      BY <3>1, <3>2, <3>3, <3>4, <3>5
  <2>8. CallInv'
    BY <1>0, <1>2, <2>1 DEF Send
  <2>9. PointerInv'
    BY <1>0, <1>2, <2>1 DEF Send
  <2> QED
    BY <2>7, <2>8, <2>9
<1>3. CASE Get
  BY <1>3 DEF Get
<1>4. CASE Shutdown
  BY <1>4 DEF Shutdown
<1>5. CASE Joined
  <2>1. /\ mes' = <<>> /\ Len(mes') = 0 /\ head' = Nil /\ gone' = {} /\ pending' = {}
        /\ cpc = "join" /\ cpc' \in {"down", "dead"} /\ next' = [n \in Nodes |-> Nil]
        /\ UNCHANGED <<flagVars, wantVars, threadVars, reqVars, walkVars, rv, woken>>
        /\ tpc = "none"
    BY <1>5 DEF Joined, MayDie
  <2> QED
    BY <2>1
<1> QED
  BY <1>1, <1>2, <1>3, <1>4, <1>5 DEF Session

\* Every reachable state of a session has the types of TypeOK
THEOREM CcastTypeCorrect == Spec => []TypeOK
<1>1. TInv /\ [Next]_vars => TInv'
  <2>1. CASE UNCHANGED vars
    BY <2>1 DEF vars, TInv, TypeOK, FlagTypes, ListTypes, ThreadTypes, RequestTypes,
                WalkTypes, CallInv, PointerInv, Arrived, flagVars, wantVars, listVars, nodeVars,
                threadVars, reqVars, walkVars
  <2> QED
    BY <2>1, ThreadKeepsTypes, ClientKeepsTypes, SessionKeepsTypes DEF Next
<1>2. TInv => TypeOK
  BY DEF TInv
<1> QED
  BY InitTInv, <1>1, <1>2, PTL DEF Spec

(***************************************************************************)
(* The client and the end of the thread                                    *)
(***************************************************************************)

\* The strengthening of NoOneStranded.  The thread has set stopped before it
\* takes the lock for the last time; w_rq is set while the client waits; and
\* the thread cannot go while the client, having seen it run, walks the list
\* with the lock held
SInv ==
    /\ tpc \in {"release", "none"} /\ cpc # "down" => stopped
    /\ cpc \in {"want", "test", "walk", "wait"} => wrq
    /\ cpc = "walk" => tpc # "none"
    /\ NoOneStranded

\* SInv is kept by every step
LEMMA StepSInv == SInv /\ [Next]_vars => SInv'
<1> SUFFICES ASSUME SInv, [Next]_vars
             PROVE  SInv'
  OBVIOUS
<1> USE DEF SInv, NoOneStranded, flagVars, wantVars, listVars, nodeVars, threadVars,
        reqVars, walkVars
<1>1. CASE Thread
  BY <1>1 DEF Thread, ThreadTest, ReceiveNothing, ReceiveError, ReceiveClose,
       ReceiveReply, ReceiveNotice, Accept, ThreadAdd, ThreadStopped, ThreadRelease,
       RlockFree, Release
<1>2. CASE Client \/ StrayWake \/ TimesOut
  <2>1. CASE Test
    BY <2>1 DEF Test, Stopping
  <2>2. CASE WalkEnds
    BY <2>2 DEF WalkEnds
  <2>3. CASE Enter \/ SetWant \/ WakeUp \/ StrayWake \/ Leave \/ Return \/ TimesOut
    BY <2>3 DEF Enter, SetWant, WakeUp, StrayWake, Leave, Return, TimesOut
  <2>4. CASE WalkNode
    BY <2>4 DEF WalkNode, MayDie
  <2> QED
    BY <1>2, <2>1, <2>2, <2>3, <2>4 DEF Client
<1>3. CASE Session
  BY <1>3 DEF Session, Start, Send, Get, Shutdown, Joined, MayDie
<1>4. CASE UNCHANGED vars
  BY <1>4 DEF vars
<1> QED
  BY <1>1, <1>2, <1>3, <1>4 DEF Next

\* A client never waits, unsignalled, for a receive thread that has gone: the
\* thread sets stopped (ccast.c:188) and signals under the lock (190-196), the
\* client tests stopped under the lock (230) before it waits
THEOREM CcastNoOneStranded == Spec => []NoOneStranded
<1>1. Init => SInv
  BY DEF Init, SInv, NoOneStranded
<1>2. SInv => NoOneStranded
  BY DEF SInv
<1> QED
  BY <1>1, <1>2, StepSInv, PTL DEF Spec

(***************************************************************************)
(* Least elements                                                          *)
(***************************************************************************)

\* Among sets of elements of a finite set there is one that contains none of
\* the others.
LEMMA MinimalSubset ==
    ASSUME NEW S, IsFiniteSet(S), NEW T, T \subseteq SUBSET S, T # {}
    PROVE  \E m \in T : \A y \in T : y \subseteq m => y = m
<1>1. IsWellFoundedOn(StrictSubsetOrdering(S), SUBSET S)
  BY FS_StrictSubsetOrderingWellFounded, FS_FiniteSubsetsOfFinite
<1>2. \E m \in T : \A y \in T : ~(<<y, m>> \in StrictSubsetOrdering(S))
  BY <1>1, WFMin
<1> QED BY <1>2 DEF StrictSubsetOrdering

\* A set of natural numbers has a least one.
LEMMA LeastNatural ==
    ASSUME NEW T, T \subseteq Nat, T # {}
    PROVE  \E m \in T : \A y \in T : m <= y
<1>1. PICK n \in T : TRUE
  OBVIOUS
<1>2. IsFiniteSet(0..n)
  BY <1>1, FS_Interval
<1> DEFINE Below == {0..k : k \in {l \in T : l <= n}}
<1>3. Below \subseteq SUBSET (0..n)
  BY <1>1
<1>4. 0..n \in Below
  BY <1>1
<1>5. PICK M \in Below : \A y \in Below : y \subseteq M => y = M
  <2> DEFINE All == 0..n
  <2>1. Below # {} /\ IsFiniteSet(All) /\ Below \subseteq SUBSET All
    BY <1>2, <1>3, <1>4
  <2> HIDE DEF Below, All
  <2> QED BY <2>1, MinimalSubset
<1>6. PICK m \in T : m <= n /\ M = 0..m
  BY <1>5
<1>7. ASSUME NEW y \in T, ~(m <= y)
      PROVE  FALSE
  <2>1. 0..y \in Below /\ 0..y \subseteq M
    BY <1>1, <1>6, <1>7
  <2>2. 0..y = 0..m
    BY <1>5, <1>6, <2>1
  <2> QED BY <1>6, <1>7, <2>2
<1> QED BY <1>6, <1>7

(***************************************************************************)
(* Chains of nodes                                                         *)
(***************************************************************************)

\* Following nx from h goes through the nodes of S, each once, and ends: r says
\* how many are left from each node on
Ranked(nx, h, S, r) ==
    /\ r \in [Nodes \union {Nil} -> Nat] /\ r[Nil] = 0
    /\ S \subseteq Nodes /\ h \in S \union {Nil}
    /\ \A n \in S : nx[n] \in S \union {Nil} /\ r[n] = r[nx[n]] + 1 /\ r[n] <= r[h]
    /\ \A m, n \in S : r[m] = r[n] => m = n
    /\ \A k \in 1..r[h] : \E n \in S : r[n] = k

IsChain(nx, h, S) == \E r : Ranked(nx, h, S, r)

\* The empty list
LEMMA ChainEmpty ==
    ASSUME NEW nx
    PROVE  IsChain(nx, Nil, {})
<1> DEFINE r == [n \in Nodes \union {Nil} |-> 0]
<1>1. r \in [Nodes \union {Nil} -> Nat] /\ r[Nil] = 0
  OBVIOUS
<1> HIDE DEF r
<1>2. Ranked(nx, Nil, {}, r)
  BY <1>1 DEF Ranked
<1> QED
  BY <1>2 DEF IsChain

\* Nothing follows from no node
LEMMA ChainNil ==
    ASSUME NEW nx, NEW S, IsChain(nx, Nil, S)
    PROVE  S = {}
<1>1. PICK r : Ranked(nx, Nil, S, r)
  BY DEF IsChain
<1>2. ASSUME NEW n \in S
      PROVE  FALSE
  <2>1. r[n] = r[nx[n]] + 1 /\ r[n] <= 0 /\ nx[n] \in Nodes \union {Nil}
    BY <1>1 DEF Ranked
  <2>2. r[nx[n]] \in Nat
    BY <1>1, <2>1 DEF Ranked
  <2> QED
    BY <2>1, <2>2
<1> QED
  BY <1>2

\* A chain depends on the nodes it goes through alone
LEMMA ChainFrame ==
    ASSUME NEW nx, NEW ny, NEW h, NEW S, IsChain(nx, h, S), \A n \in S : ny[n] = nx[n]
    PROVE  IsChain(ny, h, S)
<1>1. PICK r : Ranked(nx, h, S, r)
  BY DEF IsChain
<1>2. Ranked(ny, h, S, r)
  BY <1>1 DEF Ranked
<1> QED
  BY <1>2 DEF IsChain

\* A node linked in front of a chain
LEMMA ChainPush ==
    ASSUME NEW nx \in [Nodes -> Nodes \union {Nil}], NEW h, NEW S, IsChain(nx, h, S),
           NEW n \in Nodes \ S
    PROVE  IsChain([nx EXCEPT ![n] = h], n, S \union {n})
<1> DEFINE ny == [nx EXCEPT ![n] = h]
<1>1. PICK r : Ranked(nx, h, S, r)
  BY DEF IsChain
<1>2. S \subseteq Nodes /\ h \in S \union {Nil} /\ n # Nil /\ r[h] \in Nat
      /\ r \in [Nodes \union {Nil} -> Nat] /\ h # n
  BY <1>1 DEF Ranked, Nodes, Nil
<1> DEFINE q == [r EXCEPT ![n] = r[h] + 1]
<1>3. ny[n] = h /\ \A m \in S : ny[m] = nx[m]
  BY <1>2
<1>4. /\ q \in [Nodes \union {Nil} -> Nat] /\ q[Nil] = 0 /\ q[n] = r[h] + 1
      /\ \A m \in S \union {Nil} : q[m] = r[m]
  BY <1>1, <1>2 DEF Ranked
<1> HIDE DEF ny, q
<1>5. ASSUME NEW m \in S \union {n}
      PROVE  ny[m] \in S \union {n} \union {Nil} /\ q[m] = q[ny[m]] + 1 /\ q[m] <= q[n]
  <2>1. CASE m = n
    BY <1>2, <1>3, <1>4, <2>1
  <2>2. CASE m \in S
    <3>1. nx[m] \in S \union {Nil} /\ r[m] = r[nx[m]] + 1 /\ r[m] <= r[h] /\ r[m] \in Nat
      BY <1>1, <1>2, <2>2 DEF Ranked
    <3> QED
      BY <1>2, <1>3, <1>4, <2>2, <3>1
  <2> QED
    BY <2>1, <2>2
<1>6. ASSUME NEW m \in S \union {n}, NEW o \in S \union {n}, q[m] = q[o]
      PROVE  m = o
  <2>1. \A x \in S : r[x] <= r[h] /\ r[x] \in Nat /\ q[x] = r[x]
    BY <1>1, <1>2, <1>4 DEF Ranked
  <2>2. \A x \in S : q[x] # q[n]
    BY <1>2, <1>4, <2>1
  <2>3. CASE m \in S /\ o \in S
    BY <1>1, <1>6, <2>1, <2>3 DEF Ranked
  <2> QED
    BY <1>6, <2>2, <2>3
<1>7. ASSUME NEW k \in 1..q[n]
      PROVE  \E m \in S \union {n} : q[m] = k
  <2>1. CASE k = r[h] + 1
    BY <1>4, <2>1
  <2>2. CASE k # r[h] + 1
    <3>1. k \in 1..r[h]
      BY <1>2, <1>4, <2>2
    <3>2. PICK m \in S : r[m] = k
      BY <1>1, <3>1 DEF Ranked
    <3> QED
      BY <1>4, <3>2
  <2> QED
    BY <2>1, <2>2
<1>8. Ranked(ny, n, S \union {n}, q)
  BY <1>2, <1>4, <1>5, <1>6, <1>7 DEF Ranked
<1> QED
  BY <1>8 DEF IsChain, ny

\* The chain from the second node on
LEMMA ChainPop ==
    ASSUME NEW nx, NEW h, NEW S, IsChain(nx, h, S), h # Nil
    PROVE  h \in S /\ IsChain(nx, nx[h], S \ {h})
<1>1. PICK r : Ranked(nx, h, S, r)
  BY DEF IsChain
<1> DEFINE g == nx[h]
<1>2. /\ h \in S /\ g \in S \union {Nil} /\ r[h] = r[g] + 1
      /\ S \subseteq Nodes /\ r \in [Nodes \union {Nil} -> Nat] /\ r[Nil] = 0
  BY <1>1 DEF Ranked
<1>3. r[g] \in Nat /\ g # h /\ (\A m \in S : r[m] \in Nat)
  BY <1>2
<1> HIDE DEF g
<1>4. ASSUME NEW m \in S \ {h}
      PROVE  nx[m] \in (S \ {h}) \union {Nil} /\ r[m] = r[nx[m]] + 1 /\ r[m] <= r[g]
  <2>1. nx[m] \in S \union {Nil} /\ r[m] = r[nx[m]] + 1 /\ r[m] <= r[h] /\ r[m] # r[h]
    BY <1>1, <1>2 DEF Ranked
  <2>2. r[nx[m]] \in Nat /\ r[nx[m]] # r[h]
    BY <1>2, <1>3, <2>1
  <2> QED
    BY <1>2, <1>3, <2>1, <2>2
<1>5. ASSUME NEW k \in 1..r[g]
      PROVE  \E m \in S \ {h} : r[m] = k
  <2>1. k \in 1..r[h] /\ k # r[h]
    BY <1>2, <1>3
  <2>2. PICK m \in S : r[m] = k
    BY <1>1, <2>1 DEF Ranked
  <2> QED
    BY <2>1, <2>2
<1>6. \A m, o \in S : r[m] = r[o] => m = o
  BY <1>1 DEF Ranked
<1>7. Ranked(nx, g, S \ {h}, r)
  BY <1>2, <1>3, <1>4, <1>5, <1>6 DEF Ranked
<1> QED
  BY <1>2, <1>7 DEF IsChain, g

\* No node is counted twice: a chain is no longer than there are nodes
LEMMA ChainLength ==
    ASSUME NEW nx, NEW h, NEW S, NEW r, Ranked(nx, h, S, r)
    PROVE  r[h] \in 0..MaxMsgs
<1> DEFINE len == r[h]
<1>1. len \in Nat /\ MaxMsgs \in Nat /\ (\A k \in 1..len : \E n \in S : r[n] = k)
      /\ S \subseteq 1..MaxMsgs
  BY BoundsAssumption DEF Ranked, Nodes, Nil
<1> DEFINE f == [k \in 1..len |-> CHOOSE n \in S : r[n] = k]
<1>2. \A k \in 1..len : f[k] \in S /\ r[f[k]] = k
  BY <1>1
<1>3. f \in [1..len -> 1..MaxMsgs] /\ DOMAIN f = 1..len
  BY <1>1, <1>2
<1> HIDE DEF f, len
<1>4. f \in Injection(1..len, 1..MaxMsgs)
  BY <1>2, <1>3 DEF Injection, IsInjective
<1>5. /\ IsFiniteSet(1..MaxMsgs) /\ Cardinality(1..MaxMsgs) = MaxMsgs
      /\ Cardinality(1..len) = len
  <2>1. \A a, b \in Int : /\ IsFiniteSet(a..b)
                          /\ Cardinality(a..b) = IF a > b THEN 0 ELSE b - a + 1
    BY FS_Interval
  <2> QED
    BY <1>1, <2>1
<1>6. Cardinality(1..len) <= Cardinality(1..MaxMsgs)
  BY <1>4, <1>5, FS_Injection
<1> QED
  BY <1>1, <1>5, <1>6 DEF len

\* Following p->rmes ends, and goes through the nodes of its chain
LEMMA ChainFollow ==
    ASSUME NEW S, IsChain(next, head, S)
    PROVE  Follow[MaxMsgs + 1] = Nil /\ Listed = S
<1>1. PICK r : Ranked(next, head, S, r)
  BY DEF IsChain
<1>2. /\ S \subseteq Nodes /\ head \in S \union {Nil} /\ Nil \notin S
      /\ r \in [Nodes \union {Nil} -> Nat] /\ r[Nil] = 0
      /\ \A n \in S : next[n] \in S \union {Nil} /\ r[n] = r[next[n]] + 1 /\ r[n] <= r[head]
      /\ \A m, n \in S : r[m] = r[n] => m = n
      /\ \A k \in 1..r[head] : \E n \in S : r[n] = k
  BY <1>1 DEF Ranked, Nodes, Nil
<1>3. r[head] \in 0..MaxMsgs /\ MaxMsgs \in Nat
  BY <1>1, ChainLength, BoundsAssumption
<1> DEFINE len == r[head]
           At(k) == CHOOSE n \in S : r[n] = len - k
           g == [k \in 0..MaxMsgs + 1 |-> IF k < len THEN At(k) ELSE Nil]
<1>4. \A n \in S : r[n] \in 1..len
  BY <1>2
<1>5. \A k \in 0..len - 1 : At(k) \in S /\ r[At(k)] = len - k
  <2> SUFFICES ASSUME NEW k \in 0..len - 1
               PROVE  At(k) \in S /\ r[At(k)] = len - k
    OBVIOUS
  <2>1. len - k \in 1..len
    BY <1>3
  <2> QED
    BY <1>2, <2>1
<1>6. len > 0 => head \in S
  BY <1>2
<1>7. len = 0 => head = Nil
  BY <1>2, <1>4
<1> HIDE DEF At, len
<1>8. g[0] = head
  <2>1. CASE len = 0
    BY <1>3, <1>7, <2>1
  <2>2. CASE len # 0
    <3>1. len \in Nat /\ 0 < len /\ 0 \in 0..len - 1
      BY <1>3, <2>2 DEF len
    <3>2. r[At(0)] = r[head] /\ At(0) \in S
      BY <1>3, <1>5, <3>1 DEF len
    <3> QED
      BY <1>2, <1>3, <1>6, <3>1, <3>2
  <2> QED
    BY <2>1, <2>2
<1>9. ASSUME NEW k \in 1..MaxMsgs + 1
      PROVE  g[k] = IF g[k-1] = Nil THEN Nil ELSE next[g[k-1]]
  <2>1. len \in 0..MaxMsgs /\ k \in 0..MaxMsgs + 1 /\ k - 1 \in 0..MaxMsgs + 1
    BY <1>3 DEF len
  <2>2. CASE k - 1 >= len
    BY <2>1, <2>2
  <2>3. CASE k - 1 < len
    <3>1. k - 1 \in 0..len - 1
      BY <2>1, <2>3
    <3>2. g[k-1] = At(k-1) /\ At(k-1) \in S /\ r[At(k-1)] = len - (k - 1)
      BY <1>5, <2>1, <2>3, <3>1
    <3> DEFINE m == next[At(k-1)]
    <3>3. m \in S \union {Nil} /\ r[m] = len - k
      <4>1. m \in S \union {Nil} /\ len - (k - 1) = r[m] + 1
        BY <1>2, <3>2
      <4>2. r[m] \in Nat
        BY <1>2, <4>1
      <4> QED
        BY <2>1, <4>1, <4>2
    <3> HIDE DEF m
    <3>4. g[k] = m
      <4>1. CASE k = len
        BY <1>4, <2>1, <3>3, <4>1
      <4>2. CASE k # len
        <5>1. k \in 0..len - 1 /\ k < len
          BY <2>1, <2>3, <4>2
        <5>2. g[k] = At(k) /\ At(k) \in S /\ r[At(k)] = len - k
          BY <1>5, <2>1, <5>1
        <5>3. m # Nil
          BY <1>2, <2>1, <3>3, <5>1
        <5> QED
          BY <1>2, <3>3, <5>2, <5>3
      <4> QED
        BY <4>1, <4>2
    <3> QED
      BY <1>2, <3>2, <3>4 DEF m
  <2> QED
    BY <2>1, <2>2, <2>3
<1> DEFINE Body(f) == [k \in 0..MaxMsgs + 1 |->
                          IF k = 0 THEN head ELSE IF f[k-1] = Nil THEN Nil ELSE next[f[k-1]]]
<1>10. g = Body(g)
  <2>1. \A k \in 0..MaxMsgs + 1 : g[k] = Body(g)[k]
    <3> HIDE DEF g
    <3> SUFFICES ASSUME NEW k \in 0..MaxMsgs + 1
                 PROVE  g[k] = Body(g)[k]
      OBVIOUS
    <3>1. k = 0 \/ k \in 1..MaxMsgs + 1
      BY <1>3
    <3> QED
      BY <1>8, <1>9, <3>1
  <2>2. DOMAIN g = 0..MaxMsgs + 1 /\ g = [k \in 0..MaxMsgs + 1 |-> g[k]]
    OBVIOUS
  <2> HIDE DEF g
  <2> QED
    BY <2>1, <2>2
<1> HIDE DEF g
<1>11. Follow = Body(Follow)
  BY <1>10 DEF Follow
<1>12. \A k \in 0..MaxMsgs + 1 : Follow[k] = g[k]
  <2> DEFINE T == {k \in 0..MaxMsgs + 1 : Follow[k] # g[k]}
  <2> SUFFICES ASSUME T # {}
               PROVE  FALSE
    OBVIOUS
  <2>1. T \subseteq Nat
    BY <1>3
  <2>2. PICK d \in T : \A y \in T : d <= y
    <3> HIDE DEF T
    <3> QED
      BY <2>1, LeastNatural
  <2>3. d \in 0..MaxMsgs + 1 /\ Follow[d] # g[d]
    OBVIOUS
  <2>4. CASE d = 0
    BY <1>8, <1>11, <2>3, <2>4
  <2>5. CASE d # 0
    <3>1. d - 1 \in 0..MaxMsgs + 1 /\ d \in 1..MaxMsgs + 1 /\ ~(d <= d - 1)
      BY <1>3, <2>3, <2>5
    <3>2. Follow[d-1] = g[d-1]
      BY <2>2, <3>1
    <3>3. Follow[d] = IF Follow[d-1] = Nil THEN Nil ELSE next[Follow[d-1]]
      BY <1>11, <2>3, <2>5
    <3> QED
      BY <1>9, <2>3, <3>1, <3>2, <3>3
  <2> QED
    BY <2>4, <2>5
<1>13. len \in 0..MaxMsgs /\ MaxMsgs + 1 \in 0..MaxMsgs + 1 /\ ~(MaxMsgs + 1 < len)
  BY <1>3 DEF len
<1>14. Follow[MaxMsgs + 1] = Nil
  BY <1>12, <1>13 DEF g
<1>15. ASSUME NEW n \in Listed
       PROVE  n \in S
  <2>1. PICK k \in 0..MaxMsgs + 1 : n = g[k] /\ n # Nil
    BY <1>12 DEF Listed
  <2>2. k < len /\ n = At(k)
    BY <2>1 DEF g
  <2>3. k \in 0..len - 1
    BY <1>13, <2>2
  <2> QED
    BY <1>5, <2>2, <2>3
<1>16. ASSUME NEW n \in S
       PROVE  n \in Listed
  <2>1. r[n] \in 1..len /\ n # Nil
    BY <1>2, <1>4 DEF len
  <2> DEFINE k == len - r[n]
  <2>2. k \in 0..len - 1 /\ k \in 0..MaxMsgs + 1 /\ k < len /\ len - k = r[n]
    BY <1>13, <2>1
  <2>3. At(k) \in S /\ r[At(k)] = r[n]
    BY <1>5, <2>2
  <2>4. At(k) = n
    BY <1>2, <2>3
  <2>5. g[k] = n
    BY <2>2, <2>4 DEF g
  <2> HIDE DEF k
  <2> QED
    BY <1>12, <2>1, <2>2, <2>5 DEF Listed
<1> QED
  BY <1>14, <1>15, <1>16

(***************************************************************************)
(* The list and the answers                                                *)
(***************************************************************************)

\* The answer the thread has in hand, the nodes that are not off the list, and the
\* requests the client has not disposed of the answers of
InHand == IF tpc = "add" /\ got # 0 THEN {got} ELSE {}
Live   == (1..Len(mes)) \ gone
Open   == pending \union InHand \union ({mes[n] : n \in Live} \ {0})

\* Answers are in the order of the requests: in the list, then the one in hand,
\* then those still to come
OrderInv ==
    /\ \A m, n \in 1..Len(mes) : m < n /\ mes[n] # 0 => mes[m] < mes[n]
    /\ \A n \in 1..Len(mes) : \A i \in InHand \union pending : mes[n] < i
    /\ \A i \in InHand, j \in pending : i < j
    /\ \A n \in 1..Len(mes) : mes[n] <= Len(chan)
    /\ tpc = "add" => got <= Len(chan)
    /\ first <= Len(chan) + 1

\* Each request that is still to be asked for has its answer somewhere
Covered ==
    cpc \notin {"down", "dead"} =>
        \A i \in first..Len(chan) :
            i \in pending \union InHand \/ \E n \in 1..Len(mes) : mes[n] = i

\* There is one channel at a time: before the LAUNCH is answered it is the only
\* request, and afterwards there are only LOADs
Phase ==
    IF launched THEN \A i \in Open \union (first..Len(chan)) : chan[i] = Media
                ELSE Len(chan) <= first /\ \A i \in Open : i >= first

\* The nodes off the list: RepliesKept up to the end of the session
GoneInv == cpc # "join" => \A n \in gone : mes[n] < first \/ n = fmes

\* What the call has found, and when it gives up
FoundInv ==
    /\ fmes # Nil => /\ fmes \in gone /\ mes[fmes] = first
                      /\ cpc \in {"walk", "leave", "return", "dead"}
    /\ cpc \in {"want", "test", "wait"} => fmes = Nil
    /\ cpc \in {"leave", "return"} => fmes # Nil \/ rv = 2 \/ Stopping
    /\ cpc \in {"want", "test", "walk", "wait"} => rv = 0

\* Between sessions there is no list, and nothing to come
DownInv ==
    /\ cpc = "down" => tpc = "none" /\ mes = <<>> /\ gone = {} /\ pending = {} /\ head = Nil
    /\ cpc = "join" => stop

\* The list is the nodes that have not been taken off it; during the walk it is
\* in two: those kept, all for later requests, and those still to be looked at.
\* A call walks the list again only when it has kept nothing
ListInv ==
    ~Noticed =>
        /\ IF cpc = "walk"
           THEN \E kept \in SUBSET Live : /\ IsChain(next, nlist, kept)
                                          /\ IsChain(next, walk, Live \ kept)
                                          /\ \A n \in kept : mes[n] > first
           ELSE IsChain(next, head, Live)
        /\ cpc \in {"want", "test", "wait"} => nlist = Nil

DataInv == OrderInv /\ Covered /\ Phase
LInv    == TInv /\ DataInv /\ GoneInv /\ FoundInv /\ DownInv /\ ListInv

\* The two parts of the invariant do not depend on more than they mention
LEMMA DataFrame ==
    ASSUME DataInv, UNCHANGED <<mes, gone, pending, chan, first, launched, InHand>>,
           tpc' = "add" => tpc = "add" /\ got' = got,
           cpc \in {"down", "dead"} => cpc' \in {"down", "dead"}
    PROVE  DataInv'
BY DEF DataInv, OrderInv, Covered, Phase, Open, Live

\* nor does the list, outside the walk.
LEMMA ListFrame ==
    ASSUME ListInv, UNCHANGED <<mes, gone, head, next>>, cpc # "walk", cpc' # "walk",
           cpc' \in {"want", "test", "wait"} =>
               nlist' = Nil \/ (cpc \in {"want", "test", "wait"} /\ nlist' = nlist)
    PROVE  ListInv'
BY DEF ListInv, Live, Noticed

\* Answers are numbers of requests, and a notice is none
LEMMA AnswerTypes ==
    ASSUME TInv
    PROVE  /\ mes \in Seq(Ids \union {0}) /\ Len(mes) \in Nat
           /\ \A n \in 1..Len(mes) : mes[n] \in Ids \union {0} /\ mes[n] \in Nat
<1>1. mes \in Seq(Ids \union {0}) /\ Len(mes) \in Nat
  BY DEF TInv, TypeOK, ListTypes
<1>2. Ids \subseteq Nat
  BY BoundsAssumption DEF Ids
<1>3. \A n \in 1..Len(mes) : mes[n] \in Ids \union {0}
  BY <1>1
<1>4. \A n \in 1..Len(mes) : mes[n] \in Nat
  <2>1. \A i \in Ids \union {0} : i \in Nat
    BY <1>2
  <2> QED
    BY <1>3, <2>1
<1> QED
  BY <1>1, <1>3, <1>4

\* Two nodes with an answer to the same request are the same
LEMMA OneAnswer ==
    ASSUME TInv, OrderInv, NEW m \in 1..Len(mes), NEW n \in 1..Len(mes), mes[m] = mes[n],
           mes[m] # 0
    PROVE  m = n
<1>1. m \in Nat /\ n \in Nat /\ mes[m] \in Nat /\ mes[n] \in Nat
  BY AnswerTypes
<1> QED
  BY <1>1 DEF OrderInv

\* The program starts with an empty list
LEMMA InitLInv == Init => LInv
<1> SUFFICES ASSUME Init PROVE LInv
  OBVIOUS
<1>1. TInv
  BY InitTInv
<1>2. Live = {} /\ InHand = {} /\ Open = {} /\ Len(chan) = 0 /\ Len(mes) = 0
  BY DEF Init, Live, InHand, Open
<1>3. DataInv
  BY <1>2 DEF DataInv, OrderInv, Covered, Phase, Init
<1>4. GoneInv /\ FoundInv /\ DownInv
  BY DEF Init, GoneInv, FoundInv, DownInv
<1>5. ListInv
  BY <1>2, ChainEmpty DEF Init, ListInv
<1> QED
  BY <1>1, <1>3, <1>4, <1>5 DEF LInv

\* The receive thread: the oldest answer comes in hand, and goes to the head of
\* the list
LEMMA ThreadKeepsList ==
    ASSUME LInv, Thread, Ordered, "calloc" \notin Faults
    PROVE  LInv'
<1> USE DEF flagVars, wantVars, listVars, nodeVars, reqVars, walkVars
<1>0. TInv /\ TInv' /\ DataInv /\ GoneInv /\ FoundInv /\ DownInv /\ ListInv
  BY ThreadKeepsTypes DEF LInv
<1>1. CASE ThreadTest \/ ReceiveNothing \/ ReceiveError \/ ReceiveClose
           \/ ThreadStopped \/ ThreadRelease
  <2>1. UNCHANGED <<mes, gone, pending, chan, first, launched, head, next, fmes, nlist, walk,
                    rv, cpc, got>>
        /\ tpc # "add" /\ tpc' # "add" /\ tpc # "none"
    BY <1>1 DEF ThreadTest, ReceiveNothing, ReceiveError, ReceiveClose, ThreadStopped,
                ThreadRelease
  <2>2. DataInv'
    <3>1. UNCHANGED InHand
      BY <2>1 DEF InHand
    <3> QED
      BY <1>0, <2>1, <3>1, DataFrame
  <2>3. GoneInv' /\ ListInv'
    BY <1>0, <2>1 DEF GoneInv, ListInv, Live, Noticed
  <2>4. FoundInv' /\ DownInv'
    <3>1. stop' = stop /\ (stopped => stopped')
      BY <1>1 DEF ThreadTest, ReceiveNothing, ReceiveError, ReceiveClose, ThreadStopped,
                  ThreadRelease
    <3> QED
      BY <1>0, <2>1, <3>1 DEF FoundInv, DownInv, Stopping
  <2> QED
    BY <1>0, <2>2, <2>3, <2>4 DEF LInv
<1>2. CASE ReceiveReply
  <2>1. PICK i \in pending : /\ \A j \in pending : i <= j
                             /\ pending' = pending \ {i} /\ got' = i /\ tpc' = "add"
    BY <1>2 DEF ReceiveReply, Answerable, Accept
  <2>2. UNCHANGED <<mes, gone, chan, first, launched, head, next, fmes, nlist, walk, rv, cpc,
                    stop, stopped>> /\ tpc = "receive"
    BY <1>2 DEF ReceiveReply, Accept
  <2>3. InHand = {} /\ InHand' = {i} /\ Live' = Live
    <3>1. i # 0
      BY <1>0 DEF TInv, TypeOK, RequestTypes
    <3> QED
      BY <2>1, <2>2, <3>1 DEF InHand, Live
  <2>4. /\ pending \subseteq Nat /\ i \in 1..Len(chan) /\ Len(chan) \in Nat
        /\ \A n \in 1..Len(mes) : mes[n] \in Nat
    BY <1>0, AnswerTypes DEF TInv, TypeOK, RequestTypes
  <2>5. pending \union InHand = pending' \union InHand' /\ Open' = Open
    BY <2>1, <2>2, <2>3 DEF Open
  <2>6. OrderInv'
    <3>1. \A j \in pending' : i < j
      BY <2>1, <2>4
    <3> QED
      BY <1>0, <2>1, <2>2, <2>3, <2>4, <2>5, <3>1 DEF DataInv, OrderInv
  <2>7. Covered' /\ Phase'
    BY <1>0, <2>2, <2>5 DEF DataInv, Covered, Phase
  <2>8. GoneInv' /\ FoundInv' /\ ListInv'
    BY <1>0, <2>2, <2>3 DEF GoneInv, FoundInv, ListInv, Noticed, Stopping
  <2>9. DownInv'
    BY <1>0, <2>2 DEF DownInv
  <2> QED
    BY <1>0, <2>6, <2>7, <2>8, <2>9 DEF LInv, DataInv
<1>3. CASE ReceiveNotice
  <2>1. /\ UNCHANGED <<mes, gone, chan, first, launched, head, next, fmes, nlist, walk, rv, cpc,
                       stop, stopped, pending>>
        /\ tpc = "receive" /\ tpc' = "add" /\ got' = 0
    BY <1>3 DEF ReceiveNotice, Accept
  <2>2. InHand = {} /\ InHand' = {} /\ Live' = Live /\ Open' = Open /\ Len(chan) \in Nat
    BY <1>0, <2>1 DEF InHand, Live, Open, TInv, TypeOK, RequestTypes
  <2>3. DataInv'
    BY <1>0, <2>1, <2>2 DEF DataInv, OrderInv, Covered, Phase
  <2>4. GoneInv' /\ FoundInv' /\ DownInv' /\ ListInv'
    BY <1>0, <2>1, <2>2 DEF GoneInv, FoundInv, DownInv, ListInv, Noticed, Stopping
  <2> QED
    BY <1>0, <2>3, <2>4 DEF LInv
<1>4. CASE ThreadAdd
  <2> DEFINE n == Len(mes) + 1
  <2>1. /\ mes' = Append(mes, got) /\ next' = [next EXCEPT ![n] = head] /\ head' = n
        /\ tpc = "add" /\ tpc' = "test" /\ cpc # "walk"
        /\ UNCHANGED <<gone, chan, first, launched, fmes, nlist, walk, rv, cpc, stop, stopped,
                       pending>>
    BY <1>4 DEF ThreadAdd, LinkedBefore, RlockFree
  <2>2. /\ mes \in Seq(Ids \union {0}) /\ Len(mes) \in Nat /\ n \in Nodes
        /\ got \in Ids \union {0} /\ Ids \subseteq Nat
        /\ gone \subseteq 1..Len(mes) /\ next \in [Nodes -> Nodes \union {Nil}]
        /\ Len(chan) \in Nat /\ first \in Nat
    <3>1. Len(mes) < MaxMsgs /\ got \in Ids \union {0} /\ Ids \subseteq Nat
      BY <1>0, <2>1, BoundsAssumption DEF TInv, CallInv, TypeOK, ThreadTypes, Ids
    <3>2. mes \in Seq(Ids \union {0}) /\ Len(mes) \in Nat /\ MaxMsgs \in Nat
          /\ gone \subseteq 1..Len(mes) /\ next \in [Nodes -> Nodes \union {Nil}]
          /\ Len(chan) \in Nat /\ first \in Nat
      BY <1>0, BoundsAssumption DEF TInv, TypeOK, ListTypes, RequestTypes
    <3> QED
      BY <3>1, <3>2 DEF Nodes
  <2>3. /\ Len(mes') = n /\ mes'[n] = got /\ n \notin 1..Len(mes)
        /\ \A m \in 1..Len(mes) : mes'[m] = mes[m] /\ m < n /\ mes[m] \in Nat
        /\ 1..n = (1..Len(mes)) \union {n}
    <3>1. \A m \in 1..Len(mes) : mes[m] \in Nat
      BY <1>0, AnswerTypes
    <3>2. Len(mes') = n /\ mes'[n] = got /\ \A m \in 1..Len(mes) : mes'[m] = mes[m]
      BY <2>1, <2>2
    <3> QED
      BY <2>2, <3>1, <3>2
  <2> HIDE DEF n
  <2>4. /\ Live' = Live \union {n} /\ n \notin Live /\ InHand' = {}
        /\ InHand = IF got = 0 THEN {} ELSE {got}
    BY <2>1, <2>2, <2>3 DEF Live, InHand
  <2>5. Open' = Open
    <3>1. {mes'[m] : m \in Live'} = {mes[m] : m \in Live} \union {got}
      BY <2>3, <2>4 DEF Live
    <3> QED
      BY <2>1, <2>4, <3>1 DEF Open
  <2>6. OrderInv'
    <3>1. \A m \in 1..Len(mes) : (got # 0 => mes[m] < got) /\ \A j \in pending : mes[m] < j
      BY <1>0, <2>4 DEF DataInv, OrderInv
    <3>2. ASSUME NEW m \in 1..n, NEW o \in 1..n, m < o, mes'[o] # 0
          PROVE  mes'[m] < mes'[o]
      <4>1. m \in 1..Len(mes)
        BY <2>2, <2>3, <3>2 DEF n
      <4> QED
        BY <1>0, <2>3, <3>1, <3>2, <4>1 DEF DataInv, OrderInv
    <3>3. \A m \in 1..n : \A j \in pending : mes'[m] < j
      <4>1. got = 0 => \A j \in pending : got < j
        BY <1>0 DEF TInv, TypeOK, RequestTypes
      <4> QED
        BY <1>0, <2>3, <2>4, <3>1, <4>1 DEF DataInv, OrderInv
    <3>4. \A m \in 1..n : mes'[m] <= Len(chan)
      BY <1>0, <2>1, <2>3 DEF DataInv, OrderInv
    <3> QED
      BY <1>0, <2>1, <2>3, <2>4, <3>2, <3>3, <3>4 DEF DataInv, OrderInv
  <2>7. Covered' /\ Phase'
    <3>1. Phase'
      BY <1>0, <2>1, <2>5 DEF DataInv, Phase
    <3>2. Covered'
      <4>1. \A i \in first..Len(chan) : i \in InHand => mes'[n] = i
        BY <2>3, <2>4
      <4> QED
        BY <1>0, <2>1, <2>3, <2>4, <4>1 DEF DataInv, Covered
    <3> QED
      BY <3>1, <3>2
  <2>8. GoneInv' /\ FoundInv' /\ DownInv'
    BY <1>0, <2>1, <2>2, <2>3 DEF GoneInv, FoundInv, DownInv, Stopping
  <2>9. ListInv'
    <3> SUFFICES ASSUME ~Noticed'
                 PROVE  ListInv'
      BY DEF ListInv
    <3>1. ~Noticed
      BY <2>3 DEF Noticed
    <3>2. IsChain(next, head, Live)
      BY <1>0, <2>1, <3>1 DEF ListInv
    <3>3. IsChain(next', n, Live \union {n})
      BY <2>1, <2>2, <2>4, <3>2, ChainPush
    <3> QED
      BY <1>0, <2>1, <2>4, <3>1, <3>3 DEF ListInv
  <2> QED
    BY <1>0, <2>6, <2>7, <2>8, <2>9 DEF LInv, DataInv
<1> QED
  BY <1>1, <1>2, <1>3, <1>4 DEF Thread

\* get_a_reply_id: the walk throws away what is older than the request and takes
\* its answer; what it keeps is for later requests
LEMMA WalkKeepsList ==
    ASSUME LInv, WalkNode \/ WalkEnds
    PROVE  LInv'
<1> USE DEF flagVars, wantVars, listVars, nodeVars, threadVars, reqVars, walkVars
<1>0. TInv /\ TInv' /\ DataInv /\ GoneInv /\ FoundInv /\ DownInv /\ ListInv
  BY ClientKeepsTypes DEF LInv, Client
<1>1. /\ mes \in Seq(Ids \union {0}) /\ Len(mes) \in Nat /\ first \in Nat
      /\ Nil \notin 1..Len(mes) /\ first \in 1..Len(chan) /\ Len(chan) \in Nat
      /\ gone \subseteq 1..Len(mes) /\ next \in [Nodes -> Nodes \union {Nil}]
      /\ \A n \in 1..Len(mes) : mes[n] \in Nat
  <2>1. cpc = "walk"
    BY DEF WalkNode, WalkEnds
  <2> QED
    BY <1>0, <2>1, AnswerTypes
       DEF TInv, TypeOK, ListTypes, RequestTypes, CallInv, Inside, Nil
<1>2. CASE WalkNode
  <2>1. /\ cpc = "walk" /\ cpc' \in {"walk", "dead"} /\ walk # Nil /\ walk' = next[walk]
        /\ UNCHANGED <<head, mes, tpc, got, chan, first, launched, rv, pending, stop, stopped>>
        /\ cpc' = "dead" => walk \in gone
    BY <1>2 DEF WalkNode, MayDie
  <2>2. walk \in 1..Len(mes) /\ walk \in Nodes /\ mes[walk] \in Nat
    BY <1>0, <1>1, <2>1 DEF TInv, TypeOK, WalkTypes, PointerInv, Arrived, Nil
  <2>3. \/ /\ TooOld(walk) \/ Ours(walk)
           /\ gone' = gone \union {walk} /\ next' = next /\ nlist' = nlist
           /\ fmes' = IF Ours(walk) THEN walk ELSE fmes
        \/ /\ ~TooOld(walk) /\ ~Ours(walk)
           /\ gone' = gone /\ next' = [next EXCEPT ![walk] = nlist] /\ nlist' = walk
           /\ fmes' = fmes
    BY <1>1, <1>2, <2>2 DEF WalkNode, TooOld, Ours
  <2>4. UNCHANGED InHand /\ gone \subseteq gone'
    BY <2>1, <2>3 DEF InHand
  <2>5. DataInv'
    <3>1. Open' \subseteq Open
      BY <2>1, <2>4 DEF Open, Live
    <3> QED
      BY <1>0, <2>1, <2>4, <3>1 DEF DataInv, OrderInv, Covered, Phase
  <2>6. GoneInv' /\ FoundInv' /\ DownInv'
    <3>1. CASE Ours(walk)
      <4>1. mes[walk] = first /\ fmes' = walk /\ gone' = gone \union {walk}
        BY <2>3, <3>1 DEF Ours
      <4>2. fmes # Nil => fmes = walk
        <5> SUFFICES ASSUME fmes # Nil
                     PROVE  fmes = walk
          OBVIOUS
        <5>1. fmes \in gone /\ mes[fmes] = first
          BY <1>0 DEF FoundInv
        <5>2. fmes \in 1..Len(mes) /\ first # 0
          BY <1>1, <5>1
        <5> QED
          BY <1>0, <2>2, <4>1, <5>1, <5>2, OneAnswer DEF DataInv
      <4>3. \A n \in gone' : n \in 1..Len(mes) /\ n # Nil
        BY <1>1, <2>2, <4>1
      <4>4. GoneInv'
        BY <1>0, <2>1, <4>1, <4>2, <4>3 DEF GoneInv
      <4> QED
        BY <1>0, <2>1, <4>1, <4>4 DEF FoundInv, DownInv, Stopping
    <3>2. CASE ~Ours(walk)
      <4>1. /\ fmes' = fmes
            /\ gone' = gone \/ (mes[walk] < first /\ gone' = gone \union {walk})
        BY <2>3, <3>2 DEF TooOld
      <4>2. GoneInv'
        BY <1>0, <2>1, <4>1 DEF GoneInv
      <4> QED
        BY <1>0, <2>1, <2>4, <4>1, <4>2 DEF FoundInv, DownInv, Stopping
    <3> QED
      BY <3>1, <3>2
  <2>7. ASSUME ~Noticed
        PROVE  ListInv'
    <3>1. PICK kept \in SUBSET Live : /\ IsChain(next, nlist, kept)
                                      /\ IsChain(next, walk, Live \ kept)
                                      /\ \A n \in kept : mes[n] > first
      BY <1>0, <2>1, <2>7 DEF ListInv
    <3>2. walk \in Live \ kept /\ IsChain(next, next[walk], (Live \ kept) \ {walk})
      BY <2>1, <3>1, ChainPop
    <3>3. walk \notin gone /\ cpc' = "walk"
      BY <2>1, <3>2 DEF Live
    <3>4. CASE TooOld(walk) \/ Ours(walk)
      <4>1. gone' = gone \union {walk} /\ next' = next /\ nlist' = nlist
        BY <2>3, <3>4
      <4>2. Live' = Live \ {walk} /\ kept \subseteq Live'
        BY <2>1, <3>2, <4>1 DEF Live
      <4>3. Live' \ kept = (Live \ kept) \ {walk}
        BY <4>2
      <4>4. IsChain(next', walk', Live' \ kept)
        BY <2>1, <3>2, <4>1, <4>3
      <4> QED
        BY <2>1, <3>1, <3>3, <4>1, <4>2, <4>4 DEF ListInv
    <3>5. CASE ~(TooOld(walk) \/ Ours(walk))
      <4>1. gone' = gone /\ nlist' = walk /\ next' = [next EXCEPT ![walk] = nlist]
        BY <2>3, <3>5
      <4>2. mes[walk] > first
        <5>1. mes[walk] \in Open /\ mes[walk] # 0 /\ ChannelOf(mes[walk]) = chan[mes[walk]]
          BY <2>2, <2>7, <3>2 DEF Open, Noticed, ChannelOf
        <5>2. CASE launched
          <6>1. chan[mes[walk]] = Media /\ chan[first] = Media
            BY <1>0, <1>1, <5>1, <5>2 DEF DataInv, Phase
          <6> QED
            BY <1>1, <2>2, <3>5, <5>1, <6>1 DEF TooOld, Ours, SameChannel
        <5>3. CASE ~launched
          <6>1. mes[walk] >= first
            BY <1>0, <5>1, <5>3 DEF DataInv, Phase
          <6>2. mes[walk] # first
            BY <3>5, <5>1 DEF Ours, SameChannel
          <6> QED
            BY <1>1, <2>2, <6>1, <6>2
        <5> QED
          BY <5>2, <5>3
      <4>3. Live' = Live
        BY <2>1, <4>1 DEF Live
      <4> DEFINE more == kept \union {walk}
      <4>4. IsChain(next', nlist', more)
        BY <1>1, <2>2, <3>1, <3>2, <4>1, ChainPush
      <4>5. IsChain(next', walk', Live' \ more)
        <5>1. Live' \ more = (Live \ kept) \ {walk}
          BY <4>3
        <5>2. \A n \in (Live \ kept) \ {walk} : next'[n] = next[n]
          <6>1. Live \subseteq Nodes
            BY <1>0, <1>1, BoundsAssumption DEF Live, TInv, TypeOK, ListTypes, Nodes
          <6> QED
            BY <1>1, <4>1, <6>1
        <5>3. IsChain(next', next[walk], (Live \ kept) \ {walk})
          BY <3>2, <5>2, ChainFrame
        <5> QED
          BY <2>1, <5>1, <5>3
      <4>6. more \in SUBSET Live' /\ \A n \in more : mes'[n] > first'
        BY <2>1, <3>1, <3>2, <4>2, <4>3
      <4> HIDE DEF more
      <4> QED
        BY <3>3, <4>4, <4>5, <4>6 DEF ListInv
    <3> QED
      BY <3>4, <3>5
  <2>8. ListInv'
    BY <2>1, <2>7 DEF ListInv, Noticed
  <2> QED
    BY <1>0, <2>5, <2>6, <2>8 DEF LInv
<1>3. CASE WalkEnds
  <2>1. /\ cpc = "walk" /\ walk = Nil /\ head' = nlist
        /\ cpc' = IF fmes # Nil THEN "leave" ELSE "wait"
        /\ UNCHANGED <<next, mes, gone, tpc, got, chan, first, launched, fmes, nlist, walk, rv,
                       pending, stop, stopped>>
    BY <1>3 DEF WalkEnds, PutBack
  <2>2. ASSUME ~Noticed
        PROVE  ListInv'
    <3>1. PICK kept \in SUBSET Live : /\ IsChain(next, nlist, kept)
                                      /\ IsChain(next, Nil, Live \ kept)
                                      /\ \A n \in kept : mes[n] > first
      BY <1>0, <2>1, <2>2 DEF ListInv
    <3>2. kept = Live /\ Live' = Live
      <4>1. Live \ kept = {}
        BY <3>1, ChainNil
      <4> QED
        BY <2>1, <3>1, <4>1 DEF Live
    <3>3. fmes = Nil => kept = {}
      <4> SUFFICES ASSUME fmes = Nil, NEW w \in kept
                   PROVE  FALSE
        OBVIOUS
      <4>1. w \in 1..Len(mes) /\ mes[w] > first
        BY <3>1 DEF Live
      <4>2. \A i \in pending \union InHand : first < i
        <5>1. \A i \in pending \union InHand : mes[w] < i
          BY <1>0, <4>1 DEF DataInv, OrderInv
        <5>2. \A i \in pending \union InHand : i \in Nat
          BY <1>0, <1>1 DEF TInv, TypeOK, RequestTypes, ThreadTypes, InHand, Ids
        <5> QED
          BY <1>1, <4>1, <5>1, <5>2
      <4>3. PICK n \in 1..Len(mes) : mes[n] = first
        BY <1>0, <1>1, <2>1, <4>2 DEF DataInv, Covered
      <4>4. n \notin Live
        BY <1>1, <3>1, <3>2, <4>3
      <4>5. n \in gone
        BY <4>4 DEF Live
      <4> QED
        BY <1>0, <1>1, <2>1, <4>3, <4>5 DEF GoneInv
    <3>4. fmes = Nil => nlist = Nil
      BY <3>1, <3>3 DEF IsChain, Ranked
    <3> QED
      BY <2>1, <3>1, <3>2, <3>4 DEF ListInv
  <2>3. DataInv'
    <3>1. UNCHANGED InHand
      BY <2>1 DEF InHand
    <3> QED
      BY <1>0, <2>1, <3>1, DataFrame
  <2>4. ListInv'
    BY <2>1, <2>2 DEF ListInv, Noticed
  <2>5. FoundInv'
    BY <1>0, <2>1 DEF FoundInv
  <2>6. GoneInv' /\ DownInv'
    BY <1>0, <2>1 DEF GoneInv, DownInv
  <2> QED
    BY <1>0, <2>3, <2>4, <2>5, <2>6 DEF LInv
<1> QED
  BY <1>2, <1>3

\* get_a_reply_id: the request, the wait and the result.  The session goes on to
\* the next request only when the answer to this one is off the list
LEMMA CallKeepsList ==
    ASSUME LInv, Enter \/ SetWant \/ Test \/ WakeUp \/ StrayWake \/ TimesOut \/ Leave \/ Return
    PROVE  LInv'
<1> USE DEF flagVars, wantVars, listVars, nodeVars, threadVars, reqVars, walkVars
<1>0. TInv /\ TInv' /\ DataInv /\ GoneInv /\ FoundInv /\ DownInv /\ ListInv
  BY ClientKeepsTypes DEF LInv, Client
<1>1. CASE Enter \/ SetWant \/ WakeUp \/ StrayWake \/ TimesOut \/ Leave
  <2>1. /\ UNCHANGED <<mes, gone, tpc, got, pending, chan, first, launched, head, next, stop,
                       stopped>>
        /\ cpc \in {"enter", "want", "wait", "leave"}
        /\ cpc' \in {"return", "want", "test", "leave"}
    BY <1>1 DEF Enter, SetWant, WakeUp, StrayWake, TimesOut, Leave
  <2>2. DataInv' /\ ListInv'
    <3>1. UNCHANGED InHand
      BY <2>1 DEF InHand
    <3>2. DataInv'
      BY <1>0, <2>1, <3>1, DataFrame
    <3>3. cpc # "walk" /\ cpc' # "walk" /\ (cpc' \in {"want", "test", "wait"} =>
               nlist' = Nil \/ (cpc \in {"want", "test", "wait"} /\ nlist' = nlist))
      BY <1>1 DEF Enter, SetWant, WakeUp, StrayWake, TimesOut, Leave
    <3> QED
      BY <1>0, <2>1, <3>2, <3>3, ListFrame
  <2>3. fmes' = fmes
    BY <1>0, <1>1 DEF Enter, SetWant, WakeUp, StrayWake, TimesOut, Leave, TInv, PointerInv
  <2>4. GoneInv' /\ DownInv'
    BY <1>0, <2>1, <2>3 DEF GoneInv, DownInv
  <2>5. FoundInv'
    BY <1>0, <1>1, <2>1, <2>3
       DEF FoundInv, Stopping, Enter, SetWant, WakeUp, StrayWake, TimesOut, Leave
  <2> QED
    BY <1>0, <2>2, <2>4, <2>5 DEF LInv
<1>2. CASE Test
  <2>1. /\ UNCHANGED <<mes, gone, tpc, got, pending, chan, first, launched, head, next, stop,
                       stopped, fmes, nlist, rv>>
        /\ cpc = "test"
        /\ cpc' = IF Stopping THEN "leave" ELSE "walk"
        /\ ~Stopping => walk' = head
    BY <1>2 DEF Test
  <2>2. DataInv'
    <3>1. UNCHANGED InHand
      BY <2>1 DEF InHand
    <3> QED
      BY <1>0, <2>1, <3>1, DataFrame
  <2>3. GoneInv' /\ DownInv' /\ FoundInv'
    BY <1>0, <2>1 DEF GoneInv, DownInv, FoundInv, Stopping
  <2>4. ListInv'
    <3>1. CASE Stopping
      BY <1>0, <2>1, <3>1, ListFrame
    <3>2. CASE ~Stopping /\ ~Noticed
      <4>1. IsChain(next, head, Live) /\ nlist' = Nil /\ walk' = head /\ cpc' = "walk"
        BY <1>0, <2>1, <3>2 DEF ListInv
      <4>2. Live' = Live /\ IsChain(next', nlist', {}) /\ Live \ {} = Live
        BY <2>1, <4>1, ChainEmpty DEF Live
      <4> QED
        BY <2>1, <4>1, <4>2 DEF ListInv
    <3>3. CASE Noticed
      BY <2>1, <3>3 DEF ListInv, Noticed
    <3> QED
      BY <3>1, <3>2, <3>3
  <2> QED
    BY <1>0, <2>2, <2>3, <2>4 DEF LInv
<1>3. CASE Return
  <2>1. /\ UNCHANGED <<mes, gone, tpc, got, pending, chan, head, next, stopped>>
        /\ cpc = "return" /\ cpc' \in {"join", "idle"} /\ fmes' = Nil /\ rv' = 0
        /\ cpc' = "join" => stop'
    BY <1>3 DEF Return
  <2>2. ListInv' /\ DownInv' /\ FoundInv'
    BY <1>0, <2>1, ListFrame DEF FoundInv, DownInv
  <2>3. UNCHANGED <<InHand, Live, Open>>
    BY <2>1 DEF InHand, Live, Open
  <2>4. /\ first \in 1..Len(chan) /\ Len(chan) \in Nat /\ gone \subseteq 1..Len(mes)
        /\ Nil \notin 1..Len(mes) /\ \A n \in 1..Len(mes) : mes[n] \in Nat
        /\ \A i \in Open : i \in Nat /\ i <= Len(chan)
        /\ \A i \in pending \union InHand : i \in Nat
    <3>1. /\ first \in 1..Len(chan) /\ Len(chan) \in Nat /\ gone \subseteq 1..Len(mes)
          /\ \A n \in 1..Len(mes) : mes[n] \in Nat
      BY <1>0, <2>1, AnswerTypes DEF TInv, TypeOK, ListTypes, RequestTypes, CallInv, Inside
    <3>2. \A i \in pending \union InHand : i \in Nat /\ i <= Len(chan)
      <4>1. \A i \in InHand : i \in Nat /\ i <= Len(chan)
        BY <1>0, BoundsAssumption
           DEF TInv, TypeOK, ThreadTypes, InHand, Ids, DataInv, OrderInv
      <4>2. \A i \in pending : i \in Nat /\ i <= Len(chan)
        BY <1>0, <3>1 DEF TInv, TypeOK, RequestTypes
      <4> QED
        BY <4>1, <4>2
    <3>3. \A n \in Live : mes[n] \in Nat /\ mes[n] <= Len(chan)
      BY <1>0, <3>1 DEF Live, DataInv, OrderInv
    <3> QED
      BY <3>1, <3>2, <3>3 DEF Open, Nil
  <2>5. CASE UNCHANGED <<first, launched>> /\ cpc' = "join"
    <3>1. DataInv' /\ GoneInv'
      BY <1>0, <2>1, <2>3, <2>5, DataFrame DEF GoneInv
    <3> QED
      BY <1>0, <2>2, <3>1 DEF LInv
  <2>6. CASE launched /\ launched' /\ first' = Len(chan) + 1 /\ cpc' = "idle"
    <3>1. GoneInv'
      BY <1>0, <2>1, <2>4, <2>6 DEF GoneInv, DataInv, OrderInv
    <3>2. OrderInv'
      BY <1>0, <2>1, <2>3, <2>4, <2>6 DEF DataInv, OrderInv
    <3>3. first'..Len(chan') = {}
      BY <2>1, <2>4, <2>6
    <3>4. Covered' /\ Phase'
      BY <1>0, <2>1, <2>3, <2>6, <3>3 DEF DataInv, Covered, Phase
    <3> QED
      BY <1>0, <2>2, <3>1, <3>2, <3>4 DEF LInv, DataInv
  <2>7. CASE /\ ~(Stopping \/ rv # 0) /\ first' = first + 1 /\ cpc' = "idle"
             /\ launched' \in {TRUE, launched}
    <3>1. fmes \in gone /\ mes[fmes] = first /\ fmes \in 1..Len(mes)
      <4>1. rv # 2 /\ ~Stopping
        BY <2>7
      <4>2. fmes # Nil
        BY <1>0, <2>1, <4>1 DEF FoundInv
      <4>3. fmes \in gone /\ mes[fmes] = first
        BY <1>0, <4>2 DEF FoundInv
      <4> QED
        BY <2>4, <4>3
    <3>2. GoneInv'
      <4>1. \A n \in gone : mes[n] < first \/ n = fmes
        BY <1>0, <2>1 DEF GoneInv
      <4>2. \A n \in gone : mes[n] < first + 1
        BY <2>4, <3>1, <4>1
      <4> QED
        BY <2>1, <2>7, <4>2 DEF GoneInv
    <3>3. OrderInv'
      BY <1>0, <2>1, <2>3, <2>4, <2>7 DEF DataInv, OrderInv
    <3>4. first'..Len(chan') \subseteq first..Len(chan)
      BY <2>1, <2>4, <2>7
    <3>5. Covered'
      BY <1>0, <2>1, <2>3, <3>4 DEF DataInv, Covered
    <3>6. Phase'
      <4>1. CASE launched
        BY <1>0, <2>1, <2>3, <2>7, <3>4, <4>1 DEF DataInv, Phase
      <4>2. CASE ~launched
        <5>1. \A i \in pending \union InHand : i > first
          BY <1>0, <2>4, <3>1 DEF DataInv, OrderInv
        <5>2. \A n \in Live : mes[n] # first
          BY <1>0, <2>4, <3>1, OneAnswer DEF DataInv, Live
        <5>3. Open = {}
          <6>1. Len(chan) <= first /\ \A i \in Open : i >= first
            BY <1>0, <4>2 DEF DataInv, Phase
          <6>2. \A i \in Open : i = first
            BY <2>4, <6>1
          <6>3. first \notin Open
            BY <2>4, <5>1, <5>2 DEF Open
          <6> QED
            BY <6>2, <6>3
        <5>4. Len(chan) <= first
          BY <1>0, <4>2 DEF DataInv, Phase
        <5>5. first'..Len(chan') = {} /\ Len(chan') <= first' /\ Open' = {}
          BY <2>1, <2>3, <2>4, <2>7, <5>3, <5>4
        <5> QED
          BY <5>5 DEF Phase
      <4> QED
        BY <4>1, <4>2
    <3> QED
      BY <1>0, <2>2, <3>2, <3>3, <3>5, <3>6 DEF LInv, DataInv
  <2> QED
    BY <1>0, <1>3, <2>5, <2>6, <2>7 DEF Return, lastId, TInv, TypeOK, RequestTypes
<1> QED
  BY <1>1, <1>2, <1>3

\* The session: a new request is answered after all the others, and a session
\* ends with an empty list
LEMMA SessionKeepsList ==
    ASSUME LInv, Session
    PROVE  LInv'
<1> USE DEF flagVars, wantVars, listVars, nodeVars, threadVars, reqVars, walkVars
<1>0. TInv /\ TInv' /\ DataInv /\ GoneInv /\ FoundInv /\ DownInv /\ ListInv
  BY SessionKeepsTypes DEF LInv
<1>1. Len(chan) \in Nat /\ first \in Nat /\ pending \subseteq 1..Len(chan)
  BY <1>0 DEF TInv, TypeOK, RequestTypes
<1>2. CASE Start
  <2>1. /\ UNCHANGED <<mes, gone, pending, chan, head, next, fmes, nlist>>
        /\ cpc = "down" /\ cpc' = "idle" /\ tpc = "none" /\ tpc' = "test"
        /\ first' = Len(chan) + 1 /\ launched' = FALSE
        /\ mes = <<>> /\ gone = {} /\ pending = {}
    BY <1>0, <1>2 DEF Start, lastId, DownInv
  <2>2. Open' = {} /\ InHand' = {} /\ first'..Len(chan') = {} /\ Len(mes) = 0
    BY <1>1, <2>1 DEF Open, InHand, Live
  <2>3. DataInv'
    BY <1>1, <2>1, <2>2 DEF DataInv, OrderInv, Covered, Phase
  <2>4. GoneInv' /\ FoundInv' /\ DownInv' /\ ListInv'
    BY <1>0, <2>1, ListFrame DEF GoneInv, FoundInv, DownInv
  <2> QED
    BY <1>0, <2>3, <2>4 DEF LInv
<1>3. CASE Send
  <2> DEFINE new == Len(chan) + 1
  <2>1. /\ UNCHANGED <<mes, gone, head, next, fmes, nlist, tpc, got, cpc, first, launched, rv, stop,
                       stopped>>
        /\ cpc = "idle" /\ pending' = pending \union {new}
        /\ chan' = Append(chan, IF launched THEN Media ELSE Receiver)
        /\ chan \in Seq(Channels)
    BY <1>0, <1>3 DEF Send, lastId, TInv, TypeOK, RequestTypes
  <2>2. /\ Len(chan') = new /\ \A i \in 1..Len(chan) : chan'[i] = chan[i]
        /\ launched => chan'[new] = Media
    BY <1>1, <2>1
  <2>3. InHand' = InHand /\ Live' = Live /\ Open' = Open \union {new}
    BY <2>1 DEF InHand, Live, Open
  <2>4. /\ \A i \in InHand : i <= Len(chan) /\ i \in Nat /\ i >= 1
        /\ \A n \in 1..Len(mes) : mes[n] \in Nat /\ mes[n] <= Len(chan)
    <3>1. \A n \in 1..Len(mes) : mes[n] \in Nat /\ mes[n] <= Len(chan)
      BY <1>0, AnswerTypes DEF DataInv, OrderInv
    <3>2. \A i \in InHand : i \in Ids /\ i <= Len(chan)
      BY <1>0 DEF InHand, DataInv, OrderInv, TInv, TypeOK, ThreadTypes
    <3> QED
      BY <3>1, <3>2, BoundsAssumption DEF Ids
  <2>5. \A i \in Open : i \in 1..Len(chan)
    BY <1>1, <2>4 DEF Open, Live
  <2>6. first <= new
    BY <1>0 DEF DataInv, OrderInv
  <2>7. OrderInv'
    <3>1. \A n \in 1..Len(mes) : mes[n] < new /\ mes[n] <= new
      BY <1>1, <2>4
    <3>2. \A i \in InHand : i < new
      BY <1>1, <2>4
    <3>3. first <= new + 1 /\ (tpc = "add" => got <= new)
      BY <1>0, <1>1, <2>6, <3>2 DEF InHand, TInv, TypeOK, ThreadTypes, Ids
    <3> HIDE DEF new
    <3> QED
      BY <1>0, <2>1, <2>2, <2>3, <3>1, <3>2, <3>3 DEF DataInv, OrderInv
  <2>8. \A i \in first'..Len(chan') : i \in first..Len(chan) \/ i = new
    BY <1>1, <2>1, <2>2
  <2>9. Covered'
    BY <1>0, <2>1, <2>3, <2>8 DEF DataInv, Covered
  <2>10. Phase'
    <3>1. CASE launched
      <4>1. \A i \in first..Len(chan) : i \in 1..Len(chan)
        BY <1>0, <1>1 DEF TInv, TypeOK, RequestTypes
      <4> QED
        BY <1>0, <2>1, <2>2, <2>3, <2>5, <2>8, <3>1, <4>1 DEF DataInv, Phase
    <3>2. CASE ~launched
      <4>1. Len(chan) - first + 1 < 1
        BY <1>3, <3>2 DEF Send, lastId
      <4>2. new <= first
        BY <1>1, <4>1
      <4>3. \A i \in Open' : i >= first
        BY <1>0, <1>1, <2>3, <2>6, <3>2 DEF DataInv, Phase
      <4> QED
        BY <2>1, <2>2, <3>2, <4>2, <4>3 DEF Phase
    <3> QED
      BY <3>1, <3>2
  <2>11. GoneInv' /\ FoundInv' /\ DownInv' /\ ListInv'
    BY <1>0, <2>1, ListFrame DEF GoneInv, FoundInv, DownInv, Stopping
  <2> QED
    BY <1>0, <2>7, <2>9, <2>10, <2>11 DEF LInv, DataInv
<1>4. CASE Get \/ Shutdown
  <2>1. /\ UNCHANGED <<mes, gone, pending, chan, first, launched, head, next, fmes, nlist, tpc,
                       got, rv>>
        /\ cpc = "idle" /\ cpc' \in {"enter", "join"} /\ (cpc' = "join" => stop')
    BY <1>4 DEF Get, Shutdown
  <2>2. DataInv'
    <3>1. UNCHANGED InHand
      BY <2>1 DEF InHand
    <3> QED
      BY <1>0, <2>1, <3>1, DataFrame
  <2>3. GoneInv' /\ FoundInv' /\ DownInv' /\ ListInv'
    BY <1>0, <2>1, ListFrame DEF GoneInv, FoundInv, DownInv
  <2> QED
    BY <1>0, <2>2, <2>3 DEF LInv
<1>5. CASE Joined
  <2>1. /\ cpc = "join" /\ cpc' \in {"down", "dead"} /\ tpc = "none" /\ tpc' = "none"
        /\ head' = Nil /\ mes' = <<>> /\ gone' = {} /\ pending' = {}
        /\ UNCHANGED <<chan, first, launched, fmes, nlist, rv>>
    BY <1>5 DEF Joined, MayDie
  <2>2. InHand' = {} /\ Live' = {} /\ Open' = {} /\ Len(mes') = 0
    BY <2>1 DEF InHand, Live, Open
  <2>3. DataInv'
    BY <1>0, <2>1, <2>2 DEF DataInv, OrderInv, Covered, Phase
  <2>4. GoneInv' /\ FoundInv' /\ DownInv'
    BY <1>0, <2>1 DEF GoneInv, FoundInv, DownInv
  <2>5. ListInv'
    BY <2>1, <2>2, ChainEmpty DEF ListInv
  <2> QED
    BY <1>0, <2>3, <2>4, <2>5 DEF LInv
<1> QED
  BY <1>2, <1>3, <1>4, <1>5 DEF Session

\* LInv is kept by every step, when the receiver answers in order and no message
\* is dropped for want of memory
LEMMA NextLInv ==
    ASSUME Ordered, "calloc" \notin Faults
    PROVE  LInv /\ [Next]_vars => LInv'
<1> SUFFICES ASSUME LInv, [Next]_vars
             PROVE  LInv'
  OBVIOUS
<1>1. CASE Thread
  BY <1>1, ThreadKeepsList
<1>2. CASE Client \/ StrayWake \/ TimesOut
  BY <1>2, WalkKeepsList, CallKeepsList DEF Client
<1>3. CASE Session
  BY <1>3, SessionKeepsList
<1>4. CASE UNCHANGED vars
  <2>1. TInv'
    BY <1>4 DEF LInv, vars, TInv, TypeOK, FlagTypes, ListTypes, ThreadTypes, RequestTypes,
                WalkTypes, CallInv, PointerInv, Arrived, flagVars, wantVars, listVars, nodeVars,
                threadVars, reqVars, walkVars
  <2>2. DataInv'
    BY <1>4, DataFrame DEF LInv, vars, InHand, nodeVars, threadVars, reqVars
  <2>3. GoneInv' /\ FoundInv' /\ DownInv' /\ ListInv'
    BY <1>4 DEF LInv, vars, GoneInv, FoundInv, DownInv, ListInv, Live, Noticed, Stopping,
                flagVars, listVars, nodeVars, threadVars, reqVars, walkVars
  <2> QED
    BY <2>1, <2>2, <2>3 DEF LInv
<1> QED
  BY <1>1, <1>2, <1>3, <1>4 DEF Next

\* Outside the walk the list ends, and holds every message that is neither thrown
\* away nor taken, whatever the thread adds between the client's walks
\* (ccast.c:169-170, 230-245).  The receiver answers in order, the thread does not
\* drop a message, and ListSound itself excepts a session with a notice in its
\* list: nlist is set once per call (ccast.c:209), so a call that waits with
\* messages kept links them behind themselves when it walks again
THEOREM CcastListSound ==
    ASSUME Ordered, "calloc" \notin Faults
    PROVE  Spec => []ListSound
<1>1. LInv => ListSound
  BY ChainFollow DEF LInv, ListInv, ListSound, Live, Endless
<1> QED
  BY InitLInv, NextLInv, <1>1, PTL DEF Spec

\* No answer to a request that has still to be asked for is lost: the client only
\* throws away what is older (ccast.c:236-237).  The same two hypotheses, and
\* whatever notices the thread lets in: a notice has no request, and a list that it
\* ties into a ring holds what it held
THEOREM CcastRepliesKept ==
    ASSUME Ordered, "calloc" \notin Faults
    PROVE  Spec => []RepliesKept
<1>1. LInv => RepliesKept
  BY DEF LInv, GoneInv, DownInv, RepliesKept, Stopping
<1> QED
  BY InitLInv, NextLInv, <1>1, PTL DEF Spec
=============================================================================
