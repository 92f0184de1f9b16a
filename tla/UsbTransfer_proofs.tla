-------------------------- MODULE UsbTransfer_proofs --------------------------
(***************************************************************************)
(* Proofs about the USB transfer engine, for every set of clients, every   *)
(* number of URBs and every fault: the invariant IInv of UsbTransfer is    *)
(* inductive, and gives the types, that a transaction returns with nothing *)
(* outstanding, and that no freed request is reached.                      *)
(*                                                                         *)
(* Each conjunct of IInv has a lemma that a step keeps it, with one step   *)
(* of the proof per action:                                                *)
(*   TypeStep         the types                                            *)
(*   ReaperPhaseStep  what the reaper's place says about its URB in hand   *)
(*   ClientPhaseStep  what a client's place says about its request         *)
(*   HeldStep         where an outstanding URB can be, and that the counts *)
(*                    of outstanding URBs cover them                       *)
(***************************************************************************)
EXTENDS UsbTransfer, FiniteSetTheorems, TLAPS

USE ClientsAssumption, MaxUrbsAssumption, ResultsAssumption, MaxErrcAssumption, NoUrbAssumption

\* A flag set or cleared (woken, cancelled, hcancel) leaves a table of flags one.
LEMMA FlagUpdate ==
    ASSUME NEW S, NEW f \in [S -> BOOLEAN], NEW x \in S, NEW b \in BOOLEAN
    PROVE  [f EXCEPT ![x] = b] \in [S -> BOOLEAN]
  OBVIOUS

\* Every step of the reaper, the clients, the kernel, a cancel and a close keeps
\* the types of the port, the requests, the URBs and the tokens.
LEMMA TypeStep == IInv /\ [Next]_vars => TypeOK'
<1> SUFFICES ASSUME IInv, [Next]_vars PROVE TypeOK'
  OBVIOUS
<1> USE DEF IInv, TypeOK, ReaperPhase, ClientPhase, vars, portVars, reaperVars, clientVars,
        urbVars, tokenVars, Urbs, Done, KernT, StatT, ResultT, CurT, HandT, ReaperPc, ClientPc
<1>1. ASSUME NEW c \in Clients, Refuse(c) PROVE TypeOK'
  BY <1>1 DEF Refuse
<1>2. ASSUME NEW c \in Clients, NEW n \in Urbs, Begin(c, n) PROVE TypeOK'
  <2>1. n \in Int /\ pc' \in [Clients -> ClientPc] /\ nurbs' \in [Clients -> Urbs]
    BY <1>2 DEF Begin
  <2>2. nourbs' \in [Clients -> Int] /\ cancelled' \in [Clients -> BOOLEAN]
    BY <1>2, <2>1 DEF Begin
  <2>3. reqrv' \in [Clients -> ResultT] /\ stat' \in [Clients -> [Urbs -> StatT]]
    BY <1>2 DEF Begin
  <2> QED
    BY <1>2, <2>1, <2>2, <2>3 DEF Begin
<1>3. ASSUME NEW c \in Clients, Link(c) PROVE TypeOK'
  BY <1>3 DEF Link
<1>4. ASSUME NEW c \in Clients, Submit(c) PROVE TypeOK'
  BY <1>4 DEF Submit
<1>5. ASSUME NEW c \in Clients, SubmitFails(c) PROVE TypeOK'
  BY <1>5 DEF SubmitFails
<1>6. ASSUME NEW c \in Clients, SubmitFailsDecrement(c) PROVE TypeOK'
  <2>1. k[c] + 1 \in 0..(MaxUrbs + 1) /\ ctmp[c] - 1 \in Int
    <3>1. k[c] \in 1..nurbs[c] /\ nurbs[c] \in 1..MaxUrbs /\ ctmp[c] \in Int
      BY <1>6 DEF SubmitFailsDecrement
    <3> QED
      BY <3>1
  <2>2. k' \in [Clients -> 0..(MaxUrbs + 1)] /\ nourbs' \in [Clients -> Int]
    BY <1>6, <2>1 DEF SubmitFailsDecrement
  <2> QED
    BY <1>6, <2>2 DEF SubmitFailsDecrement
<1>7. ASSUME NEW c \in Clients, Submitted(c) PROVE TypeOK'
  BY <1>7 DEF Submitted
<1>8. ASSUME NEW c \in Clients, SetToken(c) PROVE TypeOK'
  BY <1>8 DEF SetToken
<1>9. ASSUME NEW c \in Clients, CheckOutstanding(c) PROVE TypeOK'
  BY <1>9 DEF CheckOutstanding
<1>10. ASSUME NEW c \in Clients, TimeoutCancels(c) PROVE TypeOK'
  BY <1>10 DEF TimeoutCancels, CancelUrb, Discarded
<1>11. ASSUME NEW c \in Clients, TimeoutCancelled(c) PROVE TypeOK'
  BY <1>11 DEF TimeoutCancelled, MarkCancelled, DrainOrFinish
<1>12. ASSUME NEW c \in Clients, ComputeResult(c) PROVE TypeOK'
  <2>1. Overall(reqrv[c], stat[c], nurbs[c]) \in ResultT
    BY DEF Overall
  <2> QED
    BY <1>12, <2>1 DEF ComputeResult
<1>13. ASSUME NEW c \in Clients, ClearToken(c) PROVE TypeOK'
  BY <1>13 DEF ClearToken
<1>14. ASSUME NEW c \in Clients, Return(c) PROVE TypeOK'
  BY <1>14 DEF Return
<1>15. ASSUME NEW c \in Clients, Wake(c) PROVE TypeOK'
  BY <1>15 DEF Wake
<1>16. ASSUME NEW c \in Clients, TimesOut(c) PROVE TypeOK'
  <2>1. CASE cancelled[c]
    <3>1. k' = k /\ pc' = [pc EXCEPT ![c] = DrainOrFinish(c)] /\ DrainOrFinish(c) \in ClientPc
      BY <1>16, <2>1 DEF TimesOut, DrainOrFinish
    <3>2. pc' \in [Clients -> ClientPc]
      BY <3>1
    <3> QED
      BY <1>16, <3>1, <3>2 DEF TimesOut
  <2>2. CASE ~cancelled[c]
    <3>1. pc' = [pc EXCEPT ![c] = "tocancel"] /\ k' = [k EXCEPT ![c] = nurbs[c]]
      BY <1>16, <2>2 DEF TimesOut
    <3>2. pc' \in [Clients -> ClientPc] /\ k' \in [Clients -> 0..(MaxUrbs + 1)]
      BY <3>1
    <3> QED
      BY <1>16, <3>2 DEF TimesOut
  <2> QED
    BY <2>1, <2>2
<1>17. ASSUME NEW c \in Clients, CancelIo(c) PROVE TypeOK'
  BY <1>17 DEF CancelIo
<1>18. ASSUME NEW c \in Clients, CancelIoUrb(c) PROVE TypeOK'
  <2>1. cix[c] > 0 /\ cix[c] \in Urbs /\ cix[c] - 1 \in -1..MaxUrbs
    BY <1>18 DEF CancelIoUrb
  <2>2. stat' = [stat EXCEPT ![c][cix[c]] = "canc"] /\ cix' = [cix EXCEPT ![c] = @ - 1]
    BY <1>18 DEF CancelIoUrb, CancelUrb
  <2>3. kern' \in [Clients -> [Urbs -> KernT]]
    BY <1>18, <2>1 DEF CancelIoUrb, CancelUrb, Discarded
  <2>4. stat' \in [Clients -> [Urbs -> StatT]] /\ cix' \in [Clients -> -1..MaxUrbs]
    BY <2>1, <2>2
  <2> QED
    BY <1>18, <2>3, <2>4 DEF CancelIoUrb
<1>19. ASSUME NEW c \in Clients, CancelIoDone(c) PROVE TypeOK'
  BY <1>19 DEF CancelIoDone, MarkCancelled
<1>20. ASSUME NEW c \in Clients, NEW i \in Urbs, KernelCompletes(c, i) PROVE TypeOK'
  BY <1>20 DEF KernelCompletes
<1>21. ASSUME NEW c \in Clients, NEW i \in Urbs, Reap(c, i) PROVE TypeOK'
  BY <1>21 DEF Reap
<1>22. ASSUME ReaperLocks PROVE TypeOK'
  BY <1>22 DEF ReaperLocks
<1>23. ASSUME ReaperDecrements PROVE TypeOK'
  BY <1>23 DEF ReaperDecrements
<1>24. ASSUME ReaperSignals PROVE TypeOK'
  <2>1. cur \in CurT
    BY <1>24 DEF ReaperSignals
  <2>2. woken' \in [Clients -> BOOLEAN]
    <3>1. CASE nourbs[cur.req] <= 0
      <4>1. woken' = [woken EXCEPT ![cur.req] = pc[cur.req] \in {"wait", "drain"}]
        BY <1>24, <3>1 DEF ReaperSignals, EndReap, Signal
      <4>2. (pc[cur.req] \in {"wait", "drain"}) \in BOOLEAN
        OBVIOUS
      <4>3. cur.req \in Clients /\ woken \in [Clients -> BOOLEAN]
        BY <2>1
      <4> QED
        BY <4>1, <4>2, <4>3, FlagUpdate
    <3>2. CASE ~(nourbs[cur.req] <= 0)
      BY <1>24, <3>2 DEF ReaperSignals, EndReap
    <3> QED
      BY <3>1, <3>2
  <2> QED
    BY <1>24, <2>2 DEF ReaperSignals, EndReap
<1>25. ASSUME ReaperCancels PROVE TypeOK'
  BY <1>25 DEF ReaperCancels
<1>26. ASSUME ReaperCancelsUrb PROVE TypeOK'
  BY <1>26 DEF ReaperCancelsUrb, CancelUrb, Discarded
<1>27. ASSUME ReaperCancelled PROVE TypeOK'
  <2>1. cur \in CurT
    BY <1>27 DEF ReaperCancelled
  <2>2. woken' \in [Clients -> BOOLEAN]
    <3>1. CASE nourbs[cur.req] <= 0
      <4>1. woken' = [woken EXCEPT ![cur.req] = pc[cur.req] \in {"wait", "drain"}]
        BY <1>27, <3>1 DEF ReaperCancelled, EndReap, Signal
      <4>2. (pc[cur.req] \in {"wait", "drain"}) \in BOOLEAN
        OBVIOUS
      <4>3. cur.req \in Clients /\ woken \in [Clients -> BOOLEAN]
        BY <2>1
      <4> QED
        BY <4>1, <4>2, <4>3, FlagUpdate
    <3>2. CASE ~(nourbs[cur.req] <= 0)
      BY <1>27, <3>2 DEF ReaperCancelled, EndReap
    <3> QED
      BY <3>1, <3>2
  <2>3. cancelled' \in [Clients -> BOOLEAN]
    BY <1>27, <2>1 DEF ReaperCancelled, MarkCancelled
  <2>4. rpc' = "poll" /\ cur' = NoUrb /\ rix' = 0
    BY <1>27 DEF ReaperCancelled, EndReap
  <2> QED
    BY <1>27, <2>2, <2>3, <2>4 DEF ReaperCancelled
<1>28. ASSUME ReaperSeesShutdown PROVE TypeOK'
  BY <1>28 DEF ReaperSeesShutdown, ReaperGivesUp
<1>29. ASSUME ReaperWalks PROVE TypeOK'
  BY <1>29 DEF ReaperWalks
<1>30. ASSUME NEW c \in Clients, ReaperFailsRequest(c) PROVE TypeOK'
  BY <1>30 DEF ReaperFailsRequest, Signal
<1>31. ASSUME ReaperExits PROVE TypeOK'
  BY <1>31 DEF ReaperExits
<1>32. ASSUME ReapFails PROVE TypeOK'
  <2>1. CASE errc < MaxErrc
    BY <1>32, <2>1 DEF ReapFails
  <2>2. CASE ~(errc < MaxErrc)
    <3>1. errc' = 0 /\ running' = FALSE /\ rpc' = "stop"
      BY <1>32, <2>2 DEF ReapFails, ReaperGivesUp
    <3>2. UNCHANGED <<isOpen, closing, present, reqs, cur, rtmp, rix, todo, clientVars,
                      urbVars, tokenVars>>
      BY <1>32 DEF ReapFails
    <3>3. errc' \in 0..MaxErrc
      BY <3>1, MaxErrcAssumption
    <3>5. running' \in BOOLEAN
      BY <3>1
    <3>6. rpc' \in ReaperPc
      BY <3>1
    <3>4. TypeOK
      OBVIOUS
    <3> HIDE DEF IInv, ReaperPhase, ClientPhase
    <3> QED
      BY <3>2, <3>3, <3>4, <3>5, <3>6
  <2> QED
    BY <2>1, <2>2
<1>33. ASSUME OpenPort PROVE TypeOK'
  BY <1>33 DEF OpenPort
<1>34. ASSUME ClosePort PROVE TypeOK'
  BY <1>34 DEF ClosePort
<1>35. ASSUME ClosePortJoined PROVE TypeOK'
  BY <1>35 DEF ClosePortJoined
<1>36. ASSUME Unplug PROVE TypeOK'
  BY <1>36 DEF Unplug
<1>37. CASE UNCHANGED vars
  BY <1>37
<1> QED
  BY <1>1, <1>2, <1>3, <1>4, <1>5, <1>6, <1>7, <1>8, <1>9, <1>10, <1>11, <1>12, <1>13,
     <1>14, <1>15, <1>16, <1>17, <1>18, <1>19, <1>20, <1>21, <1>22, <1>23, <1>24, <1>25,
     <1>26, <1>27, <1>28, <1>29, <1>30, <1>31, <1>32, <1>33, <1>34, <1>35, <1>36, <1>37 DEF
     Next, ClientStep, CancellerStep, ReaperStep

\* Every step keeps what urb_reaper's place in its loop says: it runs until it walks
\* the requests at its exit, it has a URB in hand from a reap to the next, and the
\* port is closed only when it has gone.
LEMMA ReaperPhaseStep == IInv /\ [Next]_vars => ReaperPhase'
<1> SUFFICES ASSUME IInv, [Next]_vars PROVE ReaperPhase'
  OBVIOUS
<1> USE DEF IInv, TypeOK, ReaperPhase, ClientPhase, vars, portVars, reaperVars, clientVars,
        urbVars, tokenVars, Urbs, Done, KernT, CurT, HandT
<1>1. ASSUME NEW c \in Clients, Refuse(c) PROVE ReaperPhase'
  BY <1>1 DEF Refuse
<1>2. ASSUME NEW c \in Clients, NEW n \in Urbs, Begin(c, n) PROVE ReaperPhase'
  BY <1>2 DEF Begin
<1>3. ASSUME NEW c \in Clients, Link(c) PROVE ReaperPhase'
  BY <1>3 DEF Link, UsbdLockFree
<1>4. ASSUME NEW c \in Clients, Submit(c) PROVE ReaperPhase'
  BY <1>4 DEF Submit
<1>5. ASSUME NEW c \in Clients, SubmitFails(c) PROVE ReaperPhase'
  BY <1>5 DEF SubmitFails
<1>6. ASSUME NEW c \in Clients, SubmitFailsDecrement(c) PROVE ReaperPhase'
  BY <1>6 DEF SubmitFailsDecrement
<1>7. ASSUME NEW c \in Clients, Submitted(c) PROVE ReaperPhase'
  BY <1>7 DEF Submitted
<1>8. ASSUME NEW c \in Clients, SetToken(c) PROVE ReaperPhase'
  BY <1>8 DEF SetToken
<1>9. ASSUME NEW c \in Clients, CheckOutstanding(c) PROVE ReaperPhase'
  BY <1>9 DEF CheckOutstanding
<1>10. ASSUME NEW c \in Clients, TimeoutCancels(c) PROVE ReaperPhase'
  BY <1>10 DEF TimeoutCancels, CancelUrb, Discarded
<1>11. ASSUME NEW c \in Clients, TimeoutCancelled(c) PROVE ReaperPhase'
  BY <1>11 DEF TimeoutCancelled, MarkCancelled, DrainOrFinish
<1>12. ASSUME NEW c \in Clients, ComputeResult(c) PROVE ReaperPhase'
  BY <1>12 DEF ComputeResult
<1>13. ASSUME NEW c \in Clients, ClearToken(c) PROVE ReaperPhase'
  BY <1>13 DEF ClearToken, CmtxFree
<1>14. ASSUME NEW c \in Clients, Return(c) PROVE ReaperPhase'
  BY <1>14 DEF Return, UsbdLockFree
<1>15. ASSUME NEW c \in Clients, Wake(c) PROVE ReaperPhase'
  BY <1>15 DEF Wake
<1>16. ASSUME NEW c \in Clients, TimesOut(c) PROVE ReaperPhase'
  BY <1>16 DEF TimesOut, DrainOrFinish
<1>17. ASSUME NEW c \in Clients, CancelIo(c) PROVE ReaperPhase'
  BY <1>17 DEF CancelIo
<1>18. ASSUME NEW c \in Clients, CancelIoUrb(c) PROVE ReaperPhase'
  BY <1>18 DEF CancelIoUrb, CancelUrb, Discarded
<1>19. ASSUME NEW c \in Clients, CancelIoDone(c) PROVE ReaperPhase'
  BY <1>19 DEF CancelIoDone, MarkCancelled
<1>20. ASSUME NEW c \in Clients, NEW i \in Urbs, KernelCompletes(c, i) PROVE ReaperPhase'
  BY <1>20 DEF KernelCompletes
<1>21. ASSUME NEW c \in Clients, NEW i \in Urbs, Reap(c, i) PROVE ReaperPhase'
  BY <1>21 DEF Reap
<1>22. ASSUME ReaperLocks PROVE ReaperPhase'
  BY <1>22 DEF ReaperLocks
<1>23. ASSUME ReaperDecrements PROVE ReaperPhase'
  BY <1>23 DEF ReaperDecrements
<1>24. ASSUME ReaperSignals PROVE ReaperPhase'
  BY <1>24 DEF ReaperSignals, Signal, EndReap
<1>25. ASSUME ReaperCancels PROVE ReaperPhase'
  BY <1>25 DEF ReaperCancels
<1>26. ASSUME ReaperCancelsUrb PROVE ReaperPhase'
  BY <1>26 DEF ReaperCancelsUrb, CancelUrb, Discarded
<1>27. ASSUME ReaperCancelled PROVE ReaperPhase'
  BY <1>27 DEF ReaperCancelled, MarkCancelled, Signal, EndReap
<1>28. ASSUME ReaperSeesShutdown PROVE ReaperPhase'
  BY <1>28 DEF ReaperSeesShutdown, ReaperGivesUp
<1>29. ASSUME ReaperWalks PROVE ReaperPhase'
  BY <1>29 DEF ReaperWalks
<1>30. ASSUME NEW c \in Clients, ReaperFailsRequest(c) PROVE ReaperPhase'
  BY <1>30 DEF ReaperFailsRequest, Signal
<1>31. ASSUME ReaperExits PROVE ReaperPhase'
  BY <1>31 DEF ReaperExits
<1>32. ASSUME ReapFails PROVE ReaperPhase'
  BY <1>32 DEF ReapFails, ReaperGivesUp
<1>33. ASSUME OpenPort PROVE ReaperPhase'
  BY <1>33 DEF OpenPort
<1>34. ASSUME ClosePort PROVE ReaperPhase'
  BY <1>34 DEF ClosePort
<1>35. ASSUME ClosePortJoined PROVE ReaperPhase'
  BY <1>35 DEF ClosePortJoined
<1>36. ASSUME Unplug PROVE ReaperPhase'
  BY <1>36 DEF Unplug
<1>37. CASE UNCHANGED vars
  BY <1>37
<1> QED
  BY <1>1, <1>2, <1>3, <1>4, <1>5, <1>6, <1>7, <1>8, <1>9, <1>10, <1>11, <1>12, <1>13,
     <1>14, <1>15, <1>16, <1>17, <1>18, <1>19, <1>20, <1>21, <1>22, <1>23, <1>24, <1>25,
     <1>26, <1>27, <1>28, <1>29, <1>30, <1>31, <1>32, <1>33, <1>34, <1>35, <1>36, <1>37 DEF
     Next, ClientStep, CancellerStep, ReaperStep

\* Every step keeps what icoms_usb_transaction's place says about its request: when
\* it is on the list, and how far submitting and cancelling have come.
LEMMA ClientPhaseStep == IInv /\ [Next]_vars => \A d \in Clients : ClientPhase(d)'
<1> SUFFICES ASSUME IInv, [Next]_vars PROVE \A d \in Clients : ClientPhase(d)'
  OBVIOUS
<1> USE DEF IInv, TypeOK, ReaperPhase, ClientPhase, vars, portVars, reaperVars, clientVars,
        urbVars, tokenVars, Urbs, HandT
<1>1. ASSUME NEW c \in Clients, Refuse(c) PROVE \A d \in Clients : ClientPhase(d)'
  BY <1>1 DEF Refuse
<1>2. ASSUME NEW c \in Clients, NEW n \in Urbs, Begin(c, n) PROVE \A d \in Clients : ClientPhase(d)'
  BY <1>2 DEF Begin
<1>3. ASSUME NEW c \in Clients, Link(c) PROVE \A d \in Clients : ClientPhase(d)'
  BY <1>3 DEF Link, UsbdLockFree
<1>4. ASSUME NEW c \in Clients, Submit(c) PROVE \A d \in Clients : ClientPhase(d)'
  BY <1>4 DEF Submit
<1>5. ASSUME NEW c \in Clients, SubmitFails(c) PROVE \A d \in Clients : ClientPhase(d)'
  BY <1>5 DEF SubmitFails
<1>6. ASSUME NEW c \in Clients, SubmitFailsDecrement(c) PROVE \A d \in Clients : ClientPhase(d)'
  <2>1. /\ pc' = [pc EXCEPT ![c] = "submit"] /\ k' = [k EXCEPT ![c] = @ + 1] /\ pc[c] = "decr"
        /\ nourbs' = [nourbs EXCEPT ![c] = ctmp[c] - 1]
        /\ UNCHANGED <<reqs, todo, nurbs, hcancel, cix>>
    BY <1>6 DEF SubmitFailsDecrement
  <2>2. k[c] + 1 \in 1..(nurbs[c] + 1)
    <3>1. k[c] \in 1..nurbs[c] /\ nurbs[c] \in 1..MaxUrbs
      BY <2>1
    <3> QED
      BY <3>1
  <2>3. k'[c] \in 1..(nurbs'[c] + 1) /\ pc'[c] = "submit"
    BY <2>1, <2>2
  <2>4. ClientPhase(c)'
    BY <2>1, <2>3
  <2>5. \A d \in Clients \ {c} : ClientPhase(d)'
    BY <2>1
  <2> QED
    BY <2>4, <2>5
<1>7. ASSUME NEW c \in Clients, Submitted(c) PROVE \A d \in Clients : ClientPhase(d)'
  BY <1>7 DEF Submitted
<1>8. ASSUME NEW c \in Clients, SetToken(c) PROVE \A d \in Clients : ClientPhase(d)'
  BY <1>8 DEF SetToken
<1>9. ASSUME NEW c \in Clients, CheckOutstanding(c) PROVE \A d \in Clients : ClientPhase(d)'
  BY <1>9 DEF CheckOutstanding
<1>10. ASSUME NEW c \in Clients, TimeoutCancels(c) PROVE \A d \in Clients : ClientPhase(d)'
  BY <1>10 DEF TimeoutCancels, CancelUrb, Discarded
<1>11. ASSUME NEW c \in Clients, TimeoutCancelled(c) PROVE \A d \in Clients : ClientPhase(d)'
  BY <1>11 DEF TimeoutCancelled, MarkCancelled, DrainOrFinish
<1>12. ASSUME NEW c \in Clients, ComputeResult(c) PROVE \A d \in Clients : ClientPhase(d)'
  BY <1>12 DEF ComputeResult
<1>13. ASSUME NEW c \in Clients, ClearToken(c) PROVE \A d \in Clients : ClientPhase(d)'
  BY <1>13 DEF ClearToken, CmtxFree
<1>14. ASSUME NEW c \in Clients, Return(c) PROVE \A d \in Clients : ClientPhase(d)'
  BY <1>14 DEF Return, UsbdLockFree
<1>15. ASSUME NEW c \in Clients, Wake(c) PROVE \A d \in Clients : ClientPhase(d)'
  BY <1>15 DEF Wake
<1>16. ASSUME NEW c \in Clients, TimesOut(c) PROVE \A d \in Clients : ClientPhase(d)'
  <2>1. CASE cancelled[c]
    <3>1. /\ pc' = [pc EXCEPT ![c] = DrainOrFinish(c)] /\ pc[c] = "wait"
          /\ UNCHANGED <<k, reqs, todo, nurbs, nourbs, hcancel, cix>>
      BY <1>16, <2>1 DEF TimesOut
    <3>2. DrainOrFinish(c) \in {"drain", "result"}
      BY DEF DrainOrFinish
    <3> QED
      BY <3>1, <3>2
  <2>2. CASE ~cancelled[c]
    <3>1. pc' = [pc EXCEPT ![c] = "tocancel"] /\ k' = [k EXCEPT ![c] = nurbs[c]]
      BY <1>16, <2>2 DEF TimesOut
    <3> QED
      BY <1>16, <3>1 DEF TimesOut
  <2> QED
    BY <2>1, <2>2
<1>17. ASSUME NEW c \in Clients, CancelIo(c) PROVE \A d \in Clients : ClientPhase(d)'
  BY <1>17 DEF CancelIo
<1>18. ASSUME NEW c \in Clients, CancelIoUrb(c) PROVE \A d \in Clients : ClientPhase(d)'
  BY <1>18 DEF CancelIoUrb, CancelUrb, Discarded
<1>19. ASSUME NEW c \in Clients, CancelIoDone(c) PROVE \A d \in Clients : ClientPhase(d)'
  BY <1>19 DEF CancelIoDone, MarkCancelled
<1>20. ASSUME NEW c \in Clients, NEW i \in Urbs, KernelCompletes(c, i) PROVE \A d \in Clients : ClientPhase(d)'
  BY <1>20 DEF KernelCompletes
<1>21. ASSUME NEW c \in Clients, NEW i \in Urbs, Reap(c, i) PROVE \A d \in Clients : ClientPhase(d)'
  BY <1>21 DEF Reap
<1>22. ASSUME ReaperLocks PROVE \A d \in Clients : ClientPhase(d)'
  BY <1>22 DEF ReaperLocks
<1>23. ASSUME ReaperDecrements PROVE \A d \in Clients : ClientPhase(d)'
  <2>1. cur.req \in Clients /\ pc[cur.req] # "idle"
    BY <1>23 DEF ReaperDecrements, Placed, InHand, CurT
  <2> QED
    BY <1>23, <2>1 DEF ReaperDecrements
<1>24. ASSUME ReaperSignals PROVE \A d \in Clients : ClientPhase(d)'
  BY <1>24 DEF ReaperSignals, Signal, EndReap
<1>25. ASSUME ReaperCancels PROVE \A d \in Clients : ClientPhase(d)'
  BY <1>25 DEF ReaperCancels
<1>26. ASSUME ReaperCancelsUrb PROVE \A d \in Clients : ClientPhase(d)'
  BY <1>26 DEF ReaperCancelsUrb, CancelUrb, Discarded
<1>27. ASSUME ReaperCancelled PROVE \A d \in Clients : ClientPhase(d)'
  BY <1>27 DEF ReaperCancelled, MarkCancelled, Signal, EndReap
<1>28. ASSUME ReaperSeesShutdown PROVE \A d \in Clients : ClientPhase(d)'
  BY <1>28 DEF ReaperSeesShutdown, ReaperGivesUp
<1>29. ASSUME ReaperWalks PROVE \A d \in Clients : ClientPhase(d)'
  BY <1>29 DEF ReaperWalks
<1>30. ASSUME NEW c \in Clients, ReaperFailsRequest(c) PROVE \A d \in Clients : ClientPhase(d)'
  BY <1>30 DEF ReaperFailsRequest, Signal
<1>31. ASSUME ReaperExits PROVE \A d \in Clients : ClientPhase(d)'
  BY <1>31 DEF ReaperExits
<1>32. ASSUME ReapFails PROVE \A d \in Clients : ClientPhase(d)'
  BY <1>32 DEF ReapFails, ReaperGivesUp
<1>33. ASSUME OpenPort PROVE \A d \in Clients : ClientPhase(d)'
  BY <1>33 DEF OpenPort
<1>34. ASSUME ClosePort PROVE \A d \in Clients : ClientPhase(d)'
  BY <1>34 DEF ClosePort
<1>35. ASSUME ClosePortJoined PROVE \A d \in Clients : ClientPhase(d)'
  BY <1>35 DEF ClosePortJoined
<1>36. ASSUME Unplug PROVE \A d \in Clients : ClientPhase(d)'
  BY <1>36 DEF Unplug
<1>37. CASE UNCHANGED vars
  BY <1>37
<1> QED
  BY <1>1, <1>2, <1>3, <1>4, <1>5, <1>6, <1>7, <1>8, <1>9, <1>10, <1>11, <1>12, <1>13,
     <1>14, <1>15, <1>16, <1>17, <1>18, <1>19, <1>20, <1>21, <1>22, <1>23, <1>24, <1>25,
     <1>26, <1>27, <1>28, <1>29, <1>30, <1>31, <1>32, <1>33, <1>34, <1>35, <1>36, <1>37 DEF
     Next, ClientStep, CancellerStep, ReaperStep

\* A request has finitely many outstanding URBs, so that they can be counted against
\* req.nourbs.
LEMMA OutstandingFinite ==
    ASSUME NEW c \in Clients
    PROVE  IsFiniteSet(Outstanding(c)) /\ Cardinality(Outstanding(c)) \in Nat
<1>1. IsFiniteSet(Urbs)
  BY FS_Interval DEF Urbs
<1>2. Outstanding(c) \subseteq Urbs
  BY DEF Outstanding
<1> QED
  BY <1>1, <1>2, FS_Subset, FS_CardinalityType

\* While the reaper runs, a client that reads nourbs <= 0 has no URB outstanding: what
\* the wait of icoms_usb_transaction relies on.
LEMMA NothingOutstanding ==
    ASSUME IInv, running, NEW c \in Clients, nourbs[c] <= 0
    PROVE  Outstanding(c) = {}
<1>1. nourbs[c] \in Int /\ nourbs[c] >= Cardinality(Outstanding(c))
  BY DEF IInv, TypeOK, Counted
<1>2. Cardinality(Outstanding(c)) = 0
  BY <1>1, OutstandingFinite
<1> QED
  BY <1>2, OutstandingFinite, FS_EmptySet

\* What a request's place says about its URBs: no longer waiting, none of them held,
\* and its lock taken by the reaper.
Stopped(d)     == pc[d] \in {"idle", "link", "result", "done", "unlink"}
NothingHeld(d) == ~InHand(d) /\ \A i \in Urbs : kern[d][i] = "none"
ReqLocked(d)   == rpc \in {"dec", "check", "cancel"} /\ InHand(d)
Held(d)        == Placed(d) /\ Counted(d)

\* A step does not concern the request of d, or not the reaper.
RequestSame(d) ==
    /\ pc'[d] = pc[d] /\ k'[d] = k[d] /\ nurbs'[d] = nurbs[d]
    /\ nourbs'[d] = nourbs[d] /\ ctmp'[d] = ctmp[d]
    /\ \A j \in Urbs : kern'[d][j] # "none" => kern[d][j] # "none"
ReaperSame == UNCHANGED <<rpc, cur, rtmp>>

\* What has to be counted after a step lies in S, and the counts cover S.
LEMMA CountedBound ==
    ASSUME IInv, NEW d \in Clients, NEW S, IsFiniteSet(S),
           Outstanding(d)' \subseteq S,
           nourbs'[d] >= Cardinality(S), nourbs'[d] \in Int,
           pc'[d] = "decr" => ctmp'[d] >= Cardinality(S) /\ ctmp'[d] \in Int,
           rpc' = "dec" /\ InHand(d)' => rtmp' >= Cardinality(S) /\ rtmp' \in Int
    PROVE  Counted(d)'
<1>1. Cardinality(S) \in Nat
  BY FS_CardinalityType
<1>2. IsFiniteSet(Outstanding(d)') /\ Cardinality(Outstanding(d)') \in Nat
  BY FS_Subset, FS_CardinalityType
<1>3. Cardinality(Outstanding(d)') <= Cardinality(S)
  BY FS_Subset
<1>4. Cardinality(Outstanding(d))' = Cardinality(Outstanding(d)')
  OBVIOUS
<1> QED
  BY <1>1, <1>2, <1>3, <1>4 DEF Counted

\* The URBs 1..n of a request are n (nourbs after the request is set up).
LEMMA IntervalCount ==
    ASSUME NEW n \in Nat \ {0}
    PROVE  IsFiniteSet(1..n) /\ Cardinality(1..n) = n
  BY FS_Interval

\* A request with nothing outstanding, nourbs = 0 and no copy of nourbs in flight is
\* counted.
LEMMA CountedEmpty ==
    ASSUME NEW d \in Clients, Outstanding(d)' = {}, nourbs'[d] = 0, pc'[d] # "decr",
           ~(rpc' = "dec" /\ InHand(d)')
    PROVE  Counted(d)'
<1>1. Cardinality(Outstanding(d))' = 0
  BY FS_EmptySet
<1> QED
  BY <1>1 DEF Counted

\* A step that submits nothing, takes nothing in hand and leaves nourbs alone keeps
\* what is outstanding placed and counted, if the client only stops with nothing held.
LEMMA HeldKept ==
    ASSUME IInv, running, NEW d \in Clients,
           nurbs'[d] = nurbs[d], nourbs'[d] = nourbs[d],
           \A j \in Urbs : kern'[d][j] # "none" => kern[d][j] # "none",
           \A j \in Urbs : NotYet(d, j)' => NotYet(d, j),
           pc'[d] = "decr" => pc[d] = "decr" /\ ctmp'[d] = ctmp[d],
           Stopped(d)' => Stopped(d) \/ NothingHeld(d),
           pc'[d] = "tocancel" => pc[d] = "tocancel" \/ ~ReqLocked(d),
           InHand(d)' => InHand(d) /\ cur' = cur,
           InHand(d)' /\ rpc' \in {"lock", "dec"} => rpc' = rpc /\ rtmp' = rtmp,
           ReqLocked(d)' => ReqLocked(d)
    PROVE  Held(d)'
<1>1. Placed(d) /\ Counted(d)
  BY DEF IInv
<1>2. InHand(d) => cur.urb \in Urbs
  BY DEF IInv, TypeOK, CurT, InHand
<1>3. \A i \in Urbs : kern'[d][i] # "none" => i <= nurbs'[d] /\ ~NotYet(d, i)'
  BY <1>1 DEF Placed
<1>4. InHand(d)' => /\ cur'.urb <= nurbs'[d] /\ ~NotYet(d, cur.urb)'
                    /\ rpc' \in {"lock", "dec"} => kern'[d][cur'.urb] = "none"
  <2>1. SUFFICES ASSUME InHand(d)'
                 PROVE  /\ cur'.urb <= nurbs'[d] /\ ~NotYet(d, cur.urb)'
                        /\ rpc' \in {"lock", "dec"} => kern'[d][cur'.urb] = "none"
    OBVIOUS
  <2>2. InHand(d) /\ cur' = cur /\ cur.urb \in Urbs
    BY <1>2, <2>1
  <2>3. cur.urb <= nurbs[d] /\ ~NotYet(d, cur.urb)
    BY <1>1, <2>2 DEF Placed
  <2>4. ~NotYet(d, cur.urb)'
    <3>1. \A j \in Urbs : j = cur.urb => ~NotYet(d, j)'
      BY <2>3
    <3> QED
      BY <2>2, <3>1 DEF NotYet
  <2>5. rpc' \in {"lock", "dec"} => kern'[d][cur'.urb] = "none"
    <3>1. rpc' \in {"lock", "dec"} => kern[d][cur.urb] = "none"
      BY <1>1, <2>1, <2>2 DEF Placed
    <3> QED
      BY <2>2, <3>1
  <2> QED
    BY <2>2, <2>3, <2>4, <2>5
<1>5. Stopped(d)' => ~InHand(d)' /\ \A i \in Urbs : kern'[d][i] = "none"
  <2>1. Stopped(d) => NothingHeld(d)
    BY <1>1 DEF Placed, Stopped, NothingHeld
  <2> QED
    BY <2>1 DEF NothingHeld
<1>6. pc'[d] = "tocancel" => ~ReqLocked(d)'
  BY <1>1 DEF Placed, ReqLocked
<1>7. Placed(d)'
  BY <1>3, <1>4, <1>5, <1>6 DEF Placed, Stopped, ReqLocked
<1>8. Counted(d)'
  <2>1. Outstanding(d)' \subseteq Outstanding(d)
    <3>1. \A j \in Urbs : rpc' \in {"lock", "dec"} /\ InHand(d)' /\ cur'.urb = j
                          => rpc \in {"lock", "dec"} /\ InHand(d) /\ cur.urb = j
      OBVIOUS
    <3> QED
      BY <3>1 DEF Outstanding
  <2>2. IsFiniteSet(Outstanding(d))
    BY OutstandingFinite
  <2>3. nourbs[d] \in Int /\ ctmp[d] \in Int /\ rtmp \in Int
    BY DEF IInv, TypeOK
  <2>4. nourbs[d] >= Cardinality(Outstanding(d))
    BY <1>1 DEF Counted
  <2>5. pc'[d] = "decr" => ctmp'[d] >= Cardinality(Outstanding(d)) /\ ctmp'[d] \in Int
    BY <1>1, <2>3 DEF Counted
  <2>6. rpc' = "dec" /\ InHand(d)' => rtmp' >= Cardinality(Outstanding(d)) /\ rtmp' \in Int
    BY <1>1, <2>3 DEF Counted
  <2> HIDE DEF Outstanding
  <2> QED
    BY <2>1, <2>2, <2>3, <2>4, <2>5, <2>6, CountedBound
<1> QED
  BY <1>7, <1>8 DEF Held

\* A step that concerns neither the request of d nor the reaper keeps d's URBs in place.
LEMMA HeldFrame ==
    ASSUME IInv, running, NEW d \in Clients, RequestSame(d), ReaperSame
    PROVE  Held(d)'
<1>1. \A j \in Urbs : NotYet(d, j)' => NotYet(d, j)
  BY DEF NotYet, RequestSame
<1>2. (Stopped(d)' <=> Stopped(d)) /\ (ReqLocked(d)' <=> ReqLocked(d)) /\ (InHand(d)' <=> InHand(d))
  BY DEF Stopped, ReqLocked, InHand, RequestSame, ReaperSame
<1> QED
  BY <1>1, <1>2, HeldKept DEF RequestSame, ReaperSame

\* A step of d's own client that leaves the URBs and the reaper alone.
LEMMA HeldClient ==
    ASSUME IInv, running, NEW d \in Clients, ReaperSame,
           nurbs'[d] = nurbs[d], nourbs'[d] = nourbs[d],
           \A j \in Urbs : kern'[d][j] # "none" => kern[d][j] # "none",
           \A j \in Urbs : NotYet(d, j)' => NotYet(d, j),
           pc'[d] = "decr" => pc[d] = "decr" /\ ctmp'[d] = ctmp[d],
           Stopped(d)' => Stopped(d) \/ NothingHeld(d),
           pc'[d] = "tocancel" => pc[d] = "tocancel" \/ ~ReqLocked(d)
    PROVE  Held(d)'
<1>1. (ReqLocked(d)' <=> ReqLocked(d)) /\ (InHand(d)' <=> InHand(d))
  BY DEF ReqLocked, InHand, ReaperSame
<1> QED
  BY <1>1, HeldKept DEF ReaperSame

\* A step of the reaper that neither takes a URB in hand nor counts.
LEMMA HeldReaper ==
    ASSUME IInv, running, NEW d \in Clients, RequestSame(d),
           InHand(d)' => InHand(d) /\ cur' = cur,
           InHand(d)' /\ rpc' \in {"lock", "dec"} => rpc' = rpc /\ rtmp' = rtmp,
           ReqLocked(d)' => ReqLocked(d)
    PROVE  Held(d)'
<1>1. \A j \in Urbs : NotYet(d, j)' => NotYet(d, j)
  BY DEF NotYet, RequestSame
<1>2. Stopped(d)' <=> Stopped(d)
  BY DEF Stopped, RequestSame
<1> QED
  BY <1>1, <1>2, HeldKept DEF RequestSame

\* Once it holds its request's lock, a client that reads nourbs <= 0 has nothing held:
\* what the waits of icoms_usb_transaction end on.
LEMMA NothingHeldWhenZero ==
    ASSUME IInv, running, NEW c \in Clients, ~ReqLocked(c)
    PROVE  nourbs[c] \in Int /\ (nourbs[c] <= 0 => NothingHeld(c))
<1>1. nourbs[c] \in Int
  BY DEF IInv, TypeOK
<1>2. SUFFICES ASSUME nourbs[c] <= 0 PROVE NothingHeld(c)
  BY <1>1
<1>3. Outstanding(c) = {}
  BY <1>2, NothingOutstanding
<1>4. InHand(c) => rpc \in HandT /\ cur.urb \in Urbs
  BY DEF IInv, TypeOK, ReaperPhase, InHand, CurT
<1> QED
  BY <1>3, <1>4 DEF NothingHeld, Outstanding, ReqLocked, HandT

\* Every step keeps the outstanding URBs of every request in one place only - still to
\* be submitted, with the kernel, or in the reaper's hand - and keeps nourbs, and the
\* copies of it that the submit loop and the reaper write back, at least their number.
LEMMA HeldStep == IInv /\ [Next]_vars => (running' => \A d \in Clients : Held(d)')
<1> SUFFICES ASSUME IInv, [Next]_vars PROVE (running' => \A d \in Clients : Held(d)')
  OBVIOUS
<1>0. /\ pc \in [Clients -> ClientPc] /\ k \in [Clients -> 0..(MaxUrbs + 1)]
      /\ nurbs \in [Clients -> Urbs] /\ nourbs \in [Clients -> Int]
      /\ ctmp \in [Clients -> Int] /\ kern \in [Clients -> [Urbs -> KernT]]
      /\ rtmp \in Int /\ cur \in CurT \union {NoUrb} /\ (cur # NoUrb <=> rpc \in HandT)
      /\ (running <=> rpc \in {"poll"} \union HandT)
      /\ ~isOpen => rpc = "exit" /\ \A c \in Clients, i \in Urbs : kern[c][i] = "none"
  BY DEF IInv, TypeOK, ReaperPhase
<1>1. ASSUME NEW c \in Clients, Refuse(c) PROVE (running' => \A d \in Clients : Held(d)')
  <2>1. running' = running /\ ReaperSame /\ \A d \in Clients : RequestSame(d)
    BY <1>0, <1>1 DEF Refuse, ReaperSame, RequestSame, portVars, reaperVars, clientVars,
       urbVars, tokenVars
  <2> QED
    BY <2>1, HeldFrame
<1>2. ASSUME NEW c \in Clients, NEW n \in Urbs, Begin(c, n) PROVE (running' => \A d \in Clients : Held(d)')
  <2>1. SUFFICES ASSUME running PROVE \A d \in Clients : Held(d)'
    BY <1>2 DEF Begin, portVars
  <2>2. ReaperSame /\ \A d \in Clients \ {c} : RequestSame(d)
    BY <1>0, <1>2 DEF Begin, ReaperSame, RequestSame, portVars, reaperVars, clientVars,
       urbVars, tokenVars
  <2>3. Held(c)'
    <3> DEFINE S == 1..n
    <3>1. /\ pc[c] = "idle" /\ pc'[c] = "link" /\ nurbs'[c] = n /\ nourbs'[c] = n
          /\ UNCHANGED <<kern, rpc, cur, rtmp>>
      BY <1>0, <1>2 DEF Begin, reaperVars, tokenVars
    <3>2. NothingHeld(c)
      BY <2>1, <3>1 DEF IInv, Placed, NothingHeld
    <3>3. Placed(c)'
      BY <3>1, <3>2 DEF Placed, NothingHeld, InHand
    <3>4. Outstanding(c)' \subseteq S
      BY <3>1, <3>2 DEF Outstanding, NothingHeld, InHand, NotYet, Urbs
    <3>5. n \in Nat \ {0}
      BY <1>2 DEF Urbs
    <3>6. IsFiniteSet(S) /\ Cardinality(S) = n
      BY <3>5, IntervalCount
    <3>7. ~InHand(c)'
      BY <3>1, <3>2 DEF NothingHeld, InHand
    <3> HIDE DEF S
    <3>8. Counted(c)'
      BY <3>1, <3>4, <3>5, <3>6, <3>7, CountedBound
    <3> QED
      BY <3>3, <3>8 DEF Held
  <2> QED
    BY <2>1, <2>2, <2>3, HeldFrame
<1>3. ASSUME NEW c \in Clients, Link(c) PROVE (running' => \A d \in Clients : Held(d)')
  <2>1. SUFFICES ASSUME running PROVE \A d \in Clients : Held(d)'
    BY <1>3 DEF Link, portVars
  <2>2. ReaperSame /\ \A d \in Clients \ {c} : RequestSame(d)
    BY <1>0, <1>3 DEF Link, ReaperSame, RequestSame, portVars, reaperVars, clientVars,
       urbVars, tokenVars
  <2>3. Held(c)'
    <3>1. pc[c] = "link" /\ pc'[c] = "submit" /\ k'[c] = 1
      BY <1>0, <1>3 DEF Link
    <3>2. nurbs' = nurbs /\ nourbs' = nourbs /\ kern' = kern
      BY <1>3 DEF Link, urbVars
    <3>3. \A j \in Urbs : NotYet(c, j)' => NotYet(c, j)
      BY <3>1, <3>2 DEF NotYet
    <3> QED
      BY <2>1, <2>2, <3>1, <3>2, <3>3, HeldClient DEF Stopped
  <2> QED
    BY <2>1, <2>2, <2>3, HeldFrame
<1>4. ASSUME NEW c \in Clients, Submit(c) PROVE (running' => \A d \in Clients : Held(d)')
  <2>1. SUFFICES ASSUME running PROVE \A d \in Clients : Held(d)'
    BY <1>4 DEF Submit, portVars
  <2>2. ReaperSame /\ \A d \in Clients \ {c} : RequestSame(d)
    BY <1>0, <1>4 DEF Submit, ReaperSame, RequestSame, portVars, reaperVars, clientVars,
       urbVars, tokenVars
  <2>3. Held(c)'
    <3>1. /\ pc[c] = "submit" /\ pc'[c] = "submit" /\ k'[c] = k[c] + 1
          /\ k[c] <= nurbs[c] /\ nurbs'[c] = nurbs[c] /\ nourbs'[c] = nourbs[c]
      BY <1>0, <1>4 DEF Submit
    <3>2. k[c] \in Urbs /\ k[c] \in Int /\ nurbs[c] \in Int /\ \A j \in Urbs : j \in Int
      <4>1. k[c] \in 1..(nurbs[c] + 1) /\ nurbs[c] \in Urbs
        BY <3>1 DEF IInv, TypeOK, ClientPhase
      <4> QED
        BY <3>1, <4>1 DEF Urbs
    <3>3. kern'[c][k[c]] = "flight" /\ \A j \in Urbs \ {k[c]} : kern'[c][j] = kern[c][j]
      BY <1>0, <1>4, <3>2 DEF Submit
    <3>4. /\ NotYet(c, k[c]) /\ k[c] <= nurbs'[c]
          /\ \A j \in Urbs : NotYet(c, j)' => NotYet(c, j) /\ j # k[c]
      BY <3>1, <3>2 DEF NotYet
    <3>5. Placed(c) /\ Counted(c)
      BY <2>1 DEF IInv
    <3>6. InHand(c) => cur.urb \in Urbs /\ cur.urb # k[c]
      <4>1. InHand(c) => cur.urb \in Urbs
        BY DEF IInv, TypeOK, CurT, InHand
      <4>2. InHand(c) => ~NotYet(c, cur.urb)
        BY <3>5 DEF Placed
      <4> QED
        BY <3>4, <4>1, <4>2
    <3>7. Placed(c)'
      <4>1. \A i \in Urbs : kern'[c][i] # "none" => i <= nurbs'[c] /\ ~NotYet(c, i)'
        <5>1. SUFFICES ASSUME NEW i \in Urbs, kern'[c][i] # "none"
                       PROVE  i <= nurbs'[c] /\ ~NotYet(c, i)'
          OBVIOUS
        <5>2. CASE i = k[c]
          BY <3>4, <5>2
        <5>3. CASE i # k[c]
          <6>1. kern[c][i] # "none"
            BY <3>3, <5>1, <5>3
          <6> QED
            BY <3>1, <3>4, <3>5, <6>1 DEF Placed
        <5> QED
          BY <5>2, <5>3
      <4>2. InHand(c)' => /\ cur'.urb <= nurbs'[c] /\ ~NotYet(c, cur.urb)'
                          /\ rpc' \in {"lock", "dec"} => kern'[c][cur'.urb] = "none"
        <5>1. cur' = cur /\ rpc' = rpc /\ (InHand(c)' <=> InHand(c))
          BY <2>2 DEF ReaperSame, InHand
        <5>2. InHand(c) => /\ cur.urb <= nurbs[c] /\ ~NotYet(c, cur.urb)
                           /\ rpc \in {"lock", "dec"} => kern[c][cur.urb] = "none"
          BY <3>5 DEF Placed
        <5>3. InHand(c) => ~NotYet(c, cur.urb)'
          BY <3>4, <3>6, <5>1, <5>2 DEF NotYet
        <5> QED
          BY <3>1, <3>3, <3>6, <5>1, <5>2, <5>3 DEF NotYet
      <4> QED
        BY <3>1, <4>1, <4>2 DEF Placed
    <3>8. Counted(c)'
      <4>1. Outstanding(c)' \subseteq Outstanding(c)
        <5>1. rpc' = rpc /\ cur' = cur /\ (InHand(c)' <=> InHand(c))
          BY <2>2 DEF ReaperSame, InHand
        <5> QED
          BY <3>2, <3>3, <3>4, <5>1 DEF Outstanding
      <4>2. IsFiniteSet(Outstanding(c))
        BY OutstandingFinite
      <4>3. nourbs[c] \in Int /\ rtmp \in Int
        BY DEF IInv, TypeOK
      <4>4. rpc' = "dec" /\ InHand(c)' => rtmp' >= Cardinality(Outstanding(c)) /\ rtmp' \in Int
        BY <2>2, <3>5, <4>3 DEF ReaperSame, Counted, InHand
      <4>5. nourbs'[c] >= Cardinality(Outstanding(c)) /\ nourbs'[c] \in Int
        BY <3>1, <3>5, <4>3 DEF Counted
      <4> QED
        BY <3>1, <4>1, <4>2, <4>4, <4>5, CountedBound
    <3> QED
      BY <3>7, <3>8 DEF Held
  <2> QED
    BY <2>1, <2>2, <2>3, HeldFrame
<1>5. ASSUME NEW c \in Clients, SubmitFails(c) PROVE (running' => \A d \in Clients : Held(d)')
  <2>1. SUFFICES ASSUME running PROVE \A d \in Clients : Held(d)'
    BY <1>5 DEF SubmitFails, portVars
  <2>2. ReaperSame /\ \A d \in Clients \ {c} : RequestSame(d)
    BY <1>0, <1>5 DEF SubmitFails, ReaperSame, RequestSame, portVars, reaperVars, clientVars,
       urbVars, tokenVars
  <2>3. Held(c)'
    <3>1. /\ pc[c] = "submit" /\ pc'[c] = "decr" /\ ctmp'[c] = nourbs[c]
          /\ nurbs' = nurbs /\ nourbs' = nourbs /\ kern' = kern /\ k' = k
      BY <1>0, <1>5 DEF SubmitFails
    <3>2. \A j \in Urbs : NotYet(c, j)' <=> NotYet(c, j)
      BY <3>1 DEF NotYet
    <3>3. rpc' = rpc /\ cur' = cur /\ rtmp' = rtmp /\ (InHand(c)' <=> InHand(c))
      BY <2>2 DEF ReaperSame, InHand
    <3>4. Placed(c) /\ Counted(c)
      BY <2>1 DEF IInv
    <3>5. Placed(c)'
      <4>1. InHand(c) => ~NotYet(c, cur.urb)'
        BY <3>1, <3>3, <3>4 DEF Placed, NotYet
      <4> QED
        BY <3>1, <3>2, <3>3, <3>4, <4>1 DEF Placed
    <3>6. Counted(c)'
      <4>1. Outstanding(c)' \subseteq Outstanding(c)
        BY <3>1, <3>2, <3>3 DEF Outstanding
      <4>2. IsFiniteSet(Outstanding(c))
        BY OutstandingFinite
      <4>3. nourbs[c] \in Int /\ rtmp \in Int
        BY DEF IInv, TypeOK
      <4> QED
        BY <3>1, <3>3, <3>4, <4>1, <4>2, <4>3, CountedBound DEF Counted
    <3> QED
      BY <3>5, <3>6 DEF Held
  <2> QED
    BY <2>1, <2>2, <2>3, HeldFrame
<1>6. ASSUME NEW c \in Clients, SubmitFailsDecrement(c) PROVE (running' => \A d \in Clients : Held(d)')
  <2>1. SUFFICES ASSUME running PROVE \A d \in Clients : Held(d)'
    BY <1>6 DEF SubmitFailsDecrement, portVars
  <2>2. ReaperSame /\ \A d \in Clients \ {c} : RequestSame(d)
    BY <1>0, <1>6 DEF SubmitFailsDecrement, ReaperSame, RequestSame, portVars, reaperVars,
       clientVars, urbVars, tokenVars
  <2>3. Held(c)'
    <3>1. /\ pc[c] = "decr" /\ pc'[c] = "submit" /\ k'[c] = k[c] + 1
          /\ nourbs'[c] = ctmp[c] - 1 /\ nurbs' = nurbs /\ kern' = kern
      BY <1>0, <1>6 DEF SubmitFailsDecrement, urbVars
    <3>2. /\ k[c] \in Urbs /\ k[c] \in Int /\ k[c] <= nurbs[c] /\ nurbs[c] \in Int
          /\ \A j \in Urbs : j \in Int
      <4>1. k[c] \in 1..nurbs[c] /\ nurbs[c] \in Urbs
        BY <3>1 DEF IInv, TypeOK, ClientPhase
      <4> QED
        BY <4>1 DEF Urbs
    <3>3. /\ NotYet(c, k[c])
          /\ \A j \in Urbs : NotYet(c, j)' => NotYet(c, j) /\ j # k[c]
      BY <3>1, <3>2 DEF NotYet
    <3>4. rpc' = rpc /\ cur' = cur /\ rtmp' = rtmp /\ (InHand(c)' <=> InHand(c))
      BY <2>2 DEF ReaperSame, InHand
    <3>5. Placed(c) /\ Counted(c)
      BY <2>1 DEF IInv
    <3>6. InHand(c) => cur.urb \in Urbs /\ ~NotYet(c, cur.urb)
      BY <3>5 DEF Placed, IInv, TypeOK, CurT, InHand
    <3>7. Placed(c)'
      <4>1. InHand(c) => ~NotYet(c, cur.urb)'
        <5>1. \A j \in Urbs : j = cur.urb => (NotYet(c, j)' <=> NotYet(c, cur.urb)')
          BY <3>4 DEF NotYet
        <5> QED
          BY <3>3, <3>6, <5>1
      <4>2. \A i \in Urbs : kern'[c][i] # "none" => i <= nurbs'[c] /\ ~NotYet(c, i)'
        BY <3>1, <3>3, <3>5 DEF Placed
      <4>3. InHand(c) => /\ cur.urb <= nurbs[c]
                         /\ rpc \in {"lock", "dec"} => kern[c][cur.urb] = "none"
        BY <3>5 DEF Placed
      <4> QED
        BY <3>1, <3>4, <4>1, <4>2, <4>3 DEF Placed
    <3>8. Counted(c)'
      <4> DEFINE S == Outstanding(c) \ {k[c]}
      <4>1. k[c] \in Outstanding(c)
        BY <3>2, <3>3 DEF Outstanding
      <4>2. IsFiniteSet(S) /\ Cardinality(S) = Cardinality(Outstanding(c)) - 1
        BY <4>1, OutstandingFinite, FS_RemoveElement
      <4>3. Outstanding(c)' \subseteq S
        <5>1. kern[c][k[c]] = "none"
          BY <3>2, <3>3, <3>5 DEF Placed
        <5>2. InHand(c) => cur.urb # k[c]
          BY <3>3, <3>6
        <5>3. k[c] \notin Outstanding(c)'
          <6>2. \A j \in Urbs : j = k[c] => ~NotYet(c, j)'
            BY <3>3
          <6>3. \A j \in Outstanding(c)' : \/ NotYet(c, j)'
                                           \/ kern[c][j] # "none"
                                           \/ InHand(c) /\ cur.urb = j
            BY <3>1, <3>4 DEF Outstanding
          <6>4. Outstanding(c)' \subseteq Urbs
            BY DEF Outstanding
          <6> QED
            BY <5>1, <5>2, <6>2, <6>3, <6>4
        <5>4. Outstanding(c)' \subseteq Outstanding(c)
          BY <3>1, <3>3, <3>4 DEF Outstanding
        <5> QED
          BY <5>3, <5>4
      <4>4. ctmp[c] \in Int /\ rtmp \in Int /\ Cardinality(Outstanding(c)) \in Nat
        BY OutstandingFinite DEF IInv, TypeOK
      <4>5. nourbs'[c] >= Cardinality(S) /\ nourbs'[c] \in Int
        BY <3>1, <3>5, <4>2, <4>4 DEF Counted
      <4>6. rpc' = "dec" /\ InHand(c)' => rtmp' >= Cardinality(S) /\ rtmp' \in Int
        BY <3>4, <3>5, <4>2, <4>4 DEF Counted
      <4> HIDE DEF S
      <4> QED
        BY <3>1, <4>2, <4>3, <4>5, <4>6, CountedBound
    <3> QED
      BY <3>7, <3>8 DEF Held
  <2> QED
    BY <2>1, <2>2, <2>3, HeldFrame
<1>7. ASSUME NEW c \in Clients, Submitted(c) PROVE (running' => \A d \in Clients : Held(d)')
  <2>1. SUFFICES ASSUME running PROVE \A d \in Clients : Held(d)'
    BY <1>7 DEF Submitted, portVars
  <2>2. ReaperSame /\ \A d \in Clients \ {c} : RequestSame(d)
    BY <1>0, <1>7 DEF Submitted, ReaperSame, RequestSame, portVars, reaperVars, clientVars,
       urbVars, tokenVars
  <2>3. Held(c)'
    <3>1. pc[c] = "submit" /\ pc'[c] \in {"token", "check"}
      BY <1>0, <1>7 DEF Submitted
    <3>2. nurbs' = nurbs /\ nourbs' = nourbs /\ kern' = kern
      BY <1>7 DEF Submitted, urbVars
    <3>3. \A j \in Urbs : ~NotYet(c, j)'
      BY <3>1 DEF NotYet
    <3> QED
      BY <2>1, <2>2, <3>1, <3>2, <3>3, HeldClient DEF Stopped
  <2> QED
    BY <2>1, <2>2, <2>3, HeldFrame
<1>8. ASSUME NEW c \in Clients, SetToken(c) PROVE (running' => \A d \in Clients : Held(d)')
  <2>1. SUFFICES ASSUME running PROVE \A d \in Clients : Held(d)'
    BY <1>8 DEF SetToken, portVars
  <2>2. ReaperSame /\ \A d \in Clients \ {c} : RequestSame(d)
    BY <1>0, <1>8 DEF SetToken, ReaperSame, RequestSame, portVars, reaperVars, clientVars,
       urbVars, tokenVars
  <2>3. Held(c)'
    <3>1. pc[c] \in {"token"} /\ pc'[c] \in {"check"}
      BY <1>0, <1>8 DEF SetToken
    <3>2. nurbs'[c] = nurbs[c] /\ nourbs'[c] = nourbs[c] /\ kern' = kern
      BY <1>8 DEF SetToken, clientVars, urbVars
    <3>3. \A j \in Urbs : ~NotYet(c, j)'
      BY <3>1 DEF NotYet
    <3> QED
      BY <2>1, <2>2, <3>1, <3>2, <3>3, HeldClient DEF Stopped
  <2> QED
    BY <2>1, <2>2, <2>3, HeldFrame
<1>9. ASSUME NEW c \in Clients, CheckOutstanding(c) PROVE (running' => \A d \in Clients : Held(d)')
  <2>1. SUFFICES ASSUME running PROVE \A d \in Clients : Held(d)'
    BY <1>9 DEF CheckOutstanding, portVars
  <2>2. ReaperSame /\ \A d \in Clients \ {c} : RequestSame(d)
    BY <1>0, <1>9 DEF CheckOutstanding, ReaperSame, RequestSame, portVars, reaperVars,
       clientVars, urbVars, tokenVars
  <2>3. Held(c)'
    <3>1. pc[c] \in {"check"} /\ (nourbs[c] > 0 => pc'[c] \in {"wait", "drain"}) /\ pc'[c] \in {"wait", "drain", "result"}
      BY <1>0, <1>9 DEF CheckOutstanding
    <3>2. nurbs'[c] = nurbs[c] /\ nourbs'[c] = nourbs[c] /\ kern' = kern
      BY <1>9 DEF CheckOutstanding, clientVars, urbVars
    <3>3. \A j \in Urbs : ~NotYet(c, j)'
      BY <3>1 DEF NotYet
    <3>4. ~ReqLocked(c)
      BY <1>9 DEF CheckOutstanding, ReqLockFree, ReqLocked, InHand
    <3>5. Stopped(c)' => NothingHeld(c)
      <4>1. nourbs[c] \in Int /\ (nourbs[c] <= 0 => NothingHeld(c))
        BY <1>0, <2>1, <3>4, NothingHeldWhenZero
      <4> QED
        BY <3>1, <4>1 DEF Stopped
    <3> QED
      BY <2>1, <2>2, <3>1, <3>2, <3>3, <3>5, HeldClient
  <2> QED
    BY <2>1, <2>2, <2>3, HeldFrame
<1>10. ASSUME NEW c \in Clients, TimeoutCancels(c) PROVE (running' => \A d \in Clients : Held(d)')
  <2>1. SUFFICES ASSUME running PROVE \A d \in Clients : Held(d)'
    BY <1>10 DEF TimeoutCancels, portVars
  <2>2. ReaperSame /\ \A d \in Clients \ {c} : RequestSame(d)
    BY <1>0, <1>10 DEF TimeoutCancels, ReaperSame, RequestSame, portVars, reaperVars,
       clientVars, urbVars,
       tokenVars, CancelUrb, Discarded
  <2>3. Held(c)'
    <3>1. pc' = pc /\ pc[c] = "tocancel" /\ nurbs' = nurbs /\ nourbs' = nourbs
      BY <1>10 DEF TimeoutCancels
    <3>2. \A j \in Urbs : ~NotYet(c, j)'
      BY <3>1 DEF NotYet
    <3>3. \A j \in Urbs : kern'[c][j] # "none" => kern[c][j] # "none"
      BY <1>0, <1>10 DEF TimeoutCancels, CancelUrb, Discarded
    <3> QED
      BY <2>1, <2>2, <3>1, <3>2, <3>3, HeldClient DEF Stopped
  <2> QED
    BY <2>1, <2>2, <2>3, HeldFrame
<1>11. ASSUME NEW c \in Clients, TimeoutCancelled(c) PROVE (running' => \A d \in Clients : Held(d)')
  <2>1. SUFFICES ASSUME running PROVE \A d \in Clients : Held(d)'
    BY <1>11 DEF TimeoutCancelled, portVars
  <2>2. ReaperSame /\ \A d \in Clients \ {c} : RequestSame(d)
    BY <1>0, <1>11 DEF TimeoutCancelled, ReaperSame, RequestSame, portVars, reaperVars,
       clientVars, urbVars, tokenVars, TimeoutCancelled, DrainOrFinish
  <2>3. Held(c)'
    <3>1. pc[c] \in {"tocancel"} /\ (nourbs[c] > 0 => pc'[c] \in {"wait", "drain"}) /\ pc'[c] \in {"wait", "drain", "result"}
      BY <1>0, <1>11 DEF TimeoutCancelled, DrainOrFinish
    <3>2. nurbs'[c] = nurbs[c] /\ nourbs'[c] = nourbs[c] /\ kern' = kern
      BY <1>11 DEF TimeoutCancelled, clientVars, urbVars
    <3>3. \A j \in Urbs : ~NotYet(c, j)'
      BY <3>1 DEF NotYet
    <3>4. ~ReqLocked(c)
      <4>1. Placed(c) /\ pc[c] = "tocancel"
        BY <2>1, <3>1 DEF IInv
      <4> QED
        BY <4>1 DEF Placed, ReqLocked
    <3>5. Stopped(c)' => NothingHeld(c)
      <4>1. nourbs[c] \in Int /\ (nourbs[c] <= 0 => NothingHeld(c))
        BY <1>0, <2>1, <3>4, NothingHeldWhenZero
      <4> QED
        BY <3>1, <4>1 DEF Stopped
    <3> QED
      BY <2>1, <2>2, <3>1, <3>2, <3>3, <3>5, HeldClient
  <2> QED
    BY <2>1, <2>2, <2>3, HeldFrame
<1>12. ASSUME NEW c \in Clients, ComputeResult(c) PROVE (running' => \A d \in Clients : Held(d)')
  <2>1. SUFFICES ASSUME running PROVE \A d \in Clients : Held(d)'
    BY <1>12 DEF ComputeResult, portVars
  <2>2. ReaperSame /\ \A d \in Clients \ {c} : RequestSame(d)
    BY <1>0, <1>12 DEF ComputeResult, ReaperSame, RequestSame, portVars, reaperVars,
       clientVars, urbVars, tokenVars
  <2>3. Held(c)'
    <3>1. pc[c] \in {"result"} /\ pc'[c] \in {"done", "unlink"}
      BY <1>0, <1>12 DEF ComputeResult
    <3>2. nurbs'[c] = nurbs[c] /\ nourbs'[c] = nourbs[c] /\ kern' = kern
      BY <1>12 DEF ComputeResult, clientVars, urbVars
    <3>3. \A j \in Urbs : ~NotYet(c, j)'
      BY <3>1 DEF NotYet
    <3> QED
      BY <2>1, <2>2, <3>1, <3>2, <3>3, HeldClient DEF Stopped
  <2> QED
    BY <2>1, <2>2, <2>3, HeldFrame
<1>13. ASSUME NEW c \in Clients, ClearToken(c) PROVE (running' => \A d \in Clients : Held(d)')
  <2>1. SUFFICES ASSUME running PROVE \A d \in Clients : Held(d)'
    BY <1>13 DEF ClearToken, portVars
  <2>2. ReaperSame /\ \A d \in Clients \ {c} : RequestSame(d)
    BY <1>0, <1>13 DEF ClearToken, ReaperSame, RequestSame, portVars, reaperVars, clientVars,
       urbVars, tokenVars
  <2>3. Held(c)'
    <3>1. pc[c] \in {"done"} /\ pc'[c] \in {"unlink"}
      BY <1>0, <1>13 DEF ClearToken
    <3>2. nurbs'[c] = nurbs[c] /\ nourbs'[c] = nourbs[c] /\ kern' = kern
      BY <1>13 DEF ClearToken, clientVars, urbVars
    <3>3. \A j \in Urbs : ~NotYet(c, j)'
      BY <3>1 DEF NotYet
    <3> QED
      BY <2>1, <2>2, <3>1, <3>2, <3>3, HeldClient DEF Stopped
  <2> QED
    BY <2>1, <2>2, <2>3, HeldFrame
<1>14. ASSUME NEW c \in Clients, Return(c) PROVE (running' => \A d \in Clients : Held(d)')
  <2>1. SUFFICES ASSUME running PROVE \A d \in Clients : Held(d)'
    BY <1>14 DEF Return, portVars
  <2>2. ReaperSame /\ \A d \in Clients \ {c} : RequestSame(d)
    BY <1>0, <1>14 DEF Return, ReaperSame, RequestSame, portVars, reaperVars, clientVars,
       urbVars, tokenVars
  <2>3. Held(c)'
    <3>1. /\ pc[c] = "unlink" /\ pc'[c] = "idle" /\ nourbs'[c] = 0
          /\ UNCHANGED <<kern, rpc, cur, rtmp>>
      BY <1>0, <1>14 DEF Return, reaperVars
    <3>2. NothingHeld(c)
      BY <2>1, <3>1 DEF IInv, Placed, NothingHeld
    <3>3. Placed(c)'
      BY <3>1, <3>2 DEF Placed, NothingHeld, InHand
    <3>4. Outstanding(c)' = {} /\ ~InHand(c)'
      BY <3>1, <3>2 DEF Outstanding, NothingHeld, InHand, NotYet
    <3>5. Counted(c)'
      BY <3>1, <3>4, CountedEmpty
    <3> QED
      BY <3>3, <3>5 DEF Held
  <2> QED
    BY <2>1, <2>2, <2>3, HeldFrame
<1>15. ASSUME NEW c \in Clients, Wake(c) PROVE (running' => \A d \in Clients : Held(d)')
  <2>1. SUFFICES ASSUME running PROVE \A d \in Clients : Held(d)'
    BY <1>15 DEF Wake, portVars
  <2>2. ReaperSame /\ \A d \in Clients \ {c} : RequestSame(d)
    BY <1>0, <1>15 DEF Wake, ReaperSame, RequestSame, portVars, reaperVars, clientVars,
       urbVars, tokenVars
  <2>3. Held(c)'
    <3>1. pc[c] \in {"wait", "drain"} /\ pc'[c] \in {"wait", "drain", "result"}
      BY <1>0, <1>15 DEF Wake
    <3>2. nurbs' = nurbs /\ nourbs' = nourbs /\ kern' = kern
      BY <1>15 DEF Wake, urbVars
    <3>3. \A j \in Urbs : ~NotYet(c, j)'
      BY <3>1 DEF NotYet
    <3>4. ~ReqLocked(c)
      BY <1>15 DEF Wake, ReqLockFree, ReqLocked, InHand
    <3>5. nourbs[c] > 0 => pc'[c] = pc[c]
      BY <1>0, <1>15 DEF Wake
    <3>6. Stopped(c)' => NothingHeld(c)
      <4>1. nourbs[c] \in Int /\ (nourbs[c] <= 0 => NothingHeld(c))
        BY <1>0, <2>1, <3>4, NothingHeldWhenZero
      <4> QED
        BY <3>1, <3>5, <4>1 DEF Stopped
    <3> QED
      BY <2>1, <2>2, <3>1, <3>2, <3>3, <3>6, HeldClient
  <2> QED
    BY <2>1, <2>2, <2>3, HeldFrame
<1>16. ASSUME NEW c \in Clients, TimesOut(c) PROVE (running' => \A d \in Clients : Held(d)')
  <2>1. SUFFICES ASSUME running PROVE \A d \in Clients : Held(d)'
    BY <1>16 DEF TimesOut, portVars
  <2>2. ReaperSame /\ \A d \in Clients \ {c} : RequestSame(d)
    BY <1>0, <1>16 DEF TimesOut, ReaperSame, RequestSame, portVars, reaperVars, clientVars,
       urbVars, tokenVars
  <2>3. Held(c)'
    <3>1. /\ pc[c] = "wait" /\ pc'[c] \in {"drain", "result", "tocancel"}
          /\ pc'[c] = "result" => ~(nourbs[c] > 0)
      <4>1. CASE cancelled[c]
        BY <1>0, <1>16, <4>1 DEF TimesOut, DrainOrFinish
      <4>2. CASE ~cancelled[c]
        BY <1>0, <1>16, <4>2 DEF TimesOut
      <4> QED
        BY <4>1, <4>2
    <3>2. nurbs' = nurbs /\ nourbs' = nourbs /\ kern' = kern
      BY <1>16 DEF TimesOut, urbVars
    <3>3. \A j \in Urbs : ~NotYet(c, j)'
      BY <3>1 DEF NotYet
    <3>4. ~ReqLocked(c)
      BY <1>16 DEF TimesOut, ReqLockFree, ReqLocked, InHand
    <3>5. Stopped(c)' => NothingHeld(c)
      <4>1. nourbs[c] \in Int /\ (nourbs[c] <= 0 => NothingHeld(c))
        BY <1>0, <2>1, <3>4, NothingHeldWhenZero
      <4> QED
        BY <3>1, <4>1 DEF Stopped
    <3> QED
      BY <2>1, <2>2, <3>1, <3>2, <3>3, <3>4, <3>5, HeldClient
  <2> QED
    BY <2>1, <2>2, <2>3, HeldFrame
<1>17. ASSUME NEW c \in Clients, CancelIo(c) PROVE (running' => \A d \in Clients : Held(d)')
  <2>1. running' = running /\ ReaperSame /\ \A d \in Clients : RequestSame(d)
    BY <1>0, <1>17 DEF CancelIo, ReaperSame, RequestSame, portVars, reaperVars, clientVars,
       urbVars, tokenVars
  <2> QED
    BY <2>1, HeldFrame
<1>18. ASSUME NEW c \in Clients, CancelIoUrb(c) PROVE (running' => \A d \in Clients : Held(d)')
  <2>1. running' = running /\ ReaperSame /\ \A d \in Clients : RequestSame(d)
    BY <1>0, <1>18 DEF CancelIoUrb, CancelUrb, Discarded, ReaperSame, RequestSame, portVars,
       reaperVars, clientVars, urbVars, tokenVars
  <2> QED
    BY <2>1, HeldFrame
<1>19. ASSUME NEW c \in Clients, CancelIoDone(c) PROVE (running' => \A d \in Clients : Held(d)')
  <2>1. running' = running /\ ReaperSame /\ \A d \in Clients : RequestSame(d)
    BY <1>0, <1>19 DEF CancelIoDone, MarkCancelled, ReaperSame, RequestSame, portVars,
       reaperVars, clientVars, urbVars, tokenVars
  <2> QED
    BY <2>1, HeldFrame
<1>20. ASSUME NEW c \in Clients, NEW i \in Urbs, KernelCompletes(c, i) PROVE (running' => \A d \in Clients : Held(d)')
  <2>1. running' = running /\ ReaperSame /\ \A d \in Clients : RequestSame(d)
    BY <1>0, <1>20 DEF KernelCompletes, ReaperSame, RequestSame, portVars, reaperVars,
       clientVars, urbVars, tokenVars
  <2> QED
    BY <2>1, HeldFrame
<1>21. ASSUME NEW c \in Clients, NEW i \in Urbs, Reap(c, i) PROVE (running' => \A d \in Clients : Held(d)')
  <2>1. /\ rpc = "poll" /\ cur' = [req |-> c, urb |-> i, out |-> kern[c][i]] /\ rpc' = "lock"
        /\ kern[c][i] # "none" /\ cur = NoUrb
        /\ UNCHANGED <<running, pc, k, nurbs, nourbs, ctmp>>
    BY <1>0, <1>21 DEF Reap, portVars, clientVars, Done, HandT
  <2>2. kern'[c][i] = "none"
    BY <1>0, <1>21 DEF Reap
  <2>3. /\ \A j \in Urbs \ {i} : kern'[c][j] = kern[c][j]
        /\ \A d \in Clients \ {c} : kern'[d] = kern[d]
    BY <1>0, <1>21 DEF Reap
  <2>4. SUFFICES ASSUME running, NEW d \in Clients PROVE Held(d)'
    BY <2>1
  <2>5. CASE d # c
    <3>1. RequestSame(d) /\ ~InHand(d)'
      BY <2>1, <2>3, <2>5 DEF RequestSame, InHand
    <3> QED
      BY <2>4, <3>1, HeldReaper DEF ReqLocked
  <2>6. CASE d = c
    <3>1. Placed(c) /\ Counted(c) /\ ~InHand(c)
      BY <2>1, <2>4 DEF IInv, InHand
    <3>2. cur' # NoUrb /\ cur'.req = c /\ cur'.urb = i
      <4>1. kern[c][i] \in Done
        BY <1>21 DEF Reap
      <4>2. [req |-> c, urb |-> i, out |-> kern[c][i]] \in CurT
        BY <4>1 DEF CurT
      <4> QED
        BY <2>1, <4>2 DEF CurT, Urbs, Done
    <3>3. \A j \in Urbs : NotYet(c, j)' <=> NotYet(c, j)
      BY <2>1 DEF NotYet
    <3>4. i <= nurbs[c] /\ ~NotYet(c, i) /\ ~Stopped(c)
      BY <1>21, <2>1, <3>1 DEF Placed, Stopped
    <3>5. Placed(c)'
      <4>1. \A j \in Urbs : kern'[c][j] # "none" => j <= nurbs'[c] /\ ~NotYet(c, j)'
        BY <2>1, <2>2, <2>3, <3>1, <3>3 DEF Placed
      <4>2. ~NotYet(c, cur.urb)'
        BY <2>1, <3>2, <3>4 DEF NotYet
      <4> QED
        BY <2>1, <2>2, <3>2, <3>4, <4>1, <4>2 DEF Placed, Stopped
    <3>6. Counted(c)'
      <4>1. Outstanding(c)' \subseteq Outstanding(c)
        BY <2>1, <2>2, <2>3, <3>2, <3>3 DEF Outstanding
      <4>2. IsFiniteSet(Outstanding(c))
        BY OutstandingFinite
      <4>3. nourbs[c] \in Int /\ ctmp[c] \in Int
        BY <1>0
      <4> QED
        BY <2>1, <3>1, <4>1, <4>2, <4>3, CountedBound DEF Counted
    <3> QED
      BY <2>6, <3>5, <3>6 DEF Held
  <2> QED
    BY <2>5, <2>6
<1>22. ASSUME ReaperLocks PROVE (running' => \A d \in Clients : Held(d)')
  <2>1. /\ rpc = "lock" /\ rpc' = "dec" /\ rtmp' = nourbs[cur.req] /\ pc[cur.req] # "tocancel"
        /\ UNCHANGED <<running, cur, pc, k, nurbs, nourbs, ctmp, kern>>
    BY <1>22 DEF ReaperLocks, portVars, clientVars, urbVars, ReqLockFree
  <2>2. SUFFICES ASSUME running, NEW d \in Clients PROVE Held(d)'
    BY <2>1
  <2>3. RequestSame(d) /\ (InHand(d)' <=> InHand(d))
    BY <2>1 DEF RequestSame, InHand
  <2>4. CASE ~InHand(d)
    BY <2>2, <2>3, <2>4, HeldReaper DEF ReqLocked
  <2>5. CASE InHand(d)
    <3>1. Placed(d) /\ Counted(d) /\ rtmp' = nourbs[d] /\ pc[d] # "tocancel"
      BY <2>1, <2>2, <2>5 DEF IInv, InHand
    <3>2. \A j \in Urbs : NotYet(d, j)' <=> NotYet(d, j)
      BY <2>1 DEF NotYet
    <3>3. ~NotYet(d, cur.urb)'
      BY <2>1, <2>5, <3>1 DEF Placed, NotYet
    <3>4. Placed(d)'
      BY <2>1, <2>3, <3>1, <3>2, <3>3 DEF Placed
    <3>5. Counted(d)'
      <4>1. Outstanding(d)' \subseteq Outstanding(d)
        BY <2>1, <2>3, <3>2 DEF Outstanding
      <4>2. IsFiniteSet(Outstanding(d))
        BY OutstandingFinite
      <4>3. nourbs[d] \in Int /\ ctmp[d] \in Int
        BY <1>0
      <4> QED
        BY <2>1, <3>1, <4>1, <4>2, <4>3, CountedBound DEF Counted
    <3> QED
      BY <3>4, <3>5 DEF Held
  <2> QED
    BY <2>4, <2>5
<1>23. ASSUME ReaperDecrements PROVE (running' => \A d \in Clients : Held(d)')
  <2>1. /\ rpc = "dec" /\ rpc' = "check" /\ cur # NoUrb /\ cur.req \in Clients /\ cur.urb \in Urbs
        /\ UNCHANGED <<running, cur, pc, k, nurbs, ctmp, kern>>
    BY <1>0, <1>23 DEF ReaperDecrements, portVars, urbVars, CurT, HandT
  <2>2. nourbs'[cur.req] = rtmp - 1 /\ \A d \in Clients \ {cur.req} : nourbs'[d] = nourbs[d]
    BY <1>0, <1>23, <2>1 DEF ReaperDecrements
  <2>3. SUFFICES ASSUME running, NEW d \in Clients PROVE Held(d)'
    BY <2>1
  <2>4. InHand(d)' <=> InHand(d)
    BY <2>1 DEF InHand
  <2>5. CASE d # cur.req
    <3>1. RequestSame(d) /\ ~InHand(d)
      BY <2>1, <2>2, <2>5 DEF RequestSame, InHand
    <3> QED
      BY <2>3, <2>4, <3>1, HeldReaper DEF ReqLocked
  <2>6. CASE d = cur.req
    <3>1. Placed(d) /\ Counted(d) /\ InHand(d)
      BY <2>1, <2>3, <2>6 DEF IInv, InHand
    <3>2. \A j \in Urbs : NotYet(d, j)' <=> NotYet(d, j)
      BY <2>1 DEF NotYet
    <3>3. ~NotYet(d, cur.urb)' /\ ~NotYet(d, cur.urb) /\ kern[d][cur.urb] = "none"
      BY <2>1, <3>1 DEF Placed, NotYet
    <3>4. Placed(d)'
      BY <2>1, <2>4, <3>1, <3>2, <3>3 DEF Placed
    <3>5. Counted(d)'
      <4> DEFINE S == Outstanding(d) \ {cur.urb}
      <4>1. cur.urb \in Outstanding(d)
        BY <2>1, <3>1 DEF Outstanding
      <4>2. IsFiniteSet(S) /\ Cardinality(S) = Cardinality(Outstanding(d)) - 1
        BY <4>1, OutstandingFinite, FS_RemoveElement
      <4>3. Outstanding(d)' \subseteq S
        BY <2>1, <3>2, <3>3 DEF Outstanding
      <4>4. rtmp \in Int /\ ctmp[d] \in Int /\ Cardinality(Outstanding(d)) \in Nat
        BY <1>0, OutstandingFinite
      <4>5. nourbs'[d] >= Cardinality(S) /\ nourbs'[d] \in Int
        BY <2>1, <2>2, <2>6, <3>1, <4>2, <4>4 DEF Counted
      <4>6. pc'[d] = "decr" => ctmp'[d] >= Cardinality(S) /\ ctmp'[d] \in Int
        BY <2>1, <3>1, <4>2, <4>4 DEF Counted
      <4> HIDE DEF S
      <4> QED
        BY <2>1, <4>2, <4>3, <4>5, <4>6, CountedBound
    <3> QED
      BY <3>4, <3>5 DEF Held
  <2> QED
    BY <2>5, <2>6
<1>24. ASSUME ReaperSignals PROVE (running' => \A d \in Clients : Held(d)')
  <2>1. SUFFICES ASSUME running, NEW d \in Clients PROVE Held(d)'
    BY <1>24 DEF ReaperSignals, portVars
  <2>2. RequestSame(d)
    BY <1>0, <1>24 DEF ReaperSignals, RequestSame, clientVars, urbVars
  <2>3. ~InHand(d)' /\ ~ReqLocked(d)'
    BY <1>24 DEF ReaperSignals, EndReap, InHand, ReqLocked
  <2> QED
    BY <2>1, <2>2, <2>3, HeldReaper
<1>25. ASSUME ReaperCancels PROVE (running' => \A d \in Clients : Held(d)')
  <2>1. SUFFICES ASSUME running, NEW d \in Clients PROVE Held(d)'
    BY <1>25 DEF ReaperCancels, portVars
  <2>2. RequestSame(d)
    BY <1>0, <1>25 DEF ReaperCancels, RequestSame, clientVars, urbVars
  <2>3. /\ cur' = cur /\ (InHand(d)' <=> InHand(d)) /\ (ReqLocked(d)' <=> ReqLocked(d))
        /\ rpc' = "cancel"
    BY <1>25 DEF ReaperCancels, InHand, ReqLocked
  <2> QED
    BY <2>1, <2>2, <2>3, HeldReaper
<1>26. ASSUME ReaperCancelsUrb PROVE (running' => \A d \in Clients : Held(d)')
  <2>1. SUFFICES ASSUME running, NEW d \in Clients PROVE Held(d)'
    BY <1>26 DEF ReaperCancelsUrb, portVars
  <2>2. RequestSame(d)
    BY <1>0, <1>26 DEF ReaperCancelsUrb, CancelUrb, Discarded, RequestSame, clientVars, urbVars
  <2>3. /\ cur' = cur /\ (InHand(d)' <=> InHand(d)) /\ (ReqLocked(d)' <=> ReqLocked(d))
        /\ rpc' = rpc /\ rtmp' = rtmp
    BY <1>26 DEF ReaperCancelsUrb, InHand, ReqLocked
  <2> QED
    BY <2>1, <2>2, <2>3, HeldReaper
<1>27. ASSUME ReaperCancelled PROVE (running' => \A d \in Clients : Held(d)')
  <2>1. SUFFICES ASSUME running, NEW d \in Clients PROVE Held(d)'
    BY <1>27 DEF ReaperCancelled, portVars
  <2>2. RequestSame(d)
    BY <1>0, <1>27 DEF ReaperCancelled, RequestSame, clientVars, urbVars
  <2>3. ~InHand(d)' /\ ~ReqLocked(d)'
    BY <1>27 DEF ReaperCancelled, EndReap, InHand, ReqLocked
  <2> QED
    BY <2>1, <2>2, <2>3, HeldReaper
<1>28. ASSUME ReaperSeesShutdown PROVE (running' => \A d \in Clients : Held(d)')
  <2>1. running' = FALSE
    BY <1>0, <1>28 DEF ReaperSeesShutdown, ReaperGivesUp
  <2> QED
    BY <2>1
<1>29. ASSUME ReaperWalks PROVE (running' => \A d \in Clients : Held(d)')
  <2>1. running' = FALSE
    BY <1>0, <1>29 DEF ReaperWalks, portVars, HandT
  <2> QED
    BY <2>1
<1>30. ASSUME NEW c \in Clients, ReaperFailsRequest(c) PROVE (running' => \A d \in Clients : Held(d)')
  <2>1. running' = FALSE
    BY <1>0, <1>30 DEF ReaperFailsRequest, portVars, HandT
  <2> QED
    BY <2>1
<1>31. ASSUME ReaperExits PROVE (running' => \A d \in Clients : Held(d)')
  <2>1. running' = FALSE
    BY <1>0, <1>31 DEF ReaperExits, portVars, HandT
  <2> QED
    BY <2>1
<1>32. ASSUME ReapFails PROVE (running' => \A d \in Clients : Held(d)')
  <2>1. SUFFICES ASSUME running' PROVE \A d \in Clients : Held(d)'
    OBVIOUS
  <2>2. running' = running /\ ReaperSame /\ \A d \in Clients : RequestSame(d)
    <3>1. errc < MaxErrc
      BY <1>32, <2>1 DEF ReapFails, ReaperGivesUp
    <3> QED
      BY <1>32, <3>1 DEF ReapFails, ReaperSame, RequestSame, clientVars, urbVars
  <2> QED
    BY <2>1, <2>2, HeldFrame
<1>33. ASSUME OpenPort PROVE (running' => \A d \in Clients : Held(d)')
  <2>1. SUFFICES ASSUME NEW d \in Clients PROVE Held(d)'
    OBVIOUS
  <2>2. /\ pc'[d] = "idle" /\ rpc' = "poll" /\ nourbs'[d] = 0 /\ cur' = NoUrb
        /\ \A i \in Urbs : kern'[d][i] = "none"
    BY <1>0, <1>33 DEF OpenPort, clientVars, urbVars, IInv, ClientPhase, HandT
  <2>3. ~InHand(d)' /\ Outstanding(d)' = {}
    BY <2>2 DEF InHand, Outstanding, NotYet
  <2>4. Placed(d)'
    BY <2>2, <2>3 DEF Placed
  <2>5. Counted(d)'
    BY <2>2, <2>3, CountedEmpty
  <2> QED
    BY <2>4, <2>5 DEF Held
<1>34. ASSUME ClosePort PROVE (running' => \A d \in Clients : Held(d)')
  <2>1. running' = running /\ ReaperSame /\ \A d \in Clients : RequestSame(d)
    BY <1>0, <1>34 DEF ClosePort, ReaperSame, RequestSame, portVars, reaperVars, clientVars,
       urbVars, tokenVars
  <2> QED
    BY <2>1, HeldFrame
<1>35. ASSUME ClosePortJoined PROVE (running' => \A d \in Clients : Held(d)')
  <2>1. ~running'
    BY <1>0, <1>35 DEF ClosePortJoined, HandT
  <2> QED
    BY <2>1
<1>36. ASSUME Unplug PROVE (running' => \A d \in Clients : Held(d)')
  <2>1. running' = running /\ ReaperSame /\ \A d \in Clients : RequestSame(d)
    BY <1>0, <1>36 DEF Unplug, ReaperSame, RequestSame, portVars, reaperVars, clientVars,
       urbVars, tokenVars
  <2> QED
    BY <2>1, HeldFrame
<1>37. ASSUME UNCHANGED vars PROVE (running' => \A d \in Clients : Held(d)')
  <2>1. running' = running /\ ReaperSame /\ \A d \in Clients : RequestSame(d)
    BY <1>37 DEF vars, ReaperSame, RequestSame, portVars, reaperVars, clientVars, urbVars
  <2> QED
    BY <2>1, HeldFrame
<1> QED
  BY <1>1, <1>2, <1>3, <1>4, <1>5, <1>6, <1>7, <1>8, <1>9, <1>10, <1>11, <1>12, <1>13,
     <1>14, <1>15, <1>16, <1>17, <1>18, <1>19, <1>20, <1>21, <1>22, <1>23, <1>24,
     <1>25, <1>26, <1>27, <1>28, <1>29, <1>30, <1>31, <1>32, <1>33, <1>34, <1>35,
     <1>36, <1>37 DEF Next, ClientStep, CancellerStep, ReaperStep

(***************************************************************************)
(* The theorems                                                            *)
(***************************************************************************)

\* The invariant holds when the port has just been opened: no request, and the reaper
\* at its poll.
LEMMA InitIInv == Init => IInv
<1> SUFFICES ASSUME Init PROVE IInv
  OBVIOUS
<1> USE DEF Init, Urbs
<1>1. TypeOK
  <2>1. /\ 0 \in 0..MaxErrc /\ 0 \in 0..MaxUrbs /\ 1 \in 1..MaxUrbs
        /\ 0 \in 0..(MaxUrbs + 1) /\ -1 \in -1..MaxUrbs
    BY MaxUrbsAssumption, MaxErrcAssumption
  <2>2. /\ pc \in [Clients -> ClientPc] /\ reqrv \in [Clients -> ResultT]
        /\ kern \in [Clients -> [Urbs -> KernT]] /\ stat \in [Clients -> [Urbs -> StatT]]
    BY DEF Done, KernT, StatT, ResultT, ClientPc
  <2>3. rpc \in ReaperPc /\ cur \in CurT \union {NoUrb}
    BY DEF ReaperPc
  <2>4. /\ nurbs \in [Clients -> Urbs] /\ nourbs \in [Clients -> Int]
        /\ k \in [Clients -> 0..(MaxUrbs + 1)] /\ ctmp \in [Clients -> Int]
        /\ cix \in [Clients -> -1..MaxUrbs]
    BY <2>1
  <2>5. /\ cancelled \in [Clients -> BOOLEAN] /\ woken \in [Clients -> BOOLEAN]
        /\ hcancel \in [Clients -> BOOLEAN]
    OBVIOUS
  <2>6. /\ isOpen \in BOOLEAN /\ closing \in BOOLEAN
        /\ running \in BOOLEAN /\ present \in BOOLEAN
    OBVIOUS
  <2>7. /\ reqs \subseteq Clients /\ todo \subseteq Clients
        /\ rtmp \in Int /\ rix \in 0..MaxUrbs /\ errc \in 0..MaxErrc
    BY <2>1
  <2> HIDE DEF Init
  <2> QED
    BY <2>2, <2>3, <2>4, <2>5, <2>6, <2>7 DEF TypeOK
<1>2. ReaperPhase
  BY DEF ReaperPhase, HandT
<1>3. \A c \in Clients : ClientPhase(c)
  BY DEF ClientPhase
<1> QED
  BY <1>1, <1>2, <1>3 DEF IInv

\* The invariant is kept by every step.
LEMMA StepIInv == IInv /\ [Next]_vars => IInv'
<1> SUFFICES ASSUME IInv, [Next]_vars PROVE IInv'
  OBVIOUS
<1>1. TypeOK'
  BY TypeStep
<1>2. ReaperPhase'
  BY ReaperPhaseStep
<1>3. \A c \in Clients : ClientPhase(c)'
  BY ClientPhaseStep
<1>4. running' => \A c \in Clients : Placed(c)' /\ Counted(c)'
  BY HeldStep DEF Held
<1> QED
  BY <1>1, <1>2, <1>3, <1>4 DEF IInv

\* The strengthened invariant: whatever the interleaving, the counts that the
\* clients and the reaper work with cover what is still outstanding.
THEOREM UsbInductive == Spec => []IInv
<1>1. Init => IInv
  BY InitIInv
<1>2. IInv /\ [Next]_vars => IInv'
  BY StepIInv
<1> QED
  BY <1>1, <1>2, PTL DEF Spec

\* Every variable keeps its type, for any number of clients and URBs.
THEOREM UsbTypeCorrect == Spec => []TypeOK
<1>1. IInv => TypeOK
  BY DEF IInv
<1> QED
  BY <1>1, UsbInductive, PTL

\* icoms_usb_transaction returns with no URB of its own left with the kernel
\* or the reaper, on every one of its paths.
THEOREM UsbBuffersReturned == Spec => []BuffersReturned
<1>1. IInv => BuffersReturned
  BY DEF IInv, Placed, BuffersReturned
<1> QED
  BY <1>1, UsbInductive, PTL

\* urb_reaper and icoms_usb_cancel_io never follow a pointer to a request that
\* is not on the list of live ones.
THEOREM UsbReferencesLive == Spec => []ReferencesLive
<1>1. IInv => ReferencesLive
  <2> SUFFICES ASSUME IInv PROVE ReferencesLive
    OBVIOUS
  <2>1. ASSUME cur # NoUrb PROVE pc[cur.req] \notin {"idle", "link"} /\ cur.urb <= nurbs[cur.req]
    <3>1. running /\ cur.req \in Clients /\ InHand(cur.req)
      BY <2>1 DEF IInv, TypeOK, ReaperPhase, CurT, InHand
    <3>2. Placed(cur.req)
      BY <3>1 DEF IInv
    <3> QED
      BY <3>1, <3>2 DEF Placed
  <2>2. \A c \in todo : pc[c] \notin {"idle", "link"}
    BY DEF IInv, TypeOK, ClientPhase
  <2>3. \A c \in Clients : cix[c] >= 0 => hcancel[c] /\ pc[c] \notin {"idle", "link"}
    BY DEF IInv, ClientPhase
  <2> QED
    BY <2>1, <2>2, <2>3 DEF ReferencesLive
<1> QED
  BY <1>1, UsbInductive, PTL
=============================================================================
