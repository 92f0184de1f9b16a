------------------------- MODULE InstTrigger_proofs -------------------------
(***************************************************************************)
(* Proofs about InstTrigger, for any number of measurements.               *)
(***************************************************************************)
EXTENDS InstTrigger, TLAPS

(* The token: condx is locked from the reinit to the start of the read,    *)
(* and while it is free every waiting thread's read has been started.      *)
TokenInv ==
    /\ TokenBalanced
    /\ dpc \in {"join", "create", "read", "token", "abandoned"} => condx
    /\ dpc = "reading" => state = 1 /\ ~condx
    /\ begun <= meas

(* One trigger thread at most has not finished: the one the driver holds.  *)
ThreadInv ==
    /\ \A n \in 1..MaxMeas : trig[n] \in {"wait", "send"} => n = trig_thread
    /\ trig_thread <= meas
    /\ dpc \in {"reinit", "join", "create"} => trig_thread < meas
    /\ dpc \in {"read", "token", "reading"} => trig_thread = meas
    /\ dpc = "create" => trig_thread = 0

(* What the thread may do it does after the start of its read. *)
TriggerInv ==
    /\ TriggerAfterRead
    /\ \A n \in 1..MaxMeas : trig[n] = "wait" /\ ~condx => n <= begun

(* Readings on their way belong to the read that waits, or have been kept. *)
ReadingInv ==
    /\ OwnReading
    /\ pending => dpc \in {"token", "reading"}
    /\ answer # 0 /\ dpc # "soak" /\ ~pending => kept
    /\ answer # 0 /\ pending => answer = meas \/ kept

(* The driver is freed after both threads have been joined. *)
JoinInv ==
    /\ dpc \in {"uninit", "jointrig", "freed"} => swpc = "exited"
    /\ dpc = "freed" => trig_thread = 0

IInv == TypeOK /\ TokenInv /\ ThreadInv /\ TriggerInv /\ ReadingInv /\ JoinInv

(* Every step keeps the types: where the caller goes is proved apart from *)
(* what the variables become.                                              *)
LEMMA TypeStep ==
    ASSUME TypeOK, [Next]_vars
    PROVE  TypeOK'
<1>0. MaxMeas \in Nat
  BY MaxMeasAssumption
<1>1. CASE Measure \/ Delete \/ SetParamsFails \/ CreateFails \/ ReadRefused \/ Done \/
         Linger \/ Terminate \/ JoinSwitch \/ Uninit \/ LingerEnds
  <2>1. dpc' \in DpcValues
    BY <1>1 DEF TypeOK, DpcValues, MeasureAt, DeleteAt, ClearToken, Goes, Measure, Delete,
           SetParamsFails, CreateFails, ReadRefused, Done, Linger, Terminate, JoinSwitch,
           Uninit, LingerEnds, allButDpc, deviceVars, tokenVars, trigVars, switchVars,
           historyVars
  <2>2. /\ condx' \in BOOLEAN /\ kept' \in BOOLEAN /\ missed' \in BOOLEAN
        /\ left' \in BOOLEAN /\ pending' \in BOOLEAN
    BY <1>1 DEF TypeOK, ClearToken, Unread, Goes, Measure, Delete, SetParamsFails,
           CreateFails, ReadRefused, Done, Linger, Terminate, JoinSwitch, Uninit,
           LingerEnds, allButDpc, deviceVars, tokenVars, trigVars, switchVars, historyVars
  <2> QED
    BY <1>0, <1>1, <2>1, <2>2 DEF TypeOK, ClearToken, Unread, Goes, Measure, Delete,
       SetParamsFails, CreateFails, ReadRefused, Done, Linger, Terminate, JoinSwitch,
       Uninit, LingerEnds, allButDpc, deviceVars, tokenVars, trigVars, switchVars,
       historyVars
<1>2. CASE SetTerm
  <2>1. dpc' \in DpcValues
    BY <1>2 DEF TypeOK, DpcValues, MeasureAt, DeleteAt, ClearToken, SetTerm, allButDpc,
           deviceVars, tokenVars, trigVars, switchVars, historyVars
  <2>2. /\ condx' \in BOOLEAN /\ kept' \in BOOLEAN /\ missed' \in BOOLEAN
        /\ left' \in BOOLEAN /\ pending' \in BOOLEAN
    BY <1>2 DEF TypeOK, ClearToken, Unread, SetTerm, allButDpc, deviceVars, tokenVars,
           trigVars, switchVars, historyVars
  <2> QED
    BY <1>0, <1>2, <2>1, <2>2 DEF TypeOK, ClearToken, Unread, SetTerm, allButDpc, deviceVars,
       tokenVars, trigVars, switchVars, historyVars
<1>3. CASE CancelSwitch
  <2>1. dpc' \in DpcValues
    BY <1>3 DEF TypeOK, DpcValues, MeasureAt, DeleteAt, ClearToken, CancelSwitch, allButDpc,
           deviceVars, tokenVars, trigVars, switchVars, historyVars
  <2>2. /\ condx' \in BOOLEAN /\ kept' \in BOOLEAN /\ missed' \in BOOLEAN
        /\ left' \in BOOLEAN /\ pending' \in BOOLEAN
    BY <1>3 DEF TypeOK, ClearToken, Unread, CancelSwitch, allButDpc, deviceVars, tokenVars,
           trigVars, switchVars, historyVars
  <2> QED
    BY <1>0, <1>3, <2>1, <2>2 DEF TypeOK, ClearToken, Unread, CancelSwitch, allButDpc,
       deviceVars, tokenVars, trigVars, switchVars, historyVars
<1>4. CASE SwitchReads \/ SwitchExits
  <2>1. dpc' \in DpcValues
    BY <1>4 DEF TypeOK, DpcValues, MeasureAt, DeleteAt, ClearToken, SwitchReads, SwitchExits,
           allButDpc, deviceVars, tokenVars, trigVars, switchVars, historyVars
  <2>2. /\ condx' \in BOOLEAN /\ kept' \in BOOLEAN /\ missed' \in BOOLEAN
        /\ left' \in BOOLEAN /\ pending' \in BOOLEAN
    BY <1>4 DEF TypeOK, ClearToken, Unread, SwitchReads, SwitchExits, allButDpc, deviceVars,
           tokenVars, trigVars, switchVars, historyVars
  <2> QED
    BY <1>0, <1>4, <2>1, <2>2 DEF TypeOK, ClearToken, Unread, SwitchReads, SwitchExits,
       allButDpc, deviceVars, tokenVars, trigVars, switchVars, historyVars
<1>5. CASE SwitchReadEnds
  <2>1. dpc' \in DpcValues
    BY <1>5 DEF TypeOK, DpcValues, MeasureAt, DeleteAt, ClearToken, SwitchReadEnds, allButDpc,
           deviceVars, tokenVars, trigVars, switchVars, historyVars
  <2>2. /\ condx' \in BOOLEAN /\ kept' \in BOOLEAN /\ missed' \in BOOLEAN
        /\ left' \in BOOLEAN /\ pending' \in BOOLEAN
    BY <1>5 DEF TypeOK, ClearToken, Unread, SwitchReadEnds, allButDpc, deviceVars, tokenVars,
           trigVars, switchVars, historyVars
  <2> QED
    BY <1>0, <1>5, <2>1, <2>2 DEF TypeOK, ClearToken, Unread, SwitchReadEnds, allButDpc,
       deviceVars, tokenVars, trigVars, switchVars, historyVars
<1>6. CASE SwitchTests
  <2>1. dpc' \in DpcValues
    BY <1>6 DEF TypeOK, DpcValues, MeasureAt, DeleteAt, ClearToken, SwitchTests, allButDpc,
           deviceVars, tokenVars, trigVars, switchVars, historyVars
  <2>2. /\ condx' \in BOOLEAN /\ kept' \in BOOLEAN /\ missed' \in BOOLEAN
        /\ left' \in BOOLEAN /\ pending' \in BOOLEAN
    BY <1>6 DEF TypeOK, ClearToken, Unread, SwitchTests, allButDpc, deviceVars, tokenVars,
           trigVars, switchVars, historyVars
  <2> QED
    BY <1>0, <1>6, <2>1, <2>2 DEF TypeOK, ClearToken, Unread, SwitchTests, allButDpc,
       deviceVars, tokenVars, trigVars, switchVars, historyVars
<1>7. CASE Reinit \/ JoinTrigger \/ JoinLastTrigger \/ Abandoned
  <2>1. dpc' \in DpcValues
    BY <1>7 DEF TypeOK, DpcValues, MeasureAt, DeleteAt, ClearToken, Reinit, JoinTrigger,
           JoinLastTrigger, Abandoned, allButDpc, deviceVars, tokenVars, trigVars,
           switchVars, historyVars
  <2>2. /\ condx' \in BOOLEAN /\ kept' \in BOOLEAN /\ missed' \in BOOLEAN
        /\ left' \in BOOLEAN /\ pending' \in BOOLEAN
    BY <1>7 DEF TypeOK, ClearToken, Unread, Reinit, JoinTrigger, JoinLastTrigger, Abandoned,
           allButDpc, deviceVars, tokenVars, trigVars, switchVars, historyVars
  <2> QED
    BY <1>0, <1>7, <2>1, <2>2 DEF TypeOK, ClearToken, Unread, Reinit, JoinTrigger,
       JoinLastTrigger, Abandoned, allButDpc, deviceVars, tokenVars, trigVars, switchVars,
       historyVars
<1>8. CASE ReadGets \/ ReadFills \/ Soak
  <2>1. dpc' \in DpcValues
    BY <1>8 DEF TypeOK, DpcValues, MeasureAt, DeleteAt, ClearToken, ReadGets, ReadFills, Soak,
           allButDpc, deviceVars, tokenVars, trigVars, switchVars, historyVars
  <2>2. /\ condx' \in BOOLEAN /\ kept' \in BOOLEAN /\ missed' \in BOOLEAN
        /\ left' \in BOOLEAN /\ pending' \in BOOLEAN
    BY <1>8 DEF TypeOK, ClearToken, Unread, ReadGets, ReadFills, Soak, allButDpc, deviceVars,
           tokenVars, trigVars, switchVars, historyVars
  <2> QED
    BY <1>0, <1>8, <2>1, <2>2 DEF TypeOK, ClearToken, Unread, ReadGets, ReadFills, Soak,
       allButDpc, deviceVars, tokenVars, trigVars, switchVars, historyVars
<1>9. CASE ReadFails
  <2>1. dpc' \in DpcValues
    BY <1>9 DEF TypeOK, DpcValues, MeasureAt, DeleteAt, ClearToken, ReadFails, allButDpc,
           deviceVars, tokenVars, trigVars, switchVars, historyVars
  <2>2. /\ condx' \in BOOLEAN /\ kept' \in BOOLEAN /\ missed' \in BOOLEAN
        /\ left' \in BOOLEAN /\ pending' \in BOOLEAN
    BY <1>9 DEF TypeOK, ClearToken, Unread, ReadFails, allButDpc, deviceVars, tokenVars,
           trigVars, switchVars, historyVars
  <2> QED
    BY <1>0, <1>9, <2>1, <2>2 DEF TypeOK, ClearToken, Unread, ReadFails, allButDpc,
       deviceVars, tokenVars, trigVars, switchVars, historyVars
<1>10. CASE ReaperDies
  <2>1. dpc' \in DpcValues
    BY <1>10 DEF TypeOK, DpcValues, MeasureAt, DeleteAt, ClearToken, ReaperDies, allButDpc,
           deviceVars, tokenVars, trigVars, switchVars, historyVars
  <2>2. /\ condx' \in BOOLEAN /\ kept' \in BOOLEAN /\ missed' \in BOOLEAN
        /\ left' \in BOOLEAN /\ pending' \in BOOLEAN
    BY <1>10 DEF TypeOK, ClearToken, Unread, ReaperDies, allButDpc, deviceVars, tokenVars,
           trigVars, switchVars, historyVars
  <2> QED
    BY <1>0, <1>10, <2>1, <2>2 DEF TypeOK, ClearToken, Unread, ReaperDies, allButDpc,
       deviceVars, tokenVars, trigVars, switchVars, historyVars
<1>11. CASE CreateTrigger
  <2>1. dpc' \in DpcValues
    BY <1>11 DEF TypeOK, DpcValues, MeasureAt, DeleteAt, ClearToken, CreateTrigger, allButDpc,
           deviceVars, tokenVars, trigVars, switchVars, historyVars
  <2>2. /\ condx' \in BOOLEAN /\ kept' \in BOOLEAN /\ missed' \in BOOLEAN
        /\ left' \in BOOLEAN /\ pending' \in BOOLEAN
    BY <1>11 DEF TypeOK, ClearToken, Unread, CreateTrigger, allButDpc, deviceVars, tokenVars,
           trigVars, switchVars, historyVars
  <2> QED
    BY <1>0, <1>11, <2>1, <2>2 DEF TypeOK, ClearToken, Unread, CreateTrigger, allButDpc,
       deviceVars, tokenVars, trigVars, switchVars, historyVars
<1>12. CASE SetParams
  <2>1. dpc' \in DpcValues
    BY <1>12 DEF TypeOK, DpcValues, MeasureAt, DeleteAt, ClearToken, SetParams, allButDpc,
           deviceVars, tokenVars, trigVars, switchVars, historyVars
  <2>2. /\ condx' \in BOOLEAN /\ kept' \in BOOLEAN /\ missed' \in BOOLEAN
        /\ left' \in BOOLEAN /\ pending' \in BOOLEAN
    BY <1>12 DEF TypeOK, ClearToken, Unread, SetParams, allButDpc, deviceVars, tokenVars,
           trigVars, switchVars, historyVars
  <2> QED
    BY <1>0, <1>12, <2>1, <2>2 DEF TypeOK, ClearToken, Unread, SetParams, allButDpc,
       deviceVars, tokenVars, trigVars, switchVars, historyVars
<1>13. CASE ReadStarts
  <2>1. dpc' \in DpcValues
    BY <1>13 DEF TypeOK, DpcValues, MeasureAt, DeleteAt, ClearToken, ReadStarts, allButDpc,
           deviceVars, tokenVars, trigVars, switchVars, historyVars
  <2>2. /\ condx' \in BOOLEAN /\ kept' \in BOOLEAN /\ missed' \in BOOLEAN
        /\ left' \in BOOLEAN /\ pending' \in BOOLEAN
    BY <1>13 DEF TypeOK, ClearToken, Unread, ReadStarts, allButDpc, deviceVars, tokenVars,
           trigVars, switchVars, historyVars
  <2> QED
    BY <1>0, <1>13, <2>1, <2>2 DEF TypeOK, ClearToken, Unread, ReadStarts, allButDpc,
       deviceVars, tokenVars, trigVars, switchVars, historyVars
<1>14. CASE SetToken
  <2>1. dpc' \in DpcValues
    BY <1>14 DEF TypeOK, DpcValues, MeasureAt, DeleteAt, ClearToken, SetToken, allButDpc,
           deviceVars, tokenVars, trigVars, switchVars, historyVars
  <2>2. /\ condx' \in BOOLEAN /\ kept' \in BOOLEAN /\ missed' \in BOOLEAN
        /\ left' \in BOOLEAN /\ pending' \in BOOLEAN
    BY <1>14 DEF TypeOK, ClearToken, Unread, SetToken, allButDpc, deviceVars, tokenVars,
           trigVars, switchVars, historyVars
  <2> QED
    BY <1>0, <1>14, <2>1, <2>2 DEF TypeOK, ClearToken, Unread, SetToken, allButDpc,
       deviceVars, tokenVars, trigVars, switchVars, historyVars
<1>15. CASE \E n \in 1..MaxMeas : WaitIo(n)
  <2>1. dpc' \in DpcValues
    BY <1>15 DEF TypeOK, DpcValues, MeasureAt, DeleteAt, ClearToken, WaitIo, allButDpc,
           deviceVars, tokenVars, trigVars, switchVars, historyVars
  <2>2. /\ condx' \in BOOLEAN /\ kept' \in BOOLEAN /\ missed' \in BOOLEAN
        /\ left' \in BOOLEAN /\ pending' \in BOOLEAN
    BY <1>15 DEF TypeOK, ClearToken, Unread, WaitIo, allButDpc, deviceVars, tokenVars,
           trigVars, switchVars, historyVars
  <2> QED
    BY <1>0, <1>15, <2>1, <2>2 DEF TypeOK, ClearToken, Unread, WaitIo, allButDpc, deviceVars,
       tokenVars, trigVars, switchVars, historyVars
<1>16. CASE \E n \in 1..MaxMeas : Trigger(n)
  <2>1. dpc' \in DpcValues
    BY <1>16 DEF TypeOK, DpcValues, MeasureAt, DeleteAt, ClearToken, Trigger, allButDpc,
           deviceVars, tokenVars, trigVars, switchVars, historyVars
  <2>2. /\ condx' \in BOOLEAN /\ kept' \in BOOLEAN /\ missed' \in BOOLEAN
        /\ left' \in BOOLEAN /\ pending' \in BOOLEAN
    BY <1>16 DEF TypeOK, ClearToken, Unread, Trigger, allButDpc, deviceVars, tokenVars,
           trigVars, switchVars, historyVars
  <2> QED
    BY <1>0, <1>16, <2>1, <2>2 DEF TypeOK, ClearToken, Unread, Trigger, allButDpc, deviceVars,
       tokenVars, trigVars, switchVars, historyVars
<1>17. CASE UNCHANGED vars
  <2>1. dpc' \in DpcValues
    BY <1>17 DEF TypeOK, DpcValues, MeasureAt, DeleteAt, ClearToken, vars, allButDpc,
           deviceVars, tokenVars, trigVars, switchVars, historyVars
  <2>2. /\ condx' \in BOOLEAN /\ kept' \in BOOLEAN /\ missed' \in BOOLEAN
        /\ left' \in BOOLEAN /\ pending' \in BOOLEAN
    BY <1>17 DEF TypeOK, ClearToken, Unread, vars, allButDpc, deviceVars, tokenVars, trigVars,
           switchVars, historyVars
  <2> QED
    BY <1>0, <1>17, <2>1, <2>2 DEF TypeOK, ClearToken, Unread, vars, allButDpc, deviceVars,
       tokenVars, trigVars, switchVars, historyVars
<1> QED
  BY <1>1, <1>2, <1>3, <1>4, <1>5, <1>6, <1>7, <1>8, <1>9, <1>10, <1>11, <1>12, <1>13,
     <1>14, <1>15, <1>16, <1>17 DEF Next, MeasureStep, DeleteStep, TriggerStep, SwitchStep

(* Every step keeps condx where the token's users expect it: locked only   *)
(* from a reinit to the start of a read, or left so by a failure.          *)
LEMMA TokenStep ==
    ASSUME TypeOK, TokenInv, [Next]_vars
    PROVE  TokenInv'
<1>0. MaxMeas \in Nat
  BY MaxMeasAssumption
<1>1. CASE Measure \/ Delete \/ SetParamsFails \/ CreateFails \/ ReadRefused \/ Done \/
         Linger \/ Terminate \/ JoinSwitch \/ Uninit \/ LingerEnds
  BY <1>0, <1>1 DEF Goes, Measure, Delete, SetParamsFails, CreateFails, ReadRefused, Done,
         Linger, Terminate, JoinSwitch, Uninit, LingerEnds, TypeOK, TokenInv,
         TokenBalanced, ClearToken, allButDpc, deviceVars, tokenVars, trigVars,
         switchVars, historyVars
<1>2. CASE SetTerm \/ CancelSwitch \/ SwitchReads \/ SwitchReadEnds \/ SwitchTests \/
         SwitchExits
  BY <1>0, <1>2 DEF SetTerm, CancelSwitch, SwitchReads, SwitchReadEnds, SwitchTests,
         SwitchExits, TypeOK, TokenInv, TokenBalanced, ClearToken, allButDpc, deviceVars,
         tokenVars, trigVars, switchVars, historyVars
<1>3. CASE JoinTrigger \/ CreateTrigger \/ ReadStarts \/ Abandoned \/ Soak \/
         JoinLastTrigger \/ ReaperDies
  BY <1>0, <1>3 DEF JoinTrigger, CreateTrigger, ReadStarts, Abandoned, Soak,
         JoinLastTrigger, ReaperDies, TypeOK, TokenInv, TokenBalanced, ClearToken,
         allButDpc, deviceVars, tokenVars, trigVars, switchVars, historyVars
<1>4. CASE Reinit
  BY <1>0, <1>4 DEF Reinit, TypeOK, TokenInv, TokenBalanced, ClearToken, allButDpc,
         deviceVars, tokenVars, trigVars, switchVars, historyVars
<1>5. CASE SetToken
  BY <1>0, <1>5 DEF SetToken, TypeOK, TokenInv, TokenBalanced, ClearToken, allButDpc,
         deviceVars, tokenVars, trigVars, switchVars, historyVars
<1>6. CASE SetParams
  BY <1>0, <1>6 DEF SetParams, TypeOK, TokenInv, TokenBalanced, ClearToken, allButDpc,
         deviceVars, tokenVars, trigVars, switchVars, historyVars
<1>7. CASE ReadGets
  BY <1>0, <1>7 DEF ReadGets, TypeOK, TokenInv, TokenBalanced, ClearToken, allButDpc,
         deviceVars, tokenVars, trigVars, switchVars, historyVars
<1>8. CASE ReadFails
  BY <1>0, <1>8 DEF ReadFails, TypeOK, TokenInv, TokenBalanced, ClearToken, allButDpc,
         deviceVars, tokenVars, trigVars, switchVars, historyVars
<1>9. CASE ReadFills
  BY <1>0, <1>9 DEF ReadFills, TypeOK, TokenInv, TokenBalanced, ClearToken, allButDpc,
         deviceVars, tokenVars, trigVars, switchVars, historyVars
<1>10. CASE \E n \in 1..MaxMeas : WaitIo(n)
  BY <1>0, <1>10 DEF WaitIo, TypeOK, TokenInv, TokenBalanced, ClearToken, allButDpc,
         deviceVars, tokenVars, trigVars, switchVars, historyVars
<1>11. CASE \E n \in 1..MaxMeas : Trigger(n)
  BY <1>0, <1>11 DEF Trigger, TypeOK, TokenInv, TokenBalanced, ClearToken, allButDpc,
         deviceVars, tokenVars, trigVars, switchVars, historyVars
<1>12. CASE UNCHANGED vars
  BY <1>0, <1>12 DEF vars, TypeOK, TokenInv, TokenBalanced, ClearToken, allButDpc,
         deviceVars, tokenVars, trigVars, switchVars, historyVars
<1> QED
  BY <1>1, <1>2, <1>3, <1>4, <1>5, <1>6, <1>7, <1>8, <1>9, <1>10, <1>11, <1>12 DEF Next,
     MeasureStep, DeleteStep, TriggerStep, SwitchStep

(* Every step keeps at most one trigger thread unfinished, the one the     *)
(* driver holds: a new one is only made after the last has been joined.    *)
LEMMA ThreadStep ==
    ASSUME TypeOK, ThreadInv, [Next]_vars
    PROVE  ThreadInv'
<1>0. MaxMeas \in Nat
  BY MaxMeasAssumption
<1>1. CASE Measure \/ Delete \/ SetParamsFails \/ CreateFails \/ ReadRefused \/ Done \/
         Linger \/ Terminate \/ JoinSwitch \/ LingerEnds
  BY <1>0, <1>1 DEF Goes, Measure, Delete, SetParamsFails, CreateFails, ReadRefused, Done,
         Linger, Terminate, JoinSwitch, LingerEnds, TypeOK, ThreadInv, allButDpc,
         deviceVars, tokenVars, trigVars, switchVars, historyVars
<1>2. CASE SetTerm \/ CancelSwitch \/ SwitchReads \/ SwitchReadEnds \/ SwitchTests \/
         SwitchExits
  BY <1>0, <1>2 DEF SetTerm, CancelSwitch, SwitchReads, SwitchReadEnds, SwitchTests,
         SwitchExits, TypeOK, ThreadInv, allButDpc, deviceVars, tokenVars, trigVars,
         switchVars, historyVars
<1>3. CASE Reinit \/ ReadStarts \/ Abandoned \/ SetToken \/ ReadGets \/ ReadFails \/
         ReadFills \/ Soak \/ ReaperDies
  BY <1>0, <1>3 DEF Reinit, ReadStarts, Abandoned, SetToken, ReadGets, ReadFails, ReadFills,
         Soak, ReaperDies, TypeOK, ThreadInv, allButDpc, deviceVars, tokenVars, trigVars,
         switchVars, historyVars
<1>4. CASE CreateTrigger
  BY <1>0, <1>4 DEF CreateTrigger, TypeOK, ThreadInv, allButDpc, deviceVars, tokenVars,
         trigVars, switchVars, historyVars
<1>5. CASE JoinTrigger
  BY <1>0, <1>5 DEF JoinTrigger, TypeOK, ThreadInv, allButDpc, deviceVars, tokenVars,
         trigVars, switchVars, historyVars
<1>6. CASE SetParams
  BY <1>0, <1>6 DEF SetParams, TypeOK, ThreadInv, allButDpc, deviceVars, tokenVars,
         trigVars, switchVars, historyVars
<1>7. CASE JoinLastTrigger
  BY <1>0, <1>7 DEF JoinLastTrigger, TypeOK, ThreadInv, allButDpc, deviceVars, tokenVars,
         trigVars, switchVars, historyVars
<1>8. CASE Uninit
  BY <1>0, <1>8 DEF Goes, Uninit, TypeOK, ThreadInv, allButDpc, deviceVars, tokenVars,
         trigVars, switchVars, historyVars
<1>9. CASE \E n \in 1..MaxMeas : WaitIo(n)
  BY <1>0, <1>9 DEF WaitIo, TypeOK, ThreadInv, allButDpc, deviceVars, tokenVars, trigVars,
         switchVars, historyVars
<1>10. CASE \E n \in 1..MaxMeas : Trigger(n)
  BY <1>0, <1>10 DEF Trigger, TypeOK, ThreadInv, allButDpc, deviceVars, tokenVars, trigVars,
         switchVars, historyVars
<1>11. CASE UNCHANGED vars
  BY <1>0, <1>11 DEF vars, TypeOK, ThreadInv, allButDpc, deviceVars, tokenVars, trigVars,
         switchVars, historyVars
<1> QED
  BY <1>1, <1>2, <1>3, <1>4, <1>5, <1>6, <1>7, <1>8, <1>9, <1>10, <1>11 DEF Next,
     MeasureStep, DeleteStep, TriggerStep, SwitchStep

(* Every step keeps a trigger behind the start of its read: condx is only  *)
(* free, with a thread waiting, once that thread's read has been started.  *)
LEMMA TriggerStepInv ==
    ASSUME TypeOK, TokenInv, ThreadInv, TriggerInv, [Next]_vars
    PROVE  TriggerInv'
<1>0. MaxMeas \in Nat
  BY MaxMeasAssumption
<1>1. CASE Measure \/ Delete \/ SetParamsFails \/ CreateFails \/ ReadRefused \/ Done \/
         Linger \/ Terminate \/ JoinSwitch \/ Uninit \/ LingerEnds
  BY <1>0, <1>1 DEF Goes, Measure, Delete, SetParamsFails, CreateFails, ReadRefused, Done,
         Linger, Terminate, JoinSwitch, Uninit, LingerEnds, TypeOK, TokenInv, ThreadInv,
         TriggerInv, TriggerAfterRead, ClearToken, allButDpc, deviceVars, tokenVars,
         trigVars, switchVars, historyVars
<1>2. CASE SetTerm \/ CancelSwitch \/ SwitchReads \/ SwitchReadEnds \/ SwitchTests \/
         SwitchExits
  BY <1>0, <1>2 DEF SetTerm, CancelSwitch, SwitchReads, SwitchReadEnds, SwitchTests,
         SwitchExits, TypeOK, TokenInv, ThreadInv, TriggerInv, TriggerAfterRead,
         ClearToken, allButDpc, deviceVars, tokenVars, trigVars, switchVars, historyVars
<1>3. CASE SetParams \/ JoinTrigger \/ ReadStarts \/ Abandoned \/ Soak \/ JoinLastTrigger
         \/ ReaperDies
  BY <1>0, <1>3 DEF SetParams, JoinTrigger, ReadStarts, Abandoned, Soak, JoinLastTrigger,
         ReaperDies, TypeOK, TokenInv, ThreadInv, TriggerInv, TriggerAfterRead,
         ClearToken, allButDpc, deviceVars, tokenVars, trigVars, switchVars, historyVars
<1>4. CASE CreateTrigger
  BY <1>0, <1>4 DEF CreateTrigger, TypeOK, TokenInv, ThreadInv, TriggerInv,
         TriggerAfterRead, ClearToken, allButDpc, deviceVars, tokenVars, trigVars,
         switchVars, historyVars
<1>5. CASE SetToken
  BY <1>0, <1>5 DEF SetToken, TypeOK, TokenInv, ThreadInv, TriggerInv, TriggerAfterRead,
         ClearToken, allButDpc, deviceVars, tokenVars, trigVars, switchVars, historyVars
<1>6. CASE Reinit
  BY <1>0, <1>6 DEF Reinit, TypeOK, TokenInv, ThreadInv, TriggerInv, TriggerAfterRead,
         ClearToken, allButDpc, deviceVars, tokenVars, trigVars, switchVars, historyVars
<1>7. CASE ReadGets
  BY <1>0, <1>7 DEF ReadGets, TypeOK, TokenInv, ThreadInv, TriggerInv, TriggerAfterRead,
         ClearToken, allButDpc, deviceVars, tokenVars, trigVars, switchVars, historyVars
<1>8. CASE ReadFails
  BY <1>0, <1>8 DEF ReadFails, TypeOK, TokenInv, ThreadInv, TriggerInv, TriggerAfterRead,
         ClearToken, allButDpc, deviceVars, tokenVars, trigVars, switchVars, historyVars
<1>9. CASE ReadFills
  BY <1>0, <1>9 DEF ReadFills, TypeOK, TokenInv, ThreadInv, TriggerInv, TriggerAfterRead,
         ClearToken, allButDpc, deviceVars, tokenVars, trigVars, switchVars, historyVars
<1>10. CASE \E n \in 1..MaxMeas : WaitIo(n)
  BY <1>0, <1>10 DEF WaitIo, TypeOK, TokenInv, ThreadInv, TriggerInv, TriggerAfterRead,
         ClearToken, allButDpc, deviceVars, tokenVars, trigVars, switchVars, historyVars
<1>11. CASE \E n \in 1..MaxMeas : Trigger(n)
  BY <1>0, <1>11 DEF Trigger, TypeOK, TokenInv, ThreadInv, TriggerInv, TriggerAfterRead,
         ClearToken, allButDpc, deviceVars, tokenVars, trigVars, switchVars, historyVars
<1>12. CASE UNCHANGED vars
  BY <1>0, <1>12 DEF vars, TypeOK, TokenInv, ThreadInv, TriggerInv, TriggerAfterRead,
         ClearToken, allButDpc, deviceVars, tokenVars, trigVars, switchVars, historyVars
<1> QED
  BY <1>1, <1>2, <1>3, <1>4, <1>5, <1>6, <1>7, <1>8, <1>9, <1>10, <1>11, <1>12 DEF Next,
     MeasureStep, DeleteStep, TriggerStep, SwitchStep

(* Every step keeps the readings with the read they belong to, or has the  *)
(* instrument keep readings that no read was waiting for.                  *)
LEMMA ReadingStep ==
    ASSUME TypeOK, ThreadInv, ReadingInv, [Next]_vars
    PROVE  ReadingInv'
<1>0. MaxMeas \in Nat
  BY MaxMeasAssumption
<1>1. CASE Measure \/ Delete \/ SetParamsFails \/ CreateFails \/ ReadRefused \/ Done \/
         Linger \/ Terminate \/ JoinSwitch \/ Uninit \/ LingerEnds
  BY <1>0, <1>1 DEF Goes, Measure, Delete, SetParamsFails, CreateFails, ReadRefused, Done,
         Linger, Terminate, JoinSwitch, Uninit, LingerEnds, TypeOK, ThreadInv, ReadingInv,
         OwnReading, ClearToken, Unread, allButDpc, deviceVars, tokenVars, trigVars,
         switchVars, historyVars
<1>2. CASE SetTerm \/ CancelSwitch \/ SwitchReads \/ SwitchReadEnds \/ SwitchTests \/
         SwitchExits
  BY <1>0, <1>2 DEF SetTerm, CancelSwitch, SwitchReads, SwitchReadEnds, SwitchTests,
         SwitchExits, TypeOK, ThreadInv, ReadingInv, OwnReading, ClearToken, Unread,
         allButDpc, deviceVars, tokenVars, trigVars, switchVars, historyVars
<1>3. CASE SetParams \/ Reinit \/ JoinTrigger \/ CreateTrigger \/ Abandoned \/
         JoinLastTrigger \/ ReaperDies
  BY <1>0, <1>3 DEF SetParams, Reinit, JoinTrigger, CreateTrigger, Abandoned,
         JoinLastTrigger, ReaperDies, TypeOK, ThreadInv, ReadingInv, OwnReading,
         ClearToken, Unread, allButDpc, deviceVars, tokenVars, trigVars, switchVars,
         historyVars
<1>4. CASE ReadStarts
  BY <1>0, <1>4 DEF ReadStarts, TypeOK, ThreadInv, ReadingInv, OwnReading, ClearToken,
         Unread, allButDpc, deviceVars, tokenVars, trigVars, switchVars, historyVars
<1>5. CASE SetToken
  BY <1>0, <1>5 DEF SetToken, TypeOK, ThreadInv, ReadingInv, OwnReading, ClearToken, Unread,
         allButDpc, deviceVars, tokenVars, trigVars, switchVars, historyVars
<1>6. CASE ReadGets
  BY <1>0, <1>6 DEF ReadGets, TypeOK, ThreadInv, ReadingInv, OwnReading, ClearToken, Unread,
         allButDpc, deviceVars, tokenVars, trigVars, switchVars, historyVars
<1>7. CASE ReadFails
  BY <1>0, <1>7 DEF ReadFails, TypeOK, ThreadInv, ReadingInv, OwnReading, ClearToken,
         Unread, allButDpc, deviceVars, tokenVars, trigVars, switchVars, historyVars
<1>8. CASE ReadFills
  BY <1>0, <1>8 DEF ReadFills, TypeOK, ThreadInv, ReadingInv, OwnReading, ClearToken,
         Unread, allButDpc, deviceVars, tokenVars, trigVars, switchVars, historyVars
<1>9. CASE Soak
  BY <1>0, <1>9 DEF Soak, TypeOK, ThreadInv, ReadingInv, OwnReading, ClearToken, Unread,
         allButDpc, deviceVars, tokenVars, trigVars, switchVars, historyVars
<1>10. CASE \E n \in 1..MaxMeas : WaitIo(n)
  BY <1>0, <1>10 DEF WaitIo, TypeOK, ThreadInv, ReadingInv, OwnReading, ClearToken, Unread,
         allButDpc, deviceVars, tokenVars, trigVars, switchVars, historyVars
<1>11. CASE \E n \in 1..MaxMeas : Trigger(n)
  BY <1>0, <1>11 DEF Trigger, TypeOK, ThreadInv, ReadingInv, OwnReading, ClearToken, Unread,
         allButDpc, deviceVars, tokenVars, trigVars, switchVars, historyVars
<1>12. CASE UNCHANGED vars
  BY <1>0, <1>12 DEF vars, TypeOK, ThreadInv, ReadingInv, OwnReading, ClearToken, Unread,
         allButDpc, deviceVars, tokenVars, trigVars, switchVars, historyVars
<1> QED
  BY <1>1, <1>2, <1>3, <1>4, <1>5, <1>6, <1>7, <1>8, <1>9, <1>10, <1>11, <1>12 DEF Next,
     MeasureStep, DeleteStep, TriggerStep, SwitchStep

(* Every step keeps the freeing of the driver behind both joins.           *)
LEMMA JoinStep ==
    ASSUME TypeOK, JoinInv, [Next]_vars
    PROVE  JoinInv'
<1>0. MaxMeas \in Nat
  BY MaxMeasAssumption
<1>1. CASE Measure \/ Delete \/ SetParamsFails \/ CreateFails \/ ReadRefused \/ Done \/
         Linger \/ Terminate \/ LingerEnds
  BY <1>0, <1>1 DEF Goes, Measure, Delete, SetParamsFails, CreateFails, ReadRefused, Done,
         Linger, Terminate, LingerEnds, TypeOK, JoinInv, allButDpc, deviceVars, tokenVars,
         trigVars, switchVars, historyVars
<1>2. CASE SetTerm \/ CancelSwitch \/ SwitchReadEnds \/ SwitchExits
  BY <1>0, <1>2 DEF SetTerm, CancelSwitch, SwitchReadEnds, SwitchExits, TypeOK, JoinInv,
         allButDpc, deviceVars, tokenVars, trigVars, switchVars, historyVars
<1>3. CASE SetParams \/ Reinit \/ JoinTrigger \/ CreateTrigger \/ ReadStarts \/ Abandoned
         \/ SetToken \/ ReadGets \/ ReadFails \/ ReadFills \/ Soak \/ ReaperDies
  BY <1>0, <1>3 DEF SetParams, Reinit, JoinTrigger, CreateTrigger, ReadStarts, Abandoned,
         SetToken, ReadGets, ReadFails, ReadFills, Soak, ReaperDies, TypeOK, JoinInv,
         allButDpc, deviceVars, tokenVars, trigVars, switchVars, historyVars
<1>4. CASE Uninit
  BY <1>0, <1>4 DEF Goes, Uninit, TypeOK, JoinInv, allButDpc, deviceVars, tokenVars,
         trigVars, switchVars, historyVars
<1>5. CASE JoinLastTrigger
  BY <1>0, <1>5 DEF JoinLastTrigger, TypeOK, JoinInv, allButDpc, deviceVars, tokenVars,
         trigVars, switchVars, historyVars
<1>6. CASE JoinSwitch
  BY <1>0, <1>6 DEF Goes, JoinSwitch, TypeOK, JoinInv, allButDpc, deviceVars, tokenVars,
         trigVars, switchVars, historyVars
<1>7. CASE SwitchReads
  BY <1>0, <1>7 DEF SwitchReads, TypeOK, JoinInv, allButDpc, deviceVars, tokenVars,
         trigVars, switchVars, historyVars
<1>8. CASE SwitchTests
  BY <1>0, <1>8 DEF SwitchTests, TypeOK, JoinInv, allButDpc, deviceVars, tokenVars,
         trigVars, switchVars, historyVars
<1>9. CASE \E n \in 1..MaxMeas : WaitIo(n)
  BY <1>0, <1>9 DEF WaitIo, TypeOK, JoinInv, allButDpc, deviceVars, tokenVars, trigVars,
         switchVars, historyVars
<1>10. CASE \E n \in 1..MaxMeas : Trigger(n)
  BY <1>0, <1>10 DEF Trigger, TypeOK, JoinInv, allButDpc, deviceVars, tokenVars, trigVars,
         switchVars, historyVars
<1>11. CASE UNCHANGED vars
  BY <1>0, <1>11 DEF vars, TypeOK, JoinInv, allButDpc, deviceVars, tokenVars, trigVars,
         switchVars, historyVars
<1> QED
  BY <1>1, <1>2, <1>3, <1>4, <1>5, <1>6, <1>7, <1>8, <1>9, <1>10, <1>11 DEF Next,
     MeasureStep, DeleteStep, TriggerStep, SwitchStep

(* The session starts in the invariant: the token free, no thread, no readings. *)
LEMMA InitInv == Init => IInv
<1> SUFFICES ASSUME Init PROVE IInv
  OBVIOUS
<1>0. MaxMeas \in Nat
  BY MaxMeasAssumption
<1>1. TypeOK
  <2>1. dpc \in DpcValues
    BY DEF Init, DpcValues
  <2>2. trig \in [1..MaxMeas -> {"none", "wait", "send", "exited"}]
    BY DEF Init
  <2>3. /\ dtype \in Kinds /\ running \in BOOLEAN /\ pending \in BOOLEAN
        /\ condx \in BOOLEAN /\ hcancel \in BOOLEAN /\ cancelled \in BOOLEAN
        /\ th_term \in BOOLEAN /\ th_termed \in BOOLEAN
        /\ left \in BOOLEAN /\ kept \in BOOLEAN /\ missed \in BOOLEAN
    BY DEF Init
  <2>4. /\ state = 0 /\ answer = 0 /\ meas = 0 /\ got = 0 /\ begun = 0 /\ trig_thread = 0
        /\ dpc = "idle" /\ swpc = "start"
    BY DEF Init
  <2> QED
    BY <1>0, <2>1, <2>2, <2>3, <2>4 DEF TypeOK
<1>2. TokenInv /\ ThreadInv /\ TriggerInv
  BY <1>0 DEF Init, TokenInv, TokenBalanced, ThreadInv, TriggerInv, TriggerAfterRead
<1>3. ReadingInv /\ JoinInv
  BY <1>0 DEF Init, ReadingInv, OwnReading, JoinInv
<1> QED
  BY <1>1, <1>2, <1>3 DEF IInv

(* Every step of the driver, its threads and the port keeps the invariant. *)
LEMMA StepInv == IInv /\ [Next]_vars => IInv'
<1> SUFFICES ASSUME IInv, [Next]_vars PROVE IInv'
  OBVIOUS
<1>1. TypeOK /\ TokenInv /\ ThreadInv /\ TriggerInv /\ ReadingInv /\ JoinInv
  BY DEF IInv
<1>2. TypeOK'
  BY <1>1, TypeStep
<1>3. TokenInv'
  BY <1>1, TokenStep
<1>4. ThreadInv'
  BY <1>1, ThreadStep
<1>5. TriggerInv'
  BY <1>1, TriggerStepInv
<1>6. ReadingInv'
  BY <1>1, ReadingStep
<1>7. JoinInv'
  BY <1>1, JoinStep
<1> QED
  BY <1>2, <1>3, <1>4, <1>5, <1>6, <1>7 DEF IInv

(* The inductive invariant holds in every state of every session. *)
LEMMA InstInvariant == Spec => []IInv
<1> QED
  BY InitInv, StepInv, PTL DEF Spec

(* The driver's and its threads' variables keep their types: in particular *)
(* a join is only reached with a thread to join.                           *)
THEOREM InstTypeCorrect == Spec => []TypeOK
<1>1. IInv => TypeOK
  BY DEF IInv
<1> QED
  BY <1>1, InstInvariant, PTL

(* usb_reinit_cancel and the transactions balance for any number of        *)
(* measurements, until one returns between its reinit and its read.        *)
THEOREM InstTokenBalanced == Spec => []TokenBalanced
<1>1. IInv => TokenBalanced
  BY DEF IInv, TokenInv
<1> QED
  BY <1>1, InstInvariant, PTL

(* The instrument is never told to measure before the read that collects   *)
(* the readings has been started, in any measurement of a session.         *)
THEOREM InstTriggerAfterRead == Spec => []TriggerAfterRead
<1>1. IInv => TriggerAfterRead
  BY DEF IInv, TriggerInv
<1> QED
  BY <1>1, InstInvariant, PTL

(* A measurement that succeeds returns the readings of its own trigger, if *)
(* the instrument keeps none that no read was waiting for.                 *)
THEOREM InstOwnReading == Spec => []OwnReading
<1>1. IInv => OwnReading
  BY DEF IInv, ReadingInv
<1> QED
  BY <1>1, InstInvariant, PTL

(* i1pro_del frees the driver only when the switch thread and every        *)
(* trigger thread have ended.                                              *)
THEOREM InstThreadsJoined == Spec => []ThreadsJoined
<1>1. ASSUME IInv PROVE ThreadsJoined
  <2>1. SUFFICES ASSUME dpc = "freed"
                 PROVE  swpc = "exited" /\ \A n \in 1..MaxMeas : trig[n] \notin {"wait", "send"}
    BY DEF ThreadsJoined
  <2>2. swpc = "exited" /\ trig_thread = 0
    BY <1>1, <2>1 DEF IInv, JoinInv
  <2>3. \A n \in 1..MaxMeas : trig[n] \in {"wait", "send"} => n = 0
    BY <1>1, <2>2 DEF IInv, ThreadInv
  <2> QED
    BY <2>2, <2>3, MaxMeasAssumption
<1> QED
  BY <1>1, InstInvariant, PTL
=============================================================================
