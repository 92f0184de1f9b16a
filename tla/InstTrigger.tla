---------------------------- MODULE InstTrigger ----------------------------
(***************************************************************************)
(* The threads of the i1 Pro driver (src/spectro/i1pro_imp.c) and the      *)
(* cancel tokens (src/spectro/usbio.c) they meet at.                       *)
(*                                                                         *)
(* A measurement sets its parameters, locks condx of the token rd_sync,    *)
(* joins the trigger thread of the measurement before, creates one of its  *)
(* own and reads.  The trigger thread waits for condx, which the read's    *)
(* transaction unlocks once its request is with the kernel, and then tells *)
(* the instrument to measure: the instrument must find the read waiting.   *)
(* Meanwhile the switch thread reads the instrument's switch, for minutes  *)
(* at a time, with the token sw_cancel.  When the driver is deleted it     *)
(* says so in th_term, cancels that read, gives the thread a quarter of a  *)
(* second and joins it, then destroys the tokens and joins the trigger     *)
(* thread.                                                                 *)
(*                                                                         *)
(* A transaction is what UsbTransfer models in detail: here it is started, *)
(* given its token, and ended.  A measurement is known by its number; the  *)
(* readings, the kinds of error and the waiting for the user are left out. *)
(***************************************************************************)
EXTENDS Naturals

CONSTANTS
    MaxMeas,          \* measurements in a session
    Kinds,            \* instruments: "D" (i1 Pro) and "E" (i1 Pro 2)
    Faults            \* which of "thread", "reaper" happen

ASSUME MaxMeasAssumption == MaxMeas \in Nat
ASSUME KindsAssumption   == Kinds \subseteq {"D", "E"}
ASSUME FaultsAssumption  == Faults \subseteq {"thread", "reaper"}

VARIABLES
    dtype,      \* the instrument
    running,    \* the reaper thread of the port runs
    pending,    \* the measurement's read is with the kernel
    answer,     \* whose trigger the readings the instrument has come from, 0: none
    condx,      \* rd_sync.condx is locked
    state,      \* rd_sync.state: 0 = init, 1 = pending, 2 = complete
    dpc,        \* the caller of the driver
    meas,       \* number of the current measurement
    got,        \* whose trigger the readings returned come from
    trig,       \* the trigger thread of each measurement
    trig_thread, \* the measurement whose thread the driver holds, 0 = NULL
    swpc,       \* the switch thread
    hcancel,    \* sw_cancel.hcancel is set: the switch read can be cancelled
    cancelled,  \* the switch read has been cancelled
    th_term, th_termed,
    \* history
    begun,      \* the last measurement whose read was started
    left,       \* a measurement returned after its reinit and before its read
    kept,       \* the instrument has kept readings that no read was waiting for
    missed      \* the switch read was cancelled just before it was started

tokenVars  == <<condx, state>>
deviceVars == <<dtype, running>>
trigVars   == <<trig, trig_thread>>
switchVars == <<swpc, hcancel, cancelled, th_term, th_termed, missed>>
historyVars == <<begun, left, kept>>
allButDpc == <<deviceVars, pending, answer, tokenVars, meas, got, trigVars, switchVars,
               historyVars>>
vars == <<dpc, allButDpc>>

\* "freed" and "crashed" are the ends of the driver
MeasureAt == {"params", "reinit", "join", "create", "read", "token", "reading", "soak",
              "done", "abandoned"}
DeleteAt  == {"term", "cancel", "linger", "force", "jointh", "uninit", "jointrig"}
DpcValues == {"idle", "freed", "crashed"} \cup MeasureAt \cup DeleteAt

\* The methods new_athread_reusable gives a thread on UNIX
Methods == {"start", "wait_stop", "wait", "del"}

Goes(from, to) == dpc = from /\ dpc' = to /\ UNCHANGED allButDpc

Init ==
    /\ dtype \in Kinds /\ running = TRUE /\ pending = FALSE /\ answer = 0
    /\ condx = FALSE /\ state = 0
    /\ dpc = "idle" /\ meas = 0 /\ got = 0
    /\ trig = [n \in 1..MaxMeas |-> "none"] /\ trig_thread = 0
    /\ swpc = "start" /\ hcancel = FALSE /\ cancelled = FALSE
    /\ th_term = FALSE /\ th_termed = FALSE
    /\ begun = 0 /\ left = FALSE /\ kept = FALSE /\ missed = FALSE

-----------------------------------------------------------------------------
(* A measurement: i1pro_trigger_one_measure, then i1pro_readmeasurement.   *)

Measure == meas < MaxMeas /\ Goes("idle", "params")

(* i1pro_setmeasparams; the i1 Pro 2 is given the parameters by its trigger. *)
SetParams ==
    /\ dpc = "params" /\ (dtype = "D" => running)
    /\ meas' = meas + 1 /\ dpc' = "reinit"
    /\ UNCHANGED <<deviceVars, pending, answer, tokenVars, got, trigVars, switchVars,
                   historyVars>>

(* An error before the token is touched: the command failed, or a value out of range. *)
SetParamsFails == Goes("params", "idle")

(* usb_reinit_cancel: the lock is not obtained while condx is locked, be    *)
(* it by an earlier reinit of this same thread.                             *)
Reinit ==
    /\ dpc = "reinit" /\ ~condx
    /\ condx' = TRUE /\ state' = 0
    /\ dpc' = IF trig_thread = 0 THEN "create" ELSE "join"
    /\ UNCHANGED <<deviceVars, pending, answer, meas, got, trigVars, switchVars, historyVars>>

(* The thread of the last measurement is deleted, which joins it. *)
Bug_NoJoin ==
    /\ dpc = "join"
    /\ trig_thread' = 0 /\ dpc' = "create"
    /\ UNCHANGED <<deviceVars, pending, answer, tokenVars, meas, got, trig, switchVars,
                   historyVars>>
JoinTrigger ==
    /\ dpc = "join" /\ trig[trig_thread] = "exited"
    /\ trig_thread' = 0 /\ dpc' = "create"
    /\ UNCHANGED <<deviceVars, pending, answer, tokenVars, meas, got, trig, switchVars,
                   historyVars>>

CreateTrigger ==
    /\ dpc = "create"
    /\ trig' = [trig EXCEPT ![meas] = "wait"] /\ trig_thread' = meas /\ dpc' = "read"
    /\ UNCHANGED <<deviceVars, pending, answer, tokenVars, meas, got, switchVars, historyVars>>

CreateFails == "thread" \in Faults /\ Goes("create", "abandoned")

(* usb_read with rd_sync, up to the submission of its request. *)
ReadStarts ==
    /\ dpc = "read" /\ running
    /\ pending' \in BOOLEAN                       \* the submission may fail
    /\ dpc' = "token"
    /\ UNCHANGED <<deviceVars, answer, tokenVars, meas, got, trigVars, switchVars, historyVars>>

ReadRefused == ~running /\ Goes("read", "abandoned")

(* The measurement returns its error with condx still locked. *)
Abandoned ==
    /\ dpc = "abandoned"
    /\ left' = TRUE /\ dpc' = "idle"
    /\ UNCHANGED <<deviceVars, pending, answer, tokenVars, meas, got, trigVars, switchVars,
                   begun, kept>>

(* The transaction has started: whoever waits for condx may go on. *)
Bug_UnlockAtEnd ==
    /\ dpc = "token"
    /\ state' = 1 /\ begun' = meas /\ dpc' = "reading"
    /\ UNCHANGED <<deviceVars, pending, answer, condx, meas, got, trigVars, switchVars, left,
                   kept>>
SetToken ==
    /\ dpc = "token"
    /\ condx' = FALSE /\ state' = 1 /\ begun' = meas /\ dpc' = "reading"
    /\ UNCHANGED <<deviceVars, pending, answer, meas, got, trigVars, switchVars, left, kept>>

(* The end of the transaction for the token. *)
ClearToken ==
    /\ condx' = (condx /\ state # 0) /\ state' = 2
    /\ pending' = FALSE

(* The readings asked for: all of them, or for a scan a short read. *)
ReadGets ==
    /\ dpc = "reading" /\ pending /\ answer # 0
    /\ ClearToken
    /\ got' = answer /\ answer' = 0 /\ dpc' = "done"
    /\ UNCHANGED <<deviceVars, meas, trigVars, switchVars, historyVars>>

(* Readings nobody waits for any longer are dropped by the instrument or kept. *)
Unread ==
    \/ answer' = 0 /\ UNCHANGED kept
    \/ UNCHANGED answer /\ kept' = (kept \/ answer # 0)

(* Not submitted, failed, timed out, or the wrong number of readings. *)
ReadFails ==
    /\ dpc = "reading"
    /\ ClearToken /\ Unread
    /\ dpc' = "idle"
    /\ UNCHANGED <<deviceVars, meas, got, trigVars, switchVars, begun, left>>

(* A scan that fills the buffer: what there is more is read without a      *)
(* token and thrown away.                                                  *)
ReadFills ==
    /\ dpc = "reading" /\ pending /\ answer # 0
    /\ ClearToken
    /\ dpc' = "soak"
    /\ UNCHANGED <<deviceVars, answer, meas, got, trigVars, switchVars, historyVars>>

Soak ==
    /\ dpc = "soak"
    /\ answer' = 0 /\ dpc' = "idle"
    /\ UNCHANGED <<deviceVars, pending, tokenVars, meas, got, trigVars, switchVars, historyVars>>

(* The measurement returns, or goes on with the next: a trial measurement  *)
(* and the real one, a dark reading and a calibration.                     *)
Done == Goes("done", "idle") \/ (meas < MaxMeas /\ Goes("done", "params"))

-----------------------------------------------------------------------------
(* The trigger thread: i1pro_delayed_trigger, i1pro2_delayed_trigger.      *)

(* usb_wait_io: condx is locked and unlocked again. *)
Bug_NoWait(n) ==
    /\ trig[n] = "wait"
    /\ trig' = [trig EXCEPT ![n] = "send"]
    /\ UNCHANGED <<deviceVars, pending, answer, tokenVars, dpc, meas, got, trig_thread,
                   switchVars, historyVars>>
WaitIo(n) ==
    /\ trig[n] = "wait" /\ ~condx
    /\ trig' = [trig EXCEPT ![n] = "send"]
    /\ UNCHANGED <<deviceVars, pending, answer, tokenVars, dpc, meas, got, trig_thread,
                   switchVars, historyVars>>

(* The instrument is told to measure, if it can be. *)
Trigger(n) ==
    /\ trig[n] = "send"
    /\ trig' = [trig EXCEPT ![n] = "exited"]
    /\ \/ UNCHANGED <<answer, kept>>
       \/ running /\ answer' = n /\ kept' = (kept \/ ~pending)
    /\ UNCHANGED <<deviceVars, pending, tokenVars, dpc, meas, got, trig_thread, switchVars,
                   begun, left>>

-----------------------------------------------------------------------------
(* The switch thread: i1pro_switch_thread over i1pro_waitfor_switch_th.    *)

(* usb_read with sw_cancel, up to the request's being in the token. *)
SwitchReads ==
    /\ swpc = "start"
    /\ IF running THEN swpc' = "reading" /\ hcancel' = TRUE
                  ELSE swpc' = "test" /\ UNCHANGED hcancel
    /\ UNCHANGED <<deviceVars, pending, answer, tokenVars, dpc, meas, got, trigVars, cancelled,
                   th_term, th_termed, missed, historyVars>>

SwitchReadEnds ==
    /\ swpc = "reading"
    /\ swpc' = "test" /\ hcancel' = FALSE /\ cancelled' = FALSE
    /\ UNCHANGED <<deviceVars, pending, answer, tokenVars, dpc, meas, got, trigVars, th_term,
                   th_termed, missed, historyVars>>

(* A read that was cancelled, or whose reaper died, ends; one that is not  *)
(* may time out after ten minutes, or the switch may be pressed.           *)
SwitchReadMustEnd == (cancelled \/ ~running) /\ SwitchReadEnds

SwitchTests ==
    /\ swpc = "test"
    /\ IF th_term THEN th_termed' = TRUE /\ swpc' = "ending"
                  ELSE UNCHANGED th_termed /\ swpc' = "start"
    /\ UNCHANGED <<deviceVars, pending, answer, tokenVars, dpc, meas, got, trigVars, hcancel,
                   cancelled, th_term, missed, historyVars>>

(* The thread has said that it ends; it still uses the driver's memory. *)
SwitchExits ==
    /\ swpc = "ending"
    /\ swpc' = "exited"
    /\ UNCHANGED <<deviceVars, pending, answer, tokenVars, dpc, meas, got, trigVars, hcancel,
                   cancelled, th_term, th_termed, missed, historyVars>>

-----------------------------------------------------------------------------
(* The driver is deleted: i1pro_del and i1pro_terminate_switch.            *)

Delete == Goes("idle", "term")

(* th_term, and a command that may or may not end the switch read. *)
SetTerm ==
    /\ dpc = "term"
    /\ th_term' = TRUE /\ dpc' = "cancel"
    /\ UNCHANGED <<deviceVars, pending, answer, tokenVars, meas, got, trigVars, swpc, hcancel,
                   cancelled, th_termed, missed, historyVars>>

Bug_InvertedTest ==
    /\ dpc = "cancel"
    /\ IF ~th_termed THEN UNCHANGED <<cancelled, missed>>
                     ELSE cancelled' = hcancel /\ missed' = (swpc = "start")
    /\ dpc' = "linger"
    /\ UNCHANGED <<deviceVars, pending, answer, tokenVars, meas, got, trigVars, swpc, hcancel,
                   th_term, th_termed, historyVars>>
CancelSwitch ==
    /\ dpc = "cancel"
    /\ IF th_termed THEN UNCHANGED <<cancelled, missed>>
                    ELSE cancelled' = hcancel /\ missed' = (swpc = "start")
    /\ dpc' = "linger"
    /\ UNCHANGED <<deviceVars, pending, answer, tokenVars, meas, got, trigVars, swpc, hcancel,
                   th_term, th_termed, historyVars>>

Linger == th_termed /\ Goes("linger", "jointh")

(* Five times 50 msec have passed; the flag is not read again after the    *)
(* last of them.                                                           *)
LingerEnds == Goes("linger", "force")

(* terminate is called: a method that is not there is a null pointer. *)
Terminate == Goes("force", IF "terminate" \in Methods THEN "jointh" ELSE "crashed")

Bug_NoJoinSwitch == Goes("jointh", "uninit")
JoinSwitch == swpc = "exited" /\ Goes("jointh", "uninit")

(* Both tokens are destroyed before the trigger thread is joined. *)
Bug_NullNotTested == Goes("uninit", "jointrig")
Uninit == Goes("uninit", IF trig_thread = 0 THEN "freed" ELSE "jointrig")

JoinLastTrigger ==
    /\ dpc = "jointrig" /\ trig[trig_thread] = "exited"
    /\ trig_thread' = 0 /\ dpc' = "freed"
    /\ UNCHANGED <<deviceVars, pending, answer, tokenVars, meas, got, trig, switchVars,
                   historyVars>>

-----------------------------------------------------------------------------
(* The reaper of the port gives up: the device was unplugged, or fails.    *)
ReaperDies ==
    /\ running /\ "reaper" \in Faults
    /\ running' = FALSE
    /\ UNCHANGED <<dtype, pending, answer, tokenVars, dpc, meas, got, trigVars, switchVars,
                   historyVars>>

MeasureStep ==
    \/ SetParams \/ SetParamsFails \/ Reinit \/ JoinTrigger \/ CreateTrigger \/ CreateFails
    \/ ReadStarts \/ ReadRefused \/ Abandoned \/ SetToken \/ ReadGets \/ ReadFails
    \/ ReadFills \/ Soak \/ Done
DeleteStep ==
    \/ SetTerm \/ CancelSwitch \/ Linger \/ Terminate \/ JoinSwitch \/ Uninit
    \/ JoinLastTrigger
TriggerStep == \E n \in 1..MaxMeas : WaitIo(n) \/ Trigger(n)
SwitchStep  == SwitchReads \/ SwitchReadEnds \/ SwitchTests \/ SwitchExits

Next ==
    \/ Measure \/ Delete \/ MeasureStep \/ DeleteStep \/ LingerEnds \/ TriggerStep
    \/ SwitchStep \/ ReaperDies

Spec == Init /\ [][Next]_vars

(* Every thread that can run does; a measurement's read ends at its time   *)
(* out at the latest, a switch read is only sure to end when cancelled or  *)
(* without a reaper.  The driver's patience in Linger need not run out.     *)
FairSpec ==
    /\ Spec
    /\ WF_vars(MeasureStep) /\ WF_vars(DeleteStep)
    /\ \A n \in 1..MaxMeas : WF_vars(WaitIo(n) \/ Trigger(n))
    /\ WF_vars(SwitchReads) /\ WF_vars(SwitchTests) /\ WF_vars(SwitchExits)
    /\ WF_vars(SwitchReadMustEnd)

-----------------------------------------------------------------------------
(* Properties.                                                             *)

TypeOK ==
    /\ dtype \in Kinds /\ running \in BOOLEAN /\ pending \in BOOLEAN
    /\ condx \in BOOLEAN /\ state \in 0..2 /\ hcancel \in BOOLEAN /\ cancelled \in BOOLEAN
    /\ th_term \in BOOLEAN /\ th_termed \in BOOLEAN
    /\ left \in BOOLEAN /\ kept \in BOOLEAN /\ missed \in BOOLEAN
    /\ answer \in 0..MaxMeas /\ meas \in 0..MaxMeas /\ got \in 0..MaxMeas
    /\ begun \in 0..MaxMeas /\ trig_thread \in 0..MaxMeas
    /\ dpc \in DpcValues
    /\ dpc = "params" => meas < MaxMeas
    /\ dpc \in {"reinit", "join", "create", "read", "token", "reading"} => meas > 0
    /\ dpc \in {"join", "jointrig"} => trig_thread > 0
    /\ trig \in [1..MaxMeas -> {"none", "wait", "send", "exited"}]
    /\ swpc \in {"start", "reading", "test", "ending", "exited"}

(* usb_reinit_cancel and the transactions balance (usbio.h:203): whenever  *)
(* condx is locked, the measurement is between its reinit and the start of *)
(* its read, unless one has returned early from between the two.           *)
TokenBalanced ==
    condx => left \/ dpc \in {"join", "create", "read", "token", "abandoned"}

(* The instrument is never told to measure before the read that collects   *)
(* the readings has been started, which is what the thread and the token   *)
(* are for, whatever fails in this and in earlier measurements.            *)
TriggerAfterRead ==
    \A n \in 1..MaxMeas : trig[n] \in {"send", "exited"} => n <= begun

(* A measurement that succeeds returns the readings of its own trigger,    *)
(* also after ones that failed with their trigger still on its way, unless *)
(* the instrument keeps readings that no read was waiting for.             *)
OwnReading == dpc = "done" => got = meas \/ kept

(* When the driver's memory is freed none of its threads is still running: *)
(* they use that memory.                                                   *)
ThreadsJoined ==
    dpc = "freed" =>
        /\ swpc = "exited"
        /\ \A n \in 1..MaxMeas : trig[n] \notin {"wait", "send"}

(* The next measurement has locked condx while the trigger thread of the   *)
(* last one, whose read failed, has not passed its wait: the thread waits  *)
(* for a read that its join holds up.                                      *)
Overtaken == dpc = "join" /\ trig[trig_thread] = "wait"

(* A measurement ends, with readings or an error, unless one has returned  *)
(* with condx locked or has been overtaken by the next.                    *)
MeasureEnds ==
    [](~left /\ ~Overtaken) => (dpc = "params" ~> dpc = "idle")

(* i1pro_del ends, the switch thread by the cancel alone and not its time  *)
(* out, unless the cancel came just before the read, or the thread took    *)
(* longer than the driver waits for it.                                    *)
DeleteEnds ==
    [](~left /\ ~missed /\ dpc # "force") => (dpc = "term" ~> dpc = "freed")

=============================================================================
