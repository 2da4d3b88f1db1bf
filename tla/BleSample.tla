------------------------------- MODULE BleSample -------------------------------
(***************************************************************************)
(* The BLE sample, ble_demo/b91_gatt_sample: the initialisation in         *)
(* ble_sample_main.c and app.c, the task and the interrupt handlers that   *)
(* meet at a semaphore, and the callbacks of uni_ble.c that drive the LED. *)
(*                                                                         *)
(* The SDK is external: its interrupt handler turns what the radio or the  *)
(* timer reports into work and gives the semaphore through the registered  *)
(* callback; its main loop handles the work it finds.  A handler runs to   *)
(* its end; the tasks are interrupted between any two steps, except in the *)
(* sections they run with interrupts masked.                               *)
(***************************************************************************)
EXTENDS Naturals, Sequences

CONSTANTS
  Builds,             \* {"SINGLE", "MULTI"}: the SDKs it is built with
  SLAVE_MAX_NUM,      \* connections at a time of the MULTI build
  BLE_TASK_SEM_TIME,  \* the largest value of the semaphore (50)
  StepsMayFail,       \* can a call of the initialisation fail?
  MaxEvents           \* bound on the link events

ASSUME BuildAssumption == Builds \subseteq {"SINGLE", "MULTI"} /\ StepsMayFail \in BOOLEAN
ASSUME SizeAssumption ==
  /\ SLAVE_MAX_NUM \in Nat \ {0} /\ BLE_TASK_SEM_TIME \in Nat \ {0} /\ MaxEvents \in Nat

VARIABLES
  build,      \* which of the two this is
  step,       \* number of the initialisation step to come
  halted,     \* has an assert failed?
  failed,     \* the calls that failed and were passed over
  pc,         \* BleTask: "none", "start", "main", "pend" or "blocked"
  sem,        \* proto_task_semaphore
  work,       \* what the SDK has to handle, oldest first
  conn,       \* connections that are up
  events,     \* number of link events so far
  led,        \* LED_WHITE_HDF
  missed,     \* history: was anything handled before its receiver was there?
  timer,      \* the system timer: "off", "armed", "pending", or "passed"
  trigPast,   \* FLD_SYSTEM_TRIG_PAST_EN in reg_system_irq_mask
  masked      \* does a task hold the interrupts locked?

bootVars  == <<build, step, halted, failed>>
taskVars  == <<pc, sem>>
linkVars  == <<conn, events>>
appVars   == <<led, missed>>
timerVars == <<timer, trigPast, masked>>
vars      == <<bootVars, taskVars, work, linkVars, appVars, timerVars>>

Runs == ~halted /\ ~masked
Waiting == {work[k] : k \in 1..Len(work)}

-----------------------------------------------------------------------------
(* The initialisation, call by call. *)

MULTI == build = "MULTI"
MaxConnections == IF MULTI THEN SLAVE_MAX_NUM ELSE 1

AppBleAdvInit == <<"setAdvParam", "setAdvData", "setScanRspData", "setAdvEnable">>

AppBleConnInit ==
  <<"initAclConnTxFifo", "initAclConnRxFifo", "checkBuffers">>
  \o (IF MULTI THEN <<"setMaxConnectionNumber">> ELSE <<>>)
  \o <<"uni_ble_init">>
  \o (IF MULTI THEN <<"initMtuBuffer">> ELSE <<>>)
  \o <<"AppBleGattInit", "registerDataHandler", "ledOut", "registerCallbacks", "initPm">>

AppBleInit ==
  <<"initMac", "setPower", "initMCU", "initStandby", "initAdvertising",
    "initConnection", "initSlaveRole">> \o AppBleAdvInit \o AppBleConnInit

(* Mutant: the task and the interrupts start before the stack is there. *)
TaskFirst ==
  <<"initRf", "loadParameters", "initRandom", "semCreate", "giveSemCb", "taskCreate",
    "rfIrq", "stimerIrq">> \o AppBleInit
BleSampleInit ==
  <<"initRf", "loadParameters", "initRandom">> \o AppBleInit
  \o <<"semCreate", "giveSemCb", "taskCreate", "rfIrq", "stimerIrq">>

(* The calls whose status is returned to an assert. *)
Asserted ==
  {"setAdvParam", "setAdvData", "setScanRspData", "setAdvEnable", "initAclConnTxFifo",
   "initAclConnRxFifo", "checkBuffers", "setMaxConnectionNumber"}

(* The calls whose failure is ignored, or logged and then ignored. *)
Unchecked == {"semCreate", "taskCreate", "rfIrq", "stimerIrq"}

Done ==
  LET calls == BleSampleInit IN {calls[k] : k \in 1..(step - 1)} \ failed

Init ==
  /\ build \in Builds
  /\ step = 1 /\ halted = FALSE /\ failed = {} /\ pc = "none" /\ sem = 0
  /\ work = <<>> /\ conn = 0 /\ events = 0 /\ led = FALSE /\ missed = FALSE
  /\ timer = "off" /\ trigPast = FALSE /\ masked = FALSE

(* The next call succeeds. *)
InitStep ==
  /\ Runs /\ step <= Len(BleSampleInit)
  /\ step' = step + 1
  /\ pc' = IF BleSampleInit[step] = "taskCreate" THEN "start" ELSE pc
  /\ UNCHANGED <<build, halted, failed, sem, work, linkVars, appVars, timerVars>>

(* It fails: an assert stops the program, or the next call is made. *)
InitStepFails ==
  /\ Runs /\ step <= Len(BleSampleInit) /\ StepsMayFail
  /\ LET call == BleSampleInit[step]
     IN  \/ call \in Asserted /\ halted' = TRUE /\ UNCHANGED <<step, failed>>
         \/ /\ call \in Unchecked /\ failed' = failed \cup {call}
            /\ step' = step + 1 /\ UNCHANGED halted
  /\ UNCHANGED <<build, taskVars, work, linkVars, appVars, timerVars>>

-----------------------------------------------------------------------------
(* The interrupts.                                                         *)

(* os_give_sem_cb: LOS_SemPost wakes the task that pends, or counts up to  *)
(* the limit, beyond which it fails unnoticed.  Mutants: nothing is        *)
(* counted while no task pends; there is no limit.                         *)
Counted == sem' = IF sem < BLE_TASK_SEM_TIME THEN sem + 1 ELSE sem
PostToWaiter ==
  IF pc = "blocked" THEN pc' = "main" /\ UNCHANGED sem ELSE UNCHANGED taskVars
PostUnlimited ==
  IF pc = "blocked" THEN pc' = "main" /\ UNCHANGED sem ELSE sem' = sem + 1 /\ UNCHANGED pc
os_give_sem_cb ==
  IF pc = "blocked" THEN pc' = "main" /\ UNCHANGED sem ELSE Counted /\ UNCHANGED pc

(* The handle of a semaphore that was not created is 0: what a post to it  *)
(* does, or a pend on it, is up to the kernel and to whose semaphore that  *)
(* is.                                                                     *)
PostElsewhere == UNCHANGED sem /\ (UNCHANGED pc \/ (pc = "blocked" /\ pc' = "main"))

GiveSem ==
  \/ "giveSemCb" \notin Done /\ UNCHANGED taskVars
  \/ "giveSemCb" \in Done /\ "semCreate" \in failed /\ PostElsewhere
  \/ "giveSemCb" \in Done /\ "semCreate" \notin failed /\ os_give_sem_cb

(* The work without the request in it; there is one at most. *)
Unasked ==
  LET asked == {k \in 1..Len(work) : work[k] = "request"}
      k == CHOOSE j \in asked : TRUE
  IN  IF asked = {} THEN work
      ELSE SubSeq(work, 1, k - 1) \o SubSeq(work, k + 1, Len(work))

(* The link events: a central connects, a connection ends and what was     *)
(* asked over it is forgotten, or the controller reports something else.   *)
LinkEvent ==
  /\ events < MaxEvents /\ events' = events + 1
  /\ \/ conn < MaxConnections /\ conn' = conn + 1 /\ work' = Append(work, "connect")
     \/ /\ conn > 0 /\ conn' = conn - 1
        /\ work' = Append(IF conn > 1 THEN work ELSE Unasked, "disconnect")
     \/ MULTI /\ work' = Append(work, "otherMeta") /\ UNCHANGED conn

(* A request of a central, which waits for the answer before the next. *)
Request ==
  /\ conn > 0 /\ "request" \notin Waiting /\ work' = Append(work, "request")
  /\ UNCHANGED linkVars

RfIrqHandler ==
  /\ Runs /\ {"rfIrq", "setAdvEnable"} \subseteq Done
  /\ LinkEvent \/ Request
  /\ GiveSem
  /\ UNCHANGED <<bootVars, appVars, timerVars>>

(* The SDK sets the level register, from its main loop or a handler. *)
ArmTimer ==
  /\ Runs /\ "setAdvEnable" \in Done
  /\ timer = "off" /\ timer' = "armed"
  /\ UNCHANGED <<bootVars, taskVars, work, linkVars, appVars, trigPast, masked>>

(* The count reaches the level: an interrupt, unless they are masked. *)
TimerReaches ==
  /\ ~halted
  /\ timer = "armed" /\ timer' = IF masked THEN "passed" ELSE "pending"
  /\ UNCHANGED <<bootVars, taskVars, work, linkVars, appVars, trigPast, masked>>

(* What FLD_SYSTEM_TRIG_PAST_EN does: a level that has passed triggers. *)
Triggered == timer = "pending" \/ (timer = "passed" /\ trigPast)

(* StimerIrqHandler: the SDK has work for its main loop. *)
StimerIrqHandler ==
  /\ Runs /\ "stimerIrq" \in Done /\ Triggered
  /\ timer' = "off"
  /\ work' = IF "tick" \in Waiting THEN work ELSE Append(work, "tick")
  /\ GiveSem
  /\ UNCHANGED <<bootVars, linkVars, appVars, trigPast, masked>>

(* A section with interrupts masked, in any task; an interrupt that is     *)
(* pending is taken before it.                                             *)
Mask ==
  /\ Runs /\ ~("stimerIrq" \in Done /\ Triggered)
  /\ masked' = TRUE
  /\ UNCHANGED <<bootVars, taskVars, work, linkVars, appVars, timer, trigPast>>
Unmask ==
  /\ masked /\ masked' = FALSE
  /\ UNCHANGED <<bootVars, taskVars, work, linkVars, appVars, timer, trigPast>>

-----------------------------------------------------------------------------
(* The task.                                                               *)

(* BleTask up to its loop.  Mutant: the bit is not set. *)
StartWithoutBit ==
  /\ Runs /\ pc = "start" /\ pc' = "main"
  /\ UNCHANGED <<bootVars, sem, work, linkVars, appVars, timerVars>>
TaskStart ==
  /\ Runs /\ pc = "start" /\ pc' = "main"
  /\ trigPast' = TRUE
  /\ UNCHANGED <<bootVars, sem, work, linkVars, appVars, timer, masked>>

(* connect and disconnect of app.c, if they are registered. *)
SetLed(on) ==
  IF "registerCallbacks" \in Done THEN led' = on /\ UNCHANGED missed
                                  ELSE missed' = TRUE /\ UNCHANGED led

(* connect_cb and disconnect_cb. *)
EventCallback(e) == SetLed(e = "connect")

(* The same for the MULTI build, where every event of the controller comes *)
(* to one function.  Mutant: every LE meta event is taken for a connection. *)
AnyMetaConnects(e) == SetLed(e # "disconnect")
AppControllerEventCallback(e) ==
  IF e = "otherMeta" THEN UNCHANGED appVars ELSE SetLed(e = "connect")

(* What the SDK does with an item of work: an event goes to the callback,  *)
(* a request to the data handler and the table.                            *)
Handle(w) ==
  CASE w = "tick" -> UNCHANGED appVars
    [] w = "request" -> /\ missed' = (missed \/ ~({"AppBleGattInit", "registerDataHandler"}
                                                    \subseteq Done))
                        /\ UNCHANGED led
    [] OTHER -> IF MULTI THEN AppControllerEventCallback(w) ELSE EventCallback(w)

(* MainLoop handles an item, or finds none and returns. *)
MainLoop ==
  /\ Runs /\ pc = "main"
  /\ IF work # <<>>
     THEN Handle(Head(work)) /\ work' = Tail(work) /\ UNCHANGED pc
     ELSE pc' = "pend" /\ UNCHANGED <<work, appVars>>
  /\ UNCHANGED <<bootVars, sem, linkVars, timerVars>>

(* LOS_SemPend(proto_task_semaphore, LOS_WAIT_FOREVER). *)
SemPend ==
  /\ Runs /\ pc = "pend"
  /\ \/ sem > 0 /\ pc' = "main" /\ sem' = sem - 1
     \/ sem = 0 /\ pc' = "blocked" /\ UNCHANGED sem
     \/ "semCreate" \in failed /\ pc' = "main" /\ UNCHANGED sem
  /\ UNCHANGED <<bootVars, work, linkVars, appVars, timerVars>>

-----------------------------------------------------------------------------
(* Every variable stays in its type; the semaphore stays within its limit. *)
TypeOK ==
  /\ step \in 1..(Len(BleSampleInit) + 1) /\ failed \subseteq Unchecked
  /\ {halted, led, missed, trigPast, masked} \subseteq BOOLEAN
  /\ pc \in {"none", "start", "main", "pend", "blocked"} /\ sem \in 0..BLE_TASK_SEM_TIME
  /\ Waiting \subseteq {"connect", "disconnect", "otherMeta", "request", "tick"}
  /\ conn \in 0..MaxConnections /\ events \in 0..MaxEvents
  /\ timer \in {"off", "armed", "pending", "passed"}

(* The task never sleeps on work, though an interrupt may come between the *)
(* main loop's last look and the pend, and though posts are lost at the    *)
(* limit of the semaphore; only without a semaphore of its own it may.     *)
NoSleepOnWork == pc = "blocked" /\ "semCreate" \notin failed => work = <<>>

(* Nothing comes before its receiver is there, although advertising is     *)
(* enabled before the connections, the table and the callbacks are set up: *)
(* no link event is handled without a callback, no request without the     *)
(* table and the data handler.                                             *)
NothingMissed == ~missed

(* When all link events are handled the LED is off without a connection    *)
(* and, where only a single connection is possible, on with it.            *)
LedShowsLink ==
  Waiting \cap {"connect", "disconnect"} = {} =>
    /\ conn = 0 => ~led
    /\ conn > 0 /\ MaxConnections = 1 => led

(* Once the task was created, what the interrupts report is handled, of    *)
(* each kind all there is, unless the semaphore was not created, which     *)
(* nothing tells the task.                                                 *)
Kinds == {{"connect", "disconnect"}, {"request"}, {"tick"}}
EventsHandled ==
  \A kind \in Kinds :
    Waiting \cap kind # {} /\ pc # "none" ~> Waiting \cap kind = {} \/ "semCreate" \in failed

(* A timer interrupt is never missed for good, even one whose time came    *)
(* while interrupts were masked, unless its handler was refused.           *)
TimerServed == timer # "off" /\ pc # "none" ~> timer = "off" \/ "stimerIrq" \in failed
=============================================================================
