------------------------------- MODULE BleDevice -------------------------------
(***************************************************************************)
(* The BLE sample as a central meets it: the requests that BleSample's     *)
(* interrupts queue and its main loop hands on are answered from the       *)
(* attribute table of GattTable, over links that come and go.  One central *)
(* walks the table; when another is linked too, either may be the one      *)
(* whose link ends.                                                        *)
(***************************************************************************)
EXTENDS BleSample, GattTable

deviceVars == <<vars, gattVars>>

DeviceInit == Init /\ GattInit

(* The handler of the radio: with its link the central loses its place. *)
RadioInterrupt ==
  /\ RfIrqHandler
  /\ IF conn' < conn THEN Forget \/ (conn' > 0 /\ UNCHANGED gattVars)
                     ELSE UNCHANGED gattVars

(* The main loop: a request that finds the table is answered from it. *)
LoopStep ==
  /\ MainLoop
  /\ IF work # <<>> /\ Head(work) = "request" THEN Answer ELSE UNCHANGED gattVars

(* A step that leaves the central where it is. *)
Alone(A) == A /\ UNCHANGED gattVars
Task == Alone(TaskStart) \/ LoopStep \/ Alone(SemPend)

DeviceNext ==
  \/ Alone(InitStep) \/ Alone(InitStepFails)
  \/ RadioInterrupt
  \/ Alone(ArmTimer) \/ Alone(TimerReaches) \/ Alone(StimerIrqHandler)
  \/ Alone(Mask) \/ Alone(Unmask)
  \/ Task

DeviceSpec == DeviceInit /\ [][DeviceNext]_deviceVars

(* Time passes and a section with interrupts masked ends; an interrupt     *)
(* that is pending is taken, since no new section begins before it; the    *)
(* initialisation and the task, which such sections hold up again and      *)
(* again, get to run between them.                                         *)
Fairness ==
  /\ WF_deviceVars(Alone(TimerReaches)) /\ WF_deviceVars(Alone(Unmask))
  /\ WF_deviceVars(Alone(StimerIrqHandler))
  /\ SF_deviceVars(Alone(InitStep)) /\ SF_deviceVars(Task)

FairSpec == DeviceSpec /\ Fairness
=============================================================================
