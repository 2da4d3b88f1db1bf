--------------------------- MODULE BleDeviceProofs ---------------------------
(***************************************************************************)
(* Proofs about BleDevice, for both builds, any number of connections and  *)
(* link events, any limit of the semaphore, and calls of the               *)
(* initialisation that may or may not fail.                                *)
(***************************************************************************)
EXTENDS BleDevice, SequenceTheorems, TLAPS

LinkItems == {"connect", "disconnect"}
WorkItems == LinkItems \cup {"request", "tick"} \cup (IF MULTI THEN {"otherMeta"} ELSE {})

Shapes ==
  /\ step \in 1..(Len(BleSampleInit) + 1) /\ failed \subseteq Unchecked
  /\ halted \in BOOLEAN /\ trigPast \in BOOLEAN /\ masked \in BOOLEAN
  /\ pc \in {"none", "start", "main", "pend", "blocked"} /\ sem \in 0..BLE_TASK_SEM_TIME
  /\ work \in Seq(WorkItems)
  /\ conn \in 0..MaxConnections /\ events \in 0..MaxEvents
  /\ timer \in {"off", "armed", "pending", "passed"}
  /\ led \in BOOLEAN /\ missed = FALSE

(* When the task is there, so is everything it hands work to, and what     *)
(* wakes it.                                                               *)
Receivers == {"giveSemCb", "registerCallbacks", "AppBleGattInit", "registerDataHandler"}
ReceiversReady == pc # "none" => Receivers \subseteq Done

(* A task that sleeps, or would if it pended now, has no work, if the       *)
(* semaphore is its own.                                                   *)
WokenByWork ==
  "semCreate" \notin failed /\ (pc = "blocked" \/ (pc = "pend" /\ sem = 0)) => work = <<>>

(* The work w leaves the LED, now l, as the link item e asks: e is the last *)
(* link item in w, or there is none and the LED is so already.             *)
NoLink(w) == \A j \in 1..Len(w) : w[j] \notin LinkItems
LastLink(w, e) ==
  \E k \in 1..Len(w) : w[k] = e /\ \A j \in (k + 1)..Len(w) : w[j] \notin LinkItems
LedWill(w, l, e) == LastLink(w, e) \/ (NoLink(w) /\ l = (e = "connect"))

LedFollows ==
  /\ conn = 0 => LedWill(work, led, "disconnect")
  /\ conn > 0 /\ MaxConnections = 1 => LedWill(work, led, "connect")

IInv == Shapes /\ ReceiversReady /\ WokenByWork /\ LedFollows

-----------------------------------------------------------------------------
(* The order of the initialisation.                                        *)

Before == <<"initRf", "loadParameters", "initRandom">> \o AppBleInit
After == <<"semCreate", "giveSemCb", "taskCreate", "rfIrq", "stimerIrq">>

(* The calls before the semaphore and the task are created. *)
Setup ==
  {"initRf", "loadParameters", "initRandom", "initMac", "setPower", "initMCU",
   "initStandby", "initAdvertising", "initConnection", "initSlaveRole", "setAdvParam",
   "setAdvData", "setScanRspData", "setAdvEnable", "initAclConnTxFifo",
   "initAclConnRxFifo", "checkBuffers", "setMaxConnectionNumber", "uni_ble_init",
   "initMtuBuffer", "AppBleGattInit", "registerDataHandler", "ledOut",
   "registerCallbacks", "initPm"}
Calls == Setup \cup {"semCreate", "giveSemCb", "taskCreate", "rfIrq", "stimerIrq"}

LEMMA Joined ==
  ASSUME NEW s \in Seq(Setup), NEW t \in Seq(Setup)
  PROVE  s \o t \in Seq(Setup) /\ Range(s \o t) = Range(s) \cup Range(t)
BY ConcatProperties, RangeConcatenation

(* Everything that answers is in place before, in both builds. *)
LEMMA BeforeFacts ==
  /\ Before \in Seq(Setup)
  /\ {"registerCallbacks", "AppBleGattInit", "registerDataHandler"} \subseteq Range(Before)
<1> DEFINE a1 == <<"initRf", "loadParameters", "initRandom">>
           a2 == <<"initMac", "setPower", "initMCU", "initStandby", "initAdvertising",
                   "initConnection", "initSlaveRole">>
           a3 == AppBleAdvInit
           c1 == <<"initAclConnTxFifo", "initAclConnRxFifo", "checkBuffers">>
           c2 == IF MULTI THEN <<"setMaxConnectionNumber">> ELSE <<>>
           c3 == <<"uni_ble_init">>
           c4 == IF MULTI THEN <<"initMtuBuffer">> ELSE <<>>
           c5 == <<"AppBleGattInit", "registerDataHandler", "ledOut",
                   "registerCallbacks", "initPm">>
<1>1. a1 \in Seq(Setup) /\ a2 \in Seq(Setup)
  BY DEF Setup
<1>2. a3 \in Seq(Setup)
  BY DEF Setup, AppBleAdvInit
<1>3. c1 \in Seq(Setup) /\ c3 \in Seq(Setup)
  BY DEF Setup
<1>4. c2 \in Seq(Setup) /\ c4 \in Seq(Setup)
  <2>1. CASE MULTI
    BY <2>1 DEF Setup
  <2>2. CASE ~MULTI
    BY <2>2
  <2>3. QED
    BY <2>1, <2>2
<1>5. c5 \in Seq(Setup)
  BY DEF Setup
<1>6. {"registerCallbacks", "AppBleGattInit", "registerDataHandler"} \subseteq Range(c5)
  <2>1. /\ Len(c5) = 5 /\ c5[1] = "AppBleGattInit" /\ c5[2] = "registerDataHandler"
        /\ c5[4] = "registerCallbacks"
    OBVIOUS
  <2>2. Range(c5) = {c5[j] : j \in 1..5}
    BY <1>5, <2>1, RangeEquality
  <2> HIDE DEF c5
  <2>3. QED
    BY <2>1, <2>2
<1>7. Before = a1 \o (a2 \o a3 \o (c1 \o c2 \o c3 \o c4 \o c5))
  BY DEF Before, AppBleInit, AppBleConnInit
<1> HIDE DEF a1, a2, a3, c1, c2, c3, c4, c5
<1> DEFINE c == c1 \o c2 \o c3 \o c4
<1>8. c \in Seq(Setup)
  BY <1>3, <1>4, Joined
<1>9. a2 \o a3 \in Seq(Setup)
  BY <1>1, <1>2, Joined
<1> HIDE DEF c
<1>10. c \o c5 \in Seq(Setup) /\ Range(c5) \subseteq Range(c \o c5)
  BY <1>5, <1>8, Joined
<1>11. /\ a2 \o a3 \o (c \o c5) \in Seq(Setup)
       /\ Range(c5) \subseteq Range(a2 \o a3 \o (c \o c5))
  BY <1>9, <1>10, Joined
<1>12. /\ a1 \o (a2 \o a3 \o (c \o c5)) \in Seq(Setup)
       /\ Range(c5) \subseteq Range(a1 \o (a2 \o a3 \o (c \o c5)))
  BY <1>1, <1>11, Joined
<1>13. Before = a1 \o (a2 \o a3 \o (c \o c5))
  BY <1>7 DEF c
<1>14. QED
  BY <1>6, <1>12, <1>13

LEMMA InitOrder ==
  /\ BleSampleInit \in Seq(Calls)
  /\ \A k \in 1..Len(BleSampleInit) :
       BleSampleInit[k] = "taskCreate"
         => Receivers \subseteq {BleSampleInit[j] : j \in 1..(k - 1)}
<1> DEFINE n == Len(Before)
<1>1. /\ Before \in Seq(Setup) /\ n \in Nat
      /\ Range(Before) = {Before[j] : j \in 1..n}
  BY BeforeFacts, RangeEquality, LenProperties
<1>2. /\ Len(After) = 5
      /\ After[2] = "giveSemCb"
      /\ \A j \in 1..5 : After[j] = "taskCreate" => j = 3
  BY DEF After
<1>3. After \in Seq(Calls) /\ BleSampleInit = Before \o After
  <2>1. After \in Seq(Calls)
    BY DEF After, Calls
  <2>2. QED
    BY <2>1 DEF BleSampleInit, Before, After
<1>4. /\ BleSampleInit \in Seq(Calls) /\ Len(BleSampleInit) = n + 5
      /\ \A j \in 1..(n + 5) :
           BleSampleInit[j] = IF j <= n THEN Before[j] ELSE After[j - n]
  <2>1. Before \in Seq(Calls)
    BY <1>1, SeqMonotonic DEF Calls
  <2>2. /\ Before \o After \in Seq(Calls)
        /\ Len(Before \o After) = Len(Before) + Len(After)
        /\ \A j \in 1..(Len(Before) + Len(After)) :
             (Before \o After)[j] = IF j <= Len(Before) THEN Before[j]
                                                     ELSE After[j - Len(Before)]
    BY <1>3, <2>1, ConcatProperties
  <2>3. QED
    BY <1>2, <1>3, <2>2
<1> HIDE DEF n
<1>5. ASSUME NEW k \in 1..(n + 5), BleSampleInit[k] = "taskCreate", NEW r \in Receivers
      PROVE  \E j \in 1..(k - 1) : BleSampleInit[j] = r
  <2>1. k = n + 3
    <3>1. ~(k <= n)
      <4>1. ASSUME k <= n PROVE FALSE
        <5>1. k \in 1..n /\ Before[k] = "taskCreate"
          BY <1>1, <1>4, <1>5, <4>1
        <5>2. Before[k] \in Setup
          BY <1>1, <5>1, ElementOfSeq DEF n
        <5>3. QED
          BY <5>1, <5>2 DEF Setup
      <4>2. QED
        BY <4>1
    <3>2. k - n \in 1..5 /\ After[k - n] = "taskCreate"
      BY <1>1, <1>4, <1>5, <3>1
    <3>3. k - n = 3
      BY <1>2, <3>2
    <3>4. QED
      BY <1>1, <3>3
  <2>2. CASE r = "giveSemCb"
    <3>1. n + 2 \in 1..(k - 1) /\ BleSampleInit[n + 2] = After[2]
      <4>1. n + 2 \in 1..(n + 5) /\ ~(n + 2 <= n) /\ (n + 2) - n = 2
        BY <1>1
      <4>2. QED
        BY <1>1, <1>4, <2>1, <4>1
    <3>2. QED
      BY <1>2, <2>2, <3>1
  <2>3. CASE r # "giveSemCb"
    <3>1. r \in Range(Before)
      BY <1>5, <2>3, BeforeFacts DEF Receivers
    <3>2. PICK j \in 1..n : Before[j] = r
      BY <1>1, <3>1
    <3>3. j \in 1..(k - 1) /\ j \in 1..(n + 5) /\ j <= n
      BY <1>1, <2>1
    <3>4. QED
      BY <1>4, <3>2, <3>3
  <2>4. QED
    BY <2>2, <2>3
<1>6. QED
  BY <1>4, <1>5

-----------------------------------------------------------------------------
(* What the LED will show, as the work grows and shrinks.                  *)

LEMMA LinkAppended ==
  ASSUME NEW S, NEW w \in Seq(S), NEW l, NEW e \in LinkItems
  PROVE  LedWill(Append(w, e), l, e)
<1> DEFINE v == Append(w, e)
           n == Len(w) + 1
<1>1. Len(w) \in Nat
  BY LenProperties
<1>2. n \in 1..Len(v) /\ Len(v) = n /\ v[n] = e
  BY <1>1
<1>3. (n + 1)..Len(v) = {}
  BY <1>1, <1>2
<1> HIDE DEF n, v
<1>4. LastLink(v, e)
  BY <1>2, <1>3 DEF LastLink
<1>5. QED
  BY <1>4 DEF LedWill, v

LEMMA OtherAppended ==
  ASSUME NEW S, NEW w \in Seq(S), NEW x, x \notin LinkItems,
         NEW l, NEW e \in LinkItems, LedWill(w, l, e)
  PROVE  LedWill(Append(w, x), l, e)
<1> DEFINE v == Append(w, x)
           n == Len(w)
<1>1. n \in Nat
  BY LenProperties
<1>2. Len(v) = n + 1 /\ v[n + 1] = x /\ \A j \in 1..n : v[j] = w[j]
  BY <1>1
<1> HIDE DEF v
<1>3. ASSUME NEW j \in 1..(n + 1), j \notin 1..n
      PROVE  v[j] \notin LinkItems
  <2>1. j = n + 1
    BY <1>1, <1>3
  <2>2. QED
    BY <1>2, <2>1
<1>4. CASE NoLink(w) /\ l = (e = "connect")
  <2>1. NoLink(v)
    BY <1>1, <1>2, <1>3, <1>4 DEF NoLink
  <2>2. QED
    BY <1>4, <2>1 DEF LedWill, v
<1>5. CASE LastLink(w, e)
  <2>1. PICK k \in 1..n : w[k] = e /\ \A j \in (k + 1)..n : w[j] \notin LinkItems
    BY <1>5 DEF LastLink
  <2>2. k \in 1..(n + 1) /\ v[k] = e
    BY <1>1, <1>2, <2>1
  <2>3. ASSUME NEW j \in (k + 1)..(n + 1) PROVE v[j] \notin LinkItems
    <3>1. CASE j \in 1..n
      <4>1. j \in (k + 1)..n
        BY <1>1, <3>1
      <4>2. QED
        BY <1>2, <2>1, <3>1, <4>1
    <3>2. CASE j \notin 1..n
      <4>1. j \in 1..(n + 1)
        BY <1>1
      <4>2. QED
        BY <1>3, <3>2, <4>1
    <3>3. QED
      BY <3>1, <3>2
  <2>4. LastLink(v, e)
    BY <1>2, <2>2, <2>3 DEF LastLink
  <2>5. QED
    BY <2>4 DEF LedWill, v
<1>6. QED
  BY <1>4, <1>5 DEF LedWill

LEMMA HeadHandled ==
  ASSUME NEW S, NEW w \in Seq(S), w # <<>>, NEW l, NEW m, NEW e \in LinkItems,
         LedWill(w, l, e),
         m = IF Head(w) \in LinkItems THEN Head(w) = "connect" ELSE l
  PROVE  LedWill(Tail(w), m, e)
<1> DEFINE v == Tail(w)
           n == Len(w)
<1>1. n \in Nat /\ n > 0
  BY LenProperties, EmptySeq
<1>2. /\ Len(v) = n - 1 /\ \A j \in 1..(n - 1) : v[j] = w[j + 1]
      /\ Head(w) = w[1]
  BY <1>1, HeadTailProperties
<1> HIDE DEF v, n
<1>3. ASSUME NEW a \in 1..n, \A j \in (a + 1)..n : w[j] \notin LinkItems,
             NEW j \in a..(n - 1)
      PROVE  v[j] \notin LinkItems
  <2>1. j \in 1..(n - 1) /\ j + 1 \in (a + 1)..n
    BY <1>1
  <2>2. QED
    BY <1>2, <1>3, <2>1
<1>4. CASE NoLink(w) /\ l = (e = "connect")
  <2>1. 1 \in 1..n /\ \A j \in 2..n : w[j] \notin LinkItems
    BY <1>1, <1>4 DEF NoLink, n
  <2>2. \A j \in 1..(n - 1) : v[j] \notin LinkItems
    BY <1>3, <2>1
  <2>3. NoLink(v) /\ m = (e = "connect")
    BY <1>2, <1>4, <2>1, <2>2 DEF NoLink, n
  <2>4. QED
    BY <2>3 DEF LedWill, v
<1>5. CASE LastLink(w, e)
  <2>1. PICK k \in 1..n : w[k] = e /\ \A j \in (k + 1)..n : w[j] \notin LinkItems
    BY <1>5 DEF LastLink, n
  <2>2. \A j \in k..(n - 1) : v[j] \notin LinkItems
    BY <1>3, <2>1
  <2>3. CASE k = 1
    <3>1. Head(w) = e
      BY <1>2, <2>1, <2>3
    <3>2. NoLink(v) /\ m = (e = "connect")
      BY <1>2, <2>2, <2>3, <3>1 DEF NoLink
    <3>3. QED
      BY <3>2 DEF LedWill, v
  <2>4. CASE k # 1
    <3>1. k - 1 \in 1..(n - 1) /\ (k - 1) + 1 = k
      BY <1>1, <2>4
    <3>2. v[k - 1] = e
      BY <1>2, <2>1, <3>1
    <3>3. LastLink(v, e)
      BY <1>2, <2>2, <3>1, <3>2 DEF LastLink
    <3>4. QED
      BY <3>3 DEF LedWill, v
  <2>5. QED
    BY <2>3, <2>4
<1>6. QED
  BY <1>4, <1>5 DEF LedWill

LEMMA UnaskedType == ASSUME NEW S, work \in Seq(S) PROVE Unasked \in Seq(S)
<1> DEFINE asked == {k \in 1..Len(work) : work[k] = "request"}
           k == CHOOSE j \in asked : TRUE
<1>1. CASE asked = {}
  BY <1>1 DEF Unasked
<1>2. CASE asked # {}
  <2>1. k \in asked
    BY <1>2
  <2> HIDE DEF k
  <2>2. k \in 1..Len(work) /\ Len(work) \in Nat
    BY <2>1, LenProperties
  <2>3. SubSeq(work, 1, k - 1) \in Seq(S)
    <3>1. \A j \in 1..(k - 1) : work[j] \in S
      BY <2>2
    <3>2. QED
      BY <2>2, <3>1
  <2>4. SubSeq(work, k + 1, Len(work)) \in Seq(S)
    <3>1. \A j \in (k + 1)..Len(work) : work[j] \in S
      BY <2>2
    <3>2. QED
      BY <2>2, <3>1
  <2>5. SubSeq(work, 1, k - 1) \o SubSeq(work, k + 1, Len(work)) \in Seq(S)
    BY <2>3, <2>4, ConcatProperties
  <2>6. QED
    BY <1>2, <2>5 DEF Unasked, k
<1>3. QED
  BY <1>1, <1>2

-----------------------------------------------------------------------------
(* The invariant.                                                          *)

(* The sequence of calls depends on the build alone. *)
LEMMA SameBuild ==
  ASSUME build' = build
  PROVE  /\ BleSampleInit' = BleSampleInit /\ MaxConnections' = MaxConnections
         /\ WorkItems' = WorkItems
BY DEF BleSampleInit, AppBleInit, AppBleConnInit, AppBleAdvInit, MaxConnections, MULTI,
       WorkItems, LinkItems

LEMMA SizeFacts ==
  /\ MaxConnections \in Nat \ {0} /\ BLE_TASK_SEM_TIME \in Nat \ {0} /\ MaxEvents \in Nat
  /\ Len(BleSampleInit) \in Nat
BY SizeAssumption, InitOrder, LenProperties DEF MaxConnections

LEMMA Initially == DeviceInit => IInv
<1> SUFFICES ASSUME DeviceInit PROVE IInv
  OBVIOUS
<1>1. /\ step = 1 /\ halted = FALSE /\ failed = {} /\ pc = "none" /\ sem = 0 /\ work = <<>>
      /\ conn = 0 /\ events = 0 /\ led = FALSE /\ missed = FALSE
      /\ timer = "off" /\ trigPast = FALSE /\ masked = FALSE
  BY DEF DeviceInit, Init
<1>2. <<>> \in Seq(WorkItems) /\ Len(<<>>) = 0
  OBVIOUS
<1>3. Shapes
  <2>1. step \in 1..(Len(BleSampleInit) + 1) /\ sem \in 0..BLE_TASK_SEM_TIME
    BY <1>1, SizeFacts
  <2>2. conn \in 0..MaxConnections /\ events \in 0..MaxEvents
    BY <1>1, SizeFacts
  <2>3. QED
    BY <1>1, <1>2, <2>1, <2>2 DEF Shapes
<1>4. NoLink(work)
  BY <1>1, <1>2 DEF NoLink
<1>5. LedWill(work, led, "disconnect")
  BY <1>1, <1>4 DEF LedWill
<1>6. LedFollows
  BY <1>1, <1>5 DEF LedFollows
<1>7. QED
  BY <1>1, <1>3, <1>6 DEF IInv, ReceiversReady, WokenByWork

(* A step that leaves the task, the work, the link and the LED alone. *)
LEMMA QuietStep ==
  ASSUME IInv, UNCHANGED <<build, pc, sem, work, conn, events, led, missed>>,
         \/ step' = step
         \/ step' = step + 1 /\ step <= Len(BleSampleInit),
         failed \subseteq failed', failed' \subseteq Unchecked,
         halted' \in BOOLEAN, trigPast' \in BOOLEAN, masked' \in BOOLEAN,
         timer' \in {"off", "armed", "pending", "passed"}
  PROVE  IInv'
<1>1. /\ BleSampleInit' = BleSampleInit /\ MaxConnections' = MaxConnections
      /\ WorkItems' = WorkItems
  BY SameBuild
<1>2. /\ step' \in 1..(Len(BleSampleInit) + 1)
      /\ \A c \in Done : c \notin failed' => c \in Done'
  BY <1>1, SizeFacts DEF IInv, Shapes, Done
<1>3. Shapes'
  BY <1>1, <1>2 DEF IInv, Shapes
<1>4. ReceiversReady'
  <2>1. Receivers' = Receivers /\ Receivers \cap Unchecked = {}
    BY DEF Receivers, Unchecked
  <2>2. QED
    BY <1>2, <2>1 DEF IInv, ReceiversReady
<1>5. QED
  BY <1>1, <1>3, <1>4 DEF IInv, WokenByWork, LedFollows

LEMMA InitStepStep == IInv /\ InitStep => IInv'
<1> SUFFICES ASSUME IInv, InitStep PROVE IInv'
  OBVIOUS
<1>1. /\ step <= Len(BleSampleInit) /\ step' = step + 1
      /\ UNCHANGED <<build, halted, failed, sem, work, conn, events, led, missed,
                     timer, trigPast, masked>>
  BY DEF InitStep, linkVars, appVars, timerVars
<1>2. CASE BleSampleInit[step] # "taskCreate"
  <2>1. pc' = pc
    BY <1>2 DEF InitStep
  <2>2. QED
    BY <1>1, <2>1, QuietStep DEF IInv, Shapes
<1>3. CASE BleSampleInit[step] = "taskCreate"
  <2>1. pc' = "start"
    BY <1>3 DEF InitStep
  <2>2. /\ BleSampleInit' = BleSampleInit /\ MaxConnections' = MaxConnections
        /\ WorkItems' = WorkItems
    BY <1>1, SameBuild
  <2>3. step \in 1..Len(BleSampleInit)
    BY <1>1, SizeFacts DEF IInv, Shapes
  <2>4. Shapes'
    BY <1>1, <2>1, <2>2, <2>3, SizeFacts DEF IInv, Shapes
  <2>5. Receivers \subseteq Done'
    <3>1. Receivers \subseteq {BleSampleInit[j] : j \in 1..(step - 1)}
      BY <1>3, <2>3, InitOrder
    <3>2. {BleSampleInit[j] : j \in 1..(step - 1)} \ failed \subseteq Done'
      BY <1>1, <2>2, <2>3, SizeFacts DEF Done
    <3>3. Receivers \cap failed = {}
      BY DEF IInv, Shapes, Receivers, Unchecked
    <3>4. QED
      BY <3>1, <3>2, <3>3
  <2>6. QED
    BY <1>1, <2>1, <2>2, <2>4, <2>5
       DEF IInv, ReceiversReady, Receivers, WokenByWork, LedFollows
<1>4. QED
  BY <1>2, <1>3

LEMMA InitStepFailsStep == IInv /\ InitStepFails => IInv'
<1> SUFFICES ASSUME IInv, InitStepFails PROVE IInv'
  OBVIOUS
<1> DEFINE call == BleSampleInit[step]
<1>1. /\ UNCHANGED <<build, pc, sem, work, conn, events, led, missed,
                     timer, trigPast, masked>>
      /\ step <= Len(BleSampleInit)
      /\ \/ halted' = TRUE /\ step' = step /\ failed' = failed
         \/ /\ call \in Unchecked /\ failed' = failed \cup {call}
            /\ step' = step + 1 /\ halted' = halted
  BY DEF InitStepFails, taskVars, linkVars, appVars, timerVars
<1> HIDE DEF call
<1>2. /\ failed \subseteq failed' /\ failed' \subseteq Unchecked
      /\ halted' \in BOOLEAN
      /\ step' = step \/ (step' = step + 1 /\ step <= Len(BleSampleInit))
  BY <1>1 DEF IInv, Shapes
<1>3. QED
  BY <1>1, <1>2, QuietStep DEF IInv, Shapes

(* The callback of the interrupts, with work for the task or without. *)
LEMMA GiveSemFacts ==
  ASSUME IInv, GiveSem
  PROVE  /\ sem' \in 0..BLE_TASK_SEM_TIME
         /\ pc' \in {"none", "start", "main", "pend", "blocked"}
         /\ pc = "none" => pc' = "none"
         /\ "semCreate" \notin failed => pc' # "blocked" /\ (pc' = "pend" => sem' > 0)
<1>1. /\ sem \in 0..BLE_TASK_SEM_TIME
      /\ pc \in {"none", "start", "main", "pend", "blocked"}
      /\ pc # "none" => "giveSemCb" \in Done
  BY DEF IInv, Shapes, ReceiversReady, Receivers
<1>2. CASE "giveSemCb" \notin Done
  <2>1. pc = "none" /\ sem' = sem /\ pc' = pc
    BY <1>1, <1>2 DEF GiveSem, taskVars
  <2>2. QED
    BY <1>1, <2>1
<1>3. CASE "giveSemCb" \in Done /\ "semCreate" \in failed
  <2>1. PostElsewhere
    BY <1>3 DEF GiveSem
  <2>2. sem' = sem /\ (pc' = pc \/ (pc = "blocked" /\ pc' = "main"))
    BY <2>1 DEF PostElsewhere
  <2>3. QED
    BY <1>1, <1>3, <2>2
<1>4. CASE "giveSemCb" \in Done /\ "semCreate" \notin failed
  <2>1. os_give_sem_cb
    BY <1>4 DEF GiveSem
  <2>2. QED
    BY <1>1, <2>1, SizeFacts DEF os_give_sem_cb, Counted
<1>5. QED
  BY <1>2, <1>3, <1>4

(* An interrupt that brings work. *)
LEMMA InterruptStep ==
  ASSUME IInv, GiveSem, UNCHANGED <<bootVars, appVars, trigPast, masked>>,
         work' \in Seq(WorkItems), conn' \in 0..MaxConnections, events' \in 0..MaxEvents,
         timer' \in {"off", "armed", "pending", "passed"},
         LedFollows'
  PROVE  IInv'
<1>1. /\ UNCHANGED <<build, step, halted, failed, led, missed, trigPast, masked>>
  BY DEF bootVars, appVars
<1>2. /\ BleSampleInit' = BleSampleInit /\ MaxConnections' = MaxConnections
      /\ WorkItems' = WorkItems
  BY <1>1, SameBuild
<1>3. Shapes'
  BY <1>1, <1>2, GiveSemFacts DEF IInv, Shapes
<1>4. ReceiversReady'
  BY <1>1, <1>2, GiveSemFacts DEF IInv, ReceiversReady, Receivers, Done
<1>5. WokenByWork'
  <2>1. "semCreate" \notin failed => pc' # "blocked" /\ (pc' = "pend" => sem' # 0)
    BY GiveSemFacts
  <2>2. QED
    BY <1>1, <2>1 DEF WokenByWork
<1>6. QED
  BY <1>3, <1>4, <1>5 DEF IInv

LEMMA RfStep == IInv /\ RfIrqHandler => IInv'
<1> SUFFICES ASSUME IInv, RfIrqHandler PROVE IInv'
  OBVIOUS
<1>1. /\ LinkEvent \/ Request
      /\ GiveSem /\ UNCHANGED <<bootVars, appVars, timerVars>>
      /\ UNCHANGED <<build, led, timer, trigPast, masked>>
  BY DEF RfIrqHandler, bootVars, appVars, timerVars
<1>2. MaxConnections' = MaxConnections
  BY <1>1, SameBuild
<1>3. /\ work \in Seq(WorkItems) /\ conn \in 0..MaxConnections
      /\ events \in 0..MaxEvents /\ LedFollows
      /\ timer \in {"off", "armed", "pending", "passed"}
  BY DEF IInv, Shapes
<1>4. /\ "connect" \in WorkItems /\ "disconnect" \in WorkItems /\ "request" \in WorkItems
      /\ MULTI => "otherMeta" \in WorkItems
  BY DEF WorkItems, LinkItems
<1> DEFINE Post == /\ work' \in Seq(WorkItems) /\ conn' \in 0..MaxConnections
                   /\ events' \in 0..MaxEvents /\ LedFollows'
<1>5. ASSUME LinkEvent PROVE Post
  <2>1. events' \in 0..MaxEvents
    BY <1>3, <1>5, SizeFacts DEF LinkEvent
  <2>2. CASE conn < MaxConnections /\ conn' = conn + 1 /\ work' = Append(work, "connect")
    <3>1. conn' \in 0..MaxConnections /\ conn' > 0
      BY <1>3, <2>2, SizeFacts
    <3>2. work' \in Seq(WorkItems)
      BY <1>3, <1>4, <2>2, AppendProperties
    <3>3. LedWill(work', led', "connect")
      BY <1>3, <2>2, LinkAppended DEF LinkItems
    <3>4. LedFollows'
      BY <1>3, <3>1, <3>3 DEF LedFollows
    <3>5. QED
      BY <2>1, <3>1, <3>2, <3>4
  <2>3. CASE /\ conn > 0 /\ conn' = conn - 1
             /\ work' = Append(IF conn > 1 THEN work ELSE Unasked, "disconnect")
    <3>1. /\ conn' \in 0..MaxConnections
          /\ MaxConnections = 1 => conn' = 0
      BY <1>3, <2>3, SizeFacts
    <3> DEFINE w == IF conn > 1 THEN work ELSE Unasked
    <3>2. w \in Seq(WorkItems)
      BY <1>3, UnaskedType
    <3>3. work' = Append(w, "disconnect")
      BY <2>3
    <3> HIDE DEF w
    <3>4. work' \in Seq(WorkItems)
      BY <1>4, <3>2, <3>3, AppendProperties
    <3>5. LedWill(work', led', "disconnect")
      BY <3>2, <3>3, LinkAppended DEF LinkItems
    <3>6. LedFollows'
      BY <1>2, <3>1, <3>5 DEF LedFollows
    <3>7. QED
      BY <2>1, <3>1, <3>4, <3>6
  <2>4. CASE MULTI /\ work' = Append(work, "otherMeta") /\ UNCHANGED conn
    <3>1. work' \in Seq(WorkItems)
      BY <1>3, <1>4, <2>4, AppendProperties
    <3>2. \A e \in LinkItems : LedWill(work, led, e) => LedWill(work', led', e)
      BY <1>1, <1>3, <2>4, OtherAppended DEF LinkItems
    <3>3. LedFollows'
      BY <1>2, <1>3, <2>4, <3>2 DEF LedFollows, LinkItems
    <3>4. QED
      BY <1>3, <2>1, <2>4, <3>1, <3>3
  <2>5. QED
    BY <1>5, <2>2, <2>3, <2>4 DEF LinkEvent
<1>6. ASSUME Request PROVE Post
  <2>1. work' = Append(work, "request") /\ conn' = conn /\ events' = events
    BY <1>6 DEF Request, linkVars
  <2>2. work' \in Seq(WorkItems)
    BY <1>3, <1>4, <2>1, AppendProperties
  <2>3. \A e \in LinkItems : LedWill(work, led, e) => LedWill(work', led', e)
    BY <1>1, <1>3, <2>1, OtherAppended DEF LinkItems
  <2>4. LedFollows'
    BY <1>2, <1>3, <2>1, <2>3 DEF LedFollows, LinkItems
  <2>5. QED
    BY <1>3, <2>1, <2>2, <2>4
<1>7. Post
  BY <1>1, <1>5, <1>6
<1>8. QED
  BY <1>1, <1>3, <1>7, InterruptStep

LEMMA StimerStep == IInv /\ StimerIrqHandler => IInv'
<1> SUFFICES ASSUME IInv, StimerIrqHandler PROVE IInv'
  OBVIOUS
<1>1. /\ timer' = "off" /\ GiveSem
      /\ UNCHANGED <<bootVars, appVars, trigPast, masked>>
      /\ UNCHANGED <<build, led, conn, events>>
      /\ work' = work \/ work' = Append(work, "tick")
  BY DEF StimerIrqHandler, bootVars, appVars, linkVars
<1>2. MaxConnections' = MaxConnections
  BY <1>1, SameBuild
<1>3. /\ work \in Seq(WorkItems) /\ conn \in 0..MaxConnections
      /\ events \in 0..MaxEvents /\ LedFollows /\ "tick" \in WorkItems
  BY DEF IInv, Shapes, WorkItems
<1>4. work' \in Seq(WorkItems)
  BY <1>1, <1>3, AppendProperties
<1>5. \A e \in LinkItems : LedWill(work, led, e) => LedWill(work', led', e)
  BY <1>1, <1>3, OtherAppended DEF LinkItems
<1>6. LedFollows'
  BY <1>1, <1>2, <1>3, <1>5 DEF LedFollows, LinkItems
<1>7. QED
  BY <1>1, <1>3, <1>4, <1>6, InterruptStep

(* What handling an item does to the LED, once everything is registered. *)
LEMMA HandleFacts ==
  ASSUME NEW w \in WorkItems, Handle(w), Receivers \subseteq Done, missed = FALSE,
         led \in BOOLEAN
  PROVE  /\ missed' = FALSE /\ led' \in BOOLEAN
         /\ led' = IF w \in LinkItems THEN w = "connect" ELSE led
<1>1. /\ "registerCallbacks" \in Done
      /\ {"AppBleGattInit", "registerDataHandler"} \subseteq Done
  BY DEF Receivers
<1>2. CASE w = "tick"
  BY <1>2 DEF Handle, appVars, LinkItems
<1>3. CASE w = "request"
  BY <1>1, <1>3 DEF Handle, LinkItems
<1>4. CASE w = "otherMeta"
  <2>1. MULTI
    BY <1>4 DEF WorkItems, LinkItems
  <2>2. AppControllerEventCallback(w)
    BY <1>4, <2>1 DEF Handle
  <2>3. QED
    BY <1>4, <2>2 DEF AppControllerEventCallback, appVars, LinkItems
<1>5. CASE w \in LinkItems
  <2>1. AppControllerEventCallback(w) \/ EventCallback(w)
    BY <1>5 DEF Handle, LinkItems
  <2>2. SetLed(w = "connect")
    BY <1>5, <2>1 DEF AppControllerEventCallback, EventCallback, LinkItems
  <2>3. led' = (w = "connect") /\ missed' = missed
    BY <1>1, <2>2 DEF SetLed
  <2>4. QED
    BY <1>5, <2>3
<1>6. QED
  BY <1>2, <1>3, <1>4, <1>5 DEF WorkItems

LEMMA MainLoopStep == IInv /\ MainLoop => IInv'
<1> SUFFICES ASSUME IInv, MainLoop PROVE IInv'
  OBVIOUS
<1>1. /\ pc = "main"
      /\ UNCHANGED <<build, step, halted, failed, sem, conn, events, timer, trigPast, masked>>
  BY DEF MainLoop, bootVars, linkVars, timerVars
<1>2. /\ BleSampleInit' = BleSampleInit /\ MaxConnections' = MaxConnections
      /\ WorkItems' = WorkItems
  BY <1>1, SameBuild
<1>3. /\ Receivers \subseteq Done /\ missed = FALSE /\ led \in BOOLEAN
      /\ work \in Seq(WorkItems)
  BY <1>1 DEF IInv, ReceiversReady, Shapes
<1>4. Done' = Done /\ Receivers' = Receivers
  BY <1>1, <1>2 DEF Done, Receivers
<1>5. CASE work # <<>>
  <2>1. Handle(Head(work)) /\ work' = Tail(work) /\ pc' = pc
    BY <1>5 DEF MainLoop
  <2>2. Head(work) \in WorkItems /\ Tail(work) \in Seq(WorkItems)
    BY <1>3, <1>5, HeadTailProperties
  <2> DEFINE w == Head(work)
  <2>3. w \in WorkItems /\ Handle(w)
    BY <2>1, <2>2
  <2> HIDE DEF w
  <2>4. /\ missed' = FALSE /\ led' \in BOOLEAN
        /\ led' = IF w \in LinkItems THEN w = "connect" ELSE led
    BY <1>3, <2>3, HandleFacts
  <2>5. \A e \in LinkItems : LedWill(work, led, e) => LedWill(work', led', e)
    BY <1>3, <1>5, <2>1, <2>4, HeadHandled DEF w
  <2>6. LedFollows'
    BY <1>1, <1>2, <2>5 DEF IInv, LedFollows, LinkItems
  <2>7. Shapes'
    BY <1>1, <1>2, <2>1, <2>2, <2>4 DEF IInv, Shapes
  <2>8. ReceiversReady' /\ WokenByWork'
    BY <1>1, <1>3, <1>4, <2>1 DEF ReceiversReady, WokenByWork
  <2>9. QED
    BY <2>6, <2>7, <2>8 DEF IInv
<1>6. CASE work = <<>>
  <2>1. pc' = "pend" /\ UNCHANGED <<work, led, missed>>
    BY <1>6 DEF MainLoop, appVars
  <2>2. Shapes'
    BY <1>1, <1>2, <2>1 DEF IInv, Shapes
  <2>3. ReceiversReady' /\ WokenByWork'
    BY <1>3, <1>4, <1>6, <2>1 DEF ReceiversReady, WokenByWork
  <2>4. LedFollows'
    BY <1>1, <1>2, <2>1 DEF IInv, LedFollows
  <2>5. QED
    BY <2>2, <2>3, <2>4 DEF IInv
<1>7. QED
  BY <1>5, <1>6

(* A step of the task that only moves it on, or takes a post. *)
LEMMA SemPendStep == IInv /\ SemPend => IInv'
<1> SUFFICES ASSUME IInv, SemPend PROVE IInv'
  OBVIOUS
<1>1. /\ pc = "pend"
      /\ UNCHANGED <<build, step, halted, failed, work, conn, events, led, missed,
                     timer, trigPast, masked>>
      /\ \/ sem > 0 /\ pc' = "main" /\ sem' = sem - 1
         \/ sem = 0 /\ pc' = "blocked" /\ sem' = sem
         \/ "semCreate" \in failed /\ pc' = "main" /\ sem' = sem
  BY DEF SemPend, bootVars, linkVars, appVars, timerVars
<1>2. /\ BleSampleInit' = BleSampleInit /\ MaxConnections' = MaxConnections
      /\ WorkItems' = WorkItems
  BY <1>1, SameBuild
<1>3. sem \in 0..BLE_TASK_SEM_TIME /\ sem' \in 0..BLE_TASK_SEM_TIME
  BY <1>1, SizeFacts DEF IInv, Shapes
<1>4. Shapes'
  BY <1>1, <1>2, <1>3 DEF IInv, Shapes
<1>5. ReceiversReady'
  BY <1>1, <1>2 DEF IInv, ReceiversReady, Receivers, Done
<1>6. WokenByWork'
  <2>1. CASE pc' = "main"
    BY <2>1 DEF WokenByWork
  <2>2. CASE pc' = "blocked"
    <3>1. sem = 0 \/ "semCreate" \in failed
      BY <1>1, <1>3, <2>2, SizeFacts
    <3>2. QED
      BY <1>1, <3>1 DEF IInv, WokenByWork
  <2>3. QED
    BY <1>1, <2>1, <2>2
<1>7. LedFollows'
  BY <1>1, <1>2 DEF IInv, LedFollows
<1>8. QED
  BY <1>4, <1>5, <1>6, <1>7 DEF IInv

LEMMA TaskStartStep == IInv /\ TaskStart => IInv'
<1> SUFFICES ASSUME IInv, TaskStart PROVE IInv'
  OBVIOUS
<1>1. /\ pc = "start" /\ pc' = "main" /\ trigPast' = TRUE
      /\ UNCHANGED <<build, step, halted, failed, sem, work, conn, events, led, missed,
                     timer, masked>>
  BY DEF TaskStart, bootVars, linkVars, appVars
<1>2. /\ BleSampleInit' = BleSampleInit /\ MaxConnections' = MaxConnections
      /\ WorkItems' = WorkItems
  BY <1>1, SameBuild
<1>3. Shapes'
  BY <1>1, <1>2 DEF IInv, Shapes
<1>4. ReceiversReady'
  BY <1>1, <1>2 DEF IInv, ReceiversReady, Receivers, Done
<1>5. WokenByWork' /\ LedFollows'
  BY <1>1, <1>2 DEF IInv, WokenByWork, LedFollows
<1>6. QED
  BY <1>3, <1>4, <1>5 DEF IInv

LEMMA TimerSteps ==
  IInv /\ (ArmTimer \/ TimerReaches \/ Mask \/ Unmask \/ UNCHANGED vars) => IInv'
<1> SUFFICES ASSUME IInv, ArmTimer \/ TimerReaches \/ Mask \/ Unmask \/ UNCHANGED vars
             PROVE  IInv'
  OBVIOUS
<1>1. UNCHANGED <<build, step, halted, failed, pc, sem, work, conn, events, led, missed,
                  trigPast>>
  BY DEF ArmTimer, TimerReaches, Mask, Unmask, vars, bootVars, taskVars, linkVars,
         appVars, timerVars
<1>2. masked' \in BOOLEAN /\ timer' \in {"off", "armed", "pending", "passed"}
  BY DEF ArmTimer, TimerReaches, Mask, Unmask, vars, timerVars, IInv, Shapes
<1>3. QED
  BY <1>1, <1>2, QuietStep DEF IInv, Shapes

LEMMA Invariance == DeviceSpec => []IInv
<1>1. IInv /\ [DeviceNext]_deviceVars => IInv'
  <2> SUFFICES ASSUME IInv, [DeviceNext]_deviceVars PROVE IInv'
    OBVIOUS
  <2>1. \/ InitStep \/ InitStepFails \/ RfIrqHandler \/ StimerIrqHandler
        \/ TaskStart \/ MainLoop \/ SemPend
        \/ ArmTimer \/ TimerReaches \/ Mask \/ Unmask \/ UNCHANGED vars
    BY DEF DeviceNext, Alone, RadioInterrupt, Task, LoopStep, deviceVars
  <2>2. QED
    BY <2>1, InitStepStep, InitStepFailsStep, RfStep, StimerStep, TaskStartStep,
       MainLoopStep, SemPendStep, TimerSteps
<1>2. QED
  BY <1>1, Initially, PTL DEF DeviceSpec

-----------------------------------------------------------------------------
(* The types; the semaphore stays within its limit. *)
THEOREM TypeCorrect == DeviceSpec => []TypeOK
<1>1. IInv => TypeOK
  <2> SUFFICES ASSUME IInv PROVE TypeOK
    OBVIOUS
  <2>1. Waiting \subseteq WorkItems
    BY DEF IInv, Shapes, Waiting
  <2>2. WorkItems \subseteq {"connect", "disconnect", "otherMeta", "request", "tick"}
    BY DEF WorkItems, LinkItems
  <2>3. QED
    BY <2>1, <2>2 DEF IInv, Shapes, TypeOK
<1>2. QED
  BY <1>1, Invariance, PTL

(* No post is lost between the main loop's last look and the pend, nor at  *)
(* the limit of the semaphore, so as to leave the task asleep on work, as  *)
(* long as the semaphore was created.                                      *)
THEOREM AwakeOnWork == DeviceSpec => []NoSleepOnWork
<1>1. IInv => NoSleepOnWork
  BY DEF IInv, WokenByWork, NoSleepOnWork
<1>2. QED
  BY <1>1, Invariance, PTL

(* Whatever the radio reports while the initialisation still runs is       *)
(* handled when everything is registered.                                  *)
THEOREM ReceiversInPlace == DeviceSpec => []NothingMissed
<1>1. IInv => NothingMissed
  BY DEF IInv, Shapes, NothingMissed
<1>2. QED
  BY <1>1, Invariance, PTL

(* The LED shows whether there is a connection, when all that came of the  *)
(* links is handled.                                                       *)
THEOREM LedCorrect == DeviceSpec => []LedShowsLink
<1>1. IInv => LedShowsLink
  <2> SUFFICES ASSUME IInv, Waiting \cap {"connect", "disconnect"} = {}
               PROVE  /\ conn = 0 => ~led
                      /\ conn > 0 /\ MaxConnections = 1 => led
    BY DEF LedShowsLink
  <2>1. \A e \in LinkItems : ~LastLink(work, e)
    BY DEF LastLink, LinkItems, Waiting
  <2>2. led \in BOOLEAN
    BY DEF IInv, Shapes
  <2>3. conn = 0 => led = FALSE
    BY <2>1 DEF IInv, LedFollows, LedWill, LinkItems
  <2>4. conn > 0 /\ MaxConnections = 1 => led = TRUE
    BY <2>1 DEF IInv, LedFollows, LedWill, LinkItems
  <2>5. QED
    BY <2>3, <2>4
<1>2. QED
  BY <1>1, Invariance, PTL

-----------------------------------------------------------------------------
(* The attribute table.                                                    *)

Names ==
  {"GAP_PS", "DeviceName_CD", "DeviceName_DP", "Appearance_CD", "Appearance_DP",
   "ConnParam_CD", "ConnParam_DP", "GATT_PS", "ServiceChanged_CD", "ServiceChanged_DP",
   "ServiceChanged_CCB", "DIS_PS", "PnpID_CD", "PnpID_DP"}

LEMMA Appended ==
  ASSUME NEW S, NEW s \in Seq(S), NEW t \in Seq(S)
  PROVE  /\ s \o t \in Seq(S) /\ Len(s \o t) = Len(s) + Len(t)
         /\ \A h \in 1..Len(s) : (s \o t)[h] = s[h]
         /\ \A h \in 1..Len(t) : (s \o t)[Len(s) + h] = t[h]
<1>1. Len(s) \in Nat /\ Len(t) \in Nat
  BY LenProperties
<1>2. /\ s \o t \in Seq(S) /\ Len(s \o t) = Len(s) + Len(t)
      /\ \A h \in 1..(Len(s) + Len(t)) :
           (s \o t)[h] = IF h <= Len(s) THEN s[h] ELSE t[h - Len(s)]
  BY ConcatProperties
<1>3. \A h \in 1..Len(s) : h \in 1..(Len(s) + Len(t)) /\ h <= Len(s)
  BY <1>1
<1>4. \A h \in 1..Len(t) : /\ Len(s) + h \in 1..(Len(s) + Len(t))
                           /\ ~(Len(s) + h <= Len(s)) /\ (Len(s) + h) - Len(s) = h
  BY <1>1
<1>5. QED
  BY <1>2, <1>3, <1>4

(* The handles of the values that are declared. *)
LEMMA HandleNames ==
  /\ AttNum = 14
  /\ HandleOf("DeviceName_DP") = 3 /\ HandleOf("Appearance_DP") = 5
  /\ HandleOf("ConnParam_DP") = 7 /\ HandleOf("ServiceChanged_DP") = 10
  /\ HandleOf("PnpID_DP") = 14
<1> DEFINE DisNames == <<"DIS_PS", "PnpID_CD", "PnpID_DP">>
<1>1. /\ GapNames \in Seq(Names) /\ Len(GapNames) = 7
      /\ \A j \in 1..7 : /\ GapNames[j] = "DeviceName_DP" <=> j = 3
                         /\ GapNames[j] = "Appearance_DP" <=> j = 5
                         /\ GapNames[j] = "ConnParam_DP" <=> j = 7
                         /\ GapNames[j] \notin {"ServiceChanged_DP", "PnpID_DP"}
  <2>1. GapNames \in Seq(Names)
    BY DEF GapNames, Names
  <2>2. QED
    BY <2>1 DEF GapNames
<1>2. /\ GattNames \in Seq(Names) /\ Len(GattNames) = 4
      /\ \A j \in 1..4 : /\ GattNames[j] = "ServiceChanged_DP" <=> j = 3
                         /\ GattNames[j] \notin {"DeviceName_DP", "Appearance_DP",
                                                 "ConnParam_DP", "PnpID_DP"}
  <2>1. GattNames \in Seq(Names)
    BY DEF GattNames, Names
  <2>2. QED
    BY <2>1 DEF GattNames
<1>3. /\ DisNames \in Seq(Names) /\ Len(DisNames) = 3
      /\ \A j \in 1..3 : /\ DisNames[j] = "PnpID_DP" <=> j = 3
                         /\ DisNames[j] \notin {"DeviceName_DP", "Appearance_DP",
                                                "ConnParam_DP", "ServiceChanged_DP"}
  <2>1. DisNames \in Seq(Names)
    BY DEF Names
  <2>2. QED
    BY <2>1
<1>4. Handles = GapNames \o GattNames \o DisNames
  BY DEF Handles
<1> HIDE DEF DisNames
<1> DEFINE both == GapNames \o GattNames
<1>5. /\ both \in Seq(Names) /\ Len(both) = 11
      /\ \A h \in 1..7 : both[h] = GapNames[h]
      /\ \A h \in 1..4 : both[7 + h] = GattNames[h]
  <2>1. /\ both \in Seq(Names) /\ Len(both) = Len(GapNames) + Len(GattNames)
        /\ \A h \in 1..Len(GapNames) : both[h] = GapNames[h]
        /\ \A h \in 1..Len(GattNames) : both[Len(GapNames) + h] = GattNames[h]
    <3>1. GapNames \in Seq(Names) /\ GattNames \in Seq(Names)
      BY <1>1, <1>2
    <3>2. QED
      BY <3>1, Appended
  <2> HIDE DEF both
  <2>2. QED
    BY <1>1, <1>2, <2>1
<1> HIDE DEF both
<1>6. /\ Len(Handles) = 14
      /\ \A h \in 1..11 : Handles[h] = both[h]
      /\ \A h \in 1..3 : Handles[11 + h] = DisNames[h]
  <2>1. /\ Len(Handles) = Len(both) + Len(DisNames)
        /\ \A h \in 1..Len(both) : Handles[h] = both[h]
        /\ \A h \in 1..Len(DisNames) : Handles[Len(both) + h] = DisNames[h]
    <3>1. both \in Seq(Names) /\ DisNames \in Seq(Names) /\ Handles = both \o DisNames
      BY <1>3, <1>4, <1>5 DEF both
    <3>2. QED
      BY <3>1, Appended
  <2>2. QED
    BY <1>3, <1>5, <2>1
<1>7. /\ \A h \in 1..7 : Handles[h] = GapNames[h]
      /\ \A h \in 8..11 : Handles[h] = GattNames[h - 7]
      /\ \A h \in 12..14 : Handles[h] = DisNames[h - 11]
  <2>1. \A h \in 1..7 : h \in 1..11
    OBVIOUS
  <2>2. \A h \in 8..11 : h \in 1..11 /\ h - 7 \in 1..4 /\ 7 + (h - 7) = h
    OBVIOUS
  <2>3. \A h \in 12..14 : h - 11 \in 1..3 /\ 11 + (h - 11) = h
    OBVIOUS
  <2>4. \A h \in 8..11 : both[h] = GattNames[h - 7]
    BY <1>5, <2>2
  <2>5. QED
    BY <1>5, <1>6, <2>1, <2>2, <2>3, <2>4
<1>8. \A h \in 1..14 :
        /\ Handles[h] = "DeviceName_DP" <=> h = 3
        /\ Handles[h] = "Appearance_DP" <=> h = 5
        /\ Handles[h] = "ConnParam_DP" <=> h = 7
        /\ Handles[h] = "ServiceChanged_DP" <=> h = 10
        /\ Handles[h] = "PnpID_DP" <=> h = 14
  <2> SUFFICES ASSUME NEW h \in 1..14
               PROVE  /\ Handles[h] = "DeviceName_DP" <=> h = 3
                      /\ Handles[h] = "Appearance_DP" <=> h = 5
                      /\ Handles[h] = "ConnParam_DP" <=> h = 7
                      /\ Handles[h] = "ServiceChanged_DP" <=> h = 10
                      /\ Handles[h] = "PnpID_DP" <=> h = 14
    OBVIOUS
  <2>1. CASE h \in 1..7
    BY <1>1, <1>7, <2>1
  <2>2. CASE h \in 8..11
    <3>1. h - 7 \in 1..4 /\ (h - 7 = 3 <=> h = 10)
      BY <2>2
    <3>2. QED
      BY <1>2, <1>7, <2>2, <3>1
  <2>3. CASE h \in 12..14
    <3>1. h - 11 \in 1..3 /\ (h - 11 = 3 <=> h = 14)
      BY <2>3
    <3>2. QED
      BY <1>3, <1>7, <2>3, <3>1
  <2>4. QED
    BY <2>1, <2>2, <2>3
<1>9. QED
  BY <1>6, <1>8 DEF HandleOf, AttNum, ATT_END_H

LEMMA TableRows ==
  /\ Len(gattTable) = 14
  /\ \A h \in 1..14 : gattTable[h].type = "2800" <=> h \in {1, 8, 12}
  /\ \A h \in 1..14 : gattTable[h].type = "2803" => h \in {2, 4, 6, 9, 13}
  /\ gattTable[1].attNum = 7 /\ gattTable[8].attNum = 4 /\ gattTable[12].attNum = 3
BY DEF gattTable, Service, Char, Value, Config

LEMMA TableDeclares ==
  \A h \in {2, 4, 6, 9, 13} :
    gattTable[gattTable[h].val.value].type = gattTable[h].val.uuid
<1>1. /\ gattTable[2].val = Declares({"read", "notify"}, "DeviceName_DP", "2A00")
      /\ gattTable[4].val = Declares({"read"}, "Appearance_DP", "2A01")
      /\ gattTable[6].val = Declares({"read"}, "ConnParam_DP", "2A04")
      /\ gattTable[9].val = Declares({"indicate"}, "ServiceChanged_DP", "2A05")
      /\ gattTable[13].val = Declares({"read"}, "PnpID_DP", "2A50")
  BY DEF gattTable, Char
<1>2. /\ gattTable[3].type = "2A00" /\ gattTable[5].type = "2A01"
      /\ gattTable[7].type = "2A04" /\ gattTable[10].type = "2A05"
      /\ gattTable[14].type = "2A50"
  BY DEF gattTable, Value
<1>3. /\ gattTable[2].val.value = 3 /\ gattTable[2].val.uuid = "2A00"
      /\ gattTable[4].val.value = 5 /\ gattTable[4].val.uuid = "2A01"
      /\ gattTable[6].val.value = 7 /\ gattTable[6].val.uuid = "2A04"
      /\ gattTable[9].val.value = 10 /\ gattTable[9].val.uuid = "2A05"
      /\ gattTable[13].val.value = 14 /\ gattTable[13].val.uuid = "2A50"
  BY <1>1, HandleNames DEF Declares
<1>4. QED
  BY <1>2, <1>3

(* The three services, and how far a central that has found some of them   *)
(* in their order has come.                                                *)
Groups ==
  {[first |-> 1, last |-> 7, uuid |-> gattTable[1].val],
   [first |-> 8, last |-> 11, uuid |-> gattTable[8].val],
   [first |-> 12, last |-> 14, uuid |-> gattTable[12].val]}

Discovery ==
  /\ groups \subseteq Groups /\ next \in {1, 8, 12, 15}
  /\ \A g \in Groups : g.last < next => g \in groups

Declarations == {gattTable[h].val : h \in {2, 4, 6, 9, 13}}

GattInv == Discovery /\ chars \subseteq Declarations /\ ReadsWhatWasDeclared

LEMMA GattInitially == GattInit => GattInv
BY DEF GattInit, GattInv, Discovery, Groups, ReadsWhatWasDeclared

LEMMA FindServiceStep == GattInv /\ FindService => GattInv'
<1> SUFFICES ASSUME GattInv, FindService PROVE GattInv'
  OBVIOUS
<1> DEFINE found == {h \in next..AttNum : gattTable[h].type = "2800"}
<1>1. next \in {1, 8, 12} /\ AttNum = 14
  BY HandleNames DEF FindService, GattInv, Discovery
<1>2. found = {h \in {1, 8, 12} : next <= h}
  BY <1>1, TableRows
<1> DEFINE first == CHOOSE k \in found : \A j \in found : k <= j
<1>3. first = next
  <2>1. next \in found /\ \A j \in found : next <= j
    BY <1>1, <1>2
  <2>2. first \in found /\ \A j \in found : first <= j
    BY <2>1
  <2> HIDE DEF first
  <2>3. QED
    BY <1>1, <1>2, <2>1, <2>2
<1>4. found # {}
  BY <1>1, <1>2
<1> DEFINE last == first + gattTable[first].attNum - 1
           g == [first |-> first, last |-> last, uuid |-> gattTable[first].val]
<1>5. groups' = groups \cup {g} /\ next' = last + 1 /\ UNCHANGED <<chars, values>>
  BY <1>4 DEF FindService
<1> HIDE DEF found, first
<1>6. \/ next = 1 /\ last = 7
      \/ next = 8 /\ last = 11
      \/ next = 12 /\ last = 14
  BY <1>1, <1>3, TableRows
<1>7. g \in Groups /\ g.first = next /\ g.last = last
  BY <1>3, <1>6 DEF Groups
<1>8. \A x \in Groups : x.last < last + 1 => x.last < next \/ x = g
  BY <1>3, <1>6 DEF Groups
<1> HIDE DEF g, last
<1>9. Discovery'
  <2>1. groups' \subseteq Groups /\ next' \in {1, 8, 12, 15}
    BY <1>5, <1>6, <1>7 DEF GattInv, Discovery
  <2>2. \A x \in Groups : x.last < next' => x \in groups'
    BY <1>5, <1>8 DEF GattInv, Discovery
  <2>3. QED
    BY <2>1, <2>2 DEF Discovery, Groups
<1>10. QED
  BY <1>5, <1>9 DEF GattInv, ReadsWhatWasDeclared, Declarations

LEMMA FindCharacteristicsStep == GattInv /\ FindCharacteristics => GattInv'
<1> SUFFICES ASSUME GattInv, FindCharacteristics PROVE GattInv'
  OBVIOUS
<1>1. PICK g \in groups :
        chars' = {gattTable[h].val : h \in {k \in g.first..g.last : gattTable[k].type = "2803"}}
  BY DEF FindCharacteristics
<1>2. g.first..g.last \subseteq 1..14
  <2>1. g \in Groups
    BY DEF GattInv, Discovery
  <2>2. g.first \in 1..14 /\ g.last \in 1..14
    BY <2>1 DEF Groups
  <2>3. QED
    BY <2>2
<1>3. chars' \subseteq Declarations
  BY <1>1, <1>2, TableRows DEF Declarations
<1>4. values' = {} /\ UNCHANGED <<groups, next>>
  BY DEF FindCharacteristics
<1>5. QED
  BY <1>3, <1>4 DEF GattInv, Discovery, Groups, Declarations, ReadsWhatWasDeclared

LEMMA ReadValueStep == GattInv /\ ReadValue => GattInv'
<1> SUFFICES ASSUME GattInv, ReadValue PROVE GattInv'
  OBVIOUS
<1>1. PICK c \in chars : values' = {[uuid |-> c.uuid, type |-> gattTable[c.value].type]}
  BY DEF ReadValue
<1>2. c.uuid = gattTable[c.value].type
  BY TableDeclares DEF GattInv, Declarations
<1>3. ReadsWhatWasDeclared'
  BY <1>1, <1>2 DEF ReadsWhatWasDeclared
<1>4. UNCHANGED <<groups, next, chars>>
  BY DEF ReadValue
<1>5. QED
  BY <1>3, <1>4 DEF GattInv, Discovery, Groups, Declarations

LEMMA GattInvariance == DeviceSpec => []GattInv
<1>1. DeviceInit => GattInv
  BY GattInitially DEF DeviceInit
<1>2. GattInv /\ [DeviceNext]_deviceVars => GattInv'
  <2> SUFFICES ASSUME GattInv, [DeviceNext]_deviceVars PROVE GattInv'
    OBVIOUS
  <2>1. CASE UNCHANGED gattVars
    BY <2>1 DEF gattVars, GattInv, Discovery, Groups, Declarations, ReadsWhatWasDeclared
  <2>2. CASE Forget
    BY <2>2 DEF Forget, GattInv, Discovery, Groups, Declarations, ReadsWhatWasDeclared
  <2>3. UNCHANGED gattVars \/ Forget \/ FindService \/ FindCharacteristics \/ ReadValue
    BY DEF DeviceNext, Alone, RadioInterrupt, Task, LoopStep, Answer, deviceVars
  <2>4. QED
    BY <2>1, <2>2, <2>3, FindServiceStep, FindCharacteristicsStep, ReadValueStep
<1>3. QED
  BY <1>1, <1>2, PTL DEF DeviceSpec

(* The services a central finds are those of the table, without a gap and  *)
(* without an overlap, whenever its link was lost in between.              *)
THEOREM ServicesCover == DeviceSpec => []ServicesTile
<1>1. GattInv => ServicesTile
  <2> SUFFICES ASSUME GattInv PROVE ServicesTile
    OBVIOUS
  <2>1. AttNum = 14 /\ AttNum = Len(gattTable)
    BY HandleNames, TableRows
  <2>2. ASSUME next > 14, NEW h \in 1..14
        PROVE  \E g \in groups : h \in g.first..g.last
    <3>1. PICK g \in Groups : h \in g.first..g.last
      <4>1. h \in 1..7 \/ h \in 8..11 \/ h \in 12..14
        OBVIOUS
      <4>2. QED
        BY <4>1 DEF Groups
    <3>2. next = 15 /\ g.last < 15
      BY <2>2 DEF GattInv, Discovery, Groups
    <3>3. QED
      BY <3>1, <3>2 DEF GattInv, Discovery
  <2>3. ASSUME NEW g \in Groups, NEW h \in g.first..g.last
        PROVE  gattTable[h].type = "2800" <=> h = g.first
    <3>1. CASE g.first = 1 /\ g.last = 7
      BY <2>3, <3>1, TableRows
    <3>2. CASE g.first = 8 /\ g.last = 11
      BY <2>3, <3>2, TableRows
    <3>3. CASE g.first = 12 /\ g.last = 14
      BY <2>3, <3>3, TableRows
    <3>4. QED
      BY <3>1, <3>2, <3>3 DEF Groups
  <2>4. QED
    BY <2>1, <2>2, <2>3 DEF ServicesTile, GattInv, Discovery
<1>2. QED
  BY <1>1, GattInvariance, PTL

(* A value is read where its declaration says it is. *)
THEOREM ReadsDeclared == DeviceSpec => []ReadsWhatWasDeclared
<1>1. GattInv => ReadsWhatWasDeclared
  BY DEF GattInv
<1>2. QED
  BY <1>1, GattInvariance, PTL
=============================================================================
