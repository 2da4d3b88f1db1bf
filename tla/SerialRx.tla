------------------------------ MODULE SerialRx ------------------------------
(***************************************************************************)
(* The receive side of ota_demo/ota_demo/serial.c: the UART interrupt      *)
(* handler, the ring buffer it fills, the LiteOS event that wakes the      *)
(* reading task, and the two read functions uart_read and uart_read_buf.   *)
(*                                                                         *)
(* One CPU: the handler preempts the task, the task never preempts the     *)
(* handler.  A section of the task between LOS_IntLock and LOS_IntRestore  *)
(* is one action; the task can be interrupted between two actions.  A byte *)
(* is its arrival number 1, 2, 3, ..., and stands for whatever octet the   *)
(* line carried.                                                           *)
(***************************************************************************)
EXTENDS Naturals, Sequences

CONSTANTS
  UART_RX_BUF,    \* slots of the ring buffer (256 in the code)
  HW_FIFO_SIZE,   \* bytes the receive FIFO of the UART holds
  Requests,       \* sizes uart_read_buf is asked for
  MaxRequest,     \* a bound on them: the size of the caller's buffer
  ReadTimeouts,   \* timeouts uart_read is called with
  BufTimeouts,    \* timeouts uart_read_buf is called with
  MaxBytes        \* bound on the number of bytes that arrive

ASSUME RingAssumption == UART_RX_BUF \in Nat /\ UART_RX_BUF >= 2
ASSUME RequestAssumption == MaxRequest \in Nat /\ Requests \subseteq 1..MaxRequest
ASSUME BoundAssumption == HW_FIFO_SIZE \in Nat \ {0} /\ MaxBytes \in Nat
ASSUME TimeoutAssumption ==
  /\ ReadTimeouts \subseteq {"finite", "forever"}
  /\ BufTimeouts \subseteq {"zero", "finite", "forever"}

VARIABLES
  arrived,   \* number of bytes the line has put into the UART's FIFO
  popped,    \* number of bytes the handler has taken out of it
  irq,       \* is the handler running?
  rx,        \* g_uartBuf[].rx: the slots of the ring
  rxStart,   \* g_uartState.dev[].rx.start
  rxEnd,     \* g_uartState.dev[].rx.end
  event,     \* bit 0 of g_uartState.dev[].rx.event
  irqBuf,    \* g_uartState.dev->rx.irq_buf; armed stands for ptr # NULL
  buf,       \* the caller's buffer that irq_buf.ptr points to
  pc,        \* where the reading task is
  timeOut,   \* its timeOut argument
  timedOut,  \* history: has the LOS_EventRead of this call timed out?
  out,       \* history: the bytes returned to callers
  dropped    \* history: the number of bytes thrown away

hwVars   == <<arrived, popped, irq>>
ringVars == <<rx, rxStart, rxEnd>>
bufVars  == <<irqBuf, buf>>
taskVars == <<pc, timeOut, timedOut>>
histVars == <<out, dropped>>
vars     == <<hwVars, ringVars, event, bufVars, taskVars, histVars>>

Slots     == 0..(UART_RX_BUF - 1)
BufIndex  == 0..(MaxRequest - 1)
Inside(locations) == pc \in locations
InRead    == {"rCheck", "rPoll", "rBlocked", "rTimedOut"}
InReadBuf == {"bPoll", "bBlocked", "bFinish"}

(* The slot i places after slot s. *)
Slot(s, i) == (s + i) % UART_RX_BUF

(* The number of bytes in a ring that starts at s and ends at e, and the n *)
(* bytes from slot s on in the slots r.                                    *)
Count(s, e) == IF e >= s THEN e - s ELSE e + UART_RX_BUF - s
Segment(r, s, n) == [i \in 1..n |-> r[Slot(s, i - 1)]]

RxCount == Count(rxStart, rxEnd)
RxEmpty == rxStart = rxEnd
Oldest(n) == Segment(rx, rxStart, n)

(* The first n bytes of a buffer b. *)
Prefix(b, n) == [i \in 1..n |-> b[i - 1]]

(* The number of bytes in the buffer of a uart_read_buf that has not yet   *)
(* returned.                                                               *)
Held == IF Inside(InReadBuf) THEN irqBuf.nbytes ELSE 0

NoBuf == [armed |-> FALSE, nbytes |-> 0, max |-> 0]

(* The state SerialInit leaves: empty ring, event initialised, interrupt   *)
(* enabled, no read in progress.                                           *)
Init ==
  /\ arrived = 0 /\ popped = 0 /\ irq = FALSE
  /\ rx = [i \in Slots |-> 0] /\ rxStart = 0 /\ rxEnd = 0
  /\ event = FALSE
  /\ irqBuf = NoBuf /\ buf = [i \in BufIndex |-> 0]
  /\ pc = "idle" /\ timeOut = "finite" /\ timedOut = FALSE
  /\ out = <<>> /\ dropped = 0

-----------------------------------------------------------------------------
(* The line and the interrupt handler.                                     *)

Arrive ==
  /\ arrived < MaxBytes /\ arrived - popped < HW_FIFO_SIZE
  /\ arrived' = arrived + 1
  /\ UNCHANGED <<popped, irq, ringVars, event, bufVars, taskVars, histVars>>

IrqEnter ==
  /\ ~irq /\ popped < arrived
  /\ irq' = TRUE
  /\ UNCHANGED <<arrived, popped, ringVars, event, bufVars, taskVars, histVars>>

(* VendorUartGetChar: the handler takes the oldest byte of the FIFO. *)
GetChar ==
  /\ irq /\ popped < arrived
  /\ popped' = popped + 1
  /\ UNCHANGED <<arrived, irq>>

(* LOS_EventWrite and LOS_EventClear.  Mutants: the call is left out. *)
NotWritten == UNCHANGED event
EventWrite == event' = TRUE
NotCleared == UNCHANGED event
EventClear == event' = FALSE

(* Has the caller's buffer all it asked for?  Mutant: > for >=. *)
FullLate(n, max) == n > max
BufFull(n, max) == n >= max

(* A reader waits with its own buffer: the byte goes straight into it, and *)
(* the last byte it asked for disarms the buffer and writes the event.     *)
IrqToCaller ==
  /\ GetChar
  /\ irqBuf.armed
  /\ buf' = [buf EXCEPT ![irqBuf.nbytes] = popped + 1]
  /\ LET full == BufFull(irqBuf.nbytes + 1, irqBuf.max)
     IN  /\ irqBuf' = [irqBuf EXCEPT !.nbytes = @ + 1, !.armed = ~full]
         /\ IF full THEN EventWrite ELSE UNCHANGED event
  /\ UNCHANGED <<ringVars, taskVars, histVars>>

(* Mutants: the ring is not tested for full; it counts as full one slot    *)
(* early.                                                                  *)
NeverFull == FALSE
FullEarly == Slot(rxEnd, 2) = rxStart
RxFull == Slot(rxEnd, 1) = rxStart

(* uart_getc_unsafe: the byte goes into the ring, unless the ring is full. *)
IrqToRing ==
  /\ GetChar
  /\ ~irqBuf.armed
  /\ IF RxFull
     THEN dropped' = dropped + 1 /\ UNCHANGED <<rx, rxEnd, event>>
     ELSE /\ rx' = [rx EXCEPT ![rxEnd] = popped + 1]
          /\ rxEnd' = Slot(rxEnd, 1)
          /\ EventWrite
          /\ UNCHANGED dropped
  /\ UNCHANGED <<rxStart, bufVars, taskVars, out>>

(* uart_get_rxfifo_num is 0: the handler returns. *)
IrqExit ==
  /\ irq /\ popped = arrived
  /\ irq' = FALSE
  /\ UNCHANGED <<arrived, popped, ringVars, event, bufVars, taskVars, histVars>>

-----------------------------------------------------------------------------
(* A step of the task from one place to the next: the handler, which has   *)
(* priority, is not running.                                               *)
TaskStep(from, to) == ~irq /\ pc = from /\ pc' = to /\ UNCHANGED hwVars

(* LOS_EventRead(event, 1, LOS_WAITMODE_OR | LOS_WAITMODE_CLR, timeOut) as *)
(* the two functions use it: return at once and clear the bit when it is   *)
(* set, else block until it is written or the timeout expires.             *)
EventPoll(here, blocked, done) ==
  /\ TaskStep(here, IF event THEN done ELSE blocked)
  /\ event' = FALSE
  /\ UNCHANGED <<ringVars, bufVars, timeOut, timedOut, histVars>>

EventWake(blocked, done) ==
  /\ TaskStep(blocked, done)
  /\ event /\ event' = FALSE
  /\ UNCHANGED <<ringVars, bufVars, timeOut, timedOut, histVars>>

(* The tick that ends the wait; a byte may still arrive before the task    *)
(* itself runs.                                                            *)
EventTimeout(blocked, expired) ==
  /\ TaskStep(blocked, expired)
  /\ ~event /\ timeOut = "finite"
  /\ timedOut' = TRUE
  /\ UNCHANGED <<ringVars, event, bufVars, timeOut, histVars>>

-----------------------------------------------------------------------------
(* uart_read: one byte from the ring.                                      *)

ReadCall(t) ==
  /\ TaskStep("idle", "rCheck")
  /\ timeOut' = t /\ timedOut' = FALSE
  /\ UNCHANGED <<ringVars, event, bufVars, histVars>>

(* The loop's test with interrupts locked: a byte is there.  It is taken   *)
(* and returned; the event keeps its value.                                *)
ReadTake ==
  /\ TaskStep("rCheck", "idle")
  /\ ~RxEmpty
  /\ out' = Append(out, rx[rxStart])
  /\ rxStart' = Slot(rxStart, 1)
  /\ UNCHANGED <<rx, rxEnd, event, bufVars, timeOut, timedOut, dropped>>

(* The same test: the ring is empty.  Interrupts are restored and the task *)
(* goes to LOS_EventRead.                                                  *)
ReadWait ==
  /\ TaskStep("rCheck", "rPoll")
  /\ RxEmpty
  /\ UNCHANGED <<ringVars, event, bufVars, timeOut, timedOut, histVars>>

(* Mutant: a stale event is cleared before the wait, outside the lock. *)
ReadPollClearsFirst ==
  /\ TaskStep("rPoll", "rBlocked") /\ event' = FALSE
  /\ UNCHANGED <<ringVars, bufVars, timeOut, timedOut, histVars>>
ReadPoll    == EventPoll("rPoll", "rBlocked", "rCheck")
ReadWake    == EventWake("rBlocked", "rCheck")
ReadExpire  == EventTimeout("rBlocked", "rTimedOut")

(* LOS_EventRead returned an error: uart_read returns -1. *)
ReadFail ==
  /\ TaskStep("rTimedOut", "idle")
  /\ UNCHANGED <<ringVars, event, bufVars, timeOut, timedOut, histVars>>

-----------------------------------------------------------------------------
(* uart_read_buf: up to max bytes, first from the ring, then directly from *)
(* the handler.                                                            *)

(* The number of bytes the locked loop drains for a request of max.        *)
(* Mutant: the ring is not drained.                                        *)
NoneDrained(max) == 0
Drained(max) == IF RxCount < max THEN RxCount ELSE max

(* The request is met from the ring alone, or the caller does not want to  *)
(* wait: return what there is.                                             *)
BufFromRing(t, max) ==
  /\ TaskStep("idle", "idle")
  /\ Drained(max) = max \/ t = "zero"
  /\ out' = out \o Oldest(Drained(max))
  /\ rxStart' = Slot(rxStart, Drained(max))
  /\ UNCHANGED <<rx, rxEnd, event, bufVars, timeOut, timedOut, dropped>>

(* Not enough: the rest of the ring is in the buffer, the buffer is handed *)
(* to the handler and a stale event is cleared, in one locked section.     *)
BufArm(t, max) ==
  /\ TaskStep("idle", "bPoll")
  /\ Drained(max) < max /\ t # "zero"
  /\ LET n == Drained(max)
     IN  /\ buf' = [i \in BufIndex |-> IF i < n THEN rx[Slot(rxStart, i)] ELSE buf[i]]
         /\ rxStart' = Slot(rxStart, n)
         /\ irqBuf' = [armed |-> TRUE, nbytes |-> n, max |-> max]
  /\ EventClear
  /\ timeOut' = t /\ timedOut' = FALSE
  /\ UNCHANGED <<rx, rxEnd, histVars>>

(* Mutant: a timeout starts the wait again instead of ending it. *)
BufExpireRetries == EventTimeout("bBlocked", "bPoll")
BufPoll   == EventPoll("bPoll", "bBlocked", "bFinish")
BufWake   == EventWake("bBlocked", "bFinish")
BufExpire == EventTimeout("bBlocked", "bFinish")

(* irq_buf when the call is over.  Mutant: the pointer is left in it. *)
PointerLeft == [NoBuf EXCEPT !.armed = irqBuf.armed]
TakenBack == NoBuf

(* After LOS_EventRead, whose result is ignored: the buffer is taken back  *)
(* from the handler and the byte count is returned.                        *)
BufFinish ==
  /\ TaskStep("bFinish", "idle")
  /\ out' = out \o Prefix(buf, irqBuf.nbytes)
  /\ irqBuf' = TakenBack
  /\ UNCHANGED <<ringVars, event, buf, timeOut, timedOut, dropped>>

-----------------------------------------------------------------------------
Handler == IrqEnter \/ IrqToCaller \/ IrqToRing \/ IrqExit

Call ==
  \/ \E t \in ReadTimeouts : ReadCall(t)
  \/ \E t \in BufTimeouts, max \in Requests : BufFromRing(t, max) \/ BufArm(t, max)

Running ==
  \/ ReadTake \/ ReadWait \/ ReadPoll \/ ReadWake \/ ReadExpire \/ ReadFail
  \/ BufPoll \/ BufWake \/ BufExpire \/ BufFinish

Next == Arrive \/ Handler \/ Call \/ Running

(* The handler runs when the interrupt is pending, and the scheduler and   *)
(* the tick let a read in progress take its next step.  Nothing forces a   *)
(* byte to arrive or the program to call again.                            *)
Fairness == WF_vars(Handler) /\ WF_vars(Running)

Spec == Init /\ [][Next]_vars
FairSpec == Spec /\ Fairness

-----------------------------------------------------------------------------
(* Every variable stays in its type; in particular the handler never       *)
(* stores beyond the end of the caller's buffer or of the ring.            *)
TypeOK ==
  /\ arrived \in Nat /\ popped \in Nat /\ popped <= arrived
  /\ irq \in BOOLEAN /\ event \in BOOLEAN
  /\ rx \in [Slots -> Nat] /\ rxStart \in Slots /\ rxEnd \in Slots
  /\ irqBuf \in [armed : BOOLEAN, nbytes : 0..MaxRequest, max : 0..MaxRequest]
  /\ buf \in [BufIndex -> Nat]
  /\ pc \in {"idle"} \cup InRead \cup InReadBuf
  /\ timeOut \in {"zero", "finite", "forever"} /\ timedOut \in BOOLEAN
  /\ out \in Seq(Nat) /\ dropped \in Nat

(* The handler holds a caller's buffer only while that call to             *)
(* uart_read_buf is waiting for it, with room for one more byte, and only  *)
(* when the ring is empty.  It never writes into a buffer whose function   *)
(* has returned, nor past its end, and no byte waits in the ring behind a  *)
(* byte that goes to the buffer.                                           *)
CallerBufferGuarded ==
  irqBuf.armed => /\ Inside(InReadBuf)
                  /\ irqBuf.nbytes < irqBuf.max
                  /\ RxEmpty

(* The bytes of the channel in the order in which they reach the caller:   *)
(* returned, then in the buffer of the call in progress, then in the ring. *)
Waiting == Prefix(buf, Held) \o Oldest(RxCount)

(* No reordering and no duplicate, whichever of the two paths a byte takes *)
(* and however uart_read and uart_read_buf are mixed: arrival numbers grow *)
(* strictly along the whole channel.                                       *)
Bytes == out \o Waiting
FifoOrder == \A i, j \in 1..Len(Bytes) : i < j => Bytes[i] < Bytes[j]

(* Every byte the handler took is returned, in the caller's buffer, in the *)
(* ring, or was thrown away on a full ring: none disappears between the    *)
(* two paths.                                                              *)
Conservation == popped = Len(out) + Held + RxCount + dropped

(* uart_read_buf returns fewer bytes than asked for only after its wait    *)
(* has expired, never because an event left over from an earlier byte      *)
(* ended the wait.                                                         *)
ShortReadOnlyOnTimeout ==
  pc = "bFinish" /\ ~timedOut => irqBuf.nbytes = irqBuf.max

(* No lost wake-up: a task blocked in LOS_EventRead whose byte is in the   *)
(* ring, or whose buffer is full, has the event set.                       *)
NoLostWakeup ==
  /\ pc = "rBlocked" /\ ~RxEmpty => event
  /\ pc = "bBlocked" /\ ~irqBuf.armed => event

(* The inductive invariant behind the safety properties.  The buffer is    *)
(* armed exactly while a waiting call has room left, and then the ring is  *)
(* empty; a task on its way into LOS_EventRead or blocked in it finds the  *)
(* event set exactly when what it waits for is there; and no byte in the   *)
(* channel is newer than the last one the handler took.                    *)
BufferState ==
  /\ ~Inside(InReadBuf) => irqBuf = NoBuf
  /\ Inside(InReadBuf) => /\ irqBuf.max > 0
                          /\ irqBuf.nbytes <= irqBuf.max
                          /\ irqBuf.armed <=> irqBuf.nbytes < irqBuf.max
  /\ irqBuf.armed => RxEmpty
EventState ==
  /\ Inside({"rPoll", "rBlocked"}) /\ ~RxEmpty => event
  /\ Inside({"bPoll", "bBlocked"}) => (event <=> ~irqBuf.armed)
  /\ pc = "bFinish" /\ ~timedOut => ~irqBuf.armed
NotNewer == \A i \in 1..Len(Bytes) : Bytes[i] <= popped
IInv ==
  /\ TypeOK /\ BufferState /\ EventState
  /\ FifoOrder /\ NotNewer /\ Conservation

(* With LOS_WAIT_FOREVER the only way out of uart_read is a byte, and a    *)
(* byte in the ring is always enough.                                      *)
WaitForeverReads ==
  Inside(InRead) /\ timeOut = "forever" /\ ~RxEmpty ~> pc = "idle"

(* uart_read_buf with a finite timeout always returns. *)
BufReadReturns == Inside(InReadBuf) /\ timeOut = "finite" ~> pc = "idle"

(* serial.c implements the lossy FIFO channel: a byte is lost only with    *)
(* UART_RX_BUF - 1 bytes waiting.                                          *)
Channel == INSTANCE ByteChannel WITH
  Capacity <- UART_RX_BUF - 1, seen <- popped, queue <- Waiting
RefinesChannel == Channel!ChanSpec
=============================================================================
