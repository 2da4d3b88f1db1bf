----------------------------- MODULE SerialReaders -----------------------------
(***************************************************************************)
(* Several tasks in uart_read of ota_demo/ota_demo/serial.c at once.  The  *)
(* comment above the loop of uart_read counts on "another thread" that may *)
(* "consume data", and the one at the head of the file claims thread       *)
(* safety; the OTA demo itself has one reading task, which SerialRx models *)
(* with the interrupt handler in full.  Here the handler stores a byte in  *)
(* one step and the ring is a sequence.                                    *)
(*                                                                         *)
(* LOS_EventWrite makes every task ready that waits on the event; such a   *)
(* task polls and clears the event again when it runs.                     *)
(***************************************************************************)
EXTENDS Naturals, Sequences

CONSTANTS
  Readers,      \* the tasks
  UART_RX_BUF,  \* slots of the ring buffer
  MaxBytes      \* bound on the number of bytes that arrive

VARIABLES
  ring,     \* the bytes stored, oldest first; a byte is its arrival number
  event,    \* bit 0 of rx.event
  pc,       \* where each reader is
  arrived   \* number of bytes so far

vars == <<ring, event, pc, arrived>>

Init ==
  /\ ring = <<>> /\ event = FALSE /\ arrived = 0
  /\ pc = [r \in Readers |-> "idle"]

Move(r, from, to) == pc[r] = from /\ pc' = [pc EXCEPT ![r] = to]

(* uart_getc_unsafe in the handler. *)
Store ==
  /\ arrived < MaxBytes
  /\ arrived' = arrived + 1
  /\ IF Len(ring) < UART_RX_BUF - 1
     THEN /\ ring' = Append(ring, arrived')
          /\ event' = TRUE
          /\ pc' = [r \in Readers |-> IF pc[r] = "blocked" THEN "woken" ELSE pc[r]]
     ELSE UNCHANGED <<ring, event, pc>>

Call(r) == Move(r, "idle", "check") /\ UNCHANGED <<ring, event, arrived>>

(* The locked test of the loop: nothing there, or the oldest byte is taken *)
(* and the lock given up after it.                                         *)
Empty(r) ==
  /\ ring = <<>>
  /\ Move(r, "check", "poll")
  /\ UNCHANGED <<ring, event, arrived>>
Take(r) ==
  /\ ring # <<>>
  /\ Move(r, "check", "idle")
  /\ ring' = Tail(ring)
  /\ UNCHANGED <<event, arrived>>

(* LOS_EventRead: poll and clear, wait, poll and clear again. *)
Poll(r) ==
  /\ Move(r, "poll", IF event THEN "check" ELSE "blocked")
  /\ event' = FALSE
  /\ UNCHANGED <<ring, arrived>>
Wake(r) ==
  /\ Move(r, "woken", "check")
  /\ event' = FALSE
  /\ UNCHANGED <<ring, arrived>>
Expire(r) == Move(r, "blocked", "idle") /\ UNCHANGED <<ring, event, arrived>>

Reader(r) == Call(r) \/ Empty(r) \/ Take(r) \/ Poll(r) \/ Wake(r) \/ Expire(r)

Next == Store \/ \E r \in Readers : Reader(r)

Spec == Init /\ [][Next]_vars

-----------------------------------------------------------------------------
(* No reader sleeps on a byte that nobody is about to take: if one is      *)
(* blocked and the ring holds a byte, the event is set or another reader   *)
(* is on its way to the ring.                                              *)
NobodyStranded ==
  ring # <<>> /\ (\E r \in Readers : pc[r] = "blocked") =>
    event \/ \E r \in Readers : pc[r] \in {"check", "woken"}
=============================================================================
