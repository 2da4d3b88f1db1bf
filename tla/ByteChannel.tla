---------------------------- MODULE ByteChannel ----------------------------
(***************************************************************************)
(* What serial.c promises to its caller: a first-in first-out channel of   *)
(* bytes.  A byte is its arrival number, so two bytes are never confused.  *)
(* The channel may lose a byte only when at least Capacity bytes are       *)
(* already waiting, never reorders, and never hands a byte out twice.      *)
(***************************************************************************)
EXTENDS Naturals, Sequences

CONSTANTS
  Capacity,  \* the number of waiting bytes the channel always has room for
  MaxBytes   \* bound on the number of bytes offered to the channel

VARIABLES
  seen,      \* the number of bytes offered so far
  queue,     \* the bytes accepted and not yet handed out, oldest first
  out        \* the bytes handed out, oldest first

chanVars == <<seen, queue, out>>

ChanInit ==
  /\ seen = 0
  /\ queue = <<>>
  /\ out = <<>>

(* The next byte is accepted. *)
Accept ==
  /\ seen < MaxBytes
  /\ seen' = seen + 1
  /\ queue' = Append(queue, seen + 1)
  /\ UNCHANGED out

(* The next byte is lost, because the channel is full. *)
Lose ==
  /\ seen < MaxBytes
  /\ Len(queue) >= Capacity
  /\ seen' = seen + 1
  /\ UNCHANGED <<queue, out>>

(* The reader takes the n oldest bytes. *)
Take(n) ==
  /\ out' = out \o SubSeq(queue, 1, n)
  /\ queue' = SubSeq(queue, n + 1, Len(queue))
  /\ UNCHANGED seen

ChanNext ==
  \/ Accept
  \/ Lose
  \/ \E n \in 1..Len(queue) : Take(n)

ChanSpec == ChanInit /\ [][ChanNext]_chanVars
=============================================================================
