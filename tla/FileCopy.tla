------------------------------ MODULE FileCopy ------------------------------
(***************************************************************************)
(* What an upload promises: the device holds a prefix of the file, which   *)
(* only grows; a normal end is reached only with the whole of it, and an   *)
(* upload that has ended stays as it is.  A file is the sequence of its    *)
(* units, and 0 stands for the padding after its last unit.                *)
(***************************************************************************)
EXTENDS Naturals, Sequences

CONSTANTS
  FileSize,   \* units of the file
  DestSz,     \* units the device was told to expect
  MaxStep     \* the most units one step adds

VARIABLES
  copied,     \* the units the device holds, in order
  outcome     \* "running", "complete" or "aborted"

copyVars == <<copied, outcome>>

File(i) == IF i <= FileSize THEN i ELSE 0
FirstUnits(n) == [i \in 1..n |-> File(i)]
Wanted == IF FileSize < DestSz THEN FileSize ELSE DestSz

CopyInit == copied = <<>> /\ outcome = "running"

Extend ==
  /\ outcome = "running"
  /\ \E n \in Len(copied) + 1 .. Len(copied) + MaxStep :
       n <= DestSz /\ copied' = FirstUnits(n)
  /\ UNCHANGED outcome

Complete ==
  /\ outcome = "running"
  /\ Len(copied) >= Wanted
  /\ outcome' = "complete"
  /\ UNCHANGED copied

Abort ==
  /\ outcome = "running"
  /\ outcome' = "aborted"
  /\ UNCHANGED copied

CopySpec == CopyInit /\ [][Extend \/ Complete \/ Abort]_copyVars
=============================================================================
