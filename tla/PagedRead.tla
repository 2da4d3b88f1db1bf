----------------------------- MODULE PagedRead -----------------------------
(***************************************************************************)
(* The two commands of ota_demo/ota_demo/app.c that read the flash back in *)
(* pages through workBuf: CommandRunPrint and CommandRunHashSha256.  The   *)
(* unit at flash address a is a itself; -1 is whatever workBuf held before *)
(* the command.  A failed HotaRead is not noticed and leaves workBuf as it *)
(* was.                                                                    *)
(***************************************************************************)
EXTENDS Integers, Sequences

CONSTANTS
  XMODEM_BUF_SIZE,  \* units in a page and in workBuf (1024)
  DefaultLen,       \* length used for a negative size (256)
  Starts, Sizes,    \* the two arguments a command is called with
  ReadMayFail       \* can HotaRead fail?

ASSUME PageAssumption == XMODEM_BUF_SIZE \in Nat \ {0} /\ DefaultLen \in Nat
ASSUME ArgumentAssumption == Starts \subseteq Nat /\ Sizes \subseteq Int
ASSUME FailAssumption == ReadMayFail \in BOOLEAN

VARIABLES
  pc,                   \* "idle", "print", "hash" or "done"
  start, bufLen,        \* locals of the command
  offset, next,         \* the loop's variables
  workBuf,              \* state->workBuf
  output,               \* the units printed or hashed, in order
  failed                \* history: has a HotaRead failed?

args == <<start, bufLen>>
vars == <<pc, args, offset, next, workBuf, output, failed>>

BufIndex == 0..(XMODEM_BUF_SIZE - 1)

Init ==
  /\ pc = "idle" /\ start = 0 /\ bufLen = 0 /\ offset = 0 /\ next = 0
  /\ workBuf = [i \in BufIndex |-> -1]
  /\ output = <<>> /\ failed = FALSE

(* The length to read.  Mutant: a negative size is taken as it is. *)
SignedLen(arg2) == arg2
LengthOf(arg2) == IF arg2 >= 0 THEN arg2 ELSE DefaultLen

(* Entry of a command up to the test of its loop. *)
Enter(command, arg1, arg2) ==
  /\ pc = "idle"
  /\ pc' = command
  /\ start' = arg1
  /\ bufLen' = LengthOf(arg2)
  /\ offset' = 0 /\ next' = XMODEM_BUF_SIZE
  /\ UNCHANGED <<workBuf, output, failed>>

CallPrint(arg1, arg2) == Enter("print", arg1, arg2)
CallHash(arg1, arg2)  == Enter("hash", arg1, arg2)

(* HotaRead(addr, n, workBuf), and workBuf's first n units put out. *)
ReadAndPut(addr, n) ==
  /\ \/ /\ workBuf' = [i \in BufIndex |-> IF i < n THEN addr + i ELSE workBuf[i]]
        /\ UNCHANGED failed
     \/ ReadMayFail /\ failed' = TRUE /\ UNCHANGED workBuf
  /\ output' = output \o [i \in 1..n |-> workBuf'[i - 1]]

(* The loop's test.  Mutant: it lets one page too many through. *)
NotBeyond == next - XMODEM_BUF_SIZE < bufLen
InLoop == next < bufLen

(* One round of the loop: a whole page. *)
Page(command) ==
  /\ pc = command /\ InLoop
  /\ ReadAndPut(start + offset, XMODEM_BUF_SIZE)
  /\ offset' = next /\ next' = next + XMODEM_BUF_SIZE
  /\ UNCHANGED <<pc, args>>

PrintPage == Page("print")
HashPage  == Page("hash")

(* After the loop: the remainder, read from the end of the range.  Mutant: *)
(* read from where the loop left off in the next page.                     *)
RestAt == start + next
RestStart == start + bufLen - (bufLen % XMODEM_BUF_SIZE)
Rest(command) ==
  /\ pc = command /\ ~InLoop
  /\ LET rem == bufLen % XMODEM_BUF_SIZE
     IN  IF rem # 0 THEN ReadAndPut(RestStart, rem)
                    ELSE UNCHANGED <<workBuf, output, failed>>
  /\ pc' = "done"
  /\ UNCHANGED <<args, offset, next>>

PrintRest == Rest("print")
HashRest  == Rest("hash")

Next ==
  \/ \E s \in Starts, n \in Sizes : CallPrint(s, n) \/ CallHash(s, n)
  \/ PrintPage \/ PrintRest \/ HashPage \/ HashRest

Spec == Init /\ [][Next]_vars

-----------------------------------------------------------------------------
(* Every variable stays in its type. *)
TypeOK ==
  /\ pc \in {"idle", "print", "hash", "done"}
  /\ start \in Nat /\ bufLen \in Nat /\ offset \in Nat /\ next \in Nat
  /\ workBuf \in [BufIndex -> Int] /\ output \in Seq(Int) /\ failed \in BOOLEAN

(* While every read succeeds, what is put out is the flash from start on,  *)
(* no unit left out between two pages or before the remainder, and none    *)
(* beyond the length asked for.                                            *)
Contiguous ==
  ~failed => /\ \A i \in 1..Len(output) : output[i] = start + i - 1
             /\ Len(output) <= bufLen

(* What a command that has ended has put out: all of the length it was     *)
(* asked for, but for its last page when that length is whole pages.       *)
OutputLength ==
  pc = "done" =>
    Len(output) = IF bufLen > 0 /\ bufLen % XMODEM_BUF_SIZE = 0
                  THEN bufLen - XMODEM_BUF_SIZE ELSE bufLen

(* The length asked for is covered, as the two commands' descriptions in   *)
(* ota_demo/README.md have it.                                             *)
RangeCovered == pc = "done" => Len(output) = bufLen
=============================================================================
