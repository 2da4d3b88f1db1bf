------------------------------ MODULE OtaSession ------------------------------
(***************************************************************************)
(* What the commands of ota_demo/ota_demo/app.c do to the device: the      *)
(* upload and its hash, the hash of what is in flash, the signature check, *)
(* cancel, restart and rollback, with a loss of power at any moment of an  *)
(* upload.  An upload goes packet by packet, every other command is one    *)
(* step; XMODEM itself is in Xmodem, the reading of pages in PagedRead,    *)
(* the typing of commands in OtaConsole.                                   *)
(*                                                                         *)
(* A unit is the data of a packet; an image is a sequence of units, all    *)
(* different, and what a sender adds to it is padding.  The SHA-256 of     *)
(* data is the data itself.                                                *)
(***************************************************************************)
EXTENDS Integers, Sequences

CONSTANTS
  Images,        \* the signed images
  ImageLen,      \* units of an image
  FlashLen,      \* units of flash
  Starts,        \* the start arguments an upload is given
  XMODEM_BUF_SIZE,  \* units of a page that {h reads (1024 bytes)
  WriteMayFail,  \* can HotaWrite fail?
  ReadMayFail,   \* can HotaRead fail?
  InitMayFail    \* can HotaInit fail?

ASSUME SizeAssumption ==
  /\ {ImageLen, XMODEM_BUF_SIZE} \subseteq Nat \ {0} /\ FlashLen \in Nat
  /\ Starts \subseteq Int
ASSUME FailAssumption == {WriteMayFail, ReadMayFail, InitMayFail} \subseteq BOOLEAN

VARIABLES
  hash,       \* state.hash: the data it is the SHA-256 of
  flash,      \* the partition HotaWrite writes to; it survives a reset
  updater,    \* the update service: "ready" or "initFailed"
  upload,     \* the upload in progress, or (history) the last one begun
  verdict,    \* history: the image whose signature last checked, or "none"
  reported    \* history: the last answer to {h: its range, the data it is the
              \* SHA-256 of, and whether all reads succeeded

vars == <<hash, flash, updater, upload, verdict, reported>>

Image(f) == [i \in 1..ImageLen |-> <<f, i>>]
Other == <<"other", 0>>
Unit(f, i) == IF i <= ImageLen THEN <<f, i>> ELSE <<"pad", 0>>

ZeroHash == <<>>
NoUpload == [file |-> "none", start |-> 0, data |-> <<>>, running |-> FALSE, intact |-> FALSE]
NoReport == [start |-> 0, size |-> 0, data |-> <<>>, sound |-> FALSE]

(* The update service after HotaInit, whose result is ignored. *)
AfterHotaInit == {"ready"} \cup (IF InitMayFail THEN {"initFailed"} ELSE {})

Init ==
  /\ hash = ZeroHash
  /\ flash = [a \in 0..(FlashLen - 1) |-> Other]
  /\ updater \in AfterHotaInit
  /\ upload = NoUpload /\ verdict = "none" /\ reported = NoReport

(* OtaUartTestInit and the head of OTA_TestThread.  Mutant: the state of   *)
(* the thread is not cleared.                                              *)
Started ==
  /\ updater' \in AfterHotaInit
  /\ upload' = [upload EXCEPT !.running = FALSE]
  /\ verdict' = "none" /\ reported' = NoReport
BootKeepsHash == Started /\ UNCHANGED hash
Boot == Started /\ hash' = ZeroHash

-----------------------------------------------------------------------------
(* An upload.                                                              *)

Idle == ~upload.running

(* CommandRunUpload up to the first packet. *)
BeginUpload(f, start) ==
  /\ Idle
  /\ upload' = [file |-> f, start |-> start, data |-> <<>>, running |-> TRUE,
                intact |-> updater = "ready"]
  /\ verdict' = "none" /\ reported' = NoReport
  /\ UNCHANGED <<hash, flash, updater>>

(* Where xmodemReceiveCB writes: a start of -1 stands for 0.  Mutant: the  *)
(* start is ignored.                                                       *)
NoOffset(start) == 0
Offset(start) == IF start > 0 THEN start ELSE 0
NextAddr == Offset(upload.start) + Len(upload.data)

(* HotaWrite of one unit.  Mutant: it writes one too many. *)
WrittenPast(a, u) ==
  [x \in DOMAIN flash \cup {a + 1} |-> IF x \in {a, a + 1} THEN u ELSE flash[x]]
Written(a, u) == [flash EXCEPT ![a] = u]

(* xmodemReceiveCB: the packet is hashed and written; that the write may   *)
(* have failed goes unnoticed.                                             *)
UploadPacket ==
  /\ upload.running /\ NextAddr < FlashLen
  /\ LET u == Unit(upload.file, Len(upload.data) + 1)
         wrote == updater = "ready" /\ flash' = Written(NextAddr, u)
         failed == (WriteMayFail \/ updater # "ready") /\ UNCHANGED flash
     IN  \/ wrote /\ upload' = [upload EXCEPT !.data = Append(@, u)]
         \/ failed /\ upload' = [upload EXCEPT !.data = Append(@, u), !.intact = FALSE]
  /\ UNCHANGED <<hash, updater, verdict, reported>>

(* xmodemReceive has returned, for whatever reason: the hash of what came  *)
(* is the state's.                                                         *)
EndUpload ==
  /\ upload.running /\ upload' = [upload EXCEPT !.running = FALSE]
  /\ hash' = upload.data
  /\ UNCHANGED <<flash, updater, verdict, reported>>

(* The power is lost between two packets, or in the middle of a write. *)
PowerLoss ==
  /\ upload.running
  /\ Boot
  /\ \/ UNCHANGED flash
     \/ NextAddr < FlashLen /\ flash' = Written(NextAddr, Other)

-----------------------------------------------------------------------------
(* The other commands.                                                     *)

(* How much of n units the loop and the rest after it cover: of whole      *)
(* pages the last is left out.  Mutant: the rest is left out.              *)
WithoutRest(n) == n - (n % XMODEM_BUF_SIZE)
Covered(n) == IF n > 0 /\ n % XMODEM_BUF_SIZE = 0 THEN n - XMODEM_BUF_SIZE ELSE n

(* CommandRunHashSha256 prints a hash of its own and leaves state.hash     *)
(* alone.  Where a read fails, which goes unnoticed, what was in workBuf   *)
(* is hashed.                                                              *)
FlashRange(start, n) == [i \in 1..n |-> flash[start + i - 1]]
CommandRunHashSha256(start, n) ==
  /\ Idle /\ start + n <= FlashLen
  /\ \/ reported' = [start |-> start, size |-> n, data |-> FlashRange(start, Covered(n)),
                     sound |-> TRUE]
     \/ /\ ReadMayFail /\ Covered(n) > 0
        /\ reported' = [start |-> start, size |-> n, data |-> <<Other>>, sound |-> FALSE]
  /\ UNCHANGED <<hash, flash, updater, upload, verdict>>

(* CommandRunSign with a signature made for image f; where fewer bytes are *)
(* typed the rest is whatever the stack holds, that signature at best.     *)
CommandRunSign(f) ==
  /\ Idle
  /\ verdict' = IF hash = Image(f) THEN f ELSE "none"
  /\ UNCHANGED <<hash, flash, updater, upload, reported>>

(* CommandRunCancel: the service is stopped and initialised again, which   *)
(* may fail unnoticed; what it does with the partition is its own affair.  *)
(* state.hash stays.                                                       *)
CommandRunCancel ==
  /\ Idle
  /\ updater' \in AfterHotaInit
  /\ flash' \in {flash, [a \in DOMAIN flash |-> Other]}
  /\ upload' = [upload EXCEPT !.intact = FALSE]
  /\ UNCHANGED <<hash, verdict, reported>>

(* CommandRunRestart and CommandRunRollback: the board boots, or the call  *)
(* returns and nothing has happened.                                       *)
Restart == Idle /\ Boot /\ UNCHANGED flash
RestartFails == Idle /\ UNCHANGED vars

Next ==
  \/ \E f \in Images, start \in Starts : BeginUpload(f, start)
  \/ UploadPacket \/ EndUpload \/ PowerLoss
  \/ \E start, n \in 0..FlashLen : CommandRunHashSha256(start, n)
  \/ \E f \in Images : CommandRunSign(f)
  \/ CommandRunCancel
  \/ Restart \/ RestartFails

Spec == Init /\ [][Next]_vars

-----------------------------------------------------------------------------
Units == (Images \X (1..ImageLen)) \cup {<<"pad", 0>>, Other}

(* Every variable stays in its type. *)
TypeOK ==
  /\ hash \in Seq(Units) /\ flash \in [0..(FlashLen - 1) -> Units]
  /\ updater \in {"ready", "initFailed"}
  /\ upload.file \in Images \cup {"none"} /\ upload.start \in Starts \cup {0}
  /\ upload.data \in Seq(Units) /\ {upload.running, upload.intact} \subseteq BOOLEAN
  /\ verdict \in Images \cup {"none"}
  /\ {reported.start, reported.size} \subseteq 0..FlashLen
  /\ reported.data \in Seq(Units) /\ reported.sound \in BOOLEAN

(* "Sign check success" is about the last upload that was begun, and that  *)
(* upload brought the whole signed image: not an earlier one that a later, *)
(* aborted one, or one that ended in a loss of power, has overwritten in   *)
(* part, nor the data of a {h command.                                     *)
VerdictIsOfLastUpload == verdict # "none" => upload.data = Image(verdict)

At(start) == IF start < 0 THEN 0 ELSE start

(* Unless a write failed or the update was cancelled, the image that       *)
(* checked is what the flash holds where it was uploaded to.               *)
VerdictHoldsForFlash ==
  verdict # "none" /\ upload.intact =>
    FlashRange(At(upload.start), ImageLen) = Image(verdict)

(* The two hashes a user compares: a {h answer for the range of an intact  *)
(* upload, all of whose reads succeeded, is the hash of what was uploaded, *)
(* even if a loss of power ended the upload and the answer was asked for   *)
(* after it; but when the range is whole pages, the two never agree: the   *)
(* answer is the hash of all but the last page.  If the device itself has  *)
(* a hash, it is that of the whole of the last upload.                     *)
WholePages(n) == n > 0 /\ n % XMODEM_BUF_SIZE = 0
HashesAgree ==
  Idle /\ upload.intact =>
    LET n == Len(upload.data)
    IN  /\ reported.sound /\ reported.start = At(upload.start) /\ reported.size = n =>
             reported.data = IF WholePages(n) THEN SubSeq(upload.data, 1, n - XMODEM_BUF_SIZE)
                                              ELSE upload.data
        /\ hash # ZeroHash => hash = upload.data
=============================================================================
