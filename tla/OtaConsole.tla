------------------------------ MODULE OtaConsole ------------------------------
(***************************************************************************)
(* The command console of ota_demo/ota_demo/app.c: CommandProcess, its     *)
(* line editor ReadLine, the signature reader ReadSign and the arguments   *)
(* of CommandRunDebug.  What a command does to the device is in OtaSession *)
(* and PagedRead; here it is the value left in ran.                        *)
(*                                                                         *)
(* One step is one byte read, or the five seconds of silence after which   *)
(* read_with_echo gives up.  A command's letter stands for itself, and the *)
(* text that belongs after it ("ancel", "estart", "ack", "m" or "f") is    *)
(* the one character Word.  Whether strtoul sets errno where it finds no   *)
(* number is up to the C library: both outcomes are taken.                 *)
(***************************************************************************)
EXTENDS Integers, Sequences

CONSTANTS
  BUF_LEN,       \* size of the line buffers (32)
  SIGN_LEN,      \* size of the signature buffer (128)
  Word, Number,  \* the rest of a command word; a decimal number of 32 bits
  HexDigits,     \* characters strtoul takes in base 16
  MaxKeys        \* bound on the bytes typed

ASSUME BufAssumption ==
  /\ BUF_LEN \in Nat \ {0} /\ BUF_LEN % 2 = 0
  /\ SIGN_LEN \in Nat \ {0} /\ SIGN_LEN % (BUF_LEN \div 2) = 0
ASSUME KeysAssumption == MaxKeys \in Nat

(* A char is unsigned on this target, so the -1 of a silent line is the    *)
(* character 0xFF.  Stale is what a byte of the stack holds that was never *)
(* written, Beyond what is behind the line buffer, however much of it.     *)
NUL == "NUL"
FF == "0xFF"
Stale == "stale"
Beyond == "beyond"
Chars == {Word, Number} \cup HexDigits
ASSUME CharAssumption == NUL \notin Chars
Letters == {"u", "p", "h", "c", "r", "b", "d", "s"}

VARIABLES
  pc,      \* "preamble", "letter", "line" or "sign": the read that waits
  cmd,     \* cmd of CommandProcess
  buf, i,  \* buf and i of ReadLine
  sign,    \* the bytes of sign that ReadSign has stored
  ran,     \* history: what the last CommandProcess ran or returned
  text,    \* history: the text after the letter, as the sender edited it
  clean,   \* history: no backspace came at the start of a line buffer
  paused,  \* history: a byte of the text did not come in time
  handed,  \* history: the string that the command's handler was given
  keys     \* number of bytes typed

lineVars == <<buf, i>>
typing   == <<text, clean, paused>>
vars     == <<pc, cmd, lineVars, sign, ran, typing, handed, keys>>

(* No line was handed on yet: a string holds no NUL. *)
NoLine == <<NUL>>

BufIndex == 0..(BUF_LEN - 1)
Init ==
  /\ pc = "preamble" /\ cmd = "u"
  /\ buf = [k \in BufIndex |-> NUL] /\ i = 0 /\ sign = <<>>
  /\ ran = "none" /\ text = <<>> /\ clean = TRUE /\ paused = FALSE
  /\ handed = NoLine /\ keys = 0

Typed == keys < MaxKeys /\ keys' = keys + 1

(* CommandProcess returns to the loop of OTA_TestThread, which calls it    *)
(* again.  The buffers go out of scope.                                    *)
Return(what) ==
  /\ pc' = "preamble" /\ ran' = what
  /\ buf' = [k \in BufIndex |-> NUL] /\ i' = 0 /\ sign' = <<>>

(* A C string: the characters before the first NUL, which in a full buffer *)
(* is somewhere beyond it.                                                 *)
CString(b) ==
  LET ends == {k \in BufIndex : b[k] = NUL /\ \A j \in 0..(k - 1) : b[j] # NUL}
  IN  IF ends = {} THEN Append([k \in 1..BUF_LEN |-> b[k - 1]], Beyond)
      ELSE [k \in 1..(CHOOSE e \in ends : TRUE) |-> b[k - 1]]
Unterminated(b) == \A k \in BufIndex : b[k] # NUL

-----------------------------------------------------------------------------
(* The first two bytes of a command.                                       *)

Preamble ==
  /\ pc = "preamble" /\ Typed
  /\ \/ pc' = "letter" /\ ran' = "none"
     \/ ran' = "PREAMBLE" /\ UNCHANGED pc
  /\ UNCHANGED <<cmd, lineVars, sign, typing, handed>>

Letter ==
  /\ pc = "letter" /\ Typed
  /\ \/ \E c \in Letters :
          /\ cmd' = c /\ i' = 0 /\ sign' = <<>>
          /\ pc' = IF c = "s" THEN "sign" ELSE "line"
          /\ buf' = [k \in BufIndex |-> IF c = "s" THEN Stale ELSE NUL]
          /\ UNCHANGED ran
     \/ Return("WRONG_COMMAND") /\ UNCHANGED cmd
  /\ text' = <<>> /\ clean' = TRUE /\ paused' = FALSE /\ handed' = NoLine

LetterSilence ==
  /\ pc = "letter"
  /\ Return("TIMEOUT")
  /\ UNCHANGED <<cmd, typing, handed, keys>>

-----------------------------------------------------------------------------
(* A line has ended with the n characters in b.                            *)

(* What strtoul at b[k] leads to, where the command runs if it finds a     *)
(* number: one that may run on beyond a full buffer can have any value,    *)
(* and where there is none the command runs with 0 or is refused.          *)
NumberAt(b, k, command) ==
  IF b[k] = Number /\ ~Unterminated(b) THEN {command} ELSE {command, "WRONG_ARGS"}

(* CommandRunDebug. *)
Debugged(b) == IF b[0] # Word THEN {"WRONG_COMMAND"} ELSE NumberAt(b, 1, "d")

(* What CommandProcess may do with the line after its letter. *)
Dispatched(b) ==
  CASE cmd \in {"u", "p", "h"} -> NumberAt(b, 0, cmd)
    [] cmd \in {"c", "r", "b"} -> {IF CString(b) = <<Word>> THEN cmd ELSE "nothing"}
    [] cmd = "d" -> Debugged(b)

(* The bytes ReadSign takes from a line: pairs of hex digits, of which the *)
(* second may be missing or not a digit.  Mutant: the pairs overlap.       *)
PairsOverlap(b, n) == [k \in 1..((n + 1) \div 2) |-> <<b[k - 1], b[k]>>]
Pairs(b, n) == [k \in 1..((n + 1) \div 2) |-> <<b[2 * k - 2], b[2 * k - 1]>>]

(* A line buffer that is not full ends the signature.  Mutant: it does not. *)
NeverShort(n) == FALSE
ShortLine(n) == n < BUF_LEN

(* ReadSign on a line.  A pair that is no number may be refused, or it is  *)
(* stored as 0.                                                            *)
SignLine(b, n) ==
  LET bytes == Pairs(b, n)
      tooLong == Len(sign) + n \div 2 > SIGN_LEN
      noNumber == \E k \in 1..Len(bytes) : bytes[k][1] \notin HexDigits
  IN  \/ (tooLong \/ noNumber) /\ Return("SIGN_ERROR")
      \/ /\ ~tooLong /\ sign' = sign \o bytes /\ i' = 0
         /\ IF ~ShortLine(n) /\ Len(sign) + Len(bytes) < SIGN_LEN
            THEN buf' = b /\ UNCHANGED <<pc, ran>>
            ELSE pc' = "preamble" /\ ran' = "s" /\ buf' = [k \in BufIndex |-> NUL]

LineEnd(b, n) ==
  IF pc = "sign" THEN SignLine(b, n) /\ UNCHANGED handed
  ELSE handed' = CString(b) /\ \E what \in Dispatched(b) : Return(what)

-----------------------------------------------------------------------------
(* The loop of ReadLine.                                                   *)

InLine == pc \in {"line", "sign"}

(* A full buffer ends the line, and the rest of what was typed stays       *)
(* unread.  Mutant: one character too many is taken.                       *)
OverFull(n) == n > BUF_LEN
Full(n) == n = BUF_LEN

Store(c) ==
  LET b == [buf EXCEPT ![i] = c]
  IN  IF Full(i + 1) THEN LineEnd(b, BUF_LEN)
                     ELSE buf' = b /\ i' = i + 1 /\ UNCHANGED <<pc, sign, ran, handed>>

Character ==
  /\ InLine /\ Typed
  /\ \E c \in Chars : Store(c) /\ text' = Append(text, c)
  /\ UNCHANGED <<cmd, clean, paused>>

(* Mutant: a silence is passed over. *)
LineSilencePassed == InLine /\ UNCHANGED vars
LineSilence ==
  /\ InLine
  /\ Store(FF)
  /\ paused' = TRUE
  /\ UNCHANGED <<cmd, text, clean, keys>>

CarriageReturn ==
  /\ InLine /\ Typed
  /\ UNCHANGED <<pc, cmd, lineVars, sign, ran, typing, handed>>

Drop(s) == IF s = <<>> THEN s ELSE SubSeq(s, 1, Len(s) - 1)
(* Backspace or DEL clears a character.  Mutant: it stays in the buffer. *)
NotErased(k) == buf
Erased(k) == [buf EXCEPT ![k] = NUL]
Backspace ==
  /\ InLine /\ Typed
  /\ IF i > 0 THEN buf' = Erased(i - 1) /\ i' = i - 1 /\ UNCHANGED clean
              ELSE clean' = FALSE /\ UNCHANGED lineVars
  /\ text' = Drop(text)
  /\ UNCHANGED <<pc, cmd, sign, ran, paused, handed>>

Newline ==
  /\ InLine /\ Typed
  /\ LineEnd(buf, i)
  /\ UNCHANGED <<cmd, typing>>

-----------------------------------------------------------------------------
Next ==
  \/ Preamble \/ Letter \/ LetterSilence
  \/ Character \/ LineSilence \/ CarriageReturn \/ Backspace \/ Newline

Spec == Init /\ [][Next]_vars

(* A read with a timeout ends, with a byte or without one. *)
FairSpec == Spec /\ WF_vars(LetterSilence) /\ WF_vars(LineSilence)

-----------------------------------------------------------------------------
(* Every variable stays in its type. *)
TypeOK ==
  /\ pc \in {"preamble", "letter", "line", "sign"} /\ cmd \in Letters
  /\ buf \in [BufIndex -> Chars \cup {NUL, FF, Stale}] /\ i \in BufIndex
  /\ \A k \in 1..Len(sign) : sign[k] \in (Chars \cup {FF}) \X (Chars \cup {NUL, FF, Stale})
  /\ {clean, paused} \subseteq BOOLEAN /\ keys \in 0..MaxKeys

(* However a line was edited, and whether its newline or its length ended  *)
(* it, the string its handler is given is the text as it stands after the  *)
(* editing; a text that fills the buffer is followed by whatever is behind *)
(* it.  It takes a text that was typed without a pause.                    *)
LineIsString ==
  handed # NoLine /\ ~paused =>
    handed = IF Len(text) < BUF_LEN THEN text ELSE Append(text, Beyond)

(* ReadSign never stores beyond the signature buffer, though it checks for *)
(* res / 2 bytes and stores (res + 1) / 2.                                 *)
SignInBounds == Len(sign) <= SIGN_LEN

(* The signature a finished command verifies is the one that was typed,    *)
(* across all the line buffers it came through, if it was typed without a  *)
(* pause.                                                                  *)
SignIsTyped ==
  clean /\ ~paused /\ ran = "s" /\ pc = "preamble" =>
    /\ Len(sign) = (Len(text) + 1) \div 2
    /\ \A k \in 1..(Len(text) \div 2) : sign[k] = <<text[2 * k - 1], text[2 * k]>>

(* The console does not wait for ever for the rest of a command: with      *)
(* nothing more typed each silence fills a place of the line, until it is  *)
(* full and dealt with as if it had been typed.                            *)
ReturnsToPreamble == pc # "preamble" ~> pc = "preamble"

(* A handler is given a line only if all of it came in time, as the return *)
(* of COMMAND_TYPE_ERROR_TIMEOUT from ReadLine is there to see to.         *)
HandedInTime == handed # NoLine => ~paused
=============================================================================
