------------------------------- MODULE Xmodem -------------------------------
(***************************************************************************)
(* The XMODEM receiver of ota_demo/ota_demo/app.c (xmodemReceive,          *)
(* get_first_byte, packet_check, flushinput and the callback               *)
(* xmodemReceiveCB), with the serial line and a sending host around it.    *)
(*                                                                         *)
(* The line carries tokens: a single byte (SOH, STX, EOT, CAN, noise) or   *)
(* the rest of a packet after its first byte, a "body".  A body met where  *)
(* the receiver expects a first byte is read byte by byte.  A checksum     *)
(* that matches is taken to mean an undamaged body of the mode the         *)
(* receiver checks for.                                                    *)
(***************************************************************************)
EXTENDS Naturals, Integers, Sequences

CONSTANTS
  MAXRETRANS,            \* repetitions of a block before giving up (25)
  MAX_BYTE_RETRIES,      \* first bytes waited for before giving up (16)
  XMODEM_PACKET_SIZE,    \* units of data after SOH (128 bytes)
  XMODEM1K_PACKET_SIZE,  \* units of data after STX (1024 bytes)
  BlockNumbers,          \* values of the packet number (256)
  DestSz,                \* units the command announced
  FileSize,              \* units the host sends
  WriteMayFail,          \* can HotaWrite fail?
  NoiseLooks,            \* what a stray byte may be taken for
  FaultKinds,            \* which tokens the line may damage
  MaxFaults,             \* bound on the damages
  PunctualHost,          \* does the host answer and time out in time?
  HostPatience,          \* header waits of the receiver in a host timeout
  HostRetries,           \* times the host sends one packet again,
  HostPersists,          \* or may it do so for ever?
  MaxLine                \* bound on what is under way when such a host times out

ASSUME SizeAssumption ==
  /\ {XMODEM_PACKET_SIZE, XMODEM1K_PACKET_SIZE} \subseteq Nat \ {0}
  /\ XMODEM_PACKET_SIZE <= XMODEM1K_PACKET_SIZE
  /\ {DestSz, FileSize} \subseteq Nat
ASSUME LimitAssumption ==
  /\ {MAXRETRANS, MAX_BYTE_RETRIES} \subseteq Nat \ {0}
  /\ {MaxFaults, HostPatience, HostRetries, MaxLine} \subseteq Nat
  /\ BlockNumbers \in Nat /\ BlockNumbers >= 2
ASSUME ChoiceAssumption ==
  /\ NoiseLooks \subseteq {"plain", "SOH", "STX", "EOT", "CAN"}
  /\ FaultKinds \subseteq {"header", "body", "control", "reply"}
  /\ {WriteMayFail, PunctualHost, HostPersists} \subseteq BOOLEAN

VARIABLES
  toDev, toHost, faults,      \* the two directions of the line, damages so far
  pc, after,                  \* where the receiver is; what follows a flush
  retry, trychar, useCrc,     \* locals of xmodemReceive (use_src, bufsz,
  bufsz, packetno, retrans,   \* packetno and retrans among them)
  received, flash, result,    \* units hashed, units written, return value
  writeFailed,                \* history: has a HotaWrite failed?
  repeats,                    \* history: packets handled since the last new one,
                              \* counted to one more than MAXRETRANS
  hpc, hpos, hsz, hno, hmode, tries   \* the host

lineVars == <<toDev, toHost, faults>>
locals   == <<useCrc, bufsz, packetno, retrans>>
dataVars == <<received, flash, writeFailed>>
rcvVars  == <<pc, after, retry, trychar, locals, dataVars, result, repeats>>
hostVars == <<hpc, hpos, hsz, hno, hmode, tries>>
vars     == <<lineVars, rcvVars, hostVars>>

len == Len(received)

(* The unit of the file at position i; 0 pads a last packet; Erased is  *)
(* a unit of flash that was not written.                                   *)
File(i) == IF i <= FileSize THEN i ELSE 0
Erased == -1
PacketSize(t) == IF t = "SOH" THEN XMODEM_PACKET_SIZE ELSE XMODEM1K_PACKET_SIZE
Byte(t) == [type |-> t]

Init ==
  /\ toDev = <<>> /\ toHost = <<>> /\ faults = 0
  /\ pc = "prompt" /\ after = "none" /\ retry = 0 /\ trychar = "C"
  /\ useCrc = FALSE /\ bufsz = 0 /\ packetno = 1 /\ retrans = MAXRETRANS
  /\ received = <<>> /\ flash = [a \in 0..(DestSz - 1) |-> Erased]
  /\ writeFailed = FALSE /\ result = "none" /\ repeats = 0
  /\ hpc = "idle" /\ hpos = 0 /\ hsz = 0 /\ hno = 0 /\ hmode = "crc" /\ tries = 0

-----------------------------------------------------------------------------
(* The receiver.                                                           *)

(* Nothing arrives during a wait of the receiver (1, 1.5 or 2 seconds): a  *)
(* punctual host would have answered what it was sent by then.             *)
Silent == toDev = <<>> /\ (PunctualHost => toHost = <<>>)

HostWaits == hpc \in {"data", "eot"}

(* The top of the loop on retry: prompt, if the first packet has not come. *)
Prompt ==
  /\ pc = "prompt"
  /\ toHost' = IF trychar = "none" THEN toHost ELSE Append(toHost, trychar)
  /\ pc' = "header"
  /\ UNCHANGED <<toDev, faults, after, retry, trychar, locals, dataVars, result, repeats, hostVars>>

Flush(then) == pc' = "flush" /\ after' = then

(* Mutant: the receiver asks for ever. *)
NoHeaderForever ==
  /\ retry' = (retry + 1) % MAX_BYTE_RETRIES /\ pc' = "prompt"
  /\ UNCHANGED <<after, trychar, locals>>

(* get_first_byte returned 0: next round of the loop, from 'C' on to NAK   *)
(* when the rounds are used up, and then the end.                          *)
NoHeader ==
  /\ IF retry + 1 < MAX_BYTE_RETRIES
     THEN /\ retry' = retry + 1 /\ pc' = "prompt"
          /\ UNCHANGED <<after, trychar>>
     ELSE IF trychar = "C"
     THEN /\ trychar' = "NAK" /\ retry' = 0 /\ pc' = "prompt"
          /\ UNCHANGED after
     ELSE Flush("sync") /\ UNCHANGED <<retry, trychar>>
  /\ UNCHANGED locals

(* A packet begins: the first one settles the check to be used. *)
GotHeader(t) ==
  /\ bufsz' = PacketSize(t)
  /\ useCrc' = (useCrc \/ trychar = "C")
  /\ trychar' = "none"
  /\ pc' = "body"
  /\ UNCHANGED <<after, retry, packetno, retrans>>

(* The switch of get_first_byte on a byte that looks like t. *)
FirstByteIs(t) ==
  \/ t \in {"SOH", "STX"} /\ GotHeader(t)
  \/ t = "EOT" /\ Flush("end") /\ UNCHANGED <<retry, trychar, locals>>
  \/ t = "CAN" /\ pc' = "can" /\ UNCHANGED <<after, retry, trychar, locals>>
  \/ t = "plain" /\ NoHeader

(* What is left on the line when one byte has been read from it: a whole   *)
(* body has more bytes than the loop has rounds.                           *)
AfterByte ==
  LET t == Head(toDev)
      spoilt == [t EXCEPT !.good = FALSE]
  IN  IF t.type # "body" THEN {Tail(toDev)}
      ELSE {<<spoilt>> \o Tail(toDev)} \cup (IF t.whole THEN {} ELSE {Tail(toDev)})

(* What the byte at the head of the line may be taken for. *)
Looks ==
  LET t == Head(toDev).type IN IF t \in {"noise", "body"} THEN NoiseLooks ELSE {t}

FirstByte ==
  /\ pc = "header" /\ toDev # <<>>
  /\ toDev' \in AfterByte
  /\ \E t \in Looks : FirstByteIs(t)
  /\ UNCHANGED <<toHost, faults, dataVars, result, repeats, hostVars>>

FirstByteTimeout ==
  /\ pc = "header" /\ Silent
  /\ PunctualHost /\ HostWaits => retry < HostPatience
  /\ NoHeader
  /\ UNCHANGED <<lineVars, dataVars, result, repeats, hostVars>>

(* The byte after a CAN: a second one cancels, any other counts as a round. *)
SecondByte ==
  /\ pc = "can" /\ toDev # <<>>
  /\ toDev' \in AfterByte
  /\ \E t \in Looks :
       IF t = "CAN" THEN Flush("cancel") /\ UNCHANGED <<retry, trychar, locals>>
                    ELSE NoHeader
  /\ UNCHANGED <<toHost, faults, dataVars, result, repeats, hostVars>>

SecondByteTimeout ==
  /\ pc = "can" /\ Silent
  /\ NoHeader
  /\ UNCHANGED <<lineVars, dataVars, result, repeats, hostVars>>

(* The three conditions of packet_check.  packetno - 1 is computed in int: *)
(* it is -1, and equal to no block number, when packetno is 0.             *)
Undamaged(b) ==
  /\ b.type = "body" /\ b.whole /\ b.good
  /\ b.size = bufsz /\ (useCrc <=> b.mode = "crc")
Passes(b) == Undamaged(b) /\ (b.no = packetno \/ b.no = packetno - 1)

(* The awaited block, as opposed to a repeated one.  Mutant: either is. *)
IsAlwaysNew(b) == TRUE
IsNew(b) == b.no = packetno

(* ++*packetno on an unsigned char.  Mutant: on a wider type. *)
NoWrap(n) == n + 1
NextNumber(n) == (n + 1) % BlockNumbers

(* xmodemReceiveCB: hash the data and write it to flash, where a failed    *)
(* write is ignored.  Mutant: the write ignores addr.                      *)
WriteAt(addr, data) ==
  [a \in DOMAIN flash |->
     IF a \in addr..(addr + Len(data) - 1) THEN data[a - addr + 1] ELSE flash[a]]
CallbackAtStart(data) ==
  received' = received \o data /\ flash' = WriteAt(0, data) /\ UNCHANGED writeFailed
Callback(data) ==
  /\ received' = received \o data
  /\ \/ flash' = WriteAt(len, data) /\ UNCHANGED writeFailed
     \/ WriteMayFail /\ UNCHANGED flash /\ writeFailed' = TRUE

(* The part of the packet that is still asked for.  Mutant: all of it. *)
WholeBody(b) == [i \in 1..bufsz |-> File(b.pos + i)]
BodyData(b) ==
  [i \in 1..(IF DestSz - len > bufsz THEN bufsz ELSE DestSz - len) |-> File(b.pos + i)]

OneMoreRepeat == repeats' = IF repeats > MAXRETRANS THEN repeats ELSE repeats + 1

(* A packet that passes: the awaited one goes to the callback, a repeated  *)
(* one does not; both count against retrans and are acknowledged.          *)
BodyAccept ==
  /\ pc = "body" /\ toDev # <<>>
  /\ LET b == Head(toDev)
         left == (IF IsNew(b) THEN MAXRETRANS + 1 ELSE retrans) - 1
     IN  /\ Passes(b)
         /\ IF IsNew(b) THEN /\ IF len < DestSz THEN Callback(BodyData(b))
                                               ELSE UNCHANGED dataVars
                             /\ packetno' = NextNumber(packetno)
                             /\ repeats' = 0
                        ELSE /\ OneMoreRepeat
                             /\ UNCHANGED <<dataVars, packetno>>
         /\ retrans' = left
         /\ IF left <= 0
            THEN Flush("retrans") /\ UNCHANGED <<toHost, retry>>
            ELSE /\ toHost' = Append(toHost, "ACK")
                 /\ pc' = "prompt" /\ retry' = 0
                 /\ UNCHANGED after
  /\ toDev' = Tail(toDev)
  /\ UNCHANGED <<faults, trychar, useCrc, bufsz, result, hostVars>>

(* uart_read_buf returned too little, or packet_check failed. *)
BodyReject ==
  /\ pc = "body"
  /\ toDev # <<>> => ~Passes(Head(toDev))
  /\ toDev' = IF toDev = <<>> THEN <<>> ELSE Tail(toDev)
  /\ Flush("nak")
  /\ OneMoreRepeat
  /\ UNCHANGED <<toHost, faults, retry, trychar, locals, dataVars, result, hostVars>>

FlushByte ==
  /\ pc = "flush" /\ toDev # <<>>
  /\ toDev' = Tail(toDev)
  /\ UNCHANGED <<toHost, faults, rcvVars, hostVars>>

(* What the host hears when the receiver gives up.  Mutant: one CAN fewer. *)
TwoCans == <<"CAN", "CAN">>
GiveUp == <<"CAN", "CAN", "CAN">>

(* The line has been silent: answer, and go on or return.  Mutant: a       *)
(* refused packet is acknowledged.                                         *)
AnswerAck(then) == IF then \in {"nak", "end", "cancel"} THEN <<"ACK">> ELSE GiveUp
Answer(then) ==
  CASE then = "nak" -> <<"NAK">>
    [] then \in {"end", "cancel"} -> <<"ACK">>
    [] then \in {"sync", "retrans"} -> GiveUp

FlushDone ==
  /\ pc = "flush" /\ Silent
  /\ toHost' = toHost \o Answer(after)
  /\ IF after = "nak"
     THEN pc' = "prompt" /\ retry' = 0 /\ UNCHANGED result
     ELSE pc' = "done" /\ result' = after /\ UNCHANGED retry
  /\ after' = "none"
  /\ UNCHANGED <<toDev, faults, trychar, locals, dataVars, repeats, hostVars>>

Receiver ==
  \/ Prompt \/ FirstByte \/ FirstByteTimeout \/ SecondByte \/ SecondByteTimeout
  \/ BodyAccept \/ BodyReject \/ FlushByte \/ FlushDone

-----------------------------------------------------------------------------
(* The line.                                                               *)

KindOf(t) == CASE t \in {"SOH", "STX"} -> "header"
               [] t = "body" -> "body"
               [] OTHER -> "control"

(* The forms a damaged token can take; the empty one is a lost token. *)
DamagedForms(t) ==
  IF t.type = "body"
  THEN {<<[t EXCEPT !.good = FALSE]>>, <<[t EXCEPT !.good = FALSE, !.whole = FALSE]>>}
  ELSE {<<>>, <<Byte("noise")>>}

Damage ==
  /\ faults < MaxFaults
  /\ \E i \in 1..Len(toDev) :
       /\ KindOf(toDev[i].type) \in FaultKinds
       /\ \E d \in DamagedForms(toDev[i]) :
            /\ toDev' = SubSeq(toDev, 1, i - 1) \o d \o SubSeq(toDev, i + 1, Len(toDev))
            /\ toDev' # toDev
  /\ faults' = faults + 1
  /\ UNCHANGED <<toHost, rcvVars, hostVars>>

LoseReply ==
  /\ faults < MaxFaults
  /\ "reply" \in FaultKinds
  /\ \E i \in 1..Len(toHost) :
       toHost' = SubSeq(toHost, 1, i - 1) \o SubSeq(toHost, i + 1, Len(toHost))
  /\ faults' = faults + 1
  /\ UNCHANGED <<toDev, rcvVars, hostVars>>

-----------------------------------------------------------------------------
(* The host: an XMODEM sender as the receiver expects it.  hpos units have *)
(* been acknowledged, hno is the number of the packet of size hsz it sends. *)

SendPacket(pos, size, no, mode) ==
  toDev' = toDev \o
    << Byte(IF size = XMODEM_PACKET_SIZE THEN "SOH" ELSE "STX"),
       [type |-> "body", no |-> no, pos |-> pos, size |-> size, mode |-> mode,
        good |-> TRUE, whole |-> TRUE] >>

(* Pick the next packet, or the end of the file. *)
SendNext(pos, no, mode) ==
  /\ hpos' = pos /\ hno' = no /\ hmode' = mode /\ tries' = 0
  /\ IF pos < FileSize
     THEN \E size \in {XMODEM_PACKET_SIZE, XMODEM1K_PACKET_SIZE} :
            SendPacket(pos, size, no, mode) /\ hsz' = size /\ hpc' = "data"
     ELSE toDev' = Append(toDev, Byte("EOT")) /\ hsz' = 0 /\ hpc' = "eot"

HostStart ==
  /\ hpc = "idle" /\ toHost # <<>> /\ Head(toHost) \in {"C", "NAK"}
  /\ toHost' = Tail(toHost)
  /\ SendNext(0, 1, IF Head(toHost) = "C" THEN "crc" ELSE "sum")
  /\ UNCHANGED <<faults, rcvVars>>

HostAck ==
  /\ toHost # <<>> /\ Head(toHost) = "ACK"
  /\ toHost' = Tail(toHost)
  /\ \/ /\ hpc = "data"
        /\ SendNext(hpos + hsz, (hno + 1) % BlockNumbers, hmode)
     \/ /\ hpc = "eot" /\ hpc' = "done"
        /\ UNCHANGED <<toDev, hpos, hsz, hno, hmode, tries>>
  /\ UNCHANGED <<faults, rcvVars>>

(* Send the packet, or EOT, again; after HostRetries times cancel, or,     *)
(* where the host persists, go on.                                         *)
SendAgain ==
  /\ \/ /\ tries < HostRetries \/ HostPersists
        /\ tries' = IF tries < HostRetries THEN tries + 1 ELSE tries
        /\ IF hpc = "data" THEN SendPacket(hpos, hsz, hno, hmode)
                           ELSE toDev' = Append(toDev, Byte("EOT"))
        /\ UNCHANGED hpc
     \/ /\ tries >= HostRetries
        /\ toDev' = toDev \o <<Byte("CAN"), Byte("CAN")>>
        /\ hpc' = "gaveUp"
        /\ UNCHANGED tries
  /\ UNCHANGED <<hpos, hsz, hno, hmode>>

HostNak ==
  /\ HostWaits /\ toHost # <<>> /\ Head(toHost) = "NAK"
  /\ toHost' = Tail(toHost)
  /\ SendAgain
  /\ UNCHANGED <<faults, rcvVars>>

HostTimeout ==
  /\ HostWaits
  /\ PunctualHost => \/ Silent /\ pc = "header" /\ retry >= HostPatience
                     \/ toHost = <<>> /\ pc = "done"
  /\ HostPersists => Len(toDev) + Len(toHost) < MaxLine
  /\ SendAgain
  /\ UNCHANGED <<toHost, faults, rcvVars>>

(* The receiver gave up. *)
HostCancelled ==
  /\ HostWaits /\ toHost # <<>> /\ Head(toHost) = "CAN"
  /\ toHost' = Tail(toHost)
  /\ hpc' = "gaveUp"
  /\ UNCHANGED <<toDev, faults, rcvVars, hpos, hsz, hno, hmode, tries>>

(* A reply nobody waits for. *)
HostIgnore ==
  /\ toHost # <<>>
  /\ HostWaits => Head(toHost) = "C"
  /\ toHost' = Tail(toHost)
  /\ UNCHANGED <<toDev, faults, rcvVars, hostVars>>

Host == HostStart \/ HostAck \/ HostNak \/ HostTimeout \/ HostCancelled \/ HostIgnore

-----------------------------------------------------------------------------
Next == Receiver \/ Damage \/ LoseReply \/ Host

Spec == Init /\ [][Next]_vars

(* The receiver runs whenever it can; nothing is assumed of the host. *)
FairReceiver == Spec /\ WF_vars(Receiver)

-----------------------------------------------------------------------------
Bodies == [type : {"body"}, no : 0..(BlockNumbers - 1), pos : 0..FileSize,
           size : {XMODEM_PACKET_SIZE, XMODEM1K_PACKET_SIZE}, mode : {"crc", "sum"},
           good : BOOLEAN, whole : BOOLEAN]
Tokens == Bodies \cup [type : {"SOH", "STX", "EOT", "CAN", "noise"}]
Replies == {"C", "NAK", "ACK", "CAN"}
Units == 0..FileSize

(* Every variable stays in its type; the packet number stays in a byte. *)
TypeOK ==
  /\ toDev \in Seq(Tokens) /\ toHost \in Seq(Replies) /\ faults \in 0..MaxFaults
  /\ pc \in {"prompt", "header", "can", "body", "flush", "done"}
  /\ after \in {"none", "nak", "end", "cancel", "sync", "retrans"}
  /\ retry \in 0..(MAX_BYTE_RETRIES - 1) /\ trychar \in {"C", "NAK", "none"}
  /\ useCrc \in BOOLEAN /\ bufsz \in {0, XMODEM_PACKET_SIZE, XMODEM1K_PACKET_SIZE}
  /\ packetno \in 0..(BlockNumbers - 1) /\ retrans \in 0..MAXRETRANS
  /\ received \in Seq(Units) /\ len <= DestSz
  /\ flash \in [0..(DestSz - 1) -> Units \cup {Erased}] /\ writeFailed \in BOOLEAN
  /\ result \in {"none", "end", "cancel", "sync", "retrans"}
  /\ hpc \in {"idle", "data", "eot", "done", "gaveUp"}
  /\ hpos \in Nat /\ hsz \in Nat /\ hno \in 0..(BlockNumbers - 1)
  /\ hmode \in {"crc", "sum"} /\ tries \in 0..HostRetries /\ repeats \in 0..(MAXRETRANS + 1)

(* What the device has hashed is the beginning of the file: no block is    *)
(* missing, repeated or out of place, whatever was damaged, lost or sent   *)
(* again.  It takes a punctual host or numbers that are not used again: a  *)
(* host that many surplus ACKs have sent on by a whole cycle of numbers    *)
(* would have a later block taken for the awaited one.                     *)
PrefixIntegrity == received = [i \in 1..len |-> File(i)]

(* The flash agrees with what was hashed except where a write failed, and  *)
(* holds nothing beyond it.                                                *)
FlashMatchesHash ==
  \A a \in DOMAIN flash :
    /\ flash[a] # Erased => a < len /\ flash[a] = received[a + 1]
    /\ a < len /\ ~writeFailed => flash[a] # Erased

(* The device and the host differ by at most the packet in flight: it has  *)
(* not come, or it has come and has not been acknowledged.                 *)
Stored(n) == len = (IF n < DestSz THEN n ELSE DestSz)
InStep ==
  /\ hpc = "data" => \/ packetno = hno /\ Stored(hpos)
                     \/ packetno = (hno + 1) % BlockNumbers /\ Stored(hpos + hsz)
  /\ hpc \in {"eot", "done"} => Stored(hpos)

(* An ACK the host will take for its packet was sent for that packet. *)
AckMeansStored ==
  hpc = "data" /\ (\E i \in 1..Len(toHost) : toHost[i] = "ACK") => Stored(hpos + hsz)

(* A block is repeated or refused at most MAXRETRANS times in a row before *)
(* the upload ends, as "too many retry error" in packet_check has it.      *)
RetryLimit == repeats <= MAXRETRANS

(* Once the host has stopped sending, xmodemReceive returns, wherever it   *)
(* was and whatever is still on the line: in a mode the host does not use, *)
(* between the CANs, in a flush, after a damaged packet.  As long as the   *)
(* host goes on sending nothing is promised: neither the NAKs nor          *)
(* flushinput have a limit.                                                *)
HostSends == Len(toDev') > Len(toDev)
ReturnsOnceQuiet == <>[][~HostSends]_vars => <>(pc = "done")

Outcome == CASE result = "none" -> "running"
             [] result = "end" -> "complete"
             [] OTHER -> "aborted"
Copy == INSTANCE FileCopy WITH
  MaxStep <- XMODEM1K_PACKET_SIZE, copied <- received, outcome <- Outcome
RefinesCopy == Copy!CopySpec
=============================================================================
