---------------------------- MODULE OtaLineProofs ----------------------------
(***************************************************************************)
(* Proofs about a line that the receiver and the console read in turn, for *)
(* any number of uploads, hosts that answer in time and lines that spare   *)
(* first bytes: a host that was told of the end of its upload has been     *)
(* told the truth as long as the console has read none of its data; and it *)
(* reads none as long as no upload suffers the damages it takes to use up  *)
(* the retries and, after them, to lose all three CANs.                    *)
(***************************************************************************)
EXTENDS OtaLine, XmodemPunctualProofs

(* While the host sends data to a receiver that has returned, the line     *)
(* carries nothing whose echo it could take for a reply, but the data.     *)
PacketTokens == {"SOH", "STX", "body"}
OnlyPackets == hpc = "data" /\ pc = "done" => Types(toDev) \subseteq PacketTokens
TruthInv == ~intruded => StepInv /\ OnlyPackets

(* The damages of one upload.  Each of the MAXRETRANS repetitions of a     *)
(* stored packet takes one, and so does the loss of each CAN.              *)
Suffered == faults - spent
FewFaults == Suffered < MAXRETRANS + 3

(* A host that times out before the receiver has used up its rounds: the   *)
(* receiver does not give up for want of a header.                         *)
TimesOutFirst == HostPatience < MAX_BYTE_RETRIES

(* Each repetition of a stored packet that was accepted, and its ACK if it *)
(* is not on the line, is paid for by a damage.                            *)
Acks == IF "ACK" \in Items(toHost) THEN 1 ELSE 0
Repeated == MAXRETRANS - retrans
Paid == packetno # hno => Suffered + Acks >= Repeated + 1
GaveUpPaid == Suffered + Len(toHost) >= MAXRETRANS + 3

DataBudget ==
  hpc = "data" =>
    /\ pc \notin {"flush", "done"} => Paid
    /\ pc = "flush" => (after = "nak" /\ Paid) \/ (after = "retrans" /\ Suffered >= MAXRETRANS)
    /\ pc = "done" => toDev = <<>> /\ GaveUpPaid
NoPackets == hpc # "data" => Packets(toDev) = {}
BudgetInv == StepInv /\ DataBudget /\ NoPackets /\ spent \in 0..faults /\ ~intruded

-----------------------------------------------------------------------------
LEMMA BudgetNumbers ==
  ASSUME BudgetInv
  PROVE  /\ Suffered \in Nat /\ faults \in Nat /\ spent \in Nat
         /\ MAXRETRANS \in Nat /\ MAXRETRANS > 0 /\ retrans \in Nat
         /\ Acks \in {0, 1} /\ TypeInv /\ LineTypes
<1>1. TypeInv /\ spent \in 0..faults
  BY DEF BudgetInv, StepInv
<1>2. faults \in Nat /\ retrans \in Nat /\ LineTypes
  BY <1>1, ConstantFacts DEF TypeInv, LineTypes, ControlTypes
<1>3. QED
  BY <1>1, <1>2, ConstantFacts DEF Suffered, Acks

LEMMA LineInitHolds == LineInit => TruthInv /\ BudgetInv
<1> SUFFICES ASSUME LineInit PROVE TruthInv /\ BudgetInv
  OBVIOUS
<1>1. StepInv /\ hpc = "idle" /\ toDev = <<>> /\ faults = 0 /\ spent = 0 /\ ~intruded
  BY StepInvInit DEF LineInit, Init
<1>2. Packets(toDev) = {}
  BY <1>1, SmallSeqs
<1>3. QED
  BY <1>1, <1>2 DEF TruthInv, OnlyPackets, BudgetInv, DataBudget, NoPackets

(* A new upload begins with the receiver and the host as at first, but for *)
(* the flash.                                                              *)
LEMMA UploadBegins ==
  ASSUME StepInv, NextUpload
  PROVE  StepInv' /\ hpc' = "idle" /\ toDev' = <<>> /\ UNCHANGED <<faults, intruded>>
         /\ spent' = faults
<1>1. /\ toDev' = <<>> /\ toHost' = <<>> /\ hpc' = "idle" /\ hpos' = 0 /\ hsz' = 0
      /\ hno' = 0 /\ hmode' = "crc" /\ tries' = 0
      /\ pc' = "prompt" /\ after' = "none" /\ retry' = 0 /\ trychar' = "C"
      /\ result' = "none" /\ repeats' = 0 /\ received' = <<>>
      /\ useCrc' = FALSE /\ bufsz' = 0 /\ packetno' = 1 /\ retrans' = MAXRETRANS
      /\ UNCHANGED <<flash, writeFailed, faults, intruded>> /\ spent' = faults
  BY DEF NextUpload, LocalsFresh, Again, lineVars
<1>2. TypeInv
  BY DEF StepInv
<1>3. LineTypes'
  <2>1. <<>> \in Seq(Tokens) /\ <<>> \in Seq(Replies)
    OBVIOUS
  <2>2. QED
    BY <1>1, <1>2, <2>1 DEF TypeInv, LineTypes
<1>4. ControlTypes'
  <2>1. /\ 0 \in 0..(MAX_BYTE_RETRIES - 1) /\ 1 \in 0..(BlockNumbers - 1)
        /\ MAXRETRANS \in 0..MAXRETRANS /\ MAXRETRANS # 0 /\ 0 \in 0..(MAXRETRANS + 1)
    BY ConstantFacts
  <2>2. QED
    BY <1>1, <2>1 DEF ControlTypes
<1>5. len' = 0
  BY <1>1 DEF len
<1>6. DataTypes'
  <2>1. <<>> \in Seq(Units) /\ 0 <= DestSz
    BY ConstantFacts
  <2>2. QED
    BY <1>1, <1>2, <1>5, <2>1 DEF TypeInv, DataTypes
<1>7. HostTypes'
  <2>1. 0 \in 0..(BlockNumbers - 1) /\ 0 \in 0..HostRetries /\ 0 \in Nat
    BY ConstantFacts
  <2>2. QED
    BY <1>1, <2>1 DEF HostTypes
<1>8. IdleState' /\ DataState' /\ EndState'
  BY <1>1 DEF IdleState, DataState, EndState
<1>9. PrefixIntegrity'
  BY <1>1, <1>5 DEF PrefixIntegrity
<1>10. QED
  BY <1>1, <1>3, <1>4, <1>6, <1>7, <1>8, <1>9 DEF StepInv, TypeInv

(* A byte that is not data and is echoed by the console.  A host that      *)
(* sends data hears nothing of it, and no other host can be misled.        *)
LEMMA EchoKeeps ==
  ASSUME StepInv, OnlyPackets, ConsoleByte, Head(toDev).type # "body"
  PROVE  /\ StepInv' /\ OnlyPackets' /\ UNCHANGED <<hpc, pc, faults, spent>>
         /\ ~intruded => ~intruded'
         /\ Packets(toDev') \subseteq Packets(toDev)
<1>1. TypeInv /\ toDev \in Seq(Tokens) /\ toHost \in Seq(Replies) /\ toDev # <<>>
  BY DEF StepInv, TypeInv, LineTypes, ConsoleByte
<1>2. /\ UNCHANGED <<faults, pc, after, retry, trychar, useCrc, bufsz, packetno, retrans,
                     received, flash, writeFailed, result, repeats, hpc, hpos, hsz, hno,
                     hmode, tries, spent>>
      /\ pc = "done"
  BY DEF ConsoleByte, rcvVars, locals, dataVars, hostVars
<1>3. ~intruded => ~intruded'
  BY DEF ConsoleByte
<1>4. toDev' = Tail(toDev)
  BY DEF ConsoleByte, AfterByte
<1>5. /\ toDev' \in Seq(Tokens) /\ Head(toDev) \in Items(toDev)
      /\ Items(toDev') \subseteq Items(toDev)
  BY <1>1, <1>4, ItemsOfTail
<1>6. Packets(toDev') \subseteq Packets(toDev) /\ Types(toDev') \subseteq Types(toDev)
  BY <1>5 DEF Packets, Types
<1>7. PICK r \in Heard(Head(toDev).type) :
        toHost' = IF r = "other" THEN toHost ELSE Append(toHost, r)
  BY DEF ConsoleByte
<1>8. r = "other" \/ r \in Replies
  BY <1>7 DEF Heard
<1>9. toHost' \in Seq(Replies)
  BY <1>1, <1>7, <1>8, ItemsOfAppend
<1>10. TypeInv'
  <2>1. LineTypes'
    BY <1>1, <1>2, <1>5, <1>9 DEF TypeInv, LineTypes
  <2>2. ControlTypes' /\ DataTypes' /\ HostTypes'
    BY <1>1, <1>2 DEF TypeInv, ControlTypes, DataTypes, HostTypes, len
  <2>3. QED
    BY <2>1, <2>2 DEF TypeInv
<1>11. IdleState'
  BY <1>1, <1>2 DEF StepInv, IdleState
<1>12. OnlyPackets'
  BY <1>2, <1>6 DEF OnlyPackets
<1>13. DataState'
  <2> SUFFICES ASSUME hpc = "data" PROVE DataState'
    BY <1>2 DEF DataState
  <2>1. Head(toDev).type \in {"SOH", "STX"}
    BY <1>2, <1>5 DEF OnlyPackets, PacketTokens, Types
  <2>2. Heard(Head(toDev).type) = {"other"}
    BY <2>1 DEF Heard, Replies
  <2>3. toHost' = toHost
    BY <1>7, <2>2
  <2>4. Over /\ trychar = "none" /\ (Awaited \/ Taken)
    BY <1>2 DEF StepInv, DataState, InFlight, Receiving, Answered, Refused, Asking
  <2>5. QED
    BY <1>2, <2>3, <2>4 DEF DataState, Over, OnlyCans, Awaited, Taken, Stored, len
<1>14. EndState' /\ PrefixIntegrity'
  BY <1>2 DEF StepInv, EndState, Ended, Stored, PrefixIntegrity, len
<1>15. QED
  BY <1>2, <1>3, <1>6, <1>10, <1>11, <1>12, <1>13, <1>14 DEF StepInv

(* The steps of LineNext. *)
LEMMA LineSteps ==
  ASSUME LineNext
  PROVE  \/ Next /\ UNCHANGED <<uploads, spent, intruded>>
         \/ ConsoleByte
         \/ NextUpload
BY DEF LineNext, Alone, otherVars, Next

(* A damage that spares first bytes leaves packets on a line of packets.   *)
LEMMA DamageOfPackets ==
  ASSUME LineTypes, Damage, Punctual, Types(toDev) \subseteq PacketTokens
  PROVE  Types(toDev') \subseteq PacketTokens
<1>1. PICK i \in 1..Len(toDev) :
        /\ KindOf(toDev[i].type) \in FaultKinds
        /\ \E d \in DamagedForms(toDev[i]) :
             toDev' = SubSeq(toDev, 1, i - 1) \o d \o SubSeq(toDev, i + 1, Len(toDev))
  BY DEF Damage
<1>2. toDev \in Seq(Tokens) /\ toDev[i] \in Items(toDev) /\ toDev[i] \in Tokens
  BY ElementOfSeq DEF LineTypes, Items
<1>3. toDev[i].type = "body" /\ toDev[i] \in Bodies
  <2>1. toDev[i].type \in PacketTokens /\ KindOf(toDev[i].type) # "header"
    BY <1>1, <1>2 DEF Types, Punctual
  <2>2. QED
    BY <1>2, <2>1, TokenTypes DEF PacketTokens, KindOf
<1>4. PICK d \in DamagedForms(toDev[i]) :
        toDev' = SubSeq(toDev, 1, i - 1) \o d \o SubSeq(toDev, i + 1, Len(toDev))
  BY <1>1
<1>5. PICK u \in Bodies : d = <<u>>
  <2>1. \/ d = <<[toDev[i] EXCEPT !.good = FALSE]>>
        \/ d = <<[toDev[i] EXCEPT !.good = FALSE, !.whole = FALSE]>>
    BY <1>3, <1>4 DEF DamagedForms
  <2>2. QED
    BY <1>3, <2>1, SpoiltBody
<1>6. u \in Tokens /\ u.type = "body"
  BY <1>5 DEF Bodies, Tokens
<1>7. d \in Seq(Tokens) /\ Items(d) = {u}
  BY <1>5, <1>6, ItemsOfOne
<1>8. Items(toDev') \subseteq Items(toDev) \cup Items(d)
  BY <1>2, <1>4, <1>7, ItemsOfReplaced
<1>9. QED
  BY <1>6, <1>7, <1>8 DEF Types, PacketTokens

(* Truth: the invariant. *)
LEMMA OnlyPacketsStep ==
  ASSUME StepInv, OnlyPackets, Punctual, Next
  PROVE  OnlyPackets'
<1> SUFFICES ASSUME hpc' = "data", pc' = "done" PROVE Types(toDev') \subseteq PacketTokens
  BY DEF OnlyPackets
<1>1. TypeInv /\ LineTypes /\ hpc \in {"idle", "data", "eot", "done", "gaveUp"}
  BY DEF StepInv, TypeInv, HostTypes
<1>2. hpc = "data"
  <2>1. hpc \notin {"eot", "done", "gaveUp"}
    BY EndSteps
  <2>2. ASSUME hpc = "idle" PROVE FALSE
    <3>1. HostStart
      BY <2>2 DEF Next, Receiver, Prompt, FirstByte, FirstByteTimeout, SecondByte,
         SecondByteTimeout, BodyAccept, BodyReject, FlushByte, FlushDone, Damage, LoseReply,
         Host, HostAck, HostNak, HostTimeout, HostCancelled, HostIgnore, HostWaits, hostVars
    <3>2. pc = "done" /\ toHost # <<>> /\ Head(toHost) \in {"C", "NAK"}
      BY <3>1 DEF HostStart, rcvVars
    <3>3. Head(toHost) \in Items(toHost) /\ OnlyCans
      BY <1>1, <2>2, <3>2, ItemsOfTail DEF LineTypes, StepInv, IdleState
    <3>4. QED
      BY <3>2, <3>3 DEF OnlyCans
  <2>3. QED
    BY <1>1, <2>1, <2>2
<1>3. InFlight \/ Receiving \/ Answered \/ Refused \/ Over
  BY <1>2 DEF StepInv, DataState
<1>4. CASE Receiver
  <2>1. FlushDone
    BY <1>2, <1>3, <1>4 DEF Receiver, Prompt, FirstByte, FirstByteTimeout, SecondByte,
       SecondByteTimeout, BodyAccept, BodyReject, FlushByte, NoHeader, FirstByteIs,
       GotHeader, Flush, rcvVars
  <2>2. toDev' = <<>>
    BY <1>3, <2>1 DEF FlushDone, InFlight, Receiving, Answered, Refused, Over, Asking
  <2>3. QED
    BY <2>2, SmallSeqs DEF Types
<1>5. CASE Damage
  <2>1. pc = "done"
    BY <1>5 DEF Damage, rcvVars
  <2>2. QED
    BY <1>1, <1>2, <1>5, <2>1, DamageOfPackets DEF OnlyPackets
<1>6. CASE LoseReply
  BY <1>2, <1>6 DEF LoseReply, rcvVars, OnlyPackets, Types
<1>7. CASE Host
  <2>1. pc = "done" /\ HostWaits
    BY <1>2, <1>7, HostInData DEF HostWaits
  <2>2. (HostNak \/ HostTimeout) /\ SendAgain
    BY <1>2, <1>7, <2>1, HostInData DEF Answered, Asking
  <2>3. SendPacket(hpos, hsz, hno, hmode)
    BY <1>1, <1>2, <2>1, <2>2, SendAgainTypes
  <2>4. /\ hpos \in 0..FileSize /\ hsz \in Sizes
        /\ hno \in 0..(BlockNumbers - 1) /\ hmode \in {"crc", "sum"}
    BY <1>1, <1>2, ConstantFacts DEF TypeInv, HostTypes
  <2>5. Types(toDev') \subseteq Types(toDev) \cup {"SOH", "STX", "body"}
    BY <1>1, <2>3, <2>4, PacketSent
  <2>6. QED
    BY <1>2, <2>1, <2>5 DEF OnlyPackets, PacketTokens
<1>8. QED
  BY <1>4, <1>5, <1>6, <1>7 DEF Next

LEMMA TruthStep == TruthInv /\ Punctual /\ [LineNext]_lineSpecVars => TruthInv'
<1> SUFFICES ASSUME TruthInv, Punctual, [LineNext]_lineSpecVars, ~intruded'
             PROVE  StepInv' /\ OnlyPackets'
  BY DEF TruthInv
<1>1. CASE UNCHANGED lineSpecVars
  <2>1. UNCHANGED vars /\ ~intruded /\ UNCHANGED <<hpc, pc, toDev>>
    BY <1>1 DEF lineSpecVars, otherVars, vars, hostVars, rcvVars, lineVars
  <2>2. StepInv'
    BY <2>1, StepInvStep DEF TruthInv
  <2>3. QED
    BY <2>1, <2>2 DEF TruthInv, OnlyPackets, Types, Items
<1>2. CASE Next /\ UNCHANGED <<uploads, spent, intruded>>
  BY <1>2, StepInvStep, OnlyPacketsStep DEF TruthInv
<1>3. CASE ConsoleByte
  <2>1. ~intruded /\ Head(toDev).type # "body"
    BY <1>3 DEF ConsoleByte
  <2>2. QED
    BY <1>3, <2>1, EchoKeeps DEF TruthInv
<1>4. CASE NextUpload
  <2>1. ~intruded
    BY <1>4 DEF NextUpload
  <2>2. QED
    BY <1>4, <2>1, UploadBegins DEF TruthInv, OnlyPackets
<1>5. QED
  BY <1>1, <1>2, <1>3, <1>4, LineSteps

(* A host to which the end was confirmed has a receiver that hashed the    *)
(* whole file, whatever was damaged or lost, and however many uploads and  *)
(* echoes there were before: nothing but data that reaches the console     *)
(* could make it wrong.                                                    *)
THEOREM HostToldTruth ==
  LineSpec /\ Punctual => [](DataStaysInUpload => HostDoneMeansWhole)
<1>1. Punctual => Punctual'
  BY DEF Punctual
<1>2. LineInit => TruthInv
  BY LineInitHolds
<1>3. TruthInv => (DataStaysInUpload => HostDoneMeansWhole)
  BY DEF TruthInv, DataStaysInUpload, HostDoneMeansWhole, StepInv, EndState, Ended,
         PrefixIntegrity
<1>4. QED
  BY <1>1, <1>2, <1>3, TruthStep, PTL DEF LineSpec

(* The budget: one lemma for the steps of each actor while the host sends  *)
(* data, and one for all others.                                           *)
LEMMA BudgetReceiver ==
  ASSUME BudgetInv, Punctual, TimesOutFirst, hpc = "data", Receiver, UNCHANGED spent
  PROVE  DataBudget'
<1>1. /\ InFlight \/ Receiving \/ Answered \/ Refused \/ Over
      /\ trychar # "none" => pc = "header" /\ toDev # <<>>
  BY DEF BudgetInv, StepInv, DataState
<1>2. /\ pc \notin {"flush", "done"} => Paid
      /\ pc = "flush" => (after = "nak" /\ Paid) \/ (after = "retrans" /\ Suffered >= MAXRETRANS)
  BY DEF BudgetInv, DataBudget
<1>3. /\ Suffered \in Nat /\ MAXRETRANS \in Nat /\ MAXRETRANS > 0 /\ retrans \in Nat
      /\ TypeInv /\ LineTypes
  BY BudgetNumbers
<1>4. hpc' = "data" /\ UNCHANGED <<hno, faults>> /\ Suffered' = Suffered
  BY DEF Receiver, Prompt, FirstByte, FirstByteTimeout, SecondByte, SecondByteTimeout,
         BodyAccept, BodyReject, FlushByte, FlushDone, hostVars, lineVars, Suffered
<1>5. ASSUME UNCHANGED <<packetno, retrans>>, Acks' = Acks, Paid
      PROVE  Paid'
  BY <1>4, <1>5 DEF Paid, Repeated
<1>6. CASE InFlight
  <2>1. toDev # <<>> /\ toDev[1].type \in {"SOH", "STX"} /\ Asking /\ Len(toDev) = 2
    BY <1>6 DEF InFlight
  <2>2. Head(toDev) = toDev[1]
    BY <1>3, <2>1, HeadTailProperties DEF LineTypes
  <2>3. CASE Prompt
    <3>1. trychar = "none"
      BY <1>1, <2>3 DEF Prompt
    <3>2. UNCHANGED <<toHost, packetno, retrans>> /\ pc' = "header"
      BY <2>3, <3>1 DEF Prompt, locals
    <3>3. QED
      BY <1>2, <1>4, <1>5, <2>1, <3>2 DEF DataBudget, Acks, Asking
  <2>4. CASE FirstByte
    <3>1. UNCHANGED <<toHost, packetno, retrans>> /\ pc' = "body"
      BY <2>1, <2>2, <2>4 DEF FirstByte, Looks, FirstByteIs, GotHeader
    <3>2. QED
      BY <1>2, <1>4, <1>5, <2>1, <3>1 DEF DataBudget, Acks, Asking
  <2>5. QED
    BY <1>6, <2>1, <2>3, <2>4
       DEF Receiver, FirstByteTimeout, SecondByte, SecondByteTimeout, BodyAccept,
           BodyReject, FlushByte, FlushDone, Silent, Asking
<1>7. CASE Receiving
  <2>1. toHost = <<>> /\ pc = "body" /\ Acks = 0 /\ Paid /\ Len(toDev) = 1
    BY <1>2, <1>7, SmallSeqs DEF Receiving, Acks
  <2>2. CASE BodyReject
    <3>1. UNCHANGED <<toHost, packetno, retrans>> /\ pc' = "flush" /\ after' = "nak"
      BY <2>2 DEF BodyReject, Flush, locals
    <3>2. QED
      BY <1>4, <1>5, <2>1, <3>1 DEF DataBudget, Acks
  <2>3. CASE BodyAccept
    <3> PICK b : b = Head(toDev)
      OBVIOUS
    <3>1. b.no = hno
      <4>1. toDev # <<>> /\ b = toDev[1]
        BY <1>3, <2>1, HeadTailProperties DEF LineTypes
      <4>2. QED
        BY <1>7, <4>1 DEF Receiving, CurrentPacket, Packet, Numbered
    <3>2. \/ b.no = packetno /\ retrans' = MAXRETRANS
          \/ b.no = packetno - 1 /\ packetno' = packetno /\ retrans' = retrans - 1
      BY <1>3, <2>3, AcceptedFacts
    <3>3. /\ retrans' <= 0 => pc' = "flush" /\ after' = "retrans"
          /\ ~(retrans' <= 0) => toHost' = <<"ACK">> /\ pc' = "prompt"
      BY <2>1, <2>3, SmallSeqs DEF BodyAccept, Flush
    <3>4. toHost' = <<"ACK">> => Acks' = 1
      BY SmallSeqs DEF Acks
    <3>5. CASE b.no = packetno /\ retrans' = MAXRETRANS
      <4>1. pc' = "prompt" /\ Acks' = 1
        BY <1>3, <3>3, <3>4, <3>5
      <4>2. Paid'
        BY <1>3, <1>4, <3>5, <4>1 DEF Paid, Repeated
      <4>3. QED
        BY <4>1, <4>2 DEF DataBudget
    <3>6. CASE b.no = packetno - 1 /\ packetno' = packetno /\ retrans' = retrans - 1
      <4>1. packetno # hno
        BY <1>3, <3>1, <3>6 DEF TypeInv, ControlTypes
      <4>2. Suffered >= MAXRETRANS - retrans + 1
        BY <1>3, <2>1, <4>1 DEF Paid, Repeated
      <4>3. CASE retrans' <= 0
        <5>1. Suffered' >= MAXRETRANS
          BY <1>3, <1>4, <3>6, <4>2, <4>3
        <5>2. QED
          BY <3>3, <4>3, <5>1 DEF DataBudget
      <4>4. CASE ~(retrans' <= 0)
        <5>1. pc' = "prompt" /\ Acks' = 1
          BY <3>3, <3>4, <4>4
        <5>2. Paid'
          BY <1>3, <1>4, <3>6, <4>2, <5>1 DEF Paid, Repeated
        <5>3. QED
          BY <5>1, <5>2 DEF DataBudget
      <4>5. QED
        BY <4>3, <4>4
    <3>7. QED
      BY <3>2, <3>5, <3>6
  <2>4. QED
    BY <2>1, <2>2, <2>3
       DEF Receiver, Prompt, FirstByte, FirstByteTimeout, SecondByte, SecondByteTimeout,
           FlushByte, FlushDone
<1>8. CASE Answered
  <2>1. trychar = "none" /\ toDev = <<>> /\ Asking /\ Paid
    BY <1>1, <1>2, <1>8 DEF Answered, Asking
  <2>2. CASE Prompt
    <3>1. UNCHANGED <<toHost, packetno, retrans>> /\ pc' = "header"
      BY <2>1, <2>2 DEF Prompt, locals
    <3>2. QED
      BY <1>4, <1>5, <2>1, <3>1 DEF DataBudget, Acks
  <2>3. CASE FirstByteTimeout
    <3>1. retry < HostPatience
      BY <2>3 DEF FirstByteTimeout, Punctual, HostWaits
    <3>2. retry + 1 < MAX_BYTE_RETRIES
      BY <1>3, <3>1, LimitAssumption DEF TimesOutFirst, TypeInv, ControlTypes
    <3>3. UNCHANGED <<toHost, packetno, retrans>> /\ pc' = "prompt"
      BY <2>3, <3>2 DEF FirstByteTimeout, NoHeader, lineVars, locals
    <3>4. QED
      BY <1>4, <1>5, <2>1, <3>3 DEF DataBudget, Acks
  <2>4. QED
    BY <2>1, <2>2, <2>3
       DEF Receiver, FirstByte, SecondByte, SecondByteTimeout, BodyAccept,
           BodyReject, FlushByte, FlushDone, Asking
<1>9. CASE Refused
  <2>1. toDev = <<>> /\ toHost = <<>> /\ pc = "flush" /\ Acks = 0
    BY <1>9, SmallSeqs DEF Refused, Acks
  <2>2. FlushDone
    BY <2>1 DEF Receiver, Prompt, FirstByte, FirstByteTimeout, SecondByte, SecondByteTimeout,
                FlushByte, BodyAccept, BodyReject
  <2>3. toHost' = <<>> \o Answer(after) /\ UNCHANGED <<toDev, packetno, retrans>>
    BY <2>1, <2>2 DEF FlushDone, locals
  <2>4. CASE after = "nak" /\ Paid
    <3>1. toHost' = <<"NAK">> /\ pc' = "prompt"
      BY <2>2, <2>3, <2>4, SmallSeqs DEF FlushDone, Answer
    <3>2. Acks' = 0
      BY <3>1, SmallSeqs DEF Acks
    <3>3. QED
      BY <1>4, <1>5, <2>1, <2>3, <2>4, <3>1, <3>2 DEF DataBudget
  <2>5. CASE after = "retrans" /\ Suffered >= MAXRETRANS
    <3>1. toHost' = <<>> \o GiveUp /\ pc' = "done"
      BY <2>2, <2>3, <2>5 DEF FlushDone, Answer
    <3>2. Len(toHost') = 3
      BY <3>1 DEF GiveUp
    <3>3. GaveUpPaid'
      BY <1>3, <1>4, <2>5, <3>2 DEF GaveUpPaid
    <3>4. QED
      BY <2>1, <2>3, <3>1, <3>3 DEF DataBudget
  <2>6. QED
    BY <1>2, <2>1, <2>4, <2>5
<1>10. CASE Over
  BY <1>10 DEF Over, Receiver, Prompt, FirstByte, FirstByteTimeout, SecondByte,
               SecondByteTimeout, BodyAccept, BodyReject, FlushByte, FlushDone
<1>11. QED
  BY <1>1, <1>6, <1>7, <1>8, <1>9, <1>10

(* A reply that is lost is one reply. *)
LEMMA OneReplyLost ==
  ASSUME LineTypes, LoseReply
  PROVE  Len(toHost) \in Nat /\ Len(toHost') \in Nat /\ Len(toHost') = Len(toHost) - 1
<1>1. PICK i \in 1..Len(toHost) :
        toHost' = SubSeq(toHost, 1, i - 1) \o SubSeq(toHost, i + 1, Len(toHost))
  BY DEF LoseReply
<1>2. /\ toHost \in Seq(Replies) /\ Len(toHost) \in Nat
      /\ \A j \in 1..Len(toHost) : toHost[j] \in Replies
  BY ElementOfSeq, LenProperties DEF LineTypes
<1> DEFINE a == SubSeq(toHost, 1, i - 1)
           c == SubSeq(toHost, i + 1, Len(toHost))
<1>3. a \in Seq(Replies) /\ Len(a) = i - 1
  <2>1. \A j \in 1..(i - 1) : toHost[j] \in Replies
    BY <1>2
  <2>2. a \in Seq(Replies) /\ Len(a) = IF 1 <= i - 1 THEN i - 1 - 1 + 1 ELSE 0
    BY <1>2, <2>1, SubSeqProperties
  <2> HIDE DEF a
  <2>3. QED
    BY <1>2, <2>2
<1>4. c \in Seq(Replies) /\ Len(c) = Len(toHost) - i
  <2>1. \A j \in (i + 1)..Len(toHost) : toHost[j] \in Replies
    BY <1>2
  <2>2. c \in Seq(Replies)
        /\ Len(c) = IF i + 1 <= Len(toHost) THEN Len(toHost) - (i + 1) + 1 ELSE 0
    BY <1>2, <2>1, SubSeqProperties
  <2> HIDE DEF c
  <2>3. QED
    BY <1>2, <2>2
<1> HIDE DEF a, c
<1>5. Len(a \o c) = Len(a) + Len(c)
  BY <1>3, <1>4, ConcatProperties
<1>6. toHost' = a \o c
  BY <1>1 DEF a, c
<1>7. QED
  BY <1>2, <1>3, <1>4, <1>5, <1>6

LEMMA BudgetFaults ==
  ASSUME BudgetInv, hpc = "data", Damage \/ LoseReply, UNCHANGED spent
  PROVE  DataBudget'
<1>1. /\ pc \notin {"flush", "done"} => Paid
      /\ pc = "flush" => (after = "nak" /\ Paid) \/ (after = "retrans" /\ Suffered >= MAXRETRANS)
      /\ pc = "done" => toDev = <<>> /\ GaveUpPaid
  BY DEF BudgetInv, DataBudget
<1>2. /\ Suffered \in Nat /\ MAXRETRANS \in Nat /\ retrans \in Nat /\ faults \in Nat
      /\ spent \in Nat /\ LineTypes
  BY BudgetNumbers
<1>3. UNCHANGED <<hpc, hno, pc, after, packetno, retrans>> /\ faults' = faults + 1
  BY DEF Damage, LoseReply, rcvVars, locals, hostVars
<1>4. Suffered' = Suffered + 1
  BY <1>2, <1>3 DEF Suffered
<1>5. Suffered' + Acks' >= Suffered + Acks
  <2>1. CASE Damage
    BY <1>2, <1>4, <2>1 DEF Damage, Acks
  <2>2. CASE LoseReply
    BY <1>2, <1>4, <2>2 DEF Acks
  <2>3. QED
    BY <2>1, <2>2
<1>6. Paid => Paid'
  <2>1. Acks \in Int /\ Acks' \in Int /\ Suffered \in Int /\ Suffered' \in Int
    BY <1>2, <1>4 DEF Acks
  <2>2. Repeated \in Int /\ Repeated' = Repeated
    BY <1>2, <1>3 DEF Repeated
  <2>3. \A x, y, z \in Int : x >= y /\ y >= z + 1 => x >= z + 1
    OBVIOUS
  <2>4. Suffered + Acks \in Int /\ Suffered' + Acks' \in Int
    BY <2>1
  <2>5. Suffered + Acks >= Repeated + 1 => Suffered' + Acks' >= Repeated' + 1
    BY <1>5, <2>2, <2>3, <2>4
  <2>6. QED
    BY <1>3, <2>5 DEF Paid
<1>7. pc = "done" => toDev' = <<>> /\ GaveUpPaid'
  <2> SUFFICES ASSUME pc = "done" PROVE toDev' = <<>> /\ GaveUpPaid'
    OBVIOUS
  <2>1. ~Damage
    <3>1. 1..Len(toDev) = {}
      BY <1>1
    <3>2. QED
      BY <3>1 DEF Damage
  <2>2. LoseReply /\ toDev' = <<>>
    BY <1>1, <2>1 DEF LoseReply
  <2>3. Len(toHost) \in Nat /\ Len(toHost') = Len(toHost) - 1
    BY <1>2, <2>2, OneReplyLost
  <2>4. QED
    BY <1>1, <1>2, <1>4, <2>2, <2>3 DEF GaveUpPaid
<1>8. QED
  BY <1>1, <1>2, <1>3, <1>4, <1>6, <1>7 DEF DataBudget

LEMMA BudgetHost ==
  ASSUME BudgetInv, Punctual, FewFaults, hpc = "data", Host, UNCHANGED spent
  PROVE  DataBudget' /\ NoPackets'
<1>1. StepInv /\ TypeInv /\ LineTypes /\ HostWaits
  BY BudgetNumbers DEF BudgetInv, HostWaits
<1>2. /\ Suffered \in Nat /\ MAXRETRANS \in Nat /\ retrans \in Nat /\ Acks \in {0, 1}
  BY BudgetNumbers
<1>3. UNCHANGED <<pc, after, packetno>>
  BY <1>1, HostInData
<1>4. UNCHANGED <<faults, retrans>> /\ Suffered' = Suffered /\ Repeated' = Repeated
  BY DEF Host, HostStart, HostAck, HostNak, HostTimeout, HostCancelled, HostIgnore,
         rcvVars, locals, Suffered, Repeated
<1>5. ASSUME toDev = <<>>, Packets(toDev') \subseteq Packets(toDev), hpc' # "data"
      PROVE  DataBudget' /\ NoPackets'
  BY <1>5, SmallSeqs DEF DataBudget, NoPackets
<1>6. CASE /\ HostAck /\ Answered /\ toDev = <<>> /\ toHost' = <<>> /\ Taken
           /\ SendNext(hpos + hsz, (hno + 1) % BlockNumbers, hmode)
  <2>1. (hno + 1) % BlockNumbers \in 0..(BlockNumbers - 1) /\ hpos + hsz \in Nat
    BY <1>1, ConstantFacts DEF TypeInv, HostTypes
  <2>2. hmode \in {"crc", "sum"}
    BY <1>1 DEF TypeInv, HostTypes
  <2>3. hno' = (hno + 1) % BlockNumbers /\ (hpc' = "data" \/
          (hpc' = "eot" /\ Packets(toDev') \subseteq Packets(toDev)))
    BY <1>1, <1>6, <2>1, <2>2, SendNextTypes
  <2>4. pc' \notin {"flush", "done"} /\ packetno' = hno'
    BY <1>3, <1>6, <2>3 DEF Answered, Asking, Taken
  <2>5. CASE hpc' = "data"
    BY <2>4, <2>5 DEF DataBudget, NoPackets, Paid
  <2>6. CASE hpc' = "eot" /\ Packets(toDev') \subseteq Packets(toDev)
    BY <1>5, <1>6, <2>6
  <2>7. QED
    BY <2>3, <2>5, <2>6
<1>7. CASE /\ HostNak \/ HostTimeout
           /\ Answered \/ (Over /\ toHost = <<>>)
           /\ toHost' = <<>> /\ "ACK" \notin Items(toHost)
           /\ SendAgain /\ UNCHANGED <<hpos, hsz, hno>>
  <2>1. ~(Over /\ toHost = <<>>)
    <3>1. ASSUME Over, toHost = <<>> PROVE FALSE
      <4>1. GaveUpPaid /\ Len(toHost) = 0
        BY <3>1 DEF BudgetInv, DataBudget, Over
      <4>2. QED
        BY <1>2, <4>1 DEF GaveUpPaid, FewFaults
    <3>2. QED
      BY <3>1
  <2>2. Answered /\ toDev = <<>> /\ pc \notin {"flush", "done"} /\ Paid
    BY <1>7, <2>1 DEF Answered, Asking, BudgetInv, DataBudget
  <2>3. \/ hpc' = "data"
        \/ hpc' = "gaveUp" /\ Packets(toDev') \subseteq Packets(toDev)
    BY <1>1, <1>7, SendAgainTypes
  <2>4. CASE hpc' = "data"
    <3>1. Acks = 0 /\ Acks' = 0
      BY <1>7, SmallSeqs DEF Acks
    <3>2. Paid'
      BY <1>2, <1>3, <1>4, <1>7, <2>2, <3>1 DEF Paid
    <3>3. QED
      BY <1>3, <2>2, <2>4, <3>2 DEF DataBudget, NoPackets
  <2>5. QED
    BY <1>5, <2>2, <2>3, <2>4
<1>8. CASE HostCancelled /\ Over /\ hpc' = "gaveUp"
  <2>1. toDev = <<>> /\ toDev' = toDev
    BY <1>8 DEF HostCancelled, Over, BudgetInv, DataBudget
  <2>2. QED
    BY <1>5, <1>8, <2>1
<1>9. QED
  BY <1>1, <1>6, <1>7, <1>8, HostInData

LEMMA BudgetRest ==
  ASSUME BudgetInv, Punctual, hpc # "data", Next
  PROVE  DataBudget' /\ NoPackets'
<1>1. StepInv /\ Packets(toDev) = {} /\ hpc \in {"idle", "data", "eot", "done", "gaveUp"}
  BY DEF BudgetInv, NoPackets, StepInv, TypeInv, HostTypes
<1>2. CASE hpc = "idle"
  <2>1. IdleState' /\ EndState' /\ packetno = 1
    BY <1>1, <1>2, IdleSteps DEF StepInv, IdleState
  <2>2. hpc' = "idle" => toDev' = <<>>
    BY <2>1 DEF IdleState
  <2>3. CASE ~HostStart
    <3>1. hpc' = "idle"
      BY <1>2, <2>3 DEF Next, Receiver, Prompt, FirstByte, FirstByteTimeout, SecondByte,
         SecondByteTimeout, BodyAccept, BodyReject, FlushByte, FlushDone, Damage, LoseReply,
         Host, HostAck, HostNak, HostTimeout, HostCancelled, HostIgnore, HostWaits, hostVars
    <3>2. QED
      BY <2>2, <3>1, SmallSeqs DEF DataBudget, NoPackets
  <2>4. CASE HostStart
    <3>1. /\ UNCHANGED <<pc, packetno>> /\ toHost # <<>> /\ Head(toHost) \in {"C", "NAK"}
          /\ hno' = 1 /\ hpc' \in {"data", "eot"}
      BY <2>4 DEF HostStart, SendNext, rcvVars, locals
    <3>2. pc = "header"
      <4>1. Head(toHost) \in Items(toHost)
        BY <1>1, <3>1, ItemsOfTail DEF StepInv, TypeInv, LineTypes
      <4>2. QED
        BY <1>1, <1>2, <3>1, <4>1, SmallSeqs DEF StepInv, IdleState, OnlyCans
    <3>3. CASE hpc' = "data"
      BY <2>1, <3>1, <3>2, <3>3 DEF DataBudget, NoPackets, Paid
    <3>4. CASE hpc' = "eot"
      BY <2>1, <3>1, <3>2, <3>4 DEF DataBudget, NoPackets, EndState
    <3>5. QED
      BY <3>1, <3>3, <3>4
  <2>5. QED
    BY <2>3, <2>4
<1>3. CASE hpc \in {"eot", "done", "gaveUp"}
  <2>1. hpc' \in {"eot", "done", "gaveUp"} /\ Packets(toDev') \subseteq Packets(toDev)
    BY <1>1, <1>3, EndSteps
  <2>2. QED
    BY <1>1, <2>1 DEF DataBudget, NoPackets
<1>4. QED
  BY <1>1, <1>2, <1>3

LEMMA BudgetStep ==
  BudgetInv /\ Punctual /\ TimesOutFirst /\ FewFaults /\ [LineNext]_lineSpecVars => BudgetInv'
<1> SUFFICES ASSUME BudgetInv, Punctual, TimesOutFirst, FewFaults, [LineNext]_lineSpecVars
             PROVE  BudgetInv'
  OBVIOUS
<1>1. StepInv /\ ~intruded /\ spent \in 0..faults /\ faults \in Nat
  BY BudgetNumbers DEF BudgetInv
<1>2. CASE UNCHANGED lineSpecVars
  <2>1. /\ UNCHANGED vars /\ UNCHANGED <<intruded, spent>>
        /\ UNCHANGED <<hpc, pc, after, toDev, toHost, faults, packetno, hno, retrans>>
    BY <1>2 DEF lineSpecVars, otherVars, vars, hostVars, rcvVars, lineVars, locals
  <2>2. StepInv'
    BY <1>1, <2>1, StepInvStep
  <2>3. DataBudget' /\ NoPackets'
    BY <2>1 DEF BudgetInv, DataBudget, NoPackets, Paid, GaveUpPaid, Suffered, Acks, Repeated,
                Packets, Items
  <2>4. QED
    BY <1>1, <2>1, <2>2, <2>3 DEF BudgetInv
<1>3. CASE Next /\ UNCHANGED <<uploads, spent, intruded>>
  <2>1. StepInv'
    BY <1>1, <1>3, StepInvStep
  <2>2. faults' \in {faults, faults + 1}
    BY <1>3 DEF Next, Receiver, Prompt, FirstByte, FirstByteTimeout, SecondByte,
         SecondByteTimeout, BodyAccept, BodyReject, FlushByte, FlushDone, Damage, LoseReply,
         Host, HostStart, HostAck, HostNak, HostTimeout, HostCancelled, HostIgnore, lineVars
  <2>3. DataBudget' /\ NoPackets'
    <3>1. CASE hpc = "data" /\ (Receiver \/ Damage \/ LoseReply)
      <4>1. DataBudget'
        BY <1>3, <3>1, BudgetReceiver, BudgetFaults
      <4>2. hpc' = "data"
        BY <3>1 DEF Receiver, Prompt, FirstByte, FirstByteTimeout, SecondByte,
           SecondByteTimeout, BodyAccept, BodyReject, FlushByte, FlushDone, Damage,
           LoseReply, hostVars
      <4>3. QED
        BY <4>1, <4>2 DEF NoPackets
    <3>2. CASE hpc = "data" /\ Host
      BY <1>3, <3>2, BudgetHost
    <3>3. CASE hpc # "data"
      BY <1>3, <3>3, BudgetRest
    <3>4. QED
      BY <1>3, <3>1, <3>2, <3>3 DEF Next
  <2>4. spent' \in 0..faults' /\ ~intruded'
    BY <1>1, <1>3, <2>2
  <2>5. QED
    BY <2>1, <2>3, <2>4 DEF BudgetInv
<1>4. CASE ConsoleByte
  <2>1. toDev # <<>> /\ pc = "done" /\ toDev \in Seq(Tokens)
    BY <1>1, <1>4 DEF ConsoleByte, StepInv, TypeInv, LineTypes
  <2>2. hpc # "data" /\ Packets(toDev) = {}
    BY <2>1 DEF BudgetInv, DataBudget, NoPackets
  <2>3. Head(toDev).type # "body"
    <3>1. Head(toDev) \in Items(toDev)
      BY <2>1, ItemsOfTail
    <3>2. QED
      BY <2>2, <3>1 DEF Packets
  <2>4. OnlyPackets
    BY <2>2 DEF OnlyPackets
  <2>5. /\ StepInv' /\ UNCHANGED <<hpc, faults, spent>> /\ ~intruded'
        /\ Packets(toDev') \subseteq Packets(toDev)
    BY <1>1, <1>4, <2>3, <2>4, EchoKeeps
  <2>6. QED
    BY <1>1, <2>2, <2>5 DEF BudgetInv, DataBudget, NoPackets
<1>5. CASE NextUpload
  <2>1. StepInv' /\ hpc' = "idle" /\ toDev' = <<>> /\ UNCHANGED <<faults, intruded>>
        /\ spent' = faults
    BY <1>1, <1>5, UploadBegins
  <2>2. Packets(toDev') = {} /\ spent' \in 0..faults'
    BY <1>1, <2>1, SmallSeqs
  <2>3. QED
    BY <1>1, <2>1, <2>2 DEF BudgetInv, DataBudget, NoPackets
<1>6. QED
  BY <1>2, <1>3, <1>4, <1>5, LineSteps

(* The console reads no data of a packet, over any number of uploads, if   *)
(* none of them suffers MAXRETRANS + 3 damages: what it takes to use up    *)
(* the retries is not enough, all the CANs must be lost as well.           *)
THEOREM DataKeptFromConsole ==
  LineSpec /\ Punctual /\ TimesOutFirst /\ []FewFaults => []DataStaysInUpload
<1>1. (Punctual => Punctual') /\ (TimesOutFirst => TimesOutFirst')
  BY DEF Punctual, TimesOutFirst
<1>2. LineInit => BudgetInv
  BY LineInitHolds
<1>3. BudgetInv => DataStaysInUpload
  BY DEF BudgetInv, DataStaysInUpload
<1>4. QED
  BY <1>1, <1>2, <1>3, BudgetStep, PTL DEF LineSpec

(* Together: under as few damages a host that was told of the end of its   *)
(* upload has been told the truth.                                         *)
THEOREM EndIsTrue ==
  LineSpec /\ Punctual /\ TimesOutFirst /\ []FewFaults => []HostDoneMeansWhole
BY HostToldTruth, DataKeptFromConsole, PTL
=============================================================================
