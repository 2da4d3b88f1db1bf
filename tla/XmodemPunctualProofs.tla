------------------------ MODULE XmodemPunctualProofs ------------------------
(***************************************************************************)
(* Proofs about an upload from a host that answers and times out in time,  *)
(* over a line that damages no first byte of a packet: whatever else is    *)
(* damaged or lost, receiver and host stay in step, with block numbers     *)
(* that are used again, and the upload implements FileCopy.                *)
(***************************************************************************)
EXTENDS XmodemProofs

Punctual == PunctualHost /\ "header" \notin FaultKinds

Asking == pc \in {"prompt", "header"}
OnlyCans == Items(toHost) \subseteq {"CAN"}
CurrentPacket(t) == t.type = "body" /\ Packet(t) = Numbered(hno, hpos, hsz)

(* Before the host has started, at most one prompt is on its way. *)
IdleState ==
  hpc = "idle" =>
    /\ toDev = <<>> /\ packetno = 1 /\ received = <<>> /\ hpos = 0
    /\ \/ pc = "prompt" /\ toHost = <<>>
       \/ pc = "header" /\ toHost \in {<<>>, <<"C">>, <<"NAK">>}
       \/ pc = "flush" /\ after = "sync" /\ toHost = <<>>
       \/ pc = "done" /\ OnlyCans

(* While the host sends data either the packet is on the line, or the      *)
(* receiver has read its header, or its answer is on the way or lost, or   *)
(* the receiver is about to refuse it, or the receiver has returned.       *)
InFlight ==
  /\ Asking /\ toHost = <<>> /\ Len(toDev) = 2
  /\ toDev[1].type \in {"SOH", "STX"} /\ CurrentPacket(toDev[2])
Receiving ==
  pc = "body" /\ toHost = <<>> /\ Len(toDev) = 1 /\ CurrentPacket(toDev[1])
Answered == Asking /\ toDev = <<>> /\ toHost \in {<<>>, <<"NAK">>, <<"ACK">>}
Refused ==
  /\ pc = "flush" /\ after \in {"nak", "retrans", "sync"}
  /\ toDev = <<>> /\ toHost = <<>>
Over == pc = "done" /\ OnlyCans

(* The packet has not been stored, and no ACK is on the way, or it has. *)
Awaited == packetno = hno /\ Stored(hpos) /\ "ACK" \notin Items(toHost)
Taken == packetno = (hno + 1) % BlockNumbers /\ Stored(hpos + hsz)

DataState ==
  hpc = "data" =>
    /\ InFlight \/ Receiving \/ Answered \/ Refused \/ Over
    /\ trychar # "none" => pc = "header" /\ toDev # <<>>
    /\ Awaited \/ Taken

(* After its last packet the host sends no other, and the file is stored   *)
(* unless the host gave up.                                                *)
Ended == hpos >= FileSize /\ Stored(hpos)
EndState ==
  /\ hpc \in {"eot", "done", "gaveUp"} /\ pc # "done" => Packets(toDev) = {}
  /\ hpc \in {"eot", "done"} => Ended

StepInv == TypeInv /\ IdleState /\ DataState /\ EndState /\ PrefixIntegrity

(* An EOT is met, and a normal end is reached, only when the file is stored. *)
EndInv ==
  /\ pc # "done" => result = "none"
  /\ (pc = "flush" /\ after = "end") \/ result = "end" \/ "EOT" \in Types(toDev) => Ended

-----------------------------------------------------------------------------
LEMMA SmallSeqs ==
  /\ \A x : Len(<<x>>) = 1 /\ <<x>> # <<>> /\ Head(<<x>>) = x /\ Tail(<<x>>) = <<>>
  /\ \A x : <<>> \o <<x>> = <<x>> /\ Append(<<>>, x) = <<x>>
  /\ \A x : Items(<<x>>) = {x}
  /\ Items(<<>>) = {} /\ Len(<<>>) = 0 /\ Packets(<<>>) = {}
  /\ Items(GiveUp) = {"CAN"}
<1>1. 1..1 = {1} /\ 1..0 = {} /\ 1..3 = {1, 2, 3}
  OBVIOUS
<1>2. \A x : Len(<<x>>) = 1 /\ <<x>> # <<>> /\ Head(<<x>>) = x /\ Tail(<<x>>) = <<>>
  OBVIOUS
<1>3. \A x : <<>> \o <<x>> = <<x>> /\ Append(<<>>, x) = <<x>>
  OBVIOUS
<1>4. \A x : Items(<<x>>) = {x}
  BY <1>1 DEF Items
<1>5. Items(<<>>) = {} /\ Len(<<>>) = 0
  BY <1>1 DEF Items
<1>6. Packets(<<>>) = {}
  BY <1>5 DEF Packets
<1>7. Items(GiveUp) = {"CAN"}
  BY <1>1 DEF Items, GiveUp
<1>8. QED
  BY <1>2, <1>3, <1>4, <1>5, <1>6, <1>7

(* Losing the only reply leaves none. *)
LEMMA OnlyReplyLost ==
  ASSUME LoseReply, NEW x, toHost \in {<<>>, <<x>>}
  PROVE  toHost' = <<>>
<1>1. PICK i \in 1..Len(toHost) :
        toHost' = SubSeq(toHost, 1, i - 1) \o SubSeq(toHost, i + 1, Len(toHost))
  BY DEF LoseReply
<1>2. toHost = <<x>> /\ i = 1
  <2>1. CASE toHost = <<>>
    <3>1. Len(toHost) = 0 /\ 1..0 = {}
      BY <2>1
    <3>2. QED
      BY <3>1
  <2>2. CASE toHost = <<x>>
    <3>1. Len(toHost) = 1 /\ 1..1 = {1}
      BY <2>2
    <3>2. QED
      BY <2>2, <3>1
  <2>3. QED
    BY <2>1, <2>2
<1>3. toHost' = SubSeq(<<x>>, 1, 0) \o SubSeq(<<x>>, 2, 1)
  BY <1>1, <1>2
<1>4. QED
  BY <1>3

(* A damage of the only body of a line whose headers are spared. *)
LEMMA BodyDamaged ==
  ASSUME LineTypes, Damage, Punctual, NEW k \in 1..Len(toDev), k = Len(toDev),
         toDev[k].type = "body",
         \A j \in 1..Len(toDev) : j # k => toDev[j].type \in {"SOH", "STX"}
  PROVE  /\ Len(toDev') = Len(toDev)
         /\ \A j \in 1..Len(toDev) : j # k => toDev'[j] = toDev[j]
         /\ toDev'[k].type = "body" /\ Packet(toDev'[k]) = Packet(toDev[k])
<1>1. PICK i \in 1..Len(toDev) :
        /\ KindOf(toDev[i].type) \in FaultKinds
        /\ \E d \in DamagedForms(toDev[i]) :
             toDev' = SubSeq(toDev, 1, i - 1) \o d \o SubSeq(toDev, i + 1, Len(toDev))
  BY DEF Damage
<1>2. i = k
  BY <1>1 DEF KindOf, Punctual
<1>3. toDev \in Seq(Tokens) /\ toDev[k] \in Bodies
  BY ElementOfSeq, TokenTypes DEF LineTypes
<1>4. PICK u \in Bodies : /\ Packet(u) = Packet(toDev[k])
                          /\ toDev' = SubSeq(toDev, 1, k - 1) \o <<u>> \o SubSeq(toDev, k + 1, Len(toDev))
  <2>1. PICK d \in DamagedForms(toDev[k]) :
          toDev' = SubSeq(toDev, 1, k - 1) \o d \o SubSeq(toDev, k + 1, Len(toDev))
    BY <1>1, <1>2
  <2>2. \/ d = <<[toDev[k] EXCEPT !.good = FALSE]>>
        \/ d = <<[toDev[k] EXCEPT !.good = FALSE, !.whole = FALSE]>>
    BY <2>1 DEF DamagedForms
  <2>3. QED
    BY <1>3, <2>1, <2>2, SpoiltBody
<1> DEFINE a == SubSeq(toDev, 1, k - 1)
           c == SubSeq(toDev, k + 1, Len(toDev))
           e == <<u>>
<1>5. /\ Len(toDev) \in Nat /\ k \in Nat /\ k >= 1
      /\ \A j \in 1..Len(toDev) : toDev[j] \in Tokens
  BY <1>3, LenProperties, ElementOfSeq
<1>6. a \in Seq(Tokens) /\ Len(a) = k - 1 /\ \A j \in 1..(k - 1) : a[j] = toDev[j]
  <2>1. \A j \in 1..(k - 1) : j \in 1..Len(toDev) /\ toDev[j] \in Tokens
    BY <1>5
  <2>2. /\ a \in Seq(Tokens)
        /\ Len(a) = IF 1 <= k - 1 THEN k - 1 - 1 + 1 ELSE 0
        /\ \A j \in 1..(k - 1 - 1 + 1) : a[j] = toDev[1 + j - 1]
    BY <1>5, <2>1, SubSeqProperties
  <2> HIDE DEF a
  <2>3. Len(a) = k - 1
    BY <1>5, <2>2
  <2>4. ASSUME NEW j \in 1..(k - 1) PROVE a[j] = toDev[j]
    <3>1. j \in 1..(k - 1 - 1 + 1) /\ 1 + j - 1 = j
      BY <1>5
    <3>2. a[j] = toDev[1 + j - 1]
      BY <2>2, <3>1
    <3>3. QED
      BY <3>1, <3>2
  <2>5. QED
    BY <2>2, <2>3, <2>4
<1>7. c = <<>>
  <2>1. Len(toDev) < k + 1
    BY <1>5
  <2>2. QED
    BY <1>5, <2>1, SubSeqProperties, EmptySeq
<1>8. e \in Seq(Tokens) /\ Len(e) = 1 /\ e[1] = u
  BY DEF Tokens
<1> HIDE DEF a, c, e
<1>9. /\ a \o e \in Seq(Tokens) /\ Len(a \o e) = k
      /\ \A j \in 1..k : (a \o e)[j] = IF j <= k - 1 THEN a[j] ELSE e[j - (k - 1)]
  <2>1. /\ a \o e \in Seq(Tokens) /\ Len(a \o e) = Len(a) + Len(e)
        /\ \A j \in 1..(Len(a) + Len(e)) :
             (a \o e)[j] = IF j <= Len(a) THEN a[j] ELSE e[j - Len(a)]
    BY <1>6, <1>8, ConcatProperties
  <2>2. Len(a) + Len(e) = k
    BY <1>5, <1>6, <1>8
  <2>3. QED
    BY <1>6, <2>1, <2>2
<1>10. toDev' = a \o e
  BY <1>4, <1>7, <1>9, ConcatEmptySeq DEF a, c, e
<1>11. toDev'[k] = u
  <2>1. k \in 1..k /\ ~(k <= k - 1) /\ k - (k - 1) = 1
    BY <1>5
  <2>2. QED
    BY <1>8, <1>9, <1>10, <2>1
<1>12. ASSUME NEW j \in 1..Len(toDev), j # k
       PROVE  toDev'[j] = toDev[j]
  <2>1. j \in 1..k /\ j <= k - 1 /\ j \in 1..(k - 1)
    BY <1>5, <1>12
  <2>2. QED
    BY <1>6, <1>9, <1>10, <2>1
<1>13. QED
  BY <1>4, <1>9, <1>10, <1>11, <1>12 DEF Bodies

(* A packet that goes out on an empty line is in flight. *)
LEMMA SentOnEmptyLine ==
  ASSUME toDev = <<>>, NEW pos, NEW size \in Sizes, NEW no, NEW mode,
         SendPacket(pos, size, no, mode)
  PROVE  /\ Len(toDev') = 2 /\ toDev' # <<>> /\ toDev'[1].type \in {"SOH", "STX"}
         /\ toDev'[2].type = "body" /\ Packet(toDev'[2]) = Numbered(no, pos, size)
<1> DEFINE h == Byte(IF size = XMODEM_PACKET_SIZE THEN "SOH" ELSE "STX")
           b == [type |-> "body", no |-> no, pos |-> pos, size |-> size, mode |-> mode,
                 good |-> TRUE, whole |-> TRUE]
<1>1. h.type \in {"SOH", "STX"} /\ b.type = "body" /\ Packet(b) = Numbered(no, pos, size)
  BY DEF Byte, Packet
<1>2. toDev' = <<>> \o <<h, b>>
  BY DEF SendPacket
<1> HIDE DEF h, b
<1>3. toDev' = <<h, b>>
  BY <1>2
<1>4. Len(toDev') = 2 /\ toDev' # <<>> /\ toDev'[1] = h /\ toDev'[2] = b
  BY <1>3
<1>5. QED
  BY <1>1, <1>4

(* Before the host has started. *)
LEMMA IdleSteps ==
  ASSUME StepInv, Punctual, hpc = "idle", Next
  PROVE  IdleState' /\ DataState' /\ EndState' /\ PrefixIntegrity'
<1>1. /\ toDev = <<>> /\ packetno = 1 /\ received = <<>> /\ hpos = 0
      /\ \/ pc = "prompt" /\ toHost = <<>>
         \/ pc = "header" /\ toHost \in {<<>>, <<"C">>, <<"NAK">>}
         \/ pc = "flush" /\ after = "sync" /\ toHost = <<>>
         \/ pc = "done" /\ OnlyCans
  BY DEF StepInv, IdleState
<1>2. TypeInv /\ PrefixIntegrity
  BY DEF StepInv
<1>3. CASE Receiver
  <2>1. hpc' = "idle" /\ UNCHANGED <<toDev, packetno, received, hpos>>
    <3>1. ~FirstByte /\ ~SecondByte /\ ~BodyAccept /\ ~BodyReject /\ ~FlushByte
      BY <1>1 DEF FirstByte, SecondByte, BodyAccept, BodyReject, FlushByte
    <3>2. QED
      BY <1>3, <3>1 DEF Receiver, Prompt, FirstByteTimeout, SecondByteTimeout, FlushDone,
                        NoHeader, locals, dataVars, hostVars, lineVars
  <2>2. \/ pc' = "prompt" /\ toHost' = <<>>
        \/ pc' = "header" /\ toHost' \in {<<>>, <<"C">>, <<"NAK">>}
        \/ pc' = "flush" /\ after' = "sync" /\ toHost' = <<>>
        \/ pc' = "done" /\ Items(toHost') \subseteq {"CAN"}
    <3>1. CASE Prompt
      <4>1. toHost = <<>> /\ pc' = "header" /\ trychar \in {"C", "NAK", "none"}
        BY <1>1, <1>2, <3>1 DEF Prompt, TypeInv, ControlTypes
      <4>2. toHost' \in {<<>>, <<trychar>>}
        BY <3>1, <4>1, SmallSeqs DEF Prompt
      <4>3. CASE trychar = "none"
        BY <3>1, <4>1, <4>3 DEF Prompt
      <4>4. QED
        BY <4>1, <4>2, <4>3
    <3>2. CASE FirstByteTimeout
      <4>1. toHost = <<>> /\ toHost' = <<>>
        BY <3>2 DEF FirstByteTimeout, Silent, Punctual, lineVars
      <4>2. pc' = "prompt" \/ (pc' = "flush" /\ after' = "sync")
        BY <3>2 DEF FirstByteTimeout, NoHeader, Flush
      <4>3. QED
        BY <4>1, <4>2
    <3>3. CASE FlushDone
      <4>1. after = "sync" /\ toHost = <<>>
        BY <1>1, <3>3 DEF FlushDone
      <4>2. toHost' = <<>> \o GiveUp /\ pc' = "done"
        BY <3>3, <4>1 DEF FlushDone, Answer
      <4>3. toHost' = GiveUp
        BY <4>2 DEF GiveUp
      <4>4. QED
        BY <4>2, <4>3, SmallSeqs
    <3>4. QED
      BY <1>1, <1>3, <3>1, <3>2, <3>3
         DEF Receiver, FirstByte, SecondByte, SecondByteTimeout, BodyAccept,
             BodyReject, FlushByte
  <2>3. IdleState'
    BY <1>1, <2>1, <2>2 DEF IdleState, OnlyCans
  <2>4. PrefixIntegrity'
    BY <1>2, <2>1 DEF PrefixIntegrity, len
  <2>5. QED
    BY <2>1, <2>3, <2>4 DEF DataState, EndState
<1>4. CASE Damage \/ LoseReply
  <2>1. ~Damage
    <3>1. 1..Len(toDev) = {}
      BY <1>1
    <3>2. QED
      BY <3>1 DEF Damage
  <2>2. LoseReply /\ UNCHANGED <<toDev, pc, after, packetno, received, hpos, hpc>>
    BY <1>4, <2>1 DEF LoseReply, rcvVars, locals, dataVars, hostVars
  <2>3. Items(toHost') \subseteq Items(toHost)
    BY <1>2, <2>2, ReplyLost DEF TypeInv
  <2>4. toHost \in {<<>>, <<"C">>, <<"NAK">>} => toHost' = <<>>
    BY <2>2, OnlyReplyLost
  <2>5. IdleState'
    BY <1>1, <2>2, <2>3, <2>4 DEF IdleState, OnlyCans
  <2>6. PrefixIntegrity'
    BY <1>2, <2>2 DEF PrefixIntegrity, len
  <2>7. QED
    BY <2>2, <2>5, <2>6 DEF DataState, EndState
<1>5. CASE HostIgnore
  <2>1. /\ UNCHANGED <<toDev, pc, after, packetno, received, hpos, hpc>>
        /\ toHost # <<>> /\ toHost' = Tail(toHost)
    BY <1>5 DEF HostIgnore, rcvVars, locals, dataVars, hostVars
  <2>2. Items(toHost') \subseteq Items(toHost)
    BY <1>2, <2>1, ItemsOfTail DEF TypeInv, LineTypes
  <2>3. toHost \in {<<>>, <<"C">>, <<"NAK">>} => toHost' = <<>>
    BY <2>1, SmallSeqs
  <2>4. IdleState'
    BY <1>1, <2>1, <2>2, <2>3 DEF IdleState, OnlyCans
  <2>5. PrefixIntegrity'
    BY <1>2, <2>1 DEF PrefixIntegrity, len
  <2>6. QED
    BY <2>1, <2>4, <2>5 DEF DataState, EndState
<1>6. CASE HostStart
  <2>1. PICK mode \in {"crc", "sum"} : SendNext(0, 1, mode)
    BY <1>6 DEF HostStart
  <2>2. /\ UNCHANGED <<pc, after, trychar, packetno, received>>
        /\ toHost # <<>> /\ Head(toHost) \in {"C", "NAK"} /\ toHost' = Tail(toHost)
    BY <1>6 DEF HostStart, rcvVars, locals, dataVars
  <2>3. Head(toHost) \in Items(toHost)
    BY <1>2, <2>2, ItemsOfTail DEF TypeInv, LineTypes
  <2>4. pc = "header" /\ toHost' = <<>>
    BY <1>1, <2>2, <2>3, SmallSeqs DEF OnlyCans
  <2>5. Stored(0)' /\ PrefixIntegrity'
    <3>1. len' = 0 /\ received' = <<>>
      BY <1>1, <2>2 DEF len
    <3>2. QED
      BY <3>1, ConstantFacts DEF Stored, PrefixIntegrity
  <2>6. hpos' = 0 /\ hno' = 1
    BY <2>1 DEF SendNext
  <2>7. CASE 0 < FileSize
    <3>1. PICK size \in Sizes : SendPacket(0, size, 1, mode) /\ hsz' = size /\ hpc' = "data"
      BY <2>1, <2>7 DEF SendNext, Sizes
    <3>2. /\ Len(toDev') = 2 /\ toDev' # <<>> /\ toDev'[1].type \in {"SOH", "STX"}
          /\ toDev'[2].type = "body" /\ Packet(toDev'[2]) = Numbered(1, 0, size)
      BY <1>1, <3>1, SentOnEmptyLine
    <3>3. InFlight'
      BY <2>2, <2>4, <2>6, <3>1, <3>2 DEF InFlight, Asking, CurrentPacket, Packet, Numbered
    <3>4. Awaited'
      <4>1. packetno' = hno' /\ Items(toHost') = {}
        BY <1>1, <2>2, <2>4, <2>6, SmallSeqs
      <4>2. Stored(hpos)'
        BY <2>5, <2>6 DEF Stored
      <4>3. QED
        BY <4>1, <4>2 DEF Awaited
    <3>5. QED
      BY <2>2, <2>4, <2>5, <3>1, <3>2, <3>3, <3>4 DEF IdleState, DataState, EndState
  <2>8. CASE ~(0 < FileSize)
    <3>1. toDev' = Append(toDev, Byte("EOT")) /\ hpc' = "eot"
      BY <2>1, <2>8 DEF SendNext
    <3>2. Packets(toDev') = {}
      BY <1>1, <1>2, <3>1, ByteSent, SmallSeqs DEF TypeInv
    <3>3. Ended'
      BY <2>5, <2>6, <2>8, ConstantFacts DEF Ended, Stored
    <3>4. QED
      BY <2>5, <3>1, <3>2, <3>3 DEF IdleState, DataState, EndState
  <2>9. QED
    BY <2>7, <2>8
<1>7. QED
  BY <1>3, <1>4, <1>5, <1>6 DEF Next, Host, HostAck, HostNak, HostTimeout,
                                HostCancelled, HostWaits

(* A packet that arrives is stored once: whether it is awaited or repeated,*)
(* the receiver waits for the next one afterwards.                         *)
LEMMA PacketTaken ==
  ASSUME StepInv, hpc = "data", Receiving, BodyAccept
  PROVE  /\ packetno' = (hno' + 1) % BlockNumbers /\ Stored(hpos + hsz)'
         /\ PrefixIntegrity'
<1> PICK b : b = Head(toDev)
  OBVIOUS
<1>1. TypeInv /\ PrefixIntegrity /\ DataTypes /\ ControlTypes
  BY DEF StepInv, TypeInv
<1>2. UNCHANGED <<hpos, hsz, hno>> /\ b \in Bodies /\ b.size = bufsz
  BY <1>1, AcceptedFacts DEF BodyAccept, hostVars
<1>3. b.no = hno /\ b.pos = hpos /\ b.size = hsz
  <2>1. toDev \in Seq(Tokens) /\ Len(toDev) = 1 /\ toDev # <<>>
    BY <1>1 DEF Receiving, TypeInv, LineTypes, BodyAccept
  <2>2. b = toDev[1]
    BY <2>1, HeadTailProperties
  <2>3. Packet(b) = Numbered(hno, hpos, hsz)
    BY <2>2 DEF Receiving, CurrentPacket
  <2>4. QED
    BY <2>3 DEF Packet, Numbered
<1>4. hno \in 0..(BlockNumbers - 1) /\ (hno + 1) % BlockNumbers # hno
  <2>1. hno \in 0..(BlockNumbers - 1)
    BY <1>1 DEF TypeInv, HostTypes
  <2>2. CASE hno = BlockNumbers - 1
    BY <2>2, ConstantFacts
  <2>3. CASE hno < BlockNumbers - 1
    BY <2>1, <2>3, ConstantFacts
  <2>4. QED
    BY <2>1, <2>2, <2>3, ConstantFacts
<1>5. Awaited \/ Taken
  BY DEF StepInv, DataState
<1>6. CASE Awaited
  <2>1. packetno = hno /\ Stored(b.pos)
    BY <1>3, <1>6 DEF Awaited
  <2>2. /\ packetno' = NextNumber(packetno)
        /\ len < DestSz => Callback(BodyData(b))
        /\ ~(len < DestSz) => UNCHANGED dataVars
    <3>1. b.no # packetno - 1
      BY <1>3, <1>4, <2>1, ConstantFacts
    <3>2. QED
      BY <1>1, <3>1, AcceptedFacts
  <2>3. Stored(b.pos + b.size)' /\ PrefixIntegrity'
    BY <1>1, <1>2, <2>1, <2>2, BlockStored
  <2>4. QED
    BY <1>2, <1>3, <2>1, <2>2, <2>3 DEF Stored, NextNumber
<1>7. CASE Taken
  <2>1. b.no # packetno
    BY <1>3, <1>4, <1>7 DEF Taken
  <2>2. UNCHANGED <<packetno, dataVars>>
    BY <1>1, <2>1, AcceptedFacts
  <2>3. QED
    BY <1>1, <1>2, <1>7, <2>2 DEF Taken, Stored, PrefixIntegrity, len, dataVars
<1>8. QED
  BY <1>5, <1>6, <1>7

(* Steps in the data phase that leave the numbers and the hash alone. *)
LEMMA DataKept ==
  ASSUME StepInv, hpc = "data", hpc' = "data",
         UNCHANGED <<packetno, received, hpos, hsz, hno>>,
         "ACK" \in Items(toHost') => "ACK" \in Items(toHost),
         InFlight' \/ Receiving' \/ Answered' \/ Refused' \/ Over',
         trychar' # "none" => trychar' = trychar /\ pc' = "header" /\ toDev' # <<>>
  PROVE  IdleState' /\ DataState' /\ EndState' /\ PrefixIntegrity'
<1>1. (Awaited \/ Taken)'
  BY DEF StepInv, DataState, Awaited, Taken, Stored, len
<1>2. PrefixIntegrity'
  BY DEF StepInv, PrefixIntegrity, len
<1>3. QED
  BY <1>1, <1>2 DEF IdleState, DataState, EndState

LEMMA DataReceiver ==
  ASSUME StepInv, Punctual, hpc = "data", Receiver
  PROVE  IdleState' /\ DataState' /\ EndState' /\ PrefixIntegrity'
<1>1. /\ InFlight \/ Receiving \/ Answered \/ Refused \/ Over
      /\ trychar # "none" => pc = "header" /\ toDev # <<>>
  BY DEF StepInv, DataState
<1>2. TypeInv /\ toDev \in Seq(Tokens) /\ toHost \in Seq(Replies)
  BY DEF StepInv, TypeInv, LineTypes
<1>3. hpc' = "data" /\ UNCHANGED <<hpos, hsz, hno>>
  BY DEF Receiver, Prompt, FirstByte, FirstByteTimeout, SecondByte, SecondByteTimeout,
         BodyAccept, BodyReject, FlushByte, FlushDone, hostVars
<1>4. CASE InFlight
  <2>1. toDev # <<>> /\ toDev[1].type \in {"SOH", "STX"} /\ toHost = <<>> /\ Asking
    BY <1>4 DEF InFlight
  <2>2. CASE Prompt
    <3>1. trychar = "none"
      BY <1>1, <2>2 DEF Prompt
    <3>2. /\ UNCHANGED <<toDev, toHost, trychar, packetno, received>> /\ pc' = "header"
      BY <2>2, <3>1 DEF Prompt, locals, dataVars
    <3>3. InFlight'
      BY <1>3, <1>4, <3>2 DEF InFlight, Asking, CurrentPacket
    <3>4. QED
      BY <1>3, <3>1, <3>2, <3>3, DataKept
  <2>3. CASE FirstByte
    <3>1. Head(toDev) = toDev[1] /\ Len(Tail(toDev)) = 1 /\ Tail(toDev)[1] = toDev[2]
      <4>1. Len(toDev) = 2
        BY <1>4 DEF InFlight
      <4>2. /\ Head(toDev) = toDev[1] /\ Len(Tail(toDev)) = Len(toDev) - 1
            /\ \A i \in 1..Len(Tail(toDev)) : Tail(toDev)[i] = toDev[i + 1]
        BY <1>2, <2>1, HeadTailProperties
      <4>3. Len(Tail(toDev)) = 1 /\ 1 \in 1..Len(Tail(toDev))
        BY <4>1, <4>2
      <4>4. QED
        BY <4>2, <4>3
    <3>2. toDev' = Tail(toDev)
      BY <2>1, <2>3, <3>1 DEF FirstByte, AfterByte
    <3>3. PICK t \in {"SOH", "STX"} : GotHeader(t)
      BY <2>1, <2>3, <3>1 DEF FirstByte, Looks, FirstByteIs
    <3>4. pc' = "body" /\ trychar' = "none" /\ UNCHANGED <<packetno, toHost, received>>
      BY <2>3, <3>3 DEF GotHeader, FirstByte, dataVars
    <3>5. Receiving'
      BY <1>3, <1>4, <3>1, <3>2, <3>4 DEF Receiving, InFlight, CurrentPacket, Packet, Numbered
    <3>6. QED
      BY <1>3, <3>4, <3>5, DataKept
  <2>4. QED
    BY <1>4, <2>1, <2>2, <2>3
       DEF Receiver, FirstByteTimeout, SecondByte, SecondByteTimeout, BodyAccept,
           BodyReject, FlushByte, FlushDone, Silent, Asking
<1>5. CASE Receiving
  <2>1. trychar = "none" /\ toHost = <<>> /\ toDev # <<>> /\ pc = "body" /\ Len(toDev) = 1
    BY <1>1, <1>5 DEF Receiving
  <2>2. Tail(toDev) = <<>>
    <3>1. Len(Tail(toDev)) = 0 /\ Tail(toDev) \in Seq(Tokens)
      BY <1>2, <2>1, HeadTailProperties
    <3>2. QED
      BY <3>1, EmptySeq
  <2>3. CASE BodyReject
    <3>1. /\ toDev' = <<>> /\ pc' = "flush" /\ after' = "nak" /\ toHost' = <<>>
          /\ trychar' = "none" /\ UNCHANGED <<packetno, received>>
      BY <2>1, <2>2, <2>3 DEF BodyReject, Flush, locals, dataVars
    <3>2. Refused'
      BY <3>1 DEF Refused
    <3>3. QED
      BY <1>3, <2>1, <3>1, <3>2, DataKept
  <2>4. CASE BodyAccept
    <3>1. toDev' = <<>> /\ trychar' = "none"
      BY <2>1, <2>2, <2>4 DEF BodyAccept
    <3>2. \/ pc' = "flush" /\ after' = "retrans" /\ toHost' = <<>>
          \/ pc' = "prompt" /\ toHost' = <<"ACK">>
      BY <2>1, <2>4, SmallSeqs DEF BodyAccept, Flush
    <3>3. Refused' \/ Answered'
      BY <3>1, <3>2 DEF Refused, Answered, Asking
    <3>4. Taken' /\ PrefixIntegrity'
      BY <1>5, <2>4, PacketTaken DEF Taken
    <3>5. QED
      BY <1>3, <3>1, <3>3, <3>4 DEF IdleState, DataState, EndState
  <2>5. QED
    BY <2>1, <2>3, <2>4
       DEF Receiver, Prompt, FirstByte, FirstByteTimeout, SecondByte, SecondByteTimeout,
           FlushByte, FlushDone
<1>6. CASE Answered
  <2>1. trychar = "none" /\ toDev = <<>> /\ Asking
    BY <1>1, <1>6 DEF Answered
  <2>2. CASE Prompt
    <3>1. /\ UNCHANGED <<toDev, toHost, trychar, packetno, received>> /\ pc' = "header"
      BY <2>1, <2>2 DEF Prompt, locals, dataVars
    <3>2. Answered'
      BY <1>6, <3>1 DEF Answered, Asking
    <3>3. QED
      BY <1>3, <2>1, <3>1, <3>2, DataKept
  <2>3. CASE FirstByteTimeout
    <3>1. /\ toHost = <<>> /\ UNCHANGED <<toDev, toHost, packetno, received>>
          /\ trychar' = "none"
          /\ pc' = "prompt" \/ (pc' = "flush" /\ after' = "sync")
      BY <2>1, <2>3 DEF FirstByteTimeout, NoHeader, Flush, Silent, Punctual,
                        lineVars, locals, dataVars
    <3>2. Answered' \/ Refused'
      BY <2>1, <3>1 DEF Answered, Refused, Asking
    <3>3. QED
      BY <1>3, <2>1, <3>1, <3>2, DataKept
  <2>4. QED
    BY <2>1, <2>2, <2>3
       DEF Receiver, FirstByte, SecondByte, SecondByteTimeout, BodyAccept,
           BodyReject, FlushByte, FlushDone, Asking
<1>7. CASE Refused
  <2>1. /\ trychar = "none" /\ toDev = <<>> /\ toHost = <<>> /\ pc = "flush"
        /\ after \in {"nak", "retrans", "sync"}
    BY <1>1, <1>7 DEF Refused
  <2>2. CASE FlushDone
    <3>1. /\ toHost' = <<>> \o Answer(after) /\ UNCHANGED <<toDev, packetno, received, trychar>>
          /\ IF after = "nak" THEN pc' = "prompt" ELSE pc' = "done"
      BY <2>1, <2>2 DEF FlushDone, locals, dataVars
    <3>2. CASE after = "nak"
      <4>1. toHost' = <<"NAK">> /\ pc' = "prompt"
        BY <3>1, <3>2, SmallSeqs DEF Answer
      <4>2. Answered' /\ Items(toHost') = {"NAK"}
        BY <2>1, <3>1, <4>1, SmallSeqs DEF Answered, Asking
      <4>3. QED
        BY <1>3, <2>1, <3>1, <4>2, DataKept
    <3>3. CASE after # "nak"
      <4>1. toHost' = <<>> \o GiveUp /\ pc' = "done"
        BY <2>1, <3>1, <3>3 DEF Answer
      <4>2. toHost' = GiveUp
        BY <4>1 DEF GiveUp
      <4>3. Over' /\ Items(toHost') = {"CAN"}
        BY <4>1, <4>2, SmallSeqs DEF Over, OnlyCans
      <4>4. QED
        BY <1>3, <2>1, <3>1, <4>3, DataKept
    <3>4. QED
      BY <3>2, <3>3
  <2>3. QED
    BY <2>1, <2>2
       DEF Receiver, Prompt, FirstByte, FirstByteTimeout, SecondByte, SecondByteTimeout,
           BodyAccept, BodyReject, FlushByte
<1>8. CASE Over
  BY <1>8 DEF Over, Receiver, Prompt, FirstByte, FirstByteTimeout, SecondByte,
              SecondByteTimeout, BodyAccept, BodyReject, FlushByte, FlushDone
<1>9. QED
  BY <1>1, <1>4, <1>5, <1>6, <1>7, <1>8

LEMMA DataFaults ==
  ASSUME StepInv, Punctual, hpc = "data", Damage \/ LoseReply
  PROVE  IdleState' /\ DataState' /\ EndState' /\ PrefixIntegrity'
<1>1. /\ InFlight \/ Receiving \/ Answered \/ Refused \/ Over
      /\ trychar # "none" => pc = "header" /\ toDev # <<>>
  BY DEF StepInv, DataState
<1>2. TypeInv /\ LineTypes
  BY DEF StepInv, TypeInv
<1>3. UNCHANGED <<hpc, hpos, hsz, hno, pc, after, trychar, packetno, received>>
  BY DEF Damage, LoseReply, rcvVars, locals, dataVars, hostVars
<1>4. CASE Damage
  <2>1. UNCHANGED toHost
    BY <1>4 DEF Damage
  <2>2. toDev # <<>>
    <3>1. ASSUME toDev = <<>> PROVE FALSE
      <4>1. 1..Len(toDev) = {}
        BY <3>1
      <4>2. QED
        BY <1>4, <4>1 DEF Damage
    <3>2. QED
      BY <3>1
  <2>3. CASE InFlight
    <3>1. Len(toDev) = 2 /\ toDev[1].type \in {"SOH", "STX"} /\ CurrentPacket(toDev[2])
      BY <2>3 DEF InFlight
    <3>2. /\ 2 \in 1..Len(toDev) /\ 1 \in 1..Len(toDev)
          /\ \A j \in 1..Len(toDev) : j # 2 => j = 1
      BY <3>1
    <3>3. /\ Len(toDev') = 2 /\ toDev'[1] = toDev[1]
          /\ toDev'[2].type = "body" /\ Packet(toDev'[2]) = Packet(toDev[2])
      BY <1>2, <1>4, <3>1, <3>2, BodyDamaged DEF CurrentPacket
    <3>4. toDev' # <<>>
      BY <3>3
    <3>5. InFlight'
      BY <1>3, <2>1, <2>3, <3>1, <3>3 DEF InFlight, Asking, CurrentPacket, Packet, Numbered
    <3>6. QED
      BY <1>1, <1>3, <2>1, <3>4, <3>5, DataKept
  <2>4. CASE Receiving
    <3>1. Len(toDev) = 1 /\ CurrentPacket(toDev[1]) /\ pc = "body"
      BY <2>4 DEF Receiving
    <3>2. /\ 1 \in 1..Len(toDev)
          /\ \A j \in 1..Len(toDev) : j = 1
      BY <3>1
    <3>3. /\ Len(toDev') = 1
          /\ toDev'[1].type = "body" /\ Packet(toDev'[1]) = Packet(toDev[1])
      BY <1>2, <1>4, <3>1, <3>2, BodyDamaged DEF CurrentPacket
    <3>4. Receiving'
      BY <1>3, <2>1, <2>4, <3>1, <3>3 DEF Receiving, CurrentPacket, Packet, Numbered
    <3>5. QED
      BY <1>1, <1>3, <2>1, <3>1, <3>4, DataKept
  <2>5. CASE Over
    <3>1. Over' /\ pc # "header"
      BY <1>3, <2>1, <2>5 DEF Over, OnlyCans
    <3>2. QED
      BY <1>1, <1>3, <2>1, <3>1, DataKept
  <2>6. QED
    BY <1>1, <2>2, <2>3, <2>4, <2>5 DEF Answered, Refused
<1>5. CASE LoseReply
  <2>1. UNCHANGED toDev /\ Items(toHost') \subseteq Items(toHost)
    BY <1>2, <1>5, ReplyLost DEF LoseReply
  <2>2. toHost \in {<<>>, <<"NAK">>, <<"ACK">>} => toHost' = <<>>
    BY <1>5, OnlyReplyLost
  <2>3. InFlight' \/ Receiving' \/ Answered' \/ Refused' \/ Over'
    <3>1. CASE InFlight
      BY <1>3, <2>1, <2>2, <3>1 DEF InFlight, Asking, CurrentPacket, Packet, Numbered
    <3>2. CASE Receiving
      BY <1>3, <2>1, <2>2, <3>2 DEF Receiving, CurrentPacket, Packet, Numbered
    <3>3. CASE Answered \/ Refused
      BY <1>3, <2>1, <2>2, <3>3 DEF Answered, Refused, Asking
    <3>4. CASE Over
      BY <1>3, <2>1, <3>4 DEF Over, OnlyCans
    <3>5. QED
      BY <1>1, <3>1, <3>2, <3>3, <3>4
  <2>4. QED
    BY <1>1, <1>3, <2>1, <2>3, DataKept
<1>6. QED
  BY <1>4, <1>5

(* In the data phase the host sends on after an ACK, which means that its  *)
(* packet is stored, and again after a NAK or a timeout, with nothing on   *)
(* its way to it; only a receiver that has returned cancels.               *)
LEMMA HostInData ==
  ASSUME StepInv, Punctual, hpc = "data", Host
  PROVE  /\ UNCHANGED <<pc, after, trychar, packetno, received>>
         /\ \/ /\ HostAck /\ Answered /\ toDev = <<>> /\ toHost' = <<>> /\ Taken
               /\ SendNext(hpos + hsz, (hno + 1) % BlockNumbers, hmode)
            \/ /\ HostNak \/ HostTimeout
               /\ Answered \/ (Over /\ toHost = <<>>)
               /\ toHost' = <<>> /\ "ACK" \notin Items(toHost)
               /\ SendAgain /\ UNCHANGED <<hpos, hsz, hno>>
            \/ HostCancelled /\ Over /\ hpc' = "gaveUp"
<1>1. /\ InFlight \/ Receiving \/ Answered \/ Refused \/ Over
      /\ Awaited \/ Taken
  BY DEF StepInv, DataState
<1>2. TypeInv /\ LineTypes /\ toHost \in Seq(Replies)
  BY DEF StepInv, TypeInv, LineTypes
<1>3. UNCHANGED <<pc, after, trychar, packetno, received>>
  BY DEF Host, HostStart, HostAck, HostNak, HostTimeout, HostCancelled, HostIgnore,
         rcvVars, locals, dataVars
<1>4. HostWaits
  BY DEF HostWaits
<1>5. toHost # <<>> => Head(toHost) \in Items(toHost)
  BY <1>2, ItemsOfTail
<1>6. CASE HostAck
  <2>1. toHost # <<>> /\ Head(toHost) = "ACK" /\ toHost' = Tail(toHost)
    BY <1>6 DEF HostAck
  <2>2. Answered /\ toHost = <<"ACK">>
    BY <1>1, <1>5, <2>1, SmallSeqs
       DEF InFlight, Receiving, Answered, Refused, Over, OnlyCans
  <2>3. toDev = <<>> /\ toHost' = <<>>
    BY <2>1, <2>2, SmallSeqs DEF Answered
  <2>4. Taken
    BY <1>1, <1>5, <2>1 DEF Awaited
  <2>5. SendNext(hpos + hsz, (hno + 1) % BlockNumbers, hmode)
    BY <1>6 DEF HostAck
  <2>6. QED
    BY <1>3, <1>6, <2>2, <2>3, <2>4, <2>5
<1>7. CASE HostNak \/ HostTimeout
  <2>1. SendAgain /\ UNCHANGED <<hpos, hsz, hno>>
    BY <1>7 DEF HostNak, HostTimeout, SendAgain
  <2>2. CASE HostNak
    <3>1. toHost # <<>> /\ Head(toHost) = "NAK" /\ toHost' = Tail(toHost)
      BY <2>2 DEF HostNak
    <3>2. Answered /\ toHost = <<"NAK">>
      BY <1>1, <1>5, <3>1, SmallSeqs
         DEF InFlight, Receiving, Answered, Refused, Over, OnlyCans
    <3>3. toHost' = <<>> /\ Items(toHost) = {"NAK"}
      BY <3>1, <3>2, SmallSeqs
    <3>4. QED
      BY <1>3, <2>1, <2>2, <3>2, <3>3
  <2>3. CASE HostTimeout
    <3>1. toHost' = toHost /\ (\/ Silent /\ pc = "header"
                               \/ toHost = <<>> /\ pc = "done")
      BY <2>3 DEF HostTimeout, Punctual
    <3>2. toHost = <<>> /\ Items(toHost) = {}
      BY <3>1, SmallSeqs DEF Silent, Punctual
    <3>3. CASE toDev = <<>> /\ pc = "header"
      <4>1. Len(toDev) = 0
        BY <3>3
      <4>2. Answered
        BY <1>1, <3>3, <4>1 DEF InFlight, Receiving, Refused, Over
      <4>3. QED
        BY <1>3, <2>1, <2>3, <3>1, <3>2, <4>2
    <3>4. CASE pc = "done"
      <4>1. Over
        BY <1>1, <3>4 DEF InFlight, Receiving, Answered, Refused, Asking
      <4>2. QED
        BY <1>3, <2>1, <2>3, <3>1, <3>2, <4>1
    <3>5. QED
      BY <3>1, <3>3, <3>4 DEF Silent
  <2>4. QED
    BY <1>7, <2>2, <2>3
<1>8. CASE HostCancelled
  <2>1. toHost # <<>> /\ Head(toHost) = "CAN" /\ hpc' = "gaveUp"
    BY <1>8 DEF HostCancelled
  <2>2. Over
    BY <1>1, <1>5, <2>1, SmallSeqs
       DEF InFlight, Receiving, Answered, Refused
  <2>3. QED
    BY <1>3, <1>8, <2>1, <2>2
<1>9. ~HostStart /\ ~HostIgnore
  <2>1. ASSUME HostIgnore PROVE FALSE
    <3>1. toHost # <<>> /\ Head(toHost) = "C"
      BY <1>4, <2>1 DEF HostIgnore
    <3>2. QED
      BY <1>1, <1>5, <3>1, SmallSeqs
         DEF InFlight, Receiving, Answered, Refused, Over, OnlyCans
  <2>2. QED
    BY <2>1 DEF HostStart
<1>10. QED
  BY <1>6, <1>7, <1>8, <1>9 DEF Host

(* So the phases of the data are kept, or left with the file stored. *)
LEMMA DataHost ==
  ASSUME StepInv, Punctual, hpc = "data", Host
  PROVE  IdleState' /\ DataState' /\ EndState' /\ PrefixIntegrity'
<1>1. trychar # "none" => pc = "header" /\ toDev # <<>>
  BY DEF StepInv, DataState
<1>2. TypeInv /\ LineTypes /\ toHost \in Seq(Replies)
  BY DEF StepInv, TypeInv, LineTypes
<1>3. UNCHANGED <<pc, after, trychar, packetno, received>>
  BY HostInData
<1>4. PrefixIntegrity' /\ len' = len /\ HostWaits
  BY <1>3 DEF StepInv, PrefixIntegrity, len, HostWaits
<1>5. ASSUME Answered, toHost' = <<>>, NEW pos, NEW no, NEW size \in Sizes, NEW mode,
             SendPacket(pos, size, no, mode), hpos' = pos, hno' = no, hsz' = size
      PROVE  InFlight' /\ toDev' # <<>>
  <2>1. toDev = <<>> /\ Asking'
    BY <1>3, <1>5 DEF Answered, Asking
  <2>2. /\ Len(toDev') = 2 /\ toDev' # <<>> /\ toDev'[1].type \in {"SOH", "STX"}
        /\ toDev'[2].type = "body" /\ Packet(toDev'[2]) = Numbered(no, pos, size)
    BY <1>5, <2>1, SentOnEmptyLine
  <2>3. QED
    BY <1>5, <2>1, <2>2 DEF InFlight, CurrentPacket, Packet, Numbered
<1>6. CASE /\ HostAck /\ Answered /\ toDev = <<>> /\ toHost' = <<>> /\ Taken
           /\ SendNext(hpos + hsz, (hno + 1) % BlockNumbers, hmode)
  <2>1. trychar = "none"
    BY <1>1, <1>6
  <2>2. hpos' = hpos + hsz /\ hno' = (hno + 1) % BlockNumbers
    BY <1>6 DEF SendNext
  <2>3. packetno' = hno' /\ Stored(hpos)'
    BY <1>3, <1>4, <1>6, <2>2 DEF Taken, Stored
  <2>4. CASE hpos + hsz < FileSize
    <3>1. PICK size \in Sizes :
            /\ SendPacket(hpos + hsz, size, (hno + 1) % BlockNumbers, hmode)
            /\ hsz' = size /\ hpc' = "data"
      BY <1>6, <2>4 DEF SendNext, Sizes
    <3>2. InFlight' /\ toDev' # <<>>
      BY <1>5, <1>6, <2>2, <3>1
    <3>3. Items(toHost') = {}
      BY <1>6, SmallSeqs
    <3>4. Awaited'
      BY <2>3, <3>3 DEF Awaited
    <3>5. QED
      BY <1>3, <1>4, <2>1, <3>1, <3>2, <3>4 DEF IdleState, DataState, EndState
  <2>5. CASE ~(hpos + hsz < FileSize)
    <3>1. toDev' = Append(toDev, Byte("EOT")) /\ hpc' = "eot"
      BY <1>6, <2>5 DEF SendNext
    <3>2. Packets(toDev') = {}
      BY <1>2, <1>6, <3>1, ByteSent, SmallSeqs
    <3>3. hpos \in Nat /\ hsz \in Nat /\ FileSize \in Nat
      BY <1>2, ConstantFacts DEF TypeInv, HostTypes
    <3>4. Ended'
      BY <2>2, <2>3, <2>5, <3>3 DEF Ended
    <3>5. QED
      BY <1>4, <3>1, <3>2, <3>4 DEF IdleState, DataState, EndState
  <2>6. QED
    BY <2>4, <2>5
<1>7. CASE /\ HostNak \/ HostTimeout
           /\ Answered \/ (Over /\ toHost = <<>>)
           /\ toHost' = <<>> /\ SendAgain /\ UNCHANGED <<hpos, hsz, hno>>
  <2>1. \/ /\ hpc' = "data" /\ SendPacket(hpos, hsz, hno, hmode)
        \/ hpc' = "gaveUp" /\ toDev' = toDev \o <<Byte("CAN"), Byte("CAN")>>
    BY <1>2, <1>4, <1>7, SendAgainTypes
  <2>2. Items(toHost') = {}
    BY <1>7, SmallSeqs
  <2>3. hsz \in Sizes
    BY <1>2 DEF TypeInv, HostTypes
  <2>4. CASE hpc' = "data" /\ Answered
    <3>1. InFlight' /\ toDev' # <<>>
      BY <1>5, <1>7, <2>1, <2>3, <2>4
    <3>2. QED
      BY <1>1, <1>3, <1>7, <2>2, <2>4, <3>1, DataKept
  <2>5. CASE hpc' = "data" /\ Over
    <3>1. Over' /\ trychar = "none"
      BY <1>1, <1>3, <2>2, <2>5 DEF Over, OnlyCans
    <3>2. QED
      BY <1>3, <1>7, <2>2, <2>5, <3>1, DataKept
  <2>6. CASE hpc' = "gaveUp"
    <3>1. toDev' = toDev \o <<Byte("CAN"), Byte("CAN")>>
      BY <2>1, <2>6
    <3>2. Packets(toDev') \subseteq Packets(toDev)
      BY <1>2, <3>1, ByteSent
    <3>3. pc' # "done" => Packets(toDev') = {}
      BY <1>3, <1>7, <3>2, SmallSeqs DEF Answered, Over
    <3>4. QED
      BY <1>4, <2>6, <3>3 DEF IdleState, DataState, EndState
  <2>7. QED
    BY <1>7, <2>1, <2>4, <2>5, <2>6
<1>8. CASE HostCancelled /\ Over /\ hpc' = "gaveUp"
  <2>1. pc' = "done"
    BY <1>3, <1>8 DEF Over
  <2>2. QED
    BY <1>4, <1>8, <2>1 DEF IdleState, DataState, EndState
<1>9. QED
  BY <1>6, <1>7, <1>8, HostInData

(* After the last packet. *)
LEMMA EndSteps ==
  ASSUME StepInv, Punctual, hpc \in {"eot", "done", "gaveUp"}, Next
  PROVE  /\ IdleState' /\ DataState' /\ EndState' /\ PrefixIntegrity'
         /\ UNCHANGED <<received, hpos>> /\ hpc' \in {"eot", "done", "gaveUp"}
         /\ Packets(toDev') \subseteq Packets(toDev)
<1>1. TypeInv /\ LineTypes /\ toDev \in Seq(Tokens)
  BY DEF StepInv, TypeInv, LineTypes
<1>2. (pc # "done" => Packets(toDev) = {}) /\ (hpc \in {"eot", "done"} => Ended)
  BY DEF StepInv, EndState
<1>3. ~BodyAccept
  <2>1. ASSUME BodyAccept PROVE FALSE
    <3>1. Head(toDev) \in Bodies /\ Head(toDev) \in Items(toDev)
      BY <1>1, <2>1, AcceptedFacts
    <3>2. Packet(Head(toDev)) \in Packets(toDev)
      BY <3>1 DEF Packets, Bodies
    <3>3. pc # "done"
      BY <2>1 DEF BodyAccept
    <3>4. QED
      BY <1>2, <3>2, <3>3
  <2>2. QED
    BY <2>1
<1>4. UNCHANGED <<received, hpos>>
  BY <1>3 DEF Next, Receiver, Prompt, FirstByte, FirstByteTimeout, SecondByte,
              SecondByteTimeout, BodyReject, FlushByte, FlushDone, Damage, LoseReply,
              Host, HostStart, HostAck, HostNak, HostTimeout, HostCancelled, HostIgnore,
              SendAgain, rcvVars, locals, dataVars, hostVars
<1>5. /\ hpc' \in {"eot", "done", "gaveUp"}
      /\ hpc' \in {"eot", "done"} => hpc \in {"eot", "done"}
  BY DEF Next, Receiver, Prompt, FirstByte, FirstByteTimeout, SecondByte,
         SecondByteTimeout, BodyAccept, BodyReject, FlushByte, FlushDone, Damage, LoseReply,
         Host, HostStart, HostAck, HostNak, HostTimeout, HostCancelled, HostIgnore,
         SendAgain, HostWaits, hostVars
<1>6. pc' # "done" => pc # "done"
  BY DEF Next, Receiver, Prompt, FirstByte, FirstByteTimeout, SecondByte,
         SecondByteTimeout, BodyAccept, BodyReject, FlushByte, FlushDone, Damage, LoseReply,
         Host, HostStart, HostAck, HostNak, HostTimeout, HostCancelled, HostIgnore, rcvVars
<1>7. Packets(toDev') \subseteq Packets(toDev)
  <2>1. CASE Receiver
    <3>1. \/ UNCHANGED toDev \/ (toDev # <<>> /\ toDev' = Tail(toDev))
          \/ (toDev # <<>> /\ toDev' \in AfterByte)
      BY <2>1 DEF Receiver, Prompt, FirstByte, FirstByteTimeout, SecondByte,
                  SecondByteTimeout, BodyAccept, BodyReject, FlushByte, FlushDone, lineVars
    <3>2. CASE UNCHANGED toDev
      BY <3>2 DEF Packets
    <3>3. CASE toDev # <<>> /\ toDev' = Tail(toDev)
      BY <1>1, <3>3, ItemsOfTail DEF Packets
    <3>4. CASE toDev # <<>> /\ toDev' \in AfterByte
      BY <1>1, <3>4, ByteRead
    <3>5. QED
      BY <3>1, <3>2, <3>3, <3>4
  <2>2. CASE Damage \/ LoseReply
    BY <1>1, <2>2, LineDamaged DEF LoseReply, Packets
  <2>3. CASE Host
    <3>1. CASE HostNak \/ HostTimeout
      <4>1. HostWaits /\ SendAgain
        BY <3>1 DEF HostNak, HostTimeout
      <4>2. QED
        BY <1>1, <4>1, SendAgainTypes
    <3>2. CASE HostAck \/ HostCancelled \/ HostIgnore
      BY <3>2 DEF HostAck, HostCancelled, HostIgnore, Packets
    <3>3. QED
      BY <2>3, <3>1, <3>2 DEF Host, HostStart
  <2>4. QED
    BY <2>1, <2>2, <2>3 DEF Next
<1>8. IdleState' /\ DataState'
  BY <1>5 DEF IdleState, DataState
<1>9. EndState' /\ PrefixIntegrity'
  BY <1>2, <1>4, <1>5, <1>6, <1>7
     DEF EndState, Ended, Stored, len, StepInv, PrefixIntegrity
<1>10. QED
  BY <1>4, <1>5, <1>7, <1>8, <1>9

LEMMA StepInvInit == Init => StepInv
<1> SUFFICES ASSUME Init PROVE StepInv
  OBVIOUS
<1>1. received = <<>> /\ len = 0
  BY DEF Init, len
<1>2. IdleState
  BY <1>1 DEF Init, IdleState
<1>3. DataState /\ EndState
  BY DEF Init, DataState, EndState
<1>4. PrefixIntegrity
  BY <1>1 DEF PrefixIntegrity
<1>5. QED
  BY <1>2, <1>3, <1>4, TypeInit DEF StepInv

LEMMA StepInvStep == StepInv /\ Punctual /\ [Next]_vars => StepInv'
<1> SUFFICES ASSUME StepInv, Punctual, [Next]_vars PROVE StepInv'
  OBVIOUS
<1>1. TypeInv'
  BY TypeStep DEF StepInv
<1>2. CASE UNCHANGED vars
  BY <1>1, <1>2
     DEF StepInv, IdleState, DataState, EndState, PrefixIntegrity, InFlight, Receiving,
         Answered, Refused, Over, Asking, OnlyCans, CurrentPacket, Awaited, Taken, Ended,
         Stored, len, Packets, Packet, Numbered,
         vars, lineVars, rcvVars, locals, dataVars, hostVars
<1>3. CASE Next
  <2>1. hpc \in {"idle", "data", "eot", "done", "gaveUp"}
    BY DEF StepInv, TypeInv, HostTypes
  <2>2. QED
    BY <1>1, <1>3, <2>1, IdleSteps, DataReceiver, DataFaults, DataHost, EndSteps
       DEF Next, StepInv
<1>4. QED
  BY <1>2, <1>3

LEMMA StepInvariance == Spec /\ Punctual => []StepInv
<1>1. Punctual => Punctual'
  BY DEF Punctual
<1>2. QED
  BY <1>1, StepInvInit, StepInvStep, PTL DEF Spec

(* Device and host differ by at most the packet in flight, whatever else   *)
(* the line damages or loses and however often block numbers are reused.   *)
THEOREM PunctualInStep == Spec /\ Punctual => []InStep
<1>1. StepInv => InStep
  BY DEF StepInv, DataState, EndState, Ended, Awaited, Taken, InStep
<1>2. QED
  BY <1>1, StepInvariance, PTL

(* An ACK that a host will take for its packet was sent for that packet.   *)
THEOREM PunctualAck == Spec /\ Punctual => []AckMeansStored
<1>1. StepInv => AckMeansStored
  BY DEF StepInv, DataState, Awaited, Taken, AckMeansStored, Items
<1>2. QED
  BY <1>1, StepInvariance, PTL

(* What the device has hashed is a prefix of the file, even when block     *)
(* numbers are used again.                                                 *)
THEOREM PunctualPrefix == Spec /\ Punctual => []PrefixIntegrity
<1>1. StepInv => PrefixIntegrity
  BY DEF StepInv
<1>2. QED
  BY <1>1, StepInvariance, PTL

-----------------------------------------------------------------------------
(* The normal end.                                                         *)

(* An EOT comes from a host that has sent all its packets. *)
LEMMA EotSent ==
  ASSUME TypeInv, Next, "EOT" \in Types(toDev')
  PROVE  "EOT" \in Types(toDev) \/ hpc' = "eot"
<1>1. LineTypes /\ toDev \in Seq(Tokens)
  BY DEF TypeInv, LineTypes
<1>2. CASE Receiver
  <2>1. \/ UNCHANGED toDev \/ (toDev # <<>> /\ toDev' = Tail(toDev))
        \/ (toDev # <<>> /\ toDev' \in AfterByte) \/ toDev' = <<>>
    BY <1>2 DEF Receiver, Prompt, FirstByte, FirstByteTimeout, SecondByte,
                SecondByteTimeout, BodyAccept, BodyReject, FlushByte, FlushDone, lineVars
  <2>2. CASE UNCHANGED toDev
    BY <2>2 DEF Types
  <2>3. CASE toDev # <<>> /\ toDev' = Tail(toDev)
    BY <1>1, <2>3, ItemsOfTail DEF Types
  <2>4. CASE toDev # <<>> /\ toDev' \in AfterByte
    BY <1>1, <2>4, ByteRead
  <2>5. CASE toDev' = <<>>
    BY <2>5, SmallSeqs DEF Types
  <2>6. QED
    BY <2>1, <2>2, <2>3, <2>4, <2>5
<1>3. CASE Damage \/ LoseReply
  BY <1>1, <1>3, LineDamaged DEF LoseReply, Types
<1>4. CASE Host
  <2>1. ASSUME NEW pos \in Nat, NEW no \in 0..(BlockNumbers - 1),
               NEW mode \in {"crc", "sum"}, SendNext(pos, no, mode)
        PROVE  "EOT" \in Types(toDev) \/ hpc' = "eot"
    <3>1. CASE pos < FileSize
      <4>1. PICK size \in Sizes : SendPacket(pos, size, no, mode)
        BY <2>1, <3>1 DEF SendNext, Sizes
      <4>2. pos \in 0..FileSize
        BY <3>1, ConstantFacts
      <4>3. QED
        BY <1>1, <4>1, <4>2, PacketSent
    <3>2. CASE ~(pos < FileSize)
      BY <2>1, <3>2 DEF SendNext
    <3>3. QED
      BY <3>1, <3>2
  <2>2. CASE HostStart
    <3>1. PICK mode \in {"crc", "sum"} : SendNext(0, 1, mode)
      BY <2>2 DEF HostStart
    <3>2. QED
      BY <2>1, <3>1, ConstantFacts
  <2>3. CASE HostAck /\ hpc = "data"
    <3>1. SendNext(hpos + hsz, (hno + 1) % BlockNumbers, hmode)
      BY <2>3 DEF HostAck
    <3>2. hpos + hsz \in Nat /\ (hno + 1) % BlockNumbers \in 0..(BlockNumbers - 1)
      BY ConstantFacts DEF TypeInv, HostTypes
    <3>3. QED
      BY <2>1, <3>1, <3>2 DEF TypeInv, HostTypes
  <2>4. CASE (HostAck /\ hpc # "data") \/ HostCancelled \/ HostIgnore
    BY <2>4 DEF HostAck, HostCancelled, HostIgnore, Types
  <2>5. CASE HostNak \/ HostTimeout
    <3>1. HostWaits /\ SendAgain
      BY <2>5 DEF HostNak, HostTimeout
    <3>2. CASE hpc' = "data" /\ hpc = "data" /\ SendPacket(hpos, hsz, hno, hmode)
      <4>1. hpos \in 0..FileSize /\ hsz \in Sizes
        BY <3>2, ConstantFacts DEF TypeInv, HostTypes
      <4>2. QED
        BY <1>1, <3>2, <4>1, PacketSent DEF TypeInv, HostTypes
    <3>3. CASE toDev' = toDev \o <<Byte("CAN"), Byte("CAN")>>
      BY <1>1, <3>3, ByteSent
    <3>4. QED
      BY <3>1, <3>2, <3>3, SendAgainTypes
  <2>6. QED
    BY <1>4, <2>2, <2>3, <2>4, <2>5 DEF Host
<1>5. QED
  BY <1>2, <1>3, <1>4 DEF Next

LEMMA EndInvStep ==
  ASSUME StepInv, EndInv, Punctual, "EOT" \notin NoiseLooks, [Next]_vars
  PROVE  EndInv'
<1> DEFINE Ending == (pc = "flush" /\ after = "end") \/ result = "end" \/ "EOT" \in Types(toDev)
<1>1. CASE UNCHANGED vars
  BY <1>1 DEF EndInv, Ended, Stored, len, Types, vars, lineVars, rcvVars, dataVars, hostVars
<1>2. ASSUME Next
      PROVE  EndInv'
  <2>1. TypeInv /\ LineTypes /\ StepInv'
    BY <1>2, StepInvStep DEF StepInv, TypeInv
  <2>2. pc' # "done" => result' = "none"
    <3>1. CASE FlushDone
      BY <3>1 DEF FlushDone, EndInv
    <3>2. CASE ~FlushDone
      <4>1. UNCHANGED result /\ (pc' # "done" => pc # "done")
        BY <1>2, <3>2
           DEF Next, Receiver, Prompt, FirstByte, FirstByteTimeout, SecondByte,
               SecondByteTimeout, BodyAccept, BodyReject, FlushByte, Damage, LoseReply,
               Host, HostStart, HostAck, HostNak, HostTimeout, HostCancelled, HostIgnore,
               rcvVars
      <4>2. QED
        BY <4>1 DEF EndInv
    <3>3. QED
      BY <3>1, <3>2
  <2>3. ASSUME Ending
        PROVE  Ended'
    <3>1. Ended /\ hpc # "data"
      <4>1. Ended
        BY <2>3 DEF EndInv
      <4>2. QED
        BY <2>1, <4>1, ConstantFacts DEF Ended, TypeInv, HostTypes
    <3>2. UNCHANGED <<received, hpos>>
      <4>1. CASE hpc = "idle"
        <5>1. toDev = <<>> /\ hpos = 0
          BY <4>1 DEF StepInv, IdleState
        <5>2. ~BodyAccept /\ ~HostAck /\ ~HostNak /\ ~HostTimeout
          BY <4>1, <5>1 DEF BodyAccept, HostAck, HostNak, HostTimeout, HostWaits
        <5>3. QED
          BY <1>2, <5>1, <5>2
             DEF Next, Receiver, Prompt, FirstByte, FirstByteTimeout, SecondByte,
                 SecondByteTimeout, BodyReject, FlushByte, FlushDone, Damage, LoseReply,
                 Host, HostStart, SendNext, HostCancelled, HostIgnore,
                 rcvVars, dataVars, hostVars
      <4>2. CASE hpc # "idle"
        <5>1. hpc \in {"eot", "done", "gaveUp"}
          BY <2>1, <3>1, <4>2 DEF TypeInv, HostTypes
        <5>2. QED
          BY <1>2, <5>1, EndSteps
      <4>3. QED
        BY <4>1, <4>2
    <3>3. QED
      BY <3>1, <3>2 DEF Ended, Stored, len
  <2>4. ASSUME Ending', ~Ending
        PROVE  Ended'
    <3>1. CASE "EOT" \in Types(toDev')
      <4>1. hpc' = "eot"
        BY <1>2, <2>1, <2>4, <3>1, EotSent
      <4>2. QED
        BY <2>1, <4>1 DEF StepInv, EndState
    <3>2. CASE pc' = "flush" /\ after' = "end"
      <4>1. ~(pc = "flush" /\ after = "end")
        BY <2>4
      <4>2. FirstByte /\ "EOT" \in Looks
        BY <1>2, <3>2, <4>1
           DEF Next, Receiver, Prompt, FirstByte, FirstByteTimeout, SecondByte, FirstByteIs,
               GotHeader, NoHeader, Flush, SecondByteTimeout, BodyAccept, BodyReject,
               FlushByte, FlushDone, Damage, LoseReply,
               Host, HostStart, HostAck, HostNak, HostTimeout, HostCancelled, HostIgnore,
               rcvVars
      <4>3. Head(toDev) \in Items(toDev) /\ Head(toDev).type = "EOT"
        BY <2>1, <4>2, ItemsOfTail DEF FirstByte, Looks, LineTypes
      <4>4. QED
        BY <2>4, <4>3 DEF Types
    <3>3. CASE result' = "end"
      <4>1. result # "end"
        BY <2>4
      <4>2. pc = "flush" /\ after = "end"
        BY <1>2, <3>3, <4>1
           DEF Next, Receiver, Prompt, FirstByte, FirstByteTimeout, SecondByte,
               SecondByteTimeout, BodyAccept, BodyReject, FlushByte, FlushDone, Damage,
               LoseReply, Host, HostStart, HostAck, HostNak, HostTimeout, HostCancelled,
               HostIgnore, rcvVars
      <4>3. QED
        BY <2>4, <4>2
    <3>4. QED
      BY <2>4, <3>1, <3>2, <3>3 DEF Types, Items
  <2>5. QED
    BY <2>2, <2>3, <2>4 DEF EndInv, Types, Items
<1>3. QED
  BY <1>1, <1>2

-----------------------------------------------------------------------------
(* The refinement of FileCopy.                                             *)

LEMMA CopyStep ==
  ASSUME StepInv, EndInv, Punctual, "EOT" \notin NoiseLooks, [Next]_vars
  PROVE  [Copy!Extend \/ Copy!Complete \/ Copy!Abort]_(Copy!copyVars)
<1>1. TypeInv /\ StepInv'
  BY StepInvStep DEF StepInv
<1>2. CASE UNCHANGED <<received, result>>
  BY <1>2 DEF Copy!copyVars, Outcome
<1>3. CASE BodyAccept
  <2> PICK b : b = Head(toDev)
    OBVIOUS
  <2>1. /\ b \in Bodies /\ b.size = bufsz
        /\ UNCHANGED dataVars \/ (len < DestSz /\ Callback(BodyData(b)))
    BY <1>1, <1>3, AcceptedFacts
  <2>2. UNCHANGED result /\ result = "none"
    BY <1>3 DEF BodyAccept, EndInv
  <2>3. CASE len < DestSz /\ Callback(BodyData(b))
    <3> DEFINE data == BodyData(b)
    <3>1. /\ data \in Seq(Units) /\ len + Len(data) <= DestSz /\ Len(data) \in Nat
          /\ Len(data) = IF DestSz - len > bufsz THEN bufsz ELSE DestSz - len
      BY <1>1, <2>1, <2>3, BodyDataFacts DEF TypeInv
    <3>2. len' = len + Len(data)
      BY <1>1, <2>3, <3>1, CallbackFacts DEF TypeInv
    <3> HIDE DEF data
    <3>3. /\ len \in Nat /\ DestSz \in Nat /\ bufsz \in Nat \ {0}
          /\ bufsz <= XMODEM1K_PACKET_SIZE /\ XMODEM1K_PACKET_SIZE \in Nat
      <4>1. len \in Nat /\ DestSz \in Nat
        BY <1>1, ConstantFacts, LenProperties DEF TypeInv, DataTypes, len
      <4>2. bufsz \in Sizes
        BY <2>1 DEF Bodies, Sizes
      <4>3. QED
        BY <4>1, <4>2, ConstantFacts DEF Sizes
    <3>4. len' \in len + 1 .. len + XMODEM1K_PACKET_SIZE /\ len' <= DestSz
      BY <2>3, <3>1, <3>2, <3>3
    <3>5. received' = [i \in 1..len' |-> File(i)]
      BY <1>1 DEF StepInv, PrefixIntegrity
    <3>6. received' = Copy!FirstUnits(len')
      BY <3>5 DEF Copy!FirstUnits, Copy!File, File
    <3>7. Copy!Extend
      BY <2>2, <3>4, <3>6 DEF Copy!Extend, Outcome, len
    <3>8. QED
      BY <3>7
  <2>4. QED
    BY <1>2, <2>1, <2>2, <2>3 DEF dataVars
<1>4. CASE FlushDone /\ after # "nak"
  <2>1. /\ result = "none" /\ result' = after /\ UNCHANGED received
        /\ after \in {"end", "cancel", "sync", "retrans"}
    BY <1>1, <1>4 DEF FlushDone, EndInv, dataVars, TypeInv, ControlTypes
  <2>2. CASE after = "end"
    <3>1. Ended
      BY <1>4, <2>2 DEF FlushDone, EndInv
    <3>2. len >= Copy!Wanted
      BY <1>1, <3>1, ConstantFacts DEF Ended, Stored, Copy!Wanted, TypeInv, HostTypes
    <3>3. Copy!Complete
      BY <2>1, <2>2, <3>2 DEF Copy!Complete, Outcome, len
    <3>4. QED
      BY <3>3
  <2>3. CASE after # "end"
    <3>1. Copy!Abort
      BY <2>1, <2>3 DEF Copy!Abort, Outcome
    <3>2. QED
      BY <3>1
  <2>4. QED
    BY <2>2, <2>3
<1>5. UNCHANGED <<received, result>> \/ BodyAccept \/ (FlushDone /\ after # "nak")
  BY DEF Next, Receiver, Prompt, FirstByte, FirstByteTimeout, SecondByte,
         SecondByteTimeout, BodyReject, FlushByte, FlushDone, Damage, LoseReply,
         Host, HostStart, HostAck, HostNak, HostTimeout, HostCancelled, HostIgnore,
         rcvVars, dataVars, vars
<1>6. QED
  BY <1>2, <1>3, <1>4, <1>5

(* An upload is a copy of the file: units are added in order, a normal end *)
(* is reached only when all of them are there, and nothing follows an end. *)
(* A byte that noise turns into an EOT is the one thing that would end it  *)
(* early, and is excluded.                                                 *)
THEOREM PunctualIsCopy == Spec /\ Punctual /\ "EOT" \notin NoiseLooks => RefinesCopy
<1>1. Init => EndInv
  BY SmallSeqs DEF Init, EndInv, Types
<1>2. Init => Copy!CopyInit
  BY DEF Init, Copy!CopyInit, Outcome
<1>3. Punctual /\ "EOT" \notin NoiseLooks => (Punctual /\ "EOT" \notin NoiseLooks)'
  BY DEF Punctual
<1>4. Spec /\ Punctual /\ "EOT" \notin NoiseLooks => [](StepInv /\ EndInv)
  <2>1. StepInv /\ EndInv /\ Punctual /\ "EOT" \notin NoiseLooks /\ [Next]_vars => EndInv'
    BY EndInvStep
  <2>2. QED
    BY <1>1, <1>3, <2>1, StepInvariance, PTL DEF Spec
<1>5. StepInv /\ EndInv /\ Punctual /\ "EOT" \notin NoiseLooks /\ [Next]_vars
        => [Copy!Extend \/ Copy!Complete \/ Copy!Abort]_(Copy!copyVars)
  BY CopyStep
<1>6. QED
  BY <1>2, <1>3, <1>4, <1>5, PTL DEF Spec, RefinesCopy, Copy!CopySpec
=============================================================================
