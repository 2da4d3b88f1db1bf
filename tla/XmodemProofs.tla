---------------------------- MODULE XmodemProofs ----------------------------
(***************************************************************************)
(* Proofs about Xmodem that need no assumption on the host's timing nor on *)
(* the faults of the line: types, the agreement of flash and hash, and the *)
(* integrity of an upload whose packets all have numbers of their own.     *)
(***************************************************************************)
EXTENDS Xmodem, SequenceTheorems, TLAPS

Sizes == {XMODEM_PACKET_SIZE, XMODEM1K_PACKET_SIZE}

-----------------------------------------------------------------------------
(* What is on the line.                                                    *)

(* The items of a sequence, and the number, position and size of the       *)
(* packets among the tokens of a line, damaged or not.                     *)
Items(q) == {q[i] : i \in 1..Len(q)}
Numbered(no, pos, size) == [no |-> no, pos |-> pos, size |-> size]
Packet(t) == Numbered(t.no, t.pos, t.size)
Packets(q) == {Packet(t) : t \in {u \in Items(q) : u.type = "body"}}
Types(q) == {t.type : t \in Items(q)}

LEMMA ItemsOfTail ==
  ASSUME NEW S, NEW q \in Seq(S), q # <<>>
  PROVE  /\ Head(q) \in S /\ Head(q) \in Items(q)
         /\ Tail(q) \in Seq(S) /\ Items(Tail(q)) \subseteq Items(q)
<1>1. /\ Len(q) \in Nat /\ Len(q) # 0
      /\ Len(Tail(q)) = Len(q) - 1
      /\ \A i \in 1..Len(Tail(q)) : Tail(q)[i] = q[i + 1]
      /\ Head(q) \in S /\ Tail(q) \in Seq(S)
  BY HeadTailProperties, EmptySeq, LenProperties
<1>2. Head(q) = q[1] /\ 1 \in 1..Len(q)
  BY <1>1
<1>3. \A i \in 1..Len(Tail(q)) : i + 1 \in 1..Len(q)
  BY <1>1
<1>4. QED
  BY <1>1, <1>2, <1>3 DEF Items

LEMMA ItemsOfConcat ==
  ASSUME NEW S, NEW a \in Seq(S), NEW b \in Seq(S)
  PROVE  a \o b \in Seq(S) /\ Items(a \o b) = Items(a) \cup Items(b)
<1>1. /\ a \o b \in Seq(S) /\ Len(a \o b) = Len(a) + Len(b)
      /\ Len(a) \in Nat /\ Len(b) \in Nat
      /\ \A i \in 1..(Len(a) + Len(b)) :
           (a \o b)[i] = IF i <= Len(a) THEN a[i] ELSE b[i - Len(a)]
  BY ConcatProperties, LenProperties
<1>2. ASSUME NEW i \in 1..(Len(a) + Len(b))
      PROVE  (a \o b)[i] \in Items(a) \cup Items(b)
  BY <1>1 DEF Items
<1>3. ASSUME NEW i \in 1..Len(a)
      PROVE  a[i] \in Items(a \o b)
  <2>1. i \in 1..(Len(a) + Len(b)) /\ (a \o b)[i] = a[i]
    BY <1>1
  <2>2. QED
    BY <1>1, <2>1 DEF Items
<1>4. ASSUME NEW i \in 1..Len(b)
      PROVE  b[i] \in Items(a \o b)
  <2>1. /\ Len(a) + i \in 1..(Len(a) + Len(b)) /\ ~(Len(a) + i <= Len(a))
        /\ Len(a) + i - Len(a) = i
    BY <1>1
  <2>2. (a \o b)[Len(a) + i] = b[i]
    BY <1>1, <2>1
  <2>3. QED
    BY <1>1, <2>1, <2>2 DEF Items
<1>5. Items(a \o b) \subseteq Items(a) \cup Items(b)
  BY <1>1, <1>2 DEF Items
<1>6. Items(a) \cup Items(b) \subseteq Items(a \o b)
  BY <1>3, <1>4 DEF Items
<1>7. QED
  BY <1>1, <1>5, <1>6

LEMMA ItemsOfNone ==
  ASSUME NEW S
  PROVE  <<>> \in Seq(S) /\ Items(<<>>) = {}
<1>1. 1..0 = {}
  OBVIOUS
<1>2. QED
  BY <1>1 DEF Items

LEMMA ItemsOfOne ==
  ASSUME NEW S, NEW x \in S
  PROVE  <<x>> \in Seq(S) /\ Items(<<x>>) = {x}
<1>1. 1..1 = {1}
  OBVIOUS
<1>2. QED
  BY <1>1 DEF Items

LEMMA ItemsOfTwo ==
  ASSUME NEW S, NEW x \in S, NEW y \in S
  PROVE  <<x, y>> \in Seq(S) /\ Items(<<x, y>>) = {x, y}
<1>1. 1..2 = {1, 2}
  OBVIOUS
<1>2. QED
  BY <1>1 DEF Items

LEMMA ItemsOfAppend ==
  ASSUME NEW S, NEW q \in Seq(S), NEW x \in S
  PROVE  Append(q, x) \in Seq(S) /\ Items(Append(q, x)) = Items(q) \cup {x}
<1>1. Append(q, x) = q \o <<x>>
  BY AppendIsConcat
<1>2. <<x>> \in Seq(S) /\ Items(<<x>>) = {x}
  BY ItemsOfOne
<1>3. q \o <<x>> \in Seq(S) /\ Items(q \o <<x>>) = Items(q) \cup Items(<<x>>)
  BY <1>2, ItemsOfConcat
<1>4. QED
  BY <1>1, <1>2, <1>3

LEMMA ItemsOfPart ==
  ASSUME NEW S, NEW q \in Seq(S), NEW m \in 1..(Len(q) + 1), NEW n \in 0..Len(q)
  PROVE  SubSeq(q, m, n) \in Seq(S) /\ Items(SubSeq(q, m, n)) \subseteq Items(q)
<1>1. Len(q) \in Nat /\ \A i \in 1..Len(q) : q[i] \in S
  BY LenProperties, ElementOfSeq
<1>2. \A i \in m..n : i \in 1..Len(q)
  BY <1>1
<1> DEFINE s == SubSeq(q, m, n)
<1>3. /\ s \in Seq(S) /\ Len(s) = IF m <= n THEN n - m + 1 ELSE 0
      /\ \A i \in 1..(n - m + 1) : s[i] = q[m + i - 1]
  BY <1>1, <1>2, SubSeqProperties
<1> HIDE DEF s
<1>4. ASSUME NEW i \in 1..Len(s)
      PROVE  s[i] \in Items(q)
  <2>1. i \in 1..(n - m + 1) /\ m + i - 1 \in 1..Len(q)
    BY <1>1, <1>3
  <2>2. QED
    BY <1>3, <2>1 DEF Items
<1>5. s \in Seq(S) /\ Items(s) \subseteq Items(q)
  BY <1>3, <1>4 DEF Items
<1>6. QED
  BY <1>5 DEF s

(* Taking away the i-th item, or putting others in its place. *)
LEMMA ItemsOfReplaced ==
  ASSUME NEW S, NEW q \in Seq(S), NEW i \in 1..Len(q), NEW d \in Seq(S)
  PROVE  LET r == SubSeq(q, 1, i - 1) \o d \o SubSeq(q, i + 1, Len(q))
         IN  r \in Seq(S) /\ Items(r) \subseteq Items(q) \cup Items(d)
<1> DEFINE a == SubSeq(q, 1, i - 1)
           b == SubSeq(q, i + 1, Len(q))
<1>1. /\ Len(q) \in Nat /\ i - 1 \in 0..Len(q) /\ i + 1 \in 1..(Len(q) + 1)
      /\ 1 \in 1..(Len(q) + 1) /\ Len(q) \in 0..Len(q)
  BY LenProperties
<1>2. a \in Seq(S) /\ Items(a) \subseteq Items(q)
  BY <1>1, ItemsOfPart
<1>3. b \in Seq(S) /\ Items(b) \subseteq Items(q)
  BY <1>1, ItemsOfPart
<1> DEFINE c == a \o d
<1> HIDE DEF a, b
<1>4. c \in Seq(S) /\ Items(c) = Items(a) \cup Items(d)
  BY <1>2, ItemsOfConcat
<1> HIDE DEF c
<1>5. c \o b \in Seq(S) /\ Items(c \o b) = Items(c) \cup Items(b)
  BY <1>3, <1>4, ItemsOfConcat
<1>6. QED
  BY <1>2, <1>3, <1>4, <1>5 DEF a, b, c

-----------------------------------------------------------------------------
(* Type correctness, in four parts.  A block is not waited for once the    *)
(* retries are used up, a flush has a reason, and a host that sends data   *)
(* is somewhere in the file.                                               *)

LineTypes ==
  toDev \in Seq(Tokens) /\ toHost \in Seq(Replies) /\ faults \in 0..MaxFaults
ControlTypes ==
  /\ pc \in {"prompt", "header", "can", "body", "flush", "done"}
  /\ after \in {"none", "nak", "end", "cancel", "sync", "retrans"}
  /\ retry \in 0..(MAX_BYTE_RETRIES - 1) /\ trychar \in {"C", "NAK", "none"}
  /\ useCrc \in BOOLEAN /\ bufsz \in {0} \cup Sizes
  /\ packetno \in 0..(BlockNumbers - 1) /\ retrans \in 0..MAXRETRANS
  /\ result \in {"none", "end", "cancel", "sync", "retrans"}
  /\ repeats \in 0..(MAXRETRANS + 1)
  /\ retrans = 0 => pc = "done" \/ (pc = "flush" /\ after = "retrans")
  /\ pc = "flush" => after # "none"
DataTypes ==
  /\ received \in Seq(Units) /\ len <= DestSz
  /\ flash \in [0..(DestSz - 1) -> Units \cup {Erased}] /\ writeFailed \in BOOLEAN
HostTypes ==
  /\ hpc \in {"idle", "data", "eot", "done", "gaveUp"}
  /\ hpos \in Nat /\ hsz \in Nat /\ hno \in 0..(BlockNumbers - 1)
  /\ hmode \in {"crc", "sum"} /\ tries \in 0..HostRetries
  /\ hpc = "data" => hpos < FileSize /\ hsz \in Sizes

TypeInv == LineTypes /\ ControlTypes /\ DataTypes /\ HostTypes

LEMMA TypeInvImpliesTypeOK == TypeInv => TypeOK
BY DEF TypeInv, LineTypes, ControlTypes, DataTypes, HostTypes, TypeOK, Sizes

LEMMA ConstantFacts ==
  /\ XMODEM_PACKET_SIZE \in Nat \ {0} /\ XMODEM1K_PACKET_SIZE \in Nat \ {0}
  /\ XMODEM_PACKET_SIZE <= XMODEM1K_PACKET_SIZE
  /\ Sizes \subseteq Nat \ {0} /\ DestSz \in Nat /\ FileSize \in Nat
  /\ MAXRETRANS \in Nat \ {0} /\ MAX_BYTE_RETRIES \in Nat \ {0}
  /\ MaxFaults \in Nat /\ HostRetries \in Nat
  /\ BlockNumbers \in Nat /\ BlockNumbers >= 2
BY SizeAssumption, LimitAssumption DEF Sizes

LEMMA TypeInit == Init => TypeInv
<1> SUFFICES ASSUME Init PROVE TypeInv
  OBVIOUS
<1> USE ConstantFacts
<1>1. LineTypes
  BY DEF Init, LineTypes
<1>2. ControlTypes
  <2>1. /\ 0 \in 0..(MAX_BYTE_RETRIES - 1) /\ 1 \in 0..(BlockNumbers - 1)
        /\ MAXRETRANS \in 0..MAXRETRANS /\ MAXRETRANS # 0 /\ 0 \in 0..(MAXRETRANS + 1)
    OBVIOUS
  <2>2. QED
    BY <2>1 DEF Init, ControlTypes
<1>3. DataTypes
  <2>1. <<>> \in Seq(Units) /\ Len(<<>>) = 0
    OBVIOUS
  <2>2. Erased \in Units \cup {Erased}
    OBVIOUS
  <2>3. flash \in [0..(DestSz - 1) -> Units \cup {Erased}]
    BY <2>2 DEF Init
  <2>4. received = <<>> /\ writeFailed \in BOOLEAN
    BY DEF Init
  <2>5. received \in Seq(Units) /\ len <= DestSz
    BY <2>1, <2>4 DEF len
  <2>6. QED
    BY <2>3, <2>4, <2>5 DEF DataTypes
<1>4. HostTypes
  BY DEF Init, HostTypes
<1>5. QED
  BY <1>1, <1>2, <1>3, <1>4 DEF TypeInv

(* The tokens that are put on the line, and the reading of a byte, which   *)
(* carries no packet that was not there.                                   *)
LEMMA TokenTypes ==
  /\ \A t \in {"SOH", "STX", "EOT", "CAN", "noise"} :
       Byte(t) \in Tokens /\ Byte(t).type = t
  /\ \A t \in Tokens : t.type \in {"body", "SOH", "STX", "EOT", "CAN", "noise"}
  /\ \A t \in Tokens : t.type = "body" <=> t \in Bodies
BY DEF Tokens, Bodies, Byte

LEMMA SpoiltBody ==
  ASSUME NEW t \in Bodies
  PROVE  /\ [t EXCEPT !.good = FALSE] \in Bodies
         /\ Packet([t EXCEPT !.good = FALSE]) = Packet(t)
         /\ [t EXCEPT !.good = FALSE, !.whole = FALSE] \in Bodies
         /\ Packet([t EXCEPT !.good = FALSE, !.whole = FALSE]) = Packet(t)
BY DEF Bodies, Packet, Numbered

LEMMA ByteRead ==
  ASSUME toDev \in Seq(Tokens), toDev # <<>>, NEW q \in AfterByte
  PROVE  /\ q \in Seq(Tokens) /\ Packets(q) \subseteq Packets(toDev)
         /\ Types(q) \subseteq Types(toDev)
<1> DEFINE t == Head(toDev)
           spoilt == [t EXCEPT !.good = FALSE]
<1>1. /\ t \in Tokens /\ t \in Items(toDev)
      /\ Tail(toDev) \in Seq(Tokens) /\ Items(Tail(toDev)) \subseteq Items(toDev)
  BY ItemsOfTail
<1>2. CASE q = Tail(toDev)
  BY <1>1, <1>2 DEF Packets, Types
<1>3. CASE t.type = "body" /\ q = <<spoilt>> \o Tail(toDev)
  <2>1. t \in Bodies
    BY <1>1, <1>3, TokenTypes
  <2>2. spoilt \in Bodies /\ spoilt \in Tokens /\ Packet(spoilt) = Packet(t)
    BY <2>1, SpoiltBody DEF Tokens
  <2> HIDE DEF spoilt, t
  <2> DEFINE e == <<spoilt>>
  <2>3. e \in Seq(Tokens) /\ Items(e) = {spoilt}
    BY <2>2, ItemsOfOne
  <2>7. q = e \o Tail(toDev)
    BY <1>3 DEF spoilt, t
  <2> HIDE DEF e
  <2>4. q \in Seq(Tokens) /\ Items(q) = Items(e) \cup Items(Tail(toDev))
    <3> DEFINE rest == Tail(toDev)
    <3>1. e \in Seq(Tokens) /\ rest \in Seq(Tokens) /\ q = e \o rest
      BY <1>1, <2>3, <2>7
    <3> HIDE DEF rest
    <3>2. e \o rest \in Seq(Tokens) /\ Items(e \o rest) = Items(e) \cup Items(rest)
      BY <3>1, ItemsOfConcat
    <3>3. q \in Seq(Tokens) /\ Items(q) = Items(e) \cup Items(rest)
      BY <3>1, <3>2, Zenon
    <3>4. QED
      BY <3>3 DEF rest
  <2>5. Packet(t) \in Packets(toDev)
    BY <1>1, <1>3 DEF Packets
  <2>6. Packets(q) \subseteq Packets(toDev)
    BY <1>1, <2>2, <2>3, <2>4, <2>5 DEF Packets
  <2>8. spoilt.type = "body" /\ "body" \in Types(toDev)
    BY <1>1, <1>3, <2>2 DEF Bodies, Types
  <2>9. Types(q) \subseteq Types(toDev)
    BY <1>1, <2>3, <2>4, <2>8 DEF Types
  <2>10. QED
    BY <2>4, <2>6, <2>9
<1>4. QED
  BY <1>2, <1>3 DEF AfterByte

(* A damage changes no number, no position and no size of a packet. *)
LEMMA LineDamaged ==
  ASSUME LineTypes, Damage
  PROVE  /\ toDev' \in Seq(Tokens) /\ Packets(toDev') \subseteq Packets(toDev)
         /\ Types(toDev') \subseteq Types(toDev) \cup {"body", "noise"}
<1>1. PICK i \in 1..Len(toDev) : \E d \in DamagedForms(toDev[i]) :
        toDev' = SubSeq(toDev, 1, i - 1) \o d \o SubSeq(toDev, i + 1, Len(toDev))
  BY DEF Damage
<1>2. PICK d \in DamagedForms(toDev[i]) :
        toDev' = SubSeq(toDev, 1, i - 1) \o d \o SubSeq(toDev, i + 1, Len(toDev))
  BY <1>1
<1>3. toDev \in Seq(Tokens) /\ toDev[i] \in Tokens /\ toDev[i] \in Items(toDev)
  BY ElementOfSeq DEF LineTypes, Items
<1>4. /\ d \in Seq(Tokens)
      /\ \A u \in Items(d) : u.type = "body" => Packet(u) \in Packets(toDev)
      /\ \A u \in Items(d) : u.type \in {"body", "noise"}
  <2>1. CASE toDev[i].type = "body"
    <3>1. PICK u \in Bodies : d = <<u>> /\ Packet(u) = Packet(toDev[i])
      <4>1. toDev[i] \in Bodies
        BY <1>3, <2>1, TokenTypes
      <4>2. \/ d = <<[toDev[i] EXCEPT !.good = FALSE]>>
            \/ d = <<[toDev[i] EXCEPT !.good = FALSE, !.whole = FALSE]>>
        BY <1>2, <2>1 DEF DamagedForms
      <4>3. QED
        BY <4>1, <4>2, SpoiltBody
    <3>2. u \in Tokens /\ Packet(u) \in Packets(toDev)
      BY <1>3, <2>1, <3>1 DEF Tokens, Packets
    <3>3. d \in Seq(Tokens) /\ Items(d) = {u}
      BY <3>1, <3>2, ItemsOfOne
    <3>4. u.type = "body"
      BY DEF Bodies
    <3>5. QED
      BY <3>2, <3>3, <3>4
  <2>2. CASE toDev[i].type # "body"
    <3>1. d = <<>> \/ d = <<Byte("noise")>>
      BY <1>2, <2>2 DEF DamagedForms
    <3>2. Byte("noise") \in Tokens /\ Byte("noise").type = "noise"
      BY TokenTypes
    <3>3. d \in Seq(Tokens) /\ Items(d) \subseteq {Byte("noise")}
      <4> DEFINE x == Byte("noise")
      <4>1. x \in Tokens
        BY <3>2
      <4>2. d = <<>> \/ d = <<x>>
        BY <3>1
      <4> HIDE DEF x
      <4>3. <<>> \in Seq(Tokens) /\ Items(<<>>) = {}
        BY ItemsOfNone
      <4>4. <<x>> \in Seq(Tokens) /\ Items(<<x>>) = {x}
        BY <4>1, ItemsOfOne
      <4>5. QED
        BY <4>2, <4>3, <4>4 DEF x
    <3>4. QED
      BY <3>2, <3>3
  <2>3. QED
    BY <2>1, <2>2
<1>5. toDev' \in Seq(Tokens) /\ Items(toDev') \subseteq Items(toDev) \cup Items(d)
  BY <1>2, <1>3, <1>4, ItemsOfReplaced
<1>6. QED
  BY <1>4, <1>5 DEF Packets, Types

LEMMA ReplyLost ==
  ASSUME LineTypes, LoseReply
  PROVE  toHost' \in Seq(Replies) /\ Items(toHost') \subseteq Items(toHost)
<1>1. PICK i \in 1..Len(toHost) :
        toHost' = SubSeq(toHost, 1, i - 1) \o SubSeq(toHost, i + 1, Len(toHost))
  BY DEF LoseReply
<1> DEFINE a == SubSeq(toHost, 1, i - 1)
           b == SubSeq(toHost, i + 1, Len(toHost))
<1>2. /\ toHost \in Seq(Replies)
      /\ Len(toHost) \in Nat /\ i - 1 \in 0..Len(toHost) /\ i + 1 \in 1..(Len(toHost) + 1)
      /\ 1 \in 1..(Len(toHost) + 1) /\ Len(toHost) \in 0..Len(toHost)
  BY LenProperties DEF LineTypes
<1>3. a \in Seq(Replies) /\ Items(a) \subseteq Items(toHost)
  BY <1>2, ItemsOfPart
<1>4. b \in Seq(Replies) /\ Items(b) \subseteq Items(toHost)
  BY <1>2, ItemsOfPart
<1> HIDE DEF a, b
<1>5. a \o b \in Seq(Replies) /\ Items(a \o b) = Items(a) \cup Items(b)
  BY <1>3, <1>4, ItemsOfConcat
<1>6. QED
  BY <1>1, <1>3, <1>4, <1>5 DEF a, b

(* A packet sent is a header and a body. *)
LEMMA PacketSent ==
  ASSUME LineTypes, NEW pos \in 0..FileSize, NEW size \in Sizes,
         NEW no \in 0..(BlockNumbers - 1), NEW mode \in {"crc", "sum"},
         SendPacket(pos, size, no, mode)
  PROVE  /\ toDev' \in Seq(Tokens)
         /\ Packets(toDev') \subseteq Packets(toDev) \cup {Numbered(no, pos, size)}
         /\ Types(toDev') \subseteq Types(toDev) \cup {"SOH", "STX", "body"}
<1> DEFINE h == Byte(IF size = XMODEM_PACKET_SIZE THEN "SOH" ELSE "STX")
           b == [type |-> "body", no |-> no, pos |-> pos, size |-> size, mode |-> mode,
                 good |-> TRUE, whole |-> TRUE]
<1>1. h \in Tokens /\ h.type \in {"SOH", "STX"}
  BY TokenTypes
<1>2. b \in Bodies /\ b \in Tokens /\ b.type = "body"
  BY DEF Bodies, Tokens, Sizes
<1>3. Packet(b) = Numbered(no, pos, size)
  BY DEF Packet
<1> DEFINE e == <<h, b>>
<1>4. toDev' = toDev \o e
  BY DEF SendPacket
<1> HIDE DEF h, b
<1>5. e \in Seq(Tokens) /\ Items(e) = {h, b}
  BY <1>1, <1>2, ItemsOfTwo
<1> HIDE DEF e
<1>6. toDev' \in Seq(Tokens) /\ Items(toDev') = Items(toDev) \cup Items(e)
  BY <1>4, <1>5, ItemsOfConcat DEF LineTypes
<1>7. Packets(toDev') \subseteq Packets(toDev) \cup {Numbered(no, pos, size)}
  BY <1>1, <1>3, <1>5, <1>6 DEF Packets
<1>8. Types(toDev') \subseteq Types(toDev) \cup {"SOH", "STX", "body"}
  BY <1>1, <1>2, <1>5, <1>6 DEF Types
<1>9. QED
  BY <1>6, <1>7, <1>8

(* So is a single byte, or two CANs. *)
LEMMA ByteSent ==
  ASSUME LineTypes, NEW t \in {"EOT", "CAN"},
         toDev' = Append(toDev, Byte(t)) \/ toDev' = toDev \o <<Byte(t), Byte(t)>>
  PROVE  /\ toDev' \in Seq(Tokens) /\ Packets(toDev') \subseteq Packets(toDev)
         /\ Types(toDev') \subseteq Types(toDev) \cup {t}
<1> DEFINE x == Byte(t)
           e == <<x, x>>
<1>1. x \in Tokens /\ x.type = t
  BY TokenTypes
<1> HIDE DEF x
<1>2. e \in Seq(Tokens) /\ Items(e) = {x}
  BY <1>1, ItemsOfTwo
<1>3. toDev' = Append(toDev, x) \/ toDev' = toDev \o e
  BY DEF x
<1> HIDE DEF e
<1>4. CASE toDev' = Append(toDev, x)
  <2>1. toDev' \in Seq(Tokens) /\ Items(toDev') = Items(toDev) \cup {x}
    BY <1>1, <1>4, ItemsOfAppend DEF LineTypes
  <2>2. QED
    BY <1>1, <2>1 DEF Packets, Types
<1>5. CASE toDev' = toDev \o e
  <2>1. toDev' \in Seq(Tokens) /\ Items(toDev') = Items(toDev) \cup Items(e)
    BY <1>2, <1>5, ItemsOfConcat DEF LineTypes
  <2>2. QED
    BY <1>1, <1>2, <2>1 DEF Packets, Types
<1>6. QED
  BY <1>3, <1>4, <1>5

(* A round of the loop on retry keeps the receiver's variables in type. *)
LEMMA RoundTypes ==
  ASSUME ControlTypes, pc \in {"header", "can"}, UNCHANGED <<result, repeats>>,
         \/ NoHeader
         \/ \E t \in {"plain", "SOH", "STX", "EOT", "CAN"} : FirstByteIs(t)
         \/ Flush("cancel") /\ UNCHANGED <<retry, trychar, locals>>
  PROVE  ControlTypes'
<1>1. CASE NoHeader
  <2>1. /\ retry' \in 0..(MAX_BYTE_RETRIES - 1) /\ trychar' \in {"C", "NAK", "none"}
        /\ \/ pc' = "prompt" /\ after' = after
           \/ pc' = "flush" /\ after' = "sync"
    BY <1>1, ConstantFacts DEF NoHeader, Flush, ControlTypes
  <2>2. retrans # 0
    BY DEF ControlTypes
  <2>3. UNCHANGED <<useCrc, bufsz, packetno, retrans>>
    BY <1>1 DEF NoHeader, locals
  <2>4. QED
    BY <2>1, <2>2, <2>3 DEF ControlTypes
<1>2. ASSUME NEW t, GotHeader(t)
      PROVE  ControlTypes'
  <2>1. PacketSize(t) \in Sizes
    BY DEF PacketSize, Sizes
  <2>2. bufsz' \in {0} \cup Sizes /\ useCrc' \in BOOLEAN /\ trychar' = "none" /\ pc' = "body"
    BY <1>2, <2>1 DEF GotHeader, ControlTypes
  <2>3. QED
    BY <1>2, <2>2 DEF GotHeader, ControlTypes
<1>3. CASE \/ pc' = "can" /\ UNCHANGED <<after, retry, trychar, locals>>
           \/ Flush("end") /\ UNCHANGED <<retry, trychar, locals>>
           \/ Flush("cancel") /\ UNCHANGED <<retry, trychar, locals>>
  BY <1>3 DEF Flush, locals, ControlTypes
<1>4. QED
  BY <1>1, <1>2, <1>3 DEF FirstByteIs

LEMMA LooksTypes ==
  ASSUME LineTypes, toDev # <<>>
  PROVE  Looks \subseteq {"plain", "SOH", "STX", "EOT", "CAN"}
<1>1. Head(toDev).type \in {"body", "SOH", "STX", "EOT", "CAN", "noise"}
  BY ItemsOfTail, TokenTypes DEF LineTypes
<1>2. QED
  BY <1>1, ChoiceAssumption DEF Looks

(* What is left of a packet after the cut at the end of the destination. *)
LEMMA BodyDataFacts ==
  ASSUME DataTypes, ControlTypes, NEW b \in Bodies, len < DestSz
  PROVE  LET data == BodyData(b)
         IN  /\ data \in Seq(Units)
             /\ Len(data) = IF DestSz - len > bufsz THEN bufsz ELSE DestSz - len
             /\ Len(data) \in Nat /\ len + Len(data) <= DestSz
             /\ \A i \in 1..Len(data) : data[i] = File(b.pos + i)
<1> DEFINE n == IF DestSz - len > bufsz THEN bufsz ELSE DestSz - len
<1>1. len \in Nat /\ DestSz \in Nat /\ bufsz \in Nat /\ b.pos \in Nat
  BY ConstantFacts, LenProperties DEF DataTypes, ControlTypes, len, Bodies
<1>2. n \in Nat /\ len + n <= DestSz
  BY <1>1
<1>3. BodyData(b) = [i \in 1..n |-> File(b.pos + i)]
  BY DEF BodyData
<1> HIDE DEF n
<1>4. \A i \in 1..n : File(b.pos + i) \in Units
  BY <1>1, <1>2, ConstantFacts DEF File, Units
<1>5. /\ BodyData(b) \in Seq(Units) /\ Len(BodyData(b)) = n
      /\ \A i \in 1..n : BodyData(b)[i] = File(b.pos + i)
  BY <1>2, <1>3, <1>4
<1>6. QED
  BY <1>2, <1>5 DEF n

(* xmodemReceiveCB appends to what was hashed; the flash takes the same    *)
(* data at the same place, unless the write fails.                         *)
LEMMA CallbackFacts ==
  ASSUME DataTypes, NEW data \in Seq(Units), len + Len(data) <= DestSz, Callback(data)
  PROVE  /\ DataTypes'
         /\ len' = len + Len(data)
         /\ \A i \in 1..len' :
              received'[i] = IF i <= len THEN received[i] ELSE data[i - len]
         /\ \/ /\ writeFailed' = writeFailed
               /\ \A a \in 0..(DestSz - 1) :
                    flash'[a] = IF a \in len..(len + Len(data) - 1)
                                THEN data[a - len + 1] ELSE flash[a]
            \/ writeFailed' = TRUE /\ flash' = flash
<1>1. /\ received \in Seq(Units) /\ len \in Nat /\ Len(data) \in Nat /\ DestSz \in Nat
      /\ \A i \in 1..Len(data) : data[i] \in Units
  BY ConstantFacts, LenProperties, ElementOfSeq DEF DataTypes, len
<1>2. /\ received' \in Seq(Units) /\ Len(received') = len + Len(data)
      /\ \A i \in 1..(len + Len(data)) :
           received'[i] = IF i <= len THEN received[i] ELSE data[i - len]
  BY <1>1, ConcatProperties DEF Callback, len
<1>3. len' = len + Len(data)
  BY <1>2 DEF len
<1>4. CASE flash' = WriteAt(len, data) /\ UNCHANGED writeFailed
  <2>1. flash' = [a \in 0..(DestSz - 1) |->
                    IF a \in len..(len + Len(data) - 1)
                    THEN data[a - len + 1] ELSE flash[a]]
    BY <1>4 DEF WriteAt, DataTypes
  <2>2. ASSUME NEW a \in 0..(DestSz - 1)
        PROVE  (IF a \in len..(len + Len(data) - 1)
                THEN data[a - len + 1] ELSE flash[a]) \in Units \cup {Erased}
    <3>1. CASE a \in len..(len + Len(data) - 1)
      <4>1. a - len + 1 \in 1..Len(data)
        BY <1>1, <3>1
      <4>2. QED
        BY <1>1, <3>1, <4>1
    <3>2. CASE a \notin len..(len + Len(data) - 1)
      BY <3>2 DEF DataTypes
    <3>3. QED
      BY <3>1, <3>2
  <2>3. flash' \in [0..(DestSz - 1) -> Units \cup {Erased}]
    BY <2>1, <2>2
  <2>4. DataTypes'
    BY <1>2, <1>3, <1>4, <2>3 DEF DataTypes
  <2>5. QED
    BY <1>2, <1>3, <1>4, <2>1, <2>4
<1>5. CASE UNCHANGED flash /\ writeFailed' = TRUE
  <2>1. DataTypes'
    BY <1>2, <1>3, <1>5 DEF DataTypes
  <2>2. QED
    BY <1>2, <1>3, <1>5, <2>1
<1>6. QED
  BY <1>4, <1>5 DEF Callback

(* The two cases of a packet that passes. *)
LEMMA AcceptedFacts ==
  ASSUME TypeInv, BodyAccept
  PROVE  LET b == Head(toDev)
         IN  /\ b \in Bodies /\ b \in Items(toDev) /\ b.size = bufsz
             /\ \/ /\ b.no = packetno /\ packetno' = NextNumber(packetno)
                   /\ len < DestSz => Callback(BodyData(b))
                   /\ ~(len < DestSz) => UNCHANGED dataVars
                   /\ retrans' = MAXRETRANS /\ repeats' = 0
                \/ /\ b.no = packetno - 1 /\ UNCHANGED <<packetno, dataVars>>
                   /\ retrans' = retrans - 1 /\ OneMoreRepeat
             /\ DataTypes'
<1> DEFINE b == Head(toDev)
<1>1. b \in Bodies /\ b \in Items(toDev)
  BY ItemsOfTail, TokenTypes
     DEF TypeInv, LineTypes, BodyAccept, Passes, Undamaged
<1>2. b.size = bufsz /\ (b.no = packetno \/ b.no = packetno - 1)
  BY DEF BodyAccept, Passes, Undamaged
<1>3. CASE b.no = packetno
  <2>1. MAXRETRANS + 1 - 1 = MAXRETRANS
    BY ConstantFacts
  <2>2. IsNew(b)
    BY <1>3 DEF IsNew
  <2>3. retrans' = (IF IsNew(b) THEN MAXRETRANS + 1 ELSE retrans) - 1
    BY DEF BodyAccept
  <2>4. /\ packetno' = NextNumber(packetno) /\ repeats' = 0
        /\ IF len < DestSz THEN Callback(BodyData(b)) ELSE UNCHANGED dataVars
    BY <2>2 DEF BodyAccept
  <2>5. /\ packetno' = NextNumber(packetno) /\ retrans' = MAXRETRANS /\ repeats' = 0
        /\ len < DestSz => Callback(BodyData(b))
        /\ ~(len < DestSz) => UNCHANGED dataVars
    <3>1. retrans' = MAXRETRANS + 1 - 1
      BY <1>3, <2>3, ConstantFacts DEF IsNew, TypeInv, ControlTypes
    <3>2. /\ len < DestSz => Callback(BodyData(b))
          /\ ~(len < DestSz) => UNCHANGED dataVars
      BY <2>4
    <3>3. QED
      BY <2>1, <2>4, <3>1, <3>2
  <2>6. DataTypes'
    <3>1. CASE len < DestSz
      <4>1. BodyData(b) \in Seq(Units) /\ len + Len(BodyData(b)) <= DestSz
        BY <1>1, <3>1, BodyDataFacts DEF TypeInv
      <4>2. QED
        BY <2>5, <3>1, <4>1, CallbackFacts DEF TypeInv
    <3>2. CASE ~(len < DestSz)
      BY <2>5, <3>2 DEF TypeInv, DataTypes, len, dataVars
    <3>3. QED
      BY <3>1, <3>2
  <2>7. QED
    BY <1>1, <1>2, <1>3, <2>5, <2>6
<1>4. CASE b.no # packetno
  <2>1. /\ UNCHANGED <<dataVars, packetno>>
        /\ retrans' = retrans - 1 /\ OneMoreRepeat
    BY <1>4 DEF BodyAccept, IsNew
  <2>2. DataTypes'
    BY <2>1 DEF TypeInv, DataTypes, len, dataVars
  <2>3. QED
    BY <1>1, <1>2, <1>4, <2>1, <2>2
<1>5. QED
  BY <1>3, <1>4

LEMMA ReceiverTypes == TypeInv /\ Receiver => TypeInv'
<1> SUFFICES ASSUME TypeInv, Receiver PROVE TypeInv'
  OBVIOUS
<1> USE DEF TypeInv
<1>1. CASE Prompt
  <2>1. trychar # "none" => trychar \in Replies
    BY DEF ControlTypes, Replies
  <2>2. toHost' \in Seq(Replies)
    BY <1>1, <2>1, ItemsOfAppend DEF Prompt, LineTypes
  <2>3. LineTypes' /\ ControlTypes'
    BY <1>1, <2>2 DEF Prompt, LineTypes, ControlTypes, locals
  <2>4. DataTypes' /\ HostTypes'
    BY <1>1 DEF Prompt, DataTypes, HostTypes, len, dataVars, hostVars
  <2>5. QED
    BY <2>3, <2>4
<1>2. CASE FirstByte
  <2>1. LineTypes'
    BY <1>2, ByteRead DEF FirstByte, LineTypes
  <2>2. ControlTypes'
    <3>1. \E t \in {"plain", "SOH", "STX", "EOT", "CAN"} : FirstByteIs(t)
      BY <1>2, LooksTypes DEF FirstByte
    <3>2. QED
      BY <1>2, <3>1, RoundTypes DEF FirstByte
  <2>3. DataTypes' /\ HostTypes'
    BY <1>2 DEF FirstByte, DataTypes, HostTypes, len, dataVars, hostVars
  <2>4. QED
    BY <2>1, <2>2, <2>3
<1>3. CASE FirstByteTimeout \/ SecondByteTimeout
  <2>1. ControlTypes'
    BY <1>3, RoundTypes DEF FirstByteTimeout, SecondByteTimeout
  <2>2. LineTypes' /\ DataTypes' /\ HostTypes'
    BY <1>3 DEF FirstByteTimeout, SecondByteTimeout, LineTypes, DataTypes, HostTypes,
                len, lineVars, dataVars, hostVars
  <2>3. QED
    BY <2>1, <2>2
<1>4. CASE SecondByte
  <2>1. LineTypes'
    BY <1>4, ByteRead DEF SecondByte, LineTypes
  <2>2. ControlTypes'
    <3>1. NoHeader \/ (Flush("cancel") /\ UNCHANGED <<retry, trychar, locals>>)
      BY <1>4 DEF SecondByte
    <3>2. QED
      BY <1>4, <3>1, RoundTypes DEF SecondByte
  <2>3. DataTypes' /\ HostTypes'
    BY <1>4 DEF SecondByte, DataTypes, HostTypes, len, dataVars, hostVars
  <2>4. QED
    BY <2>1, <2>2, <2>3
<1>5. CASE BodyAccept
  <2>1. packetno' \in 0..(BlockNumbers - 1)
    BY <1>5, AcceptedFacts, ConstantFacts DEF ControlTypes, NextNumber
  <2>2. retrans \in 1..MAXRETRANS
    BY <1>5, ConstantFacts DEF BodyAccept, ControlTypes
  <2>3. retrans' \in 0..MAXRETRANS /\ repeats' \in 0..(MAXRETRANS + 1)
    <3>1. \/ retrans' = MAXRETRANS /\ repeats' = 0
          \/ retrans' = retrans - 1 /\ OneMoreRepeat
      BY <1>5, AcceptedFacts
    <3>2. repeats \in 0..(MAXRETRANS + 1) /\ MAXRETRANS \in Nat \ {0}
      BY ConstantFacts DEF ControlTypes
    <3>3. QED
      BY <2>2, <3>1, <3>2 DEF OneMoreRepeat
  <2>4. \/ retrans' <= 0 /\ Flush("retrans") /\ UNCHANGED <<toHost, retry>>
        \/ /\ ~(retrans' <= 0) /\ toHost' = Append(toHost, "ACK")
           /\ pc' = "prompt" /\ retry' = 0 /\ UNCHANGED after
    BY <1>5 DEF BodyAccept
  <2>5. 0 \in 0..(MAX_BYTE_RETRIES - 1)
    BY ConstantFacts
  <2>6. ControlTypes'
    <3>1. UNCHANGED <<trychar, useCrc, bufsz, result>>
      BY <1>5 DEF BodyAccept
    <3>2. QED
      BY <2>1, <2>3, <2>4, <2>5, <3>1 DEF ControlTypes, Flush
  <2>7. LineTypes'
    <3>1. Tail(toDev) \in Seq(Tokens)
      BY <1>5, ItemsOfTail DEF BodyAccept, LineTypes
    <3>2. toHost' \in Seq(Replies)
      BY <2>4, ItemsOfAppend DEF LineTypes, Replies
    <3>3. QED
      BY <1>5, <3>1, <3>2 DEF BodyAccept, LineTypes
  <2>8. DataTypes' /\ HostTypes'
    BY <1>5, AcceptedFacts DEF BodyAccept, HostTypes, hostVars
  <2>9. QED
    BY <2>6, <2>7, <2>8
<1>6. CASE BodyReject
  <2>1. LineTypes'
    <3>1. toDev' \in Seq(Tokens)
      BY <1>6, ItemsOfTail, ItemsOfNone DEF BodyReject, LineTypes
    <3>2. QED
      BY <1>6, <3>1 DEF BodyReject, LineTypes
  <2>2. ControlTypes'
    BY <1>6, ConstantFacts DEF BodyReject, OneMoreRepeat, ControlTypes, Flush, locals
  <2>3. DataTypes' /\ HostTypes'
    BY <1>6 DEF BodyReject, DataTypes, HostTypes, len, dataVars, hostVars
  <2>4. QED
    BY <2>1, <2>2, <2>3
<1>7. CASE FlushByte
  <2>1. LineTypes'
    BY <1>7, ItemsOfTail DEF FlushByte, LineTypes
  <2>2. ControlTypes' /\ DataTypes' /\ HostTypes'
    BY <1>7 DEF FlushByte, ControlTypes, DataTypes, HostTypes, len,
                rcvVars, locals, dataVars, hostVars
  <2>3. QED
    BY <2>1, <2>2
<1>8. CASE FlushDone
  <2>1. after \in {"nak", "end", "cancel", "sync", "retrans"}
    BY <1>8 DEF FlushDone, ControlTypes
  <2>2. Answer(after) \in Seq(Replies)
    <3>1. /\ <<"NAK">> \in Seq(Replies) /\ <<"ACK">> \in Seq(Replies)
          /\ GiveUp \in Seq(Replies)
      BY DEF GiveUp, Replies
    <3>2. Answer(after) \in {<<"NAK">>, <<"ACK">>, GiveUp}
      BY <2>1 DEF Answer
    <3>3. QED
      BY <3>1, <3>2
  <2>3. LineTypes'
    BY <1>8, <2>2, ItemsOfConcat DEF FlushDone, LineTypes
  <2>4. 0 \in 0..(MAX_BYTE_RETRIES - 1)
    BY ConstantFacts
  <2>5. ControlTypes'
    <3>1. CASE after = "nak"
      BY <1>8, <2>4, <3>1 DEF FlushDone, ControlTypes, locals
    <3>2. CASE after # "nak"
      BY <1>8, <2>1, <3>2 DEF FlushDone, ControlTypes, locals
    <3>3. QED
      BY <3>1, <3>2
  <2>6. DataTypes' /\ HostTypes'
    BY <1>8 DEF FlushDone, DataTypes, HostTypes, len, dataVars, hostVars
  <2>7. QED
    BY <2>3, <2>5, <2>6
<1>9. QED
  BY <1>1, <1>2, <1>3, <1>4, <1>5, <1>6, <1>7, <1>8 DEF Receiver

(* The host's two ways of sending. *)
LEMMA SendNextTypes ==
  ASSUME TypeInv, NEW pos \in Nat, NEW no \in 0..(BlockNumbers - 1),
         NEW mode \in {"crc", "sum"}, SendNext(pos, no, mode)
  PROVE  /\ toDev' \in Seq(Tokens) /\ HostTypes'
         /\ Packets(toDev') \subseteq Packets(toDev) \cup {Numbered(no, pos, hsz')}
         /\ hpos' = pos /\ hno' = no
         /\ \/ pos < FileSize /\ hpc' = "data" /\ SendPacket(pos, hsz', no, mode)
            \/ /\ ~(pos < FileSize) /\ hpc' = "eot" /\ hsz' = 0
               /\ toDev' = Append(toDev, Byte("EOT"))
               /\ Packets(toDev') \subseteq Packets(toDev)
<1>1. hpos' = pos /\ hno' = no /\ hmode' = mode /\ tries' \in 0..HostRetries
  BY ConstantFacts DEF SendNext
<1>2. CASE pos < FileSize
  <2>1. hsz' \in Sizes /\ hpc' = "data" /\ SendPacket(pos, hsz', no, mode)
    BY <1>2 DEF SendNext, Sizes
  <2>2. pos \in 0..FileSize
    BY <1>2, ConstantFacts
  <2>3. /\ toDev' \in Seq(Tokens)
        /\ Packets(toDev') \subseteq Packets(toDev) \cup {Numbered(no, pos, hsz')}
    BY <2>1, <2>2, PacketSent DEF TypeInv
  <2>4. HostTypes'
    BY <1>1, <1>2, <2>1, ConstantFacts DEF HostTypes
  <2>5. QED
    BY <1>1, <1>2, <2>1, <2>3, <2>4
<1>3. CASE ~(pos < FileSize)
  <2>1. hsz' = 0 /\ hpc' = "eot" /\ toDev' = Append(toDev, Byte("EOT"))
    BY <1>3 DEF SendNext
  <2>2. toDev' \in Seq(Tokens) /\ Packets(toDev') \subseteq Packets(toDev)
    BY <2>1, ByteSent DEF TypeInv
  <2>3. HostTypes'
    BY <1>1, <2>1 DEF HostTypes
  <2>4. QED
    BY <1>1, <1>3, <2>1, <2>2, <2>3
<1>4. QED
  BY <1>2, <1>3

LEMMA SendAgainTypes ==
  ASSUME TypeInv, HostWaits, SendAgain
  PROVE  /\ toDev' \in Seq(Tokens) /\ HostTypes' /\ UNCHANGED <<hpos, hsz, hno>>
         /\ \/ /\ hpc = "data" /\ hpc' = "data" /\ SendPacket(hpos, hsz, hno, hmode)
               /\ Packets(toDev') \subseteq Packets(toDev) \cup {Numbered(hno, hpos, hsz)}
            \/ /\ hpc = "eot" /\ hpc' = "eot" /\ toDev' = Append(toDev, Byte("EOT"))
               /\ Packets(toDev') \subseteq Packets(toDev)
            \/ /\ hpc' = "gaveUp" /\ toDev' = toDev \o <<Byte("CAN"), Byte("CAN")>>
               /\ Packets(toDev') \subseteq Packets(toDev)
<1>1. UNCHANGED <<hpos, hsz, hno, hmode>> /\ hpc \in {"data", "eot"}
  BY DEF SendAgain, HostWaits
<1>2. tries' \in 0..HostRetries
  BY ConstantFacts DEF SendAgain, TypeInv, HostTypes
<1>3. CASE hpc = "data" /\ hpc' = hpc
  <2>1. SendPacket(hpos, hsz, hno, hmode) /\ hpc' = "data"
    BY <1>3 DEF SendAgain
  <2>2. hpos \in 0..FileSize /\ hsz \in Sizes
    BY <1>3, ConstantFacts DEF TypeInv, HostTypes
  <2>3. /\ toDev' \in Seq(Tokens)
        /\ Packets(toDev') \subseteq Packets(toDev) \cup {Numbered(hno, hpos, hsz)}
    BY <2>1, <2>2, PacketSent DEF TypeInv, HostTypes
  <2>4. HostTypes'
    BY <1>1, <1>2, <1>3, <2>1 DEF TypeInv, HostTypes
  <2>5. QED
    BY <1>1, <1>3, <2>1, <2>3, <2>4
<1>4. CASE hpc = "eot" /\ hpc' = hpc
  <2>1. toDev' = Append(toDev, Byte("EOT")) /\ hpc' = "eot"
    BY <1>4 DEF SendAgain
  <2>2. toDev' \in Seq(Tokens) /\ Packets(toDev') \subseteq Packets(toDev)
    BY <2>1, ByteSent DEF TypeInv
  <2>3. HostTypes'
    BY <1>1, <1>2, <2>1 DEF TypeInv, HostTypes
  <2>4. QED
    BY <1>1, <1>4, <2>1, <2>2, <2>3
<1>5. CASE hpc' # hpc
  <2>1. toDev' = toDev \o <<Byte("CAN"), Byte("CAN")>> /\ hpc' = "gaveUp"
    BY <1>5 DEF SendAgain
  <2>2. toDev' \in Seq(Tokens) /\ Packets(toDev') \subseteq Packets(toDev)
    BY <2>1, ByteSent DEF TypeInv
  <2>3. HostTypes'
    BY <1>1, <1>2, <2>1 DEF TypeInv, HostTypes
  <2>4. QED
    BY <1>1, <2>1, <2>2, <2>3
<1>6. QED
  BY <1>1, <1>3, <1>4, <1>5

LEMMA TypeStep == TypeInv /\ [Next]_vars => TypeInv'
<1> SUFFICES ASSUME TypeInv, [Next]_vars PROVE TypeInv'
  OBVIOUS
<1>1. CASE UNCHANGED vars
  BY <1>1 DEF TypeInv, LineTypes, ControlTypes, DataTypes, HostTypes, len,
              vars, lineVars, rcvVars, locals, dataVars, hostVars
<1>2. CASE Receiver
  BY <1>2, ReceiverTypes
<1>3. ASSUME UNCHANGED rcvVars
      PROVE  ControlTypes' /\ DataTypes'
  BY <1>3 DEF TypeInv, ControlTypes, DataTypes, len, rcvVars, locals, dataVars
<1>4. CASE Damage \/ LoseReply
  <2>1. faults' \in 0..MaxFaults
    <3>1. faults < MaxFaults /\ faults' = faults + 1
      BY <1>4 DEF Damage, LoseReply
    <3>2. QED
      BY <3>1, ConstantFacts DEF TypeInv, LineTypes
  <2>2. toDev' \in Seq(Tokens) /\ toHost' \in Seq(Replies)
    <3>1. CASE Damage
      BY <3>1, LineDamaged DEF Damage, TypeInv, LineTypes
    <3>2. CASE LoseReply
      BY <3>2, ReplyLost DEF LoseReply, TypeInv, LineTypes
    <3>3. QED
      BY <1>4, <3>1, <3>2
  <2>3. UNCHANGED <<rcvVars, hostVars>>
    BY <1>4 DEF Damage, LoseReply
  <2>4. LineTypes' /\ HostTypes'
    BY <2>1, <2>2, <2>3 DEF TypeInv, LineTypes, HostTypes, hostVars
  <2>5. QED
    BY <1>3, <2>3, <2>4 DEF TypeInv
<1>5. CASE Host
  <2>1. UNCHANGED <<faults, rcvVars>>
    BY <1>5 DEF Host, HostStart, HostAck, HostNak, HostTimeout, HostCancelled, HostIgnore
  <2>2. toHost' = toHost \/ (toHost # <<>> /\ toHost' = Tail(toHost))
    BY <1>5 DEF Host, HostStart, HostAck, HostNak, HostTimeout, HostCancelled, HostIgnore
  <2>3. toHost' \in Seq(Replies)
    BY <2>2, ItemsOfTail DEF TypeInv, LineTypes
  <2>4. toDev' \in Seq(Tokens) /\ HostTypes'
    <3>1. CASE HostStart
      <4>1. 0 \in Nat /\ 1 \in 0..(BlockNumbers - 1)
        BY ConstantFacts
      <4>2. PICK mode \in {"crc", "sum"} : SendNext(0, 1, mode)
        BY <3>1 DEF HostStart
      <4>3. QED
        BY <4>1, <4>2, SendNextTypes
    <3>2. CASE HostAck /\ hpc = "data"
      <4>1. hpos + hsz \in Nat /\ (hno + 1) % BlockNumbers \in 0..(BlockNumbers - 1)
        BY ConstantFacts DEF TypeInv, HostTypes
      <4>2. SendNext(hpos + hsz, (hno + 1) % BlockNumbers, hmode)
        BY <3>2 DEF HostAck
      <4>3. QED
        BY <4>1, <4>2, SendNextTypes DEF TypeInv, HostTypes
    <3>3. CASE HostAck /\ hpc # "data"
      BY <3>3 DEF HostAck, TypeInv, LineTypes, HostTypes
    <3>4. CASE HostNak \/ HostTimeout
      BY <3>4, SendAgainTypes DEF HostNak, HostTimeout
    <3>5. CASE HostCancelled
      BY <3>5 DEF HostCancelled, TypeInv, LineTypes, HostTypes
    <3>6. CASE HostIgnore
      BY <3>6 DEF HostIgnore, TypeInv, LineTypes, HostTypes, hostVars
    <3>7. QED
      BY <1>5, <3>1, <3>2, <3>3, <3>4, <3>5, <3>6 DEF Host
  <2>5. LineTypes'
    BY <2>1, <2>3, <2>4 DEF TypeInv, LineTypes
  <2>6. QED
    BY <1>3, <2>1, <2>4, <2>5 DEF TypeInv
<1>6. QED
  BY <1>1, <1>2, <1>4, <1>5 DEF Next

LEMMA TypeInvariance == Spec => []TypeInv
BY TypeInit, TypeStep, PTL DEF Spec

(* The packet number stays in a byte, the retries do not run below zero,   *)
(* and no more is hashed than the command announced, whatever host and     *)
(* line do.                                                                *)
THEOREM TypeCorrect == Spec => []TypeOK
BY TypeInvariance, TypeInvImpliesTypeOK, PTL

-----------------------------------------------------------------------------
(* Flash and hash.                                                         *)

LEMMA FlashStep == TypeInv /\ FlashMatchesHash /\ [Next]_vars => FlashMatchesHash'
<1> SUFFICES ASSUME TypeInv, FlashMatchesHash, [Next]_vars PROVE FlashMatchesHash'
  OBVIOUS
<1>1. CASE UNCHANGED dataVars
  BY <1>1 DEF FlashMatchesHash, len, dataVars
<1>2. ASSUME NEW data \in Seq(Units), len + Len(data) <= DestSz, Callback(data),
             \A i \in 1..Len(data) : data[i] # Erased
      PROVE  FlashMatchesHash'
  <2>1. /\ DataTypes' /\ DataTypes /\ len' = len + Len(data)
        /\ len \in Nat /\ Len(data) \in Nat /\ DestSz \in Nat
        /\ DOMAIN flash = 0..(DestSz - 1) /\ DOMAIN flash' = 0..(DestSz - 1)
    BY <1>2, CallbackFacts, ConstantFacts, LenProperties DEF TypeInv, DataTypes, len
  <2>2. \A i \in 1..len' :
          received'[i] = IF i <= len THEN received[i] ELSE data[i - len]
    BY <1>2, CallbackFacts DEF TypeInv
  <2>3. ASSUME NEW a \in 0..(DestSz - 1)
        PROVE  /\ a < len => a + 1 \in 1..len' /\ received'[a + 1] = received[a + 1]
               /\ a \in len..(len + Len(data) - 1) =>
                    /\ a - len + 1 \in 1..Len(data)
                    /\ received'[a + 1] = data[a - len + 1]
    <3>1. CASE a < len
      <4>1. a + 1 \in 1..len' /\ a + 1 <= len /\ a \notin len..(len + Len(data) - 1)
        BY <2>1, <3>1
      <4>2. received'[a + 1] = received[a + 1]
        BY <2>2, <4>1
      <4>3. QED
        BY <4>1, <4>2
    <3>2. CASE a \in len..(len + Len(data) - 1)
      <4>1. /\ a + 1 \in 1..len' /\ ~(a + 1 <= len) /\ a + 1 - len = a - len + 1
            /\ a - len + 1 \in 1..Len(data) /\ ~(a < len)
        BY <2>1, <3>2
      <4>2. received'[a + 1] = data[a + 1 - len]
        <5> DEFINE k == a + 1
        <5>1. k \in Int /\ k = a + 1 /\ len \in Int /\ k - len = a + 1 - len
          BY <2>1
        <5>2. k \in 1..len' /\ ~(k <= len)
          BY <4>1
        <5> HIDE DEF k
        <5>3. received'[k] = data[k - len]
          BY <2>2, <5>1, <5>2
        <5>4. QED
          BY <5>1, <5>3
      <4>3. received'[a + 1] = data[a - len + 1]
        BY <4>1, <4>2
      <4>4. QED
        BY <4>1, <4>3
    <3>3. QED
      BY <3>1, <3>2
  <2>4. ASSUME NEW a \in 0..(DestSz - 1)
        PROVE  /\ flash[a] # Erased => a < len /\ flash[a] = received[a + 1]
               /\ a < len /\ ~writeFailed => flash[a] # Erased
    BY <2>1 DEF FlashMatchesHash
  <2>5. CASE /\ writeFailed' = writeFailed
             /\ \A a \in 0..(DestSz - 1) :
                  flash'[a] = IF a \in len..(len + Len(data) - 1)
                              THEN data[a - len + 1] ELSE flash[a]
    <3>1. ASSUME NEW a \in 0..(DestSz - 1)
          PROVE  /\ flash'[a] # Erased => a < len' /\ flash'[a] = received'[a + 1]
                 /\ a < len' /\ ~writeFailed' => flash'[a] # Erased
      <4>1. CASE a \in len..(len + Len(data) - 1)
        <5>1. a < len' /\ flash'[a] = data[a - len + 1] /\ a - len + 1 \in 1..Len(data)
          BY <2>1, <2>3, <2>5, <4>1
        <5>2. flash'[a] = received'[a + 1] /\ flash'[a] # Erased
          BY <1>2, <2>3, <4>1, <5>1
        <5>3. QED
          BY <5>1, <5>2
      <4>2. CASE a \notin len..(len + Len(data) - 1)
        <5>1. flash'[a] = flash[a] /\ (a < len' <=> a < len)
          BY <2>1, <2>5, <4>2
        <5>2. QED
          BY <2>3, <2>4, <2>5, <5>1
      <4>3. QED
        BY <4>1, <4>2
    <3>2. QED
      BY <2>1, <3>1 DEF FlashMatchesHash
  <2>6. CASE writeFailed' = TRUE /\ flash' = flash
    <3>1. ASSUME NEW a \in 0..(DestSz - 1)
          PROVE  flash'[a] # Erased => a < len' /\ flash'[a] = received'[a + 1]
      <4>1. a < len => a < len'
        BY <2>1
      <4>2. QED
        BY <2>3, <2>4, <2>6, <4>1
    <3>2. QED
      BY <2>1, <2>6, <3>1 DEF FlashMatchesHash
  <2>7. QED
    BY <1>2, <2>5, <2>6, CallbackFacts DEF TypeInv
<1>3. CASE BodyAccept
  <2> DEFINE b == Head(toDev)
             data == BodyData(b)
  <2>1. b \in Bodies
    BY <1>3, AcceptedFacts
  <2>2. CASE len < DestSz /\ Callback(data)
    <3>1. data \in Seq(Units) /\ len + Len(data) <= DestSz
      BY <2>1, <2>2, BodyDataFacts DEF TypeInv
    <3>2. \A i \in 1..Len(data) : data[i] \in Units
      BY <3>1, ElementOfSeq
    <3>3. \A u \in Units : u # Erased
      BY ConstantFacts DEF Units, Erased
    <3> HIDE DEF data
    <3>4. QED
      BY <1>2, <2>2, <3>1, <3>2, <3>3
  <2>3. UNCHANGED dataVars \/ (len < DestSz /\ Callback(data))
    BY <1>3, AcceptedFacts
  <2>4. QED
    BY <1>1, <2>2, <2>3
<1>4. UNCHANGED dataVars \/ BodyAccept
  BY DEF Next, Receiver, Prompt, FirstByte, FirstByteTimeout, SecondByte,
         SecondByteTimeout, BodyReject, FlushByte, FlushDone, Damage, LoseReply,
         Host, HostStart, HostAck, HostNak, HostTimeout, HostCancelled, HostIgnore,
         vars, rcvVars
<1>5. QED
  BY <1>1, <1>3, <1>4

(* Flash and hash never disagree about a unit that was written, whatever   *)
(* the host sends and whichever writes fail; without a failed write the    *)
(* flash holds all that was hashed.                                        *)
THEOREM FlashAgrees == Spec => []FlashMatchesHash
<1>1. Init => FlashMatchesHash
  BY ConstantFacts DEF Init, FlashMatchesHash, len
<1>2. QED
  BY <1>1, FlashStep, TypeInvariance, PTL DEF Spec

-----------------------------------------------------------------------------
(* The integrity of the prefix when no block number is used twice: 254     *)
(* packets of the smaller size.                                            *)
NumbersSuffice == FileSize <= (BlockNumbers - 2) * XMODEM_PACKET_SIZE

(* The n-th packet begins at pos or before. *)
Fits(n, pos) == (n - 1) * XMODEM_PACKET_SIZE <= pos

(* Every packet on the line is one the host has sent: it has the number of *)
(* its place in the file, and two packets of one number are the same.  One *)
(* that carries the awaited number begins where the hash ends.             *)
PacketPlaced(p) ==
  /\ p.no \in 1..hno /\ Fits(p.no, p.pos) /\ p.pos < FileSize
  /\ p.no = hno => p.pos = hpos /\ p.size = hsz
  /\ p.no + 1 = hno => p.pos + p.size = hpos
  /\ p.no = packetno => Stored(p.pos)
Consecutive(p, q) ==
  /\ p.no = q.no => p = q
  /\ p.no + 1 = q.no => q.pos = p.pos + p.size
LineNumbered ==
  /\ \A p \in Packets(toDev) : PacketPlaced(p)
  /\ \A p, q \in Packets(toDev) : Consecutive(p, q)

(* The receiver is never ahead of the host by more than its packet. *)
HostNumbered ==
  /\ packetno \in 1..(hno + 1) /\ Fits(hno, hpos)
  /\ packetno = hno => Stored(hpos)
  /\ packetno = hno + 1 => Stored(hpos + hsz)
  /\ IF hpc = "idle" THEN hno = 0 /\ hpos = 0 /\ hsz = 0 ELSE hno > 0

NumberInv == TypeInv /\ LineNumbered /\ HostNumbered /\ PrefixIntegrity

LEMMA FitsFacts ==
  /\ Fits(0, 0) /\ Fits(1, 0)
  /\ \A n, pos \in Nat : \A size \in Sizes : Fits(n, pos) => Fits(n + 1, pos + size)
  /\ NumbersSuffice => \A n, pos \in Nat :
       Fits(n, pos) /\ pos < FileSize => n + 1 < BlockNumbers
<1> DEFINE P == XMODEM_PACKET_SIZE
<1>1. P \in Nat \ {0} /\ \A size \in Sizes : size \in Nat /\ P <= size
  BY ConstantFacts DEF Sizes
<1>2. Fits(0, 0) /\ Fits(1, 0)
  BY <1>1 DEF Fits
<1>3. ASSUME NEW n \in Nat, NEW pos \in Nat, NEW size \in Sizes, Fits(n, pos)
      PROVE  Fits(n + 1, pos + size)
  <2>1. (n - 1) * P <= pos
    BY <1>3 DEF Fits
  <2>2. (n + 1 - 1) * P = (n - 1) * P + P
    BY <1>1
  <2>3. (n - 1) * P \in Int
    BY <1>1
  <2>4. (n + 1 - 1) * P <= pos + size
    BY <1>1, <2>1, <2>2, <2>3
  <2>5. QED
    BY <2>4 DEF Fits
<1>4. ASSUME NumbersSuffice, NEW n \in Nat, NEW pos \in Nat, Fits(n, pos), pos < FileSize
      PROVE  n + 1 < BlockNumbers
  <2>1. (n - 1) * P < (BlockNumbers - 2) * P
    <3>1. (n - 1) * P <= pos /\ FileSize <= (BlockNumbers - 2) * P
      BY <1>4 DEF Fits, NumbersSuffice
    <3>2. (n - 1) * P \in Int /\ (BlockNumbers - 2) * P \in Int /\ FileSize \in Nat
      BY <1>1, ConstantFacts
    <3>3. QED
      BY <1>4, <3>1, <3>2
  <2>2. SUFFICES ASSUME ~(n + 1 < BlockNumbers) PROVE FALSE
    OBVIOUS
  <2>3. PICK k \in Nat : n - 1 = (BlockNumbers - 2) + k
    <3>1. n - 1 - (BlockNumbers - 2) \in Nat
      BY <2>2, ConstantFacts
    <3>2. n - 1 = (BlockNumbers - 2) + (n - 1 - (BlockNumbers - 2))
      BY ConstantFacts
    <3>3. QED
      BY <3>1, <3>2
  <2>4. (n - 1) * P = (BlockNumbers - 2) * P + k * P
    BY <1>1, <2>3, ConstantFacts
  <2>5. k * P \in Nat /\ (BlockNumbers - 2) * P \in Int /\ (n - 1) * P \in Int
    BY <1>1, ConstantFacts
  <2>6. QED
    BY <2>1, <2>4, <2>5
<1>5. QED
  BY <1>2, <1>3, <1>4

LEMMA PacketTypes ==
  ASSUME LineTypes, NEW p \in Packets(toDev)
  PROVE  p.no \in Nat /\ p.pos \in Nat /\ p.size \in Nat
<1>1. PICK t \in Items(toDev) : t.type = "body" /\ p = Packet(t)
  BY DEF Packets
<1>2. t \in Tokens
  BY ElementOfSeq DEF LineTypes, Items
<1>3. t \in Bodies
  BY <1>1, <1>2, TokenTypes
<1>4. p.no = t.no /\ p.pos = t.pos /\ p.size = t.size
  BY <1>1 DEF Packet, Numbered
<1>5. t.no \in 0..(BlockNumbers - 1) /\ t.pos \in 0..FileSize /\ t.size \in Sizes
  BY <1>3 DEF Bodies, Sizes
<1>6. t.no \in Nat /\ t.pos \in Nat
  BY <1>5, ConstantFacts
<1>7. t.size \in Nat
  BY <1>5, ConstantFacts
<1>8. QED
  BY <1>4, <1>6, <1>7

(* A block that begins where the hash ends is hashed: what has come so far *)
(* is the prefix up to its end, as much of it as was announced.            *)
LEMMA BlockStored ==
  ASSUME DataTypes, ControlTypes, PrefixIntegrity,
         NEW b \in Bodies, b.size = bufsz, Stored(b.pos),
         len < DestSz => Callback(BodyData(b)),
         ~(len < DestSz) => UNCHANGED dataVars
  PROVE  Stored(b.pos + b.size)' /\ PrefixIntegrity'
<1>1. /\ len \in Nat /\ DestSz \in Nat /\ b.pos \in Nat /\ b.size \in Nat
      /\ received \in Seq(Units) /\ len <= DestSz
  BY ConstantFacts, LenProperties DEF DataTypes, len, Bodies
<1>2. received = [i \in 1..len |-> File(i)]
  BY DEF PrefixIntegrity
<1>3. CASE len < DestSz
  <2> DEFINE data == BodyData(b)
  <2>1. /\ data \in Seq(Units)
        /\ Len(data) = IF DestSz - len > bufsz THEN bufsz ELSE DestSz - len
        /\ Len(data) \in Nat /\ len + Len(data) <= DestSz
        /\ \A i \in 1..Len(data) : data[i] = File(b.pos + i)
    BY <1>3, BodyDataFacts
  <2>2. Callback(data)
    BY <1>3
  <2> HIDE DEF data
  <2>3. /\ DataTypes' /\ len' = len + Len(data)
        /\ \A i \in 1..len' :
             received'[i] = IF i <= len THEN received[i] ELSE data[i - len]
    BY <2>1, <2>2, CallbackFacts
  <2>4. len = b.pos
    BY <1>1, <1>3 DEF Stored
  <2>5. len' = IF b.pos + b.size < DestSz THEN b.pos + b.size ELSE DestSz
    BY <1>1, <1>3, <2>1, <2>3, <2>4
  <2>6. ASSUME NEW i \in 1..len'
        PROVE  received'[i] = File(i)
    <3>1. CASE i <= len
      <4>1. i \in 1..len
        BY <3>1
      <4>2. received[i] = File(i)
        BY <1>2, <4>1
      <4>3. QED
        BY <2>3, <3>1, <4>2
    <3>2. CASE ~(i <= len)
      <4>4. len' \in Nat /\ len' = len + Len(data) /\ Len(data) \in Nat
        BY <1>1, <2>1, <2>3
      <4>5. i \in Int /\ i - len \in 1..Len(data)
        BY <1>1, <3>2, <4>4
      <4>1. i \in Int /\ i - len \in 1..Len(data) /\ b.pos + (i - len) = i
        BY <1>1, <2>4, <4>5
      <4>2. received'[i] = data[i - len]
        BY <2>3, <3>2
      <4>3. QED
        BY <2>1, <4>1, <4>2
    <3>3. QED
      BY <3>1, <3>2
  <2>7. received' \in Seq(Units) /\ len' = Len(received')
    BY <2>3 DEF DataTypes, len
  <2>8. received' = [i \in 1..len' |-> received'[i]]
    BY <2>7
  <2>9. received' = [i \in 1..len' |-> File(i)]
    BY <2>6, <2>8
  <2>10. QED
    BY <2>5, <2>9, <1>1 DEF Stored, PrefixIntegrity
<1>4. CASE ~(len < DestSz)
  <2>1. received' = received /\ len' = len
    BY <1>4 DEF dataVars, len
  <2>2. len = DestSz /\ ~(b.pos < DestSz)
    BY <1>1, <1>4 DEF Stored
  <2>3. ~(b.pos + b.size < DestSz)
    BY <1>1, <2>2
  <2>4. QED
    BY <1>2, <2>1, <2>2, <2>3 DEF Stored, PrefixIntegrity
<1>5. QED
  BY <1>3, <1>4

LEMMA NumberTypes ==
  ASSUME TypeInv, HostNumbered
  PROVE  /\ hno \in Nat /\ hpos \in Nat /\ hsz \in Nat /\ packetno \in Nat
         /\ BlockNumbers \in Nat /\ FileSize \in Nat
         /\ hpc = "data" => hno > 0 /\ hpos < FileSize /\ hsz \in Sizes
BY ConstantFacts DEF TypeInv, HostTypes, ControlTypes, HostNumbered

(* Steps that move neither number: they send at most the packet the host   *)
(* is at.                                                                  *)
LEMMA NumbersKept ==
  ASSUME NumberInv, UNCHANGED <<received, packetno, hpos, hsz, hno>>,
         hpc' = "idle" <=> hpc = "idle",
         \/ Packets(toDev') \subseteq Packets(toDev)
         \/ /\ hpc = "data"
            /\ Packets(toDev') \subseteq Packets(toDev) \cup {Numbered(hno, hpos, hsz)}
  PROVE  LineNumbered' /\ HostNumbered' /\ PrefixIntegrity'
<1> DEFINE new == Numbered(hno, hpos, hsz)
<1>1. /\ hno \in Nat /\ hpos \in Nat /\ hsz \in Nat /\ packetno \in Nat
      /\ FileSize \in Nat /\ (hpc = "data" => hno > 0 /\ hpos < FileSize)
  BY NumberTypes DEF NumberInv
<1>2. \A n : Stored(n)' <=> Stored(n)
  BY DEF Stored, len
<1>3. HostNumbered' /\ PrefixIntegrity'
  BY <1>2 DEF NumberInv, HostNumbered, PrefixIntegrity, len
<1>4. \A p : PacketPlaced(p)' <=> PacketPlaced(p)
  BY <1>2 DEF PacketPlaced
<1>5. new.no = hno /\ new.pos = hpos /\ new.size = hsz
  BY DEF Numbered
<1>6. ASSUME hpc = "data"
      PROVE  PacketPlaced(new)
  BY <1>1, <1>5, <1>6 DEF PacketPlaced, NumberInv, HostNumbered
<1>7. ASSUME NEW p \in Packets(toDev)
      PROVE  Consecutive(p, new) /\ Consecutive(new, p)
  <2>1. PacketPlaced(p) /\ p.no \in Nat /\ p.pos \in Nat /\ p.size \in Nat
    <3>1. p.no \in Nat /\ p.pos \in Nat /\ p.size \in Nat
      BY PacketTypes DEF NumberInv, TypeInv
    <3>2. QED
      BY <3>1 DEF NumberInv, LineNumbered
  <2>2. p = Numbered(p.no, p.pos, p.size)
    BY DEF Packets, Packet, Numbered
  <2>3. p.no \in 1..hno /\ (p.no = hno => p = new)
    BY <2>1, <2>2 DEF PacketPlaced
  <2>4. p.no + 1 = hno => p.pos + p.size = hpos
    BY <2>1 DEF PacketPlaced
  <2>5. ~(hno + 1 = p.no)
    BY <1>1, <2>3
  <2> HIDE DEF new
  <2>6. QED
    BY <1>5, <2>3, <2>4, <2>5 DEF Consecutive
<1>8. Consecutive(new, new)
  BY <1>1, <1>5 DEF Consecutive
<1> HIDE DEF new
<1>9. \A p \in Packets(toDev') : PacketPlaced(p)
  BY <1>6, Zenon DEF NumberInv, LineNumbered, new
<1>10. \A p, q \in Packets(toDev') : Consecutive(p, q)
  BY <1>7, <1>8, Zenon DEF NumberInv, LineNumbered, new
<1>11. LineNumbered'
  BY <1>4, <1>9, <1>10 DEF LineNumbered, Consecutive
<1>12. QED
  BY <1>3, <1>11

(* The host goes on to its next packet, or to the end of the file. *)
LEMMA NumbersNext ==
  ASSUME NumberInv, NEW mode \in {"crc", "sum"}, UNCHANGED <<received, packetno>>,
         NEW pos \in Nat, NEW no \in 1..(BlockNumbers - 1),
         no = hno + 1, pos = hpos + hsz, Fits(no, pos),
         SendNext(pos, no, mode)
  PROVE  LineNumbered' /\ HostNumbered' /\ PrefixIntegrity'
<1> PICK size : hsz' = size
  OBVIOUS
<1> DEFINE new == Numbered(no, pos, size)
<1>1. /\ hno \in Nat /\ hpos \in Nat /\ hsz \in Nat /\ packetno \in Nat
      /\ FileSize \in Nat /\ no \in Nat /\ no > 0
  BY NumberTypes DEF NumberInv
<1>2. /\ hpos' = pos /\ hno' = no /\ hpc' # "idle"
      /\ \/ Packets(toDev') \subseteq Packets(toDev)
         \/ pos < FileSize /\ Packets(toDev') \subseteq Packets(toDev) \cup {new}
      /\ size \in Nat
  <2>1. no \in 0..(BlockNumbers - 1)
    BY ConstantFacts
  <2>2. QED
    BY <2>1, SendNextTypes DEF NumberInv, HostTypes
<1>3. \A n : Stored(n)' <=> Stored(n)
  BY DEF Stored, len
<1>4. packetno \in 1..(hno + 1) /\ (packetno = no => Stored(pos))
  BY DEF NumberInv, HostNumbered
<1>5. HostNumbered'
  <2>1. packetno \in 1..(no + 1) /\ packetno # no + 1
    BY <1>1, <1>4
  <2>2. Fits(hno', hpos')
    BY <1>2
  <2>3. packetno' = hno' => Stored(hpos)'
    BY <1>2, <1>3, <1>4 DEF Stored, len
  <2>4. QED
    BY <1>1, <1>2, <2>1, <2>2, <2>3 DEF HostNumbered, Fits
<1>6. PrefixIntegrity'
  BY DEF NumberInv, PrefixIntegrity, len
<1>7. new.no = no /\ new.pos = pos /\ new.size = size
  BY DEF Numbered
<1> HIDE DEF new
<1>8. ASSUME NEW p \in Packets(toDev)
      PROVE  PacketPlaced(p)' /\ Consecutive(p, new) /\ Consecutive(new, p)
  <2>1. PacketPlaced(p) /\ p.no \in Nat /\ p.pos \in Nat /\ p.size \in Nat
    <3>1. p.no \in Nat /\ p.pos \in Nat /\ p.size \in Nat
      BY PacketTypes DEF NumberInv, TypeInv
    <3>2. QED
      BY <3>1 DEF NumberInv, LineNumbered
  <2>2. p.no \in 1..hno /\ p.no # no /\ p.no # no + 1
    BY <1>1, <2>1 DEF PacketPlaced
  <2>3. p.no + 1 = no => p.pos + p.size = pos
    <3>1. p.no + 1 = no => p.no = hno
      BY <1>1, <2>1
    <3>2. QED
      BY <2>1, <3>1 DEF PacketPlaced
  <2>4. p.no \in 1..no
    BY <1>1, <2>2
  <2>5. PacketPlaced(p)'
    BY <1>2, <1>3, <2>1, <2>2, <2>3, <2>4 DEF PacketPlaced
  <2>6. QED
    BY <1>7, <2>2, <2>3, <2>5 DEF Consecutive
<1>9. Consecutive(new, new)
  BY <1>1, <1>7 DEF Consecutive
<1>10. ASSUME pos < FileSize
       PROVE  PacketPlaced(new)'
  <2>1. no \in 1..no /\ ~(no + 1 = no)
    BY <1>1
  <2>2. QED
    BY <1>2, <1>3, <1>4, <1>7, <1>10, <2>1 DEF PacketPlaced
<1>11. ASSUME NEW p \in Packets(toDev')
       PROVE  PacketPlaced(p)'
  BY <1>2, <1>8, <1>10
<1>12. \A p, q \in Packets(toDev') : Consecutive(p, q)
  BY <1>2, <1>8, <1>9, Zenon DEF NumberInv, LineNumbered
<1>13. LineNumbered'
  BY <1>11, <1>12 DEF LineNumbered, Consecutive
<1>14. QED
  BY <1>5, <1>6, <1>13

(* The receiver goes on to the next block. *)
LEMMA NumbersAccept ==
  ASSUME NumberInv, NumbersSuffice, BodyAccept
  PROVE  LineNumbered' /\ HostNumbered' /\ PrefixIntegrity'
<1> PICK b : b = Head(toDev)
  OBVIOUS
<1>1. /\ UNCHANGED <<hpc, hpos, hsz, hno>> /\ toDev' = Tail(toDev)
      /\ toDev \in Seq(Tokens) /\ toDev # <<>>
  BY DEF BodyAccept, hostVars, NumberInv, TypeInv, LineTypes
<1>2. Packets(toDev') \subseteq Packets(toDev)
  BY <1>1, ItemsOfTail DEF Packets
<1>3. b \in Bodies /\ b.size = bufsz /\ Packet(b) \in Packets(toDev)
  <2>1. b \in Bodies /\ b \in Items(toDev) /\ b.size = bufsz
    BY AcceptedFacts DEF NumberInv
  <2>2. QED
    BY <2>1 DEF Packets, Bodies
<1>4. CASE UNCHANGED <<packetno, dataVars>>
  BY <1>1, <1>2, <1>4, NumbersKept DEF dataVars
<1>5. CASE /\ b.no = packetno /\ packetno' = NextNumber(packetno)
           /\ len < DestSz => Callback(BodyData(b))
           /\ ~(len < DestSz) => UNCHANGED dataVars
  <2> DEFINE p == Packet(b)
  <2>1. p.no = b.no /\ p.pos = b.pos /\ p.size = b.size
    BY DEF Packet, Numbered
  <2>2. PacketPlaced(p) /\ p \in Packets(toDev)
    BY <1>3 DEF NumberInv, LineNumbered
  <2>3. b.pos \in Nat /\ b.size \in Nat /\ b.no \in Nat
    BY <1>3, ConstantFacts DEF Bodies
  <2> HIDE DEF p
  <2>4. /\ hno \in Nat /\ hpos \in Nat /\ hsz \in Nat /\ packetno \in Nat
        /\ BlockNumbers \in Nat /\ FileSize \in Nat
    BY NumberTypes DEF NumberInv
  <2>5. packetno' = packetno + 1
    <3>1. Fits(packetno, b.pos) /\ b.pos < FileSize
      BY <1>5, <2>1, <2>2 DEF PacketPlaced
    <3>2. packetno + 1 < BlockNumbers
      BY <2>3, <2>4, <3>1, FitsFacts
    <3>3. QED
      BY <1>5, <2>4, <3>2 DEF NextNumber
  <2>6. Stored(b.pos)
    BY <1>5, <2>1, <2>2 DEF PacketPlaced
  <2>7. Stored(b.pos + b.size)' /\ PrefixIntegrity'
    BY <1>3, <1>5, <2>6, BlockStored DEF NumberInv, TypeInv
  <2>8. len' = IF b.pos + b.size < DestSz THEN b.pos + b.size ELSE DestSz
    BY <2>7 DEF Stored
  <2>9. packetno \in 1..hno
    BY <1>5, <2>1, <2>2 DEF PacketPlaced
  <2>10. HostNumbered'
    <3>1. packetno' \in 1..(hno' + 1) /\ packetno # hno + 1
      BY <1>1, <2>4, <2>5, <2>9
    <3>2. packetno' = hno' => Stored(hpos)'
      <4>1. packetno' = hno' => b.pos + b.size = hpos'
        BY <1>1, <1>5, <2>1, <2>2, <2>5 DEF PacketPlaced
      <4>2. QED
        BY <2>8, <4>1 DEF Stored
    <3>3. packetno' = hno' + 1 => Stored(hpos + hsz)'
      <4>1. packetno' = hno' + 1 => packetno = hno
        BY <1>1, <2>4, <2>5
      <4>2. packetno' = hno' + 1 => b.pos + b.size = hpos' + hsz'
        BY <1>1, <1>5, <2>1, <2>2, <4>1 DEF PacketPlaced
      <4>3. QED
        BY <2>8, <4>2 DEF Stored
    <3>4. Fits(hno', hpos')
      BY <1>1 DEF NumberInv, HostNumbered
    <3>5. IF hpc' = "idle" THEN hno' = 0 /\ hpos' = 0 /\ hsz' = 0 ELSE hno' > 0
      BY <1>1 DEF NumberInv, HostNumbered
    <3>6. QED
      BY <3>1, <3>2, <3>3, <3>4, <3>5 DEF HostNumbered, Fits
  <2>11. ASSUME NEW q \in Packets(toDev)
         PROVE  PacketPlaced(q)'
    <3>1. PacketPlaced(q) /\ Consecutive(p, q)
      BY <2>2 DEF NumberInv, LineNumbered
    <3>2. q.no = packetno' => q.pos = b.pos + b.size
      BY <1>5, <2>1, <2>5, <3>1 DEF Consecutive
    <3>3. q.no = packetno' => Stored(q.pos)'
      BY <2>8, <3>2 DEF Stored
    <3>4. QED
      BY <1>1, <3>1, <3>3 DEF PacketPlaced, Fits
  <2>12. LineNumbered'
    <3>1. \A q \in Packets(toDev') : PacketPlaced(q)'
      BY <1>2, <2>11
    <3>2. \A q, r \in Packets(toDev') : Consecutive(q, r)
      BY <1>2 DEF NumberInv, LineNumbered
    <3>3. QED
      BY <3>1, <3>2 DEF LineNumbered, Consecutive
  <2>13. QED
    BY <2>7, <2>10, <2>12
<1>6. QED
  BY <1>4, <1>5, AcceptedFacts DEF NumberInv

LEMMA NumberStep == NumberInv /\ NumbersSuffice /\ [Next]_vars => NumberInv'
<1> SUFFICES ASSUME NumberInv, NumbersSuffice, [Next]_vars
             PROVE  LineNumbered' /\ HostNumbered' /\ PrefixIntegrity'
  BY TypeStep DEF NumberInv
<1>1. CASE UNCHANGED vars
  BY <1>1, NumbersKept DEF vars, lineVars, rcvVars, locals, dataVars, hostVars, Packets
<1>2. TypeInv /\ LineTypes /\ toDev \in Seq(Tokens) /\ toHost \in Seq(Replies)
  BY DEF NumberInv, TypeInv, LineTypes
<1>3. CASE BodyAccept
  BY <1>3, NumbersAccept
<1>4. CASE Receiver /\ ~BodyAccept
  <2>1. UNCHANGED <<received, packetno, hpos, hsz, hno, hpc>>
    BY <1>4 DEF Receiver, Prompt, FirstByte, FirstByteTimeout, SecondByte,
                SecondByteTimeout, BodyReject, FlushByte, FlushDone, FirstByteIs,
                GotHeader, NoHeader, rcvVars, locals, dataVars, hostVars
  <2>2. \/ UNCHANGED toDev \/ (toDev # <<>> /\ toDev' = Tail(toDev))
        \/ (toDev # <<>> /\ toDev' \in AfterByte)
    BY <1>4 DEF Receiver, Prompt, FirstByte, FirstByteTimeout, SecondByte,
                SecondByteTimeout, BodyReject, FlushByte, FlushDone, lineVars
  <2>3. Packets(toDev') \subseteq Packets(toDev)
    <3>1. CASE UNCHANGED toDev
      BY <3>1 DEF Packets
    <3>2. CASE toDev # <<>> /\ toDev' = Tail(toDev)
      BY <1>2, <3>2, ItemsOfTail DEF Packets
    <3>3. CASE toDev # <<>> /\ toDev' \in AfterByte
      BY <1>2, <3>3, ByteRead
    <3>4. QED
      BY <2>2, <3>1, <3>2, <3>3
  <2>4. QED
    BY <2>1, <2>3, NumbersKept
<1>5. CASE Damage \/ LoseReply
  <2>1. UNCHANGED <<received, packetno, hpos, hsz, hno, hpc>>
    BY <1>5 DEF Damage, LoseReply, rcvVars, locals, dataVars, hostVars
  <2>2. Packets(toDev') \subseteq Packets(toDev)
    BY <1>2, <1>5, LineDamaged DEF LoseReply, Packets
  <2>3. QED
    BY <2>1, <2>2, NumbersKept
<1>6. CASE Host
  <2>1. UNCHANGED <<received, packetno>>
    BY <1>6 DEF Host, HostStart, HostAck, HostNak, HostTimeout, HostCancelled,
                HostIgnore, rcvVars, locals, dataVars
  <2>2. CASE HostStart
    <3>1. PICK mode \in {"crc", "sum"} : SendNext(0, 1, mode)
      BY <2>2 DEF HostStart
    <3>2. hno = 0 /\ hpos = 0 /\ hsz = 0
      BY <2>2 DEF HostStart, NumberInv, HostNumbered
    <3>3. 1 \in 1..(BlockNumbers - 1) /\ 1 = hno + 1 /\ 0 = hpos + hsz /\ 0 \in Nat
      BY <3>2, ConstantFacts
    <3>4. QED
      BY <2>1, <3>1, <3>3, FitsFacts, NumbersNext
  <2>3. CASE HostAck /\ hpc = "data"
    <3> DEFINE pos == hpos + hsz
               no == (hno + 1) % BlockNumbers
    <3>1. /\ hno \in Nat /\ hpos \in Nat /\ hsz \in Nat /\ hno > 0
          /\ hpos < FileSize /\ hsz \in Sizes /\ BlockNumbers \in Nat
      BY <2>3, NumberTypes DEF NumberInv
    <3>2. Fits(hno, hpos)
      BY DEF NumberInv, HostNumbered
    <3>3. hno + 1 < BlockNumbers /\ Fits(hno + 1, hpos + hsz)
      BY <3>1, <3>2, FitsFacts
    <3>4. no = hno + 1 /\ no \in 1..(BlockNumbers - 1) /\ pos \in Nat
      BY <3>1, <3>3
    <3>5. SendNext(pos, no, hmode) /\ hmode \in {"crc", "sum"}
      BY <2>3 DEF HostAck, NumberInv, TypeInv, HostTypes
    <3> HIDE DEF no
    <3>6. Fits(no, pos)
      BY <3>3, <3>4
    <3>7. QED
      BY <2>1, <3>4, <3>5, <3>6, NumbersNext
  <2>4. CASE (HostAck /\ hpc # "data") \/ HostCancelled \/ HostIgnore
    <3>1. /\ UNCHANGED <<toDev, hpos, hsz, hno>>
          /\ hpc' = "idle" <=> hpc = "idle"
      BY <2>4 DEF HostAck, HostCancelled, HostIgnore, HostWaits, hostVars
    <3>2. QED
      BY <2>1, <3>1, NumbersKept DEF Packets
  <2>5. CASE HostNak \/ HostTimeout
    <3>1. HostWaits /\ SendAgain
      BY <2>5 DEF HostNak, HostTimeout
    <3>2. /\ UNCHANGED <<hpos, hsz, hno>> /\ hpc # "idle" /\ hpc' # "idle"
          /\ \/ Packets(toDev') \subseteq Packets(toDev)
             \/ /\ hpc = "data"
                /\ Packets(toDev') \subseteq Packets(toDev) \cup {Numbered(hno, hpos, hsz)}
      BY <1>2, <3>1, SendAgainTypes DEF HostWaits
    <3>3. QED
      BY <2>1, <3>2, NumbersKept
  <2>6. QED
    BY <1>6, <2>2, <2>3, <2>4, <2>5 DEF Host
<1>7. QED
  BY <1>1, <1>3, <1>4, <1>5, <1>6 DEF Next

(* As long as no block number is used twice, what is hashed is a prefix of *)
(* the file: for every host that sends packets in order and goes on after  *)
(* an ACK, with any delays, and for every damage of the line.              *)
THEOREM PrefixWithoutWrap == Spec /\ NumbersSuffice => []PrefixIntegrity
<1>1. Init => NumberInv
  <2> SUFFICES ASSUME Init PROVE LineNumbered /\ HostNumbered /\ PrefixIntegrity
    BY TypeInit DEF NumberInv
  <2>1. Packets(toDev) = {}
    BY ItemsOfNone DEF Init, Packets
  <2>2. hno = 0 /\ hpos = 0 /\ hsz = 0 /\ hpc = "idle" /\ packetno = 1
    BY DEF Init
  <2>3. received = <<>> /\ len = 0
    BY DEF Init, len
  <2>4. 0 = (IF 0 < DestSz THEN 0 ELSE DestSz)
    BY ConstantFacts
  <2>5. HostNumbered
    BY <2>2, <2>3, <2>4, FitsFacts DEF HostNumbered, Stored
  <2>6. PrefixIntegrity
    BY <2>3 DEF PrefixIntegrity
  <2>7. QED
    BY <2>1, <2>5, <2>6 DEF LineNumbered
<1>2. NumberInv => PrefixIntegrity
  BY DEF NumberInv
<1>3. NumbersSuffice => NumbersSuffice'
  BY DEF NumbersSuffice
<1>4. QED
  BY <1>1, <1>2, <1>3, NumberStep, PTL DEF Spec
=============================================================================
