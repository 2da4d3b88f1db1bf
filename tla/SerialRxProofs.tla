--------------------------- MODULE SerialRxProofs ---------------------------
(***************************************************************************)
(* Proofs about SerialRx, for every ring size, every set of requests and   *)
(* every number of bytes.  The argument for order and conservation is that *)
(* the whole content of the channel, Bytes, is changed by no step except   *)
(* that the handler appends the byte it took: the steps of the reading     *)
(* task only move the boundary between what is returned, what is in the    *)
(* caller's buffer and what is in the ring.                                *)
(***************************************************************************)
EXTENDS SerialRx, SequenceTheorems, TLAPS

N == UART_RX_BUF

-----------------------------------------------------------------------------
(* Ring arithmetic.                                                        *)

(* Reduction modulo the ring size is one conditional subtraction. *)
LEMMA SlotValue ==
  ASSUME NEW s \in Slots, NEW i \in 0..N
  PROVE  /\ Slot(s, i) = IF s + i < N THEN s + i ELSE s + i - N
         /\ Slot(s, i) \in Slots
<1>1. CASE s + i < N
  BY <1>1, RingAssumption DEF Slot, Slots, N
<1>2. CASE s + i >= N
  BY <1>2, RingAssumption DEF Slot, Slots, N
<1>3. QED
  BY <1>1, <1>2, RingAssumption DEF Slots, N

(* How the byte count follows the two indices of the ring. *)
LEMMA CountValue ==
  ASSUME NEW s \in Slots, NEW e \in Slots
  PROVE  /\ Count(s, e) \in 0..(N - 1)
         /\ Count(s, e) = 0 <=> s = e
         /\ Slot(s, Count(s, e)) = e
  BY RingAssumption, SlotValue DEF Count, Slots, N

LEMMA CountAdvance ==
  ASSUME NEW s \in Slots, NEW e \in Slots, NEW k \in 0..Count(s, e)
  PROVE  Count(Slot(s, k), e) = Count(s, e) - k
<1>1. k \in 0..N /\ s \in Int /\ e \in Int /\ N \in Nat
  BY CountValue, RingAssumption DEF Slots, N
<1>2. Slot(s, k) = IF s + k < N THEN s + k ELSE s + k - N
  BY <1>1, SlotValue
<1>3. QED
  BY <1>1, <1>2, RingAssumption DEF Count, Slots, N

LEMMA CountGrow ==
  ASSUME NEW s \in Slots, NEW e \in Slots, Slot(e, 1) # s
  PROVE  Count(s, Slot(e, 1)) = Count(s, e) + 1
<1>1. Slot(e, 1) = IF e + 1 < N THEN e + 1 ELSE e + 1 - N
  BY SlotValue, RingAssumption DEF N
<1>2. QED
  BY <1>1, RingAssumption DEF Count, Slots, N

-----------------------------------------------------------------------------
(* The sequences the channel is made of.                                   *)

LEMMA SegmentSeq ==
  ASSUME NEW r \in [Slots -> Nat], NEW s \in Slots, NEW n \in 0..N
  PROVE  /\ Segment(r, s, n) \in Seq(Nat)
         /\ Len(Segment(r, s, n)) = n
         /\ \A i \in 1..n : Segment(r, s, n)[i] = r[Slot(s, i - 1)]
<1>1. n \in Nat /\ \A i \in 1..n : i - 1 \in 0..N
  BY RingAssumption DEF N
<1>2. \A i \in 1..n : r[Slot(s, i - 1)] \in Nat
  BY <1>1, SlotValue
<1>3. QED
  BY <1>1, <1>2 DEF Segment

(* A segment is its first k bytes followed by the rest. *)
LEMMA SegmentSplit ==
  ASSUME NEW r \in [Slots -> Nat], NEW s \in Slots,
         NEW n \in 0..(N - 1), NEW k \in 0..n
  PROVE  Segment(r, s, n) = Segment(r, s, k) \o Segment(r, Slot(s, k), n - k)
<1> DEFINE a == Segment(r, s, n)
           b == Segment(r, s, k)
           c == Segment(r, Slot(s, k), n - k)
<1>1. n \in 0..N /\ k \in 0..N /\ n - k \in 0..N
  BY RingAssumption DEF N
<1>2. Slot(s, k) \in Slots
  BY <1>1, SlotValue
<1>3. a \in Seq(Nat) /\ Len(a) = n /\ \A i \in 1..n : a[i] = r[Slot(s, i - 1)]
  BY <1>1, SegmentSeq
<1>4. b \in Seq(Nat) /\ Len(b) = k /\ \A i \in 1..k : b[i] = r[Slot(s, i - 1)]
  BY <1>1, SegmentSeq
<1>5. /\ c \in Seq(Nat) /\ Len(c) = n - k
      /\ \A i \in 1..(n - k) : c[i] = r[Slot(Slot(s, k), i - 1)]
  BY <1>1, <1>2, SegmentSeq
<1> HIDE DEF a, b, c
<1>6. /\ b \o c \in Seq(Nat) /\ Len(b \o c) = n
      /\ \A i \in 1..n : (b \o c)[i] = IF i <= k THEN b[i] ELSE c[i - k]
  <2>1. Len(b) = k /\ Len(b) + Len(c) = n
    BY <1>1, <1>4, <1>5
  <2>2. /\ b \o c \in Seq(Nat) /\ Len(b \o c) = Len(b) + Len(c)
        /\ \A i \in 1..(Len(b) + Len(c)) :
             (b \o c)[i] = IF i <= Len(b) THEN b[i] ELSE c[i - Len(b)]
    BY <1>4, <1>5, ConcatProperties
  <2>3. QED
    BY <2>1, <2>2
<1>7. ASSUME NEW i \in 1..n, i > k
      PROVE  Slot(Slot(s, k), i - k - 1) = Slot(s, i - 1)
  <2>1. i - k - 1 \in 0..N /\ i - 1 \in 0..N /\ s \in 0..(N - 1) /\ N \in Nat
    BY <1>1, <1>7, RingAssumption DEF Slots, N
  <2>2. Slot(s, k) = IF s + k < N THEN s + k ELSE s + k - N
    BY <1>1, SlotValue
  <2>3. Slot(s, i - 1) = IF s + i - 1 < N THEN s + i - 1 ELSE s + i - 1 - N
    BY <2>1, SlotValue
  <2>4. Slot(Slot(s, k), i - k - 1) = IF Slot(s, k) + i - k - 1 < N
                                      THEN Slot(s, k) + i - k - 1
                                      ELSE Slot(s, k) + i - k - 1 - N
    BY <2>1, <1>2, SlotValue DEF Slots
  <2>5. QED
    BY <2>1, <2>2, <2>3, <2>4, <1>1, <1>7
<1>8. ASSUME NEW i \in 1..n
      PROVE  a[i] = (b \o c)[i]
  <2> USE RingAssumption DEF N
  <2>4. a[i] = r[Slot(s, i - 1)]
    BY <1>3
  <2>1. CASE i <= k
    <3>1. i \in 1..k
      BY <2>1, <1>1
    <3>2. b[i] = r[Slot(s, i - 1)]
      BY <3>1, <1>4
    <3>3. (b \o c)[i] = b[i]
      BY <2>1, <1>6
    <3>4. QED
      BY <3>2, <3>3, <2>4
  <2>2. CASE i > k
    <3>1. i - k \in 1..(n - k)
      BY <2>2, <1>1
    <3>2. c[i - k] = r[Slot(Slot(s, k), i - k - 1)]
      BY <3>1, <1>5
    <3>3. (b \o c)[i] = c[i - k]
      BY <2>2, <1>1, <1>6
    <3>4. Slot(Slot(s, k), i - k - 1) = Slot(s, i - 1)
      BY <2>2, <1>7
    <3>5. QED
      BY <3>2, <3>3, <3>4, <2>4
  <2>3. i <= k \/ i > k
    BY <1>1
  <2>5. QED
    BY <2>1, <2>2, <2>3
<1>9. a = b \o c
  BY <1>3, <1>6, <1>8, SeqEqual
<1>10. QED
  BY <1>9 DEF a, b, c

(* Storing in the slot after a segment that leaves a slot free appends. *)
LEMMA SegmentAppend ==
  ASSUME NEW r \in [Slots -> Nat], NEW s \in Slots,
         NEW n \in 0..(N - 2), NEW v \in Nat
  PROVE  Segment([r EXCEPT ![Slot(s, n)] = v], s, n + 1)
           = Append(Segment(r, s, n), v)
<1> DEFINE q == [r EXCEPT ![Slot(s, n)] = v]
           a == Segment(q, s, n + 1)
           b == Segment(r, s, n)
<1> HIDE DEF a, b
<1>1. n \in 0..N /\ n + 1 \in 0..N /\ N \in Nat
  BY RingAssumption DEF N
<1>2. q \in [Slots -> Nat] /\ Slot(s, n) \in Slots
  BY <1>1, SlotValue
<1>3. /\ a \in Seq(Nat) /\ Len(a) = n + 1
      /\ \A i \in 1..(n + 1) : a[i] = q[Slot(s, i - 1)]
  BY <1>1, <1>2, SegmentSeq DEF a
<1>4. b \in Seq(Nat) /\ Len(b) = n /\ \A i \in 1..n : b[i] = r[Slot(s, i - 1)]
  BY <1>1, SegmentSeq DEF b
<1>5. ASSUME NEW i \in 1..n
      PROVE  a[i] = b[i]
  <2>1. i - 1 \in 0..N /\ s \in 0..(N - 1)
    BY <1>1 DEF Slots, N
  <2>2. Slot(s, i - 1) \in Slots /\ Slot(s, i - 1) # Slot(s, n)
    BY <2>1, <1>1, SlotValue
  <2>3. q[Slot(s, i - 1)] = r[Slot(s, i - 1)]
    BY <2>2, <1>2
  <2>4. i \in 1..(n + 1)
    BY <1>1
  <2> HIDE DEF q
  <2>5. a[i] = q[Slot(s, i - 1)]
    BY <2>4, <1>3, Zenon
  <2>6. b[i] = r[Slot(s, i - 1)]
    BY <1>4, Zenon
  <2>7. QED
    BY <2>3, <2>5, <2>6
<1>7. a[n + 1] = v
  <2>1. q[Slot(s, n)] = v
    BY <1>2
  <2>2. n + 1 \in 1..(n + 1) /\ n + 1 - 1 = n
    BY <1>1
  <2>3. QED
    BY <2>1, <2>2, <1>3
<1>6. /\ Append(b, v) \in Seq(Nat) /\ Len(Append(b, v)) = n + 1
      /\ \A i \in 1..n : Append(b, v)[i] = b[i]
      /\ Append(b, v)[n + 1] = v
  BY <1>4, AppendProperties
<1>8. \A i \in 1..(n + 1) : a[i] = Append(b, v)[i]
  BY <1>1, <1>5, <1>6, <1>7
<1>9. a = Append(b, v)
  BY <1>3, <1>6, <1>8, SeqEqual
<1>10. QED
  BY <1>9 DEF a, b

LEMMA PrefixSeq ==
  ASSUME NEW b \in [BufIndex -> Nat], NEW n \in 0..MaxRequest
  PROVE  /\ Prefix(b, n) \in Seq(Nat)
         /\ Len(Prefix(b, n)) = n
         /\ \A i \in 1..n : Prefix(b, n)[i] = b[i - 1]
<1>1. n \in Nat /\ \A i \in 1..n : i - 1 \in BufIndex
  BY RequestAssumption DEF BufIndex
<1>2. \A i \in 1..n : b[i - 1] \in Nat
  BY <1>1
<1>3. QED
  BY <1>1, <1>2 DEF Prefix

LEMMA PrefixAppend ==
  ASSUME NEW b \in [BufIndex -> Nat], NEW n \in 0..(MaxRequest - 1), NEW v \in Nat
  PROVE  Prefix([b EXCEPT ![n] = v], n + 1) = Append(Prefix(b, n), v)
<1> DEFINE c == [b EXCEPT ![n] = v]
           p == Prefix(c, n + 1)
           q == Prefix(b, n)
<1> HIDE DEF p, q
<1>1. n \in 0..MaxRequest /\ n + 1 \in 0..MaxRequest /\ n \in BufIndex
  BY RequestAssumption DEF BufIndex
<1>2. c \in [BufIndex -> Nat]
  OBVIOUS
<1>3. p \in Seq(Nat) /\ Len(p) = n + 1 /\ \A i \in 1..(n + 1) : p[i] = c[i - 1]
  BY <1>1, <1>2, PrefixSeq DEF p
<1>4. q \in Seq(Nat) /\ Len(q) = n /\ \A i \in 1..n : q[i] = b[i - 1]
  BY <1>1, PrefixSeq DEF q
<1>5. ASSUME NEW i \in 1..n
      PROVE  p[i] = q[i]
  <2>1. i - 1 \in BufIndex /\ i - 1 # n /\ i \in 1..(n + 1)
    BY <1>1, RequestAssumption DEF BufIndex
  <2>2. c[i - 1] = b[i - 1]
    BY <2>1
  <2>3. QED
    BY <2>1, <2>2, <1>3, <1>4
<1>6. p[n + 1] = v
  <2>1. n + 1 \in 1..(n + 1) /\ n + 1 - 1 = n /\ c[n] = v
    BY <1>1
  <2>2. p[n + 1] = c[n + 1 - 1]
    BY <2>1, <1>3
  <2>3. QED
    BY <2>1, <2>2
<1>7. /\ Append(q, v) \in Seq(Nat) /\ Len(Append(q, v)) = n + 1
      /\ \A i \in 1..n : Append(q, v)[i] = q[i]
      /\ Append(q, v)[n + 1] = v
  BY <1>4, AppendProperties
<1>8. \A i \in 1..(n + 1) : p[i] = Append(q, v)[i]
  BY <1>1, <1>5, <1>6, <1>7
<1>9. p = Append(q, v)
  BY <1>3, <1>7, <1>8, SeqEqual
<1>10. QED
  BY <1>9 DEF p, q

-----------------------------------------------------------------------------
(* The content of the channel as an operator of the state's parts: bytes   *)
(* returned o, the first h bytes of the buffer b, the ring r from s to e.  *)

Content(o, b, h, r, s, e) == o \o (Prefix(b, h) \o Segment(r, s, Count(s, e)))

LEMMA Regroup ==
  ASSUME NEW a \in Seq(Nat), NEW b \in Seq(Nat), NEW c \in Seq(Nat)
  PROVE  (a \o b) \o c = a \o (b \o c)
BY ConcatAssociative

LEMMA AppendLast ==
  ASSUME NEW a \in Seq(Nat), NEW b \in Seq(Nat), NEW v \in Nat
  PROVE  a \o Append(b, v) = Append(a \o b, v)
<1>1. Append(b, v) = b \o <<v>>
  BY AppendIsConcat
<1>2. a \o b \in Seq(Nat) /\ <<v>> \in Seq(Nat)
  BY ConcatProperties
<1>3. Append(a \o b, v) = (a \o b) \o <<v>>
  BY <1>2, AppendIsConcat
<1>4. QED
  BY <1>1, <1>2, <1>3, ConcatAssociative

LEMMA EmptyParts ==
  ASSUME NEW b \in [BufIndex -> Nat], NEW r \in [Slots -> Nat], NEW s \in Slots
  PROVE  Prefix(b, 0) = <<>> /\ Segment(r, s, 0) = <<>> /\ Count(s, s) = 0
<1>1. Prefix(b, 0) \in Seq(Nat) /\ Len(Prefix(b, 0)) = 0
  BY PrefixSeq, RequestAssumption
<1>2. Segment(r, s, 0) \in Seq(Nat) /\ Len(Segment(r, s, 0)) = 0
  BY SegmentSeq, RingAssumption DEF N
<1>3. QED
  BY <1>1, <1>2, EmptySeq, CountValue

(* The handler stores a byte in the caller's buffer. *)
LEMMA ContentToBuffer ==
  ASSUME NEW o \in Seq(Nat), NEW b \in [BufIndex -> Nat],
         NEW h \in 0..(MaxRequest - 1),
         NEW r \in [Slots -> Nat], NEW s \in Slots, NEW v \in Nat
  PROVE  Content(o, [b EXCEPT ![h] = v], h + 1, r, s, s)
         = Append(Content(o, b, h, r, s, s), v)
<1> DEFINE p == Prefix(b, h)
           q == Prefix([b EXCEPT ![h] = v], h + 1)
<1>1. p \in Seq(Nat)
  BY PrefixSeq, RequestAssumption
<1>2. q = Append(p, v)
  BY PrefixAppend
<1>3. Segment(r, s, Count(s, s)) = <<>>
  BY EmptyParts
<1> HIDE DEF p, q
<1>4. Append(p, v) \in Seq(Nat)
  BY <1>1
<1>5. p \o <<>> = p /\ q \o <<>> = q
  BY <1>1, <1>2, <1>4, ConcatEmptySeq
<1>6. o \o Append(p, v) = Append(o \o p, v)
  BY <1>1, AppendLast
<1>7. QED
  BY <1>2, <1>3, <1>5, <1>6 DEF Content, p, q

(* The handler stores a byte in the ring. *)
LEMMA ContentToRing ==
  ASSUME NEW o \in Seq(Nat), NEW b \in [BufIndex -> Nat], NEW h \in 0..MaxRequest,
         NEW r \in [Slots -> Nat], NEW s \in Slots, NEW e \in Slots,
         Slot(e, 1) # s, NEW v \in Nat
  PROVE  Content(o, b, h, [r EXCEPT ![e] = v], s, Slot(e, 1))
         = Append(Content(o, b, h, r, s, e), v)
<1> DEFINE n == Count(s, e)
           p == Prefix(b, h)
           g == Segment(r, s, n)
           f == Segment([r EXCEPT ![e] = v], s, n + 1)
<1>1. n \in 0..(N - 1) /\ Slot(s, n) = e
  BY CountValue
<1>2. Count(s, Slot(e, 1)) = n + 1 /\ Slot(e, 1) \in Slots
  BY CountGrow, SlotValue, RingAssumption DEF N
<1>3. n \in 0..(N - 2)
  <2>1. Count(s, Slot(e, 1)) \in 0..(N - 1)
    BY <1>2, CountValue
  <2>2. QED
    BY <2>1, <1>1, <1>2, RingAssumption DEF N
<1>4. f = Append(g, v)
  BY <1>1, <1>3, SegmentAppend
<1>5. p \in Seq(Nat) /\ g \in Seq(Nat)
  <2>1. n \in 0..N
    BY <1>1, RingAssumption DEF N
  <2>2. QED
    BY <2>1, PrefixSeq, SegmentSeq
<1> HIDE DEF n, p, g, f
<1>6. p \o g \in Seq(Nat)
  BY <1>5, ConcatProperties
<1>7. p \o Append(g, v) = Append(p \o g, v)
  BY <1>5, AppendLast
<1>8. o \o Append(p \o g, v) = Append(o \o (p \o g), v)
  BY <1>6, AppendLast
<1>9. QED
  BY <1>2, <1>4, <1>7, <1>8 DEF Content, n, p, g, f

(* A reader takes the k oldest bytes of the ring. *)
LEMMA ContentTake ==
  ASSUME NEW o \in Seq(Nat), NEW b \in [BufIndex -> Nat],
         NEW r \in [Slots -> Nat], NEW s \in Slots, NEW e \in Slots,
         NEW k \in 0..Count(s, e)
  PROVE  Content(o \o Segment(r, s, k), b, 0, r, Slot(s, k), e)
         = Content(o, b, 0, r, s, e)
<1> DEFINE n == Count(s, e)
           t == Slot(s, k)
           g == Segment(r, s, n)
           f == Segment(r, s, k)
           d == Segment(r, t, n - k)
<1>1. n \in 0..(N - 1) /\ k \in 0..N /\ n - k \in 0..N /\ n \in 0..N
  BY CountValue, RingAssumption DEF N
<1>2. t \in Slots /\ Count(t, e) = n - k
  BY <1>1, SlotValue, CountAdvance
<1>3. g = f \o d
  BY <1>1, SegmentSplit
<1>4. g \in Seq(Nat) /\ f \in Seq(Nat) /\ d \in Seq(Nat)
  BY <1>1, <1>2, SegmentSeq
<1>5. Prefix(b, 0) = <<>>
  BY EmptyParts
<1> HIDE DEF n, t, g, f, d
<1>6. <<>> \o g = g /\ <<>> \o d = d
  BY <1>4, ConcatEmptySeq
<1>7. (o \o f) \o d = o \o (f \o d)
  BY <1>4, Regroup
<1>8. QED
  BY <1>2, <1>3, <1>5, <1>6, <1>7 DEF Content, n, t, g, f, d

(* uart_read_buf moves the whole ring into its buffer. *)
LEMMA ContentArm ==
  ASSUME NEW o \in Seq(Nat), NEW b \in [BufIndex -> Nat], NEW c \in [BufIndex -> Nat],
         NEW r \in [Slots -> Nat], NEW s \in Slots, NEW e \in Slots,
         Count(s, e) \in 0..MaxRequest,
         \A i \in 0..(Count(s, e) - 1) : c[i] = r[Slot(s, i)]
  PROVE  Content(o, c, Count(s, e), r, e, e) = Content(o, b, 0, r, s, e)
<1> DEFINE n == Count(s, e)
           p == Prefix(c, n)
           g == Segment(r, s, n)
<1>1. n \in 0..(N - 1) /\ n \in 0..N /\ n \in Nat
  BY CountValue, RingAssumption DEF N
<1>2. p \in Seq(Nat) /\ Len(p) = n /\ \A i \in 1..n : p[i] = c[i - 1]
  BY PrefixSeq
<1>3. g \in Seq(Nat) /\ Len(g) = n /\ \A i \in 1..n : g[i] = r[Slot(s, i - 1)]
  BY <1>1, SegmentSeq
<1>4. \A i \in 1..n : c[i - 1] = r[Slot(s, i - 1)]
  BY <1>1
<1>5. Prefix(b, 0) = <<>> /\ Segment(r, e, Count(e, e)) = <<>>
  BY EmptyParts
<1> HIDE DEF n, p, g
<1>6. p = g
  BY <1>2, <1>3, <1>4, SeqEqual
<1>7. p \o <<>> = p /\ <<>> \o g = g
  BY <1>2, <1>3, ConcatEmptySeq
<1>8. QED
  BY <1>5, <1>6, <1>7 DEF Content, n, p, g

(* uart_read_buf returns what its buffer holds. *)
LEMMA ContentReturn ==
  ASSUME NEW o \in Seq(Nat), NEW b \in [BufIndex -> Nat], NEW h \in 0..MaxRequest,
         NEW r \in [Slots -> Nat], NEW s \in Slots, NEW e \in Slots
  PROVE  Content(o \o Prefix(b, h), b, 0, r, s, e) = Content(o, b, h, r, s, e)
<1> DEFINE p == Prefix(b, h)
           g == Segment(r, s, Count(s, e))
<1>1. Count(s, e) \in 0..N
  BY CountValue, RingAssumption DEF N
<1>2. p \in Seq(Nat) /\ g \in Seq(Nat)
  BY <1>1, PrefixSeq, SegmentSeq
<1>3. Prefix(b, 0) = <<>>
  BY EmptyParts
<1> HIDE DEF p, g
<1>4. <<>> \o g = g /\ (o \o p) \o g = o \o (p \o g)
  BY <1>2, ConcatEmptySeq, Regroup
<1>5. QED
  BY <1>3, <1>4 DEF Content, p, g

-----------------------------------------------------------------------------
(* Type correctness.  TypeOK is inductive together with BufferState: the   *)
(* handler's store stays inside the caller's buffer because an armed       *)
(* buffer has room.                                                        *)

TypeInv == TypeOK /\ BufferState

LEMMA TypeInit == Init => TypeInv
<1> SUFFICES ASSUME Init PROVE TypeInv
  OBVIOUS
<1>1. 0 \in Slots /\ 0 \in 0..MaxRequest /\ <<>> \in Seq(Nat)
  BY RingAssumption, RequestAssumption DEF Slots
<1>2. rx \in [Slots -> Nat] /\ buf \in [BufIndex -> Nat]
  BY DEF Init
<1>3. irqBuf \in [armed : BOOLEAN, nbytes : 0..MaxRequest, max : 0..MaxRequest]
  BY <1>1 DEF Init, NoBuf
<1>4. TypeOK
  BY <1>1, <1>2, <1>3 DEF Init, TypeOK
<1>5. BufferState
  BY DEF Init, BufferState, NoBuf, Inside, InReadBuf
<1>6. QED
  BY <1>4, <1>5 DEF TypeInv

LEMMA RingFacts ==
  ASSUME TypeOK
  PROVE  /\ RxCount \in 0..(N - 1)
         /\ RxCount = 0 <=> RxEmpty
         /\ Slot(rxStart, RxCount) = rxEnd
         /\ \A i \in 0..RxCount : Slot(rxStart, i) \in Slots
         /\ Slot(rxStart, 1) \in Slots /\ Slot(rxEnd, 1) \in Slots
<1>1. rxStart \in Slots /\ rxEnd \in Slots
  BY DEF TypeOK
<1>2. RxCount \in 0..(N - 1) /\ (RxCount = 0 <=> RxEmpty)
      /\ Slot(rxStart, RxCount) = rxEnd
  BY <1>1, CountValue DEF RxCount, RxEmpty
<1>3. 1 \in 0..N /\ \A i \in 0..RxCount : i \in 0..N
  BY <1>2, RingAssumption DEF N
<1>4. QED
  BY <1>1, <1>2, <1>3, SlotValue

LEMMA DrainedFacts ==
  ASSUME TypeOK, NEW max \in Requests
  PROVE  /\ max \in 1..MaxRequest /\ max \in Nat
         /\ Drained(max) \in 0..RxCount
         /\ Drained(max) <= max
         /\ Drained(max) < max => Drained(max) = RxCount
<1>1. max \in 1..MaxRequest /\ max \in Nat
  BY RequestAssumption
<1>2. RxCount \in Nat
  BY RingFacts, RingAssumption DEF N
<1>3. QED
  BY <1>1, <1>2 DEF Drained

LEMMA TypeStep == TypeInv /\ [Next]_vars => TypeInv'
<1> SUFFICES ASSUME TypeInv, [Next]_vars PROVE TypeInv'
  OBVIOUS
<1> USE DEF TypeInv
<1>1. CASE UNCHANGED vars
  BY <1>1 DEF TypeOK, BufferState, RxEmpty, Inside, vars, hwVars, ringVars, bufVars,
              taskVars, histVars
<1>2. CASE Arrive \/ IrqEnter \/ IrqExit
  <2>1. /\ arrived' \in Nat /\ popped' \in Nat /\ popped' <= arrived'
        /\ irq' \in BOOLEAN
        /\ UNCHANGED <<ringVars, event, bufVars, taskVars, histVars>>
    <3>1. CASE Arrive
      BY <3>1 DEF Arrive, TypeOK
    <3>2. CASE IrqEnter
      BY <3>2 DEF IrqEnter, TypeOK
    <3>3. CASE IrqExit
      BY <3>3 DEF IrqExit, TypeOK
    <3>4. QED
      BY <1>2, <3>1, <3>2, <3>3
  <2>2. QED
    BY <2>1 DEF TypeOK, BufferState, RxEmpty, Inside,
                ringVars, bufVars, taskVars, histVars
<1>3. CASE IrqToCaller
  <2>1. Inside(InReadBuf) /\ irqBuf.nbytes < irqBuf.max /\ RxEmpty
    BY <1>3 DEF IrqToCaller, BufFull, EventWrite, BufferState, NoBuf
  <2>2. irqBuf.nbytes \in BufIndex /\ irqBuf.nbytes + 1 \in 0..MaxRequest
    BY <2>1, RequestAssumption DEF TypeOK, BufIndex
  <2>3. /\ buf' \in [BufIndex -> Nat] /\ popped' \in Nat
        /\ event' = TRUE \/ event' = event
    BY <1>3, <2>2 DEF IrqToCaller, EventWrite, GetChar, TypeOK
  <2>4. /\ irqBuf' \in [armed : BOOLEAN, nbytes : 0..MaxRequest, max : 0..MaxRequest]
        /\ irqBuf'.nbytes = irqBuf.nbytes + 1 /\ irqBuf'.max = irqBuf.max
        /\ irqBuf'.armed = ~(irqBuf.nbytes + 1 >= irqBuf.max)
    BY <1>3, <2>2 DEF IrqToCaller, BufFull, TypeOK
  <2>a. event' \in BOOLEAN
    BY <2>3 DEF TypeOK
  <2>5. TypeOK'
    BY <1>3, <2>3, <2>4, <2>a DEF IrqToCaller, GetChar, TypeOK, ringVars, taskVars, histVars
  <2>6. BufferState'
    <3>1. Inside(InReadBuf)' /\ RxEmpty'
      BY <1>3, <2>1 DEF IrqToCaller, Inside, RxEmpty, ringVars, taskVars
    <3>2. irqBuf.nbytes \in Nat /\ irqBuf.max \in Nat
      BY RequestAssumption DEF TypeOK
    <3>3. irqBuf'.max > 0 /\ irqBuf'.nbytes <= irqBuf'.max
      BY <3>2, <2>1, <2>4
    <3>4. irqBuf'.armed <=> irqBuf'.nbytes < irqBuf'.max
      BY <3>2, <2>4
    <3>5. QED
      BY <3>1, <3>3, <3>4 DEF BufferState
  <2>7. QED
    BY <2>5, <2>6
<1>4. CASE IrqToRing
  <2>1. Slot(rxEnd, 1) \in Slots
    BY RingFacts
  <2>6. popped + 1 \in Nat /\ popped' = popped + 1 /\ popped' <= arrived
    BY <1>4 DEF IrqToRing, RxFull, EventWrite, GetChar, TypeOK
  <2>2. /\ rx' \in [Slots -> Nat] /\ rxEnd' \in Slots /\ dropped' \in Nat
        /\ event' \in BOOLEAN /\ popped' \in Nat /\ popped' <= arrived
    <3>1. CASE Slot(rxEnd, 1) # rxStart
      BY <3>1, <1>4, <2>1, <2>6 DEF IrqToRing, RxFull, EventWrite, TypeOK
    <3>2. CASE Slot(rxEnd, 1) = rxStart
      BY <3>2, <1>4, <2>1, <2>6 DEF IrqToRing, RxFull, EventWrite, TypeOK
    <3>3. QED
      BY <3>1, <3>2
  <2>3. TypeOK'
    BY <1>4, <2>2 DEF IrqToRing, RxFull, EventWrite, GetChar, TypeOK, bufVars, taskVars
  <2>4. BufferState'
    BY <1>4 DEF IrqToRing, RxFull, EventWrite, BufferState, Inside, bufVars, taskVars
  <2>5. QED
    BY <2>3, <2>4
<1>5. ASSUME NEW t \in ReadTimeouts, ReadCall(t)
      PROVE  TypeInv'
  <2>1. t \in {"zero", "finite", "forever"}
    BY TimeoutAssumption
  <2>2. QED
    BY <2>1, <1>5 DEF ReadCall, TaskStep, TypeOK, BufferState, RxEmpty, Inside, InRead,
                      InReadBuf,
                      hwVars, ringVars, bufVars, histVars
<1>6. CASE ReadTake
  <2>1. rx[rxStart] \in Nat /\ Slot(rxStart, 1) \in Slots
    BY RingFacts DEF TypeOK
  <2>2. ~irqBuf.armed
    BY <1>6 DEF ReadTake, TaskStep, BufferState, Inside, InReadBuf, NoBuf
  <2>3. TypeOK'
    BY <1>6, <2>1 DEF ReadTake, TaskStep, TypeOK, hwVars, bufVars
  <2>4. BufferState'
    BY <1>6, <2>2 DEF ReadTake, TaskStep, BufferState, Inside, InReadBuf, hwVars, bufVars
  <2>5. QED
    BY <2>3, <2>4
<1>7. CASE ReadWait \/ ReadFail
  BY <1>7 DEF ReadWait, TaskStep, ReadFail, TypeOK, BufferState, RxEmpty, Inside, InRead,
              InReadBuf,
              hwVars, ringVars, bufVars, histVars
<1>8. CASE ReadPoll \/ ReadWake \/ ReadExpire
  BY <1>8 DEF ReadPoll, ReadWake, ReadExpire, EventPoll, TaskStep, EventWake, EventTimeout,
              TypeOK, BufferState, RxEmpty, Inside, InRead, InReadBuf,
              hwVars, ringVars, bufVars, histVars
<1>9. CASE BufPoll \/ BufWake \/ BufExpire
  BY <1>9 DEF BufPoll, BufWake, BufExpire, EventPoll, TaskStep, EventWake, EventTimeout,
              TypeOK, BufferState, RxEmpty, Inside, InRead, InReadBuf,
              hwVars, ringVars, bufVars, histVars
<1>10. ASSUME NEW t \in BufTimeouts, NEW max \in Requests, BufFromRing(t, max)
       PROVE  TypeInv'
  <2>1. Drained(max) \in 0..RxCount /\ RxCount \in 0..N
    BY DrainedFacts, RingFacts, RingAssumption DEF N
  <2>2. Drained(max) \in 0..N /\ Slot(rxStart, Drained(max)) \in Slots
    BY <2>1, RingFacts, RingAssumption DEF N
  <2>3. Oldest(Drained(max)) \in Seq(Nat)
    BY <2>2, SegmentSeq DEF Oldest, TypeOK
  <2>4. out' \in Seq(Nat)
    BY <1>10, <2>3, ConcatProperties DEF BufFromRing, TaskStep, TypeOK
  <2>5. TypeOK'
    BY <1>10, <2>2, <2>4 DEF BufFromRing, TaskStep, TypeOK, hwVars, bufVars, taskVars
  <2>6. BufferState'
    BY <1>10 DEF BufFromRing, TaskStep, BufferState, Inside, InReadBuf, NoBuf, bufVars,
                 taskVars
  <2>7. QED
    BY <2>5, <2>6
<1>11. ASSUME NEW t \in BufTimeouts, NEW max \in Requests, BufArm(t, max)
       PROVE  TypeInv'
  <2> DEFINE n == Drained(max)
  <2>1. /\ max \in 1..MaxRequest /\ n = RxCount /\ n < max /\ n \in 0..MaxRequest
        /\ n \in Nat /\ max \in 0..MaxRequest /\ n <= max /\ max > 0
    BY <1>11, DrainedFacts, RingFacts, RequestAssumption, RingAssumption DEF BufArm,
                                                                             TaskStep, EventClear, N
  <2>2. Slot(rxStart, n) = rxEnd
    BY <2>1, RingFacts
  <2>3. \A i \in BufIndex : i < n => rx[Slot(rxStart, i)] \in Nat
    <3>1. ASSUME NEW i \in BufIndex, i < n
          PROVE  rx[Slot(rxStart, i)] \in Nat
      <4>1. i \in 0..RxCount
        BY <3>1, <2>1, RequestAssumption DEF BufIndex
      <4>2. Slot(rxStart, i) \in Slots
        BY <4>1, RingFacts
      <4>3. QED
        BY <4>2 DEF TypeOK
    <3>2. QED
      BY <3>1
  <2>4. t \in {"zero", "finite", "forever"}
    BY TimeoutAssumption
  <2> HIDE DEF n
  <2>5. /\ buf' = [i \in BufIndex |-> IF i < n THEN rx[Slot(rxStart, i)] ELSE buf[i]]
        /\ rxStart' = Slot(rxStart, n)
        /\ irqBuf' = [armed |-> TRUE, nbytes |-> n, max |-> max]
    BY <1>11 DEF BufArm, TaskStep, EventClear, n
  <2>6. buf' \in [BufIndex -> Nat]
    BY <2>5, <2>3 DEF TypeOK
  <2>10. irqBuf' \in [armed : BOOLEAN, nbytes : 0..MaxRequest, max : 0..MaxRequest]
    BY <2>1, <2>5
  <2>11. rxStart' \in Slots
    BY <2>2, <2>5 DEF TypeOK
  <2>7. TypeOK'
    BY <1>11, <2>4, <2>6, <2>10, <2>11 DEF BufArm, TaskStep, EventClear, TypeOK,
                                           InReadBuf, hwVars, histVars
  <2>8. BufferState'
    BY <1>11, <2>1, <2>2, <2>5 DEF BufArm, TaskStep, EventClear, BufferState, RxEmpty,
                                   Inside, InReadBuf, NoBuf
  <2>9. QED
    BY <2>7, <2>8
<1>12. CASE BufFinish
  <2>1. Prefix(buf, irqBuf.nbytes) \in Seq(Nat)
    BY PrefixSeq DEF TypeOK
  <2>2. out' \in Seq(Nat)
    BY <1>12, <2>1, ConcatProperties DEF BufFinish, TaskStep, TakenBack, TypeOK
  <2>3. NoBuf \in [armed : BOOLEAN, nbytes : 0..MaxRequest, max : 0..MaxRequest]
    BY RequestAssumption DEF NoBuf
  <2>4. TypeOK'
    BY <1>12, <2>2, <2>3 DEF BufFinish, TaskStep, TakenBack, TypeOK, hwVars, ringVars
  <2>5. BufferState'
    BY <1>12 DEF BufFinish, TaskStep, TakenBack, BufferState, Inside, InReadBuf, NoBuf
  <2>6. QED
    BY <2>4, <2>5
<1>13. QED
  BY <1>1, <1>2, <1>3, <1>4, <1>5, <1>6, <1>7, <1>8, <1>9, <1>10, <1>11, <1>12
     DEF Next, Handler, Call, Running

(* The handler and the reading task keep every index inside the ring and   *)
(* inside the caller's buffer, whatever the sizes.                         *)
THEOREM TypeCorrect == Spec => []TypeOK
<1>1. TypeInv /\ [Next]_vars => TypeInv'
  BY TypeStep
<1>2. Init => TypeInv
  BY TypeInit
<1>3. TypeInv => TypeOK
  BY DEF TypeInv
<1>4. QED
  BY <1>1, <1>2, <1>3, PTL DEF Spec

(* An armed buffer belongs to a uart_read_buf that waits, has room for one *)
(* more byte, and no byte is in the ring.                                  *)
THEOREM CallerBufferSafe == Spec => []CallerBufferGuarded
<1>1. TypeInv /\ [Next]_vars => TypeInv'
  BY TypeStep
<1>2. Init => TypeInv
  BY TypeInit
<1>3. TypeInv => CallerBufferGuarded
  BY DEF TypeInv, BufferState, CallerBufferGuarded, NoBuf
<1>4. QED
  BY <1>1, <1>2, <1>3, PTL DEF Spec

-----------------------------------------------------------------------------
(* The event.                                                              *)

LEMMA EventStep == TypeInv /\ EventState /\ [Next]_vars => EventState'
<1> SUFFICES ASSUME TypeInv, EventState, [Next]_vars PROVE EventState'
  OBVIOUS
<1>1. CASE UNCHANGED vars
  BY <1>1 DEF EventState, RxEmpty, Inside, vars, hwVars, ringVars, bufVars,
              taskVars, histVars
<1>2. CASE Arrive \/ IrqEnter \/ IrqExit
  BY <1>2 DEF Arrive, IrqEnter, IrqExit, EventState, RxEmpty, Inside,
              ringVars, bufVars, taskVars, histVars
<1>3. CASE IrqToCaller
  <2>1. Inside(InReadBuf) /\ irqBuf \in [armed : BOOLEAN, nbytes : 0..MaxRequest, max : 0..MaxRequest]
    BY <1>3 DEF IrqToCaller, BufFull, EventWrite, TypeInv, TypeOK, BufferState, NoBuf
  <2>2. pc \notin {"rPoll", "rBlocked"} /\ UNCHANGED <<pc, timedOut>>
    BY <1>3, <2>1 DEF IrqToCaller, BufFull, EventWrite, Inside, InReadBuf, taskVars
  <2>3. pc \in {"bPoll", "bBlocked"} => ~event
    BY <1>3 DEF IrqToCaller, BufFull, EventWrite, EventState, Inside
  <2>4. pc = "bFinish" => timedOut
    BY <1>3 DEF IrqToCaller, BufFull, EventWrite, EventState
  <2>5. irqBuf'.armed => event' = event
    BY <1>3, <2>1 DEF IrqToCaller
  <2>a. ~irqBuf'.armed => event' = TRUE
    BY <1>3, <2>1 DEF IrqToCaller, EventWrite
  <2>6. QED
    BY <2>2, <2>3, <2>4, <2>5, <2>a DEF EventState, Inside
<1>4. CASE IrqToRing
  <2>1. UNCHANGED <<pc, timedOut, irqBuf, rxStart>>
    BY <1>4 DEF IrqToRing, RxFull, EventWrite, taskVars, bufVars
  <2>2. event' \/ (UNCHANGED <<rxEnd, event>>)
    BY <1>4 DEF IrqToRing, RxFull, EventWrite
  <2>3. ~irqBuf.armed
    BY <1>4 DEF IrqToRing, RxFull, EventWrite
  <2>4. QED
    BY <2>1, <2>2, <2>3 DEF EventState, Inside, RxEmpty
<1>5. ASSUME NEW t \in ReadTimeouts, ReadCall(t)
      PROVE  EventState'
  BY <1>5 DEF ReadCall, TaskStep, EventState, Inside
<1>6. CASE ReadTake \/ ReadFail \/ BufFinish
  BY <1>6 DEF ReadTake, ReadFail, BufFinish, TaskStep, TakenBack, EventState, Inside
<1>7. CASE ReadWait
  BY <1>7 DEF ReadWait, TaskStep, EventState, Inside, RxEmpty, ringVars
<1>8. CASE ReadPoll \/ ReadWake \/ ReadExpire
  BY <1>8 DEF ReadPoll, ReadWake, ReadExpire, EventPoll, TaskStep, EventWake, EventTimeout,
              EventState, Inside, RxEmpty, ringVars
<1>9. CASE BufPoll \/ BufWake \/ BufExpire
  BY <1>9 DEF BufPoll, BufWake, BufExpire, EventPoll, TaskStep, EventWake, EventTimeout,
              EventState, Inside, bufVars
<1>10. ASSUME NEW t \in BufTimeouts, NEW max \in Requests, BufFromRing(t, max)
       PROVE  EventState'
  BY <1>10 DEF BufFromRing, TaskStep, EventState, Inside, taskVars
<1>11. ASSUME NEW t \in BufTimeouts, NEW max \in Requests, BufArm(t, max)
       PROVE  EventState'
  BY <1>11 DEF BufArm, TaskStep, EventClear, EventState, Inside
<1>12. QED
  BY <1>1, <1>2, <1>3, <1>4, <1>5, <1>6, <1>7, <1>8, <1>9, <1>10, <1>11
     DEF Next, Handler, Call, Running

-----------------------------------------------------------------------------
(* The channel.  No step changes its content but the handler's store.      *)

LEMMA BytesAreContent ==
  /\ Bytes  = Content(out, buf, Held, rx, rxStart, rxEnd)
  /\ Bytes' = Content(out', buf', Held', rx', rxStart', rxEnd')
BY DEF Bytes, Waiting, Oldest, RxCount, Content

LEMMA HeldFacts ==
  ASSUME TypeInv
  PROVE  /\ Held \in 0..MaxRequest /\ Held \in Nat
         /\ ~Inside(InReadBuf) => Held = 0
<1>1. irqBuf.nbytes \in 0..MaxRequest /\ 0 \in 0..MaxRequest /\ MaxRequest \in Nat
  BY RequestAssumption DEF TypeInv, TypeOK
<1>2. QED
  BY <1>1 DEF Held

LEMMA BytesSeq ==
  ASSUME TypeInv
  PROVE  Bytes \in Seq(Nat) /\ Len(Bytes) = Len(out) + Held + RxCount
<1>1. RxCount \in 0..N /\ RxCount \in Nat
  BY RingFacts, RingAssumption DEF TypeInv, N
<1>2. Held \in 0..MaxRequest /\ Held \in Nat
  BY HeldFacts
<1>3. Prefix(buf, Held) \in Seq(Nat) /\ Len(Prefix(buf, Held)) = Held
  BY <1>2, PrefixSeq DEF TypeInv, TypeOK
<1>4. Oldest(RxCount) \in Seq(Nat) /\ Len(Oldest(RxCount)) = RxCount
  BY <1>1, SegmentSeq DEF TypeInv, TypeOK, Oldest
<1>5. Waiting \in Seq(Nat) /\ Len(Waiting) = Held + RxCount
  BY <1>3, <1>4, ConcatProperties DEF Waiting
<1>6. out \in Seq(Nat) /\ Len(out) \in Nat
  BY DEF TypeInv, TypeOK
<1>7. Bytes \in Seq(Nat) /\ Len(Bytes) = Len(out) + Len(Waiting)
  BY <1>5, <1>6, ConcatProperties DEF Bytes
<1>8. QED
  BY <1>1, <1>2, <1>5, <1>6, <1>7

LEMMA BytesLength == TypeInv => Len(Bytes) = Len(out) + Held + RxCount
BY BytesSeq

LEMMA BytesLengthNext == TypeInv' => Len(Bytes') = Len(out') + Held' + RxCount'
<1>1. (TypeInv => Len(Bytes) = Len(out) + Held + RxCount)'
  BY BytesLength, PTL
<1>2. QED
  BY <1>1

(* The three things a step can do to the channel. *)
Moved    == Bytes' = Bytes /\ UNCHANGED <<popped, dropped>>
Stored   == Bytes' = Append(Bytes, popped + 1) /\ popped' = popped + 1 /\ UNCHANGED dropped
ThrownAway == Bytes' = Bytes /\ popped' = popped + 1 /\ dropped' = dropped + 1

LEMMA ChannelStep ==
  ASSUME TypeInv, [Next]_vars
  PROVE  Moved \/ Stored \/ ThrownAway
<1> USE DEF TypeInv
<1>0. /\ out \in Seq(Nat) /\ buf \in [BufIndex -> Nat] /\ rx \in [Slots -> Nat]
      /\ rxStart \in Slots /\ rxEnd \in Slots /\ popped + 1 \in Nat
      /\ Held \in 0..MaxRequest /\ RxCount \in 0..(N - 1)
  BY HeldFacts, RingFacts DEF TypeOK
<1>1. CASE UNCHANGED vars
  BY <1>1, BytesAreContent DEF Moved, Held, Inside, vars, hwVars, ringVars, bufVars,
                               taskVars, histVars
<1>2. CASE Arrive \/ IrqEnter \/ IrqExit
  BY <1>2, BytesAreContent DEF Moved, Held, Inside, Arrive, IrqEnter, IrqExit,
                               ringVars, bufVars, taskVars, histVars
<1>3. CASE IrqToCaller
  <2>1. Inside(InReadBuf) /\ irqBuf.nbytes < irqBuf.max /\ RxEmpty
    BY <1>3 DEF IrqToCaller, BufFull, EventWrite, BufferState, NoBuf
  <2>2. Held = irqBuf.nbytes /\ Held \in 0..(MaxRequest - 1)
    BY <2>1, RequestAssumption DEF Held, TypeOK
  <2>3. irqBuf'.nbytes = irqBuf.nbytes + 1
    BY <1>3 DEF IrqToCaller, BufFull, EventWrite, TypeOK
  <2>4. Held' = Held + 1
    BY <1>3, <2>1, <2>2, <2>3 DEF Held, Inside, IrqToCaller, BufFull, EventWrite, taskVars
  <2>5. buf' = [buf EXCEPT ![Held] = popped + 1]
    BY <1>3, <2>2 DEF IrqToCaller, BufFull, EventWrite
  <2>6. rxStart = rxEnd
    BY <2>1 DEF RxEmpty
  <2>7. UNCHANGED <<out, rx, rxStart, rxEnd, dropped>> /\ popped' = popped + 1
    BY <1>3 DEF IrqToCaller, BufFull, EventWrite, GetChar, ringVars, histVars
  <2>8. Content(out, [buf EXCEPT ![Held] = popped + 1], Held + 1, rx, rxStart, rxStart)
        = Append(Content(out, buf, Held, rx, rxStart, rxStart), popped + 1)
    BY <1>0, <2>2, ContentToBuffer
  <2>9. Stored
    BY <2>4, <2>5, <2>6, <2>7, <2>8, BytesAreContent DEF Stored
  <2>10. QED
    BY <2>9
<1>4. CASE IrqToRing
  <2>1. /\ UNCHANGED <<out, buf, irqBuf, pc, rxStart>> /\ Held' = Held
        /\ popped' = popped + 1
    BY <1>4 DEF IrqToRing, RxFull, EventWrite, GetChar, bufVars, taskVars, Held, Inside
  <2>2. CASE Slot(rxEnd, 1) # rxStart
    <3>1. /\ rx' = [rx EXCEPT ![rxEnd] = popped + 1] /\ rxEnd' = Slot(rxEnd, 1)
          /\ UNCHANGED dropped
      BY <1>4, <2>2 DEF IrqToRing, RxFull, EventWrite
    <3>2. Content(out, buf, Held, [rx EXCEPT ![rxEnd] = popped + 1], rxStart, Slot(rxEnd, 1))
          = Append(Content(out, buf, Held, rx, rxStart, rxEnd), popped + 1)
      BY <1>0, <2>2, ContentToRing
    <3>3. Stored
      BY <2>1, <3>1, <3>2, BytesAreContent DEF Stored
    <3>4. QED
      BY <3>3
  <2>3. CASE Slot(rxEnd, 1) = rxStart
    <3>1. UNCHANGED <<rx, rxEnd>> /\ dropped' = dropped + 1
      BY <1>4, <2>3 DEF IrqToRing, RxFull, EventWrite
    <3>2. ThrownAway
      BY <2>1, <3>1, BytesAreContent DEF ThrownAway
    <3>3. QED
      BY <3>2
  <2>4. QED
    BY <2>2, <2>3
<1>5. ASSUME NEW t \in ReadTimeouts, ReadCall(t)
      PROVE  Moved
  BY <1>5, BytesAreContent DEF Moved, ReadCall, TaskStep, Held, Inside, InReadBuf,
                               hwVars, ringVars, bufVars, histVars
<1>6. CASE ReadTake
  <2>1. Held = 0 /\ Held' = 0
    BY <1>6 DEF ReadTake, TaskStep, Held, Inside, InReadBuf
  <2>2. 1 \in 0..Count(rxStart, rxEnd)
    BY <1>0, <1>6, RingFacts, RingAssumption DEF ReadTake, TaskStep, RxCount, N
  <2>3. Segment(rx, rxStart, 1) = <<rx[rxStart]>>
    <3>1. /\ Segment(rx, rxStart, 1) \in Seq(Nat) /\ Len(Segment(rx, rxStart, 1)) = 1
          /\ \A i \in 1..1 : Segment(rx, rxStart, 1)[i] = rx[Slot(rxStart, i - 1)]
      <4>1. 1 \in 0..N
        BY RingAssumption DEF N
      <4>2. QED
        BY <1>0, <4>1, SegmentSeq
    <3>2. Slot(rxStart, 0) = rxStart
      BY <1>0, SlotValue, RingAssumption DEF N, Slots
    <3>3. Segment(rx, rxStart, 1)[1] = rx[rxStart]
      BY <3>1, <3>2
    <3>4. /\ <<rx[rxStart]>> \in Seq(Nat) /\ Len(<<rx[rxStart]>>) = 1
          /\ <<rx[rxStart]>>[1] = rx[rxStart]
      BY <1>0
    <3>5. \A i \in 1..1 : Segment(rx, rxStart, 1)[i] = <<rx[rxStart]>>[i]
      BY <3>3, <3>4
    <3>6. QED
      BY <3>1, <3>4, <3>5, SeqEqual
  <2>4. rx[rxStart] \in Nat
    BY <1>0
  <2>5. out' = out \o Segment(rx, rxStart, 1)
    BY <1>0, <1>6, <2>3, <2>4, AppendIsConcat DEF ReadTake, TaskStep
  <2>6. Content(out \o Segment(rx, rxStart, 1), buf, 0, rx, Slot(rxStart, 1), rxEnd)
        = Content(out, buf, 0, rx, rxStart, rxEnd)
    BY <1>0, <2>2, ContentTake
  <2>7. rxStart' = Slot(rxStart, 1) /\ UNCHANGED <<rx, rxEnd, buf, popped, dropped>>
    BY <1>6 DEF ReadTake, TaskStep, hwVars, bufVars
  <2>8. Moved
    BY <2>1, <2>5, <2>6, <2>7, BytesAreContent DEF Moved
  <2>9. QED
    BY <2>8
<1>7. CASE ReadWait \/ ReadFail
  BY <1>7, BytesAreContent DEF Moved, ReadWait, TaskStep, ReadFail, Held, Inside, InReadBuf,
                               hwVars, ringVars, bufVars, histVars
<1>8. CASE ReadPoll \/ ReadWake \/ ReadExpire
  BY <1>8, BytesAreContent DEF Moved, ReadPoll, ReadWake, ReadExpire, EventPoll, TaskStep,
                               EventWake,
        EventTimeout, Held, Inside, InReadBuf, hwVars, ringVars, bufVars, histVars
<1>9. CASE BufPoll \/ BufWake \/ BufExpire
  BY <1>9, BytesAreContent DEF Moved, BufPoll, BufWake, BufExpire, EventPoll, TaskStep,
                               EventWake,
        EventTimeout, Held, Inside, InReadBuf, hwVars, ringVars, bufVars, histVars
<1>10. ASSUME NEW t \in BufTimeouts, NEW max \in Requests, BufFromRing(t, max)
       PROVE  Moved
  <2> DEFINE k == Drained(max)
  <2>1. Held = 0 /\ Held' = 0
    BY <1>10 DEF BufFromRing, TaskStep, Held, Inside, InReadBuf, taskVars
  <2>2. k \in 0..Count(rxStart, rxEnd)
    BY DrainedFacts DEF RxCount
  <2>3. /\ out' = out \o Segment(rx, rxStart, k) /\ rxStart' = Slot(rxStart, k)
        /\ UNCHANGED <<rx, rxEnd, buf, popped, dropped>>
    BY <1>10 DEF BufFromRing, TaskStep, Oldest, hwVars, bufVars
  <2> HIDE DEF k
  <2>4. Content(out \o Segment(rx, rxStart, k), buf, 0, rx, Slot(rxStart, k), rxEnd)
        = Content(out, buf, 0, rx, rxStart, rxEnd)
    BY <1>0, <2>2, ContentTake
  <2>5. QED
    BY <2>1, <2>3, <2>4, BytesAreContent DEF Moved
<1>11. ASSUME NEW t \in BufTimeouts, NEW max \in Requests, BufArm(t, max)
       PROVE  Moved
  <2>1. /\ Drained(max) = RxCount /\ RxCount < max
        /\ max \in 1..MaxRequest /\ MaxRequest \in Nat
    BY <1>11, DrainedFacts, RequestAssumption DEF BufArm, TaskStep, EventClear
  <2>2. RxCount \in 0..MaxRequest /\ RxCount \in Nat
    BY <1>0, <2>1, RingAssumption DEF N
  <2>3. /\ buf' = [i \in BufIndex |-> IF i < RxCount THEN rx[Slot(rxStart, i)] ELSE buf[i]]
        /\ irqBuf' = [armed |-> TRUE, nbytes |-> RxCount, max |-> max]
        /\ rxStart' = Slot(rxStart, RxCount) /\ pc' = "bPoll"
        /\ UNCHANGED <<rx, rxEnd, out, popped, dropped>>
    BY <1>11, <2>1 DEF BufArm, TaskStep, EventClear, hwVars, histVars
  <2>4. rxStart' = rxEnd /\ Held' = RxCount /\ Held = 0
    <3>1. rxStart' = rxEnd
      BY <2>3, RingFacts
    <3>2. Held' = RxCount
      BY <2>3 DEF Held, Inside, InReadBuf
    <3>3. Held = 0
      BY <1>11 DEF BufArm, TaskStep, EventClear, Held, Inside, InReadBuf
    <3>4. QED
      BY <3>1, <3>2, <3>3
  <2>5. \A i \in 0..(RxCount - 1) : buf'[i] = rx[Slot(rxStart, i)]
    <3>1. \A i \in 0..(RxCount - 1) : i \in BufIndex /\ i < RxCount
      BY <2>1, <2>2 DEF BufIndex
    <3>2. QED
      BY <2>3, <3>1
  <2>6. buf' \in [BufIndex -> Nat]
    BY <1>11, TypeStep DEF TypeOK, Next, Call
  <2>7. Content(out, buf', RxCount, rx, rxEnd, rxEnd)
        = Content(out, buf, 0, rx, rxStart, rxEnd)
    BY <1>0, <2>2, <2>5, <2>6, ContentArm DEF RxCount
  <2>8. QED
    BY <2>3, <2>4, <2>7, BytesAreContent DEF Moved
<1>12. CASE BufFinish
  <2>1. Held = irqBuf.nbytes /\ Held' = 0
    BY <1>12 DEF BufFinish, TaskStep, TakenBack, Held, Inside, InReadBuf
  <2>2. out' = out \o Prefix(buf, Held) /\ UNCHANGED <<rx, rxStart, rxEnd, buf, popped, dropped>>
    BY <1>12, <2>1 DEF BufFinish, TaskStep, TakenBack, hwVars, ringVars
  <2>3. Content(out \o Prefix(buf, Held), buf, 0, rx, rxStart, rxEnd)
        = Content(out, buf, Held, rx, rxStart, rxEnd)
    BY <1>0, ContentReturn
  <2>4. Moved
    BY <2>1, <2>2, <2>3, BytesAreContent DEF Moved
  <2>5. QED
    BY <2>4
<1>13. QED
  BY <1>1, <1>2, <1>3, <1>4, <1>5, <1>6, <1>7, <1>8, <1>9, <1>10, <1>11, <1>12
     DEF Next, Handler, Call, Running

-----------------------------------------------------------------------------
(* The invariant.                                                          *)

LEMMA InvariantInit == Init => IInv
<1> SUFFICES ASSUME Init PROVE IInv
  OBVIOUS
<1>1. TypeInv
  BY TypeInit
<1>2. EventState
  BY DEF Init, EventState, Inside
<1>3. Len(Bytes) = 0 /\ Len(out) = 0 /\ popped = 0 /\ dropped = 0 /\ Held = 0 /\ RxCount = 0
  <2>1. out = <<>> /\ popped = 0 /\ dropped = 0
    BY DEF Init
  <2>2. Held = 0
    BY DEF Init, Held, Inside, InReadBuf
  <2>3. RxCount = 0
    BY <1>1, RingFacts DEF TypeInv, Init, RxEmpty
  <2>4. Len(out) = 0
    BY <2>1
  <2>5. Len(Bytes) = 0 + 0 + 0
    BY <1>1, <2>2, <2>3, <2>4, BytesSeq
  <2>6. QED
    BY <2>1, <2>2, <2>3, <2>4, <2>5
<1>4. FifoOrder /\ NotNewer /\ Conservation
  BY <1>3 DEF FifoOrder, NotNewer, Conservation
<1>5. QED
  BY <1>1, <1>2, <1>4 DEF IInv, TypeInv

LEMMA InvariantStep == IInv /\ [Next]_vars => IInv'
<1> SUFFICES ASSUME IInv, [Next]_vars PROVE IInv'
  OBVIOUS
<1>1. TypeInv /\ TypeInv'
  BY TypeStep DEF IInv, TypeInv
<1>2. EventState'
  BY <1>1, EventStep DEF IInv
<1>3. /\ Bytes \in Seq(Nat) /\ Len(Bytes) \in Nat /\ popped \in Nat
      /\ \A i \in 1..Len(Bytes) : Bytes[i] \in Nat
  <2>1. Bytes \in Seq(Nat)
    BY <1>1, BytesSeq
  <2>2. Len(Bytes) \in Nat /\ \A i \in 1..Len(Bytes) : Bytes[i] \in Nat
    BY <2>1, ElementOfSeq, LenProperties
  <2>3. QED
    BY <2>1, <2>2, <1>1 DEF TypeInv, TypeOK
<1>4. /\ \A i, j \in 1..Len(Bytes) : i < j => Bytes[i] < Bytes[j]
      /\ \A i \in 1..Len(Bytes) : Bytes[i] <= popped
  BY DEF IInv, FifoOrder, NotNewer
<1>5. popped = Len(Bytes) + dropped /\ dropped \in Nat
  BY <1>1, BytesLength DEF IInv, Conservation, TypeInv, TypeOK
<1>6. Len(Bytes') = Len(out') + Held' + RxCount'
  BY <1>1, BytesLengthNext
<1>7. CASE Moved \/ ThrownAway
  <2>1. /\ Bytes' = Bytes /\ popped' - popped \in {0, 1}
        /\ popped' = Len(Bytes) + dropped' /\ popped' \in Nat
    BY <1>3, <1>5, <1>7 DEF Moved, ThrownAway
  <2>2. FifoOrder'
    BY <2>1, <1>4 DEF FifoOrder
  <2>3. \A i \in 1..Len(Bytes) : Bytes[i] <= popped'
    BY <2>1, <1>3, <1>4
  <2>4. NotNewer'
    BY <2>1, <2>3 DEF NotNewer
  <2>5. Conservation'
    BY <2>1, <1>6 DEF Conservation
  <2>6. QED
    BY <1>1, <1>2, <2>2, <2>4, <2>5 DEF IInv, TypeInv
<1>8. CASE Stored
  <2> DEFINE n == Len(Bytes)
  <2>1. /\ Bytes' = Append(Bytes, popped + 1) /\ popped' = popped + 1 /\ dropped' = dropped
        /\ popped + 1 \in Nat
    BY <1>3, <1>8 DEF Stored
  <2>2. /\ Len(Bytes') = n + 1 /\ Bytes'[n + 1] = popped + 1
        /\ \A i \in 1..n : Bytes'[i] = Bytes[i]
    BY <2>1, <1>3, AppendProperties
  <2>3. \A i \in 1..(n + 1) : i \in 1..n \/ i = n + 1
    BY <1>3
  <2>4. \A i \in 1..n : Bytes'[i] \in Nat /\ Bytes'[i] < popped + 1
    BY <2>2, <1>3, <1>4
  <2>5. FifoOrder'
    <3>1. ASSUME NEW i \in 1..(n + 1), NEW j \in 1..(n + 1), i < j
          PROVE  Bytes'[i] < Bytes'[j]
      <4>1. i \in 1..n
        BY <3>1, <1>3
      <4>2. CASE j \in 1..n
        BY <4>1, <4>2, <3>1, <2>2, <1>4
      <4>3. CASE j = n + 1
        BY <4>1, <4>3, <2>2, <2>4
      <4>4. QED
        BY <4>2, <4>3, <2>3
    <3>2. QED
      BY <3>1, <2>2 DEF FifoOrder
  <2>6. NotNewer'
    <3>1. \A i \in 1..(n + 1) : Bytes'[i] <= popped + 1
      BY <1>3, <2>1, <2>2, <2>3, <2>4
    <3>2. QED
      BY <3>1, <2>1, <2>2 DEF NotNewer
  <2>7. Conservation'
    BY <2>1, <2>2, <1>3, <1>5, <1>6 DEF Conservation
  <2>8. QED
    BY <1>1, <1>2, <2>5, <2>6, <2>7 DEF IInv, TypeInv
<1>9. QED
  BY <1>1, <1>7, <1>8, ChannelStep

LEMMA Invariance == Spec => []IInv
BY InvariantInit, InvariantStep, PTL DEF Spec

(* Bytes reach the callers in the order of arrival and none twice, however *)
(* uart_read and uart_read_buf are mixed and whichever path a byte takes.  *)
THEOREM OrderKept == Spec => []FifoOrder
<1>1. IInv => FifoOrder
  BY DEF IInv
<1>2. QED
  BY <1>1, Invariance, PTL

(* A byte is lost nowhere but at the handler's test of a full ring. *)
THEOREM NothingLost == Spec => []Conservation
<1>1. IInv => Conservation
  BY DEF IInv
<1>2. QED
  BY <1>1, Invariance, PTL

(* A short result of uart_read_buf means that its wait has expired. *)
THEOREM ShortReadMeansTimeout == Spec => []ShortReadOnlyOnTimeout
<1>1. ASSUME IInv PROVE ShortReadOnlyOnTimeout
  <2>1. pc = "bFinish" /\ ~timedOut => ~irqBuf.armed /\ Inside(InReadBuf)
    BY <1>1 DEF IInv, EventState, Inside, InReadBuf
  <2>2. Inside(InReadBuf) => /\ irqBuf.nbytes <= irqBuf.max
                             /\ irqBuf.armed <=> irqBuf.nbytes < irqBuf.max
    BY <1>1 DEF IInv, BufferState
  <2>3. irqBuf.nbytes \in Nat /\ irqBuf.max \in Nat
    BY <1>1, RequestAssumption DEF IInv, TypeOK
  <2>4. QED
    BY <2>1, <2>2, <2>3 DEF ShortReadOnlyOnTimeout
<1>2. QED
  BY <1>1, Invariance, PTL

(* A task that sleeps in LOS_EventRead with its byte in the ring, or its   *)
(* buffer full, has been signalled.                                        *)
THEOREM WakeupKept == Spec => []NoLostWakeup
<1>1. IInv => NoLostWakeup
  BY DEF IInv, EventState, NoLostWakeup, Inside
<1>2. QED
  BY <1>1, Invariance, PTL
-----------------------------------------------------------------------------
(* serial.c implements the lossy first-in first-out channel ByteChannel,   *)
(* for every ring size and every mix of the two read functions.  Bytes     *)
(* that were returned stay returned, so a step that leaves the content of  *)
(* the channel alone can only move its oldest waiting bytes to the         *)
(* callers.  First what that needs of sequences.                           *)

(* A common beginning can be cancelled. *)
LEMMA CancelPrefix ==
  ASSUME NEW o \in Seq(Nat), NEW a \in Seq(Nat), NEW b \in Seq(Nat),
         o \o a = o \o b
  PROVE  a = b
<1>1. /\ Len(o) \in Nat /\ Len(a) \in Nat /\ Len(b) \in Nat
      /\ Len(o \o a) = Len(o) + Len(a) /\ Len(o \o b) = Len(o) + Len(b)
  BY ConcatProperties, LenProperties
<1>2. Len(a) = Len(b)
  BY <1>1
<1>3. ASSUME NEW i \in 1..Len(a)
      PROVE  a[i] = b[i]
  <2>1. Len(o) + i \in 1..(Len(o) + Len(a)) /\ ~(Len(o) + i <= Len(o))
        /\ Len(o) + i - Len(o) = i
    BY <1>1
  <2>2. (o \o a)[Len(o) + i] = a[i] /\ (o \o b)[Len(o) + i] = b[i]
    BY <1>2, <2>1, ConcatProperties
  <2>3. QED
    BY <2>2
<1>4. QED
  BY <1>2, <1>3, SeqEqual

(* If x followed by y is w, then x and y are the two ends of w. *)
LEMMA EndsOfConcat ==
  ASSUME NEW x \in Seq(Nat), NEW y \in Seq(Nat), NEW w \in Seq(Nat), x \o y = w
  PROVE  /\ Len(x) \in 0..Len(w)
         /\ x = SubSeq(w, 1, Len(x))
         /\ y = SubSeq(w, Len(x) + 1, Len(w))
<1> DEFINE n == Len(x)
<1>1. n \in Nat /\ Len(y) \in Nat /\ Len(w) = n + Len(y)
  BY ConcatProperties, LenProperties
<1>2. /\ \A i \in 1..n : i \in 1..Len(w) /\ w[i] = x[i]
      /\ \A i \in 1..Len(y) : n + i \in 1..Len(w) /\ w[n + i] = y[i]
  <2>1. \A i \in 1..Len(w) : w[i] = IF i <= n THEN x[i] ELSE y[i - n]
    BY <1>1, ConcatProperties
  <2>2. ASSUME NEW i \in 1..n
        PROVE  i \in 1..Len(w) /\ w[i] = x[i]
    BY <1>1, <2>1
  <2>3. ASSUME NEW i \in 1..Len(y)
        PROVE  n + i \in 1..Len(w) /\ w[n + i] = y[i]
    <3>1. n + i \in 1..Len(w) /\ ~(n + i <= n) /\ n + i - n = i
      BY <1>1
    <3>2. QED
      BY <2>1, <3>1
  <2>4. QED
    BY <2>2, <2>3
<1> HIDE DEF n
<1>3. x = SubSeq(w, 1, n)
  <2> DEFINE s == SubSeq(w, 1, n)
  <2>1. Len(s) = n /\ s \in Seq(Nat) /\ \A i \in 1..n : s[i] = w[i]
    BY <1>1, SubSeqProperties
  <2> HIDE DEF s
  <2>2. \A i \in 1..n : s[i] = x[i]
    BY <1>2, <2>1
  <2>3. x = s
    BY <2>1, <2>2, SeqEqual DEF n
  <2>4. QED
    BY <2>3 DEF s
<1>4. y = SubSeq(w, n + 1, Len(w))
  <2> DEFINE s == SubSeq(w, n + 1, Len(w))
  <2>1. /\ Len(s) = Len(y) /\ s \in Seq(Nat)
        /\ \A i \in 1..(Len(w) - (n + 1) + 1) : s[i] = w[n + 1 + i - 1]
    <3> DEFINE m == n + 1
               l == Len(w)
    <3>1. m \in Int /\ l \in Int
      BY <1>1
    <3>5. (IF m <= l THEN l - m + 1 ELSE 0) = Len(y)
      BY <1>1
    <3>2. \A i \in m..l : w[i] \in Nat
      <4>1. \A i \in m..l : i \in 1..Len(w)
        BY <1>1
      <4>2. QED
        BY <4>1, ElementOfSeq
    <3> HIDE DEF m, l
    <3>3. /\ SubSeq(w, m, l) \in Seq(Nat)
          /\ Len(SubSeq(w, m, l)) = IF m <= l THEN l - m + 1 ELSE 0
          /\ \A i \in 1..(l - m + 1) : SubSeq(w, m, l)[i] = w[m + i - 1]
      <4>1. SubSeq(w, m, l) \in Seq(Nat)
        BY <3>1, <3>2, SubSeqProperties
      <4>2. Len(SubSeq(w, m, l)) = IF m <= l THEN l - m + 1 ELSE 0
        BY <3>1, <3>2, SubSeqProperties
      <4>3. \A i \in 1..(l - m + 1) : SubSeq(w, m, l)[i] = w[m + i - 1]
        BY <3>1, <3>2, SubSeqProperties
      <4>4. QED
        BY <4>1, <4>2, <4>3
    <3>4. QED
      BY <3>3, <3>5 DEF m, l
  <2>2. /\ Len(w) - (n + 1) + 1 = Len(y)
        /\ \A i \in 1..Len(y) : n + 1 + i - 1 = n + i
    BY <1>1
  <2> HIDE DEF s
  <2>3. \A i \in 1..Len(y) : s[i] = y[i]
    BY <1>2, <2>1, <2>2
  <2>4. y = s
    BY <2>1, <2>3, SeqEqual
  <2>5. QED
    BY <2>4 DEF s
<1>5. QED
  BY <1>1, <1>3, <1>4 DEF n

-----------------------------------------------------------------------------
(* What a step does to the two ends of the channel.                        *)

(* No more bytes come than the line carries. *)
LineBound == arrived <= MaxBytes

LEMMA LineBoundStep == TypeInv /\ LineBound /\ [Next]_vars => LineBound'
<1> SUFFICES ASSUME TypeInv, LineBound, [Next]_vars PROVE LineBound'
  OBVIOUS
<1>1. \/ arrived' = arrived
      \/ arrived < MaxBytes /\ arrived' = arrived + 1
  BY DEF Next, Arrive, Handler, IrqEnter, IrqToCaller, IrqToRing, IrqExit, GetChar,
         Call, ReadCall, BufFromRing, BufArm, Running, ReadTake, ReadWait, ReadPoll,
         ReadWake, ReadExpire, ReadFail, BufPoll, BufWake, BufExpire, BufFinish,
         EventPoll, EventWake, EventTimeout, TaskStep, vars, hwVars
<1>2. QED
  BY <1>1, BoundAssumption DEF LineBound, TypeInv, TypeOK

(* The handler returns nothing to a caller, takes only bytes that have     *)
(* come, and throws one away only when the ring is full.                   *)
LEMMA HandlerEnd ==
  ASSUME TypeInv, [Next]_vars, popped' # popped
  PROVE  /\ UNCHANGED out /\ popped < arrived
         /\ dropped' # dropped => RxFull
<1>1. IrqToCaller \/ IrqToRing
  BY DEF Next, Arrive, Handler, IrqEnter, IrqExit,
         Call, ReadCall, BufFromRing, BufArm, Running, ReadTake, ReadWait, ReadPoll,
         ReadWake, ReadExpire, ReadFail, BufPoll, BufWake, BufExpire, BufFinish,
         EventPoll, EventWake, EventTimeout, TaskStep, vars, hwVars
<1>2. QED
  BY <1>1 DEF IrqToCaller, IrqToRing, GetChar, histVars

(* What was returned stays returned. *)
LEMMA CallerEnd ==
  ASSUME TypeInv, [Next]_vars
  PROVE  \E x \in Seq(Nat) : out' = out \o x
<1>1. out \in Seq(Nat) /\ <<>> \in Seq(Nat) /\ out = out \o <<>>
  BY ConcatEmptySeq DEF TypeInv, TypeOK
<1>2. CASE UNCHANGED out
  BY <1>1, <1>2
<1>3. CASE ReadTake
  <2>1. rx[rxStart] \in Nat
    BY DEF TypeInv, TypeOK
  <2>2. out' = out \o <<rx[rxStart]>> /\ <<rx[rxStart]>> \in Seq(Nat)
    BY <1>1, <1>3, <2>1, AppendIsConcat DEF ReadTake
  <2>3. QED
    BY <2>2
<1>4. ASSUME NEW t \in BufTimeouts, NEW max \in Requests, BufFromRing(t, max)
      PROVE  \E x \in Seq(Nat) : out' = out \o x
  <2>1. Drained(max) \in 0..N
    BY DrainedFacts, RingFacts, RingAssumption DEF TypeInv, N
  <2>2. Oldest(Drained(max)) \in Seq(Nat)
    BY <2>1, SegmentSeq DEF TypeInv, TypeOK, Oldest
  <2>3. QED
    BY <1>4, <2>2 DEF BufFromRing
<1>5. CASE BufFinish
  <2>1. Prefix(buf, irqBuf.nbytes) \in Seq(Nat)
    BY PrefixSeq DEF TypeInv, TypeOK
  <2>2. QED
    BY <1>5, <2>1 DEF BufFinish
<1>6. UNCHANGED out \/ ReadTake \/ BufFinish
      \/ \E t \in BufTimeouts, max \in Requests : BufFromRing(t, max)
  BY DEF Next, Arrive, Handler, IrqEnter, IrqToCaller, IrqToRing, IrqExit,
         Call, ReadCall, BufArm, Running, ReadWait, ReadPoll,
         ReadWake, ReadExpire, ReadFail, BufPoll, BufWake, BufExpire,
         EventPoll, EventWake, EventTimeout, TaskStep, vars, histVars
<1>7. QED
  BY <1>2, <1>3, <1>4, <1>5, <1>6

LEMMA WaitingSeq ==
  ASSUME TypeInv
  PROVE  Waiting \in Seq(Nat) /\ Len(Waiting) = Held + RxCount
<1>1. RxCount \in 0..N /\ RxCount \in Nat
  BY RingFacts, RingAssumption DEF TypeInv, N
<1>2. Held \in 0..MaxRequest /\ Held \in Nat
  BY HeldFacts
<1>3. Prefix(buf, Held) \in Seq(Nat) /\ Len(Prefix(buf, Held)) = Held
  BY <1>2, PrefixSeq DEF TypeInv, TypeOK
<1>4. Oldest(RxCount) \in Seq(Nat) /\ Len(Oldest(RxCount)) = RxCount
  BY <1>1, SegmentSeq DEF TypeInv, TypeOK, Oldest
<1>5. QED
  BY <1>3, <1>4, ConcatProperties DEF Waiting

LEMMA WaitingSeqNext == TypeInv' => Waiting' \in Seq(Nat)
<1>1. (TypeInv => Waiting \in Seq(Nat))'
  BY WaitingSeq, PTL
<1>2. QED
  BY <1>1

-----------------------------------------------------------------------------
(* The refinement.                                                         *)

LEMMA ChannelInit == Init => Channel!ChanInit
<1> SUFFICES ASSUME Init PROVE Channel!ChanInit
  OBVIOUS
<1>1. TypeInv
  BY TypeInit
<1>2. Held = 0 /\ RxCount = 0
  BY <1>1, RingFacts, HeldFacts DEF TypeInv, Init, RxEmpty, Inside, InReadBuf
<1>3. Waiting \in Seq(Nat) /\ Len(Waiting) = 0
  BY <1>1, <1>2, WaitingSeq
<1>4. Waiting = <<>>
  BY <1>3, EmptySeq
<1>5. QED
  BY <1>4 DEF Init, Channel!ChanInit

LEMMA ChannelRefined ==
  TypeInv /\ LineBound /\ [Next]_vars => [Channel!ChanNext]_(Channel!chanVars)
<1> SUFFICES ASSUME TypeInv, LineBound, [Next]_vars
             PROVE  [Channel!ChanNext]_(Channel!chanVars)
  OBVIOUS
<1>1. TypeInv' /\ Waiting \in Seq(Nat) /\ Waiting' \in Seq(Nat) /\ out \in Seq(Nat)
  BY TypeStep, WaitingSeq, WaitingSeqNext DEF TypeInv, TypeOK
<1>2. Bytes = out \o Waiting /\ Bytes' = out' \o Waiting'
  BY DEF Bytes
<1>3. popped \in Nat /\ arrived \in Nat /\ MaxBytes \in Nat /\ popped + 1 # popped
  BY BoundAssumption DEF TypeInv, TypeOK
<1>4. CASE Moved
  <2>1. PICK x \in Seq(Nat) : out' = out \o x
    BY CallerEnd
  <2>2. out \o (x \o Waiting') = out \o Waiting
    BY <1>1, <1>2, <1>4, <2>1, Regroup DEF Moved
  <2>3. x \o Waiting' = Waiting
    BY <1>1, <2>2, ConcatProperties, CancelPrefix
  <2>4. /\ Len(x) \in 0..Len(Waiting)
        /\ x = SubSeq(Waiting, 1, Len(x))
        /\ Waiting' = SubSeq(Waiting, Len(x) + 1, Len(Waiting))
    BY <1>1, <2>3, EndsOfConcat
  <2>5. CASE Len(x) = 0
    <3>1. x = <<>>
      BY <2>5, EmptySeq
    <3>2. out' = out /\ Waiting' = Waiting
      BY <1>1, <2>1, <2>3, <3>1, ConcatEmptySeq
    <3>3. QED
      BY <1>4, <3>2 DEF Moved, Channel!chanVars
  <2>6. CASE Len(x) \in 1..Len(Waiting)
    <3>1. Channel!Take(Len(x))
      BY <1>4, <2>1, <2>4 DEF Moved, Channel!Take
    <3>2. QED
      BY <2>6, <3>1 DEF Channel!ChanNext
  <2>7. QED
    BY <1>1, <2>4, <2>5, <2>6, LenProperties
<1>5. CASE Stored
  <2>1. UNCHANGED out /\ popped < MaxBytes
    BY <1>3, <1>5, HandlerEnd DEF Stored, LineBound
  <2>2. Append(Waiting, popped + 1) \in Seq(Nat)
    BY <1>1, <1>3, AppendProperties
  <2>3. out \o Waiting' = out \o Append(Waiting, popped + 1)
    <3>1. out \o Append(Waiting, popped + 1) = Append(out \o Waiting, popped + 1)
      BY <1>1, <1>3, AppendLast
    <3>2. QED
      BY <1>2, <1>5, <2>1, <3>1 DEF Stored
  <2>4. Waiting' = Append(Waiting, popped + 1)
    BY <1>1, <2>2, <2>3, CancelPrefix
  <2>5. Channel!Accept
    BY <1>5, <2>1, <2>4 DEF Stored, Channel!Accept
  <2>6. QED
    BY <2>5 DEF Channel!ChanNext
<1>6. CASE ThrownAway
  <2>1. UNCHANGED out /\ popped < MaxBytes /\ RxFull
    <3>1. dropped' # dropped
      BY <1>6 DEF ThrownAway, TypeInv, TypeOK
    <3>2. QED
      BY <1>3, <1>6, <3>1, HandlerEnd DEF ThrownAway, LineBound
  <2>2. Waiting' = Waiting
    BY <1>1, <1>2, <1>6, <2>1, CancelPrefix DEF ThrownAway
  <2>3. RxCount >= UART_RX_BUF - 1
    <3>1. rxStart \in Slots /\ rxEnd \in Slots
      BY DEF TypeInv, TypeOK
    <3>2. Slot(rxEnd, 1) = IF rxEnd + 1 < N THEN rxEnd + 1 ELSE rxEnd + 1 - N
      BY <3>1, SlotValue, RingAssumption DEF N
    <3>3. QED
      BY <3>1, <3>2, <2>1, RingAssumption DEF RxFull, RxCount, Count, Slots, N
  <2>4. Len(Waiting) >= UART_RX_BUF - 1
    <3>1. Held \in Nat /\ RxCount \in Nat
      BY HeldFacts, RingFacts, RingAssumption DEF TypeInv, N
    <3>2. QED
      BY <3>1, <2>3, WaitingSeq, RingAssumption
  <2>5. Channel!Lose
    BY <1>6, <2>1, <2>2, <2>4 DEF ThrownAway, Channel!Lose
  <2>6. QED
    BY <2>5 DEF Channel!ChanNext
<1>7. QED
  BY <1>4, <1>5, <1>6, ChannelStep

(* The interrupt handler, the ring and the two read functions of serial.c  *)
(* behave as one first-in first-out channel, which loses a byte only when  *)
(* UART_RX_BUF - 1 or more are waiting.                                    *)
THEOREM SerialIsChannel == Spec => RefinesChannel
<1>1. Init => TypeInv /\ LineBound
  BY TypeInit, BoundAssumption DEF Init, LineBound
<1>2. TypeInv /\ LineBound /\ [Next]_vars => (TypeInv /\ LineBound)'
  BY TypeStep, LineBoundStep
<1>3. QED
  BY <1>1, <1>2, ChannelInit, ChannelRefined, PTL
     DEF Spec, RefinesChannel, Channel!ChanSpec
=============================================================================
