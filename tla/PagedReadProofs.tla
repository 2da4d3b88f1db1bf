--------------------------- MODULE PagedReadProofs ---------------------------
(***************************************************************************)
(* Proofs about PagedRead, for every page size, start and length: what a   *)
(* command puts out is the flash without a gap, and how much of it.        *)
(***************************************************************************)
EXTENDS PagedRead, SequenceTheorems, TLAPS

B == XMODEM_BUF_SIZE

-----------------------------------------------------------------------------
(* A number is a multiple of the page size and a remainder in one way. *)

LEMMA Quotient ==
  ASSUME NEW n \in Nat
  PROVE  /\ n \div B \in Nat /\ n % B \in 0..(B - 1)
         /\ n = B * (n \div B) + (n % B)
BY PageAssumption DEF B

LEMMA Remainder ==
  ASSUME NEW k \in Nat, NEW r \in 0..(B - 1)
  PROVE  (B * k + r) % B = r
<1>1. B \in Nat \ {0}
  BY PageAssumption DEF B
<1> DEFINE n == B * k + r
           q == n \div B
           m == n % B
<1>2. n \in Nat
  BY <1>1
<1>3. q \in Nat /\ m \in 0..(B - 1) /\ B * k + r = B * q + m
  BY <1>2, Quotient
<1> HIDE DEF q, m
<1>4. CASE q = k
  BY <1>1, <1>3, <1>4
<1>5. CASE q > k
  <2>1. PICK j \in Nat : q = k + 1 + j
    <3>1. q - k - 1 \in Nat /\ q = k + 1 + (q - k - 1)
      BY <1>3, <1>5
    <3>2. QED
      BY <3>1
  <2>2. B * q = B * k + B + B * j
    BY <1>1, <2>1
  <2>3. B * j \in Nat /\ B * k \in Nat /\ B * q \in Nat
    BY <1>1, <1>3
  <2>4. QED
    BY <1>1, <1>3, <2>2, <2>3
<1>6. CASE k > q
  <2>1. PICK j \in Nat : k = q + 1 + j
    <3>1. k - q - 1 \in Nat /\ k = q + 1 + (k - q - 1)
      BY <1>3, <1>6
    <3>2. QED
      BY <3>1
  <2>2. B * k = B * q + B + B * j
    BY <1>1, <1>3, <2>1
  <2>3. B * j \in Nat /\ B * k \in Nat /\ B * q \in Nat
    BY <1>1, <1>3
  <2>4. QED
    BY <1>1, <1>3, <2>2, <2>3
<1>7. m = r
  BY <1>3, <1>4, <1>5, <1>6, <1>1
<1>8. QED
  BY <1>7 DEF m

-----------------------------------------------------------------------------
(* What one read puts out. *)
LEMMA PutFacts ==
  ASSUME TypeOK, NEW addr \in Nat, NEW n \in 0..B, ReadAndPut(addr, n)
  PROVE  /\ workBuf' \in [BufIndex -> Int] /\ output' \in Seq(Int) /\ failed' \in BOOLEAN
         /\ Len(output') = Len(output) + n
         /\ \A i \in 1..(Len(output) + n) : ~failed' =>
              /\ ~failed
              /\ output'[i] = IF i <= Len(output) THEN output[i]
                                                  ELSE addr + (i - Len(output)) - 1
<1> DEFINE put == [i \in 1..n |-> workBuf'[i - 1]]
<1>1. B \in Nat \ {0} /\ n \in Nat
  BY PageAssumption DEF B
<1>2. workBuf' \in [BufIndex -> Int] /\ failed' \in BOOLEAN
  <2>1. CASE workBuf' = [i \in BufIndex |-> IF i < n THEN addr + i ELSE workBuf[i]]
             /\ UNCHANGED failed
    BY <1>1, <2>1 DEF TypeOK, BufIndex
  <2>2. CASE failed' = TRUE /\ UNCHANGED workBuf
    BY <2>2 DEF TypeOK
  <2>3. QED
    BY <2>1, <2>2 DEF ReadAndPut
<1>3. \A i \in 1..n : i - 1 \in BufIndex
  BY <1>1 DEF BufIndex, B
<1>4. put \in Seq(Int) /\ Len(put) = n /\ \A i \in 1..n : put[i] = workBuf'[i - 1]
  <2>1. \A i \in 1..n : workBuf'[i - 1] \in Int
    BY <1>2, <1>3
  <2>2. QED
    BY <1>1, <2>1
<1>5. ASSUME ~failed'
      PROVE  ~failed /\ \A i \in 1..n : put[i] = addr + i - 1
  <2>1. workBuf' = [i \in BufIndex |-> IF i < n THEN addr + i ELSE workBuf[i]]
    BY <1>5 DEF ReadAndPut
  <2>2. ASSUME NEW i \in 1..n
        PROVE  put[i] = addr + i - 1
    <3>1. i - 1 \in BufIndex /\ i - 1 < n /\ addr + (i - 1) = addr + i - 1
      BY <1>1, <1>3
    <3>2. workBuf'[i - 1] = addr + (i - 1)
      BY <2>1, <3>1
    <3>3. QED
      BY <1>4, <3>1, <3>2
  <2>3. QED
    BY <1>5, <2>2 DEF ReadAndPut
<1>6. output' = output \o put /\ output \in Seq(Int) /\ Len(output) \in Nat
  BY LenProperties DEF ReadAndPut, TypeOK
<1> HIDE DEF put
<1>7. /\ output' \in Seq(Int) /\ Len(output') = Len(output) + n
      /\ \A i \in 1..(Len(output) + n) :
           output'[i] = IF i <= Len(output) THEN output[i] ELSE put[i - Len(output)]
  BY <1>4, <1>6, ConcatProperties
<1>8. ASSUME ~failed', NEW i \in 1..(Len(output) + n)
      PROVE  /\ ~failed
             /\ output'[i] = IF i <= Len(output) THEN output[i]
                                                 ELSE addr + (i - Len(output)) - 1
  <2>1. CASE i <= Len(output)
    BY <1>5, <1>7, <1>8, <2>1
  <2>2. CASE ~(i <= Len(output))
    <3>1. i - Len(output) \in 1..n
      BY <1>1, <1>6, <2>2
    <3>2. put[i - Len(output)] = addr + (i - Len(output)) - 1
      BY <1>5, <1>8, <3>1
    <3>3. QED
      BY <1>5, <1>7, <1>8, <2>2, <3>2
  <2>3. QED
    BY <2>1, <2>2
<1>9. QED
  BY <1>2, <1>7, <1>8

-----------------------------------------------------------------------------
(* In the loop whole pages have been put out, fewer than the length asked  *)
(* for holds, and offset is where they end.                                *)
LoopState ==
  pc \in {"print", "hash"} =>
    /\ offset % B = 0 /\ next = offset + B /\ Len(output) = offset
    /\ offset = 0 \/ offset < bufLen

(* As long as every read has succeeded, the pages are those of the flash. *)
FlashPut == ~failed => \A i \in 1..Len(output) : output[i] = start + i - 1

IInv ==
  /\ TypeOK /\ (pc = "idle" => output = <<>>)
  /\ LoopState /\ FlashPut /\ OutputLength

(* The last read leaves a command with the length OutputLength says, and   *)
(* reads from where the pages ended.                                       *)
LEMMA RestLength ==
  ASSUME IInv, pc \in {"print", "hash"}, ~InLoop
  PROVE  /\ bufLen % B \in 0..B
         /\ bufLen % B # 0 => bufLen = offset + (bufLen % B) /\ RestStart = start + offset
         /\ bufLen % B = 0 => offset = IF bufLen > 0 THEN bufLen - B ELSE bufLen
<1>1. /\ B \in Nat \ {0} /\ offset \in Nat /\ bufLen \in Nat /\ start \in Nat
      /\ offset % B = 0 /\ next = offset + B /\ (offset = 0 \/ offset < bufLen)
  BY PageAssumption DEF IInv, TypeOK, LoopState, B
<1>2. ~(offset + B < bufLen)
  BY <1>1 DEF InLoop
<1>3. PICK k \in Nat : offset = B * k
  <2>1. offset \div B \in Nat /\ offset = B * (offset \div B) + 0
    BY <1>1, Quotient
  <2>2. B * (offset \div B) \in Nat
    BY <1>1, <2>1
  <2>3. offset = B * (offset \div B)
    BY <2>1, <2>2
  <2>4. QED
    BY <2>1, <2>3
<1>4. bufLen % B \in 0..(B - 1)
  BY <1>1, Quotient
<1>5. CASE bufLen < offset + B
  <2>1. bufLen - offset \in 0..(B - 1) /\ bufLen = offset + (bufLen - offset)
    BY <1>1, <1>5
  <2>2. bufLen = B * k + (bufLen - offset)
    BY <1>3, <2>1
  <2>3. bufLen % B = bufLen - offset
    BY <2>1, <2>2, Remainder
  <2>4. bufLen % B = 0 => bufLen = offset /\ ~(bufLen > 0)
    BY <1>1, <2>3
  <2>5. QED
    BY <1>1, <1>4, <2>3, <2>4 DEF RestStart, B
<1>6. CASE bufLen = offset + B
  <2>1. B * (k + 1) = B * k + B /\ B * k \in Nat
    BY <1>1
  <2>2. bufLen = B * (k + 1) + 0
    BY <1>1, <1>3, <1>6, <2>1
  <2>3. bufLen % B = 0
    BY <1>1, <2>2, Remainder
  <2>4. QED
    BY <1>1, <1>4, <1>6, <2>3
<1>7. QED
  BY <1>1, <1>2, <1>5, <1>6

LEMMA StepInvariant == IInv /\ [Next]_vars => IInv'
<1> SUFFICES ASSUME IInv, [Next]_vars PROVE IInv'
  OBVIOUS
<1>1. B \in Nat \ {0} /\ TypeOK
  BY PageAssumption DEF IInv, B
<1>2. CASE UNCHANGED vars
  BY <1>2 DEF vars, args, IInv, TypeOK, LoopState, FlashPut, OutputLength
<1>3. ASSUME NEW s \in Starts, NEW n \in Sizes, NEW command \in {"print", "hash"},
             Enter(command, s, n)
      PROVE  IInv'
  <2>1. s \in Nat /\ LengthOf(n) \in Nat
    BY ArgumentAssumption, PageAssumption DEF LengthOf
  <2>2. output = <<>> /\ output' = output /\ Len(output') = 0
    BY <1>3 DEF Enter, IInv
  <2>3. TypeOK'
    BY <1>1, <1>3, <2>1, PageAssumption DEF Enter, TypeOK
  <2>4. LoopState'
    <3>1. B * 0 + 0 = 0 /\ 0 \in 0..(B - 1) /\ 0 + B = B
      BY <1>1
    <3>2. 0 % B = 0
      BY <3>1, Remainder
    <3>3. QED
      BY <1>3, <2>2, <3>1, <3>2 DEF Enter, LoopState, B
  <2>5. pc' \in {"print", "hash"} /\ 1..0 = {}
    BY <1>3 DEF Enter
  <2>6. FlashPut' /\ OutputLength'
    BY <2>2, <2>5 DEF FlashPut, OutputLength
  <2>7. QED
    BY <2>3, <2>4, <2>5, <2>6 DEF IInv
<1>4. ASSUME NEW command \in {"print", "hash"}, Page(command)
      PROVE  IInv'
  <2>1. /\ offset \in Nat /\ start \in Nat /\ bufLen \in Nat
        /\ offset % B = 0 /\ next = offset + B /\ Len(output) = offset
        /\ next < bufLen /\ offset' = next /\ next' = next + B
        /\ UNCHANGED <<pc, start, bufLen>> /\ pc = command
    BY <1>1, <1>4 DEF Page, IInv, TypeOK, LoopState, InLoop, args, B
  <2>2. start + offset \in Nat /\ B \in 0..B /\ ReadAndPut(start + offset, B)
    BY <1>1, <1>4, <2>1 DEF Page, B
  <2>3. /\ workBuf' \in [BufIndex -> Int] /\ output' \in Seq(Int) /\ failed' \in BOOLEAN
        /\ Len(output') = offset + B
        /\ \A i \in 1..(offset + B) : ~failed' =>
             /\ ~failed
             /\ output'[i] = IF i <= offset THEN output[i]
                                            ELSE start + offset + (i - offset) - 1
    BY <1>1, <2>1, <2>2, PutFacts
  <2>4. TypeOK'
    BY <1>1, <2>1, <2>3 DEF TypeOK
  <2>5. LoopState'
    <3>1. offset' % B = 0
      <4>1. offset \div B \in Nat /\ offset = B * (offset \div B) + 0
        BY <2>1, Quotient
      <4>2. B * (offset \div B + 1) = B * (offset \div B) + B /\ B * (offset \div B) \in Nat
        BY <1>1, <4>1
      <4>3. offset + B = B * (offset \div B + 1) + 0
        BY <1>1, <2>1, <4>1, <4>2
      <4>4. offset \div B + 1 \in Nat /\ 0 \in 0..(B - 1)
        BY <1>1, <4>1
      <4>5. (offset + B) % B = 0
        BY <4>3, <4>4, Remainder
      <4>6. QED
        BY <2>1, <4>5
    <3>2. QED
      BY <1>1, <2>1, <2>3, <3>1 DEF LoopState
  <2>6. FlashPut'
    <3>1. ASSUME ~failed', NEW i \in 1..(offset + B)
          PROVE  output'[i] = start + i - 1
      <4>1. CASE i <= offset
        <5>1. i \in 1..Len(output) /\ ~failed
          BY <2>1, <2>3, <3>1, <4>1
        <5>2. output[i] = start + i - 1
          BY <5>1 DEF IInv, FlashPut
        <5>3. QED
          BY <2>3, <3>1, <4>1, <5>2
      <4>2. CASE ~(i <= offset)
        <5>1. start + offset + (i - offset) - 1 = start + i - 1
          BY <1>1, <2>1
        <5>2. QED
          BY <2>3, <3>1, <4>2, <5>1
      <4>3. QED
        BY <4>1, <4>2
    <3>2. QED
      BY <2>1, <2>3, <3>1 DEF FlashPut
  <2>7. QED
    BY <2>1, <2>4, <2>5, <2>6 DEF IInv, OutputLength
<1>5. ASSUME NEW command \in {"print", "hash"}, Rest(command)
      PROVE  IInv'
  <2> DEFINE rem == bufLen % B
  <2>1. /\ offset \in Nat /\ start \in Nat /\ bufLen \in Nat /\ Len(output) = offset
        /\ pc \in {"print", "hash"} /\ ~InLoop /\ pc' = "done"
        /\ UNCHANGED <<start, bufLen, offset, next>>
        /\ IF rem # 0 THEN ReadAndPut(RestStart, rem) ELSE UNCHANGED <<workBuf, output, failed>>
    BY <1>1, <1>5 DEF Rest, IInv, TypeOK, LoopState, args, B
  <2>2. /\ rem \in 0..B
        /\ rem # 0 => bufLen = offset + rem /\ RestStart = start + offset
        /\ rem = 0 => offset = IF bufLen > 0 THEN bufLen - B ELSE bufLen
    BY <2>1, RestLength
  <2> HIDE DEF rem
  <2>3. CASE rem = 0
    <3>1. UNCHANGED <<workBuf, output, failed>>
      BY <2>1, <2>3
    <3>2. TypeOK' /\ FlashPut'
      BY <1>1, <2>1, <3>1 DEF TypeOK, IInv, FlashPut
    <3>3. OutputLength'
      BY <2>1, <2>2, <2>3, <3>1 DEF OutputLength, rem, B
    <3>4. QED
      BY <2>1, <3>2, <3>3 DEF IInv, LoopState
  <2>4. CASE rem # 0
    <3>1. ReadAndPut(RestStart, rem) /\ RestStart = start + offset /\ RestStart \in Nat
      BY <2>1, <2>2, <2>4
    <3>2. /\ workBuf' \in [BufIndex -> Int] /\ output' \in Seq(Int) /\ failed' \in BOOLEAN
          /\ Len(output') = offset + rem
          /\ \A i \in 1..(offset + rem) : ~failed' =>
               /\ ~failed
               /\ output'[i] = IF i <= offset THEN output[i]
                                              ELSE RestStart + (i - offset) - 1
      BY <1>1, <2>1, <2>2, <3>1, PutFacts
    <3>3. TypeOK'
      BY <1>1, <2>1, <3>2 DEF TypeOK
    <3>4. FlashPut'
      <4>1. ASSUME ~failed', NEW i \in 1..(offset + rem)
            PROVE  output'[i] = start + i - 1
        <5>1. CASE i <= offset
          <6>1. i \in 1..Len(output)
            BY <2>1, <5>1
          <6>4. ~failed
            BY <3>2, <4>1, Zenon
          <6>2. output[i] = start + i - 1
            BY <6>1, <6>4 DEF IInv, FlashPut
          <6>3. QED
            BY <3>2, <4>1, <5>1, <6>2
        <5>2. CASE ~(i <= offset)
          <6>1. RestStart + (i - offset) - 1 = start + i - 1
            BY <2>1, <2>2, <3>1
          <6>2. QED
            BY <3>2, <4>1, <5>2, <6>1
        <5>3. QED
          BY <5>1, <5>2
      <4>2. QED
        BY <2>1, <3>2, <4>1 DEF FlashPut
    <3>5. OutputLength'
      BY <2>1, <2>2, <2>4, <3>2 DEF OutputLength, rem, B
    <3>6. QED
      BY <2>1, <3>3, <3>4, <3>5 DEF IInv, LoopState
  <2>5. QED
    BY <2>3, <2>4
<1>6. QED
  BY <1>2, <1>3, <1>4, <1>5
     DEF Next, CallPrint, CallHash, PrintPage, HashPage, PrintRest, HashRest

LEMMA Invariance == Spec => []IInv
<1>1. Init => IInv
  <2> SUFFICES ASSUME Init PROVE IInv
    OBVIOUS
  <2>1. output = <<>> /\ output \in Seq(Int) /\ Len(output) = 0 /\ 1..0 = {}
    BY DEF Init
  <2>2. /\ pc = "idle" /\ start = 0 /\ bufLen = 0 /\ offset = 0 /\ next = 0
        /\ failed = FALSE
    BY DEF Init
  <2>3. workBuf \in [BufIndex -> Int]
    BY DEF Init
  <2>4. TypeOK
    BY <2>1, <2>2, <2>3 DEF TypeOK
  <2>5. QED
    BY <2>1, <2>2, <2>4 DEF IInv, LoopState, FlashPut, OutputLength
<1>2. QED
  BY <1>1, StepInvariant, PTL DEF Spec

(* The types, for any page size and any arguments, negative sizes too. *)
THEOREM TypeCorrect == Spec => []TypeOK
<1>1. IInv => TypeOK
  BY DEF IInv
<1>2. QED
  BY <1>1, Invariance, PTL

(* A command puts out all of the length it was asked for, but for the last *)
(* page when that length is whole pages.                                   *)
THEOREM LengthPut == Spec => []OutputLength
<1>1. IInv => OutputLength
  BY DEF IInv
<1>2. QED
  BY <1>1, Invariance, PTL

(* While reads succeed no unit is left out between two pages or before the *)
(* remainder, and none is beyond the length asked for.                     *)
THEOREM PagesContiguous == Spec => []Contiguous
<1>1. IInv => Contiguous
  <2> SUFFICES ASSUME IInv PROVE Contiguous
    OBVIOUS
  <2>1. B \in Nat \ {0} /\ bufLen \in Nat /\ pc \in {"idle", "print", "hash", "done"}
    BY PageAssumption DEF IInv, TypeOK, B
  <2>2. Len(output) <= bufLen
    <3>1. CASE pc = "idle"
      <4>1. Len(output) = 0
        BY <3>1 DEF IInv
      <4>2. QED
        BY <2>1, <4>1
    <3>2. CASE pc \in {"print", "hash"}
      <4>1. Len(output) = 0 \/ Len(output) < bufLen
        BY <3>2 DEF IInv, LoopState
      <4>2. QED
        BY <2>1, <4>1, LenProperties DEF IInv, TypeOK
    <3>3. CASE pc = "done"
      BY <2>1, <3>3 DEF IInv, OutputLength, B
    <3>4. QED
      BY <2>1, <3>1, <3>2, <3>3
  <2>3. QED
    BY <2>2 DEF IInv, FlashPut, Contiguous
<1>2. QED
  BY <1>1, Invariance, PTL
=============================================================================
