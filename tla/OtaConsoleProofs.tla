--------------------------- MODULE OtaConsoleProofs ---------------------------
(***************************************************************************)
(* Proofs about OtaConsole, for line buffers of any even size, a signature *)
(* of any number of half buffers, any alphabet without NUL, and any number *)
(* of bytes typed.                                                         *)
(***************************************************************************)
EXTENDS OtaConsole, SequenceTheorems, TLAPS

Half == BUF_LEN \div 2
Stored == Chars \cup {FF}
Codes == Chars \cup {NUL, FF, Stale}
Bytes == Stored \X Codes

Shapes ==
  /\ pc \in {"preamble", "letter", "line", "sign"} /\ cmd \in Letters
  /\ buf \in [BufIndex -> Codes] /\ i \in BufIndex
  /\ sign \in Seq(Bytes) /\ text \in Seq(Stored)
  /\ clean \in BOOLEAN /\ paused \in BOOLEAN /\ keys \in 0..MaxKeys

(* The buffer b holds the text t in its first n places and is NUL beyond. *)
Holds(b, n, t) ==
  /\ Len(t) = n
  /\ \A k \in BufIndex : b[k] = IF k < n THEN t[k + 1] ELSE NUL

(* In a line that came in time the buffer holds the text. *)
LineHeld == pc = "line" => cmd # "s" /\ (~paused => Holds(buf, i, text))

(* A line is handed on only when it ends. *)
NotYetHanded == InLine => handed = NoLine

(* The string that the text t is to a handler. *)
StringFor(t) == IF Len(t) < BUF_LEN THEN t ELSE Append(t, Beyond)

(* The bytes s are the pairs of the text t. *)
PairsOf(s, t) == \A k \in 1..Len(s) : 2 * k <= Len(t) => s[k] = <<t[2 * k - 1], t[2 * k]>>

(* The text t came in whole pairs that are in s, and n more in b. *)
Split(s, b, n, t) ==
  /\ Len(t) = 2 * Len(s) + n /\ PairsOf(s, t)
  /\ \A j \in 0..(n - 1) : b[j] = t[2 * Len(s) + j + 1]

(* A signature that is read on has come in whole buffers and has room for  *)
(* another.                                                                *)
SignHeld ==
  pc = "sign" =>
    /\ Len(sign) < SIGN_LEN /\ \E q \in Nat : Len(sign) = Half * q
    /\ \A j \in 0..(i - 1) : buf[j] \in Stored
    /\ clean /\ ~paused => Split(sign, buf, i, text)

IInv ==
  /\ Shapes /\ LineHeld /\ NotYetHanded /\ LineIsString
  /\ SignHeld /\ SignInBounds /\ SignIsTyped

-----------------------------------------------------------------------------
(* The sizes, and what the helpers on buffers return.                      *)

LEMMA SizeFacts ==
  /\ Half \in Nat \ {0} /\ BUF_LEN = 2 * Half /\ BUF_LEN \in Nat \ {0}
  /\ SIGN_LEN \in Nat \ {0} /\ MaxKeys \in Nat
  /\ \E r \in Nat : SIGN_LEN = Half * r
<1>1. Half \in Nat \ {0} /\ BUF_LEN = 2 * Half
  BY BufAssumption DEF Half
<1>2. SIGN_LEN \in Nat \ {0} /\ SIGN_LEN % Half = 0
  BY BufAssumption DEF Half
<1>3. SIGN_LEN \div Half \in Nat /\ SIGN_LEN = Half * (SIGN_LEN \div Half) + (SIGN_LEN % Half)
  BY <1>1, <1>2
<1>4. SIGN_LEN = Half * (SIGN_LEN \div Half)
  BY <1>1, <1>2, <1>3
<1>5. QED
  BY <1>1, <1>2, <1>3, <1>4, BufAssumption, KeysAssumption

(* Where another whole buffer of a signature is awaited it fits. *)
LEMMA RoomForBuffer ==
  ASSUME NEW q \in Nat, Half * q < SIGN_LEN
  PROVE  Half * q + Half <= SIGN_LEN
<1>1. PICK r \in Nat : SIGN_LEN = Half * r
  BY SizeFacts
<1>2. Half \in Nat \ {0}
  BY SizeFacts
<1>3. q < r
  <2>1. ASSUME r <= q PROVE FALSE
    <3>1. q - r \in Nat /\ q = r + (q - r)
      BY <2>1
    <3>2. Half * q = Half * r + Half * (q - r) /\ Half * (q - r) \in Nat
      BY <1>2, <3>1
    <3>3. Half * q \in Nat /\ Half * r \in Nat
      BY <1>2
    <3>4. QED
      BY <1>1, <3>2, <3>3
  <2>2. QED
    BY <2>1
<1>4. r - q - 1 \in Nat /\ r = q + 1 + (r - q - 1)
  BY <1>3
<1>5. Half * r = Half * q + Half + Half * (r - q - 1) /\ Half * (r - q - 1) \in Nat
  BY <1>2, <1>4
<1>6. Half * q \in Nat
  BY <1>2
<1>7. QED
  BY <1>1, <1>2, <1>5, <1>6

LEMMA CharFacts == NUL \notin Stored /\ NUL \in Codes /\ FF \in Stored /\ Stored \subseteq Codes
BY CharAssumption DEF Stored, Codes, NUL, FF

(* A buffer that is NUL beyond its text is that text as a string. *)
LEMMA StringOf ==
  ASSUME NEW b \in [BufIndex -> Codes], NEW n \in BufIndex, NEW t \in Seq(Stored),
         Holds(b, n, t)
  PROVE  CString(b) = t
<1> DEFINE ends == {k \in BufIndex : b[k] = NUL /\ \A j \in 0..(k - 1) : b[j] # NUL}
<1>1. /\ BUF_LEN \in Nat \ {0} /\ n \in Nat /\ n <= BUF_LEN - 1
      /\ Len(t) = n /\ \A k \in BufIndex : b[k] = IF k < n THEN t[k + 1] ELSE NUL
  BY SizeFacts DEF BufIndex, Holds
<1>2. ASSUME NEW k \in 0..(n - 1) PROVE b[k] # NUL
  <2>1. k \in BufIndex /\ k < n /\ k + 1 \in 1..Len(t)
    BY <1>1 DEF BufIndex
  <2>2. b[k] = t[k + 1] /\ t[k + 1] \in Stored
    BY <1>1, <2>1, ElementOfSeq
  <2>3. QED
    BY <2>2, CharFacts
<1>3. n \in ends
  BY <1>1, <1>2
<1>4. ASSUME NEW k \in ends PROVE k = n
  <2>1. k \in BufIndex /\ b[k] = NUL /\ \A j \in 0..(k - 1) : b[j] # NUL
    OBVIOUS
  <2>2. k \in Nat
    BY <2>1, <1>1 DEF BufIndex
  <2>3. ~(k < n)
    BY <1>1, <1>2, <2>1, <2>2
  <2>4. ~(n < k)
    <3>1. n < k => n \in 0..(k - 1)
      BY <1>1, <2>2
    <3>2. b[n] = NUL
      BY <1>1, <1>3
    <3>3. QED
      BY <2>1, <3>1, <3>2
  <2>5. QED
    BY <1>1, <2>2, <2>3, <2>4
<1>5. ends # {} /\ (CHOOSE e \in ends : TRUE) = n
  BY <1>3, <1>4
<1>6. CString(b) = [k \in 1..n |-> b[k - 1]]
  BY <1>5 DEF CString
<1>7. \A k \in 1..n : b[k - 1] = t[k]
  <2>1. ASSUME NEW k \in 1..n PROVE b[k - 1] = t[k]
    <3>1. k - 1 \in BufIndex /\ k - 1 < n /\ (k - 1) + 1 = k
      BY <1>1 DEF BufIndex
    <3>2. QED
      BY <1>1, <3>1
  <2>2. QED
    BY <2>1
<1>8. [k \in 1..n |-> b[k - 1]] = [k \in 1..n |-> t[k]]
  BY <1>7
<1>9. t = [k \in 1..n |-> t[k]]
  BY <1>1
<1>10. QED
  BY <1>6, <1>8, <1>9

(* A buffer that is full of its text is that text and what is behind it. *)
LEMMA StringOfFull ==
  ASSUME NEW b \in [BufIndex -> Codes], NEW t \in Seq(Stored), Holds(b, BUF_LEN, t)
  PROVE  CString(b) = Append(t, Beyond)
<1>1. BUF_LEN \in Nat \ {0} /\ Len(t) = BUF_LEN
  BY SizeFacts DEF Holds
<1>2. \A k \in BufIndex : k + 1 \in 1..Len(t) /\ b[k] = t[k + 1]
  BY <1>1 DEF Holds, BufIndex
<1>3. \A k \in BufIndex : b[k] # NUL
  BY <1>2, ElementOfSeq, CharFacts
<1>4. CString(b) = Append([k \in 1..BUF_LEN |-> b[k - 1]], Beyond)
  BY <1>3 DEF CString
<1>5. \A k \in 1..BUF_LEN : b[k - 1] = t[k]
  <2>1. ASSUME NEW k \in 1..BUF_LEN PROVE b[k - 1] = t[k]
    <3>1. k - 1 \in BufIndex /\ (k - 1) + 1 = k
      BY <1>1 DEF BufIndex
    <3>2. QED
      BY <1>2, <3>1
  <2>2. QED
    BY <2>1
<1>6. [k \in 1..BUF_LEN |-> b[k - 1]] = [k \in 1..BUF_LEN |-> t[k]]
  BY <1>5
<1>7. t = [k \in 1..BUF_LEN |-> t[k]]
  BY <1>1
<1>8. QED
  BY <1>4, <1>6, <1>7

(* The bytes ReadSign takes from n characters of a buffer. *)
LEMMA PairsFacts ==
  ASSUME NEW b \in [BufIndex -> Codes], NEW n \in 0..BUF_LEN
  PROVE  /\ (n + 1) \div 2 \in 0..Half
         /\ Pairs(b, n) \in Seq(Codes \X Codes) /\ Len(Pairs(b, n)) = (n + 1) \div 2
         /\ \A k \in 1..((n + 1) \div 2) :
              /\ Pairs(b, n)[k] = <<b[2 * k - 2], b[2 * k - 1]>>
              /\ 2 * k - 2 \in BufIndex /\ 2 * k - 1 \in BufIndex
              /\ 2 * k - 2 \in 0..(n - 1)
<1> DEFINE m == (n + 1) \div 2
<1>1. BUF_LEN = 2 * Half /\ Half \in Nat \ {0} /\ n \in Nat /\ n <= 2 * Half
  BY SizeFacts
<1>2. m \in 0..Half /\ 2 * m <= n + 1
  BY <1>1
<1> HIDE DEF m
<1>3. \A k \in 1..m : 2 * k - 2 \in BufIndex /\ 2 * k - 1 \in BufIndex
  <2>1. ASSUME NEW k \in 1..m PROVE 2 * k - 1 <= BUF_LEN - 1 /\ 2 * k - 2 >= 0
    BY <1>1, <1>2
  <2>2. QED
    BY <1>1, <1>2, <2>1 DEF BufIndex
<1>4. Pairs(b, n) = [k \in 1..m |-> <<b[2 * k - 2], b[2 * k - 1]>>]
  BY DEF Pairs, m
<1>5. Pairs(b, n) \in Seq(Codes \X Codes) /\ Len(Pairs(b, n)) = m
  <2>1. \A k \in 1..m : <<b[2 * k - 2], b[2 * k - 1]>> \in Codes \X Codes
    BY <1>3
  <2>2. QED
    BY <1>2, <1>4, <2>1
<1>6. \A k \in 1..m : Pairs(b, n)[k] = <<b[2 * k - 2], b[2 * k - 1]>>
  BY <1>4
<1>7. \A k \in 1..m : 2 * k - 2 \in 0..(n - 1)
  <2>1. ASSUME NEW k \in 1..m PROVE 2 * k - 2 <= n - 1 /\ 2 * k - 2 >= 0
    BY <1>1, <1>2
  <2>2. QED
    BY <1>1, <1>2, <2>1
<1>8. QED
  BY <1>2, <1>3, <1>5, <1>6, <1>7 DEF m

-----------------------------------------------------------------------------
(* The end of a line.                                                      *)

(* A return to the preamble with anything but a signature that was read. *)
LEMMA ReturnStep ==
  ASSUME NEW what, Return(what), what # "s", cmd' \in Letters, text' \in Seq(Stored),
         clean' \in BOOLEAN, paused' \in BOOLEAN, keys' \in 0..MaxKeys, LineIsString'
  PROVE  IInv'
<1>1. /\ pc' = "preamble" /\ ran' = what /\ sign' = <<>> /\ i' = 0
      /\ buf' = [k \in BufIndex |-> NUL]
  BY DEF Return
<1>2. buf' \in [BufIndex -> Codes] /\ i' \in BufIndex
  BY <1>1, CharFacts, SizeFacts DEF BufIndex
<1>3. sign' \in Seq(Bytes) /\ Len(sign') = 0
  BY <1>1
<1>4. Shapes'
  BY <1>1, <1>2, <1>3 DEF Shapes, BufIndex
<1>5. LineHeld' /\ NotYetHanded' /\ SignHeld' /\ SignIsTyped'
  BY <1>1 DEF LineHeld, NotYetHanded, InLine, SignHeld, SignIsTyped
<1>6. SignInBounds'
  BY <1>3, SizeFacts DEF SignInBounds
<1>7. QED
  BY <1>4, <1>5, <1>6 DEF IInv

(* The bytes of a line behind those of the lines before it. *)
LEMMA SplitEnd ==
  ASSUME NEW s \in Seq(Bytes), NEW b \in [BufIndex -> Codes], NEW n \in 0..BUF_LEN,
         NEW t \in Seq(Stored), Split(s, b, n, t)
  PROVE  /\ Len(s \o Pairs(b, n)) = (Len(t) + 1) \div 2
         /\ PairsOf(s \o Pairs(b, n), t)
<1> DEFINE m == (n + 1) \div 2
           v == s \o Pairs(b, n)
<1>1. Len(s) \in Nat /\ n \in Nat /\ Len(t) = 2 * Len(s) + n /\ m \in Nat
  BY LenProperties, SizeFacts DEF Split
<1>2. Len(Pairs(b, n)) = m
  BY PairsFacts
<1>3. s \in Seq(Codes \X Codes) /\ Pairs(b, n) \in Seq(Codes \X Codes)
  <2>1. Bytes \subseteq Codes \X Codes
    BY CharFacts DEF Bytes
  <2>2. QED
    BY <2>1, PairsFacts, SeqMonotonic
<1>4. /\ Len(v) = Len(s) + m
      /\ \A k \in 1..(Len(s) + m) :
           v[k] = IF k <= Len(s) THEN s[k] ELSE Pairs(b, n)[k - Len(s)]
  <2>1. /\ Len(v) = Len(s) + Len(Pairs(b, n))
        /\ \A k \in 1..(Len(s) + Len(Pairs(b, n))) :
             v[k] = IF k <= Len(s) THEN s[k] ELSE Pairs(b, n)[k - Len(s)]
    BY <1>3, ConcatProperties
  <2>2. QED
    BY <1>2, <2>1
<1>5. Len(v) = (Len(t) + 1) \div 2
  <2>1. \A x \in Nat : (2 * x + n + 1) \div 2 = x + ((n + 1) \div 2)
    BY <1>1
  <2>2. (2 * Len(s) + n + 1) \div 2 = Len(s) + m
    BY <1>1, <2>1
  <2> HIDE DEF v, m
  <2>3. QED
    BY <1>1, <1>4, <2>2
<1>6. ASSUME NEW k \in 1..(Len(s) + m), 2 * k <= Len(t)
      PROVE  v[k] = <<t[2 * k - 1], t[2 * k]>>
  <2>1. CASE k <= Len(s)
    <3>1. k \in 1..Len(s) /\ v[k] = s[k]
      BY <1>1, <1>4, <1>6, <2>1
    <3>2. QED
      BY <1>6, <3>1 DEF Split, PairsOf
  <2>2. CASE ~(k <= Len(s))
    <3> DEFINE j == k - Len(s)
    <3>1. j \in 1..m /\ v[k] = Pairs(b, n)[j] /\ k = Len(s) + j
      BY <1>1, <1>4, <1>6, <2>2
    <3> HIDE DEF j
    <3>2. v[k] = <<b[2 * j - 2], b[2 * j - 1]>>
      BY <3>1, PairsFacts
    <3>3. /\ 2 * j - 2 \in 0..(n - 1) /\ 2 * j - 1 \in 0..(n - 1)
          /\ 2 * Len(s) + (2 * j - 2) + 1 = 2 * k - 1
          /\ 2 * Len(s) + (2 * j - 1) + 1 = 2 * k
      BY <1>1, <1>6, <3>1
    <3>4. b[2 * j - 2] = t[2 * k - 1] /\ b[2 * j - 1] = t[2 * k]
      BY <3>3 DEF Split
    <3>5. QED
      BY <3>2, <3>4
  <2>3. QED
    BY <2>1, <2>2
<1>7. QED
  BY <1>4, <1>5, <1>6 DEF PairsOf

LEMMA SignLineStep ==
  ASSUME IInv, pc = "sign", NEW b \in [BufIndex -> Codes], NEW n \in 0..BUF_LEN,
         \A j \in 0..(n - 1) : b[j] \in Stored,
         SignLine(b, n), cmd' = cmd, clean' = clean, handed' = handed,
         paused' \in BOOLEAN, text' \in Seq(Stored), keys' \in 0..MaxKeys,
         clean /\ ~paused' => Split(sign, b, n, text')
  PROVE  IInv'
<1> DEFINE bytes == Pairs(b, n)
           m == (n + 1) \div 2
           v == sign \o bytes
<1>1. /\ sign \in Seq(Bytes) /\ Len(sign) \in Nat /\ Len(sign) < SIGN_LEN
      /\ cmd \in Letters /\ clean \in BOOLEAN
  BY LenProperties DEF IInv, Shapes, SignHeld
<1>2. PICK q \in Nat : Len(sign) = Half * q
  BY DEF IInv, SignHeld
<1>3. /\ m \in 0..Half /\ Len(bytes) = m /\ Half \in Nat \ {0} /\ BUF_LEN = 2 * Half
      /\ SIGN_LEN \in Nat
  BY PairsFacts, SizeFacts
<1>4. LineIsString'
  BY DEF IInv, NotYetHanded, InLine, LineIsString
<1>5. CASE Return("SIGN_ERROR")
  BY <1>1, <1>4, <1>5, ReturnStep
<1>6. CASE ~Return("SIGN_ERROR")
  <2>1. /\ sign' = v /\ i' = 0
        /\ IF ~ShortLine(n) /\ Len(sign) + Len(bytes) < SIGN_LEN
           THEN buf' = b /\ UNCHANGED <<pc, ran>>
           ELSE pc' = "preamble" /\ ran' = "s" /\ buf' = [k \in BufIndex |-> NUL]
    BY <1>6 DEF SignLine
  <2>2. bytes \in Seq(Bytes)
    <3>1. ASSUME NEW k \in 1..m PROVE bytes[k] \in Bytes
      <4>1. /\ bytes[k] = <<b[2 * k - 2], b[2 * k - 1]>> /\ b[2 * k - 1] \in Codes
            /\ 2 * k - 2 \in 0..(n - 1)
        BY PairsFacts
      <4>2. b[2 * k - 2] \in Stored
        BY <4>1
      <4>3. QED
        BY <4>1, <4>2 DEF Bytes
    <3>2. bytes \in Seq(Codes \X Codes)
      BY PairsFacts
    <3> HIDE DEF bytes
    <3>3. bytes = [k \in 1..m |-> bytes[k]]
      BY <1>3, <3>2
    <3> HIDE DEF m
    <3>4. [k \in 1..m |-> bytes[k]] \in Seq(Bytes)
      BY <1>3, <3>1
    <3>5. QED
      BY <3>3, <3>4
  <2>3. v \in Seq(Bytes) /\ Len(v) = Len(sign) + m
    BY <1>1, <1>3, <2>2, ConcatProperties
  <2>4. clean /\ ~paused' => Len(v) = (Len(text') + 1) \div 2 /\ PairsOf(v, text')
    BY <1>1, SplitEnd
  <2>5. Len(v) <= SIGN_LEN
    <3>1. Half * q \in Nat /\ Half * q + Half <= SIGN_LEN
      BY <1>1, <1>2, <1>3, RoomForBuffer
    <3> HIDE DEF v, m
    <3>2. Len(v) = Half * q + m
      BY <1>2, <2>3
    <3>3. QED
      BY <1>3, <3>1, <3>2
  <2>6. 0 \in BufIndex
    BY SizeFacts DEF BufIndex
  <2> HIDE DEF bytes, m, v
  <2>7. CASE ~ShortLine(n) /\ Len(sign) + Len(bytes) < SIGN_LEN
    <3>1. sign' = v /\ buf' = b /\ i' = 0 /\ pc' = "sign"
      BY <2>1, <2>7
    <3>2. Shapes'
      BY <1>1, <2>3, <2>6, <3>1 DEF Shapes, BufIndex
    <3>3. n = 2 * Half
      BY <1>3, <2>7, SizeFacts DEF ShortLine
    <3>4. m = Half
      BY <1>3, <3>3 DEF m
    <3>5. \E p \in Nat : Len(v) = Half * p
      <4>1. Len(v) = Half * (q + 1)
        BY <1>2, <1>3, <2>3, <3>4
      <4>2. QED
        BY <4>1
    <3>6. ASSUME clean, ~paused' PROVE Split(v, b, 0, text')
      <4>1. Len(text') = 2 * Len(sign) + n
        BY <3>6 DEF Split
      <4>2. Len(text') = 2 * Len(v) + 0
        BY <1>1, <1>3, <2>3, <3>3, <3>4, <4>1
      <4>3. QED
        BY <2>4, <3>6, <4>2 DEF Split
    <3>7. SignHeld'
      <4>1. 0..(0 - 1) = {}
        OBVIOUS
      <4>2. QED
        BY <1>3, <2>3, <2>7, <3>1, <3>5, <3>6, <4>1 DEF SignHeld, Half
    <3>8. LineHeld' /\ NotYetHanded' /\ SignIsTyped' /\ SignInBounds'
      BY <2>5, <3>1 DEF IInv, InLine, LineHeld, NotYetHanded, SignIsTyped, SignInBounds
    <3>9. QED
      BY <1>4, <3>2, <3>7, <3>8 DEF IInv
  <2>8. CASE ~(~ShortLine(n) /\ Len(sign) + Len(bytes) < SIGN_LEN)
    <3>1. /\ sign' = v /\ buf' = [k \in BufIndex |-> NUL] /\ i' = 0
          /\ pc' = "preamble" /\ ran' = "s"
      BY <2>1, <2>8
    <3>2. buf' \in [BufIndex -> Codes]
      BY <3>1, CharFacts
    <3>3. Shapes'
      BY <1>1, <2>3, <2>6, <3>1, <3>2 DEF Shapes, BufIndex
    <3>4. SignIsTyped'
      <4>1. ASSUME clean, ~paused', NEW k \in 1..(Len(text') \div 2)
            PROVE  v[k] = <<text'[2 * k - 1], text'[2 * k]>>
        <5>1. Len(text') \in Nat
          BY LenProperties
        <5>2. k \in 1..Len(v) /\ 2 * k <= Len(text')
          BY <2>4, <4>1, <5>1
        <5>3. QED
          BY <2>4, <4>1, <5>2 DEF PairsOf
      <4>2. QED
        BY <2>4, <3>1, <4>1 DEF SignIsTyped
    <3>5. LineHeld' /\ NotYetHanded' /\ SignHeld' /\ SignInBounds'
      BY <2>5, <3>1 DEF InLine, LineHeld, NotYetHanded, SignHeld, SignInBounds
    <3>6. QED
      BY <1>4, <3>3, <3>4, <3>5 DEF IInv
  <2>9. QED
    BY <2>7, <2>8
<1>7. QED
  BY <1>5, <1>6

LEMMA DispatchedIsNoSign ==
  ASSUME NEW b, cmd \in Letters, cmd # "s"
  PROVE  "s" \notin Dispatched(b)
<1>1. CASE cmd \in {"u", "p", "h"}
  BY <1>1 DEF Dispatched, NumberAt
<1>2. CASE cmd \in {"c", "r", "b"}
  BY <1>2 DEF Dispatched
<1>3. CASE cmd = "d"
  BY <1>3 DEF Dispatched, Debugged, NumberAt
<1>4. QED
  BY <1>1, <1>2, <1>3 DEF Letters

LEMMA LineEndStep ==
  ASSUME IInv, InLine, NEW b \in [BufIndex -> Codes], NEW n \in 0..BUF_LEN,
         LineEnd(b, n), cmd' = cmd, clean' = clean, paused' \in BOOLEAN,
         text' \in Seq(Stored), keys' \in 0..MaxKeys,
         pc = "line" /\ ~paused' => CString(b) = StringFor(text'),
         pc = "sign" => \A j \in 0..(n - 1) : b[j] \in Stored,
         pc = "sign" /\ clean /\ ~paused' => Split(sign, b, n, text')
  PROVE  IInv'
<1>1. CASE pc = "sign"
  BY <1>1, SignLineStep DEF LineEnd
<1>2. CASE pc = "line"
  <2>1. PICK what \in Dispatched(b) : Return(what)
    BY <1>2 DEF LineEnd
  <2>2. /\ handed' = CString(b) /\ cmd # "s" /\ cmd' \in Letters /\ clean' \in BOOLEAN
    BY <1>2 DEF LineEnd, IInv, LineHeld, Shapes
  <2>3. what # "s"
    BY <2>1, <2>2, DispatchedIsNoSign DEF IInv, Shapes
  <2>4. LineIsString'
    BY <1>2, <2>2 DEF LineIsString, StringFor
  <2>5. QED
    BY <2>1, <2>2, <2>3, <2>4, ReturnStep
<1>3. QED
  BY <1>1, <1>2 DEF InLine

-----------------------------------------------------------------------------
(* The steps.                                                              *)

LEMMA Initially == Init => IInv
<1> SUFFICES ASSUME Init PROVE IInv
  OBVIOUS
<1>1. /\ pc = "preamble" /\ cmd = "u" /\ buf = [k \in BufIndex |-> NUL] /\ i = 0
      /\ sign = <<>> /\ ran = "none" /\ text = <<>> /\ clean = TRUE /\ paused = FALSE
      /\ handed = NoLine /\ keys = 0
  BY DEF Init
<1>2. /\ buf \in [BufIndex -> Codes] /\ i \in BufIndex /\ keys \in 0..MaxKeys
  BY <1>1, CharFacts, SizeFacts DEF BufIndex
<1>3. sign \in Seq(Bytes) /\ text \in Seq(Stored) /\ Len(sign) = 0
  BY <1>1
<1>4. Shapes
  BY <1>1, <1>2, <1>3 DEF Shapes, Letters
<1>5. SignInBounds
  BY <1>3, SizeFacts DEF SignInBounds
<1>6. QED
  BY <1>1, <1>4, <1>5
     DEF IInv, InLine, LineHeld, NotYetHanded, LineIsString, SignHeld, SignIsTyped

LEMMA TypedFacts == ASSUME IInv, Typed PROVE keys' \in 0..MaxKeys
BY SizeFacts DEF IInv, Shapes, Typed

LEMMA PreambleStep == IInv /\ Preamble => IInv'
<1> SUFFICES ASSUME IInv, Preamble PROVE IInv'
  OBVIOUS
<1>1. /\ pc = "preamble" /\ UNCHANGED <<cmd, buf, i, sign, text, clean, paused, handed>>
      /\ \/ pc' = "letter" /\ ran' = "none"
         \/ pc' = "preamble" /\ ran' = "PREAMBLE"
      /\ keys' \in 0..MaxKeys
  BY TypedFacts DEF Preamble, lineVars, typing
<1>2. Shapes'
  BY <1>1 DEF IInv, Shapes, BufIndex
<1>3. LineIsString'
  BY <1>1 DEF IInv, LineIsString
<1>4. QED
  BY <1>1, <1>2, <1>3
     DEF IInv, InLine, LineHeld, NotYetHanded, SignHeld, SignInBounds, SignIsTyped

LEMMA LetterStep == IInv /\ Letter => IInv'
<1> SUFFICES ASSUME IInv, Letter PROVE IInv'
  OBVIOUS
<1>1. /\ text' = <<>> /\ clean' = TRUE /\ paused' = FALSE /\ handed' = NoLine
      /\ text' \in Seq(Stored) /\ Len(text') = 0 /\ keys' \in 0..MaxKeys
      /\ LineIsString'
  BY TypedFacts DEF Letter, LineIsString
<1>2. CASE Return("WRONG_COMMAND") /\ cmd' = cmd
  BY <1>1, <1>2, ReturnStep DEF IInv, Shapes
<1>3. ASSUME NEW c \in Letters, cmd' = c, i' = 0, sign' = <<>>,
             pc' = IF c = "s" THEN "sign" ELSE "line",
             buf' = [k \in BufIndex |-> IF c = "s" THEN Stale ELSE NUL]
      PROVE  IInv'
  <2>1. buf' \in [BufIndex -> Codes] /\ i' \in BufIndex
    BY <1>3, SizeFacts DEF BufIndex, Codes
  <2>2. sign' \in Seq(Bytes) /\ Len(sign') = 0
    BY <1>3
  <2>3. Shapes'
    BY <1>1, <1>3, <2>1, <2>2 DEF Shapes, BufIndex
  <2>4. ASSUME pc' = "line" PROVE LineHeld'
    <3>1. cmd' # "s" /\ buf' = [k \in BufIndex |-> NUL]
      BY <1>3, <2>4
    <3>2. \A k \in BufIndex : buf'[k] = NUL /\ ~(k < 0)
      BY <3>1, SizeFacts DEF BufIndex
    <3>3. QED
      BY <1>1, <1>3, <3>1, <3>2 DEF LineHeld, Holds, BufIndex
  <2>5. ASSUME pc' = "sign" PROVE SignHeld'
    <3>1. Half * 0 = 0 /\ 0 < SIGN_LEN /\ 2 * 0 + 0 = 0 /\ 0..(0 - 1) = {} /\ 1..0 = {}
      BY SizeFacts
    <3>2. \E q \in Nat : Len(sign') = Half * q
      BY <2>2, <3>1
    <3>3. Split(sign', buf', 0, text')
      BY <1>1, <2>2, <3>1 DEF Split, PairsOf
    <3>4. QED
      BY <1>3, <2>2, <3>1, <3>2, <3>3 DEF SignHeld, Half
  <2>6. SignInBounds'
    BY <2>2, SizeFacts DEF SignInBounds
  <2>7. QED
    BY <1>1, <1>3, <2>3, <2>4, <2>5, <2>6
       DEF IInv, LineHeld, NotYetHanded, SignHeld, SignIsTyped
<1>4. QED
  BY <1>2, <1>3 DEF Letter

LEMMA LetterSilenceStep == IInv /\ LetterSilence => IInv'
<1> SUFFICES ASSUME IInv, LetterSilence PROVE IInv'
  OBVIOUS
<1>1. Return("TIMEOUT") /\ UNCHANGED <<cmd, text, clean, paused, handed, keys>>
  BY DEF LetterSilence, typing
<1>2. LineIsString'
  BY <1>1 DEF IInv, LineIsString
<1>3. QED
  BY <1>1, <1>2, ReturnStep DEF IInv, Shapes

(* A character, or the silence that is taken for one. *)
LEMMA StoreStep ==
  ASSUME IInv, InLine, NEW c \in Stored, Store(c), cmd' = cmd, clean' = clean,
         keys' \in 0..MaxKeys, text' \in Seq(Stored), paused' \in BOOLEAN,
         ~paused' => ~paused /\ text' = Append(text, c)
  PROVE  IInv'
<1> DEFINE b == [buf EXCEPT ![i] = c]
<1>1. /\ buf \in [BufIndex -> Codes] /\ i \in BufIndex /\ text \in Seq(Stored)
      /\ sign \in Seq(Bytes) /\ Len(sign) \in Nat /\ Len(text) \in Nat
      /\ clean \in BOOLEAN /\ cmd \in Letters
  BY LenProperties DEF IInv, Shapes
<1>2. i \in Nat /\ i <= BUF_LEN - 1 /\ BUF_LEN \in Nat \ {0}
  BY <1>1, SizeFacts DEF BufIndex
<1>3. /\ b \in [BufIndex -> Codes] /\ b[i] = c
      /\ \A k \in BufIndex : k # i => b[k] = buf[k]
  BY <1>1, CharFacts
<1>4. ASSUME ~paused'
      PROVE  /\ Len(text') = Len(text) + 1 /\ text'[Len(text) + 1] = c
             /\ \A k \in 1..Len(text) : text'[k] = text[k]
  BY <1>1, <1>4
<1>4a. ASSUME pc = "sign" PROVE \A j \in 0..((i + 1) - 1) : b[j] \in Stored
  <2>1. \A j \in 0..(i - 1) : buf[j] \in Stored /\ j \in BufIndex /\ j # i
    BY <1>2, <1>4a DEF IInv, SignHeld, BufIndex
  <2>2. \A j \in 0..((i + 1) - 1) : j = i \/ j \in 0..(i - 1)
    BY <1>2
  <2> HIDE DEF b
  <2>3. QED
    BY <1>3, <2>1, <2>2
<1>4b. ASSUME pc = "line", ~paused'
      PROVE  /\ Len(text') = i + 1
             /\ \A k \in BufIndex : b[k] = IF k < i + 1 THEN text'[k + 1] ELSE NUL
  <2>1. /\ Len(text) = i
        /\ \A k \in BufIndex : buf[k] = IF k < i THEN text[k + 1] ELSE NUL
    BY <1>4b DEF IInv, LineHeld, Holds
  <2> HIDE DEF b
  <2>2. ASSUME NEW k \in BufIndex
        PROVE  b[k] = IF k < i + 1 THEN text'[k + 1] ELSE NUL
    <3>1. k \in Nat
      BY <1>2 DEF BufIndex
    <3>2. CASE k = i
      BY <1>2, <1>3, <1>4, <1>4b, <2>1, <3>2
    <3>3. CASE k < i
      <4>1. k # i /\ k + 1 \in 1..Len(text) /\ k < i + 1
        BY <1>2, <2>1, <3>1, <3>3
      <4>2. QED
        BY <1>3, <1>4, <1>4b, <2>1, <3>3, <4>1
    <3>4. CASE k > i
      <4>1. k # i /\ ~(k < i + 1) /\ ~(k < i)
        BY <1>2, <3>1, <3>4
      <4>2. QED
        BY <1>3, <2>1, <4>1
    <3>5. QED
      BY <1>2, <3>1, <3>2, <3>3, <3>4
  <2>3. QED
    BY <1>4, <1>4b, <2>1, <2>2
<1> HIDE DEF b
<1>5. ASSUME pc = "sign", clean, ~paused'
      PROVE  Split(sign, b, i + 1, text')
  <2>1. Split(sign, buf, i, text)
    BY <1>5 DEF IInv, SignHeld
  <2>2. Len(text) = 2 * Len(sign) + i
    BY <2>1 DEF Split
  <2>3. Len(text') = 2 * Len(sign) + (i + 1)
    BY <1>1, <1>2, <1>4, <1>5, <2>2
  <2>4. PairsOf(sign, text')
    <3>1. ASSUME NEW k \in 1..Len(sign) PROVE sign[k] = <<text'[2 * k - 1], text'[2 * k]>>
      <4>1. /\ 2 * k \in 1..Len(text) /\ 2 * k - 1 \in 1..Len(text)
            /\ 2 * k <= Len(text)
        BY <1>1, <1>2, <2>2
      <4>2. sign[k] = <<text[2 * k - 1], text[2 * k]>>
        BY <2>1, <4>1 DEF Split, PairsOf
      <4>3. QED
        BY <1>4, <1>5, <4>1, <4>2
    <3>2. QED
      BY <3>1 DEF PairsOf
  <2>5. ASSUME NEW j \in 0..((i + 1) - 1) PROVE b[j] = text'[2 * Len(sign) + j + 1]
    <3>1. CASE j = i
      <4>1. 2 * Len(sign) + j + 1 = Len(text) + 1
        BY <1>1, <1>2, <2>2, <3>1
      <4>2. QED
        BY <1>3, <1>4, <1>5, <3>1, <4>1
    <3>2. CASE j # i
      <4>1. j \in 0..(i - 1) /\ j \in BufIndex
        BY <1>2, <3>2 DEF BufIndex
      <4>2. 2 * Len(sign) + j + 1 \in 1..Len(text)
        BY <1>1, <1>2, <2>2, <4>1
      <4>3. buf[j] = text[2 * Len(sign) + j + 1]
        BY <2>1, <4>1 DEF Split
      <4>4. QED
        BY <1>3, <1>4, <1>5, <3>2, <4>1, <4>2, <4>3
    <3>3. QED
      BY <3>1, <3>2
  <2>6. QED
    BY <2>3, <2>4, <2>5 DEF Split
<1>6. CASE Full(i + 1)
  <2>1. LineEnd(b, BUF_LEN) /\ i + 1 = BUF_LEN
    BY <1>6 DEF Store, Full, b
  <2>2. BUF_LEN \in 0..BUF_LEN
    BY <1>2
  <2>3. ASSUME pc = "line", ~paused' PROVE CString(b) = StringFor(text')
    <3>1. Holds(b, BUF_LEN, text')
      BY <1>4b, <2>1, <2>3 DEF Holds
    <3>2. Len(text') = BUF_LEN
      BY <3>1 DEF Holds
    <3>3. QED
      BY <1>2, <1>3, <3>1, <3>2, StringOfFull DEF StringFor
  <2>4. QED
    BY <1>3, <1>5, <1>4a, <2>1, <2>2, <2>3, LineEndStep
<1>7. CASE ~Full(i + 1)
  <2>1. buf' = b /\ i' = i + 1 /\ UNCHANGED <<pc, sign, ran, handed>>
    BY <1>7 DEF Store, b
  <2>2. i' \in BufIndex
    BY <1>2, <1>7, <2>1 DEF Full, BufIndex
  <2>3. Shapes'
    BY <1>1, <1>3, <2>1, <2>2 DEF IInv, Shapes, BufIndex
  <2>4. LineHeld'
    BY <1>4b, <2>1 DEF IInv, LineHeld, Holds, BufIndex
  <2>5. SignHeld'
    BY <1>5, <1>4a, <2>1 DEF IInv, SignHeld, Half
  <2>6. SignInBounds' /\ SignIsTyped' /\ NotYetHanded' /\ LineIsString'
    BY <2>1 DEF IInv, SignInBounds, SignIsTyped, NotYetHanded, LineIsString, InLine
  <2>7. QED
    BY <2>3, <2>4, <2>5, <2>6 DEF IInv
<1>8. QED
  BY <1>6, <1>7

LEMMA CharacterStep == IInv /\ Character => IInv'
<1> SUFFICES ASSUME IInv, Character PROVE IInv'
  OBVIOUS
<1>1. PICK c \in Chars : Store(c) /\ text' = Append(text, c)
  BY DEF Character
<1>2. /\ InLine /\ cmd' = cmd /\ clean' = clean /\ paused' = paused
      /\ keys' \in 0..MaxKeys /\ c \in Stored
  BY TypedFacts DEF Character, Stored
<1>3. text' \in Seq(Stored) /\ paused' \in BOOLEAN
  BY <1>1, <1>2 DEF IInv, Shapes
<1>4. QED
  BY <1>1, <1>2, <1>3, StoreStep

LEMMA LineSilenceStep == IInv /\ LineSilence => IInv'
<1> SUFFICES ASSUME IInv, LineSilence PROVE IInv'
  OBVIOUS
<1>1. /\ InLine /\ Store(FF) /\ cmd' = cmd /\ clean' = clean /\ keys' \in 0..MaxKeys
      /\ paused' = TRUE /\ text' \in Seq(Stored) /\ FF \in Stored
  BY CharFacts DEF LineSilence, IInv, Shapes
<1>2. QED
  BY <1>1, StoreStep

LEMMA CarriageReturnStep == IInv /\ CarriageReturn => IInv'
<1> SUFFICES ASSUME IInv, CarriageReturn PROVE IInv'
  OBVIOUS
<1>1. /\ UNCHANGED <<pc, cmd, buf, i, sign, ran, text, clean, paused, handed>>
      /\ keys' \in 0..MaxKeys
  BY TypedFacts DEF CarriageReturn, lineVars, typing
<1>2. QED
  BY <1>1
     DEF IInv, InLine, Shapes, LineHeld, Holds, NotYetHanded, LineIsString, SignHeld,
         SignInBounds, SignIsTyped, BufIndex, Half

LEMMA DropFacts ==
  ASSUME NEW t \in Seq(Stored)
  PROVE  /\ Drop(t) \in Seq(Stored)
         /\ t = <<>> => Drop(t) = <<>>
         /\ Len(t) > 0 => /\ Len(Drop(t)) = Len(t) - 1
                          /\ \A k \in 1..(Len(t) - 1) : Drop(t)[k] = t[k]
<1>1. Len(t) \in Nat
  BY LenProperties
<1>2. CASE t = <<>>
  BY <1>2 DEF Drop
<1>3. CASE t # <<>>
  <2>1. Len(t) > 0 /\ Drop(t) = SubSeq(t, 1, Len(t) - 1)
    BY <1>1, <1>3, EmptySeq DEF Drop
  <2>2. /\ SubSeq(t, 1, Len(t) - 1) \in Seq(Stored)
        /\ Len(SubSeq(t, 1, Len(t) - 1)) = Len(t) - 1
        /\ \A k \in 1..(Len(t) - 1) : SubSeq(t, 1, Len(t) - 1)[k] = t[k]
    <3> DEFINE n == Len(t) - 1
    <3>1. n \in Nat /\ n <= Len(t)
      BY <1>1, <2>1
    <3>2. \A k \in 1..n : t[k] \in Stored
      BY <1>1, <3>1
    <3> HIDE DEF n
    <3>3. /\ SubSeq(t, 1, n) \in Seq(Stored) /\ Len(SubSeq(t, 1, n)) = n
          /\ \A k \in 1..n : SubSeq(t, 1, n)[k] = t[k]
      BY <3>1, <3>2
    <3>4. QED
      BY <3>3 DEF n
  <2>3. QED
    BY <1>3, <2>1, <2>2
<1>4. QED
  BY <1>2, <1>3

LEMMA BackspaceStep == IInv /\ Backspace => IInv'
<1> SUFFICES ASSUME IInv, Backspace PROVE IInv'
  OBVIOUS
<1>1. /\ InLine /\ text' = Drop(text) /\ UNCHANGED <<pc, cmd, sign, ran, paused, handed>>
      /\ keys' \in 0..MaxKeys
      /\ \/ i > 0 /\ buf' = [buf EXCEPT ![i - 1] = NUL] /\ i' = i - 1 /\ clean' = clean
         \/ ~(i > 0) /\ clean' = FALSE /\ buf' = buf /\ i' = i
  BY TypedFacts DEF Backspace, Erased, lineVars
<1>2. /\ buf \in [BufIndex -> Codes] /\ i \in BufIndex /\ text \in Seq(Stored)
      /\ sign \in Seq(Bytes) /\ Len(sign) \in Nat /\ Len(text) \in Nat
      /\ clean \in BOOLEAN
  BY LenProperties DEF IInv, Shapes
<1>3. i \in Nat /\ i <= BUF_LEN - 1 /\ BUF_LEN \in Nat \ {0}
  BY <1>2, SizeFacts DEF BufIndex
<1>4. /\ buf' \in [BufIndex -> Codes] /\ i' \in BufIndex /\ text' \in Seq(Stored)
      /\ clean' \in BOOLEAN
  <2>1. text' \in Seq(Stored) /\ clean' \in BOOLEAN
    BY <1>1, <1>2, DropFacts
  <2>2. buf' \in [BufIndex -> Codes]
    BY <1>1, <1>2, CharFacts
  <2>3. i' \in BufIndex
    BY <1>1, <1>2, <1>3 DEF BufIndex
  <2>4. QED
    BY <2>1, <2>2, <2>3
<1>5. Shapes'
  BY <1>1, <1>4 DEF IInv, Shapes, BufIndex
<1>6. SignInBounds' /\ SignIsTyped' /\ NotYetHanded' /\ LineIsString'
  BY <1>1 DEF IInv, SignInBounds, SignIsTyped, NotYetHanded, LineIsString, InLine
<1>7. CASE i > 0
  <2>1. /\ buf' \in [BufIndex -> Codes] /\ buf'[i - 1] = NUL /\ i' = i - 1
        /\ clean' = clean /\ \A k \in BufIndex : k # i - 1 => buf'[k] = buf[k]
    <3>1. i - 1 \in BufIndex
      BY <1>3, <1>7 DEF BufIndex
    <3>2. QED
      BY <1>1, <1>2, <1>4, <1>7, <3>1
  <2>2. ASSUME pc = "line", ~paused
        PROVE  /\ Len(text') = i'
               /\ \A k \in BufIndex : buf'[k] = IF k < i' THEN text'[k + 1] ELSE NUL
    <3>1. /\ Len(text) = i
          /\ \A k \in BufIndex : buf[k] = IF k < i THEN text[k + 1] ELSE NUL
      BY <2>2 DEF IInv, LineHeld, Holds
    <3>2. Len(text') = i - 1 /\ \A k \in 1..(i - 1) : text'[k] = text[k]
      BY <1>1, <1>2, <1>7, <3>1, DropFacts
    <3>3. ASSUME NEW k \in BufIndex
          PROVE  buf'[k] = IF k < i' THEN text'[k + 1] ELSE NUL
      <4>1. k \in Nat
        BY <1>3 DEF BufIndex
      <4>2. CASE k = i - 1
        BY <1>3, <2>1, <4>1, <4>2
      <4>3. CASE k < i - 1
        <5>1. k # i - 1 /\ k + 1 \in 1..(i - 1) /\ k < i /\ k < i'
          BY <1>3, <2>1, <4>1, <4>3
        <5>2. QED
          BY <2>1, <3>1, <3>2, <5>1
      <4>4. CASE k > i - 1
        <5>1. k # i - 1 /\ ~(k < i) /\ ~(k < i')
          BY <1>3, <2>1, <4>1, <4>4
        <5>2. QED
          BY <2>1, <3>1, <5>1
      <4>5. QED
        BY <1>3, <4>1, <4>2, <4>3, <4>4
    <3>4. QED
      BY <2>1, <3>1, <3>2, <3>3
  <2>3. ASSUME pc = "sign", clean, ~paused
        PROVE  Split(sign, buf', i', text')
    <3>1. Split(sign, buf, i, text)
      BY <2>3 DEF IInv, SignHeld
    <3>2. Len(text) = 2 * Len(sign) + i
      BY <3>1 DEF Split
    <3>3. Len(text) > 0
      BY <1>2, <1>3, <1>7, <3>2
    <3>4. Len(text') = Len(text) - 1 /\ \A k \in 1..(Len(text) - 1) : text'[k] = text[k]
      BY <1>1, <1>2, <3>3, DropFacts
    <3>5. Len(text') = 2 * Len(sign) + i'
      BY <1>2, <1>3, <2>1, <3>2, <3>4
    <3>6. ASSUME NEW k \in 1..Len(sign) PROVE sign[k] = <<text'[2 * k - 1], text'[2 * k]>>
      <4>1. /\ 2 * k \in 1..(Len(text) - 1) /\ 2 * k - 1 \in 1..(Len(text) - 1)
            /\ 2 * k <= Len(text)
        BY <1>2, <1>3, <1>7, <3>2
      <4>2. sign[k] = <<text[2 * k - 1], text[2 * k]>>
        BY <3>1, <4>1 DEF Split, PairsOf
      <4>3. QED
        BY <3>4, <4>1, <4>2
    <3>7. ASSUME NEW j \in 0..(i' - 1) PROVE buf'[j] = text'[2 * Len(sign) + j + 1]
      <4>1. j \in 0..(i - 1) /\ j \in BufIndex /\ j # i - 1
        BY <1>3, <1>7, <2>1 DEF BufIndex
      <4>2. 2 * Len(sign) + j + 1 \in 1..(Len(text) - 1)
        BY <1>2, <1>3, <2>1, <3>2
      <4>3. buf[j] = text[2 * Len(sign) + j + 1]
        BY <3>1, <4>1 DEF Split
      <4>4. QED
        BY <2>1, <3>4, <4>1, <4>2, <4>3
    <3>8. QED
      BY <3>5, <3>6, <3>7 DEF Split, PairsOf
  <2>4. LineHeld'
    BY <1>1, <2>2 DEF IInv, LineHeld, Holds, BufIndex
  <2>5. SignHeld'
    <3>1. ASSUME pc = "sign" PROVE \A j \in 0..(i' - 1) : buf'[j] \in Stored
      <4>1. \A j \in 0..(i' - 1) : j \in 0..(i - 1) /\ j \in BufIndex /\ j # i - 1
        BY <1>3, <1>7, <2>1 DEF BufIndex
      <4>2. \A j \in 0..(i - 1) : buf[j] \in Stored
        BY <3>1 DEF IInv, SignHeld
      <4>3. QED
        BY <2>1, <4>1, <4>2
    <3>2. QED
      BY <1>1, <2>1, <2>3, <3>1 DEF IInv, SignHeld, Half
  <2>6. QED
    BY <1>5, <1>6, <2>4, <2>5 DEF IInv
<1>8. CASE ~(i > 0)
  <2>1. i = 0 /\ clean' = FALSE /\ buf' = buf /\ i' = i
    BY <1>1, <1>3, <1>8
  <2>2. ASSUME pc = "line", ~paused PROVE text' = text
    <3>1. Len(text) = 0
      BY <2>1, <2>2 DEF IInv, LineHeld, Holds
    <3>2. text = <<>>
      BY <1>2, <3>1, EmptySeq
    <3>3. QED
      BY <1>1, <1>2, <3>2, DropFacts
  <2>3. LineHeld'
    BY <1>1, <2>1, <2>2 DEF IInv, LineHeld, Holds, BufIndex
  <2>4. SignHeld'
    BY <1>1, <2>1 DEF IInv, SignHeld, Half
  <2>5. QED
    BY <1>5, <1>6, <2>3, <2>4 DEF IInv
<1>9. QED
  BY <1>7, <1>8

LEMMA NewlineStep == IInv /\ Newline => IInv'
<1> SUFFICES ASSUME IInv, Newline PROVE IInv'
  OBVIOUS
<1>1. /\ InLine /\ LineEnd(buf, i) /\ UNCHANGED <<cmd, text, clean, paused>>
      /\ keys' \in 0..MaxKeys
  BY TypedFacts DEF Newline, typing
<1>2. /\ buf \in [BufIndex -> Codes] /\ i \in BufIndex /\ text' \in Seq(Stored)
      /\ paused' \in BOOLEAN
      /\ pc = "sign" => \A j \in 0..(i - 1) : buf[j] \in Stored
      /\ pc = "sign" /\ clean /\ ~paused' => Split(sign, buf, i, text')
  BY <1>1 DEF IInv, Shapes, SignHeld
<1>3. i \in 0..BUF_LEN /\ i < BUF_LEN
  BY <1>2, SizeFacts DEF BufIndex
<1>4. ASSUME pc = "line", ~paused' PROVE CString(buf) = StringFor(text')
  <2>1. Holds(buf, i, text') /\ Len(text') = i
    BY <1>1, <1>4 DEF IInv, LineHeld, Holds
  <2>2. QED
    BY <1>2, <1>3, <2>1, StringOf DEF StringFor
<1>5. QED
  BY <1>1, <1>2, <1>3, <1>4, LineEndStep

LEMMA Invariance == Spec => []IInv
<1>1. IInv /\ [Next]_vars => IInv'
  <2> SUFFICES ASSUME IInv, [Next]_vars PROVE IInv'
    OBVIOUS
  <2>1. CASE UNCHANGED vars
    BY <2>1
       DEF vars, lineVars, typing, IInv, InLine, Shapes, LineHeld, Holds, NotYetHanded,
           LineIsString, SignHeld, SignInBounds, SignIsTyped, BufIndex, Half
  <2>2. QED
    BY <2>1, PreambleStep, LetterStep, LetterSilenceStep, CharacterStep, LineSilenceStep,
       CarriageReturnStep, BackspaceStep, NewlineStep DEF Next
<1>2. QED
  BY <1>1, Initially, PTL DEF Spec

-----------------------------------------------------------------------------
(* The types. *)
THEOREM TypeCorrect == Spec => []TypeOK
<1>1. IInv => TypeOK
  <2> SUFFICES ASSUME IInv PROVE TypeOK
    OBVIOUS
  <2>1. \A k \in 1..Len(sign) : sign[k] \in Bytes
    BY ElementOfSeq DEF IInv, Shapes
  <2>2. QED
    BY <2>1 DEF IInv, Shapes, TypeOK, Bytes, Stored, Codes
<1>2. QED
  BY <1>1, Invariance, PTL

(* The string a command's handler is given is the text as it was edited,   *)
(* and one that fills the line buffer has no end in it.                    *)
THEOREM LineCorrect == Spec => []LineIsString
<1>1. IInv => LineIsString
  BY DEF IInv
<1>2. QED
  BY <1>1, Invariance, PTL

(* No byte is stored beyond the signature buffer. *)
THEOREM SignFits == Spec => []SignInBounds
<1>1. IInv => SignInBounds
  BY DEF IInv
<1>2. QED
  BY <1>1, Invariance, PTL

(* The signature that is verified is the one that was typed, through all   *)
(* the buffers it came in.                                                 *)
THEOREM SignFaithful == Spec => []SignIsTyped
<1>1. IInv => SignIsTyped
  BY DEF IInv
<1>2. QED
  BY <1>1, Invariance, PTL
=============================================================================
