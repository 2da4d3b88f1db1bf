--------------------------- MODULE OtaSessionProofs ---------------------------
(***************************************************************************)
(* Proofs about OtaSession, for any images of any length, any flash, any   *)
(* start arguments, any page, and whichever of HotaInit, HotaWrite and     *)
(* HotaRead may fail.                                                      *)
(***************************************************************************)
EXTENDS OtaSession, SequenceTheorems, TLAPS

Uploads == [file : Images \cup {"none"}, start : Starts \cup {0}, data : Seq(Units),
            running : BOOLEAN, intact : BOOLEAN]
Reports == [start : 0..FlashLen, size : 0..FlashLen, data : Seq(Units), sound : BOOLEAN]

Shapes ==
  /\ hash \in Seq(Units) /\ flash \in [0..(FlashLen - 1) -> Units]
  /\ updater \in {"ready", "initFailed"}
  /\ upload \in Uploads /\ verdict \in Images \cup {"none"} /\ reported \in Reports

(* While an upload runs nothing has been verified or reported, and only a  *)
(* ready update service leaves it intact.                                  *)
Unreported ==
  upload.running => /\ upload.file \in Images
                    /\ verdict = "none" /\ reported = NoReport
                    /\ upload.intact => updater = "ready"

(* Between uploads the device has the hash of the last one, or none. *)
HashOfLast == Idle => hash \in {ZeroHash, upload.data}

(* The flash holds what an intact upload has brought so far. *)
FlashHolds ==
  upload.intact =>
    \A i \in 1..Len(upload.data) :
      /\ Offset(upload.start) + i - 1 \in 0..(FlashLen - 1)
      /\ flash[Offset(upload.start) + i - 1] = upload.data[i]

IInv ==
  /\ Shapes /\ Unreported /\ HashOfLast /\ FlashHolds
  /\ VerdictIsOfLastUpload /\ HashesAgree

-----------------------------------------------------------------------------
LEMMA RangeFacts ==
  ASSUME flash \in [0..(FlashLen - 1) -> Units],
         NEW start \in Nat, NEW n \in Nat, start + n <= FlashLen
  PROVE  /\ FlashRange(start, n) \in Seq(Units) /\ Len(FlashRange(start, n)) = n
         /\ \A i \in 1..n : FlashRange(start, n)[i] = flash[start + i - 1]
<1>1. FlashLen \in Nat
  BY SizeAssumption
<1>2. \A i \in 1..n : start + i - 1 \in 0..(FlashLen - 1)
  BY <1>1
<1>3. \A i \in 1..n : flash[start + i - 1] \in Units
  BY <1>2
<1>4. FlashRange(start, n) \in [1..n -> Units]
  BY <1>3 DEF FlashRange
<1>5. FlashRange(start, n) \in Seq(Units) /\ Len(FlashRange(start, n)) = n
  BY <1>4
<1>6. \A i \in 1..n : FlashRange(start, n)[i] = flash[start + i - 1]
  BY DEF FlashRange
<1>7. QED
  BY <1>5, <1>6

LEMMA ImageFacts ==
  ASSUME NEW f
  PROVE  Image(f) \in Seq(Nat \cup {Image(f)[i] : i \in 1..ImageLen})
         /\ Len(Image(f)) = ImageLen /\ Image(f) # ZeroHash
<1>1. ImageLen \in Nat \ {0}
  BY SizeAssumption
<1> DEFINE T == Nat \cup {Image(f)[i] : i \in 1..ImageLen}
<1>2. Image(f) \in [1..ImageLen -> T]
  BY DEF Image
<1> HIDE DEF T
<1>3. Image(f) \in Seq(T) /\ Len(Image(f)) = ImageLen
  BY <1>1, <1>2
<1>4. Len(ZeroHash) = 0
  BY DEF ZeroHash
<1>5. QED
  BY <1>1, <1>3, <1>4 DEF T

LEMMA StartFacts ==
  /\ NoUpload \in Uploads /\ NoReport \in Reports /\ ZeroHash \in Seq(Units)
  /\ Other \in Units /\ FlashLen \in Nat /\ Starts \cup {0} \subseteq Int
  /\ \A start \in Int : Offset(start) \in Nat /\ At(start) = Offset(start)
<1>1. FlashLen \in Nat /\ Starts \subseteq Int
  BY SizeAssumption
<1>2. <<>> \in Seq(Units)
  OBVIOUS
<1>3. NoUpload \in Uploads
  BY <1>2 DEF NoUpload, Uploads
<1>4. NoReport \in Reports
  BY <1>1, <1>2 DEF NoReport, Reports
<1>5. Other \in Units
  BY DEF Units
<1>6. QED
  BY <1>1, <1>2, <1>3, <1>4, <1>5 DEF ZeroHash, Offset, At

LEMMA Initially == Init => IInv
<1> SUFFICES ASSUME Init PROVE IInv
  OBVIOUS
<1>1. /\ hash = ZeroHash /\ upload = NoUpload /\ verdict = "none"
      /\ reported = NoReport
  BY DEF Init
<1>2. flash \in [0..(FlashLen - 1) -> Units]
  BY StartFacts DEF Init
<1>3. updater \in {"ready", "initFailed"}
  BY DEF Init, AfterHotaInit
<1>4. Shapes
  BY <1>1, <1>2, <1>3, StartFacts DEF Shapes
<1>5. upload.running = FALSE /\ upload.intact = FALSE
  BY <1>1 DEF NoUpload
<1>6. QED
  BY <1>1, <1>4, <1>5
     DEF IInv, Unreported, HashOfLast, FlashHolds, VerdictIsOfLastUpload, HashesAgree

(* A boot, whatever has happened to the flash outside what an intact       *)
(* upload has brought.                                                     *)
LEMMA BootStep ==
  ASSUME IInv, Boot, flash' \in [0..(FlashLen - 1) -> Units],
         upload.intact =>
           \A i \in 1..Len(upload.data) :
             flash'[Offset(upload.start) + i - 1] = flash[Offset(upload.start) + i - 1]
  PROVE  IInv'
<1>1. upload \in Uploads
  BY DEF IInv, Shapes
<1>2. /\ hash' = ZeroHash /\ verdict' = "none" /\ reported' = NoReport
      /\ updater' \in {"ready", "initFailed"}
      /\ upload' = [upload EXCEPT !.running = FALSE]
  BY DEF Boot, Started, AfterHotaInit
<1>3. /\ upload' \in Uploads /\ upload'.running = FALSE
      /\ upload'.data = upload.data /\ upload'.start = upload.start
      /\ upload'.intact = upload.intact
  BY <1>1, <1>2 DEF Uploads
<1>4. Shapes'
  BY <1>2, <1>3, StartFacts DEF Shapes
<1>5. FlashHolds'
  BY <1>3 DEF IInv, FlashHolds
<1>6. ZeroHash' = ZeroHash /\ NoReport' = NoReport
  BY DEF ZeroHash, NoReport
<1>7. HashesAgree'
  <2>1. reported'.sound = FALSE
    BY <1>2 DEF NoReport
  <2>2. QED
    BY <1>2, <1>6, <2>1 DEF HashesAgree
<1>8. QED
  BY <1>2, <1>3, <1>4, <1>5, <1>6, <1>7
     DEF IInv, Unreported, HashOfLast, Idle, VerdictIsOfLastUpload

LEMMA BeginStep ==
  ASSUME IInv, NEW f \in Images, NEW start \in Starts, BeginUpload(f, start)
  PROVE  IInv'
<1>1. /\ upload'.file = f /\ upload'.running = TRUE /\ upload'.data = <<>>
      /\ upload'.intact = (updater = "ready")
      /\ verdict' = "none" /\ reported' = NoReport
      /\ hash' = hash /\ flash' = flash /\ updater' = updater
  BY DEF BeginUpload
<1>2. upload' \in Uploads
  <2>1. <<>> \in Seq(Units) /\ (updater = "ready") \in BOOLEAN
    OBVIOUS
  <2>2. QED
    BY <2>1 DEF BeginUpload, Uploads
<1>3. Shapes'
  BY <1>1, <1>2, StartFacts DEF IInv, Shapes
<1>4. Len(upload'.data) = 0
  BY <1>1
<1>5. FlashHolds'
  BY <1>4 DEF FlashHolds
<1>6. QED
  BY <1>1, <1>3, <1>5
     DEF IInv, Unreported, HashOfLast, Idle, VerdictIsOfLastUpload, HashesAgree, NoReport

LEMMA PacketStep == IInv /\ UploadPacket => IInv'
<1> SUFFICES ASSUME IInv, UploadPacket PROVE IInv'
  OBVIOUS
<1> DEFINE n == Len(upload.data)
           off == Offset(upload.start)
           u == Unit(upload.file, n + 1)
           d == Append(upload.data, u)
<1>1. /\ upload \in Uploads /\ upload.data \in Seq(Units) /\ upload.start \in Int
      /\ flash \in [0..(FlashLen - 1) -> Units]
  BY StartFacts DEF IInv, Shapes, Uploads
<1>2. n \in Nat /\ off \in Nat /\ FlashLen \in Nat
  <2>1. n \in Nat
    BY <1>1, LenProperties
  <2>2. off \in Nat /\ FlashLen \in Nat
    BY <1>1, StartFacts
  <2>3. QED
    BY <2>1, <2>2
<1>3. u \in Units
  <2>1. upload.file \in Images /\ ImageLen \in Nat
    BY SizeAssumption DEF UploadPacket, IInv, Unreported
  <2>2. QED
    BY <1>2, <2>1 DEF Unit, Units
<1>4. /\ d \in Seq(Units) /\ Len(d) = n + 1 /\ d[n + 1] = u
      /\ \A i \in 1..n : d[i] = upload.data[i]
  BY <1>1, <1>3
<1>5. off + n < FlashLen /\ upload.running
  BY DEF UploadPacket, NextAddr
<1>6. hash' = hash /\ updater' = updater /\ verdict' = verdict /\ reported' = reported
  BY DEF UploadPacket
<1>7. \/ /\ updater = "ready" /\ flash' = [flash EXCEPT ![off + n] = u]
         /\ upload' = [upload EXCEPT !.data = d]
      \/ /\ flash' = flash
         /\ upload' = [upload EXCEPT !.data = d, !.intact = FALSE]
  BY <1>4 DEF UploadPacket, Written, NextAddr
<1>8. flash' \in [0..(FlashLen - 1) -> Units]
  BY <1>1, <1>3, <1>7
<1>9. /\ upload' \in Uploads /\ upload'.running /\ upload'.file = upload.file
      /\ upload'.data = d /\ upload'.start = upload.start
      /\ upload'.intact => /\ upload.intact
                           /\ flash' = [flash EXCEPT ![off + n] = u]
  BY <1>1, <1>4, <1>5, <1>7 DEF Uploads
<1> HIDE DEF n, off, u, d
<1>10. Shapes'
  BY <1>6, <1>8, <1>9 DEF IInv, Shapes
<1>11. FlashHolds'
  <2> SUFFICES ASSUME upload'.intact, NEW i \in 1..(n + 1)
               PROVE  /\ off + i - 1 \in 0..(FlashLen - 1)
                      /\ flash'[off + i - 1] = d[i]
    BY <1>4, <1>9 DEF FlashHolds, off
  <2>1. upload.intact /\ flash' = [flash EXCEPT ![off + n] = u]
    BY <1>9
  <2>2. CASE i = n + 1
    <3>1. off + i - 1 = off + n /\ off + n \in 0..(FlashLen - 1)
      BY <1>2, <1>5, <2>2
    <3>2. QED
      BY <1>1, <1>4, <2>1, <2>2, <3>1
  <2>3. CASE i # n + 1
    <3>1. i \in 1..n
      BY <1>2, <2>3
    <3>2. off + i - 1 \in 0..(FlashLen - 1) /\ flash[off + i - 1] = upload.data[i]
      BY <2>1, <3>1 DEF IInv, FlashHolds, n, off
    <3>3. off + i - 1 # off + n
      BY <1>2, <3>1
    <3>4. QED
      BY <1>1, <1>4, <2>1, <3>1, <3>2, <3>3
  <2>4. QED
    BY <2>2, <2>3
<1>12. QED
  BY <1>5, <1>6, <1>9, <1>10, <1>11
     DEF IInv, Unreported, HashOfLast, Idle, VerdictIsOfLastUpload, HashesAgree, NoReport

LEMMA EndStep == IInv /\ EndUpload => IInv'
<1> SUFFICES ASSUME IInv, EndUpload PROVE IInv'
  OBVIOUS
<1>1. /\ upload.running /\ upload' = [upload EXCEPT !.running = FALSE]
      /\ hash' = upload.data /\ flash' = flash /\ updater' = updater
      /\ verdict' = verdict /\ reported' = reported
  BY DEF EndUpload
<1>2. upload \in Uploads /\ verdict = "none" /\ reported = NoReport
  BY <1>1 DEF IInv, Shapes, Unreported
<1>3. /\ upload' \in Uploads /\ upload'.running = FALSE
      /\ upload'.data = upload.data /\ upload'.start = upload.start
      /\ upload'.intact = upload.intact
  BY <1>1, <1>2 DEF Uploads
<1>4. upload.data \in Seq(Units)
  BY <1>2 DEF Uploads
<1>5. Shapes'
  BY <1>1, <1>3, <1>4 DEF IInv, Shapes
<1>6. FlashHolds'
  BY <1>1, <1>3 DEF IInv, FlashHolds
<1>7. QED
  BY <1>1, <1>2, <1>3, <1>5, <1>6
     DEF IInv, Unreported, HashOfLast, Idle, VerdictIsOfLastUpload, HashesAgree, NoReport

LEMMA PowerLossStep == IInv /\ PowerLoss => IInv'
<1> SUFFICES ASSUME IInv, PowerLoss PROVE IInv'
  OBVIOUS
<1> DEFINE n == Len(upload.data)
           off == Offset(upload.start)
<1>1. /\ upload.data \in Seq(Units) /\ upload.start \in Int
      /\ flash \in [0..(FlashLen - 1) -> Units]
  BY StartFacts DEF IInv, Shapes, Uploads
<1>2. n \in Nat /\ off \in Nat
  <2>1. n \in Nat
    BY <1>1, LenProperties
  <2>2. off \in Nat
    BY <1>1, StartFacts
  <2>3. QED
    BY <2>1, <2>2
<1>3. Boot /\ (flash' = flash \/ flash' = [flash EXCEPT ![off + n] = Other])
  BY DEF PowerLoss, Written, NextAddr
<1>4. flash' \in [0..(FlashLen - 1) -> Units]
  BY <1>1, <1>3, StartFacts
<1>5. \A i \in 1..n : off + i - 1 # off + n
  BY <1>2
<1> HIDE DEF n, off
<1>6. ASSUME upload.intact, NEW i \in 1..n
      PROVE  flash'[off + i - 1] = flash[off + i - 1]
  <2>1. off + i - 1 \in 0..(FlashLen - 1)
    BY <1>6 DEF IInv, FlashHolds, n, off
  <2>2. QED
    BY <1>1, <1>3, <1>5, <2>1
<1>7. QED
  BY <1>3, <1>4, <1>6, BootStep DEF n, off

(* What is covered of n units is all of them, or all but a page of whole   *)
(* pages.                                                                  *)
LEMMA CoveredFacts ==
  ASSUME NEW n \in Nat
  PROVE  /\ Covered(n) \in 0..n /\ XMODEM_BUF_SIZE \in Nat
         /\ Covered(n) = IF WholePages(n) THEN n - XMODEM_BUF_SIZE ELSE n
<1>1. XMODEM_BUF_SIZE \in Nat \ {0}
  BY SizeAssumption
<1>2. CASE WholePages(n)
  <2>1. n < XMODEM_BUF_SIZE => n % XMODEM_BUF_SIZE = n
    BY <1>1
  <2>2. n >= XMODEM_BUF_SIZE
    BY <1>1, <1>2, <2>1 DEF WholePages
  <2>3. QED
    BY <1>1, <1>2, <2>2 DEF Covered, WholePages
<1>3. CASE ~WholePages(n)
  BY <1>1, <1>3 DEF Covered, WholePages
<1>4. QED
  BY <1>2, <1>3

LEMMA HashStep ==
  ASSUME IInv, NEW start \in 0..FlashLen, NEW n \in 0..FlashLen,
         CommandRunHashSha256(start, n)
  PROVE  IInv'
<1> DEFINE m == Covered(n)
           r == FlashRange(start, m)
<1>1. /\ Idle /\ start + n <= FlashLen
      /\ \/ reported' = [start |-> start, size |-> n, data |-> r, sound |-> TRUE]
         \/ reported' = [start |-> start, size |-> n, data |-> <<Other>>, sound |-> FALSE]
      /\ hash' = hash /\ flash' = flash /\ updater' = updater
      /\ upload' = upload /\ verdict' = verdict
  BY DEF CommandRunHashSha256
<1>2. /\ upload.data \in Seq(Units) /\ upload.start \in Int
      /\ flash \in [0..(FlashLen - 1) -> Units]
  BY StartFacts DEF IInv, Shapes, Uploads
<1>3. start \in Nat /\ n \in Nat /\ FlashLen \in Nat
  BY StartFacts
<1>4. /\ m \in 0..n /\ start + m <= FlashLen /\ m \in Nat
      /\ m = IF WholePages(n) THEN n - XMODEM_BUF_SIZE ELSE n
  <2>1. /\ m \in 0..n
        /\ m = IF WholePages(n) THEN n - XMODEM_BUF_SIZE ELSE n
    BY <1>3, CoveredFacts
  <2> HIDE DEF m
  <2>2. QED
    BY <1>1, <1>3, <2>1
<1> HIDE DEF m
<1>5. r \in Seq(Units) /\ Len(r) = m /\ \A i \in 1..m : r[i] = flash[start + i - 1]
  BY <1>2, <1>3, <1>4, RangeFacts
<1> HIDE DEF r
<1>6. Shapes'
  <2>1. <<Other>> \in Seq(Units)
    BY StartFacts
  <2>2. /\ [start |-> start, size |-> n, data |-> r, sound |-> TRUE] \in Reports
        /\ [start |-> start, size |-> n, data |-> <<Other>>, sound |-> FALSE] \in Reports
    BY <1>5, <2>1 DEF Reports
  <2>3. reported' \in Reports
    BY <1>1, <2>2
  <2>4. QED
    BY <1>1, <2>3 DEF IInv, Shapes
<1>7. ASSUME upload.intact, start = At(upload.start), n = Len(upload.data)
      PROVE  r = IF WholePages(n) THEN SubSeq(upload.data, 1, n - XMODEM_BUF_SIZE)
                                  ELSE upload.data
  <2>1. \A i \in 1..n : flash[start + i - 1] = upload.data[i]
    BY <1>2, <1>7, StartFacts DEF IInv, FlashHolds
  <2>2. \A i \in 1..m : r[i] = upload.data[i]
    <3>1. 1..m \subseteq 1..n
      BY <1>3, <1>4
    <3>2. QED
      BY <1>5, <2>1, <3>1
  <2>3. CASE ~WholePages(n)
    <3>1. m = n
      BY <1>4, <2>3
    <3>2. QED
      BY <1>2, <1>5, <1>7, <2>2, <2>3, <3>1, SeqEqual
  <2>4. CASE WholePages(n)
    <3>1. /\ SubSeq(upload.data, 1, m) \in Seq(Units) /\ Len(SubSeq(upload.data, 1, m)) = m
          /\ \A i \in 1..m : SubSeq(upload.data, 1, m)[i] = upload.data[i]
      <4>1. \A i \in 1..m : upload.data[i] \in Units
        BY <1>2, <1>3, <1>4, <1>7
      <4>2. QED
        BY <1>2, <1>4, <1>7, <4>1
    <3>2. r = SubSeq(upload.data, 1, m)
      BY <1>5, <2>2, <3>1, SeqEqual
    <3>3. QED
      BY <1>4, <2>4, <3>2
  <2>5. QED
    BY <2>3, <2>4
<1>8. HashesAgree'
  <2>1. /\ reported'.sound => /\ reported'.data = r /\ reported'.start = start
                              /\ reported'.size = n
    BY <1>1
  <2>2. /\ At(upload.start)' = At(upload.start) /\ ZeroHash' = ZeroHash
        /\ WholePages(Len(upload.data))' = WholePages(Len(upload.data))
    BY <1>1 DEF At, WholePages, ZeroHash
  <2>3. upload.intact /\ hash # ZeroHash => hash = upload.data
    BY <1>1 DEF IInv, HashesAgree
  <2>4. ASSUME upload.intact, reported'.sound, reported'.start = At(upload.start),
               reported'.size = Len(upload.data)
        PROVE  reported'.data = IF WholePages(Len(upload.data))
                                THEN SubSeq(upload.data, 1, Len(upload.data) - XMODEM_BUF_SIZE)
                                ELSE upload.data
    BY <1>7, <2>1, <2>4
  <2>5. QED
    BY <1>1, <2>2, <2>3, <2>4 DEF HashesAgree
<1>9. QED
  BY <1>1, <1>6, <1>8
     DEF IInv, Unreported, HashOfLast, FlashHolds, Idle, VerdictIsOfLastUpload

LEMMA SignStep ==
  ASSUME IInv, NEW f \in Images, CommandRunSign(f)
  PROVE  IInv'
<1>1. /\ Idle /\ verdict' = IF hash = Image(f) THEN f ELSE "none"
      /\ hash' = hash /\ flash' = flash /\ updater' = updater
      /\ upload' = upload /\ reported' = reported
  BY DEF CommandRunSign
<1>2. Shapes'
  BY <1>1 DEF IInv, Shapes
<1>3. VerdictIsOfLastUpload'
  <2>1. hash \in {ZeroHash, upload.data}
    BY <1>1 DEF IInv, HashOfLast
  <2>2. Image(f) # ZeroHash
    BY ImageFacts
  <2>3. verdict' # "none" => verdict' = f /\ hash = Image(f)
    BY <1>1
  <2>4. QED
    BY <1>1, <2>1, <2>2, <2>3 DEF VerdictIsOfLastUpload, Image
<1>4. QED
  BY <1>1, <1>2, <1>3
     DEF IInv, Unreported, HashOfLast, FlashHolds, Idle, HashesAgree

LEMMA CancelStep == IInv /\ CommandRunCancel => IInv'
<1> SUFFICES ASSUME IInv, CommandRunCancel PROVE IInv'
  OBVIOUS
<1>1. /\ Idle /\ upload' = [upload EXCEPT !.intact = FALSE]
      /\ hash' = hash /\ verdict' = verdict /\ reported' = reported
      /\ updater' \in {"ready", "initFailed"}
  BY DEF CommandRunCancel, AfterHotaInit
<1>2. upload \in Uploads /\ flash \in [0..(FlashLen - 1) -> Units]
  BY DEF IInv, Shapes
<1>3. flash' \in [0..(FlashLen - 1) -> Units]
  BY <1>2, StartFacts DEF CommandRunCancel
<1>4. /\ upload' \in Uploads /\ upload'.running = upload.running
      /\ upload'.data = upload.data /\ upload'.intact = FALSE
  BY <1>1, <1>2 DEF Uploads
<1>5. QED
  BY <1>1, <1>3, <1>4
     DEF IInv, Shapes, Unreported, HashOfLast, FlashHolds, Idle,
         VerdictIsOfLastUpload, HashesAgree

LEMMA Invariance == Spec => []IInv
<1>1. IInv /\ [Next]_vars => IInv'
  <2> SUFFICES ASSUME IInv, [Next]_vars PROVE IInv'
    OBVIOUS
  <2>1. CASE UNCHANGED vars
    BY <2>1
       DEF vars, IInv, Shapes, Unreported, HashOfLast, FlashHolds, Idle,
           VerdictIsOfLastUpload, HashesAgree
  <2>2. CASE Restart
    <3>1. Boot /\ flash' = flash /\ flash \in [0..(FlashLen - 1) -> Units]
      BY <2>2 DEF Restart, IInv, Shapes
    <3>2. QED
      BY <3>1, BootStep
  <2>3. CASE RestartFails
    BY <2>1, <2>3 DEF RestartFails
  <2>4. QED
    BY <2>1, <2>2, <2>3, BeginStep, PacketStep, EndStep, PowerLossStep, HashStep,
       SignStep, CancelStep
       DEF Next
<1>2. QED
  BY <1>1, Initially, PTL DEF Spec

-----------------------------------------------------------------------------
(* The types. *)
THEOREM TypeCorrect == Spec => []TypeOK
<1>1. IInv => TypeOK
  BY DEF IInv, Shapes, Uploads, Reports, TypeOK
<1>2. QED
  BY <1>1, Invariance, PTL

(* A signature that has checked is that of the last upload, whole. *)
THEOREM VerdictUpToDate == Spec => []VerdictIsOfLastUpload
<1>1. IInv => VerdictIsOfLastUpload
  BY DEF IInv
<1>2. QED
  BY <1>1, Invariance, PTL

(* What has checked is in the flash, where no write failed and nothing was *)
(* cancelled.                                                              *)
THEOREM VerdictInFlash == Spec => []VerdictHoldsForFlash
<1>1. IInv => VerdictHoldsForFlash
  <2> SUFFICES ASSUME IInv, verdict # "none", upload.intact
               PROVE  FlashRange(At(upload.start), ImageLen) = Image(verdict)
    BY DEF VerdictHoldsForFlash
  <2> DEFINE off == Offset(upload.start)
  <2>1. /\ upload.start \in Int /\ upload.data = Image(verdict)
        /\ ImageLen \in Nat \ {0}
    BY StartFacts, SizeAssumption DEF IInv, Shapes, Uploads, VerdictIsOfLastUpload
  <2>2. Len(upload.data) = ImageLen /\ At(upload.start) = off
    BY <2>1, ImageFacts, StartFacts
  <2>3. \A i \in 1..ImageLen : flash[off + i - 1] = upload.data[i]
    BY <2>2 DEF IInv, FlashHolds
  <2>4. \A i \in 1..ImageLen : flash[off + i - 1] = <<verdict, i>>
    BY <2>1, <2>3 DEF Image
  <2> HIDE DEF off
  <2>5. [i \in 1..ImageLen |-> flash[off + i - 1]] = [i \in 1..ImageLen |-> <<verdict, i>>]
    BY <2>4
  <2>6. QED
    BY <2>2, <2>5 DEF FlashRange, Image
<1>2. QED
  BY <1>1, Invariance, PTL

(* The hash of an intact upload and the answer to {h for its range agree,  *)
(* except that the answer misses the last page of a range of whole pages.  *)
THEOREM HashesMatch == Spec => []HashesAgree
<1>1. IInv => HashesAgree
  BY DEF IInv
<1>2. QED
  BY <1>1, Invariance, PTL
=============================================================================
