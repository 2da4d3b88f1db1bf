-------------------------------- MODULE OtaLine --------------------------------
(***************************************************************************)
(* One line, two readers: when xmodemReceive returns, the loop of          *)
(* OTA_TestThread goes back to CommandProcess, which reads from the same   *)
(* serial line and echoes what it reads.  If the host has not noticed the  *)
(* end of the upload, what it still sends is read by the console.  The     *)
(* module extends Xmodem by the console, as far as it meets an XMODEM      *)
(* sender, and by uploads started one after the other.                     *)
(***************************************************************************)
EXTENDS Xmodem

CONSTANT MaxUploads   \* bound on the uploads
ASSUME UploadAssumption == MaxUploads \in Nat

VARIABLES
  uploads,   \* number of the upload
  spent,     \* history: the damages there were when it was started
  intruded   \* history: has the console read data of a packet?

otherVars == <<uploads, spent, intruded>>
lineSpecVars == <<vars, otherVars>>

LineInit == Init /\ uploads = 1 /\ spent = 0 /\ intruded = FALSE

-----------------------------------------------------------------------------
(* What the host may take the echo of a byte for; "other" is ignored. *)
Heard(t) ==
  IF t \in {"noise", "body"} THEN Replies \cup {"other"} ELSE ({t} \cap Replies) \cup {"other"}

(* read_with_echo, for CommandProcess, which finds no command in it: a     *)
(* byte that is left on the line is read and echoed.                       *)
ConsoleByte ==
  /\ pc = "done" /\ toDev # <<>>
  /\ toDev' \in AfterByte
  /\ \E r \in Heard(Head(toDev).type) :
       toHost' = IF r = "other" THEN toHost ELSE Append(toHost, r)
  /\ intruded' = (intruded \/ Head(toDev).type = "body")
  /\ UNCHANGED <<faults, rcvVars, hostVars, uploads, spent>>

(* The sender has ended, the terminal has shown all that was sent to it,   *)
(* and the console has read what was on the line and the command for the   *)
(* next upload: xmodemReceive with its locals as they begin, and a sender  *)
(* that waits for it.  Mutant: the packet number and the retries are those *)
(* of the last upload.                                                     *)
Again ==
  /\ pc' = "prompt" /\ after' = "none" /\ retry' = 0 /\ trychar' = "C"
  /\ result' = "none" /\ repeats' = 0 /\ received' = <<>>
  /\ UNCHANGED <<flash, writeFailed>>
LocalsKept == Again /\ UNCHANGED locals
LocalsFresh ==
  /\ Again
  /\ useCrc' = FALSE /\ bufsz' = 0 /\ packetno' = 1 /\ retrans' = MAXRETRANS

NextUpload ==
  /\ pc = "done" /\ toDev = <<>> /\ toHost = <<>> /\ ~HostWaits
  /\ uploads < MaxUploads /\ uploads' = uploads + 1 /\ spent' = faults
  /\ LocalsFresh
  /\ hpc' = "idle" /\ hpos' = 0 /\ hsz' = 0 /\ hno' = 0 /\ hmode' = "crc" /\ tries' = 0
  /\ UNCHANGED <<lineVars, intruded>>

Alone(A) == A /\ UNCHANGED otherVars

LineNext ==
  \/ Alone(Receiver) \/ Alone(Damage) \/ Alone(LoseReply) \/ Alone(Host)
  \/ ConsoleByte \/ NextUpload

(* The device reads what is there, and the host plays its part. *)
LineSpec ==
  /\ LineInit /\ [][LineNext]_lineSpecVars
  /\ WF_lineSpecVars(Alone(Receiver) \/ ConsoleByte) /\ WF_lineSpecVars(Alone(Host))

-----------------------------------------------------------------------------
(* The console never reads the data of a packet, which it could take for a *)
(* command, as long as not all the CANs of an abort are lost.              *)
DataStaysInUpload == ~intruded

(* A host that was told of the end of its upload has been told the truth,  *)
(* also when an echo of its own bytes came back to it: the device has      *)
(* hashed the whole file, or as much of it as was asked for.               *)
HostDoneMeansWhole ==
  hpc = "done" => received = [i \in 1..len |-> File(i)] /\ Stored(hpos) /\ hpos >= FileSize

(* An upload whose host has begun to send completes, also the one after an *)
(* upload that was aborted, unless its own share of the damages is         *)
(* MAXRETRANS or more.  The damages spare first bytes, and there are       *)
(* numbers enough for no packet to follow number 0: after that one         *)
(* RetryLimit is broken, and with it what is promised here.                *)
UploadCompletes ==
  \A n \in 1..MaxUploads :
    uploads = n /\ hpc = "data"
      ~> uploads = n /\ (result = "end" \/ faults - spent >= MAXRETRANS)
=============================================================================
