# Models of the Telink vendor code

TLA+ modules, TLC configurations and TLAPS proofs for the demo applications of
`vendor_telink`: the OTA demo (`src/ota_demo`), the largest program of the
repository, and the BLE sample (`src/ble_demo/b91_gatt_sample`). Both run as
tasks of LiteOS-M on one RISC-V core, next to the interrupt handlers of the
UART, the radio and the system timer.

Every definition is a translation of the C source; `PROJECT.json` names for each
one the lines it stands for. What is outside the repository (LiteOS calls, the
UART registers, the HOTA update service, the BLE stack and its ATT server, the
host at the other end of the line, the central) is modelled from how the code
uses it and is marked external.

## The system

### OTA serial driver (`ota_demo/serial.c`)

*State:* a ring of 256 bytes with `start` and `end`, one event bit, and `irq_buf`,
a pointer and two counters through which a reader lends its own buffer to the
interrupt handler. *Operations:* `UartRxIrqHandle` empties the UART's FIFO, each
byte into the lent buffer if there is one, else into the ring; `uart_read` takes
one byte from the ring and waits on the event; `uart_read_buf` drains the ring,
lends its buffer and waits. *Interaction:* handler and task share everything;
the task protects itself by locking interrupts, and reads the event outside the
lock. *Hard:* the two paths a byte can take, a stale event, a byte between the
test and the wait, a byte between the timeout and the end of the loan.
*Correct:* no byte lost below capacity, duplicated or out of order; the handler
never writes to a buffer that is no longer lent; no reader sleeps on its data;
a short read only after a timeout.

### XMODEM receiver (`ota_demo/app.c`, lines 130 to 316)

*State:* the locals of `xmodemReceive`: `retry`, `trychar`, `use_crc`, `bufsz`,
`packetno`, `retrans`, `len`; through the callback, the running hash and the
flash. *Operations:* prompt, first byte, second CAN, packet body, flush, answer.
*Interaction:* bytes from the serial driver, a byte or three back to the host,
`xmodemReceiveCB` for each new block. *Hard:* damaged, lost and repeated bytes,
replies that cross, a first prompt that changes from `C` to NAK, timeouts on
both sides, a block number that wraps. *Correct:* what is hashed and written is
a prefix of the file, an ACK means stored, a normal end means complete, the
receiver returns once the host is silent, and a bounded number of faults is
overcome. *And after it:*
the console reads the same line and echoes what it reads, so a host that has
not noticed the end of its upload talks to the console.

### OTA console (`ota_demo/app.c`, lines 318 to 405 and 529 to 663)

*State:* the line buffer and its index, the signature buffer, the command.
*Operations:* one per byte: character, carriage return, backspace, newline,
silence. *Hard:* editing, a line that fills the buffer, a signature spread over
several line buffers, silence in the middle. *Correct:* a command runs on the
text as edited, a signature is the one that was typed and stays in bounds, an
unfinished command does not hold the console for ever. That it is given up,
which the code sets out to do, is not the case (finding 4).

### OTA commands and session (`ota_demo/app.c`, lines 355 to 527 and 665 to 717)

*State:* `state.hash`, `state.workBuf`, the flash, the update service.
*Operations:* upload, print, hash, sign, cancel, restart, rollback. *Hard:*
results of `HotaWrite`, `HotaRead` and `HotaInit` are ignored; the hash outlives
its upload; an upload that was cut short is not told from one that was not; the
power may go in the middle of an upload, and the flash keeps what was written.
*Correct:* a successful signature check speaks of the last upload, and of the
flash; the two hashes a user compares agree; the page loops cover the range.

### BLE sample (`ble_demo/b91_gatt_sample`)

*State:* a counting semaphore of at most 50, the LED, the callbacks registered,
the attribute table, `serviceChangeCCC`. *Operations:* the initialisation, call by
call; `RfIrqHandler` and `StimerIrqHandler`; the loop of `BleTask`; the
controller event callback of the MULTI build and the two callbacks of the
SINGLE one. *Hard:* an interrupt between the main loop's last look and the pend,
posts at the limit of the semaphore, interrupts during initialisation, a step of
the initialisation that fails, advertising enabled before the table and the
callbacks are there, a timer level that is reached while interrupts are masked,
group sizes and handles kept by hand. *Correct:* no sleep on work, nothing
handled before its receiver is there, no timer interrupt missed, the LED shows
the link, the table is what its numbers say.

### The rest

The LED, UART and mbedTLS demos are straight-line code around driver calls; the
HAL stubs return constants; build files and HDF data are not programs. None is
modelled. The transmit side of `serial.c` is never called.

## Modules

| module | models | extends or instantiates |
|---|---|---|
| `ByteChannel` | abstract: a lossy FIFO channel of bytes | |
| `SerialRx` | receive side of `serial.c`, handler and one reader | `ByteChannel` as the target of a refinement |
| `SerialReaders` | several tasks in `uart_read` | |
| `FileCopy` | abstract: a file copied from its beginning | |
| `Xmodem` | the receiver, the line, a host | `FileCopy` as the target of a refinement |
| `OtaLine` | uploads one after the other on a line the console reads in between | `Xmodem` |
| `OtaConsole` | the console, byte by byte | |
| `PagedRead`, `MCPagedRead` | the page loops of print and hash | |
| `OtaSession`, `MCOtaSession` | commands between two rounds of the console, loss of power | |
| `BleSample` | initialisation, semaphore, timer, task, LED: the actions | |
| `GattTable` | attribute table under discovery: the actions | |
| `BleDevice` | the sample as a central meets it: the two together | `BleSample`, `GattTable` |

and the theorems, each module of them next to what it is about:

| module | proves | extends |
|---|---|---|
| `SerialRxProofs` | invariants of `SerialRx`, and that it implements `ByteChannel` | `SerialRx` |
| `XmodemProofs` | what needs no assumption on host and faults | `Xmodem` |
| `XmodemPunctualProofs` | what a host that keeps time makes true, and that `Xmodem` implements `FileCopy` | `XmodemProofs` |
| `OtaLineProofs` | what host and console are told over any number of uploads | `OtaLine`, `XmodemPunctualProofs` |
| `OtaConsoleProofs` | line and signature | `OtaConsole` |
| `PagedReadProofs` | what a page loop puts out | `PagedRead` |
| `OtaSessionProofs` | verdict, hashes and flash | `OtaSession` |
| `BleDeviceProofs` | semaphore, initialisation, LED and table | `BleDevice` |

Definitions named "Mutant" in the comment before them are variants of a
definition with a plausible mistake. No specification uses them; each property
is known to fail when its variant replaces the definition it belongs to.

### How state and actions correspond to the code

**SerialRx.** A byte is its arrival number, so loss, duplication and reordering
are visible. A section of the task between `LOS_IntLock` and `LOS_IntRestore` is
one action (`ReadTake`, `ReadWait`, `BufFromRing`, `BufArm`, `BufFinish`);
`LOS_EventRead` is three (`EventPoll`, `EventWake`, `EventTimeout`), because
between them a byte may arrive. `irq` is TRUE from the entry of the handler to
its exit, and every step of the task requires it to be FALSE: the core runs one
of the two. The handler takes one byte per step. Bytes that arrive while the
FIFO is full would be lost in the UART and are not generated; loss on a full
ring is in the model and counted in `dropped`. The variables `out`, `dropped`
and `timedOut` are history.

**Xmodem.** The line carries tokens: a single byte, or the rest of a packet after
its first byte. When the receiver waits for a first byte and finds the rest of a
packet, it reads it byte by byte, and each byte may look like any of the control
bytes of `NoiseLooks`. A check that matches means an undamaged body of the mode
the receiver uses: the strength of CRC-16 and of the checksum is not modelled.
The faults damage a token, cut a packet short, lose a single byte or lose a
reply; `FaultKinds` says which. With `PunctualHost` a wait of the receiver ends
only when nothing is under way that a prompt host would have sent, and the host
times out only while the receiver waits in silence. Without it every timer may
end at any moment. A host gives up after `HostRetries` repetitions, or with
`HostPersists` may go on for ever; it then times out only while fewer than
`MaxLine` tokens are under way. `repeats`, which stops counting beyond the limit
it is compared with, and `writeFailed` are history.

**OtaConsole.** The rest of a command word, and a decimal number, are one
character each. `char` is unsigned on this target, so the -1 of a timeout is
stored as 0xFF and the comparison with 0 in `ReadLine` never holds: a silence
adds a character every five seconds until the line is full. A full line has no
terminator: the string goes on with whatever is behind the buffer (`Beyond`), and
a number read from it may have any value. Where `strtoul` finds no number, the C
library may set `errno` or not, so that a command without its number runs with 0
or is refused, and a pair of a signature that is not hex is stored as 0 or
refused; both outcomes are taken (`NumberAt`, `SignLine`). History: `text` is what
the sender typed, as edited, without what a silence added; `paused` says that there
was such a silence, `clean` that no backspace came at the start of a line buffer,
and `handed` is the string the handler was given.

**OtaLine.** `Xmodem` with `CommandProcess` behind it. Once `pc` is "done" each
byte on the line is read by `read_with_echo`, and its echo travels back to the
host, which may take it for a reply (`Heard`). `NextUpload` calls
`xmodemReceive` again, with its locals as its first lines set them; the flash is
what the last upload left. A real sender sends nothing that begins a command;
that the console does not see the bytes of a packet, which might, is
`DataStaysInUpload`. `spent` and `intruded` are history.

**OtaSession.** An upload is a step per packet, so that the power may go between
two of them or in the middle of a write; every other command is one step,
because the task runs one at a time and nothing else touches its state. The
device does not know which image it was sent nor how much of it, so an upload
may end after any packet, whatever `xmodemReceive` returned (its result is
ignored in the code). `Boot` is the head of `OTA_TestThread`: `state` is new,
the flash is not. SHA-256 of data is the data. A start of -1 is an upload
without a start argument. `{h` reads in pages of `XMODEM_BUF_SIZE` units and covers
all of a length but the last page of whole pages (`Covered`); a failing `HotaRead`
goes unnoticed, and what was in `workBuf` is hashed.

**BleSample.** The initialisation is a sequence of named calls with a program
counter; a failing call halts in an assert (`Asserted`), or is logged or ignored
and the next call is made (`Unchecked`: `OsSemCreate`, `LOS_TaskCreate` and the two
`B91IrqRegister`). Without its semaphore the sample posts to and pends on
semaphore 0, which may be another's or none: the post wakes the task or does not,
the pend blocks or returns. A handler that was refused never runs. The SDK's
interrupt handler queues link events, requests and ticks and calls what was
registered with `blc_ll_registerGiveSemCb`; its main loop handles one item per step. The timer is "armed" with a level; when the count reaches it while
interrupts are masked the moment has "passed", and only the bit that `BleTask`
sets at its start makes a level in the past trigger. `missed` is history: an
event or request was handled before its receiver was there.

**GattTable.** `gattTable` without its first entry, by handle. A central walks
the services by group ends, then characteristics, then reads by the handles it
was told.

**BleDevice.** The main loop's step on a request is joined with an answer from
the table, and a link that ends with the central's loss of its place. The two
modules have no specification of their own; this one is what is checked.

## Runs

| run | question | bounds |
|---|---|---|
| `serial_rx` | safety, refinement of `ByteChannel`, both liveness properties | ring of 4 slots, FIFO of 2, 7 bytes, requests of 2 (below the ring) and 5 (above it) |
| `serial_readers_stranded` | finding 1 | 2 readers, 2 bytes |
| `xmodem` | agreement of host and device, refinement of `FileCopy`, and with it a prefix of the file | packets of 1 and 2 units, file of 5, destination of 4, 3 block numbers, 4 faults |
| `xmodem_any_host` | integrity with free timers and a host that never gives up, and return once it is silent | file and destination of 3, 5 block numbers, at most 4 tokens under way when the host times out, 1 fault of any kind, failing writes |
| `xmodem_retry_limit` | finding 2 | as `xmodem`, a more patient host |
| `ota_line` | the console between uploads, and completion of each | as `xmodem` with 8 block numbers, 5 header rounds, `MAXRETRANS` 3, 4 repetitions by the host, 5 faults, 2 uploads |
| `paged_read` | contiguity and length | pages of 3 units, every length up to four pages, failing reads |
| `paged_read_range` | finding 3 | the same without failing reads |
| `ota_console` | editing, full lines, signature, return to the preamble | line of 4, signature of 4 bytes (two lines), 10 bytes typed of a word, a number that is also a hex digit, and the editing keys |
| `ota_console_silence` | finding 4 | the same, 4 bytes typed |
| `ota_session` | verdict, hash and flash over sequences of commands | 2 images of 2 units, pages of 2, flash of 4, starts of none and 1, failing writes, reads and `HotaInit` |
| `ble_device` | semaphore, initialisation, timer, LED, table and numbers | both builds, 2 connections, semaphore limit of 2, 3 link events, any number of requests and timer interrupts; the table of the code |

Why the bounds are enough. In `serial_rx` 7 bytes fill a ring of 4 slots (three
usable), overflow it, wrap both indices, and complete a request larger than the
ring; the FIFO of 2 lets a byte arrive while the handler runs. In `xmodem` the
file of 5 units needs three to five packets, so that a block number wraps with
3 numbers, the last packet is cut at the destination of 4, and 4 faults can hit
the packet, its repetition and both replies. In `xmodem_any_host` one fault
together with free timers already produces repeated packets, crossing replies
and packets read as control bytes; 4 tokens are two whole packets, or one and two
replies, when a third is sent (with 6 the run passes as well). In `ota_console` a line of 4 fills twice and
10 bytes leave room to edit within both lines. In `ota_line` 5 faults, all of
which the first upload may take, are enough for the receiver to give up (three
lost ACKs do) and for two of its three CANs to be lost; with a sixth fault the
third is lost too, and `DataStaysInUpload` fails, as its comment says. With
`MAXRETRANS` 3 an upload can suffer two damages and must still complete, and 4
repetitions let a host that heard no CAN send once more to the console. In
`ota_session` a flash of 4 distinguishes the two offsets and leaves room for a
unit of padding, two images distinguish a fresh hash from a stale one, and uploads
of 0 to 4 units are no page, part of a page, one page, one and a part, and two. In
`ble_device` three link events make two connections and the end of one, or a
connection, its end and another; ticks and requests fill the semaphore. That link
events are bounded helps `EventsHandled` with link events only: ticks and requests
have no bound.

Bounds are guards on counters of the environment (`MaxBytes`, `MaxFaults`,
`HostRetries`, `MaxLine`, `MaxUploads`, `MaxKeys`, `FlashLen`, `MaxEvents`); the code's own
counters keep their limits. Deadlock checking is off where those bounds, an ended
upload or a halted initialisation stop the system; it stops nowhere else.

### Fairness

* `SerialRx`: weak fairness of the handler (a pending interrupt is taken) and of
  a call in progress (the task is scheduled, the tick ends a finite wait).
  Nothing forces a byte to arrive.
* `Xmodem`: of the receiver alone: its waits have timeouts. `ReturnsOnceQuiet` is a
  promise for the time after the host's last packet, because a refusal is never
  counted (finding 2) and `flushinput` ends only in silence: a host that goes on
  sending can hold the receiver for ever, and in `xmodem_any_host` it does.
* `OtaConsole`: of the two reads with a timeout. A user need not type, and the
  wait for the preamble may last for ever. What ends a line is that silences fill
  it, as if they had been typed; the command is then dealt with, not given up.
* `OtaLine`: of the device, which reads what is there in the receiver or in the
  console, and of the host.
* `BleDevice`: weak fairness of time, of the end of a section with interrupts
  masked, and of a timer interrupt that is pending; strong fairness of the
  initialisation and of `BleTask`, which has the highest priority but one:
  masked sections interrupt them again and again, and they run in between. The
  radio owes nothing.

## What the runs show

Findings, each with a counterexample of TLC:

1. **Two readers.** `serial.c:62` claims thread safety and the loop of
   `uart_read` is there "because another thread can consume data". The event
   has one bit for all readers, and reading clears it: two tasks find the ring
   empty, two bytes arrive, the first takes the event and one byte, the second
   blocks with a byte in the ring (`NobodyStranded`). The demo has one reader.
2. **The wrap of the block number.** `(unsigned char)*packetno - 1` at
   `app.c:228` is an int; with `packetno` 0 it is -1 and the repeated block 255
   is not recognised. It is refused as often as it is sent, and refusals are not
   counted by "too many retry error" (`RetryLimit`). Data is not harmed: the
   refinement of `FileCopy` holds with the same three block numbers.
   `ota_line`, which promises completion, therefore has enough block numbers not to
   reach it.
3. **Whole pages.** The loops at `app.c:420` and `app.c:451` stop one page early
   when the length is a multiple of 1024, and no remainder follows: the last
   page is neither printed nor hashed (`RangeCovered`). `OutputLength` states
   what the code does for every length, and `HashesAgree` what it means for the
   hash of an upload.
4. **The silence that is typed.** `ReadLine` returns `COMMAND_TYPE_ERROR_TIMEOUT`
   when the next byte does not come in five seconds (`app.c:323`), and
   `CommandProcess` passes it on (`app.c:621`). Neither happens: the variable
   compared is an unsigned `char`, and 0xFF is stored. After `{c`, a silence and a
   newline the handler is given the string 0xFF (`HandedInTime`). After `{u`, a
   number and silence alone the line fills and the upload runs, which
   `ReturnsToPreamble` lets through: it says that the wait ends, not how.

Limits met while modelling, which no document contradicts:

* When a *first* byte of a packet is damaged the receiver reads the rest of the
  packet as control bytes and prompts again for stray bytes; the host may then
  hear two NAKs for one packet, send it twice, and take the ACK of the copy for
  its next packet. The same happens when the host times out early. So `InStep`,
  `AckMeansStored` and the refinement of `FileCopy`, whose `Complete` is the only
  way to a normal end, are stated for a punctual host and
  faults that spare first bytes.
* Integrity of the prefix needs less, but not nothing: the same punctual host, or
  block numbers that do not wrap (`PrefixWithoutWrap`). Without either it is
  false. With 3 block numbers, packets of one unit, a host that repeats a packet
  up to four times and one damaged body TLC finds an upload whose second hashed
  unit is the fifth of the file: a host that times out early has each of its
  repetitions acknowledged, takes the surplus ACKs for its next packets and runs
  a whole cycle of numbers ahead, while a flush discards what it sent. With the
  256 numbers of the code that takes about as many surplus ACKs in a row, and a
  file of more than 254 blocks. `xmodem_any_host` stays below that: its file has 3
  packets and there are 5 numbers (`NumbersSuffice`), however often its host
  repeats.
* A line of exactly 32 characters ends without its newline, which the next read
  takes for its own; the signature reader depends on that and `SignIsTyped`
  covers it. For the other commands it means a string without a terminator:
  `LineIsString` says that the text is followed by something unknown.
* A silence in the middle of a text is 0xFF in it: `LineIsString` and `SignIsTyped`
  ask for a text typed without a pause.
* A backspace at the start of a line buffer of a signature cannot reach the
  bytes already stored: `SignIsTyped` asks for `clean`.
* After `{cancel` a signature of the cancelled image still checks, since
  `state.hash` stays: `VerdictHoldsForFlash` asks for `upload.intact`.
* The three CANs with which the receiver gives up are all that keeps an upload's
  data from the console: if all of them are lost the host repeats its packet into
  `CommandProcess`. `ota_line` shows that no smaller loss does it.
* `uni_ble.c:239` passes `HCI_EVT_MASK_DISCONNECTION_COMPLETE`, a bit of the
  controller's event mask, to the command for the LE event mask; whether
  disconnections are reported then depends on the SDK. The model reports them.
* With several connections the LED goes off when the first one ends:
  `LedShowsLink` asks for a lit LED only where a single connection is possible.
* Nothing tells the BLE sample that `OsSemCreate` or a `B91IrqRegister` failed:
  `NoSleepOnWork`, `EventsHandled` and `TimerServed` except those cases.

All other properties hold in the instances above. The properties are meant to
be read in their modules, where each has a comment.

## Proofs

Every invariant and both refinements that the runs check are also theorems, for
every value of the constants that the named assumptions allow. The assumptions
are those of the modules (`ASSUME`); the code satisfies them: `UART_RX_BUF` is
256, the packet sizes 128 and 1024, the block numbers 256, `BUF_LEN` 32 and
`SIGN_LEN` 128 (whole halves of `BUF_LEN`), `BLE_TASK_SEM_TIME` 50. Two of them
are there for the proofs and worth knowing: an unfinished pair of a signature is
stored even where no byte fits, so that `SIGN_LEN` must not be 0; and no NUL is
typed (see "Not modelled").

| theorem of | theorem | statement |
|---|---|---|
| `SerialRxProofs` | `TypeCorrect` | `Spec => []TypeOK` |
| | `CallerBufferSafe` | `Spec => []CallerBufferGuarded` |
| | `OrderKept` | `Spec => []FifoOrder` |
| | `NothingLost` | `Spec => []Conservation` |
| | `ShortReadMeansTimeout` | `Spec => []ShortReadOnlyOnTimeout` |
| | `WakeupKept` | `Spec => []NoLostWakeup` |
| | `SerialIsChannel` | `Spec => RefinesChannel` |
| `XmodemProofs` | `TypeCorrect` | `Spec => []TypeOK` |
| | `FlashAgrees` | `Spec => []FlashMatchesHash` |
| | `PrefixWithoutWrap` | `Spec /\ NumbersSuffice => []PrefixIntegrity` |
| `XmodemPunctualProofs` | `PunctualInStep` | `Spec /\ Punctual => []InStep` |
| | `PunctualAck` | `Spec /\ Punctual => []AckMeansStored` |
| | `PunctualPrefix` | `Spec /\ Punctual => []PrefixIntegrity` |
| | `PunctualIsCopy` | `Spec /\ Punctual /\ "EOT" \notin NoiseLooks => RefinesCopy` |
| `OtaLineProofs` | `HostToldTruth` | `LineSpec /\ Punctual => [](DataStaysInUpload => HostDoneMeansWhole)` |
| | `DataKeptFromConsole` | `LineSpec /\ Punctual /\ TimesOutFirst /\ []FewFaults => []DataStaysInUpload` |
| | `EndIsTrue` | the same hypotheses `=> []HostDoneMeansWhole` |
| `OtaConsoleProofs` | `TypeCorrect`, `LineCorrect`, `SignFits`, `SignFaithful` | `Spec => []` of `TypeOK`, `LineIsString`, `SignInBounds`, `SignIsTyped` |
| `PagedReadProofs` | `TypeCorrect`, `LengthPut`, `PagesContiguous` | `Spec => []` of `TypeOK`, `OutputLength`, `Contiguous` |
| `OtaSessionProofs` | `TypeCorrect`, `VerdictUpToDate`, `VerdictInFlash`, `HashesMatch` | `Spec => []` of `TypeOK`, `VerdictIsOfLastUpload`, `VerdictHoldsForFlash`, `HashesAgree` |
| `BleDeviceProofs` | `TypeCorrect`, `AwakeOnWork`, `ReceiversInPlace`, `LedCorrect` | `DeviceSpec => []` of `TypeOK`, `NoSleepOnWork`, `NothingMissed`, `LedShowsLink` |
| | `ServicesCover`, `ReadsDeclared` | `DeviceSpec => []` of `ServicesTile`, `ReadsWhatWasDeclared` |

### The hypotheses of the XMODEM theorems

* `NumbersSuffice`: the file has no more small blocks than there are numbers, less
  two. Host, line and timers are then free.
* `Punctual`: `PunctualHost`, and faults that spare first bytes. Block numbers may
  wrap any number of times.
* `"EOT" \notin NoiseLooks`: an upload ends early if the receiver takes noise for an
  EOT, and nothing in the protocol prevents that.
* `TimesOutFirst`: the host's patience is shorter than the receiver's rounds, or the
  receiver gives up for want of a header after a single lost ACK.
* `FewFaults`: no single upload suffers `MAXRETRANS + 3` damages. The bound is exact:
  `MAXRETRANS` lost answers to one packet make the receiver give up, and three more
  damages lose its CANs. `ota_line` runs just below it, with `MAXRETRANS` 3 and 5
  damages; the code has 25, so it takes 28.

### The inductive invariants, and why they are needed

Hardly any property is inductive as it stands. What each needs:

**SerialRx.** `FifoOrder` needs that no byte of the channel is newer than the last
one taken (`NotNewer`), or the next could be out of order, and that the ring is
empty while the buffer is lent (`BufferState`), or a byte in the lent buffer
would overtake the ring; `Conservation` needs the same, because draining the ring
and lending the buffer are one locked section. `NoLostWakeup` and
`ShortReadOnlyOnTimeout` need that the event of a waiting `uart_read_buf` is set
exactly when the buffer is full (`EventState`), since `BufArm` clears a stale event
inside the lock. The proof has two layers. Lemmas about ring and buffer as data
(`CountAdvance`, `SegmentSplit`, `SegmentAppend`, ...) give what storing, taking,
draining and returning do to the channel as a sequence. `ChannelStep` then says
that every step leaves the channel alone, appends the next byte, or throws it away.
Order, accounting and the refinement follow from those three cases: returned
bytes stay returned, so a step that leaves the channel alone can only move its
oldest waiting bytes to the callers (`ChannelRefined`).

**Xmodem, any host.** `NumberInv` says of every packet on the line that its number is
its place in the file (`PacketPlaced`), that two packets of one number are the
same and two of consecutive numbers adjoin (`Consecutive`), and of the receiver that
it is never ahead of the host by more than a packet (`HostNumbered`). So a packet
that carries the awaited number begins where the hash ends. `FlashMatchesHash`
needs the types only; it is inductive because the callback writes at `len`.

**Xmodem, punctual host.** Here the number of a packet says nothing about its place,
and the argument is about time instead: while the host sends data the upload is in
one of five states (`DataState`): the packet is on the line, or its header was
read, or it is answered, or it is about to be refused, or the receiver has
returned; and either the packet has not been stored and no ACK is on the way
(`Awaited`), or it has (`Taken`). `StepInv` joins that with what holds before the
host starts and after its last packet (`IdleState`, `EndState`). For the refinement
of `FileCopy`, `EndInv` adds that an EOT is on the line, and a normal end reached,
only when the file is stored.

**OtaLine.** `TruthInv` is `StepInv` with the fact that a host which sends data to a
receiver that has returned can hear no echo that it takes for a reply, unless the
console reads data. `BudgetInv` pays for every repetition: in an upload that has
accepted `r` repetitions of a stored packet there have been at least `r + 1` damages,
or `r` and the ACK is still on the line (`Paid`); a receiver that has given up has
cost `MAXRETRANS` damages, and each CAN that is missing one more (`GaveUpPaid`). So
a CAN is left, the host reads it before it repeats anything, and no packet is on
the line when the console begins to read.

**OtaConsole.** `LineHeld`: in a line that was typed without a pause the buffer is the
text followed by NUL up to its end, so that the string handed on, at the newline or
with the last character that fits, is the text, or the text and whatever is beyond;
`NotYetHanded`: while a line is typed, no earlier one counts. `SignHeld`: between two
buffers of a signature whole half buffers have been stored and there is room for
another, and, unless there was a pause or an edit across buffers, what was stored
and what is in the buffer are the text, pair by pair (`Split`).

**PagedRead.** `LoopState`: the loop has put out whole pages, `offset` says how many,
and less than the length asked for. The length at the end then follows from the
uniqueness of quotient and remainder, which is proved first (`Remainder`).

**OtaSession.** `FlashHolds`: the flash has every unit an intact upload has brought so
far, also while it runs and across a loss of power. `HashOfLast`: between uploads
`state.hash` is that of the last upload, or none. `Unreported`: while an upload runs
no verdict or report of an earlier one counts, and only a ready update service
leaves it intact. `HashesAgree` then needs that what `Covered` leaves of a length is
the whole, or the whole less a page, and that a range of the flash is a beginning
of the upload (`CoveredFacts`, `RangeFacts`).

**BleDevice.** `InitOrder`, a lemma on the sequence of calls of each build: the callbacks,
the table, the data handler and the semaphore's callback are registered before the
task is created (`ReceiversReady`), whichever calls fail and are passed over.
`WokenByWork`: if the semaphore was created, a task about to pend on an empty semaphore, like one that sleeps, has
no work, since each item of work came with a post, and a post is only lost at the
limit, where the semaphore is above zero. `LedFollows`: the last link event that is
still queued agrees with the number of connections, or none is queued and the LED
does. `Discovery` and `Declarations`: a central has the services that lie before the
handle it asks for next, and the declarations of the table, of which there are five.

### Only model-checked

* Liveness (`WaitForeverReads`, `BufReadReturns`, `ReturnsOnceQuiet`,
  `UploadCompletes`, `ReturnsToPreamble`, `EventsHandled`, `TimerServed`): fairness
  and ENABLED are beyond the prover.
* The violations of the four findings, which are counterexamples.
* That `FewFaults` cannot be weakened, and the counterexample to `PrefixIntegrity`
  without `NumbersSuffice` and `Punctual` that is described above.

No recursive definition is used, so none had to be left out.

## Not modelled

* CRC-16, SHA-256, RSA: taken at their word.
* `{p` with one argument: whether the C library sets `errno` decides its length;
  `PagedRead` takes the length as an argument, with the default as a case.
* `CommandRunDebug` beyond its arguments: it only reads memory and flash.
* Control bytes typed into a command line other than carriage return, newline and
  backspace, the NUL byte among them; the 0xFF that a silence leaves is modelled.
* A failed `malloc` of the work buffer (`app.c:670`): the thread goes on with a
  null pointer and nothing after it can be stated.
* Overruns inside the UART's own FIFO.
* `serviceChangeCCC`, which a central may write and nothing in the repository
  reads; and the device name's Notify (`app_att.c:29`), for which the table has
  no configuration descriptor: a fact of the table, not of any step.
* Names, appearance and advertising data of the BLE sample, and power levels.

## Plan

Done: the serial driver, XMODEM, the line between two uploads, console, session,
page loops, the BLE sample with its table; and theorems for every invariant and
refinement that the runs check. Next, in this order:

1. How far a host that keeps time must keep it: `Punctual` excludes damaged first
   bytes altogether, though a single one is harmless unless it is followed by
   others; the hypothesis could become a bound as `FewFaults` is.
2. `PrefixIntegrity` for any host when numbers wrap, with a bound on the surplus ACKs
   in place of `NumbersSuffice`.
3. The bound of `SerialRx` on its waiting bytes, with which `ByteChannel` says when a
   byte may be lost, as a property of its own.
4. Console and session in one module, so that a signature typed during or after a
   cut upload is covered byte by byte.
