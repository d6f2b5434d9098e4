# TLA+ specifications of the SAMD21 SDK

This directory holds TLA+ models of the parts of the SAMD21 Arduino core and of
its libraries in which several actors share state or in which the power may
fail, the TLC runs that check them, and proofs checked by TLAPS. Paths in the
text are relative to the repository.

    tlc -workers 2 -config UartTx.cfg MCUart      # a run
    tlapm Uart_proofs.tla                         # the proofs

`PROJECT.json` lists the runs, the lines every definition models (`map`), the
hazards of the code, and, for every property of a passing run, a mutant: a
plausible bug in a modelled function under which TLC finds the property
violated. The mutated definitions stand in the modules beside the originals,
with "a bug:" in their comment.

## Inventory

| component | state | operations | interacts with | hard behaviour | module |
|---|---|---|---|---|---|
| RingBuffer (`cores/arduino/RingBuffer.h`) | slots, head, tail | store_char, read_char, peek, available, availableForStore, isFull, clear | owner of a ring and its interrupt handler | two actors, no lock, two reads of an index per call | `RingBuffer` |
| Buffered UART (`Uart.cpp`, USART half of `SERCOM.cpp`) | two rings, DATA and shift registers, DRE interrupt enable, TXC, RTS pin | write, flush, read, available, IrqHandler | sketch, UART interrupt, handlers of higher priority, peer | interleaving at every volatile access; nested writers; flow control | `Uart` |
| USB device core (`USB/SAMD21_USBDevice.h`, `USBCore.cpp`) | two OUT banks, ready flags, notify; IN bank, its flags and timeout | recv, available, send, clear, handleEndpoint, setup requests | sketch, USB interrupt, host | handing banks over; timeouts; handlers replaced under the sketch | `UsbOut`, `UsbIn` |
| USB CDC (`USB/CDC.cpp`, `Reset.cpp`) | line state, one peeked byte, reset countdown | read, peek, readBytes, available, write, control requests | USB core, SysTick | order of peeked bytes; -1 as a count; cancel against countdown | `Cdc`, `Time` |
| EasyFlash environment (`DFRobot_EasyFlash/src/ef_env.c`) | flash sectors with status bytes, name cache, gc_request and two more flags | set, delete, get, set_default, load, collection | the flash port; the sketch | power failure between any two writes; space running out; retry loops | `EasyFlashEnv`, `EnvStore` |
| EasyFlash log (`ef_log.c`, `ef_port.c`) | ring of sectors, start and end address | write, read, used size, clean, init | the flash port | power failure at a sector change; addresses found again at boot | `EfLog` |
| Time (`delay.c`) | tick count, SysTick counter and pending flag | micros, delay, SysTick_Handler | SysTick, handlers of highest priority | lock-free readings across a rollover | `Time` |
| I2S (`libraries/I2S`) | two buffers, DMA descriptor, transfer in progress | begin, end, read, write, available, DMA callbacks | DMA channel and interrupt, other handlers | buffers swapped on both sides; DMA errors | `I2s` |
| External interrupts (`WInterrupts.c`) | arrays of masks and callbacks, count; EIC registers | attachInterrupt, detachInterrupt, EIC_Handler | EIC, callbacks | the list moves while it is walked | `ExtInt` |
| WiFi101 TCP client (`libraries/WiFi101`) | socket tables, blocked flag, session numbers, client handles | connect, available, read, peek, connected, stop, event loop | the chip | late replies to reused sockets; one interface for all sockets | `Wifi` |
| Tone, USB host, Wire, SPI, SD, CSV, HID, SDU, fonts, FastLED, runtime | — | — | — | see "Not modelled" | — |

What makes each correct: a ring neither loses nor repeats a byte unless it is
full; the UART sends everything in order, returns from every call and withdraws
RTS in time; a USB bank is never given back while the sketch reads it and
always given back in the end, and the sketch's packets are not rewritten while
they are on the wire; the environment store is a map whose updates are atomic,
also across a power failure; the log keeps the newest words; time is what the
counter says; no sample is lost between two I2S buffers; a line's interrupt
calls that line's callback; a connection reads its own bytes, all of them.

## Modules

Every module `X` of the table above is checked by a run, most of them directly;
`MCUart` and `MCEasyFlashEnv` only give values to constants a cfg cannot write.
`UsbOut` is run as a part of `Cdc`, which extends it, `RingBuffer` as a part of
`Uart` and `UsbOut`, and `EnvStore` is the abstract specification `EasyFlashEnv`
refines. `X_proofs` holds the theorems about `X`. Those about `UsbOut`, `Cdc` and `UsbIn`,
and about `Time`, whose reset countdown the port starts and cancels, stand in
`Usb_proofs`; there `UsbIn` and `Time` stand beside `UsbOut`, so their names
differ from that module's (`inCount`, `InSpec`, `bk1Rdy`, `todo`, `TimeSpec`, ...).

Two conventions. Bytes (words, samples) are numbered in the order in which the
model's environment produces them, so order, loss and duplication show. A
history variable (`nested`, `cut`, `crossed`, `jumped`, `stolen`, `raced`, `overtaken`,
`preempted`, `reread`, `stopped`, `misled`, `refused`, `late`, `torn`, `shifted`, `spoilt`,
...) records that the code went
through a window in which it does break its promise; the properties except
exactly this window and must hold everywhere else. Each is explained below.

### Uart

Actors. `"thread"` is the sketch. The UART interrupt runs `IrqHandler` at the
lowest priority there is (SERCOM.h 25). `"isr"` is code the UART interrupt cannot
preempt: a handler of higher priority, or a section with interrupts masked; the
code knows this case, `write` serves the UART itself then (Uart.cpp 166-183).
While `isr` runs the thread and a UART interrupt under way stand still, and no
new one is taken. The hardware moves bytes from DATA to the shift register to
the wire and receives.

Steps. Each read or write of a volatile shared variable in `write`, `flush`
and `read` is a step (`pc`): the DRE test and the test of the ring in line 160
are two, storing a byte and advancing the head in `store_char` are two. In the
sketch's `availableForStore` the test of the indices and the computation are
two steps, the value of the test is kept in `rdWrap`. The UART interrupt goes
through `IrqHandler` in such steps too (`UartIrq`, then `IrqStep`; `irq` names
the next access, `held` is the byte in a register, `newHead` the index
`store_char` computed), and a writer of higher priority may run between any two
of them. `IrqHandler` in one step is the handler as a writer calls it itself
(`SpinServe`): that one is preempted by nothing in the model. Joins: the store
of a byte and the computation of the next index are one step, `available()`
reads both indices at once, and so does the interrupt's decision to withdraw
RTS; in all of them the other side can change only one of the values, and a
change between them gives the outcome of an earlier or later step, or one that
a nested handler has just decided in the same way.

`lost` collects the bytes dropped by the hardware, by a framing error, or by a
full ring. Three windows break what the code promises, and the properties except
exactly them:

- `nested`: a writer ran inside another one's write, and can take the slot the
  outer one waited for, whose byte is then dropped; or it put a byte in DATA
  (itself or through `IrqHandler`) while the interrupt it preempts held one it
  had fetched from the ring: the byte is sent a second time when `read_char` had
  not yet advanced the tail, overtaken when it had.
- `cut`: a writer turned the DRE interrupt on while the UART interrupt stood
  between its look at the empty ring (112) and the disabling of DRE (117). The
  byte waits for the next write, and flush, or a writer on the full ring, spins
  until one comes, which from the spinning sketch is for ever.
- `crossed`: a writer that serves the UART on a full ring took a received byte
  while the interrupt was storing another: they change places, or share a slot.

### UsbOut and Cdc

Actors. The host fills the bank the endpoint descriptor points at whenever the
hardware accepts packets (`HostPacket`), empty packets included; the USB
interrupt runs `handleEndpoint`; the sketch calls `available`, `peek` and
`recv`, which all begin with `_recv`.

Steps. A `synchronized` block is one step, and so is one byte of the copy loop;
between two steps of the sketch the host and the interrupt may act. The two
branches of `_recv` and of `handleEndpoint`, one per bank, are one definition
with the bank as a parameter. `handleEndpoint` is one step: the USB interrupt
has the highest priority, and no packet completes in the few instructions
between `release` and the acknowledgement (lines 382 and 397), since one is on
the wire for longer. `Other` is the other bank, `want = 0` stands for
`available` and `peek`; `got` is what `recv` returned.

`Cdc` adds the calls of `Serial_` and the configuration by the host: before it,
`recv` answers `(uint32_t)-1`, which `readBytes` adds to its count (`early`).
`base` is how much the sketch had been given before the call, so that
`CountHonest` can compare the count with the bytes in the caller's buffer.
`readBytes` is a sequence of `recv` calls until the length is reached or the
timeout (`expired`) has passed; it does not look at `_serialPeek` (`jumped`).
Everything else of `Serial_` that receives is covered by these.

### UsbIn

`send` step by step: the test of BK1RDY, the wait for TRCPT1 with its timeout,
the copy, the byte count, the acknowledgement, the hand-over. The host polls or
not; the hardware reads BYTE_COUNT when a packet begins and the bytes while it
is on the wire. An IN endpoint has no handler, so the interrupt acknowledges all
its flags (USBCore.cpp 910-914), TRCPT1 included: `stolen` says that this
happened to the flag `send` was waiting for. The wait of 70 ms is `Poll` and
`WaitOn`, which `GiveUp` may end at any time after a look at the flag. `clear`
looks neither at BK1RDY nor at TRCPT1; called while the bank is the hardware's
it sets `overtaken`.

### EasyFlashEnv

The library masks interrupts during every call, so the only interleaving is
with the power supply. A step is one write of the flash, and `pc` names the
next write; decisions between writes are steps of their own where the code
branches (`NewEnv`, `FindOld`, `GcNext`, `RecoverNext`).

Flash is counted in units of one record header. A sector is a header (magic
word, store status, dirty status) and a sequence of records. A record has a
`start`, its place in the sector (an address is a sector and a start), a key, a
value, a status, and `crcOk`, true once its contents are complete.
`Size` gives the length of a record by its value; keys have equal lengths.

| pc | code |
|---|---|
| alloc, find | new_env, alloc_env, find_env, move_env |
| preDelete, preDirty, delete, dirty | the two writes of del_env, first and second call |
| status | update_sec_status |
| preWrite, header, body, commit | PRE_WRITE, record header, name and value, WRITE |
| gc, gcPick, gcNext, erase, format, gcDone | gc_collect, do_gc, format_sector |
| checkHdr, recGc, recNext, recEnd | ef_load_env |
| wipe | the loop of ef_env_set_default |

`job` tells for whom a record is written: a call, the collection, or the
recovery; `gcRet` where a collection returns to.

Power failure (`Crash`). Before any write, and in the middle of the record
header: with a length of all ones the header is later marked ERR_HDR and takes
the room of a header (`Torn`). A lone status byte is skipped by the search for
the next record unless it is the first of its sector (`Reread`). RAM starts
again. The loading's own writes of ERR_HDR happen when it first reads such a
record; they are done in the crash step. Recovery copies the records left
PRE_DELETE, which no read returns until then; its search ends at the first
PRE_WRITE record (1716-1721), or where it finds no room and nobody has requested
a collection. `stopped` says that a PRE_DELETE record was left behind in this way.

Abstractions, all of data: an erase and a sector header are atomic; the sector
cache is left out (it repeats what the flash says); the name cache maps a key to
an address but does not confuse keys; a cache entry is changed with the commit
and not one write earlier (nothing reads it in between); the requests have one
default entry; when move_env calls del_env with a null key and
last_is_complete_del is false, the cache is left alone where the code would
take a length through a null pointer (ef_env.c 1097).

`EnvStore` is the promise: a map `kv`, a call `req` in progress, and one
instant (`Apply`) at which it takes effect. The refinement mapping (`Map`):

- `kv` is `Retained`, what the flash holds for a key: the value of the written
  record of the key, or, if there is none, of the record about to be replaced,
  PRE_DELETE. Reads accept only WRITE, so between calls, and after a boot,
  `ReadBack` and `BootKeeps` compare it with what `Get` returns;
- `applied` is true from the write of WRITE for a set and from the write of
  DELETED for a delete; what a collection, a move or the marking of the old
  record does changes nothing. When a set commits, the old record is PRE_DELETE.

### EfLog

A ring of sectors whose headers go erased, empty, using, full; a step is one
write or one erase; a power failure may come between any two and inside a write
of data. RAM holds only the two addresses, and `Boot` finds them again from the
headers (`find_start_and_end_addr`) and from the trailing erased words of the
sector in use. A word is its number, negative if its last byte is 0xFF and 0 if
all are: that is what the search for the end can confuse (ef_log.c 230), and
`spoilt` says it did. `full` marks the failure between filling a sector and
marking it FULL, after which the code loses count. `ef_port_erase` erases one
sector whatever size it is given (ef_port.c 114), so `ef_log_clean` leaves the
other used sectors (`dirty`).

### Time

Time is counted in processor cycles and every step takes some, so two readings
of the counter are never at one instant. The SysTick handler (entry, increment,
test and store of `ticks`, and at zero `banzai`, whose first act is to mask
interrupts) interrupts the sketch, handlers of the highest
priority interrupt both; what they do is one step of several cycles. `micros`
is three reads (VAL, PENDSTSET, count) until two readings agree; `delay` calls
it; the division by a multiplication and a shift is the code's. `Setup` is the
two control requests of the host that start and cancel the countdown to the
bootloader. They may fall between any two accesses of `tickReset`; from its read
of `ticks` to the masking in `banzai` they come too late, and `raced` says that
the last one did. The tick count and the microseconds wrap, each at its own width (after 49 days and
after 71 minutes); the time in cycles wraps with the count.

### I2s

Calls of the library run with interrupts masked and are one step. The DMA
interrupt is a sequence of steps (`Service` or `ServiceError`, `Test`, `Start`,
then the three stores of the swap, `SwapIndex`, `SetLength` and `ResetOffset`, or
`Stop`), because its priority is the lowest: with `Preempt`, handlers of higher
priority call the library between them (`preempted`). The buffer a receiver
changes to has its new length before its offset is reset; a handler that reads
in between gets bytes from the old offset on, and the reset hands them out again
(`reread`). That is so at the first completion, where the old offset is 0; later
it is the end of the buffer, and the handler gets nothing. The channel moves a
beat at a time, or ends
with a bus error (`failed`). A transfer takes a size in bytes but moves whole
beats counted from the end, so the odd bytes in front are skipped (`skipped`).

### ExtInt

The stores of `attachInterrupt` and `detachInterrupt` are steps in program
order (the arrays are not volatile: a compiler that reorders them is outside the
model); `EIC_Handler` runs between any two. A callback may detach its own line;
a sketch in which both the main program and callbacks change the list has to
mask interrupts around its own calls, which the model assumes. The windows the
properties name: a slot between its two stores (`torn`), an edge between a
callback and the clearing of its flag (`late`), and a slot that changed under
the callback so that another line's flag is cleared (`shifted`).

### Wifi

The sketch is one thread; a call is a sequence of steps because it begins with
the event loop, whose callbacks may close sockets and change state under it. The
chip (external; modelled from how `socket.c` uses it) connects, delivers data
for a pending request, or ends a connection, and queues its replies. A reply
with data blocks the host interface until its last byte is fetched. `closing`
is the nesting: a close inside a callback runs an event loop of its own before
it goes on. Connect replies carry no session number: a late one can end the wait
of the next connection on the same socket (`misled`, socket.c 288); `recv` sets
bIsRecvPending also when its request could not be sent (`refused`, 925).

## Runs

| run | properties | bounds |
|---|---|---|
| UartTx | `TxFifo`, `NoLostWakeup`, `AllSent`, `CallsReturn` | rings of 2 slots, nested writers, 3 bytes out, 1 in, no RTS |
| UartRx | `FlowControl`, `RxOrder`, `RtsRecovers` | 8 slots, threshold 6, 10 bytes in, one framing error, nobody writes |
| Cdc | `InOrder`, `NoLostRelease`, `BankStable`, `StreamOrder`, `CountHonest`, `EverythingRead` | ring of 2 slots, banks of 2 bytes, reads of up to 2, 5 bytes, 1 empty packet, counts modulo 8 |
| UsbIn | `HostStream`, `NothingElseLost`, `GivesUpForHost` | packets of 2 bytes, sends of up to 3, 6 bytes, 1 clear |
| EnvMap | `IsMap` (refinement), `ReadBack`, `EndsInIdle` | 3 sectors of 5 units, 2 keys, records of 2 and 3, cache of 1 |
| EnvCrash | `BootKeeps`, `OneWritten` | as EnvMap, cache of 2, no set_default, 1 power failure |
| EfLog | `KeepsNewest`, `ReadBack`, `WipedForReason` | 3 sectors of 2 words, writes of up to 5, 10 words, 2 power failures, 1 clean |
| LogClean | *violated*: `CleanForgets` | as EfLog, 7 words, 1 power failure |
| Time | `MicrosExact`, `DelayLasts`, `DelayReturns`, `EraseWanted` | tick of 24 cycles or 8 us, count modulo 4, micros modulo 16, delays of 1 and 2 ticks, 2 requests |
| I2s | `InOrder`, `NothingLost`, `Restarts`, `AllSent` | 2 buffers of 2 beats of 2 bytes, calls of up to 5 bytes, 9 bytes out, 12 in, 1 end |
| Wifi | `StreamOrder`, `NothingLost`, `NoWedge`, `RecvOutstanding`, `EverythingRead` | 2 sockets, 2 clients, 3 sessions of 3 bytes, buffer of 2, 1 failing request |
| ExtInt | `OwnCallback`, `NoEdgeLost`, `EdgeServed` | 3 lines, one whose callback detaches it |

Why the bounds are enough.

- A ring of 2 slots fills, empties and wraps with every byte; three writes are
  one in the ring, one in the hands of the interrupt and one that preempts it.
  `UartRx` needs the threshold to be met and left again after a wrap while a
  reader holds an outdated test, which takes 8 slots and 10 bytes; `Slack` is 0,
  the peer stops at once. Its threshold of 6 is the least that holds there: with 5,
  and 12 bytes, TLC finds an overrun.
- In `Cdc` a bank holds more than the ring, so a copy stops in the middle of a
  bank; five bytes fill both banks, make the hardware wait and come back to the
  first bank. Modulus 8 is larger than any count the bounds allow, so the -1
  stays distinguishable.
- In `UsbIn` a send of three bytes is two packets, and six bytes are enough for
  a send that fails between two that do not.
- In `EnvMap` two keys with records of 2 and 3 units in sectors of 5 fill a
  sector, mark it full, request a collection from both places that can, and
  evict from a cache of one entry; calls repeat without limit. `EnvCrash` starts
  from every reachable state; one failure may hit a call, a collection or (as
  the first boot is not special) the loading.
- In `EfLog` ten words go round a ring of six; a write of five crosses two
  sector changes; two failures allow one in the recovery of another.
- In `Time` the delays start in the last tick before the wrap of the count, and
  micros wraps every second tick. Handlers of highest priority take at most a
  quarter of a tick (`Busy` = 6 of 24 cycles): under near-permanent load two
  readings a whole tick apart agree, and micros is a tick old. That is a limit of
  the algorithm; the theorems have it as a hypothesis (`LongTick`).
- In `I2s` an odd call leaves odd bytes, nine bytes are more than both buffers,
  and twelve arriving ones fill a buffer three times, so each is come back to.
- In `Wifi` three sessions reuse a socket while a reply of the earlier one is
  still queued, and a reply of three bytes does not fit the buffer. Four sessions
  (with a buffer of one and two bytes each) and three clients were tried as well.
- In `ExtInt` with three lines an entry moves past a slot the handler has served.
  Two lines with two callbacks each were tried as well.

Two failures are beyond what the environment store survives: a failure in a
collection, and another in the collection the boot resumes, can leave the
collected sector with copies in the reserve and no room to finish; `do_gc` logs
the failed move (1228-1233) and formats the sector all the same (1235), and the
value is gone. `BootKeeps` is checked, and proved, for one failure.

Where a cfg says `CHECK_DEADLOCK FALSE` the system may stop: by the bounds, with
all bytes sent or all words written, or because the application is erased, or, in
`UartTx`, because a call spins for ever behind a wakeup that was `cut`.

Fairness. The processor goes on with the code it is executing: weak fairness of
each context's steps, in every module with liveness. The hardware finishes what
it began: the UART shifts, a packet on the wire ends, the DMA channel moves its
beats, a pending enabled interrupt is served. `UsbIn` has strong fairness of
`GiveUp`, since the timeout is bounded by a count of loops. Nothing is assumed of
a host that polls, a peer that answers, or a sketch that calls, except where a
property is about a sketch that goes on reading (`RtsRecovers`,
`EverythingRead`): there the call it needs is strongly fair, for a sketch that
makes it again and again.

## What the violation shows

`CleanForgets`: "Clean all log which in flash." (ef_log.c 692). `ef_log_clean`
asks the port to erase the whole area; the port erases one sector. The headers
of the other used sectors remain, and after a reset the old log is found again.

Other places where code and text disagree, or where the code has a gap, met
while modelling. The properties except them, by the history variables named
above, or the bounds keep them out:

- `flushUART` waits for TXC only when DRE is clear (SERCOM.cpp 115), so flush
  may return before the last byte is sent; CHANGELOG 187 promises the last bit.
- A writer finds a free slot, a nested writer takes it, and the first one's
  `store_char` drops its byte while `write` returns 1 (Uart.cpp 185).
- A writer of higher priority between `available()` and the disabling of DRE
  (Uart.cpp 112-118), in `read_char` (RingBuffer.h 95-96) or in `store_char` of the
  UART interrupt: `cut`, `nested` and `crossed` above.
- A read by a handler between the last two stores of a swap (I2SDoubleBuffer.cpp
  128-129) is handed out again.
- The search for interrupted records ends at the first PRE_WRITE record
  (ef_env.c 1721), and a later PRE_DELETE record is not recovered (1706): its
  value is in the flash and get returns nothing.
- The loading retries while a collection is requested, although the collection
  may have nothing to collect (ef_env.c 1758).
- gc_request survives a set that failed for lack of room, and the next
  allocation takes the sector kept for collection (ef_env.c 1058, ef_cfg.h 86).
  The next collection may then have nowhere to move records to, and loses them
  while last_is_complete_del says that all is well. TLC finds it with two sectors,
  and with three when the data nearly fill the store (three keys with records of
  2 and 3 units in sectors of 5); the two keys of `EnvMap` always leave room.
- The USB interrupt acknowledges the completion `send` is waiting for
  (USBCore.cpp 912), and `send` times out for a host that polls.
- `micros` calls itself interrupt-compatible (delay.c 35); called from a handler
  that interrupted SysTick_Handler before its increment (89), it is a
  millisecond too small.
- A `cancelReset` within the decrement of `ticks` is overwritten (Reset.cpp 83);
  one between that and the masking in `banzai` (44) is not looked at.
- Windows of the external interrupts and of the WiFi sockets: see above.

Further hazards no property covers: flush with
interrupts masked (Uart.cpp 86), a framing error before a good byte (100), the
null key (ef_env.c 1097), name collisions in the cache (405), a failure in
set_default (1743), garbage hidden from collection (1092), the order of release
and acknowledgement (SAMD21_USBDevice.h 397), a handler replaced under the
sketch (USBCore.cpp 412), and the answer -1 of send taken for success
(CDC.cpp 268). Sequential ones met on the way, which a test reaches as well: the
length in writeLog (DFRobot_EasyFlash.h 256), the DMA error path (DMA.cpp 259),
tone switching pins (Tone.cpp 138), the server's and UDP's use of the socket
buffer (WiFiSocket.cpp 497, WiFiServer.cpp 83).

## Proofs

All are about every value of the constants that satisfies the named assumptions
of the modules (`RingAssumption`: N > 1; the others say that sizes are positive
and bounds are naturals; `CdcAssumption`: a count fits in size_t). TLC evaluates
the assumptions in the runs. 47 theorems are listed in `PROJECT.json`.

Type invariants are proved rather than run: as invariants of a run they would
show less than `TypeCorrect` does, and the other properties need them as lemmas
anyway.

- RingBuffer: `RingAccount`. Bytes stored and room left add up to N - 1, a ring is
  full exactly when no room is left, for every wrapping of the indices. The
  lemmas after it say what a store, a removal and a move of the tail do to the
  sequence of bytes the ring stands for (`StoreAppends`, `DropTails`, `TailMoves`);
  the order theorems of Uart and UsbOut rest on them.
- Uart: `TypeCorrect`, `WakeupNeverLost`, `SentInOrder`, `ReceivedInOrder`,
  `NeverOverrun`, all with the interrupt in single accesses and writers of higher
  priority between them. The inductive invariant `IInv` is `TypeOK`, `NoLostWakeup`,
  `HeldByte` (the byte `read`, or the interrupt, holds is a byte and not the -1 of
  an empty ring, without which the types are not inductive), `IsrTested` (what the
  isr context has tested stays true, as nobody preempts it) and `Draining` (the
  interrupt finds the byte it goes to fetch: a writer that serves the full ring
  leaves it one). One lemma per group of actions. For the bytes sent
  `TInv` adds, outside `nested`, `OneWriter` (what `write` has tested stays
  true until it acts on it), `Numbered` (wire, shift register, DATA, the byte the
  interrupt holds and the ring are consecutive numbers) and `Counted` (their
  number is that of the bytes written, but for the one in hand). For the bytes
  read `RInv` adds, outside `crossed`, `StillFirst` (the byte
  `read` has fetched stays the first of the ring), `Keeping` (the slot the
  interrupt stores in stays the free one at the head) and `AllBut`: what was read,
  the ring, the byte in hand and the FIFO are together a rising sequence of all
  that arrived but the dropped. `NeverOverrun` needs a hypothesis on the
  constants, `Margin`: three times the bytes that may still arrive after RTS is
  withdrawn, less two, where those are the FIFO, the byte the interrupt stores
  before it decides about RTS, and `Slack`. The code's threshold of 10 (Uart.cpp
  25) covers it for a peer that stops at once. The margin is sufficient, not
  sharp: `UartRx` holds below it. `FInv` says how many
  bytes may have come in since the count `read` holds was taken: an outdated
  count can assert RTS once, one that also missed a wrap of the indices a second
  time, and never a third before the ring has gone below the threshold again.
- UsbOut: `EndpointTyped`, `ReleaseNeverLost`, `BankNeverOverwritten`,
  `BytesInOrder`. `Handover`
  says who owns which bank: either both are the sketch's, the hardware waits and
  the next packet goes to the bank being read; or the bank of the next packet is
  the hardware's and the other one is the sketch's exactly when it is the one
  being read. `Reading` is the bank being read, which `current` no longer names
  while the bank is given back. `Loaded` (counts never exceed the contents of a
  bank) keeps the copied bytes defined. `Exact` makes them equal and says how
  far a copy may still go in ring and bank; with it `Ordered` is inductive: the
  bytes read, in the ring, in the bank being read, in the other one and in
  flight are numbered one after the other.
- Cdc: `PortImplementsEndpoint` (every step of the port is a step of `UsbOut` or
  leaves it alone, so the theorems about UsbOut hold of the port:
  `PortReleaseNeverLost`, `PortInOrder`), `CountsHonest`, `StreamKept`, from `CInv`, which
  adds `Asked`: what the call in progress has asked the endpoint for, and that
  a peeked byte is left alone by `read` and `peek` and absent in a `readBytes`
  that does not skip it.
- UsbIn: `GivenUpForHost`, from `WaitJustified` (while `send` waits the bank is
  the hardware's, or TRCPT1 says it is back, or an interrupt took the flag);
  `ReceivedInOrder` and `OnlyGivenUpLost`, from `StreamInv`: as long as no clear
  overtook the hardware, the bank is the sketch's in the steps that fill it (`Owner`), and what
  the host has, what is in the bank and what the call still has to send follow
  each other (`InTurn`).
- Time (in `Usb_proofs`): `ErasedOnlyWhenWanted`, from `CountdownWanted`: a countdown that runs,
  is being decremented or has come to its end is wanted, or the last request came
  too late for it (`raced`).
  `MicrosTellsTime` (`MicrosExact`), `DelayTakesItsTime` (`DelayLasts`) and
  `TimeTypeCorrect` have a hypothesis about the environment, `LongTick`: handlers
  of highest priority take less than half a tick, so that a reading cannot be a
  whole turn of the counter old. The first two need `FineScale` too, which is
  true of the code: the multiplication and shift that stand for a division by 48
  are off by less than a cycle (47999 * 16 <= 2^20). `ClockInv` is the argument of micros. `CountsTicks`:
  the tick count, the pending tick and the one the handler has entered but not
  counted are together the ticks that have passed. `Sampled`: how old the reading in hand is
  (`Since`), whether the counter has started again since (`Overtaken`), and that
  otherwise it `Tells` a time within the call. Two readings agree only if the
  counter did not start again between them, hence the answer of `micros` is a
  time between its call and its return (`DoneTellsTime`, `MicrosTold`,
  `WrappedMicros`). A handler needs at most four readings (`IsrStable`).
  `DelayInv` is the argument of delay. `Lasted`: the milliseconds counted lie
  between its call and the microsecond `start` stands for, by numbers that do not
  wrap, of which the code's are the remainders.
- I2s. `IInv` is who works on which buffer: `Known` (what the library believes
  of the channel) and `Separate`. It gives `TransferNeverRefused` and
  `BuffersApart`. `BInv` adds the types, `Offsets` and `Drained` (a receiver starts a
  transfer into a buffer all of which was read) and gives `TypeCorrect`. On it rest
  `ReceiverRestarts`, `AcceptedKept` (`Accounted`: while the interrupt has
  started a transfer and not yet swapped, the buffer counts as in the
  channel's hands), and `SamplesInOrder`. For the last, `TxOrder` orders sent
  bytes, the channel's and the sketch's buffer; `RxOrder` the read bytes and
  both buffers, each a run of consecutive bytes, and `Crossing` says what it is
  worth within the swap (`Swapping`), where the buffer just left is the channel's
  and the one entered is whole and unread; `Whole` counts the bytes read in
  whole buffers, so that a gap can only lie between two of them.
- EasyFlashEnv: `TypeCorrect` and `StaysInSector`, through any number of power
  failures: a record is never written past its sector, not in a sector left over
  from a failure either. `CInv` is `TypeOK`, `Control` (for which `job` each write
  may be, where it returns to, what the call has asked for), `Pointers` (the
  addresses in hand are those of records), `Flash` and `InSector`.
  `ReadsWhatIsStored` and `ImplementsMap`, the refinement of `EnvStore`, hold of
  the behaviours that are `Quiet`: no power failure, and no collection that finds
  no room for a record it has marked (`Stuck`). The second is the gap about gc_request above:
  it is reachable with three keys or with two sectors, and never in `EnvMap`'s
  instance; without it neither property is true for every value of the constants.
  The invariant `Steady` has seven parts: `Clean` (only the record being written
  is unfinished, only the one being replaced PRE_DELETE), `OldState` (how far the
  replaced record's status has got at each step), `Unique` (one written record
  per key, none from the PRE_DELETE of the old one to the WRITE of the new one),
  `Cached` (a cached record is not deleted), `Collected` (what the collection has
  passed is deleted, and no copy goes to its sector), `Wiped` (what set_default
  has passed is gone) and `Still` (nothing is recovered). With it
  the refinement goes step by step: `MapStays` for most, `MapCalls`, `MapReturns`, `MapApplies`
  for the write that commits, and `MapForgets` for set_default.
  `BootRestores` (`BootKeeps`) and `BootLeavesOne` (`OneWritten`) are about the boot
  after a power failure, for every size. The hypothesis `Mendable` is that there
  is one failure and that no value is `Lost`: no move before it or in the boot
  finds the flash full while no other written record has its value. With two
  failures TLC finds `OneWritten` violated in the instance of `EnvCrash`; with one,
  `Mendable` is an invariant of that instance. `Mend` says: `Steady` up to the
  failure (`CrashKeeps`: a failure damages no record with a status); then, until the boot ends, `Steady`,
  `Repair` or, when no sector header is left, `Wiping`. `Repair` is weaker than `Steady`: copies
  of a key may be marked and written at once. What the boot needs is that they
  agree, or that the stale one goes: `Once` (at most one is written), `Outdated` (a
  marked record that differs from another of its key lies in a sector to be
  collected), `Agreed` and `FirstMoved` (two marked ones differ only while the
  collection moves one, and it is found first), `Passed` (what the collection
  could not move out has a written copy), `Whole` and `Taken` (the move in hand
  is of a marked record, and what it writes is a copy). `SetDirty` is why the
  cut set leaves such a state: its old record's sector is to be collected before
  the new one is written. `Tells` is what the flash then holds for a key, and every
  step of the boot keeps it. That get returns it in the end needs `Restoring`:
  `Sought` (the search has left no marked record behind it, and when it was not
  stopped it ends with none) and `Led` (the cache leads to written records, or to
  one that is being copied). A boot that was not stopped then has nothing but
  written records to read (`RepairReads`, `BootReads`).
- EfLog: `TypeCorrect`, `NewestKept`, `GivenUpForReason`, `ReadsItsWords`. `LInv` is
  `TypeOK`, `Fits` (what a call in progress still has to write fits where it
  writes) and `Regular` (which sequences of sector headers can be
  on the flash: a log that is going, one being formatted, and what a boot finds
  in either). With it `find_start_and_end_addr` finds the sector that was in use,
  for every number of sectors. `Regular` is about a log without accident
  (`full`, `spoilt`); `NewestKept` holds after the accident `spoilt` records too,
  so it needs a second invariant that says less about where the log ends: in
  `OInv`, `Ordered` keeps the order of the sectors round the ring (`InOrder`),
  admits an end address past the sector in use (`Over`), and says that a sector
  about to be filled is erased and one in use has room (`Unfilled`), since a
  boot rebuilds both addresses from the headers alone. The search for the end of the log in its last sector
  and `ReadBack` use a least counterexample where one would expect an induction.
  The loop of `ef_log_read` is a recursive function of a turn's address and
  rest; it unfolds because every turn reads at least a word (`LoopEnds`), and
  `ReadsOn` says what a read that has passed the first sector's end returns,
  from any word on.
- Wifi: `TypeCorrect`, `NeverWedged`, `ReadsInOrder`, `KeepsEveryByte`, `NeverDeaf`. `IInv` is `TypeOK`, `NoWedge`, `Numbers`
  (no session of a socket, the chip or a reply is newer than the counter),
  `Calls` (a call in progress has a socket, and closes wait only in the event
  loop) and `Fresh` (a connection being made has no data, request or reply yet).
  The other three need `SInv`, which adds what chip, replies, buffer and call in
  progress know of one connection: it has at most one request or answer under
  way, and none while bytes wait to be read (`AskedOnce`, `Unasked`), one unless
  an accident is recorded (`Outstanding`); replies are those of its own socket
  and session (`Owned`), the reply to connect comes once and leads the state
  (`GreetedOnce`, `Led`); and what is read, buffered, left in the host interface
  and in an answer is numbered one after the other (`Numbered`) and adds up to
  what the chip has sent (`Counted`).
- ExtInt: `TypeCorrect` (the list never outgrows its slots, by counting the
  distinct lines in it), `CallsOwnCallback`, `EdgesKept`. `IInv`: `Types`,
  `Placed` (where the sketch is in its call), `Distinct` (a line has one slot,
  up to the step in progress), `Agree` (outside the slot between its stores the callback
  in a slot is its line's), `Serving` (what the handler has in hand), and
  `NoEdgeLost`.

Only model-checked: the liveness properties, EnvMap's `EndsInIdle` among them (out of
the prover's reach), and `CleanForgets`, which is false. Every other property of
a run is a theorem.

## Not modelled

- Vendored code and data: CMSIS and bootloader headers, FastLED, fonts, firmware
  images, the drivers of the WiFi chip below the host interface, the USB host
  stack. Most of the repository's lines are of this kind (the WiFi
  library and FastLED alone are half of it): declarations, tables and
  arithmetic of one actor. A model of them would say nothing a compiler does
  not, so the share of the lines the models cover stays small.
- Wire and SPI: blocking register protocols of one actor; the hardware decides
  the outcome of every step.
- SD and CSV: file formats over a block device, sequential, from external
  projects. HID, SDU, analog correction: descriptor tables, an image, two
  register writes. Tone: one timer, one counter.
- The Arduino runtime: formatting, strings, pins, startup.
- Of modelled components: begin and end of Uart; control requests, enumeration
  and bus reset of the USB core, and replacing a handler the sketch is executing;
  the sector cache and env_auto_update of EasyFlash; pulseIn and
  delayMicroseconds; the unbuffered write of I2S; the NMI line of the external
  interrupts; servers, UDP, sending, SSL and name resolution of WiFi101.
  `PROJECT.json` has the list by component.

## What could follow

1. What a store still promises after a failure and a boot: `ReadBack` does not
   hold then (the search for interrupted records ends early, see above), and
   `Steady` is not restored by the records left behind.
2. WiFi servers and UDP on the same socket table, and sending.
3. SET_CONFIGURATION in the middle of a call of the sketch.
