# A TLA+ verification of the Pico C++ SDK

The repository is a small C++ layer over the Raspberry Pi Pico (RP2040) SDK and
FreeRTOS: an SPI master whose transfers run over DMA, an MCP2515 CAN controller
driven over that SPI, per-pin GPIO interrupts, a base class for tasks, and the
glue that lets micro-ROS talk UDP and read the clock. The program is about 600
lines of logic in `source/` and `include/`; `libmicroros/` is a prebuilt archive
with 217000 lines of generated and vendored headers and holds no source of the
program.

This directory models all of that program that keeps state in TLA+, checks it
with TLC on small instances, and proves parts of it for every instance with
TLAPS.

## The system

| Part | State it keeps | Operations | Who calls it |
|---|---|---|---|
| SPI bus (`spi.cpp`, `spi.h`) | `_busMutex`, `_csActive` | `csSelect`, `csDeselect`, `lock`, `unlock` | every register access of the CAN driver, from any task |
| SPI transfer and DMA (`spi.cpp`, `dma.cpp`) | two channels, two semaphores, `callbackList` | `transfer`, `enableDma`, `dma_handler0/1` | the holder of the bus; the DMA interrupts |
| CAN service (`mcp2515Task.cpp`) | `_intSemaphore`, `_rxSemaphore`, `_txSemaphore`, `_pendingRxBuf`, `_pendingTxBuf`, `_lastIntTime`, `_lastRxTime` | `initialInTask`, `irqHandler`, `run` (the `canService` task), `rxReadInTask`, `txBuffer0SendInTask` | the INT pin, its own task, the tasks of the user |
| Register driver (`mcp2515.cpp`) | the chip's registers | read, write, bit modify, send, receive, filters, masks, bit rate, reset | the CAN service and its users |
| GPIO dispatch (`gpio.cpp`) | `pinCallbacks` | register, unregister, dispatch | the CAN service; the GPIO interrupt |
| Task wrapper (`taskinterface.cpp`) | `taskStarted`, `taskHandler` | construct (starts the task), destroy | subclasses such as the CAN service |
| UDP transport (`udp_transport.cpp`) | `sock_fd`, the agent's address | open, close, write, read | micro-ROS |
| Clock (`posix_time.c`) | none | `clock_gettime`, `usleep` | micro-ROS |

How a received frame travels: the controller stores it in RXB0 or RXB1, raises
a flag and pulls INT low; the falling edge runs `irqHandler`, which notes the
time and gives `_intSemaphore`; `canService` reads CANINTF over SPI, clears each
flag it saw, sets the pending bit of the buffer and gives `_rxSemaphore`; the
reader takes a token, looks which bit is set, clears it and reads that buffer
over SPI. A frame to send goes into TXB0; `_pendingTxBuf` and `_txSemaphore` are
to keep the next call away from it until it is out. Each SPI access is a
`csSelect .. csDeselect` bracket under a recursive mutex, and each transfer in
it waits for two DMA completions that arrive in interrupt handlers.

What is hard here is the order of things: handlers, `canService` and the user's
tasks interleave at every shared byte; the chip raises flags while earlier ones
are being served; INT is a level that is only noticed by its edges; binary and
counting semaphores saturate; the chip survives a restart of the processor. The
list of these hazards, each at its line, is in `PROJECT.json`.

What makes each part correct:

- bus: one task between select and deselect, brackets balanced, no assert, no
  wedge;
- transfer: it returns only when both channels are done and never on a token of
  an earlier transfer;
- CAN receive: each frame handed over once, whole, in order, at last, with the
  time it arrived; no interrupt slept over;
- CAN send: no frame overwritten before it is out, no caller waiting for ever;
- registers: encodings that round-trip, filters that select what was asked for,
  bit timing that gives the nominal rate, a chip that is never left off the bus;
- pins and tasks: no handler on a driver that is gone, no task on an object that
  is not complete or is freed, no semaphore used before it exists;
- transport: no use of a socket that is somebody else's;
- clock: exact and monotone, and time stamps that belong to their frame.

## The modules

| Module | Models | Kind |
|---|---|---|
| `RecursiveMutex` | the FreeRTOS mutex behind `_busMutex` (external) | component |
| `SpiBus` | `csSelect`, `csDeselect`, `lock`, `unlock` of any set of tasks | component |
| `SpiBusProofs` | theorems about `SpiBus` | proofs |
| `SpiDma`, `MCSpiDma` | `SPI::transfer` over DMA and both interrupt handlers | component, its instances |
| `SpiDmaProofs` | theorems about `SpiDma` | proofs |
| `Mcp2515Chip` | the controller and the edge detector of its INT pin (external) | component |
| `Mcp2515Task` | bring-up, `irqHandler`, `run`, `rxReadInTask`, `txBuffer0SendInTask` | component |
| `CanMailbox` | each frame read once and in order | abstract specification |
| `Mcp2515TaskProofs` | theorems about `Mcp2515Task`: types, interrupts | proofs |
| `CanTrafficProofs` | theorems about `Mcp2515Task`: frames read and sent, `CanMailbox` implemented | proofs |
| `CanIds` | identifier, filter and bit timing registers; the frames of the bus | operators |
| `CanRegisters`, `MCCanRegisters` | bring-up, `setFilter`, `setMask`, bus-off recovery, sending and reading, register access by register access | component, its instance |
| `CanRegistersProofs` | theorems about `CanIds` and `CanRegisters` | proofs |
| `Stamps` | `clock_gettime`; the time of an edge through `irqHandler`, `run`, `rxReadInTask` in two words | component |
| `StampsProofs` | theorems about `Stamps` | proofs |
| `DriverLife` | `TaskInterface`, `initialInTask` and `gpio.cpp` through construction and destruction | component |
| `DriverLifeProofs` | theorems about `DriverLife` | proofs |
| `UdpTransport` | `udp_transport_open`, `_close`, `_read` among the sockets of other tasks | component |
| `UdpTransportProofs` | theorems about `UdpTransport` | proofs |

The layers meet at the atomicity of a register access. `SpiBus` shows that
brackets exclude one another, so `SpiDma` has one task in `transfer`, and
`Mcp2515Task` may take a register access as a single step. The bus fails to
exclude only while somebody runs `setFilter` or `setMask` in a build without
asserts (run `bus_overlap`); `Mcp2515Task` is about drivers that do not.
`CanRegisters` is about those that do: `LockCoversFirstBracket` and
`UnlockReleasesNothing` say that the lock keeps nobody out of a section beyond
its first bracket, so there sections, recovery, bring-up, senders and the reader
interleave bracket by bracket and no lock appears. `Stamps` and `Mcp2515Task` are two
views of the same handler and task: the one keeps times, in the two words in which they
move, on one core; the other keeps frames, bits and tokens, on any number of cores.
`DriverLife` comes before and after both: it shows when there is a driver whose
task and handler may run at all.

### SpiBus

`pc[t]` is the place of task `t` in `csSelect`/`csDeselect`, with a label
between any two statements that touch the mutex, `_csActive` or the assert.
`todo[t]` counts the brackets a `lock .. unlock` section still has: `setFilter`
and `setMask` have eight. The recursive and the plain mutex calls are the two
pairs of `RecursiveMutex`; that they do not mix is the point of the model.
`Asserts` tells builds with `configASSERT` from those without; a failed assert
stops everything (`halted`).

### SpiDma

One SPI object, the task that holds its bus, the DMA engine and the two
interrupt handlers. Each side counts the words left of its block; the receive
side cannot pass the transmit side, nor fall behind it by more than the FIFO.
A handler visits its channels in ascending order, and asking, calling back and
acknowledging are separate steps. `stored`, `finished` and `taken` are history.
`flight` is what the FIFO holds. With
`MultiCore = FALSE` the task stops while an interrupt is pending or a handler
runs. With `Timeouts = TRUE` either take may give up while there is no token,
which the code does not notice; `expired` and `merged` record for the properties
that a take did, and that two blocks shared one interrupt.

### Mcp2515Chip and Mcp2515Task

`Mcp2515Chip` is what the driver may assume of the controller: where a frame
goes in Rollover and Independent mode, that a flagged buffer is not overwritten
and an unflagged one is, that INT is low while an enabled flag is up and that
only its falling edge is latched. MERRF, WAKIF and ERRIF are one flag `ERR`,
for the code treats them as one. Asked for Configuration mode while a frame waits
in TXB0, the chip is `leaving`: it stays on the bus until the frame is out or Normal
mode is asked for again. The chip is in Configuration mode with all
interrupts off after power-up; with `WarmBoot` it runs on as it was.

`Mcp2515Task` adds the program. Each register access, each semaphore call and
each load and store of a shared byte is a step of its own; a `|=` or `&=` on
`_pendingRxBuf` is a load and a store, while on the single used bit of
`_pendingTxBuf` it comes to a store. Frames are their numbers; the id and length
registers (`hdr`) and the data registers (`body`) of a buffer are read and
written in two steps, so that a frame can be torn. `SingleCore` adds the
scheduling of one core with the default priorities: handlers before tasks,
`canService` before its users unless it is blocked. `Pacing` says how fast the bus may bring frames: at `any` time, only
into a `buffer` that was read, or only after the `driver` delivered all frames.

### CanIds and CanRegisters

`CanIds` writes a shift and a mask of the code as a division and a remainder
(`Bits`), and sets what the driver computes (`ExtRegs`, `StdRegs`, `TxRegs`,
`FilterRegs`, `ReadId`, `ReadLength`, the two bit rate tables) against what the chip
does with it (external: `WireId`, `RxRegs`, `Admits`, `BitTime`). Frames are given
by their fields on the wire, not by the number the driver wants to see.

`CanRegisters` keeps the mode the driver asked for (`reqop`) apart from the mode
the chip is in (`opmod`): the chip takes acceptance and bit timing bytes in
Configuration mode only, and does not enter it while a frame waits in TXB0. A
step is one bracket. A section is Configuration mode, four bytes, Normal mode, a
read and a write of RXBnCTRL; `txBuffer0Send` is the two or four identifier bytes in
the order of the code, then the request; `rxBufferNRead` is SIDH, SIDL, DLC and, for
an extended frame, EID8 and EID0. Nothing in the code keeps any of them from
starting while another is under way or before `initialInTask` is through, and
neither does the model: a sender may find a frame waiting in TXB0 or another call
half done (a byte written while TXREQ is set is taken or ignored), a frame may come
into the receive buffer between two brackets of its read, and a section may run
before, beside or after the bring-up. One task reads the buffer at a time: two calls
of `rxReadInTask` in the same buffer share nothing that either writes.

What that may spoil is history, so that each property names the case it is not
about: `held[s]` is the last call for register `s` that returned undisturbed, and
`intruded` the calls during which somebody else touched the same register or asked
for Normal mode or the chip did not follow into Configuration mode; `spoilt`, TXB0
was pending or in other hands when some of its bytes were written; `torn`, a frame
came into the buffer since its read began; `undone`, what a section did to the
bring-up: took the chip to Normal mode before the bit rate was written (`"rate"`), or
read RXB0CTRL before bring-up wrote it, to write it back after (`"rollover"`). A
section that ends before bring-up writes RXBnCTRL loses its filter to that write;
its call is no longer `held`.

### Stamps

The counter advances in its own steps; a 64-bit time is a record of two words,
and `run` and `rxReadInTask` copy it word by word. Scheduling is that of one
core: the handler comes before any task, `canService` before the reader unless it
is blocked in a register access, which is where the reader gets in. `frames` is
history: when each frame came, whether it pulled INT low itself, when that edge
was handled, and whether it was read before the next one came (`alone`).

### DriverLife

Objects go through `raw`, `base` (the base class constructor has run and started
the task), `built`, `dying` (the derived part is gone), `freed`; each with a task
and, for a driver, a place in `initialInTask`. One owner constructs, initialises,
unregisters and deletes; the tasks of the objects have a higher priority and the
same core, so that they run as soon as they are ready and the scheduler is on.
Every allocation may fail (`lacking`). `pinCallbacks[pin] = std::move(callback)` is
two steps with the slot `torn` in between. A use of something that is not there is
not forbidden by a guard: it is recorded in `faults` with the object it hit, and
ends the behaviour.

### UdpTransport

`sock_fd` against the table of lwIP sockets: `owner` says who has each number,
`bound` who has `ROS_UDP_PORT`. Each lwIP call of the transport is a step, and
between any two of them other tasks open and close sockets, so that a number
the transport gave back may be somebody else's when it is used again. `status` is
what the last `open` or `close` left; `unbound` is an `open` that failed in
`bind`, after which `sock_fd` keeps the number it closed. The library is taken to
call from one task and to `open` only a transport that is not open.
`udp_transport_write` changes nothing that is kept and has no step.

## What TLC checks

Passing runs:

| Run | Instance | Shows |
|---|---|---|
| `bus_sections` | 3 tasks, 2 of them with sections of 3 brackets, asserts | exclusion, which assert may fire, bus at rest, reach of `lock`, no wedge, progress |
| `dma_low` | 3 transfers of 3 words, lower half channels, two cores, timeouts | until a timeout: complete, no stale token, never stranded, returns; always: tokens stand for finished blocks |
| `can_traffic` | 3 frames, 2 sends, 1 error or bus-off, Independent, one core | implements `CanMailbox` with liveness through errors, INT does not stay low, a sender is never stranded and returns |
| `can_burst` | 3 frames at any time, Rollover with overflow, 2 sends, fully parallel | no lost wake-up, no read without a frame, back-to-back frames out once, whole, in order, sender never stranded |
| `can_registers` | 2 configuring tasks with 3 calls to choose from, 2 senders with 2 identifiers, a reader, 3 kinds of frames, 2 set-ups; operations up to a weight of 5 in any overlap, the bring-up among them | filters in the chip and selective, chip back on the bus, rollover and bit rate kept, identifiers and lengths round-trip |
| `driver_life` | 2 drivers on one pin, 1 job, any allocation failing | no task on an incomplete object, no handler on a dead one, no missing semaphore but in the named cases; `canService` starts |
| `stamps` | 2 frames, 2 other interrupts, 7 microseconds in words of 3 | frames with an edge of their own get its time, no mixed times, exact clock |
| `udp_sockets` | 3 socket numbers, other tasks busy with them | sockets given back, only own sockets used, others' sockets kept (but for the stale number of a failed `bind`), timed reads return |

Runs that show the code doing something else than a comment says:

| Run | Comment | What happens |
|---|---|---|
| `bus_overlap` | `spi.h:39`, the mutex serialises brackets across tasks | `lock` loses the mutex at the first `csDeselect`; `unlock` frees the one of another task; two tasks on the wire. Then the give of the first of them fails, the nesting count stays one too high, and the give of the second no longer frees the mutex: it stays with an idle task while the others wait (`BusNeverWedges` fails there too) |
| `can_twice` | `mcp2515Task.h:27,29`, one token per frame, a bit per ready buffer | the reader's `&=` undoes the bit `canService` just set: one frame read twice, one stranded, on one core and a slow bus |
| `can_rollover` | `mcp2515.h:32`, filters only take effect in Independent mode | `setFilter` and `setMask` clear RXM of their buffer whatever its type: after one call RXB0 of a driver set up for Rollover drops the frames that match none of its filters |
| `dma_high` | `dma.cpp:32`, an interrupt when the channel finishes | channels of the upper half raise line 1, whose handler asks for line 0 |

**Bounds.** `Brackets` is 3 in the runs: the first bracket, a middle one and the
last are the three cases of `AfterBracket`, and the theorems hold for any
number. Three tasks give a holder, an intruder and a third that profits from
the early release. In the CAN runs `NRx`, `NTx` and `NErr` bound what the
environment does, nothing in the driver: two frames fill both buffers, a third
overflows or overwrites and shows a token taken for a frame that is gone; the second
of two sends finds the first pending or out. A third frame may overflow, whose error
flag sends `canService` through the error branch with `NErr = 0` too. Safety is checked with all tasks and the
handler in parallel (`can_burst`), liveness under the scheduling of one core
(`can_traffic`), whose fewer interleavings TLC can follow for ever. `errors` counts what
raises the error flag, bus errors and receive overflows. Runs stop when the bounds are
used up, which is why they do not check for deadlock; liveness properties cover what
deadlock would. `FifoDepth` is 2 so that a
transfer of 3 words meets both its limits. In `can_registers` a setFilter,
a setMask and a send weigh two, a recovery, a frame and a read one: a weight of five
is two overlapping sections or two overlapping sends and a recovery, a frame or a
read beside them, or a read between two frames and a section; bring-up runs beside
all of it. The identifiers sent are the two at the test of `txBuffer0Send` (0x7FF and
0x800), the filter has a pattern in which every field differs; a slow and a fast
bit rate, one of them with rollover, are initial states. What this leaves out (the
seven other rates, the standard mask, every other identifier) the theorems cover. In
`stamps` the words are so small that the upper one changes twice within the run;
two frames are what the chip can hold. In `driver_life` the second driver is there
to take over the pin of the first.

**Conditions.** Many promises hold only under conditions. Each condition is
a constant or a history variable named in the property, TLC confirmed that the
property fails without it, and it says what a user of the code has to know:

- `RefinesMailbox`: a frame comes only after the last one was delivered
  (`Pacing = "driver"`). `can_twice` shows that even one unread frame in the other
  buffer is too many, and `_rxSemaphore` holds two tokens.
- `BackToBackSends`: every call but the first finds a frame pending (`~gap`) and
  nothing raised the error flag, neither a bus error nor a receive buffer that
  overflowed: the error branch clears the pending bit of a frame that is still going
  out. After a pause the token of the last send is still in `_txSemaphore`;
  the next call does not take it, the one after that takes it at once and
  overwrites the frame that is going out.
- `NoLostWakeup`: the chip was powered up with the processor (`~WarmBoot`). The
  reset command is no reset (`mcp2515.cpp:13` sends it as the address of a write),
  so a chip that ran on can pull INT low before its edge is watched, and
  `canService` sleeps over it for ever.
- `TransferSettles`, `NoStaleToken`, `TransferReturns`: until a take times out
  (`expired`); the last also excepts a block that ends while the interrupt of
  the one before is still unacknowledged (`merged`), which a second core makes
  possible: the callback wakes the task there, the next transfer ends, and the
  acknowledgement of the first block erases the interrupt of the second.
  `TransferNotStranded` has both exceptions.
- `SenderNotStranded`, `FrameNotStranded`: `~WarmBoot`, for the reason of
  `NoLostWakeup`; the second also `Pacing = "driver"`, for the reason of `RefinesMailbox`.
- `HeldIsInChip`, `FiltersSelect`: the call was not disturbed (`intruded`). A section
  that overlaps another one, a bus-off recovery or a frame that waits to be sent
  may leave the chip with bytes it ignored, and nobody notices.
  `ConfigHasOwner` and `BackOnBus` need no such condition.
- `SendsAsMeant`: TXB0 was free, and in one task's hands, while its bytes were
  written (not `spoilt`). `txBuffer0Send` does not look at TXREQ, so a call with a stale
  token, after an error or from a second task writes over the frame that waits.
- `ReadsAsSent`: no other frame came into the buffer between the brackets of the read
  (not `torn`). `canService` clears RXnIF before the buffer is read, which lets the
  chip fill it again.
- `RolloverKept`: no section had read RXB0CTRL before bring-up wrote it
  (`"rollover"` not in `undone`).
- `RateIsNominal`: the chip came up in Configuration mode (`~WarmBoot`), no section took
  it to Normal mode before the bit rate was written (`"rate"` not in `undone`), and
  the oscillator has 16 MHz. With 8 MHz the row of 5 kbit/s gives 4, and every other
  row half of what its comment names, 250 kbit/s for `KBPS500`; that is the theorem
  `RateIsMissed`, and no run repeats it.
- `InterruptsServed`: the bus pauses at last, which the bounds see to. While frames
  keep coming as fast as they are served, INT may stay low for any time.
- `StampIsOwnEdge`: the frame pulled INT low itself (`edge`) and was read before the
  next one came (`alone`). A frame that comes while INT is low for another flag
  gets the time of that flag's edge, although `mcp2515Task.cpp:70` calls it the
  time of the last received frame.
- `StampIsAnEdge`: the upper word of the counter did not change between edges
  (`Epoch`), which happens every 71 minutes: the reader loads the two words of
  `_lastRxTime` while `canService` may write them.
- `EntersBuilt`: not constructed under a running scheduler (`late`).
  `DeletesOwnTask`: `xTaskCreate` had memory (`lacking`) and `run` does not return.
  `HandlersHitLive`: the driver was unregistered before its delete; one that was
  not is called by the next edge.
  `FirstRegistrationIsWhole`: the first registration of the pin.
  `SemaphoresExist`: `irqHandler` does use a semaphore for which there was no memory.
- `UsesOwnSocket`, `OthersKeepTheirs`: not while `sock_fd` is the number that a
  failed `bind` closed (`status = "unbound"`).

**Fairness.** A latched interrupt is handled and the hardware finishes what it
started (weak fairness of `IrqHandler`, `Handler`, `Engine`, of a transmission
and of leaving bus-off). `canService` runs when it can: it has the highest of
the priorities the class offers. Its users run as often as it leaves them the
processor: on one core they are enabled only while `canService` is blocked, so
their fairness is strong; `canService` blocks in every pass, on SPI if nowhere
else. On the bus each task is only weakly fair: FreeRTOS wakes waiters by
priority, so one task may starve, and `BusProgress` promises progress of the
bus, not of the task. In `CanRegisters` each call and the recovery go on once they
are under way, and a frame gets out at last; no call has to start. In `DriverLife`
only the tasks of the objects are fair: they have the higher priority; the owner
need do nothing, and `CanServiceStarts` begins where its `initialInTask` is through.
Nobody has to send frames, cause errors or start a call.

**Mutants.** Each property of a passing run comes with a changed definition that
a slip in the code would amount to (a take without waiting, a forgotten give, an
acknowledgement left out, the pin not polled again before the wait, all flags
cleared where only the error flags should be) and which makes TLC refute the
property under the same configuration. They stand next to the definition they
change.

## What is proved

`SpiBusProofs`, for any set of tasks and configurers and any section length:

- `TypeCorrect`, without assumptions;
- `OneTaskOnTheWire`, `NothingLeaks`, `FirstBracketCovered`, `LockAlreadyLost` under
  `Guarded == Asserts \/ Configurers = {}`: in a build with asserts, or when
  nobody uses `lock`. The inductive invariant `IInv` ties the program counter to
  the mutex: a task between its take and its give is the holder and the count is
  1, and the select line is low exactly for a task that lowered it. Exclusion
  alone is not inductive, because a second task must be shown unable to get
  past the take;
- `OnlyUnlockStops`, from the same invariant: the asserts of `csSelect` and
  `csDeselect` never fail, so that `halted` means a foreign `unlock`;
- `BusIsNotWedged` (`BusNeverWedges`): while somebody is inside an SPI call, somebody
  there is not blocked. `HolderIsBusy` is what it needs: whoever has the mutex is in
  a bracket or about to enter one, so a waiter waits for a task that can go on.

`UdpTransportProofs`, for any set of socket numbers:

- `TypeCorrect`, `NothingLeaks` (`SocketsAccounted`), `OnlyOwnSockets` (`UsesOwnSocket`) and
  `OthersAreSafe` (the action property `OthersKeepTheirs`). The invariant is
  `TransportHolds`, the relation between the table and `sock_fd`, with
  `ClosedHasNoNumber`: a closed transport has no number outside `open`, for
  otherwise a `close` could start on one left over.

`Mcp2515TaskProofs`, for any number of frames, errors and calls, both buffer
modes, every pacing, one core or many:

- `TypeCorrect`: no semaphore exceeds its capacity, no local strays;
- `InterruptsAreNotSleptOver`: `NoLostWakeup` under `~WarmBoot`. The invariant is
  `Armed /\ Awake`: interrupts of the chip are off until the edge interrupt of the
  pin is on, and whenever `canService` waits on an empty semaphore with INT low the
  edge is still latched. `Awake` alone is not inductive: a flag raised before the
  edge interrupt is enabled makes no edge, which is what `Armed` excludes and what
  happens to a chip that ran on.

`CanTrafficProofs`, on top of it, for any number of frames, errors and calls:

- `ReadsNeverOutnumberFrames` (`ReadsAreFrames`), without assumptions. The invariant
  `FramesCounted` gives every received frame at most one place: returned, with the
  reader, a token, a flag `canService` has seen and owes a token for (`Owes`), a flag
  it will not clear in this pass (`Waits`). `ReadsAreFrames` counts only the first;
  a pass that gave two tokens for one flag would break it many steps later.
- `DriverIsMailbox`: with `Pacing = "driver"`, `Spec => Mailbox!Spec`, the safety part of
  `RefinesMailbox`. `MailInv` says that at most one frame is under way and that the
  buffer, the pending bit, the reader's copy of `_pendingRxBuf` and the locals of both
  tasks agree on where it is. Only the reader's return is a `Read` of the mailbox, only
  the arrival its `Receive`; everything else stutters.
- `SendsReachBus`: `BackToBackSends`, whatever is received meanwhile. `SendInv` says
  that without a gap and an error the token of the last frame is in exactly one place
  (`OneToken`: requested in the chip, flagged, owed by `canService`, or in
  `_txSemaphore`), that TXB0 holds that frame (`TxbFilled`), and how long the bus is
  behind the calls. `CountedOverflow` closes the one way by which received frames
  could reach the sender: they raise the error flag only with an error counted.
- `SendersAreNotStranded` (`SenderNotStranded`), under `~WarmBoot`, for any traffic, errors
  and bus-off. `StrandInv` says where the answer to a waiting sender is: unless
  the sender is writing, bit 0 of `_pendingTxBuf` stands for a frame that is requested or
  flagged, or whose flag `canService` has seen and is about to clear the bit for
  (`BitIsAFrame`); a caller that waits is owed a token by one of those (`WaitIsAnswered`); the
  chip that holds it is in Normal mode or `canService` is about to put it there
  (`ChipIsUp`). With `InterruptsAreNotSleptOver` a flag is never left lying.
- `FramesAreNotStranded` (`FrameNotStranded`), under `Pacing = "driver"` and `~WarmBoot`: a
  frame that is not yet delivered is in a flag, in a pass of `canService`, in a token or
  with the reader (`FrameUnderWay`), and a flag with everybody asleep has its edge.

`SpiDmaProofs`, for any block, FIFO, pair of channels and number of transfers, on one
core or two:

- `TypeCorrect` (`TypeOK`) and `EveryTakeIsAnEnd` (`NoPhantomEnd`), without assumptions:
  `EndsAreReal` counts an end in `taken`, in the semaphore or in a raised interrupt whose
  callback has not run (`Unheard`), never twice; `HandlersVisit` says which channel a
  handler is at, without which the acknowledgement could erase the wrong one.
- `TransfersSettle` (`TransferSettles`), `TransfersStartEmpty` (`NoStaleToken`) and
  `TakesEndOwnBlock`, all while no take has timed out: `Settling` ties the takes so far
  to the place in `transfer` and the blocks finished to the words left, so that once the
  end of a block is taken nothing of it is left in a channel, semaphore or interrupt.
- `TransfersAreNotStranded` (`TransferNotStranded`), for channels of line 0: `FifoBalanced`
  says that the FIFO holds what one side is ahead of the other, so that a side with
  words left can always move one or lets the other move; `EndsAreKept` says that a block
  that ended and was not taken has its token, or its interrupt with the callback
  still to run. `CallbackFindsRoom` is the part about the binary semaphore: the end
  of a block does not find a token still in it.
- `OneCoreMergesNothing`: `merged`, the exception of `TransferReturns`, needs two cores.

`CanRegistersProofs`, for any set of tasks, filters and masks, any calls, identifiers,
frames and number of operations:

- `TypeCorrect` (`TypeOK`), with `CallsKnown` and `SendsKnown`: a call under way is one of
  those that may be made.
- `UndisturbedCallsHold` (`HeldIsInChip`) and `FiltersAdmitWhatTheySay` (`FiltersSelect`):
  the invariant `HoldInv` says that an undisturbed call is alone at its register, that
  the chip stays in Configuration mode while it writes and has every byte written so far
  (`BytesWritten`), and that nobody is at a register that is held.
- `ConfigModeIsOwned` (`ConfigHasOwner`), with the bring-up among those that overlap, and
  `RolloverSurvives` (`RolloverKept`); the latter needs that the copy of BUKT which a
  task is about to write back is right, or was read before bring-up wrote the register.
- `RateIsTheOneAsked` (`RateIsNominal`) under `Mhz = 16`, and `RateIsMissed` under
  `Mhz = 8`, through the nine rows of each table (`NominalRows`, `MissedRows`); `RateInv` is
  what bring-up has written so far while nobody took the chip out of Configuration mode.
- `EveryIdIsSent` (`SendsAsMeant`) and `EveryFrameIsRead` (`ReadsAsSent`), for each of the
  2^29 identifiers where the run has a few. `SendInv` follows the bytes a sender has
  written while TXB0 is its own, `ReadInv` those the reader has read while no frame came
  in between, and the lemmas `FieldsOfId`, `ExtendedOnWire`, `StandardOnWire`,
  `SendsIdentifier`, `ReadsIdentifier` and `ReadsLength` say that an encoding loses nothing.
  `FiltersSelect` rests on `AgreeSplits`: two identifiers agree under a mask exactly if
  all their bytes do.

`DriverLifeProofs`, for any set of drivers and jobs:

- `TypeCorrect`, and six theorems for the six invariants of `driver_life`. The
  inductive invariant `IInv` says how the task follows its object
  (`TasksFollowObjects`: a ready task of an incomplete object is held back by the
  scheduler or was constructed late; a living object has its task, unless there was
  no memory or it ended), how semaphores follow `initialInTask`, and how the slot of
  the pin leads back to registrations (`SlotFollowsInit`: behind a `torn` slot and an
  enabled interrupt there are two different drivers, which is what
  `FirstRegistrationIsWhole` counts).

`StampsProofs`, for any width of a word, any split of a second and any number of
frames:

- `TypeCorrect`, `ClockExact` (`TimespecExact`) and `ClockDoesNotStepBack`
  (`ClockMonotone`), from quotient and remainder alone: `QuotientMonotone` says that
  of two counts the later has the greater quotient, or the same and the greater
  remainder.
- `StampsAreEdges` (`StampIsAnEdge`): `PassHoldsInt` says that no edge can come between
  the read of the flags and the first clear, because the flag that is read holds INT low,
  so that `canService` never mixes two edges although it copies word by word; the reader
  can, and has the same upper word only within an `Epoch`.
- `StampsAreOwnEdges` (`StampIsOwnEdge`): `OwnEdge` follows the last frame through its
  phases (edge latched; handled, `_lastIntTime` is its own; flag cleared, `_lastRxTime` is),
  and `EachStandsForAFrame` counts flags, owed tokens, tokens and the reader, so that
  while the reader is at the last frame no other note can overwrite its time.

Some properties are stated and proved but no run repeats them, for the theorem says
more than an instance would: type correctness of every module, `UnlockReleasesNothing`,
`FrameNotStranded`, `RateIsOff`, `NoTaskOnFreedObject` and `ClockMonotone`. TLC agreed
with each of them on the instances above.

The proofs rest on the assumptions the modules name (`UnitsAssumption`,
`LifeAssumption` and the like), which only say what kind of values the constants are,
and on the hypotheses named with each theorem.

Every invariant and every action property of a passing run is a theorem, under
conditions the instance of the run meets.

Only model-checked: everything about liveness and fairness, for the proof system does
not reason about `ENABLED`. These are `BusProgress`, `InterruptsServed`, `SenderReturns`,
`TransferReturns`, `ReadReturns`, `BackOnBus`, `CanServiceStarts`, and the
fairness part of `RefinesMailbox`, which is the promise that a frame is read at last. For
four of them what goes wrong in practice, that everybody is at rest while somebody
waits, is excluded by a theorem: `BusIsNotWedged`, `SendersAreNotStranded`,
`TransfersAreNotStranded` and, for the mailbox, `FramesAreNotStranded`. What TLC adds is
that the steps they leave possible are taken and come to an end.

## What is not modelled

- `libmicroros`: 217000 lines of headers and a prebuilt archive, with no source.
  Nearly all lines under the repository are of this kind, so that a share of
  lines modelled, taken over the whole repository, is small whatever is modelled
  of the program.
- The polled branch of `SPI::transfer` and the format and pin set-up: sequential
  calls of the Pico SDK without state of their own.
- `_busMutex` missing after a failed allocation; in `Mcp2515Task`, a second task that sends, which the
  class leaves to its users (`CanRegisters` has two); a driver initialised twice; a driver deleted while its
  task is inside a register access.
- The data bytes of frames: they are copied one by one in both directions. What
  happens for lengths above 8 is listed under the hazards.
- `getStackUsage` and `getStackLeft`, `clock_settime` and `usleep`: they keep nothing.
- `udp_transport_write`, and the queue and semaphore a `TaskInterface` may be given,
  which no class of the repository gives.

## What is left

All parts of the program that keep state are modelled, and every invariant checked is
proved. Two things remain an argument in words:

- that a register access may be one step of `Mcp2515Task`. It rests on three theorems:
  `OneTaskOnTheWire` (nobody else is in a bracket), `TransfersSettle` and `EveryTakeIsAnEnd`
  (a transfer that returned has moved all its bytes), and on the chip acting on a
  command at its last byte. The modules are not composed to state it as a refinement;
- that the lock section of `SpiBus` with its eight brackets and the section of
  `CanRegisters` with its register writes are the same one. They have the same brackets
  in the same order.
