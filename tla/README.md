# TLA+ models of the STM32 emulator

The repository is an emulator of STM32F4/F7 boards written in Rust around the
Unicorn CPU engine.  It runs real firmware (3D-printer controllers, the Proteus
F7 engine-control unit), emulates the peripherals the firmware touches, and
bridges some of them to the outside: the USB serial port to a TCP socket or to a
host application in the same process, the ECU's pins to a line protocol.  This
directory holds models of the parts whose correctness depends on an order of
events, the TLC configurations that check them on small instances, and proofs of
the theorems that matter most for every instance.

Line references below are to files under `src/src/`.

## The system

One thread runs the firmware.  Unicorn executes translation blocks; at every
block entry the *block hook* (`emulator.rs:174-235`) advances the emulated clock
`NUM_INSTRUCTIONS` by the block's halfwords, runs pending interrupts when the
interrupt period has passed, and every 1024 halfwords polls first the external
devices, then the peripherals in address order.  The *interrupt hook*
(`emulator.rs:254-330`) handles `svc` and exception returns.  Between two hooks
the firmware reads and writes registers through the peripheral bus, which calls
the peripheral's handler synchronously.  Everything else reaches the emulator
thread through sockets, mutex-protected links and a few process-wide atomics.

| Component | State | Operations | Talks to | What makes it correct |
|---|---|---|---|---|
| NVIC, SCB, SysTick (`peripherals/nvic.rs`, `scb.rs`, `systick.rs`) | pending and enabled sets, busy flag, active exception, SysTick period and last trigger | pend, dispatch, enter, return, register accesses | called by every peripheral; reads and writes the CPU | handlers do not nest, VECTACTIVE and RETTOBASE are truthful, what is stacked is what is popped, nothing is dispatched while masked, the head of the queue is served |
| DMA (`peripherals/dma.rs`) | per stream CR, saved CR, length, deadline; flags | register accesses, poll | NVIC, other peripherals' data registers | a transfer asked for is scheduled, completes in its time window, once; EN and the flags tell the truth |
| ADC, GPIO, EXTI, timers, SPI (`peripherals/*.rs`) | registers, sequence index, capture latches, shift registers | register accesses, poll, callbacks | NVIC, DMA, ECU I/O, external devices | level-triggered pending is neither lost nor repeated; counters compare correctly across wrap-around |
| Flash (`peripherals/flash.rs`) | key stage, lock, status, backing file | key and control writes, erase, persist, load | memory, file system | only unlocked flash changes; what was persisted is what is loaded, also after a crash |
| USB OTG FS and virtual host (`peripherals/otg_fs.rs`) | endpoints, FIFOs, receive statuses, enumeration step | register accesses, poll | CDC bridge, NVIC | enumeration advances only on the device's answers and restarts after a reset; one packet per armed endpoint; bytes stay in order |
| USB CDC TCP bridge (`ext_devices/usb_cdc_tcp.rs`) | held client and its age, two capped queues | accept, receive, send (in one poll), push, take | sockets, OTG FS | one client at a time, no bytes cross from one session to another, a dead client is replaced |
| Embedded CDC link (`ext_devices/embedded_cdc.rs`) | stage, connected flag, two capped queues, condition variable | connect, disconnect, read, write (host threads); stage, push, take (emulator thread) | host application, OTG FS | sessions as above; blocked readers wake up |
| ECU I/O (`ext_devices/ecu_io.rs`, `embedded_ecu_io.rs`) | values, last levels, trigger wheel, client, line buffers | poll, wheel, edges, outputs | sockets, GPIO, EXTI, ADC | every level change seen by the poll becomes one edge; lines of two clients do not mix |
| Emulation loop and embedded run (`emulator.rs`, `embedded.rs`) | stop, resume and busy-loop flags, run guard, installed links | start, stop, resume after an unmapped access | other threads | a requested stop stops the run it was meant for; one run at a time |
| Launcher (`launcher/*.rs`, `bin/stm32-launcher.rs`) | child process, its output, UI status, workspace file | start, stop, refresh, save, load | child process, file system | the status shown agrees with the child; no output is lost up to the cap; no child is lost unless an error was shown; settings come back |
| Peripheral bus (`peripherals/mod.rs`) | sorted peripheral list | read, write, bit-band, poll | all peripherals | an access reaches one register and changes the bytes it names |
| Displays and touch screen (`ext_devices/display.rs`, `lcd.rs`, `touchscreen.rs`) | command under way, draw cursor, reply | serial and FSMC accesses | SPI, FSMC, window | pixels go where the window was set; a measurement is of the moment it was asked for |
| Simple registers (`can.rs`, `rcc.rs`, `pwr.rs`, `rtc.rs`, `i2c.rs`, `usart.rs`) | stored values | register accesses | | start-up code gets through its waits |
| Registries, configuration, command line | tables | | | no ordering hazards; not modelled |

The hard parts are: interrupts arriving between any two blocks; state that is
only advanced by a poll and therefore stale when a register is written; sessions
that end while bytes are queued on either side; a firmware driver and a
controller that wait for each other; process-wide flags shared by threads; and
files written in place.  `PROJECT.json` lists them as hazards, each at its line,
with the properties that cover it or the reason why none does.

## Modules

A module is written against one file of the emulator or a group of files that
make sense only together, with one action per operation; a property is stated in
the module of the component or of the composition it is about, preceded by the
behaviour it is about.  `MC*` modules only hold the values a `.cfg` cannot write
down.  A definition named like another with a suffix (`DispatchableUngated`,
`PushCappedWhole`) is a mutated form of it, used to show that a property can fail.

| Module | Models | Composes |
|---|---|---|
| `Nvic` | `peripherals/nvic.rs`, the registers of `scb.rs` and `systick.rs` that feed it, the hooks of `emulator.rs` | |
| `Dma` | `peripherals/dma.rs`, polled by the block hook | |
| `Board` | both under one block hook, and the driver the delays were made for | extends `Dma`, instantiates `Nvic` |
| `CdcSession` | what the emulated USB serial port promises (abstract) | |
| `UsbCdcTcp` | `ext_devices/usb_cdc_tcp.rs` over a socket | implements `CdcSession` |
| `EmbeddedCdc` | `ext_devices/embedded_cdc.rs`, a link inside the process | implements `CdcSession` |
| `OtgFs` | `peripherals/otg_fs.rs`: the USB device controller and its virtual host | |
| `UsbStack` | the firmware's USB driver, register access by register access, and hosts | `OtgFs` |
| `Exti` | `peripherals/exti.rs` | |
| `EcuIo` | `ext_devices/ecu_io.rs`, `embedded_ecu_io.rs`, and the firmware that uses the pins | `Exti` |
| `Flash` | `peripherals/flash.rs`: lock, sectors, memory and alias | |
| `Emulation` | `embedded.rs`, the loop of `emulator.rs`, the link registries, the saving of flash | `Flash` |
| `Launcher` | `bin/stm32-launcher.rs`, `launcher/process.rs`, `workspace.rs`, `ui_state.rs` | |
| `Bus`, `Gpio`, `SpiBus`, `FsmcDisplay`, `Timers`, `Adc`, `StatusRegisters` | the operators of `peripherals/mod.rs`, `gpio.rs`, `spi.rs` and `sw_spi.rs` with their devices, `fsmc.rs` and `display.rs`, `tim5.rs`, `tim6.rs`, `tim11.rs`, `dwt.rs`, `adc.rs`, and the registers start-up code waits on | |
| `Peripherals` | each of these under the firmware code that uses it | the seven above |

**Nvic.** `pending` and `enabled` are the bit sets of the struct, `in_interrupt`
and `active_exception_number` its fields.  The two counters are kept as ages,
`NUM_INSTRUCTIONS` less the last trigger and less the last check, saturated above
every value they are compared with.  `phase` alternates between the block hook
(`BlockHook`) and one operation of the firmware: a register write (`EnableIrq`,
`DisableIrq`, `WriteStir`, `WriteIcsr`, `WriteSysTick`), a CPU instruction that
the hooks can see (`SetMask`, `SetItState`, `WriteControl`, `UseFloatingPoint`),
`Svc`, or `ExceptionReturn`.  `RunPending` is `run_pending_interrupts` whole, the
SysTick check included, and is part of both the hook and the return, as in the
code.  `handlers`, `frames` and `sp` are what really happened on the CPU, so that
what the struct believes can be compared with it.  A dispatch stops the engine at
the vector, so it makes the next step a hook again.

**Dma.** Time only passes in the block hook, so instruction counts are relative
to the last poll.  `Block` is the hook's time and poll, `AdvanceTo` the poll's
loop over the streams; `WriteCr`, `ReadCr`, `WriteNdtr` and `WriteIfcr` are the
register accesses, with the decoding of offsets (`ReachesStream`) in front of
them.  `age` and `done` are the driver's view: how long it has waited, and which
completions it has not acknowledged.

**Board.** It extends `Dma` and takes its actions as they are.  One step of the hook is a step of both components: the NVIC dispatches
first, then the poll pends the streams that complete, as the order of the calls
in the hook has it.  The driver arms streams, acknowledges with the first block
of its handler, and may re-arm with any later one.

**CdcSession.** `session`, `up` and `down`; sessions follow each other, queues
are bounded and lose their oldest entries, and what is queued ends with its
session.  Entries are marked with their session, which is what isolation is
stated with.

**UsbCdcTcp.** A poll is three loops of system calls, and `pc` says which one it
is in; each `accept`, `read` and `write`, with each of its outcomes, is a step
(`Accept`, `AcceptWouldBlock`, `CallFails`, `ReadChunk`, `ClientGone`,
`ReceiveDone`, `WriteChunk`, `SendDone`), so that clients connect, write, close
and fail in between (`ClientConnects`, `Write`, `Finish`, `Break`, `Tick`).
`TakeForDevice` and `PushFromDevice` are the USB controller's calls between two
polls.  Bytes are chunks that carry the client they come from or answer to.
The refinement maps the held client to the session and the two queues to `up`
and `down`.

**EmbeddedCdc.** The mutex makes each method a step; only `read_for_host` gives
it up, so that a reader is `idle`, `waiting` on the condition variable or
`notified` and not yet running.  Timeouts and spurious wakeups may come at any
time.  A write is any number of bytes, below, at and above the capacity.  The
refinement maps a connected host to the number of its session.

**OtgFs, UsbStack.** The controller is one record (`otg`) and every register
access a function of it, composed as the code composes its methods: `Reset`,
`Setup`, `Advance` and `CompleteIn` are called from `PopStatus`, `WriteDiepctl`,
`PushWord` and `PollOtg` as in `otg_fs.rs`.  A FIFO byte carries its packet and
its place, so that padding and misalignment show.  `UsbStack` adds the driver:
`todo` holds the accesses its handler still has to make and `Step` makes one, so
that a poll, and with it a bus reset, comes between any two of them.  `Enter`
serves one cause.  `torn` marks a session whose reset came inside a handler; what
the code promises then is less, and the properties say so.

**Exti, EcuIo.** `Poll` is the device's whole poll: inputs are taken from the
link or lines from the socket, the wheel is advanced, edges are compared, outputs
sent.  A line is two parts, so that reads, closes and full buffers cut it.
`ReportOutput` is the GPIO callback.  The firmware routes and unmasks its lines,
reads the pin, and takes interrupts in three steps (read PR, clear it, read the
pin), between which polls happen.  `embedded` chooses the link or the socket and
`uses` the direction, so that a behaviour is about one of them.

**Flash, Emulation.** `Flash` has the operators of the controller on a record of
memory, alias, lock and key stage; memory is observed at a few places, chosen at
the borders of sectors.  In `Emulation` a thread's `at` walks through
`run_embedded`: guard, links, flags, preparation, loop, and the drops in their
order.  `EmuReturns` has every way `emu_start` returns, `AfterEmu` the loop's
checks in their order.  `FlashLock` and `FlashWrite` are the two halves of
`persist`, and `Die` may come between them.

**Launcher.** `Frame` is `refresh_process` and the panels with at most one click;
`Start` and `Stop` are frames with those clicks.  What the launcher asks of a
running child may fail (`Failing`): the status in a frame, the kill or the wait in
a stop, and once more when the handle is dropped, after which the child may go on
unheld (`Left`, `orphans`).  The child prints and exits at any time, `Read` is a
reader thread, which ends at the end of its pipe or at a line it cannot decode,
`Close` and `Saved` are the two halves of the save at a close, `Die` is a kill.
The result of the save is looked at by nobody: `Close` may fail to open the file
and `Saved` to write all of it, and the launcher ends all the same.  `Launch` may
find the file whole, absent or torn, or fail to read it; of a torn one it gets
the defaults or what a cut text still parses to (`Cuts`).  Three variables only
remember: `closed` and `kept`, the settings at the last close and at the last save
that succeeded, and `lost`, whether a save or a load has failed since the close.

**Peripherals.** The groups share nothing but the bus, so a behaviour is about
one, chosen by `focus`.  `unit` is the state of the group's peripherals and
devices, `drv` the firmware using them together with what it was promised: the
message it sent, the window it set, the ticks left to a match, the channel due.

## Runs

`PROJECT.json` lists every run with its properties and, for each property, a
mutated definition that the property refutes.  Bounds are small because the
interesting cases need few actors; each is chosen so that they do happen.

| Run | Bounds, and why they are enough | Shows |
|---|---|---|
| `nvic` | two IRQs, a check at every block, blocks of 1 and 3, one SysTick reload, handlers that leave the FPU alone and return with LR intact or not: two IRQs have an order, both ways to choose a frame are taken | at most one handler is live, VECTACTIVE is true, stacks balance, every dispatch is lawful, the first dispatchable exception is served |
| `dma` | streams 1 and 6 (one in each status register, one beyond its reserved bits), delay 5, poll gap 2, blocks up to 2; the driver of stream 1 does anything, that of stream 6 neither aborts nor polls idle | what was asked for stays armed between two bounds, completions come in their window, flags and (stream 6) EN tell the truth |
| `dma_stream0` | stream 0 alone | finding |
| `board` | two streams of DMA2 with interrupts of different priority, delay 16, handlers of up to 2 blocks of up to 2 halfwords: the delay exceeds what two handlers and their poll gaps take, as the 10 000 of `TRANSFER_COMPLETE_DELAY` does for real handlers | no completion is lost, thread code runs again and again, every completion is acknowledged |
| `usb_cdc_tcp` | two clients that come back for ever, capacity 2, grace period 2, two chunks from each, three replies, sockets that fail: both queues overflow, a client is replaced, and a poll is interrupted between any two system calls | the bridge implements the port, so nothing crosses from one session to another (`SessionsIsolated`), and no client wedges it |
| `embedded_cdc` | two readers, capacity 2, writes of 1 to 3 bytes and 4 in each direction, three sessions | no lost wakeup; the link implements the port |
| `usb_stack` | words of 2 bytes and packets of 3 (never a multiple), a reply of two transfers, two hosts, three bytes from them: a reset meets every handler, a second host finds every state the first left | enumeration in step, packets whole and one at a time, replies unpadded; a host that stays is enumerated and heard |
| `ecu_io` | a wheel of two slots with one tooth missing, three positions to half a slot, standing still and turning faster than the clamp, buffers of 3 parts (one line and a half), queues of one, two connections or restarts | no edge, tooth, line or level is missed outside the gaps the interface shows |
| `peripherals` | counters of 8 values, two instructions to a tick, 20 instructions: both counters wrap; flash messages that read the JEDEC ID and data, one of them past the end of the chip and one given up; four SVD blocks, adjacent and apart, and the core blocks on the bus; eleven operations | see the properties of `Peripherals` |
| `emulation` | two threads, one link of each kind, runs with and without a budget, two runs, one death, five flash operations at three places in three sectors, one of them saved | one run with its own links, no error passed over, flash as it was locked away, exact erases, a stop that stops |
| `launcher` | two children, two lines on each stream and a trace of two, so that a full one is cut and a second start meets what the first left; two edits and two restarts: a save that fails after one that succeeded, and the load after it | no child is lost without an error shown, no line is lost, the status is truthful, the settings of the last close come back unless a save or a load failed |
| `launcher_manual` | as `launcher` | finding |

A component that keeps its own state has a type invariant `TypeOK`, which its
proofs start from; the runs spend their time on the other properties.

Named bounds that are not the program's: `AgeCap` (saturation of ages in `Nvic`,
above every compared value, so no behaviour is lost); `MaxWrites`, `MaxReplies`
(`UsbCdcTcp`); `MaxBytes`, `MaxBurst`, `MaxSessions` (`EmbeddedCdc`); `MaxHosts`,
`MaxInbox`, `MaxReplies` (`UsbStack`); `MaxLines`, `MaxReports`, `MaxSessions`
(`EcuIo`); `MaxClock`, `MaxOps`, `MaxRuns`, `MaxDeaths` (`Emulation`);
`MaxPrints`, `MaxChildren`, `MaxEdits`, `MaxLaunches` (`Launcher`); `MaxAborts`,
`MaxOps`, `MaxClock` (`Peripherals`).  They limit how long a run is, not what a
step may do.  The runs of these last five modules do not check for deadlock,
because their behaviours end when a bound is reached or the user and the host do
nothing more.

Parameters that state a discipline of the firmware, not a bound: `MaxNesting`
(1: `svc` comes from thread mode only), `FpInHandler` and `LrIntact` in `Nvic`,
`Careful` in `Dma` (streams whose driver neither disables a stream under way nor
reads CR of an idle one).  In `Peripherals` the firmware writes PSC and ARR of
TIM6 only while it is stopped, and arms a compare of TIM5 less than half the
counter's range ahead.  `EcuAssumption` has the wheel turn less than half a
slot between polls, which 30 000 rpm and the poll gap of 1024 halfwords satisfy.

**Fairness.**  `Nvic` and `Board` assume that Unicorn enters the next block and
executes it (weak fairness of the hook and of the firmware's step).  `Nvic` also
assumes that handlers return, and that thread code which keeps getting the
chance ends its IT block and unmasks (strong fairness: between two chances other
blocks run): `HeadServed` is about the dispatcher, and no dispatcher can serve a
firmware that masks for ever.  `UsbCdcTcp` assumes that the emulator keeps
polling (the poll of the block hook), that time passes, that a listener on which
`accept` fails does not fail every time, and that clients that were dropped try
again; nothing is assumed of the client that is held.  `UsbStack` assumes that
the emulator polls and that the firmware executes and takes its interrupts;
nothing of hosts.  `Emulation` assumes that a run goes on and that `emu_start`
returns for an interrupt again and again, as the firmware's SysTick makes it:
without one a stop is never looked at.  `Peripherals` assumes that start-up code
is executed.

## What is proved

The proofs hold for all values of the constants that satisfy the assumptions
declared with them (those of `CdcSession` are a hypothesis of its theorems, as
what implements it chooses its constants): any set of IRQs, period, block sizes and reloads; any
sessions, capacity and bursts; any readers and bounds; any streams, delays and
poll intervals; any threads and links; any wheel, pins, queues and speeds; any width of
the timers' counters, prescaler, voltages and size of the panels; any sizes of USB words,
packets, descriptors and replies.  Beside
the discipline of firmware above, the assumptions are that the sector field of
flash has 5 bits (`Registers`), that the pins of the ECU have EXTI lines 0 to 15
and names that differ, that the wheel has a slot, and that the counters' width is even, the
panels have pixels, and the command that reads the display's identity is not one of
those for drawing.  Where a theorem needs more,
it says so itself.

`NvicProofs`

- `TypeCorrect`: the type invariant.  It is inductive together with "one frame
  per live handler", without which a return would have no frame to pop.
- `DispatchCorrect`: every step that clears a pending bit runs that exception's
  handler, unmasked, outside IT blocks, enabled and lowest first.  It needs no
  discipline: nested `svc` is included.
- `NeverNests`: if `MaxNesting = 1`, RETTOBASE and VECTACTIVE are true
  (`ModeTruthful`).  The
  invariant is the conjunction of both with the type invariant: VECTACTIVE is
  needed to know that the flag that defers a dispatch is set exactly while a
  handler is live.
- `StacksBalanced`: if also handlers leave the FPU alone or return with LR
  intact (`FrameDiscipline`), thread code finds both stacks empty of frames.
  `StackBalanced` says nothing about states in which a handler is live, so it is
  strengthened to `FrameInv`: the frame of the live handler is all there is on
  the stacks, CONTROL still selects its stack, and its frame type too if handlers
  leave the FPU alone.  Entry establishes it and a return consumes it.

`CdcSessionProofs`

- `TypeCorrect` and `SessionsIsolated`.  Both rest on what the three operators on
  queues do to their entries (`NewestProperties`, `RestProperties`,
  `SentProperties`): what is queued after a step was queued before or is marked
  with the session under way.

`CdcProofs`, for the embedded link

- `LinkTyped`, `ConnectedWhenReady`, and `NoWakeupLost`: a thread that waits has
  nothing to read, in a session, with the protocol ready.  Every action that could
  end that either notifies all readers or leaves the three things it depends on
  alone.
- `LinkImplementsPort`: the refinement of `CdcSession`.  The invariant it needs is
  that a link without a host holds nothing (`QuietWhenApart`), because `connect`
  is the only clearing action that does not look whether a host was there.  The
  other half is `PushCappedIsNewest`: the code's arithmetic (drop the overflow
  from the queue, keep the end of a write longer than the queue) yields the newest
  entries of the queue and the write together.
- `LinkIsolated`: no byte is queued for a session other than its own.  Nothing is
  proved about the link's actions for it: it is `SessionsIsolated` of the abstract
  port, carried over by `LinkImplementsPort`.

`DmaProofs`

- `TypeCorrect`.  It is inductive together with `ClockInv`: the hook's count of
  halfwords is ahead of the controller's by at most a block, which bounds the gap
  between two polls.
- `CompletesInWindow` and, if stream 0 is not used, `TransfersScheduled`.  Both
  follow from `Waits`: the age of a request and what is left to its deadline add
  up to the delay and the time since the last poll, or to at most a poll gap less,
  whether or not the driver has aborted in between.  The hypothesis of the second is
  the finding of `dma_stream0`: what is written to CR of stream 0 is lost.
- `FlagsCorrect`: the bits of LISR and HISR are those of the completions not
  acknowledged.  The lemmas about the manual's bit positions show that no two
  streams share one.
- `EnReliable`: EN tells the truth to drivers in `Careful`, with `CarefulInv`: for
  them no saved copy of CR waits to be installed, and a request has a deadline, and
  only a request has one.
- `BoardDrives`: the driver of `Board`, which starts transfers, acknowledges them in
  its handlers and lets the hook poll, is a driver of `Dma` (a careful one, reading
  from peripherals): what is proved of the controller holds on the board.
- `CompletionsDelivered`: the invariant ties the two components together.  A stream
  with a deadline has asked for its interrupt (`Interrupts`); no two handlers are live
  and the busy flag is up for as long as one is (`OneHandler`), so a dispatch happens
  only when no handler could be missed; and a completion not acknowledged is pending,
  or its handler is live and has not executed its first block (`Announced`).  Neither
  handler length nor delay matters to it.

`CdcProofs`, for the bridge

- `BridgeTyped`, `BridgeImplementsPort` and `BridgeIsolated`, as for the embedded
  link.  A poll of the bridge is many steps, so the invariant also says that what a
  socket holds was written by its own client (`OwnWires`), and that without a
  client the queue to the firmware is empty, wherever in the poll that is
  (`QuietWhenApart`).

`EmulationProofs`

- `TypeCorrect`.
- `LinksOwned`: the invariant has the guard held by at most one thread (`Alone`)
  and, for each place that thread can be at, what the two registries and its device
  hold there (`Registered`).
- `ErrorsReported`: for each place, whether the flag of an unmapped access can be
  set and whether the last return of the CPU was an error (`Faults`).  The flag is
  set only between the return it belongs to and the look at it.
- `FlashRecovered`: `FileInv` relates the file, what was last committed and the
  flash under way; a torn file is never loaded.
- `ErasesExact`: rests on `SectorExact`, that `sector_range` is the inverse of the
  manual's table in both banks for every value of the register.

`LauncherProofs`

- `TypeCorrect`, `LossIsShown`, `StatusCorrect` and `SettingsRestored` have one
  invariant: a handle is held exactly while there is a child (`Held`); Running means
  one, Crashed an error to show, Halted that nothing held is left that could still
  fail, and a child that runs and is held is said to run or to have crashed
  (`StatusInv`); a whole workspace file holds what the last successful save wrote,
  which is what the launcher was last closed with unless something was lost since
  (`StoreInv`).
- `LossIsShown` is about steps: only `Start` and `Stop` let a handle go under a
  launcher that stays up.  `Start` meets a running child only after its state could
  not be had, which left an error to show, and a `Stop` that leaves one shows its own.
- `LinesKept`: `NothingSkipped` is inductive once a pipe is known to hold only lines of
  its own stream (`LinesInv`).  A line handed to the channel stays at its place among
  those of its stream and comes in between those of the other (`HandedOver`,
  `OtherLine`); a poll of a full trace cuts the front only (`KeptCut`, `FrontCut`).

`EcuIoProofs`

- `TypeCorrect`.
- `EdgesSeen`: `NoEdgeMissed` says nothing while the handler runs, so it is
  strengthened: the remembered levels are those of the values (`LevelInv`), din is
  routed and enabled on both edges once the firmware has set it up (`RoutedInv`),
  and unless its bit of PR is set, the firmware has read its level (`FreshInv`).
- `TeethComplete`: the rising edges of a revolution are one for each slot with a
  tooth that was entered, and the pin has the level of the position (`WheelInv`),
  except before the wheel first moves.  `WheelTurns` does the arithmetic: a turn of
  less than half a slot stays in its slot or enters the next one at its start.
- `LinesCount`: while no line was cut, what the bridge holds followed by what is
  still unread is a sequence of lines (`LineInv`, `LineOrder`): a start is followed
  by its end and an end preceded by its start, only starts stay in the buffer, and
  nothing is held without a client.  `SplitPoint` and `OrderKept` say that a poll
  divides such a sequence after a whole line or leaves a start to wait for its end;
  `DinTaken` that the last of the lines taken decides din.
- `HostKnows`: the pins have the levels the firmware drives (`OutLevels`).  On the
  link (`LinkInv`) the events queued are numbered in succession, the last one of an
  output has its level, and a host that missed none already knows the outputs with no
  event queued.  To a client (`ClientInv`) the last line queued for an output says
  its level, or there is none and the client knows it (`Says`), provided its queue
  never overflowed; `NewestKept` says what a queue cut to its newest entries keeps.

`PeripheralsProofs`

Each group has an invariant of its own, since `focus` never changes.

- `MatchesOnTime`: while the driver waits for a match, the counter's distance to CCR1
  is the ticks it was promised (`OnCourse`), modulo the counter's width; the lemmas on
  `%` (`WholeTurns`, `ReducedTerm`) do the arithmetic of wrapping for any even width.
- `TimeIsHonest`: starting and stopping TIM5 moves ticks between its two registers and
  loses none, since both are taken modulo the same width; the updates of TIM6 so far,
  one period each, fit between its start and the last of them (`Tim6Inv`).
- `ScansAligned`: the index is the number of samples taken since SWSTART, modulo the
  length of the sequence (`AdcInv`), and the two bytes a DMA controller takes are those of
  one sample (`BytesOfSample`).
- `PixelsInOrder`: for the display, the arguments the controller has collected are those
  the firmware has sent of the command under way, two bytes at a time, and a cursor
  inside its window is at the number of pixels since Draw (`Paired`); for the LCD, the
  cursor is at that number and a frame of two bytes is half received exactly when the
  firmware has sent half of it (`Served`).  A command that reads the identity may come at
  any time, and is not one of those for drawing (`ReplyAssumption`).

Its second half is about `UsbStack`, for endpoints, words, packets and replies of any
size and any number of hosts.

- `UsbSound`: the invariant.  `TxfeHeld` and `Transferred` say nothing about what the
  driver is about to do, and both fail at once if a poll or a reset comes when the
  controller is not where the next access expects it.  The invariant `UsbInv` therefore
  reads `todo`: it is a sequence of accesses no transfer to the host depends on (`MildOps`)
  followed by the rest of a handler, of one of the twelve kinds of `Ahead` (about to take
  a size, to arm, to mask, to clear the interrupt, to fill with k words, to end a
  reset ...), each with what then holds of the controller.  While a reply is written to
  the FIFO, for example, the FIFO holds exactly the bytes of the words written so far and
  the words still to come are enough and not one too many (`ToFill`, `Exact`).  It also has
  what holds between any two accesses: a FIFO-empty interrupt is one of an armed transfer
  (`Ground`), nothing comes for the bulk endpoint before the device is configured (`Calm`),
  and the driver takes itself for connected only when it is or is about to be told that it
  is not (`Up`).
- The proof has one lemma for each register access, on what it does to transfers
  (`Arms`, `Pushes`, `Masks`, `Clears`, `Vacates`); one for each kind of rest, on what the
  access leaves of it (`AheadStep`); one on a poll that comes in between, which leaves
  what the rest depends on (`AheadAlike`) or ends the session and marks it `torn`
  (`AheadTorn`); and one for each handler entered (`ResetSound`, `InSound`, `OutSound`,
  `RespondSound`).
- `TxfeIsHeld` holds of the invariant.  `TransfersWhole` is about steps: the word that
  completes a bulk transfer finds all others in the FIFO (`FillTaken`), and
  `complete_in_transfer` cuts the last word to the size (`PacketSent`).  Neither depends
  on the bounds on hosts, messages and replies.

Only model-checked:

- the liveness properties `HeadServed`, `Responsive`, `NeverWedged`, `HostServed`,
  `StopHonoured` and `Boots`, which are beyond the prover (fairness and ENABLED);
- `StoresExact` and `DevicesAnswer`: the bus looks a block up in a sorted sequence, and
  a store reaches GPIO and the devices behind it as a sequence of calls.  Both are folds,
  and induction over data is beyond the prover too;
- `Aligned` of `UsbStack`: the bytes announced are a sum over the status queue, a fold;
- `ConfiguredTruly` and `FlowControlled` of `UsbStack`, for which no proof has been
  written: their invariant has to relate the requests in the receive FIFO to the
  virtual host's step.

## Findings

Two runs end in a violation: each checks one sentence of a document or a comment
against what the code does.

| Run | The text | The code |
|---|---|---|
| `dma_stream0` | stream registers are "CR0, CR1, etc." (`dma.rs:377`) | offsets below 0x28, stream 0's, are taken for the controller's (`dma.rs:383`) |
| `launcher_manual` | "enable Manual profile and provide an existing SVD file plus explicit vector-table, flash, and RAM values" (`docs/native-launcher.md:51`) | the panel clears `selected_variant` while Manual profile is set, and `can_run` asks for one (`launcher/ui_state.rs:27`) |

Other places where a text or an expectation and the code disagree, met while
modelling.  The models have what the code does; no run is spent on them.

| The text, or what one would expect | The code | In the model |
|---|---|---|
| RETTOBASE is always set "since our NVIC never nests interrupts" (`scb.rs:14`) | `svc` in a handler enters SVCall inside it (`nvic.rs:286`) | `Svc` with `MaxNesting` 2 breaks `RetToBaseTruthful` |
| EXC_RETURN tells the frame type of the entry (`nvic.rs:230`) | if LR was overwritten, the frame type is taken from CONTROL, which the handler's own FPU use has changed (`nvic.rs:317`) | `FpInHandler` with `LrIntact` FALSE breaks `StackBalanced` |
| data queued for a disconnected client is "not replayed" (`docs/external-io-interface.md:34`) | an answer pushed after its client has gone waits for the next one (`usb_cdc_tcp.rs:138`) | `PushFromDevice` |
| a transfer happens "while the stream is active" (`dma.rs:71`) | clearing EN leaves the deadline, and the transfer is performed (`dma.rs:140`) | `WriteCr` of a stream not in `Careful` |
| CR reads toggle "on the ready flag" (`dma.rs:303`) | a saved copy of all of CR overwrites what was written since (`dma.rs:295`) | `ReadCr` |
| the delay "rounds up" to the poll (`dma.rs:60`) | the deadline counts from the last poll, so it may come early (`dma.rs:141`) | `DeadlineOnArm`; `CompletionWindow` has the window there really is |
| "whatever you write to the socket arrives at firmware" (`docs/external-io-interface.md:21`) | bytes read together with the FIN are cleared (`usb_cdc_tcp.rs:344`) | `ReadChunk`, then `ClientGone` |
| a client is replaced when it was "idle for a grace period" (`usb_cdc_tcp.rs:190`) | its age since it connected is compared (`usb_cdc_tcp.rs:205`) | `WithinGrace` |
| a second connection is "accepted then immediately dropped" (`docs/proteus-f7-usb.md:35`) | after the grace period it replaces the first (`usb_cdc_tcp.rs:213`) | `Accept`, `Hold` |
| a bus reset begins enumeration anew | if it comes between two accesses of a handler, the transfer that handler completes counts as the first answer, and bulk bytes it still pushes go to the next host (`otg_fs.rs:333`) | `torn` in `UsbStack` |
| lines of two clients do not mix | half a line of a client that left is joined to the next one's first, and lines not yet sent go to the next client (`ecu_io.rs:335`) | `recv_buffer`, `outgoing` in `EcuIo` |
| an output is reported when it changes | a feeder that sets the output's name makes the next report of that level silent (`ecu_io.rs:303`) | not fed: `Fed` has input names only |
| a requested stop stops the run | one requested before `run_emulator` resets the flag is forgotten (`emulator.rs:145`) | `ResetFlags`; `StopHonoured` starts after it |
| "yes, we want to panic if this goes negative" (`emulator.rs:377`) | a build without overflow checks wraps and runs on (`emulator.rs:378`) | `LoopTop` has both |
| flash and its alias hold the same | programmed words reach the range they are written to, only erases and loads reach the alias | `Program` |
| a bit-band store changes one bit | it keeps only the addressed bit of the byte: a 0 leaves that bit as it was, and either value clears the seven others (`mod.rs:567`) | `BitBandByte`; `LanesPreserved` states it |
| the devices hear what BSRR does | for a pin both set and reset the register takes the set, the device the reset (`gpio.rs:225`), until a store that calls the device again | `clash` in `LevelAgrees`, which has both levels |
| a compare match is latched | a match polled more than half the range late reads as one still to come (`tim5.rs:119`) | `Late` in `MatchOnTime` |
| MOSI keeps its level over a chip select | `write_cs` forgets it (`sw_spi.rs:82`) | style "odr" in `FlashAnswers` |
| chip select ends a flash command | the chip does not see it and takes the next command for missing arguments (`spi_flash.rs:67`) | `torn` in `FlashAnswers` |
| a periodic timer keeps its phase | the time over at a poll is lost (`tim6.rs:111`) | `Poll6`; `NeverFast` is the half that holds |
| a cleared compare flag stays clear | it is latched again at the next poll while CNT is past CCR1 (`tim5.rs:156`) | `Poll5` |
| a new ADC sequence starts at its first channel | the index stays (`adc.rs:90`) | `WriteSequence`; `ScanAligned` asks for SWSTART |
| saving the workspace keeps the old one until it is done | it is truncated first (`workspace.rs:85`) | `Close`, `Saved` |
| settings are saved at a close | the result of the save is discarded and the launcher exits (`stm32-launcher.rs:344`) | `Close`, `Saved`; `lost` in `Restored` |
| a workspace file is taken whole or not at all | one cut at its end parses if only the port is missing or a text is shorter (`workspace.rs:31`) | `Cuts` |
| Halted means the child has ended | a stop that fails shows its error and Halted, and lets the handle go (`stm32-launcher.rs:214`); the drop tries once more and ignores a failure (`process.rs:178`) | `Stop`, `Left`; `LossShown` says what holds |
| the trace has all a child prints | a line that is not UTF-8 ends its reader, and the rest of the stream is not read (`process.rs:202`) | `Read`; `NothingSkipped` counts what is left in the pipe |

## What is not modelled

- In the modelled components: the IPR priority bytes and CPACR, which are stored
  and read back only; SysTick's current value; the addresses of DMA transfers;
  the DMA interrupt numbers of controller 1 (the same table with other numbers);
  the heartbeat log of the TCP bridge; names of protocol stages between Detached
  and ProtocolReady; the USB capability registers; a USB driver that stops and
  starts again; the wheel angle stamped on output events.
- `emu_start` is taken to fail whenever a memory hook refused an access, as Unicorn
  does; a return without an error that leaves `CONTINUE_EXECUTION` set is therefore
  no case of `EmuReturns`, but for a stop, which ends the run before the flag is
  looked at.
- The launcher's temporary config file: it is made before a spawn and goes with the
  handle, and nothing else reads it.
- The firmware and the CPU are the environment: one operation per block, any
  order.  A block that does several register accesses is not split by an
  interrupt in the emulator either, so several accesses are several blocks here.
- `EmbeddedCdc` does not say to which session a waiting read belongs, as the code
  does not: a thread that was notified by a disconnect and runs only after the
  next connect goes on in the new session.
- A command the touch screen does not know panics (`touchscreen.rs:162`), and the
  bus asserts that an access does not leave its word: the models' firmware does
  neither.
- The F407's SVD declares blocks that start where core blocks do; which of two
  equal starts is found is not determined.  `SvdBlocks` holds,
  as the F767's SVD does, no block that starts where a core block does.
- Pixel colours, the SDL window, image files; panel drawing and file dialogs;
  command-line and YAML parsing; the generated variant table and its generator:
  output, parsing and tables without state.

## Plan

The components are modelled, and the invariants of all of them proved but three of
`UsbStack`'s.  What is left is one proof: `ConfiguredTruly` and `FlowControlled`, from an
invariant beside `UsbInv` that says which request of the enumeration is in the receive
FIFO, in the driver's buffer or being answered at each step of the virtual host.

No module declares a RECURSIVE operator.  What a fold of the community modules
computes (`StoresExact`, `DevicesAnswer`, `Aligned`) and all liveness stays with TLC.
