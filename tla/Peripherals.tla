---------------------------- MODULE Peripherals ----------------------------
(***************************************************************************)
(* The peripherals behind the bus, each driven by the firmware code that   *)
(* uses it.  The groups share nothing but the bus, so a behaviour is about *)
(* one of them, chosen at the start (focus); unit is the state of that     *)
(* group's peripherals and devices, drv the state of the firmware using    *)
(* them, with what it has been promised.                                   *)
(*                                                                         *)
(*   pins      a port, a software SPI bus on it and a flash chip           *)
(*   spi       a hardware SPI with a flash chip, a touch screen or an LCD  *)
(*   display   a display on an FSMC bank                                   *)
(*   tim5      the scheduling timer                                        *)
(*   dwt       the cycle counter                                           *)
(*   tim6      the periodic timer                                          *)
(*   adc       a converter and the voltages on its pins                    *)
(*   boot      registration, then the registers start-up code waits on     *)
(***************************************************************************)
EXTENDS Integers, Sequences, SequencesExt, FiniteSets, TLC

CONSTANTS FlashSize, JedecId, Width, Height, IdCommand, IdReply, W, PerTick,
          Foci,       \* the groups to explore
          Messages,   \* byte sequences the firmware sends to the flash
          MaxAborts,  \* transfers given up half-way
          MaxOps,     \* operations in the groups without an end of their own
          MaxClock,   \* instructions
          SvdBlocks   \* [start, end] of the modelled blocks the SVD declares

VARIABLES focus, unit, drv

vars == <<focus, unit, drv>>

ASSUME SizesAssumption ==
  /\ W \in Nat \ {0} /\ W % 2 = 0 /\ PerTick \in Nat \ {0} /\ FlashSize \in Nat \ {0}
  /\ Width \in Nat \ {0} /\ Height \in Nat \ {0}
  /\ Len(JedecId) = 4 /\ {MaxAborts, MaxOps, MaxClock} \subseteq Nat

INSTANCE Gpio
INSTANCE SpiBus
INSTANCE FsmcDisplay WITH Columns <- Width, Rows <- Height
INSTANCE Timers
INSTANCE Adc
INSTANCE StatusRegisters

(* The board answers a command that is not one of those for drawing. *)
ASSUME ReplyAssumption ==
  IdCommand \in Nat \ {SetHoriRegion, SetVertRegion, Draw} /\ IdReply \in Seq(Nat)

----------------------------------------------------------------------------
(* pins: the wiring of the software SPI, and a pin of the same port that   *)
(* other code drives.                                                      *)
MisoPin == 0
CsPin == 1
MosiPin == 2
ClkPin == 3
LedPin == 9
Wired == {CsPin, MosiPin, ClkPin}

NewPins == [port |-> NewPort, bus |-> NewBus, dev |-> NewFlash,
            told |-> [p \in Wired |-> FALSE], clash |-> {}]

(* SoftwareSpi::register: the callback of each pin. *)
Called(u, call) ==
  LET clocked == WriteClk(u.bus, u.dev, call.level)
      heard == [u EXCEPT !.told = [p \in Wired |-> IF p = call.pin THEN call.level ELSE @[p]]]
  IN CASE call.pin = CsPin -> [heard EXCEPT !.bus = WriteCs(@, call.level)]
       [] call.pin = MosiPin -> [heard EXCEPT !.bus = WriteMosi(@, call.level)]
       [] call.pin = ClkPin -> [heard EXCEPT !.bus = clocked.bus, !.dev = clocked.dev]
       [] OTHER -> u

(* A store to BSRR, and a store of a part of ODR through the bus. *)
StoreBsrr(u, set, reset) ==
  [FoldLeft(Called, u, BsrrCalls(set, reset)) EXCEPT
     !.port = WriteBsrr(@, set, reset),
     !.clash = (@ \ (set \cup reset)) \cup (set \cap reset)]

StoreOdr(u, offset, size, value) ==
  LET word == StoreLanes(u.port.od, offset, size, value)
      calls == OdrCalls(u.port, word)
  IN [FoldLeft(Called, u, calls) EXCEPT
        !.port = WriteOdr(@, word),
        !.clash = @ \ {calls[i].pin : i \in DOMAIN calls}]

(* The two ways firmware drives some pins of the low byte. *)
Driven(u, set, reset) ==
  IF drv.style = "bsrr" THEN StoreBsrr(u, set, reset)
  ELSE StoreOdr(u, 0, 1, ((u.port.od \ reset) \cup set) \cap (0 .. 7))

Bit(byte, n) == (byte \div 2 ^ (7 - n)) % 2 = 1

StartOf(message) == [step |-> "raise", message |-> message, byte |-> 1, bit |-> 0,
                     got |-> 0, in |-> <<>>]

PinsInit ==
  /\ unit = NewPins
  /\ \E m \in Messages, style \in {"bsrr", "odr"} :
       drv = [style |-> style, job |-> StartOf(m), aborts |-> 0, torn |-> FALSE]

Select ==
  /\ focus = "pins" /\ drv.job.step \in {"raise", "lower"}
  /\ unit' = IF drv.job.step = "raise" THEN Driven(unit, {CsPin}, {})
             ELSE Driven(unit, {}, {CsPin})
  /\ drv' = [drv EXCEPT !.job.step = IF @ = "raise" THEN "lower" ELSE "put"]
  /\ UNCHANGED focus

PutBit ==
  /\ focus = "pins" /\ drv.job.step = "put"
  /\ unit' = IF Bit(drv.job.message[drv.job.byte], drv.job.bit)
             THEN Driven(unit, {MosiPin}, {ClkPin})
             ELSE Driven(unit, {}, {MosiPin, ClkPin})
  /\ drv' = [drv EXCEPT !.job.step = "clock"]
  /\ UNCHANGED focus

ClockBit ==
  /\ focus = "pins" /\ drv.job.step = "clock"
  /\ unit' = Driven(unit, {ClkPin}, {})
  /\ drv' = [drv EXCEPT !.job.step = "sample"]
  /\ UNCHANGED focus

SampleBit ==
  /\ focus = "pins" /\ drv.job.step = "sample"
  /\ LET j == drv.job
         idr == ReadIdr(MisoPin :> ReadMiso(unit.bus))
         got == 2 * j.got + IF MisoPin \in idr THEN 1 ELSE 0
         last == j.byte = Len(j.message)
     IN drv' = [drv EXCEPT !.job =
          IF j.bit < 7 THEN [j EXCEPT !.bit = @ + 1, !.got = got, !.step = "put"]
          ELSE [j EXCEPT !.bit = 0, !.got = 0, !.in = Append(@, got),
                         !.byte = IF last THEN @ ELSE @ + 1,
                         !.step = IF last THEN "done" ELSE "put"]]
  /\ UNCHANGED <<focus, unit>>

(* The transfer is given up wherever it is and another one started: torn   *)
(* remembers that a command was left without its arguments, or that chip   *)
(* select was set and reset at once.                                       *)
Abandon ==
  /\ focus = "pins" /\ drv.job.step # "raise" /\ drv.aborts < MaxAborts
  /\ \E m \in Messages :
       drv' = [drv EXCEPT !.job = StartOf(m), !.aborts = @ + 1,
                          !.torn = @ \/ unit.dev.cmd.is = "some"]
  /\ UNCHANGED <<focus, unit>>

(* Other code on the same port: a byte store to the upper half of ODR, and  *)
(* a BSRR store that sets and resets chip select at once, after which a    *)
(* store to ODR that sets it is no change and reaches no device.           *)
Blink ==
  /\ focus = "pins"
  /\ \E on \in BOOLEAN :
       unit' = StoreOdr(unit, 1, 1, IF on THEN {LedPin - 8} ELSE {})
  /\ UNCHANGED <<focus, drv>>

Clash ==
  /\ focus = "pins" /\ drv.job.step = "raise"
  /\ unit' = StoreBsrr(unit, {CsPin}, {CsPin})
  /\ drv' = [drv EXCEPT !.torn = TRUE]
  /\ UNCHANGED focus

PinsNext == Select \/ PutBit \/ ClockBit \/ SampleBit \/ Abandon \/ Blink \/ Clash

(* What the k-th byte of the answer to a message has to be: a reply starts *)
(* with the transfer after the one that completed the command.             *)
Answer(message, k) ==
  CASE message[1] = ReadJedec -> IF k \in 2 .. 5 THEN JedecId[k - 1] ELSE 0
    [] message[1] = ReadData /\ k > 4 ->
         Content((message[3] * 256 + message[4] + k - 5) % FlashSize)
    [] OTHER -> 0

Answered(message, in) ==
  \A k \in DOMAIN in :
    (message[1] = ReadJedec /\ k > 1) \/ (message[1] = ReadData /\ k > 4)
      => in[k] = Answer(message, k)
----------------------------------------------------------------------------
(* spi: frames of one or two bytes, each written to DR, waited for in SR   *)
(* and read back; the pen moves on its own.                                *)
Pens == {PenDown(1, 0), PenDown(Width - 1, Height - 1)}

FramesOf(message, wide) ==
  IF wide THEN [i \in 1 .. Len(message) \div 2 |-> message[2 * i - 1] * 256 + message[2 * i]]
  ELSE message

(* Firmware that wants eight bits of the second reads one byte of it. *)
TouchMessages == {<<MeasureX, 0, 0, 0>>, <<MeasureY, 0>>}
LcdMessages == {<<0, StartDrawing, 16, 32>>, <<StartDrawing, StartDrawing>>, <<240, StartDrawing>>}

SpiMessages(d) ==
  CASE d.is = "flash" -> Messages
    [] d.is = "touch" -> TouchMessages
    [] OTHER -> LcdMessages

SpiInit ==
  /\ \E d \in {NewFlash, NewTouch, NewLcd} : unit = [spi |-> NewSpi, dev |-> d, pen |-> Lifted]
  /\ drv = [step |-> "idle", message |-> <<>>, at |-> 0, in |-> <<>>, asked |-> Lifted,
            ops |-> 0, pixels |-> 0]

(* The data frame format is chosen in CR1 before a message. *)
SpiStart ==
  /\ focus = "spi" /\ drv.step = "idle" /\ drv.ops < MaxOps
  /\ \E m \in SpiMessages(unit.dev), wide \in BOOLEAN :
       /\ unit' = [unit EXCEPT !.spi.wide = wide]
       /\ drv' = [drv EXCEPT !.step = "write", !.message = m, !.at = 1, !.in = <<>>,
                             !.ops = @ + 1]
  /\ UNCHANGED focus

Frame == FramesOf(drv.message, unit.spi.wide)[drv.at]

SpiWrite ==
  /\ focus = "spi" /\ drv.step = "write"
  /\ LET after == WriteDr(unit.spi, unit.dev, Frame, unit.pen)
         bytes == IF unit.spi.wide THEN 2 ELSE 1
         new == IF unit.dev.is # "lcd" THEN 0
                ELSE IF unit.dev.drawing THEN bytes
                ELSE IF after.dev.drawing /\ unit.spi.wide /\ Frame \div 256 = StartDrawing
                     THEN 1 ELSE 0
     IN /\ unit' = [unit EXCEPT !.spi = after.spi, !.dev = after.dev]
        /\ drv' = [drv EXCEPT !.step = "wait", !.pixels = (@ + 2 * new) % (Width * Height),
                              !.asked = IF drv.at = 1 THEN unit.pen ELSE @]
  /\ UNCHANGED focus

SpiWait ==
  /\ focus = "spi" /\ drv.step = "wait"
  /\ unit' = [unit EXCEPT !.spi = ReadSr(@)]
  /\ drv' = [drv EXCEPT !.step = IF unit'.spi.ready THEN "read" ELSE "wait"]
  /\ UNCHANGED focus

SpiRead ==
  /\ focus = "spi" /\ drv.step = "read"
  /\ LET rx == unit.spi.rx
         in == drv.in \o IF unit.spi.wide THEN <<rx \div 256, rx % 256>> ELSE <<rx>>
         more == drv.at < Len(FramesOf(drv.message, unit.spi.wide))
     IN drv' = [drv EXCEPT !.in = in, !.at = @ + 1, !.step = IF more THEN "write" ELSE "idle"]
  /\ UNCHANGED <<focus, unit>>

PenEvent ==
  /\ focus = "spi" /\ unit.dev.is = "touch"
  /\ \/ \E p \in Pens : unit' = [unit EXCEPT !.pen = p]
     \/ \E p \in Pens : unit' = [unit EXCEPT !.pen = PenMoved(@, p.x, p.y)]
     \/ unit' = [unit EXCEPT !.pen = Lifted]
  /\ UNCHANGED <<focus, drv>>

SpiNext == SpiStart \/ SpiWrite \/ SpiWait \/ SpiRead \/ PenEvent

(* The measurement the firmware makes of what follows the command: two     *)
(* bytes or the frame after it, or one byte of a short message.            *)
TouchValue(in, wide) ==
  IF Len(in) = 2 THEN in[2]
  ELSE LET high == IF wide THEN in[3] ELSE in[2]
           low == IF wide THEN in[4] ELSE in[3]
       IN (high * 256 + low) \div 16

----------------------------------------------------------------------------
(* display: any sequence of commands and data words; drv follows what the  *)
(* controller's manual makes of it.                                        *)
Window == [left |-> 0, right |-> Width - 1, top |-> 0, bottom |-> Height - 1]

DisplayInit ==
  /\ unit = NewDisplay
  /\ drv = [cmd |-> 0, args |-> <<>>, window |-> Window, pixels |-> -1, ops |-> 0]

WithArguments(window, cmd, a) ==
  CASE cmd = SetHoriRegion /\ Len(a) = 4 -> [window EXCEPT !.left = a[2], !.right = a[4]]
    [] cmd = SetVertRegion /\ Len(a) = 4 -> [window EXCEPT !.top = a[2], !.bottom = a[4]]
    [] OTHER -> window

DisplayCommand ==
  /\ focus = "display" /\ drv.ops < MaxOps
  /\ \E cmd \in {SetHoriRegion, SetVertRegion, Draw, IdCommand, 0} :
       /\ unit' = WriteCommand(unit, cmd)
       /\ drv' = [drv EXCEPT !.cmd = cmd, !.args = <<>>, !.ops = @ + 1,
                             !.pixels = IF cmd = Draw THEN 0 ELSE -1]
  /\ UNCHANGED focus

DisplayData ==
  /\ focus = "display" /\ drv.ops < MaxOps
  /\ \E word \in IF drv.pixels >= 0 \/ Len(drv.args) % 2 = 0 THEN {0} ELSE 0 .. 2 :
       LET args == IF drv.pixels < 0 /\ Len(drv.args) < 4 THEN Append(drv.args, word) ELSE drv.args
       IN /\ unit' = WriteData(unit, word)
          /\ drv' = [drv EXCEPT !.args = args, !.ops = @ + 1,
                                !.window = IF args # drv.args
                                           THEN WithArguments(@, drv.cmd, args) ELSE @,
                                !.pixels = IF @ >= 0 THEN @ + 1 ELSE @]
  /\ UNCHANGED focus

DisplayRead ==
  /\ focus = "display" /\ unit.reply # <<>>
  /\ unit' = ReadReply(unit)
  /\ UNCHANGED <<focus, drv>>

DisplayNext == DisplayCommand \/ DisplayData \/ DisplayRead

(* Where the n-th pixel of a window goes: along its rows, then around.     *)
CursorAt(window, n) ==
  LET columns == IF window.right >= window.left THEN window.right - window.left + 1 ELSE 1
      rows == IF window.bottom >= window.top THEN window.bottom - window.top + 1 ELSE 1
  IN [x |-> window.left + (n % columns), y |-> window.top + ((n \div columns) % rows)]
----------------------------------------------------------------------------
(* tim5: left is the number of ticks until the compare value is reached,   *)
(* negative once it has been.                                              *)
Tim5Init ==
  /\ unit = [now |-> 0, t |-> NewTim5, pending |-> FALSE]
  /\ drv = [left |-> 0]

Tim5Advance ==
  /\ focus = "tim5" /\ unit.now < MaxClock
  /\ unit' = [unit EXCEPT !.now = @ + 1]
  /\ drv' = [drv EXCEPT !.left =
       IF unit.t.cen /\ (unit.now + 1) % PerTick = 0 THEN @ - 1 ELSE @]
  /\ UNCHANGED focus

Tim5Enable ==
  /\ focus = "tim5"
  /\ \E cen \in BOOLEAN : unit' = [unit EXCEPT !.t = WriteCr1(@, cen, unit.now)]
  /\ UNCHANGED <<focus, drv>>

Signed(n) == IF n % W < W \div 2 THEN n % W ELSE (n % W) - W

Tim5SetCnt ==
  /\ focus = "tim5"
  /\ \E value \in {0, W - 1} :
       /\ unit' = [unit EXCEPT !.t = WriteCnt(@, value, unit.now)]
       /\ drv' = [drv EXCEPT !.left = -Signed(value - unit.t.ccr1)]
  /\ UNCHANGED focus

(* The scheduler arms the timer some way ahead, below half the range. *)
Tim5Arm ==
  /\ focus = "tim5"
  /\ \E ahead \in 1 .. (W \div 2) - 1 :
       /\ unit' = [unit EXCEPT !.t.armed = TRUE,
                               !.t.ccr1 = (Cnt(unit.t, unit.now) + ahead) % W]
       /\ drv' = [drv EXCEPT !.left = ahead]
  /\ UNCHANGED focus

Tim5Registers ==
  /\ focus = "tim5"
  /\ \/ unit' = [unit EXCEPT !.t.flag = FALSE]
     \/ \E ie \in BOOLEAN : unit' = [unit EXCEPT !.t.ie = ie]
  /\ UNCHANGED <<focus, drv>>

Tim5Handled ==
  /\ focus = "tim5" /\ unit.pending
  /\ unit' = [unit EXCEPT !.pending = FALSE]
  /\ UNCHANGED <<focus, drv>>

Tim5Poll ==
  /\ focus = "tim5"
  /\ LET after == Poll5(unit.t, unit.now)
     IN unit' = [unit EXCEPT !.t = after, !.pending = @ \/ Pends5(after)]
  /\ UNCHANGED <<focus, drv>>

Tim5Next ==
  Tim5Advance \/ Tim5Enable \/ Tim5SetCnt \/ Tim5Arm \/ Tim5Registers \/ Tim5Handled \/ Tim5Poll

----------------------------------------------------------------------------
(* dwt: offset is cyccnt_offset. *)
DwtInit == unit = [now |-> 0, offset |-> 0] /\ drv = 0

DwtAdvance ==
  /\ focus = "dwt" /\ unit.now < MaxClock
  /\ unit' = [unit EXCEPT !.now = @ + 1]
  /\ UNCHANGED <<focus, drv>>

DwtSet ==
  /\ focus = "dwt"
  /\ \E value \in 0 .. W - 1 : unit' = [unit EXCEPT !.offset = SetCyccnt(value, unit.now)]
  /\ UNCHANGED <<focus, drv>>

DwtNext == DwtAdvance \/ DwtSet

----------------------------------------------------------------------------
(* tim6: updates counts the update events since the timer was last started *)
(* or restarted, at started.                                               *)
Tim6Init ==
  /\ unit = [now |-> 0, t |-> NewTim6, pending |-> FALSE]
  /\ drv = [updates |-> 0, started |-> 0]

Tim6Advance ==
  /\ focus = "tim6" /\ unit.now < MaxClock
  /\ unit' = [unit EXCEPT !.now = @ + 1]
  /\ UNCHANGED <<focus, drv>>

Tim6Configure ==
  /\ focus = "tim6" /\ ~unit.t.cen
  /\ \E psc \in 0 .. 1, arr \in 0 .. 1, ie \in BOOLEAN :
       unit' = [unit EXCEPT !.t.psc = psc, !.t.arr = arr, !.t.ie = ie]
  /\ UNCHANGED <<focus, drv>>

Tim6Enable ==
  /\ focus = "tim6"
  /\ \E cen \in BOOLEAN :
       /\ unit' = [unit EXCEPT !.t = WriteCr1Of6(@, cen, unit.now)]
       /\ drv' = IF cen /\ ~unit.t.cen THEN [updates |-> 0, started |-> unit.now] ELSE drv
  /\ UNCHANGED focus

Tim6Restart ==
  /\ focus = "tim6"
  /\ unit' = [unit EXCEPT !.t = Restart6(@, unit.now)]
  /\ drv' = [updates |-> 0, started |-> unit.now]
  /\ UNCHANGED focus

Tim6Ack ==
  /\ focus = "tim6"
  /\ \/ unit.pending /\ unit' = [unit EXCEPT !.pending = FALSE]
     \/ unit.t.flag /\ unit' = [unit EXCEPT !.t.flag = FALSE]
  /\ UNCHANGED <<focus, drv>>

Tim6Poll ==
  /\ focus = "tim6"
  /\ LET after == Poll6(unit.t, unit.now)
     IN /\ unit' = [unit EXCEPT !.t = after, !.pending = @ \/ Pends6(after)]
        /\ drv' = [drv EXCEPT !.updates = IF after.since # unit.t.since THEN @ + 1 ELSE @]
  /\ UNCHANGED focus

Tim6Next ==
  Tim6Advance \/ Tim6Configure \/ Tim6Enable \/ Tim6Restart \/ Tim6Ack \/ Tim6Poll

----------------------------------------------------------------------------
(* adc: done counts the conversions since SWSTART; scanned is FALSE once   *)
(* the sequence was rewritten without a new start.                         *)
Sequences == {<<0>>, <<0, 1>>, <<1, 16, 0>>}
Millivolts == {-100, 1650, 5000}

AdcInit ==
  /\ unit = [adc |-> NewAdc, mv |-> [c \in 0 .. 1 |-> 0]]
  /\ drv = [done |-> 0, scanned |-> FALSE, sample |-> 0, wanted |-> 0]

AdcStart ==
  /\ focus = "adc"
  /\ \E swstart \in BOOLEAN :
       /\ unit' = [unit EXCEPT !.adc = WriteCr2(@, swstart)]
       /\ drv' = IF swstart THEN [drv EXCEPT !.done = 0, !.scanned = TRUE] ELSE drv
  /\ UNCHANGED focus

AdcConfigure ==
  /\ focus = "adc"
  /\ \E q \in Sequences : unit' = [unit EXCEPT !.adc = WriteSequence(@, q)]
  /\ drv' = [drv EXCEPT !.scanned = FALSE]
  /\ UNCHANGED focus

AdcFeed ==
  /\ focus = "adc"
  /\ \E c \in 0 .. 1, mv \in Millivolts : unit' = [unit EXCEPT !.mv[c] = mv]
  /\ UNCHANGED <<focus, drv>>

AdcClear ==
  /\ focus = "adc" /\ unit.adc.eoc
  /\ unit' = [unit EXCEPT !.adc = ClearSr(@)]
  /\ UNCHANGED <<focus, drv>>

(* Of the scan, the channel that conversion number done is of. *)
WantedNow ==
  LET c == unit.adc.sequence[(drv.done % Len(unit.adc.sequence)) + 1]
  IN IF c \in DOMAIN unit.mv THEN Counts(unit.mv[c]) ELSE 0

(* One sample, by the processor or as two bytes by the DMA controller.     *)
AdcSample ==
  /\ focus = "adc"
  /\ LET value == Converted(unit.adc, unit.mv)
         bytes == DmaBytes(value)
     IN \/ /\ unit' = [unit EXCEPT !.adc = ReadDr(@)]
           /\ drv' = [drv EXCEPT !.done = (@ + 1) % 6, !.sample = value, !.wanted = WantedNow]
        \/ /\ unit' = [unit EXCEPT !.adc = Stepped(@)]
           /\ drv' = [drv EXCEPT !.done = (@ + 1) % 6, !.sample = bytes[1] + 256 * bytes[2],
                                 !.wanted = WantedNow]
  /\ UNCHANGED focus

AdcNext == AdcStart \/ AdcConfigure \/ AdcFeed \/ AdcClear \/ AdcSample
----------------------------------------------------------------------------
(* boot: the slots are registered, then start-up code asks for one thing   *)
(* after another and waits for each, while other code stores to a storage  *)
(* register.  Addresses are scaled down, their order kept.                 *)
CoreBlocks == <<[start |-> 50, end |-> 52],   \* DWT
                [start |-> 55, end |-> 58],   \* STK
                [start |-> 60, end |-> 64],   \* NVIC, from ISER0
                [start |-> 67, end |-> 70],   \* SCB
                [start |-> 73, end |-> 74]>>  \* NVIC_STIR

(* from_svd pushes the SVD's blocks by base, then register_core_peripherals *)
(* its own; finish_registration sorts them all, keeping equals in order.   *)
Registered == SortSeq(SvdBlocks, LAMBDA a, b : a.start < b.start) \o CoreBlocks

FinishRegistration(slots) == SortSeq(slots, LAMBDA a, b : a.start < b.start)

(* The requests of start-up code: bits to set and clear in a register, and  *)
(* the bits to see set and clear in another (or the same) one.             *)
Request(reg, set, clear, in, see, miss) ==
  [reg |-> reg, set |-> set, clear |-> clear, in |-> in, see |-> see, miss |-> miss]

BootSteps ==
  << Request("cfgr", {1}, {0}, "cr", {25}, {}),
     Request("cfgr", {1}, {0}, "cfgr", {3}, {2}),
     Request("cfgr", {0}, {1}, "cfgr", {2}, {3}),
     Request("csr", {0}, {}, "csr", {1}, {}),
     Request("bdcr", {0}, {}, "bdcr", {1}, {}),
     Request("bdcr", {}, {0}, "bdcr", {}, {1}),
     Request("cr1", {14, 16}, {}, "csr1", {14, 16}, {17}),
     Request("csr1", {9}, {}, "csr1", {3}, {}),
     Request("isr", {7}, {}, "isr", {6}, {}),
     Request("isr", {}, {7}, "isr", {}, {6}),
     Request("mcr", {0}, {1}, "msr", {0}, {1}),
     Request("mcr", {}, {0}, "tsr", {26}, {0}),
     Request("plain", {}, {}, "usart_sr", {7}, {}) >>

BootInit ==
  /\ unit = [slots |-> <<>>, regs |-> Cleared, t11 |-> NewTim11, rx |-> <<>>]
  /\ drv = [step |-> 0, waiting |-> FALSE, i2c |-> "wait", plain |-> {}]

Boot ==
  /\ focus = "boot" /\ drv.step = 0
  /\ unit' = [unit EXCEPT !.slots = FinishRegistration(Registered)]
  /\ drv' = [drv EXCEPT !.step = 1]
  /\ UNCHANGED focus

InBoot == focus = "boot" /\ drv.step \in 1 .. Len(BootSteps)

(* Peripherals::write of a part of a register: the whole of it is read     *)
(* first.                                                                  *)
StoreIn(regs, reg, offset, size, value) ==
  WriteRegister(regs, reg, StoreLanes(ReadRegister(regs, reg), offset, size, value))

(* Read, modify and write of the request, as a word or as the byte that    *)
(* holds its bits.                                                         *)
BootAsk ==
  /\ InBoot /\ ~drv.waiting
  /\ LET q == BootSteps[drv.step]
         word == (ReadRegister(unit.regs, q.reg) \cup q.set) \ q.clear
     IN \/ unit' = [unit EXCEPT !.regs = StoreIn(@, q.reg, 0, 4, word)]
        \/ \E lane \in 0 .. 3 :
             /\ q.set \cup q.clear \subseteq LaneMask(lane, 1)
             /\ unit' = [unit EXCEPT !.regs =
                  StoreIn(@, q.reg, lane, 1, LoadLanes(word, lane))]
  /\ drv' = [drv EXCEPT !.waiting = TRUE]
  /\ UNCHANGED focus

BootSee ==
  /\ InBoot /\ drv.waiting
  /\ LET q == BootSteps[drv.step]
         now == ReadRegister(unit.regs, q.in)
     IN q.see \subseteq now /\ q.miss \cap now = {}
  /\ drv' = [drv EXCEPT !.step = @ + 1, !.waiting = FALSE]
  /\ UNCHANGED <<focus, unit>>

(* I2C start-up: SR1 until it reads ones, then SR1 and SR2 in turn until    *)
(* SR2 does.                                                               *)
I2cPoll ==
  /\ focus = "boot" /\ drv.step = Len(BootSteps) + 1 /\ drv.i2c # "done"
  /\ unit' = [unit EXCEPT !.regs = Toggled(@)]
  /\ drv' = [drv EXCEPT !.i2c =
       CASE @ = "wait" -> IF Sr1Set(unit'.regs) THEN "sr1" ELSE "wait"
         [] @ = "sr1" -> "sr2"
         [] OTHER -> IF Sr2Set(unit'.regs) THEN "done" ELSE "sr1"]
  /\ UNCHANGED focus

(* Other code: byte, halfword, word and bit-band stores to one register,   *)
(* TIM11 and the console.  drv.plain is the register as the bytes stored   *)
(* leave it; a store through the bit-band alias of a bit wipes the seven   *)
(* others of its byte and sets the bit or leaves it (mod.rs write).        *)
StorePlain ==
  /\ focus = "boot" /\ drv.step > 0
  /\ \E at \in {<<0, 4>>, <<0, 2>>, <<2, 2>>, <<0, 1>>, <<1, 1>>, <<3, 1>>},
        value \in {{}, {0, 8}} :
       /\ unit' = [unit EXCEPT !.regs = StoreIn(@, "plain", at[1], at[2], value)]
       /\ drv' = [drv EXCEPT !.plain =
            {b \in 0 .. 31 : IF b \div 8 \in at[1] .. at[1] + at[2] - 1
                             THEN b - 8 * at[1] \in value ELSE b \in @}]
  /\ UNCHANGED focus

StoreBit ==
  /\ focus = "boot" /\ drv.step > 0
  /\ \E lane \in {1, 3}, bit \in {1, 7}, one \in BOOLEAN :
       LET at == BitBand(32 * lane + 4 * bit)
           byte == LoadLanes(ReadRegister(unit.regs, "plain"), at.addr) \cap (0 .. 7)
       IN /\ unit' = [unit EXCEPT !.regs =
               StoreIn(@, "plain", at.addr, 1, BitBandByte(byte, at.bit, one))]
          /\ drv' = [drv EXCEPT !.plain =
               {b \in 0 .. 31 :
                  IF b = 8 * lane + bit THEN one \/ b \in @ ELSE b \in @ /\ b \div 8 # lane}]
  /\ UNCHANGED focus

StoreTim11 ==
  /\ focus = "boot" /\ drv.step = 1
  /\ \E reg \in {"cen", "input", "enabled", "flag"}, on \in BOOLEAN :
       unit' = [unit EXCEPT !.t11 = Write11(@, reg, on)]
  /\ UNCHANGED <<focus, drv>>

Console ==
  /\ focus = "boot" /\ drv.step = 1 /\ Len(unit.rx) < 2
  /\ \E byte \in {10, 65} : unit' = [unit EXCEPT !.rx = ProbeWrite(@, byte)]
  /\ UNCHANGED <<focus, drv>>

BootProgress == Boot \/ BootAsk \/ BootSee \/ I2cPoll

BootNext == BootProgress \/ StorePlain \/ StoreBit \/ StoreTim11 \/ Console

----------------------------------------------------------------------------
Init ==
  /\ focus \in Foci
  /\ \/ focus = "pins" /\ PinsInit
     \/ focus = "spi" /\ SpiInit
     \/ focus = "display" /\ DisplayInit
     \/ focus = "tim5" /\ Tim5Init
     \/ focus = "dwt" /\ DwtInit
     \/ focus = "tim6" /\ Tim6Init
     \/ focus = "adc" /\ AdcInit
     \/ focus = "boot" /\ BootInit

Next ==
  PinsNext \/ SpiNext \/ DisplayNext \/ Tim5Next \/ DwtNext \/ Tim6Next \/ AdcNext \/ BootNext

Spec == Init /\ [][Next]_vars

(* The firmware runs: start-up code keeps executing. *)
FairSpec == Spec /\ WF_vars(BootProgress)

----------------------------------------------------------------------------
(* A device on a pin has been told the level the output data register      *)
(* holds, however the pin was driven (ODR, BSRR, byte stores next to it);  *)
(* only after one BSRR store that sets and resets a pin does the register  *)
(* have it set and the device have heard the reset last, until a store     *)
(* that calls the device again (gpio.rs write).                            *)
LevelAgrees ==
  focus = "pins" =>
    \A p \in Wired : unit.told[p] = (p \in unit.port.od \ unit.clash)

(* What firmware reads from the flash chip, bit by bit over pins or in 8-   *)
(* and 16-bit frames, is the reply to its command, the address wrapping at *)
(* the end of the chip, whatever was given up before, unless a command was *)
(* left without its arguments: the chip does not see chip select and takes *)
(* the next command for them (spi_flash.rs write, sw_spi.rs write_clk).    *)
(* Firmware that drives the pins through ODR is promised its first         *)
(* transfer only: write_cs forgets the level of MOSI, and a store that     *)
(* leaves the pin high does not repeat it.                                 *)
FlashAnswers ==
  /\ focus = "pins" /\ drv.job.step = "done" /\ ~drv.torn
     /\ (drv.style = "bsrr" \/ drv.aborts = 0)
       => Answered(drv.job.message, drv.job.in)
  /\ focus = "spi" /\ unit.dev.is = "flash" /\ drv.step = "idle" /\ drv.message # <<>>
       => LET n == Len(drv.in)
              skip == IF unit.spi.wide /\ drv.message[1] = ReadJedec THEN 1 ELSE 0
          IN \A k \in 1 .. n :
               (drv.message[1] = ReadJedec /\ k > 1 + skip) \/ (drv.message[1] = ReadData /\ k > 4)
                 => drv.in[k] = Answer(drv.message, k - skip)

(* A touch measurement is of where the pen was when it was asked for, all   *)
(* twelve bits of it, and zero if it was lifted then, whatever it has done *)
(* since or was before (touchscreen.rs write and read).                    *)
TouchFresh ==
  focus = "spi" /\ unit.dev.is = "touch" /\ drv.step = "idle" /\ drv.message # <<>>
     /\ ~(unit.spi.wide /\ Len(drv.in) = 2)
    => LET v == IF drv.asked.down THEN Measured(drv.message[1], drv.asked) ELSE 0
       IN TouchValue(drv.in, unit.spi.wide) = IF Len(drv.in) = 2 THEN v \div 16 ELSE v

(* A device on a serial bus answers what it was asked, over either master,  *)
(* whatever transfers were given up before (spi.rs, sw_spi.rs,             *)
(* spi_flash.rs, touchscreen.rs).                                          *)
DevicesAnswer == FlashAnswers /\ TouchFresh

(* Pixels go along the rows of the window the firmware set with whole       *)
(* commands, and of no other; the LCD's go along the rows of the panel     *)
(* (display.rs handle_cmd and draw_pixel, lcd.rs draw_pixel).              *)
PaintedInOrder ==
  /\ focus = "display" =>
       /\ unit.drawing = (drv.pixels >= 0) /\ unit.region = drv.window
       /\ drv.pixels >= 0 => unit.at = CursorAt(drv.window, drv.pixels)
  /\ focus = "spi" /\ unit.dev.is = "lcd" /\ unit.dev.drawing => unit.dev.at = drv.pixels

(* The update events of TIM6 never come faster than its period, however    *)
(* irregular the polls are (tim6.rs poll: the time over is lost, so they   *)
(* come slower).                                                           *)
NeverFast ==
  focus = "tim6" /\ unit.t.cen =>
    drv.updates * 2 * (unit.t.psc + 1) * (unit.t.arr + 1) <= unit.now - drv.started

(* After SWSTART the samples are those of the sequence's channels in order, *)
(* over and over, at the voltage of the moment, as long as the sequence is *)
(* left alone (adc.rs next_conversion_value, dma_read_bytes).              *)
ScanAligned ==
  focus = "adc" /\ drv.scanned /\ drv.done # 0 => drv.sample = drv.wanted

(* A store of a byte or a halfword leaves the other bytes of the register   *)
(* as they were and is what is there; one through the bit-band alias sets  *)
(* its bit if it stores 1, leaves the bit as it was if it stores 0 and     *)
(* clears the seven others of its byte, not the other bytes (mod.rs write, *)
(* where v &= 1 << bit keeps the bit that was to be cleared).              *)
LanesPreserved == focus = "boot" => unit.regs.plain = drv.plain

(* Every address of a registered block reaches that block and no other     *)
(* (mod.rs get_peripheral over the slots of finish_registration).          *)
OneOwner ==
  focus = "boot" =>
    \A i \in DOMAIN unit.slots : \A addr \in unit.slots[i].start .. unit.slots[i].end - 1 :
      Reached(unit.slots, addr) = {i}

(* A store, of whatever size and to whatever register, reaches the block    *)
(* that owns the address, changes the bytes it names, or the byte of the   *)
(* bit it names, and no other, and is heard by the devices on the pins as  *)
(* the register has it but for a pin set and reset at once (mod.rs write,  *)
(* gpio.rs write).                                                         *)
StoresExact == LevelAgrees /\ LanesPreserved /\ OneOwner

(* CNT changes by ticks and by writes of CNT only: starting, stopping and   *)
(* the wrapping of either counter never make it jump (tim5.rs write_cr1,   *)
(* ticks_from_instructions); nor does CYCCNT (dwt.rs cyccnt).              *)
CntContinuous ==
  [][/\ DwtAdvance =>
          Cyccnt(unit'.offset, unit'.now) = (Cyccnt(unit.offset, unit.now) + 1) % W
     /\ focus = "tim5" =>
          LET was == Cnt(unit.t, unit.now)
              is == Cnt(unit'.t, unit'.now)
          IN \/ is = was
             \/ Tim5SetCnt
             \/ Tim5Advance /\ unit.t.cen /\ is = (was + 1) % W]_vars

(* No timer invents time, across wraps, stops, restarts and late polls     *)
(* (tim5.rs, tim6.rs, dwt.rs).                                             *)
TimeHonest == CntContinuous /\ []NeverFast

(* A compare match is latched by the first poll after CNT reaches CCR1, if  *)
(* it comes less than half the range late, and by none before or later     *)
(* than that, across the wrapping of CNT and of the instruction counter,   *)
(* stops and restarts; and it is pending if enabled (tim5.rs               *)
(* has_passed_ccr1, poll).  Later than half the range it reads as a match  *)
(* still to come, and is not latched before CNT comes round to it.         *)
Late == drv.left \in (1 - W) .. -(W \div 2)

MatchOnTime ==
  [][Tim5Poll /\ unit.t.armed =>
       /\ drv.left \in (1 - W \div 2) .. 0 => unit'.t.flag /\ (unit.t.ie => unit'.pending)
       /\ (drv.left > 0 \/ Late) /\ ~unit.t.flag => ~unit'.t.flag]_vars

(* Start-up code gets through every wait: for the clocks, for power, for    *)
(* the calendar, for the CAN controller and for I2C (rcc.rs, pwr.rs,       *)
(* rtc.rs, can.rs, i2c.rs).                                                *)
Boots == focus = "boot" ~> (focus = "boot" /\ drv.i2c = "done")
=============================================================================
