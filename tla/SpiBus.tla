------------------------------- MODULE SpiBus ------------------------------
(***************************************************************************)
(* The two SPI masters, the hardware peripheral (src/peripherals/spi.rs)   *)
(* and the one bit-banged on GPIO pins (src/peripherals/sw_spi.rs), and    *)
(* the serial devices behind them: the SPI flash, the touch screen and the *)
(* LCD of src/ext_devices/.  Everything is an operator on a record; no     *)
(* device ever sees chip select, only the software bus does.               *)
(***************************************************************************)
EXTENDS Integers, Sequences

CONSTANTS FlashSize,   \* SpiFlashConfig::size, bytes
          JedecId,     \* the four bytes of jedec_id, most significant first
          Width,       \* of the framebuffers
          Height

----------------------------------------------------------------------------
(* SpiFlash *)
ReadData == 3          \* Command::ReadData
ReadJedec == 159       \* Command::ReadJEDECID
ReadDevice == 144      \* Command::ReadDeviceID
FlashCommands == {ReadData, ReadJedec, ReadDevice}

(* The flash file: every byte differs from the others. *)
Content(addr) == 64 + addr

NoCommand == [is |-> "none", args |-> <<>>]
NoReply == [is |-> "none"]
NewFlash == [is |-> "flash", reply |-> NoReply, cmd |-> NoCommand]

(* SpiFlash::read: the byte it returns, and the flash after it. *)
FlashByte(f) ==
  CASE f.reply.is = "data" -> IF f.reply.left = <<>> THEN 0 ELSE Head(f.reply.left)
    [] f.reply.is = "content" -> Content(f.reply.addr)
    [] OTHER -> 0

FlashRead(f) ==
  CASE f.reply.is = "data" /\ f.reply.left # <<>> ->
         [f EXCEPT !.reply.left = Tail(@)]
    [] f.reply.is = "content" ->
         [f EXCEPT !.reply.addr = (@ + 1) % FlashSize]
    [] OTHER -> f

(* try_process_command: the reply, none while arguments are missing. *)
Reply(cmd, args) ==
  CASE cmd = ReadJedec /\ args = <<>> -> [is |-> "data", left |-> JedecId]
    [] cmd = ReadDevice /\ args = <<>> ->
         [is |-> "data", left |-> <<0, 170, 187, 204>>]
    [] cmd = ReadData /\ Len(args) = 3 ->
         [is |-> "content",
          addr |-> (args[1] * 65536 + args[2] * 256 + args[3]) % FlashSize]
    [] OTHER -> NoReply

Processed(f, cmd, args) ==
  LET reply == Reply(cmd, args)
  IN IF reply.is = "none"
     THEN [f EXCEPT !.cmd = [is |-> "some", cmd |-> cmd, args |-> args]]
     ELSE [f EXCEPT !.reply = reply, !.cmd = NoCommand]

(* SpiFlash::write: an argument of the command being collected, a new      *)
(* command, or a byte to ignore.                                           *)
FlashWrite(f, byte) ==
  CASE f.cmd.is = "some" -> Processed(f, f.cmd.cmd, Append(f.cmd.args, byte))
    [] f.cmd.is = "none" /\ byte \in FlashCommands -> Processed(f, byte, <<>>)
    [] OTHER -> f

----------------------------------------------------------------------------
(* Touchscreen: pen is where the framebuffer's window is touched.          *)
Lifted == [down |-> FALSE, x |-> 0, y |-> 0]
FullScale == 4095
MeasureX == 208  \* start bit and operation 0b101; MeasureY is 0b001
MeasureY == 144
NewTouch == [is |-> "touch", reply |-> <<>>]

(* The measurement of one command, configured as the saturn board is: axes *)
(* swapped, then x flipped, then scaled down by two.                       *)
Measured(cmd, pen) ==
  (IF cmd = MeasureX THEN (pen.y * FullScale) \div Height
   ELSE FullScale - (pen.x * FullScale) \div Width) \div 2

(* Touchscreen::write: a byte with the start bit replaces the reply by the *)
(* measurement, most significant bits first, or by nothing when the pen is *)
(* up; any other byte is ignored.                                          *)
TouchReply(reply, cmd, pen) ==
  IF pen.down
  THEN LET v == Measured(cmd, pen) IN <<(v \div 16) % 256, (v * 16) % 256>>
  ELSE <<>>

TouchWrite(t, byte, pen) ==
  IF byte >= 128 THEN [t EXCEPT !.reply = TouchReply(@, byte, pen)] ELSE t

(* Sdl::process_event: a motion counts only while the button is down.      *)
PenMoved(pen, x, y) == IF pen.down THEN [pen EXCEPT !.x = x, !.y = y] ELSE pen

PenDown(x, y) == [down |-> TRUE, x |-> x, y |-> y]

----------------------------------------------------------------------------
(* Lcd: the first StartDrawing turns every later byte into two pixels; any *)
(* other command is never answered and collects arguments for ever.        *)
StartDrawing == 251
LcdCommands == {240, 241, 242, StartDrawing}
NewLcd == [is |-> "lcd", drawing |-> FALSE, collecting |-> FALSE, at |-> 0]

(* draw_pixel: the cursor as an index, row by row, wrapping to the origin. *)
NextPixel(at) ==
  LET x == at % Width  y == at \div Width
  IN IF x + 1 < Width THEN at + 1
     ELSE IF y + 1 < Height THEN (y + 1) * Width ELSE 0

LcdWrite(l, byte) ==
  CASE l.drawing -> [l EXCEPT !.at = NextPixel(NextPixel(@))]
    [] ~l.drawing /\ ~l.collecting /\ byte = StartDrawing ->
         [l EXCEPT !.drawing = TRUE, !.at = 0]
    [] ~l.drawing /\ ~l.collecting /\ byte \in LcdCommands \ {StartDrawing} ->
         [l EXCEPT !.collecting = TRUE]
    [] OTHER -> l

----------------------------------------------------------------------------
(* ExtDevice read and write of whichever device the port is configured for *)
(* (find_serial_device).                                                   *)
DeviceByte(d) ==
  CASE d.is = "flash" -> FlashByte(d)
    [] d.is = "touch" -> IF d.reply = <<>> THEN 0 ELSE Head(d.reply)
    [] OTHER -> 0

DeviceRead(d) ==
  CASE d.is = "flash" -> FlashRead(d)
    [] d.is = "touch" /\ d.reply # <<>> -> [d EXCEPT !.reply = Tail(@)]
    [] OTHER -> d

DeviceWrite(d, byte, pen) ==
  CASE d.is = "flash" -> FlashWrite(d, byte)
    [] d.is = "touch" -> TouchWrite(d, byte, pen)
    [] OTHER -> LcdWrite(d, byte)

----------------------------------------------------------------------------
(* Spi: wide is CR1.DFF; a store to DR reads the device before it writes.  *)
NewSpi == [wide |-> FALSE, rx |-> 0, ready |-> FALSE]

(* SR read: RXNE and TXE, set at every other read. *)
ReadSr(s) == [s EXCEPT !.ready = ~@]

ReadsDone(s, d) == IF s.wide THEN DeviceRead(DeviceRead(d)) ELSE DeviceRead(d)

Received(s, d) ==
  IF s.wide THEN DeviceByte(d) * 256 + DeviceByte(DeviceRead(d)) ELSE DeviceByte(d)

WriteDr(s, d, value, pen) ==
  LET before == ReadsDone(s, d)
      low == value % 256
  IN [spi |-> [s EXCEPT !.rx = Received(s, d)],
      dev |-> IF s.wide
              THEN DeviceWrite(DeviceWrite(before, value \div 256, pen), low, pen)
              ELSE DeviceWrite(before, low, pen)]

----------------------------------------------------------------------------
(* SoftwareSpi: the two shift registers and the last pin levels seen.      *)
NewBus == [out |-> 0, in |-> 0, bit |-> 0,
           cs |-> FALSE, clk |-> FALSE, mosi |-> FALSE, miso |-> FALSE]

(* A falling chip select that leaves the bit counter where it was. *)
WriteCsKeepsBit(s, level) ==
  IF s.cs /\ ~level THEN [NewBus EXCEPT !.cs = level, !.bit = s.bit]
  ELSE [s EXCEPT !.cs = level]

WriteCs(s, level) ==
  IF s.cs /\ ~level THEN [NewBus EXCEPT !.cs = level] ELSE [s EXCEPT !.cs = level]

WriteMosi(s, level) == IF s.cs THEN s ELSE [s EXCEPT !.mosi = level]

ReadMiso(s) == ~s.cs /\ s.miso

(* A rising clock shifts both registers; the eighth hands the byte to the  *)
(* device and takes its answer (xfer: write, then read).                   *)
ShiftedOut(s) == (2 * s.out + IF s.mosi THEN 1 ELSE 0) % 256

WriteClk(s, d, level) ==
  LET full == s.bit = 7
      after == DeviceWrite(d, ShiftedOut(s), Lifted)
      shifted == [s EXCEPT !.miso = s.in >= 128,
                           !.out = ShiftedOut(s),
                           !.bit = (@ + 1) % 8,
                           !.in = IF full THEN DeviceByte(after) ELSE (2 * @) % 256,
                           !.clk = TRUE]
  IN CASE ~s.cs /\ ~s.clk /\ level ->
            [bus |-> shifted, dev |-> IF full THEN DeviceRead(after) ELSE d]
       [] ~s.cs /\ (s.clk \/ ~level) -> [bus |-> [s EXCEPT !.clk = level], dev |-> d]
       [] OTHER -> [bus |-> s, dev |-> d]
=============================================================================
