---------------------------- MODULE FsmcDisplay ----------------------------
(***************************************************************************)
(* The display on an FSMC bank (src/peripherals/fsmc.rs,                   *)
(* src/ext_devices/display.rs): an address bit tells commands from data; a *)
(* command collects its data words until it is complete, and after Draw    *)
(* every data word is a pixel of the draw region.                          *)
(***************************************************************************)
EXTENDS Integers, Sequences

CONSTANTS Columns, Rows,  \* of the framebuffer
          IdCommand,      \* a command ReplyConfig answers
          IdReply         \* with these words

SetHoriRegion == 42
SetVertRegion == 43
Draw == 44

NoCmd == [is |-> "none", cmd |-> 0, args |-> <<>>]

NewDisplay ==
  [region |-> [left |-> 0, right |-> Columns - 1, top |-> 0, bottom |-> Rows - 1],
   cmd |-> NoCmd, reply |-> <<>>, drawing |-> FALSE,
   at |-> [x |-> 0, y |-> 0], painted |-> 0]

Clamped(n, limit) == IF n < limit THEN n ELSE limit - 1

(* get_framebuffer_pixel_index *)
PixelIndex(at) == Clamped(at.x, Columns) + Clamped(at.y, Rows) * Columns

Advanced(at, r) ==
  IF at.x + 1 <= r.right THEN [at EXCEPT !.x = @ + 1]
  ELSE [x |-> r.left, y |-> IF at.y + 1 > r.bottom THEN r.top ELSE at.y + 1]

(* draw_pixel: painted is the index of the pixel, its colour left out.     *)
DrawPixel(d) ==
  [d EXCEPT !.painted = PixelIndex(d.at), !.at = Advanced(@, d.region)]

(* handle_cmd: a complete command is consumed, an incomplete one put back. *)
HandleCmd(d) ==
  LET a == d.cmd.args
      whole(cmd, n) == d.cmd.is = "some" /\ d.cmd.cmd = cmd /\ Len(a) = n
  IN CASE whole(SetHoriRegion, 4) ->
            [d EXCEPT !.cmd = NoCmd, !.region.left = a[1] * 256 + a[2],
                      !.region.right = a[3] * 256 + a[4]]
       [] whole(SetVertRegion, 4) ->
            [d EXCEPT !.cmd = NoCmd, !.region.top = a[1] * 256 + a[2],
                      !.region.bottom = a[3] * 256 + a[4]]
       [] whole(Draw, 0) ->
            [d EXCEPT !.cmd = NoCmd, !.drawing = TRUE,
                      !.at = [x |-> d.region.left, y |-> d.region.top]]
       [] d.cmd.is = "some" /\ d.cmd.cmd = IdCommand ->
            [d EXCEPT !.cmd = NoCmd, !.reply = IdReply]
       [] OTHER -> d

(* A command that does not end the drawing under way. *)
StartedDrawing(d, cmd) ==
  [d EXCEPT !.cmd = [is |-> "some", cmd |-> cmd, args |-> <<>>]]

(* finish_cmd, then the new command. *)
Started(d, cmd) ==
  [d EXCEPT !.drawing = FALSE, !.cmd = [is |-> "some", cmd |-> cmd, args |-> <<>>]]

WriteCommand(d, cmd) == HandleCmd(Started(d, cmd))

WriteData(d, word) ==
  HandleCmd(CASE d.drawing -> DrawPixel(d)
              [] ~d.drawing /\ d.cmd.is = "some" ->
                   [d EXCEPT !.cmd.args = Append(@, word)]
              [] OTHER -> d)

(* Display::read in data mode. *)
ReadReply(d) == IF d.reply = <<>> THEN d ELSE [d EXCEPT !.reply = Tail(@)]
=============================================================================
