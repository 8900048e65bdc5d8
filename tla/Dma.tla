-------------------------------- MODULE Dma ---------------------------------
(***************************************************************************)
(* One DMA controller (src/src/peripherals/dma.rs): eight streams whose    *)
(* transfers are armed by a register write and performed later, by the     *)
(* poll of the block hook, once their deadline has passed.                 *)
(*                                                                         *)
(* The block hook is the only place where emulated time passes, so a step  *)
(* is either Block (time, and the poll when one is due) or one register    *)
(* access of the firmware between two hooks.  Instruction counts are kept  *)
(* relative to the last poll: `complete_at' holds deadline - last_now.     *)
(* `age', `done' and `irqs' record what the firmware asked for and was     *)
(* told.  What a transfer moves is not modelled, only when it happens,     *)
(* with which enable bit, and whether its length is zero.                  *)
(***************************************************************************)
EXTENDS Integers

CONSTANTS
  Streams,        (* streams the firmware uses                             *)
  Delay,          (* TRANSFER_COMPLETE_DELAY                               *)
  PumpInterval,   (* PUMP_EVENT_INST_INTERVAL + 1                          *)
  MaxBlock,       (* longest translation block, in halfwords               *)
  Directions,     (* transfer directions the firmware programs             *)
  Careful         (* streams whose driver never clears EN before the       *)
                  (* transfer is done, nor reads CR of a zero-length       *)
                  (* memory-to-peripheral stream                           *)

ASSUME DmaAssumption ==
  /\ Streams \subseteq 0..7
  /\ Delay \in Nat \ {0}
  /\ PumpInterval \in Nat \ {0}
  /\ MaxBlock \in Nat \ {0}
  /\ Directions \subseteq {"read", "write"}
  /\ Careful \subseteq Streams

VARIABLES
  cr,           \* CR of each stream: its EN, TCIE and DIR bits
  next_cr,      \* Stream.next_cr: the value the next read of CR installs, if any
  ndtr,         \* whether NDTR holds 0 or a length
  flags,        \* the bits set in LISR and HISR
  complete_at,  \* deadline of an armed transfer, less last_now
  since_poll,   \* NUM_INSTRUCTIONS - last_now
  since_pump,   \* NUM_INSTRUCTIONS - last_pump
  irqs,         \* streams whose interrupt the last step raised at the NVIC
  age,          \* halfwords since the firmware asked for a transfer it waits for
  done          \* transfers completed and not acknowledged by the firmware

streamVars == <<cr, next_cr, ndtr, complete_at>>
clockVars == <<since_poll, since_pump>>
vars == <<streamVars, flags, clockVars, irqs, age, done>>

None == -1
Cr == [en : BOOLEAN, tcie : BOOLEAN, dir : {"read", "write"}]
ResetCr == [en |-> FALSE, tcie |-> FALSE, dir |-> "read"]

\* The flag positions of the reference manual, as the firmware's driver has them.
ManualFlag ==
  [s \in 0..7 |->
     <<IF s < 4 THEN "LISR" ELSE "HISR",
       CASE s % 4 = 0 -> 5 [] s % 4 = 1 -> 11 [] s % 4 = 2 -> 21 [] OTHER -> 27>>]

\* tcif_bit with groups evenly spaced.
TcifBitEvenlySpaced(local) == local * 6 + 5

\* tcif_bit: groups of six bits, bits 12-15 reserved.
TcifBit(local) == (IF local < 2 THEN local * 6 ELSE 16 + (local - 2) * 6) + 5

\* The bit set_transfer_complete_flag sets for a stream.
TcifFlag(s) == <<IF s < 4 THEN "LISR" ELSE "HISR", TcifBit(s % 4)>>

\* Access::from_offset: the stream registers begin at 0x10 + 0x18 * s, and
\* offsets below 0x28 are taken for the controller's own.
ReachesStream(s, offset) == 16 + 24 * s + offset >= 40

MaxPollAge == PumpInterval + 2 * MaxBlock - 1

-----------------------------------------------------------------------------
Init ==
  /\ cr = [s \in Streams |-> ResetCr]
  /\ next_cr = [s \in Streams |-> {}]
  /\ ndtr = [s \in Streams |-> 0]
  /\ flags = {}
  /\ complete_at = [s \in Streams |-> None]
  /\ since_poll = 0 /\ since_pump = 0
  /\ irqs = {}
  /\ age = [s \in Streams |-> None]
  /\ done = {}

-----------------------------------------------------------------------------
\* A deadline test that lets an armed stream complete at any poll.
DueAtNextPoll(s, elapsed) == complete_at[s] # None

\* Armed streams whose deadline has come when `elapsed' halfwords have passed
\* since the last poll.
Due(s, elapsed) == complete_at[s] # None /\ complete_at[s] <= elapsed

\* Only the first of several due streams pends its interrupt.
RaisedFirstOnly(fire) == {s \in fire : cr[s].tcie /\ \A t \in fire : s <= t}

\* set_intr_pending for the streams with TCIE among those that complete.
Raised(fire) == {s \in fire : cr[s].tcie}

\* A finish_transfer that leaves the enable bit as it was.
FinishedStillEnabled(c) == c

\* finish_transfer on CR.
Finished(c) == [c EXCEPT !.en = FALSE]

\* advance_to: every due stream transfers with the registers it has now, is
\* disabled, sets its flag and, with TCIE, pends its interrupt.
AdvanceTo(elapsed) ==
  LET fire == {s \in Streams : Due(s, elapsed)}
  IN  /\ complete_at' = [s \in Streams |->
                           IF s \in fire \/ complete_at[s] = None THEN None
                           ELSE complete_at[s] - elapsed]
      /\ cr' = [s \in Streams |-> IF s \in fire THEN Finished(cr[s]) ELSE cr[s]]
      /\ ndtr' = [s \in Streams |-> IF s \in fire THEN 0 ELSE ndtr[s]]
      /\ next_cr' = [s \in Streams |-> IF s \in fire THEN {} ELSE next_cr[s]]
      /\ flags' = flags \cup {TcifFlag(s) : s \in fire}
      /\ irqs' = Raised(fire)
      /\ done' = done \cup fire
      /\ age' = [s \in Streams |-> IF s \in fire \/ age[s] = None THEN None
                                   ELSE age[s] + elapsed - since_poll]
      /\ since_poll' = 0

\* The block hook: time advances by the block, and the peripherals are polled
\* when the pump interval has passed since the block of the last poll began.
Block(size) ==
  IF since_pump >= PumpInterval
  THEN AdvanceTo(since_poll + size) /\ since_pump' = size
  ELSE /\ since_poll' = since_poll + size
       /\ since_pump' = since_pump + size
       /\ age' = [s \in Streams |-> IF age[s] = None THEN None ELSE age[s] + size]
       /\ irqs' = {}
       /\ UNCHANGED <<streamVars, flags, done>>

-----------------------------------------------------------------------------
(* Register accesses of the firmware.                                       *)

\* A transfer that completes in no time.
DeadlineAtOnce(s) == 1

\* Arming that keeps the deadline of a stream that is armed already.
DeadlineKept(s) == IF complete_at[s] = None THEN Delay ELSE complete_at[s]

\* The deadline a write of EN sets: a full delay after the last poll, not after
\* the write, whether or not the stream was armed.
DeadlineOnArm(s) == Delay

\* A write to CR.  Clearing EN leaves a deadline that was set in place.
WriteCr(s, v) ==
  /\ ~v.en /\ age[s] # None => s \notin Careful
  /\ v.dir \in Directions
  /\ IF ReachesStream(s, 0)
     THEN /\ cr' = [cr EXCEPT ![s] = v]
          /\ complete_at' = [complete_at EXCEPT ![s] = IF v.en THEN DeadlineOnArm(s) ELSE @]
     ELSE UNCHANGED <<cr, complete_at>>
  /\ age' = [age EXCEPT ![s] = IF v.en THEN 0 ELSE None]
  /\ irqs' = {}
  /\ UNCHANGED <<next_cr, ndtr, flags, clockVars, done>>

\* A read of CR returns it and installs next_cr; the enable bit of a zero-length
\* memory-to-peripheral stream is made to toggle from one read to the next.
ReadCr(s) ==
  LET c == IF next_cr[s] = {} THEN cr[s] ELSE CHOOSE v \in next_cr[s] : TRUE
      idle_write == c.dir = "write" /\ ndtr[s] = 0
  IN  /\ ReachesStream(s, 0)
      /\ idle_write => s \notin Careful
      /\ cr' = [cr EXCEPT ![s] = c]
      /\ next_cr' = [next_cr EXCEPT ![s] = IF idle_write THEN {[c EXCEPT !.en = ~@]} ELSE {}]
      /\ irqs' = {}
      /\ UNCHANGED <<ndtr, complete_at, flags, clockVars, age, done>>

\* NDTR, as zero or not.
WriteNdtr(s, n) ==
  /\ ReachesStream(s, 4)
  /\ ndtr' = [ndtr EXCEPT ![s] = n]
  /\ irqs' = {}
  /\ UNCHANGED <<cr, next_cr, complete_at, flags, clockVars, age, done>>

\* LIFCR and HIFCR: the driver acknowledges a stream at its manual position.
WriteIfcr(s) ==
  /\ flags' = flags \ {ManualFlag[s]}
  /\ done' = done \ {s}
  /\ irqs' = {}
  /\ UNCHANGED <<streamVars, clockVars, age>>

-----------------------------------------------------------------------------
Access ==
  \E s \in Streams :
    \/ \E v \in Cr : WriteCr(s, v)
    \/ ReadCr(s)
    \/ \E n \in {0, 1} : WriteNdtr(s, n)
    \/ WriteIfcr(s)

Time == \E size \in 1..MaxBlock : Block(size)

Next == Time \/ Access

Spec == Init /\ [][Next]_vars

-----------------------------------------------------------------------------
TypeOK ==
  /\ cr \in [Streams -> Cr]
  /\ next_cr \in [Streams -> {{}} \cup {{c} : c \in Cr}]
  /\ ndtr \in [Streams -> {0, 1}]
  /\ flags \subseteq {"LISR", "HISR"} \X (0..31)
  /\ complete_at \in [Streams -> 1..Delay \cup {None}]
  /\ since_poll \in Nat
  /\ since_pump \in 0..(PumpInterval + MaxBlock - 1)
  /\ irqs \subseteq Streams
  /\ age \in [Streams -> Nat \cup {None}]
  /\ done \subseteq Streams

\* A transfer the firmware started and neither saw completed nor aborted is
\* scheduled to complete: nothing loses the deadline (advance_to, write).
AskedIsArmed == \A s \in Streams : age[s] # None => complete_at[s] # None

\* A driver that does not abort transfers and never polls an idle stream can
\* trust EN: it reads 1 exactly while the transfer is still to come.
EnTruthful == \A s \in Careful : cr[s].en <=> complete_at[s] # None

\* The flags the driver looks for, at the manual's positions, are exactly the
\* transfers that completed and were not acknowledged: no stream's flag hides
\* or clears another's.
FlagsTruthful == \A s \in Streams : s \in done <=> ManualFlag[s] \in flags

\* While a transfer is waited for, the time waited and the deadline add up to the
\* delay, but for the part of a poll gap that had passed when it was armed
\* (DeadlineOnArm counts from the last poll, not from the write).
WaitBounds ==
  \A s \in Streams : age[s] # None =>
    /\ age[s] + complete_at[s] <= Delay + since_poll
    /\ Delay + since_poll <= age[s] + complete_at[s] + (PumpInterval + MaxBlock - 1)

\* A transfer that was asked for is scheduled, with a deadline the request accounts
\* for, whatever is written, read or completed meanwhile, on this stream or another
\* (write, advance_to).
Scheduled == AskedIsArmed /\ WaitBounds

\* A transfer completes neither sooner than the delay less one poll gap (the
\* deadline counts from the last poll, not from the write) nor later than the
\* delay plus one (advance_to).
CompletionStep ==
  \A s \in Streams : age[s] # None /\ s \in done' \ done =>
    LET waited == age[s] + since_pump'
    IN  Delay - (PumpInterval + MaxBlock - 1) <= waited /\ waited <= Delay + MaxPollAge
CompletionWindow == [][CompletionStep]_vars
=============================================================================
