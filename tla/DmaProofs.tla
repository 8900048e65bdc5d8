----------------------------- MODULE DmaProofs ------------------------------
(***************************************************************************)
(* The DMA controller, for any streams, delay, poll interval, block length *)
(* and drivers: types, flags at the manual's positions, what was asked for *)
(* stays scheduled, completions come in their window, and EN is reliable   *)
(* for a careful driver.                                                   *)
(*                                                                         *)
(* All of it rests on how the two clocks of the block hook relate          *)
(* (ClockInv): the poll is never further away than one interval and one    *)
(* block.                                                                  *)
(*                                                                         *)
(* At the end the controller is put on its board: the driver there is one  *)
(* of Dma's, and what completes is delivered to it through Nvic.           *)
(***************************************************************************)
EXTENDS Board, TLAPS

USE DmaAssumption

\* The longest time between two polls, as seen by a register access.
PollGap == PumpInterval + MaxBlock - 1

\* The pump counter runs ahead of the poll clock by the block that polled.
ClockInv == since_poll <= since_pump /\ since_pump <= since_poll + MaxBlock

DmaInv == TypeOK /\ ClockInv

-----------------------------------------------------------------------------
(* Flag positions.                                                          *)

\* tcif_bit is the manual's table.
LEMMA TcifIsManual == \A s \in 0..7 : TcifFlag(s) = ManualFlag[s]
<1> SUFFICES ASSUME NEW s \in 0..7 PROVE TcifFlag(s) = ManualFlag[s]
  OBVIOUS
<1> DEFINE place == CASE s % 4 = 0 -> 5 [] s % 4 = 1 -> 11 [] s % 4 = 2 -> 21 [] OTHER -> 27
<1>1. ManualFlag[s] = <<IF s < 4 THEN "LISR" ELSE "HISR", place>>
  BY DEF ManualFlag
<1>2. s % 4 \in {0, 1, 2, 3}
  OBVIOUS
<1>3. TcifBit(s % 4) = place
  BY <1>2 DEF TcifBit
<1> QED BY <1>1, <1>3 DEF TcifFlag

\* No two streams share a position, and all are bits of a register.
LEMMA ManualIsTable ==
  /\ \A s \in 0..7 : ManualFlag[s] \in {"LISR", "HISR"} \X (0..31)
  /\ \A s, t \in 0..7 : ManualFlag[s] = ManualFlag[t] => s = t
<1> DEFINE place(s) ==
      CASE s % 4 = 0 -> 5 [] s % 4 = 1 -> 11 [] s % 4 = 2 -> 21 [] OTHER -> 27
<1>1. \A s \in 0..7 : ManualFlag[s] = <<IF s < 4 THEN "LISR" ELSE "HISR", place(s)>>
  BY DEF ManualFlag
<1>2. \A s \in 0..7 : s % 4 = IF s < 4 THEN s ELSE s - 4
  OBVIOUS
<1>3. \A s \in 0..7 : place(s) \in 0..31
  OBVIOUS
<1>4. \A s, t \in 0..7 : place(s) = place(t) => s % 4 = t % 4
  BY <1>2
<1> HIDE DEF place
<1>5. \A s \in 0..7 : ManualFlag[s] \in {"LISR", "HISR"} \X (0..31)
  BY <1>1, <1>3
<1>6. ASSUME NEW s \in 0..7, NEW t \in 0..7, ManualFlag[s] = ManualFlag[t] PROVE s = t
  <2>1. (s < 4 <=> t < 4) /\ s % 4 = t % 4
    BY <1>1, <1>4, <1>6
  <2> QED BY <2>1, <1>2
<1> QED BY <1>5, <1>6

-----------------------------------------------------------------------------
(* Types, and the two clocks.                                               *)

LEMMA InitInv == Init => DmaInv
  BY DEF Init, DmaInv, TypeOK, ClockInv, Cr, ResetCr, None

LEMMA CrTyped == \A c \in Cr : Finished(c) \in Cr /\ [c EXCEPT !.en = ~@] \in Cr
  BY DEF Cr, Finished

LEMMA TimeInv == DmaInv /\ Time => DmaInv'
<1> SUFFICES ASSUME DmaInv, NEW size \in 1..MaxBlock, Block(size) PROVE DmaInv'
  BY DEF Time
<1> USE DEF DmaInv
<1>1. CASE since_pump >= PumpInterval
  <2> DEFINE elapsed == since_poll + size
             fire == {s \in Streams : Due(s, elapsed)}
  <2>0. AdvanceTo(elapsed) /\ since_pump' = size
    BY <1>1 DEF Block
  <2>1. elapsed \in Nat /\ elapsed >= size /\ size \in Nat
    BY DEF TypeOK
  <2>2. cr' \in [Streams -> Cr]
    BY <2>0, CrTyped DEF AdvanceTo, TypeOK
  <2>3. next_cr' \in [Streams -> {{}} \cup {{c} : c \in Cr}]
    BY <2>0 DEF AdvanceTo, TypeOK
  <2>4. ndtr' \in [Streams -> {0, 1}]
    BY <2>0 DEF AdvanceTo, TypeOK
  <2>5. flags' \subseteq {"LISR", "HISR"} \X (0..31)
    BY <2>0, TcifIsManual, ManualIsTable DEF AdvanceTo, TypeOK
  <2>6. complete_at' \in [Streams -> 1..Delay \cup {None}]
    <3>1. \A s \in Streams : s \notin fire /\ complete_at[s] # None =>
             complete_at[s] - elapsed \in 1..Delay
      BY <2>1 DEF TypeOK, Due, None
    <3> QED BY <2>0, <3>1 DEF AdvanceTo
  <2>7. age' \in [Streams -> Nat \cup {None}]
    <3>1. \A s \in Streams : age[s] # None => age[s] + elapsed - since_poll \in Nat
      BY <2>1 DEF TypeOK, None
    <3> QED BY <2>0, <3>1 DEF AdvanceTo
  <2>8. irqs' \subseteq Streams /\ done' \subseteq Streams
    BY <2>0 DEF AdvanceTo, Raised, TypeOK
  <2>9. since_poll' \in Nat /\ since_pump' \in 0..(PumpInterval + MaxBlock - 1) /\ ClockInv'
    BY <2>0 DEF AdvanceTo, ClockInv
  <2> QED BY <2>2, <2>3, <2>4, <2>5, <2>6, <2>7, <2>8, <2>9 DEF TypeOK
<1>2. CASE ~(since_pump >= PumpInterval)
  <2>1. /\ since_poll' = since_poll + size /\ since_pump' = since_pump + size
        /\ age' = [s \in Streams |-> IF age[s] = None THEN None ELSE age[s] + size]
        /\ irqs' = {} /\ UNCHANGED <<streamVars, flags, done>>
    BY <1>2 DEF Block
  <2>2. age' \in [Streams -> Nat \cup {None}]
    BY <2>1 DEF TypeOK
  <2>3. since_poll' \in Nat /\ since_pump' \in 0..(PumpInterval + MaxBlock - 1) /\ ClockInv'
    BY <1>2, <2>1 DEF TypeOK, ClockInv
  <2> QED BY <2>1, <2>2, <2>3 DEF TypeOK, streamVars
<1> QED BY <1>1, <1>2

LEMMA AccessInv == DmaInv /\ Access => DmaInv'
<1> SUFFICES ASSUME DmaInv, NEW s \in Streams,
                    \/ \E v \in Cr : WriteCr(s, v)
                    \/ ReadCr(s)
                    \/ \E n \in {0, 1} : WriteNdtr(s, n)
                    \/ WriteIfcr(s)
             PROVE  DmaInv'
  BY DEF Access
<1> USE DEF DmaInv, TypeOK, ClockInv, clockVars
<1>1. ASSUME NEW v \in Cr, WriteCr(s, v) PROVE DmaInv'
  BY <1>1 DEF WriteCr, DeadlineOnArm, None
<1>2. CASE ReadCr(s)
  <2> DEFINE c == IF next_cr[s] = {} THEN cr[s] ELSE CHOOSE v \in next_cr[s] : TRUE
  <2>1. c \in Cr
    <3>1. next_cr[s] = {} \/ \E v \in Cr : next_cr[s] = {v}
      OBVIOUS
    <3> QED BY <3>1
  <2> HIDE DEF c
  <2>2. [c EXCEPT !.en = ~@] \in Cr
    BY <2>1, CrTyped
  <2>3. cr' = [cr EXCEPT ![s] = c]
    BY <1>2 DEF ReadCr, c
  <2>4. next_cr' = [next_cr EXCEPT ![s] = {}] \/
        next_cr' = [next_cr EXCEPT ![s] = {[c EXCEPT !.en = ~@]}]
    BY <1>2 DEF ReadCr, c
  <2>5. next_cr' \in [Streams -> {{}} \cup {{d} : d \in Cr}]
    BY <2>2, <2>4
  <2> QED BY <1>2, <2>1, <2>3, <2>5 DEF ReadCr
<1>3. ASSUME NEW n \in {0, 1}, WriteNdtr(s, n) PROVE DmaInv'
  BY <1>3 DEF WriteNdtr
<1>4. CASE WriteIfcr(s)
  BY <1>4 DEF WriteIfcr, streamVars
<1> QED BY <1>1, <1>2, <1>3, <1>4

LEMMA DmaInvariant == Spec => []DmaInv
<1>1. DmaInv /\ UNCHANGED vars => DmaInv'
  BY DEF DmaInv, TypeOK, ClockInv, vars, streamVars, clockVars
<1>2. DmaInv /\ [Next]_vars => DmaInv'
  BY <1>1, TimeInv, AccessInv DEF Next
<1> QED BY <1>2, InitInv, PTL DEF Spec

\* Stream registers of numbers below 8 hold what they should, and LISR and HISR
\* nothing outside their 32 bits.
THEOREM TypeCorrect == Spec => []TypeOK
<1>1. DmaInv => TypeOK
  BY DEF DmaInv
<1> QED BY <1>1, DmaInvariant, PTL

-----------------------------------------------------------------------------
(* What a poll does, stream by stream.                                      *)

LEMMA PollStep ==
  ASSUME DmaInv, NEW size \in 1..MaxBlock, Block(size), NEW s \in Streams
  PROVE  \/ /\ since_pump >= PumpInterval
            /\ since_poll' = 0 /\ since_pump' = size
            /\ \/ /\ complete_at[s] # None /\ complete_at[s] <= since_poll + size
                  /\ complete_at'[s] = None /\ age'[s] = None /\ next_cr'[s] = {}
                  /\ cr'[s] = [cr[s] EXCEPT !.en = FALSE]
               \/ /\ complete_at[s] # None /\ complete_at[s] > since_poll + size
                  /\ complete_at'[s] = complete_at[s] - (since_poll + size)
                  /\ complete_at'[s] # None
                  /\ age'[s] = IF age[s] = None THEN None ELSE age[s] + size
                  /\ next_cr'[s] = next_cr[s] /\ cr'[s] = cr[s]
               \/ /\ complete_at[s] = None /\ complete_at'[s] = None
                  /\ age'[s] = IF age[s] = None THEN None ELSE age[s] + size
                  /\ next_cr'[s] = next_cr[s] /\ cr'[s] = cr[s]
         \/ /\ since_poll' = since_poll + size /\ since_pump' = since_pump + size
            /\ age'[s] = IF age[s] = None THEN None ELSE age[s] + size
            /\ UNCHANGED <<cr, next_cr, complete_at, done>>
<1> DEFINE elapsed == since_poll + size
           fire == {t \in Streams : Due(t, elapsed)}
<1>0. since_poll \in Nat /\ size \in Nat /\ (age[s] # None => age[s] \in Nat)
      /\ (complete_at[s] # None => complete_at[s] \in Nat)
  <2>1. /\ since_poll \in Nat
        /\ age \in [Streams -> Nat \cup {None}]
        /\ complete_at \in [Streams -> 1..Delay \cup {None}]
    BY DEF DmaInv, TypeOK
  <2>2. age[s] \in Nat \cup {None} /\ complete_at[s] \in 1..Delay \cup {None}
    BY <2>1, Zenon
  <2>3. size \in Nat /\ \A d \in 1..Delay : d \in Nat
    OBVIOUS
  <2> QED BY <2>1, <2>2, <2>3, Zenon
<1>1. CASE since_pump >= PumpInterval
  <2>1. AdvanceTo(elapsed) /\ since_pump' = size
    BY <1>1 DEF Block
  <2>2. since_poll' = 0
    BY <2>1 DEF AdvanceTo
  <2>3. complete_at'[s] = IF s \in fire \/ complete_at[s] = None THEN None
                          ELSE complete_at[s] - elapsed
    BY <2>1 DEF AdvanceTo
  <2>4. age'[s] = IF s \in fire \/ age[s] = None THEN None ELSE age[s] + elapsed - since_poll
    BY <2>1 DEF AdvanceTo
  <2>5. age[s] # None => age[s] + elapsed - since_poll = age[s] + size
    BY <1>0
  <2>6. cr'[s] = IF s \in fire THEN [cr[s] EXCEPT !.en = FALSE] ELSE cr[s]
    BY <2>1 DEF AdvanceTo, Finished
  <2>7. next_cr'[s] = IF s \in fire THEN {} ELSE next_cr[s]
    BY <2>1 DEF AdvanceTo
  <2>8. s \in fire <=> complete_at[s] # None /\ complete_at[s] <= since_poll + size
    BY DEF Due
  <2> HIDE DEF fire
  <2>9. complete_at[s] # None =>
          \/ complete_at[s] <= since_poll + size
          \/ /\ complete_at[s] > since_poll + size
             /\ complete_at[s] - (since_poll + size) # None
    BY <1>0 DEF None
  <2> QED BY <1>1, <2>1, <2>2, <2>3, <2>4, <2>5, <2>6, <2>7, <2>8, <2>9
<1>2. CASE ~(since_pump >= PumpInterval)
  BY <1>2 DEF Block, streamVars
<1> QED BY <1>1, <1>2

-----------------------------------------------------------------------------
(* Scheduling.                                                              *)


\* WaitBounds for the streams that are armed, which those whose CR cannot be
\* reached never are.
Waits ==
  \A s \in Streams :
    /\ ~ReachesStream(s, 0) => complete_at[s] = None
    /\ age[s] # None /\ complete_at[s] # None =>
         /\ age[s] + complete_at[s] <= Delay + since_poll
         /\ Delay + since_poll <= age[s] + complete_at[s] + PollGap

LEMMA WaitsNext == DmaInv /\ Waits /\ [Next]_vars => Waits'
<1> DEFINE WaitsFor(s) ==
      /\ ~ReachesStream(s, 0) => complete_at[s] = None
      /\ age[s] # None /\ complete_at[s] # None =>
           /\ age[s] + complete_at[s] <= Delay + since_poll
           /\ Delay + since_poll <= age[s] + complete_at[s] + PollGap
<1> SUFFICES ASSUME DmaInv, Waits, [Next]_vars, NEW s \in Streams PROVE WaitsFor(s)'
  BY DEF Waits, PollGap, ReachesStream, None
<1>0. /\ since_poll \in Nat /\ since_pump \in Nat /\ since_pump <= PollGap /\ PollGap \in Nat
      /\ since_poll <= since_pump
      /\ age[s] # None => age[s] \in Nat
      /\ complete_at[s] # None => complete_at[s] \in Nat
      /\ WaitsFor(s)
  BY DEF DmaInv, TypeOK, ClockInv, PollGap, Waits
<1> USE DEF PollGap, ReachesStream, None
<1>1. ASSUME NEW size \in 1..MaxBlock, Block(size) PROVE WaitsFor(s)'
  <2>1. complete_at[s] = None => complete_at'[s] = None
    BY <1>1, PollStep
  <2>2. ASSUME age'[s] # None, complete_at'[s] # None
        PROVE  /\ age[s] # None /\ complete_at[s] # None
               /\ age'[s] = age[s] + size
               /\ \/ since_poll' = 0 /\ complete_at'[s] = complete_at[s] - (since_poll + size)
                  \/ since_poll' = since_poll + size /\ complete_at'[s] = complete_at[s]
    BY <1>1, <2>2, PollStep
  <2> QED BY <1>0, <2>1, <2>2
<1>2. ASSUME UNCHANGED since_poll, age'[s] = age[s], complete_at'[s] = complete_at[s]
      PROVE  WaitsFor(s)'
  BY <1>0, <1>2
<1>3. ASSUME NEW t \in Streams, NEW v \in Cr, WriteCr(t, v) PROVE WaitsFor(s)'
  <2>1. CASE t = s
    <3>1. /\ age'[s] = IF v.en THEN 0 ELSE None
          /\ complete_at'[s] = IF ReachesStream(s, 0) /\ v.en THEN Delay ELSE complete_at[s]
          /\ since_poll' = since_poll
      BY <1>3, <2>1 DEF WriteCr, DmaInv, TypeOK, DeadlineOnArm, clockVars
    <3> QED BY <1>0, <3>1
  <2>2. CASE t # s
    BY <1>2, <1>3, <2>2 DEF WriteCr, clockVars, DmaInv, TypeOK
  <2> QED BY <2>1, <2>2
<1>4. ASSUME NEW t \in Streams, ReadCr(t) \/ (\E n \in {0, 1} : WriteNdtr(t, n)) \/ WriteIfcr(t)
      PROVE  WaitsFor(s)'
  BY <1>2, <1>4 DEF ReadCr, WriteNdtr, WriteIfcr, clockVars, streamVars
<1>5. CASE UNCHANGED vars
  BY <1>2, <1>5 DEF vars, clockVars, streamVars
<1> QED BY <1>1, <1>3, <1>4, <1>5 DEF Next, Time, Access

LEMMA WaitsInvariant == Spec => [](DmaInv /\ Waits)
<1>1. Init => Waits
  BY DEF Init, Waits
<1> QED BY <1>1, WaitsNext, DmaInvariant, PTL DEF Spec

LEMMA ArmedNext ==
  ASSUME 0 \notin Streams
  PROVE  DmaInv /\ AskedIsArmed /\ [Next]_vars => AskedIsArmed'
<1> SUFFICES ASSUME DmaInv, AskedIsArmed, [Next]_vars, NEW s \in Streams, age'[s] # None
             PROVE  complete_at'[s] # None
  BY DEF AskedIsArmed
<1>0. ReachesStream(s, 0)
  BY DEF ReachesStream
<1>1. ASSUME NEW size \in 1..MaxBlock, Block(size) PROVE complete_at'[s] # None
  <2>1. age'[s] # None => age[s] # None
    BY <1>1, PollStep
  <2> QED BY <1>1, <2>1, PollStep DEF AskedIsArmed
<1>2. ASSUME NEW t \in Streams, NEW v \in Cr, WriteCr(t, v) PROVE complete_at'[s] # None
  BY <1>0, <1>2 DEF WriteCr, DeadlineOnArm, DmaInv, TypeOK, AskedIsArmed, None
<1>3. ASSUME NEW t \in Streams, ReadCr(t) \/ (\E n \in {0, 1} : WriteNdtr(t, n)) \/ WriteIfcr(t)
      PROVE  complete_at'[s] # None
  BY <1>3 DEF ReadCr, WriteNdtr, WriteIfcr, streamVars, AskedIsArmed
<1>4. CASE UNCHANGED vars
  BY <1>4 DEF vars, streamVars, AskedIsArmed
<1> QED BY <1>1, <1>2, <1>3, <1>4 DEF Next, Time, Access

\* A transfer that was asked for stays scheduled, with a deadline that accounts for
\* the request, whatever happens on its stream or another (write, advance_to): for
\* every board, delay and poll interval, unless stream 0 is used, whose CR the code
\* does not reach.
THEOREM TransfersScheduled ==
  ASSUME 0 \notin Streams
  PROVE  Spec => []Scheduled
<1>1. Init => AskedIsArmed
  BY DEF Init, AskedIsArmed
<1>2. DmaInv /\ AskedIsArmed /\ [Next]_vars => AskedIsArmed'
  BY ArmedNext
<1>3. Waits /\ AskedIsArmed => Scheduled
  BY DEF Waits, AskedIsArmed, Scheduled, WaitBounds, PollGap
<1> QED BY <1>1, <1>2, <1>3, WaitsInvariant, PTL DEF Spec

\* The window of completions, for any driver of any streams (advance_to): not sooner
\* than the delay less one poll gap, not later than the delay plus one.
THEOREM CompletesInWindow == Spec => CompletionWindow
<1>1. DmaInv /\ Waits /\ [Next]_vars => [CompletionStep]_vars
  <2> SUFFICES ASSUME DmaInv, Waits, Next, NEW s \in Streams, age[s] # None, s \in done' \ done
               PROVE  /\ Delay - PollGap <= age[s] + since_pump'
                      /\ age[s] + since_pump' <= Delay + MaxPollAge
    BY DEF CompletionStep, PollGap
  <2>1. PICK size \in 1..MaxBlock : Block(size)
    BY DEF Next, Time, Access, WriteCr, ReadCr, WriteNdtr, WriteIfcr
  <2>2. AdvanceTo(since_poll + size) /\ since_pump' = size
    BY <2>1 DEF Block
  <2>3. Due(s, since_poll + size)
    BY <2>2 DEF AdvanceTo
  <2>4. complete_at[s] # None /\ complete_at[s] <= since_poll + size
    BY <2>3 DEF Due
  <2>5. /\ since_poll \in Nat /\ since_pump \in Nat /\ since_poll <= since_pump
        /\ since_pump <= PollGap /\ age[s] \in Nat /\ complete_at[s] \in 1..Delay
    BY <2>4 DEF DmaInv, TypeOK, ClockInv, PollGap, None
  <2>6. /\ age[s] + complete_at[s] <= Delay + since_poll
        /\ Delay + since_poll <= age[s] + complete_at[s] + PollGap
    BY <2>4 DEF Waits
  <2> QED BY <2>2, <2>4, <2>5, <2>6 DEF PollGap, MaxPollAge
<1> QED BY <1>1, WaitsInvariant, PTL DEF Spec, CompletionWindow

-----------------------------------------------------------------------------
(* Flags and the enable bit.                                                *)

\* The flags of some streams are among those of others if the streams are.
LEMMA FlagsOfStreams ==
  ASSUME NEW fire \in SUBSET (0..7), NEW s \in 0..7
  PROVE  s \in fire <=> ManualFlag[s] \in {TcifFlag(t) : t \in fire}
<1>1. \A t \in fire : t \in 0..7 /\ TcifFlag(t) = ManualFlag[t]
  BY TcifIsManual
<1>2. \A t \in fire : ManualFlag[s] = ManualFlag[t] => s = t
  BY <1>1, ManualIsTable
<1> QED BY <1>1, <1>2

LEMMA FlagsNext == DmaInv /\ FlagsTruthful /\ [Next]_vars => FlagsTruthful'
<1> SUFFICES ASSUME DmaInv, FlagsTruthful, [Next]_vars PROVE FlagsTruthful'
  OBVIOUS
<1> USE DEF FlagsTruthful
<1>0. Streams \subseteq 0..7
  OBVIOUS
<1>1. ASSUME NEW size \in 1..MaxBlock, Block(size) PROVE FlagsTruthful'
  <2> DEFINE fire == {s \in Streams : Due(s, since_poll + size)}
  <2>1. CASE since_pump >= PumpInterval
    <3>1. flags' = flags \cup {TcifFlag(s) : s \in fire} /\ done' = done \cup fire
      BY <1>1, <2>1 DEF Block, AdvanceTo
    <3> HIDE DEF fire
    <3>2. fire \subseteq Streams
      BY DEF fire
    <3>3. \A s \in Streams : s \in fire <=> ManualFlag[s] \in {TcifFlag(t) : t \in fire}
      BY <1>0, <3>2, FlagsOfStreams
    <3> QED BY <3>1, <3>3
  <2>2. CASE ~(since_pump >= PumpInterval)
    BY <1>1, <2>2 DEF Block
  <2> QED BY <2>1, <2>2
<1>2. ASSUME NEW s \in Streams, WriteIfcr(s) PROVE FlagsTruthful'
  BY <1>0, <1>2, ManualIsTable DEF WriteIfcr
<1>3. ASSUME NEW s \in Streams,
             ReadCr(s) \/ (\E v \in Cr : WriteCr(s, v)) \/ (\E n \in {0, 1} : WriteNdtr(s, n))
      PROVE  FlagsTruthful'
  BY <1>3 DEF ReadCr, WriteCr, WriteNdtr
<1>4. CASE UNCHANGED vars
  BY <1>4 DEF vars
<1> QED BY <1>1, <1>2, <1>3, <1>4 DEF Next, Time, Access

\* The flags at the manual's positions are exactly the completions that were not
\* acknowledged, for any streams: no flag hides or clears another's (tcif_bit,
\* set_transfer_complete_flag, write).
THEOREM FlagsCorrect == Spec => []FlagsTruthful
<1>1. Init => FlagsTruthful
  BY DEF Init, FlagsTruthful
<1> QED BY <1>1, FlagsNext, DmaInvariant, PTL DEF Spec

\* What a careful driver's stream is like: never read while idle, so no CR is saved
\* for a later read; armed, enabled and waited for are the same.
CarefulInv ==
  \A s \in Careful :
    /\ next_cr[s] = {}
    /\ cr[s].en <=> complete_at[s] # None
    /\ age[s] # None <=> complete_at[s] # None

LEMMA CarefulNext ==
  ASSUME 0 \notin Careful
  PROVE  DmaInv /\ CarefulInv /\ [Next]_vars => CarefulInv'
<1> SUFFICES ASSUME DmaInv, CarefulInv, [Next]_vars, NEW s \in Careful
             PROVE  /\ next_cr'[s] = {}
                    /\ cr'[s].en <=> complete_at'[s] # None
                    /\ age'[s] # None <=> complete_at'[s] # None
  BY DEF CarefulInv
<1> DEFINE Goal == /\ next_cr'[s] = {}
                   /\ cr'[s].en <=> complete_at'[s] # None
                   /\ age'[s] # None <=> complete_at'[s] # None
<1>0. /\ s \in Streams /\ ReachesStream(s, 0) /\ cr[s] \in Cr
      /\ age[s] # None => age[s] \in Nat
      /\ complete_at[s] # None => complete_at[s] \in Nat
      /\ since_poll \in Nat
  BY DEF ReachesStream, DmaInv, TypeOK
<1>1. ASSUME NEW size \in 1..MaxBlock, Block(size) PROVE Goal
  <2>1. [cr[s] EXCEPT !.en = FALSE].en = FALSE
    BY <1>0 DEF Cr
  <2>2. next_cr[s] = {} /\ (cr[s].en <=> complete_at[s] # None)
        /\ (age[s] # None <=> complete_at[s] # None)
    BY DEF CarefulInv
  <2>3. age[s] # None => age[s] + size # None
    BY <1>0 DEF None
  <2> QED BY <1>0, <1>1, <2>1, <2>2, <2>3, PollStep
<1>2. ASSUME UNCHANGED <<next_cr, complete_at, age>>, cr'[s] = cr[s] PROVE Goal
  BY <1>2 DEF CarefulInv
<1>3. ASSUME NEW t \in Streams, NEW v \in Cr, WriteCr(t, v) PROVE Goal
  <2>1. CASE t = s
    <3>1. /\ cr'[s] = v /\ next_cr'[s] = {}
          /\ complete_at'[s] = IF v.en THEN Delay ELSE complete_at[s]
          /\ age'[s] = IF v.en THEN 0 ELSE None
      BY <1>0, <1>3, <2>1 DEF WriteCr, DeadlineOnArm, DmaInv, TypeOK, CarefulInv
    <3>2. ~v.en => complete_at[s] = None
      BY <1>3, <2>1 DEF WriteCr, CarefulInv
    <3> QED BY <3>1, <3>2 DEF None
  <2>2. CASE t # s
    BY <1>0, <1>3, <2>2 DEF WriteCr, DmaInv, TypeOK, CarefulInv
  <2> QED BY <2>1, <2>2
<1>4. ASSUME NEW t \in Streams, ReadCr(t) PROVE Goal
  <2>1. CASE t = s
    <3>1. next_cr[s] = {}
      BY DEF CarefulInv
    <3>2. cr' = [cr EXCEPT ![s] = cr[s]] /\ next_cr' = [next_cr EXCEPT ![s] = {}]
          /\ UNCHANGED <<complete_at, age>>
      BY <1>4, <2>1, <3>1 DEF ReadCr
    <3> QED BY <3>1, <3>2, <1>0 DEF DmaInv, TypeOK, CarefulInv
  <2>2. CASE t # s
    BY <1>0, <1>4, <2>2 DEF ReadCr, DmaInv, TypeOK, CarefulInv
  <2> QED BY <2>1, <2>2
<1>5. ASSUME NEW t \in Streams, (\E n \in {0, 1} : WriteNdtr(t, n)) \/ WriteIfcr(t) PROVE Goal
  BY <1>2, <1>5 DEF WriteNdtr, WriteIfcr, streamVars
<1>6. CASE UNCHANGED vars
  BY <1>2, <1>6 DEF vars, streamVars
<1> QED BY <1>1, <1>3, <1>4, <1>5, <1>6 DEF Next, Time, Access

\* A driver that neither aborts a transfer nor reads an idle stream can trust EN, on
\* every stream whose CR the code reaches: it is set exactly while the transfer is to
\* come (finish_transfer, write, read).
THEOREM EnReliable ==
  ASSUME 0 \notin Careful
  PROVE  Spec => []EnTruthful
<1>1. Init => CarefulInv
  <2> SUFFICES ASSUME Init, NEW s \in Careful
               PROVE  /\ next_cr[s] = {}
                      /\ cr[s].en <=> complete_at[s] # None
                      /\ age[s] # None <=> complete_at[s] # None
    BY DEF CarefulInv
  <2>1. s \in Streams
    OBVIOUS
  <2>2. cr[s] = ResetCr /\ ResetCr.en = FALSE
    BY <2>1 DEF Init, ResetCr
  <2>3. next_cr[s] = {} /\ complete_at[s] = None /\ age[s] = None
    BY <2>1 DEF Init
  <2> QED BY <2>2, <2>3
<1>2. DmaInv /\ CarefulInv /\ [Next]_vars => CarefulInv'
  BY CarefulNext
<1>3. CarefulInv => EnTruthful
  BY DEF CarefulInv, EnTruthful
<1> QED BY <1>1, <1>2, <1>3, DmaInvariant, PTL DEF Spec

-----------------------------------------------------------------------------
(* The controller on its board: Nvic delivers what it raises to the driver  *)
(* of Board, whose steps are the controller's between two block hooks.      *)

\* The driver of Board is a careful one: its steps are steps of the controller, so
\* that everything above holds of the streams of the board (dma.rs write, poll).
THEOREM BoardDrives == BoardSpec => Spec
<1>1. BoardInit => Init
  BY DEF BoardInit
<1>2. [BoardNext]_boardVars => [Next]_vars
  <2>1. Hook => Time
    BY DEF Hook, Time
  <2>2. Start \in Cr
    BY DEF Start, Cr
  <2>3. ThreadBlock => [Next]_vars
    BY <2>2 DEF ThreadBlock, Next, Access
  <2>4. \A s \in Streams : HandlerBlock(s) => [Next]_vars
    BY <2>2 DEF HandlerBlock, Next, Access
  <2>5. \A s \in Streams : HandlerReturn(s) => [Next]_vars
    BY DEF HandlerReturn
  <2>6. UNCHANGED boardVars => UNCHANGED vars
    BY DEF boardVars
  <2> QED BY <2>1, <2>3, <2>4, <2>5, <2>6 DEF BoardNext, Code, Next
<1> QED BY <1>1, <1>2, PTL DEF BoardSpec, Spec

\* The interrupts the controller raises are told apart by stream_irq.
LEMMA IrqsApart == \A s, t \in Streams : Irq(s) = Irq(t) => s = t
  BY DEF Irq, StreamIrq, N!IRQ_OFFSET

\* What delivery rests on.  A transfer that is armed will raise its interrupt; at most
\* one handler is live, with the busy flag up for as long; and a completion that is not
\* acknowledged is pending, or its handler has yet to execute its first block.
Interrupts ==
  /\ cr \in [Streams -> Cr] /\ complete_at \in [Streams -> Int] /\ since_poll \in Int
  /\ \A s \in Streams : complete_at[s] # None => cr[s].tcie

OneHandler ==
  \/ handlers = <<>> /\ frames = <<>> /\ ~in_interrupt
  \/ /\ \E e : handlers = <<e>>
     /\ \E f : frames = <<f>>
     /\ in_interrupt

Announced ==
  \A s \in Streams : s \in done => Irq(s) \in pending \/ (Live(s) /\ blocks = 0)

BoardInv == Interrupts /\ OneHandler /\ Announced

\* A dispatch, by either hook: it happens only to a CPU that is not busy, and takes
\* from what is pending the one exception whose handler it enters.
Ran(busy, hs, fr, raised) ==
  \/ /\ pending \cup raised \subseteq pending'
     /\ handlers' = hs /\ frames' = fr /\ in_interrupt' = busy
  \/ /\ ~busy
     /\ \E e : /\ (pending \ {e}) \cup raised \subseteq pending'
               /\ handlers' = Append(hs, e)
               /\ \E f : frames' = Append(fr, f)
     /\ in_interrupt'

LEMMA RunPendingRan ==
  ASSUME NEW busy, NEW active, NEW c, NEW hs, NEW fr, NEW stack, NEW n, NEW raised,
         N!RunPending(busy, active, c, hs, fr, stack, n, raised)
  PROVE  Ran(busy, hs, fr, raised)
<1> DEFINE pd == pending \cup (IF N!SysTickDue(n) THEN {N!SYSTICK} ELSE {})
           ready == IF N!Deferred(busy, c) THEN {} ELSE N!Dispatchable(pd)
<1>1. \/ pending' = pd \cup raised /\ in_interrupt' = busy /\ handlers' = hs /\ frames' = fr
      \/ \E e \in ready : /\ pending' = (pd \ {e}) \cup raised
                          /\ N!RunInterrupt(e, c, hs, fr, stack)
  BY DEF N!RunPending
<1>2. pending \subseteq pd /\ (busy => ready = {})
  BY DEF N!Deferred
<1> HIDE DEF pd, ready
<1>3. CASE pending' = pd \cup raised /\ in_interrupt' = busy /\ handlers' = hs /\ frames' = fr
  BY <1>2, <1>3 DEF Ran
<1>4. ASSUME NEW e \in ready, pending' = (pd \ {e}) \cup raised,
             N!RunInterrupt(e, c, hs, fr, stack)
      PROVE  Ran(busy, hs, fr, raised)
  <2>1. in_interrupt' /\ handlers' = Append(hs, e) /\ \E f : frames' = Append(fr, f)
    BY <1>4 DEF N!RunInterrupt
  <2>2. ~busy /\ (pending \ {e}) \cup raised \subseteq pending'
    BY <1>2, <1>4
  <2> QED BY <2>1, <2>2 DEF Ran
<1> QED BY <1>1, <1>3, <1>4

\* One handler, the same or a new one, after a block hook; none or a new one after a
\* return.
LEMMA RanFromOne ==
  ASSUME NEW raised, OneHandler, Ran(in_interrupt, handlers, frames, raised)
  PROVE  /\ OneHandler'
         /\ \/ handlers' = handlers /\ pending \cup raised \subseteq pending'
            \/ \E e : handlers = <<>> /\ handlers' = <<e>>
                      /\ (pending \ {e}) \cup raised \subseteq pending'
<1>1. CASE handlers' = handlers /\ frames' = frames /\ in_interrupt' = in_interrupt
           /\ pending \cup raised \subseteq pending'
  BY <1>1 DEF OneHandler
<1>2. ASSUME ~in_interrupt, in_interrupt',
             NEW e, handlers' = Append(handlers, e), NEW f, frames' = Append(frames, f),
             (pending \ {e}) \cup raised \subseteq pending'
      PROVE  OneHandler' /\ handlers = <<>> /\ handlers' = <<e>>
  <2>1. handlers = <<>> /\ frames = <<>>
    BY <1>2 DEF OneHandler
  <2>2. handlers' = <<e>> /\ frames' = <<f>>
    BY <1>2, <2>1
  <2> QED BY <1>2, <2>1, <2>2 DEF OneHandler
<1> QED BY <1>1, <1>2 DEF Ran

LEMMA RanFromNone ==
  ASSUME NEW raised, Ran(FALSE, <<>>, <<>>, raised)
  PROVE  /\ OneHandler'
         /\ \/ handlers' = <<>> /\ pending \subseteq pending'
            \/ \E e : handlers' = <<e>> /\ pending \ {e} \subseteq pending'
<1>1. CASE handlers' = <<>> /\ frames' = <<>> /\ in_interrupt' = FALSE
           /\ pending \cup raised \subseteq pending'
  BY <1>1 DEF OneHandler
<1>2. ASSUME in_interrupt',
             NEW e, handlers' = Append(<<>>, e), NEW f, frames' = Append(<<>>, f),
             (pending \ {e}) \cup raised \subseteq pending'
      PROVE  OneHandler' /\ handlers' = <<e>>
  <2>1. handlers' = <<e>> /\ frames' = <<f>>
    BY <1>2
  <2> QED BY <1>2, <2>1 DEF OneHandler
<1> QED BY <1>1, <1>2 DEF Ran

\* A live handler is the only one.
LEMMA LiveAlone ==
  ASSUME NEW e, handlers = <<e>>, NEW s \in Streams
  PROVE  Live(s) <=> e = Irq(s)
  BY DEF Live

LEMMA HookInv ==
  ASSUME BoardInv, Hook
  PROVE  BoardInv'
<1>1. PICK size \in 1..MaxBlock :
        Block(size) /\ N!BlockHook(size, {Irq(s) : s \in irqs'})
  BY DEF Hook
<1> DEFINE raised == {Irq(s) : s \in irqs'}
<1>2. Interrupts' /\ done' \subseteq done \cup irqs'
  <2> DEFINE fire == {s \in Streams : Due(s, since_poll + size)}
  <2>1. CASE since_pump >= PumpInterval
    <3>1. /\ complete_at' = [s \in Streams |->
                             IF s \in fire \/ complete_at[s] = None THEN None
                             ELSE complete_at[s] - (since_poll + size)]
          /\ cr' = [s \in Streams |-> IF s \in fire THEN Finished(cr[s]) ELSE cr[s]]
          /\ irqs' = {s \in fire : cr[s].tcie} /\ done' = done \cup fire
      BY <1>1, <2>1 DEF Block, AdvanceTo, Raised
    <3>2. \A s \in fire : s \in Streams /\ complete_at[s] # None
      BY DEF Due
    <3> HIDE DEF fire
    <3>3. \A s \in Streams : complete_at'[s] # None => complete_at[s] # None /\ cr'[s] = cr[s]
      BY <3>1
    <3>4. irqs' = fire
      BY <3>1, <3>2 DEF BoardInv, Interrupts
    <3>5. cr' \in [Streams -> Cr]
      BY <3>1, CrTyped DEF BoardInv, Interrupts
    <3>6. complete_at' \in [Streams -> Int] /\ since_poll' \in Int
      <4>1. since_poll + size \in Int /\ since_poll' = 0
        BY <1>1, <2>1 DEF BoardInv, Interrupts, Block, AdvanceTo
      <4> QED BY <3>1, <4>1 DEF BoardInv, Interrupts, None
    <3> QED BY <3>1, <3>3, <3>4, <3>5, <3>6 DEF BoardInv, Interrupts
  <2>2. CASE ~(since_pump >= PumpInterval)
    <3>1. UNCHANGED <<streamVars, done>> /\ since_poll' = since_poll + size
      BY <1>1, <2>2 DEF Block
    <3> QED BY <3>1 DEF BoardInv, Interrupts, streamVars
  <2> QED BY <2>1, <2>2
<1> HIDE DEF raised
<1>3. Ran(in_interrupt, handlers, frames, raised)
  <2>1. CASE since_check >= 1
    <3>1. PICK n : N!RunPending(in_interrupt, active_exception_number, cpu,
                                  handlers, frames, sp, n, raised)
      BY <1>1, <2>1 DEF N!BlockHook, raised
    <3> QED BY <3>1, RunPendingRan
  <2>2. CASE ~(since_check >= 1)
    BY <1>1, <2>2 DEF N!BlockHook, N!cpuVars, Ran, raised
  <2> QED BY <2>1, <2>2
<1>4. /\ OneHandler'
      /\ \/ handlers' = handlers /\ pending \cup raised \subseteq pending'
         \/ \E e : handlers = <<>> /\ handlers' = <<e>>
                   /\ (pending \ {e}) \cup raised \subseteq pending'
  BY <1>3, RanFromOne DEF BoardInv
<1>5. blocks' = IF handlers' # handlers THEN 0 ELSE blocks
  BY DEF Hook
<1>6. ASSUME NEW s \in Streams, s \in done' PROVE (Irq(s) \in pending \/ (Live(s) /\ blocks = 0))'
  <2>1. CASE s \in irqs'
    BY <1>4, <2>1 DEF raised
  <2>2. CASE s \in done /\ handlers' = handlers /\ pending \subseteq pending'
    BY <1>5, <2>2 DEF BoardInv, Announced, Live
  <2>3. ASSUME s \in done, NEW e, handlers = <<>>, handlers' = <<e>>, pending \ {e} \subseteq pending'
        PROVE  (Irq(s) \in pending \/ (Live(s) /\ blocks = 0))'
    <3>1. Irq(s) \in pending
      BY <2>3 DEF BoardInv, Announced, Live
    <3>2. blocks' = 0
      BY <1>5, <2>3
    <3>3. Live(s)' <=> e = Irq(s)
      BY <2>3 DEF Live
    <3> QED BY <2>3, <3>1, <3>2, <3>3
  <2> QED BY <1>2, <1>4, <1>6, <2>1, <2>2, <2>3
<1> QED BY <1>2, <1>4, <1>6 DEF BoardInv, Announced

\* Starting a transfer asks for its interrupt.
LEMMA StartInv ==
  ASSUME Interrupts, NEW s \in Streams, WriteCr(s, Start)
  PROVE  Interrupts' /\ done' = done
<1>1. /\ \/ cr' = [cr EXCEPT ![s] = Start]
            /\ \A t \in Streams : t # s => complete_at'[t] = complete_at[t]
         \/ UNCHANGED <<cr, complete_at>>
      /\ done' = done
  BY DEF WriteCr, Interrupts
<1>2. cr \in [Streams -> Cr] /\ Start.tcie
  BY DEF Interrupts, Start
<1>3. cr' \in [Streams -> Cr] /\ complete_at' \in [Streams -> Int] /\ since_poll' \in Int
  <2>1. since_poll' = since_poll
    BY DEF WriteCr, clockVars
  <2>2. Start \in Cr /\ Delay \in Int
    BY DEF Start, Cr
  <2>3. cr' = cr \/ cr' = [cr EXCEPT ![s] = Start]
    BY DEF WriteCr
  <2>4. complete_at' = complete_at \/ complete_at' = [complete_at EXCEPT ![s] = Delay]
    BY DEF WriteCr, DeadlineOnArm, Start
  <2> QED BY <2>1, <2>2, <2>3, <2>4 DEF Interrupts
<1> QED BY <1>1, <1>2, <1>3 DEF Interrupts

LEMMA CodeInv ==
  ASSUME BoardInv, Code
  PROVE  BoardInv'
<1>1. UNCHANGED vars => UNCHANGED <<cr, complete_at, since_poll, done>>
  BY DEF vars, streamVars, clockVars
<1>2. N!PlainBlock => UNCHANGED <<pending, handlers, frames, in_interrupt>>
  BY DEF N!PlainBlock, N!nvicVars, N!cpuVars
<1>3. CASE ThreadBlock
  <2>1. UNCHANGED <<pending, handlers, frames, in_interrupt, blocks>>
    BY <1>2, <1>3 DEF ThreadBlock, N!EnableIrq, N!cpuVars
  <2>2. Interrupts' /\ done' = done
    BY <1>1, <1>3, StartInv DEF ThreadBlock, BoardInv, Interrupts
  <2> QED BY <2>1, <2>2 DEF BoardInv, OneHandler, Announced, Live
<1>4. ASSUME NEW s \in Streams, HandlerBlock(s) PROVE BoardInv'
  <2>1. UNCHANGED <<pending, handlers, frames, in_interrupt>> /\ Live(s) /\ blocks' = blocks + 1
    BY <1>2, <1>4 DEF HandlerBlock
  <2>2. OneHandler'
    BY <2>1 DEF BoardInv, OneHandler
  <2>3. CASE blocks = 0
    <3>1. UNCHANGED <<cr, complete_at, since_poll>> /\ done' = done \ {s}
      BY <1>4, <2>3 DEF HandlerBlock, WriteIfcr, streamVars, clockVars
    <3>2. \A t \in Streams : Live(t) => t = s
      BY <2>1, IrqsApart DEF Live
    <3> QED BY <2>1, <2>2, <3>1, <3>2 DEF BoardInv, Interrupts, Announced
  <2>4. CASE blocks # 0
    <3>1. Interrupts' /\ done' = done
      BY <1>1, <1>4, <2>4, StartInv DEF HandlerBlock, BoardInv, Interrupts
    <3> QED BY <2>1, <2>2, <2>4, <3>1 DEF BoardInv, Announced
  <2> QED BY <2>3, <2>4
<1>5. ASSUME NEW s \in Streams, HandlerReturn(s) PROVE BoardInv'
  <2>1. handlers # <<>> /\ blocks > 0 /\ blocks' = 0
        /\ UNCHANGED <<cr, complete_at, since_poll, done>>
    BY <1>1, <1>5 DEF HandlerReturn, Live
  <2>2. PICK e, f : handlers = <<e>> /\ frames = <<f>>
    BY <2>1 DEF BoardInv, OneHandler
  <2>3. Len(frames) = 1 /\ SubSeq(handlers, 1, 0) = <<>> /\ SubSeq(frames, 1, 0) = <<>>
    BY <2>2
  <2>4. PICK c, stack : N!RunPending(FALSE, 0, c, <<>>, <<>>, stack, since_systick, {})
    <3>1. PICK c, stack : N!RunPending(N!BusyAfterReturn, N!ActiveAfterReturn, c,
                            SubSeq(handlers, 1, Len(frames) - 1),
                            SubSeq(frames, 1, Len(frames) - 1), stack, since_systick, {})
      BY <1>5 DEF HandlerReturn, N!ExceptionReturn
    <3>2. Len(frames) - 1 = 0
      BY <2>3
    <3> QED BY <2>3, <3>1, <3>2 DEF N!BusyAfterReturn, N!ActiveAfterReturn
  <2>5. Ran(FALSE, <<>>, <<>>, {})
    BY <2>4, RunPendingRan
  <2>6. /\ OneHandler'
        /\ \/ handlers' = <<>> /\ pending \subseteq pending'
           \/ \E d : handlers' = <<d>> /\ pending \ {d} \subseteq pending'
    BY <2>5, RanFromNone
  <2>7. ASSUME NEW t \in Streams, t \in done' PROVE (Irq(t) \in pending \/ (Live(t) /\ blocks = 0))'
    <3>1. Irq(t) \in pending
      BY <2>1, <2>7 DEF BoardInv, Announced
    <3>2. ASSUME NEW d, handlers' = <<d>>, pending \ {d} \subseteq pending'
          PROVE  (Irq(t) \in pending \/ (Live(t) /\ blocks = 0))'
      <4>1. Live(t)' <=> d = Irq(t)
        BY <3>2 DEF Live
      <4> QED BY <2>1, <3>1, <3>2, <4>1
    <3> QED BY <2>6, <3>1, <3>2
  <2> QED BY <2>1, <2>6, <2>7 DEF BoardInv, Interrupts, Announced
<1> QED BY <1>3, <1>4, <1>5 DEF Code

\* A completion is never lost between the poll that sets the flag and the driver, for
\* any streams, delays and handler lengths: until the handler acknowledges it, its
\* interrupt is pending or the handler is live (advance_to, set_intr_pending,
\* run_pending_interrupts, return_from_interrupt).
THEOREM CompletionsDelivered == BoardSpec => []CompletionDelivered
<1>1. BoardInit => BoardInv
  <2>1. BoardInit => Init /\ handlers = <<>> /\ frames = <<>> /\ ~in_interrupt
    BY DEF BoardInit, N!Init
  <2>2. ResetCr \in Cr
    BY DEF ResetCr, Cr
  <2>3. Init => Interrupts /\ done = {}
    <3> SUFFICES ASSUME Init PROVE Interrupts /\ done = {}
      OBVIOUS
    <3>1. cr \in [Streams -> Cr] /\ since_poll = 0 /\ done = {}
      BY <2>2 DEF Init
    <3>2. complete_at = [s \in Streams |-> None] /\ None \in Int
      BY DEF Init, None
    <3> QED BY <3>1, <3>2 DEF Interrupts
  <2> QED BY <2>1, <2>3 DEF BoardInv, OneHandler, Announced
<1>2. BoardInv /\ [BoardNext]_boardVars => BoardInv'
  <2>1. BoardInv /\ UNCHANGED boardVars => BoardInv'
    BY DEF boardVars, nvicVars, vars, streamVars, clockVars, BoardInv, Interrupts, OneHandler, Announced, Live
  <2> QED BY <2>1, HookInv, CodeInv DEF BoardNext
<1>3. BoardInv => CompletionDelivered
  BY DEF BoardInv, Announced, CompletionDelivered
<1> QED BY <1>1, <1>2, <1>3, PTL DEF BoardSpec
=============================================================================
