------------------------- MODULE PeripheralsProofs --------------------------
(***************************************************************************)
(* The timers, the cycle counter, the converters, the display and the LCD, *)
(* for any width of the counters, any prescaler, clock, voltages and size  *)
(* of the panels: time is neither invented nor skipped, a compare match    *)
(* comes with the first poll after it, a scan stays in step with its       *)
(* sequence, and pixels go where the firmware has set the window.          *)
(*                                                                         *)
(* Each group of Peripherals has an invariant of its own, since no action  *)
(* of one group is taken in another (OneGroup).                            *)
(*                                                                         *)
(* The second half is about the USB controller under its driver            *)
(* (UsbStack), for endpoints, words, packets and replies of any size and   *)
(* for any number of hosts: no transfer waits for an interrupt that never  *)
(* comes, and what reaches the host is the bytes of whole replies.         *)
(***************************************************************************)
EXTENDS Peripherals, UsbStack, SequenceTheorems, TLAPS

USE SizesAssumption

-----------------------------------------------------------------------------
(* Counters of any width.                                                   *)

LEMMA QuotientRemainder ==
  ASSUME NEW w \in Nat \ {0}, NEW a \in Int
  PROVE  a % w \in 0..w - 1 /\ a \div w \in Int /\ a = w * (a \div w) + (a % w)
  OBVIOUS

LEMMA RemainderUnique ==
  ASSUME NEW w \in Nat \ {0}, NEW k \in Int, NEW r \in 0..w - 1
  PROVE  (w * k + r) % w = r /\ (w * k + r) \div w = k
  OBVIOUS

\* Whole turns do not show.
LEMMA WholeTurns ==
  ASSUME NEW w \in Nat \ {0}, NEW a \in Int, NEW k \in Int
  PROVE  (a + w * k) % w = a % w
<1> DEFINE q == a \div w
           r == a % w
<1>1. q \in Int /\ r \in 0..w - 1 /\ a = w * q + r
  BY QuotientRemainder
<1> HIDE DEF q, r
<1>2. a + w * k = w * (q + k) + r /\ q + k \in Int
  BY <1>1
<1>3. (w * (q + k) + r) % w = r
  BY <1>1, <1>2, RemainderUnique
<1> QED BY <1>2, <1>3 DEF r

\* A term may be taken modulo w, or left as it is.
LEMMA ReducedTerm ==
  ASSUME NEW w \in Nat \ {0}, NEW a \in Int, NEW b \in Int
  PROVE  ((a % w) + b) % w = (a + b) % w /\ (b - (a % w)) % w = (b - a) % w
<1> DEFINE q == a \div w
           r == a % w
<1>1. q \in Int /\ r \in Int /\ a = w * q + r
  BY QuotientRemainder
<1> HIDE DEF q, r
<1>2. /\ a + b = (r + b) + w * q /\ r + b \in Int
      /\ b - r = (b - a) + w * q /\ b - a \in Int
  BY <1>1
<1>3. ((r + b) + w * q) % w = (r + b) % w /\ ((b - a) + w * q) % w = (b - a) % w
  BY <1>1, <1>2, WholeTurns
<1> QED BY <1>2, <1>3 DEF r

LEMMA SmallRemainder ==
  ASSUME NEW w \in Nat \ {0}, NEW a \in 0..w - 1
  PROVE  a % w = a
  OBVIOUS

\* Dividing a count that goes up by one.
LEMMA CountedNext ==
  ASSUME NEW w \in Nat \ {0}, NEW n \in Nat
  PROVE  /\ n \div w \in Nat /\ n % w \in 0..w - 1
         /\ (n + 1) % w = IF n % w = w - 1 THEN 0 ELSE (n % w) + 1
         /\ (n + 1) \div w = IF n % w = w - 1 THEN (n \div w) + 1 ELSE n \div w
<1> DEFINE q == n \div w
           r == n % w
<1>1. q \in Nat /\ r \in 0..w - 1 /\ n = w * q + r
  OBVIOUS
<1> HIDE DEF q, r
<1>2. CASE r = w - 1
  <2>1. n + 1 = w * (q + 1) + 0 /\ q + 1 \in Int /\ 0 \in 0..w - 1
    BY <1>1, <1>2
  <2>2. (w * (q + 1) + 0) % w = 0 /\ (w * (q + 1) + 0) \div w = q + 1
    BY <2>1, RemainderUnique
  <2> QED BY <1>1, <1>2, <2>1, <2>2 DEF q, r
<1>3. CASE r # w - 1
  <2>1. n + 1 = w * q + (r + 1) /\ r + 1 \in 0..w - 1 /\ q \in Int
    BY <1>1, <1>3
  <2>2. (w * q + (r + 1)) % w = r + 1 /\ (w * q + (r + 1)) \div w = q
    BY <2>1, RemainderUnique
  <2> QED BY <1>1, <1>3, <2>1, <2>2 DEF q, r
<1> QED BY <1>2, <1>3

LEMMA NextQuotient ==
  ASSUME NEW w \in Nat \ {0}, NEW n \in Nat
  PROVE  /\ (n + 1) \div w = IF (n + 1) % w = 0 THEN (n \div w) + 1 ELSE n \div w
         /\ n \div w \in Nat
<1> DEFINE q == n \div w
           r == n % w
           q2 == (n + 1) \div w
           r2 == (n + 1) % w
<1>1. /\ q \in Nat /\ r \in 0..w - 1
      /\ r2 = IF r = w - 1 THEN 0 ELSE r + 1
      /\ q2 = IF r = w - 1 THEN q + 1 ELSE q
  BY CountedNext
<1> HIDE DEF q, r, q2, r2
<1>2. q2 = (IF r2 = 0 THEN q + 1 ELSE q) /\ q \in Nat
  BY <1>1
<1> QED BY <1>2 DEF q, q2, r2

-----------------------------------------------------------------------------
(* The groups.                                                              *)

\* An action of one group is not taken in another, and the group stays the same.
LEMMA OneGroup ==
  /\ PinsNext => focus = "pins" /\ focus' = focus
  /\ SpiNext => focus = "spi" /\ focus' = focus
  /\ DisplayNext => focus = "display" /\ focus' = focus
  /\ Tim5Next => focus = "tim5" /\ focus' = focus
  /\ DwtNext => focus = "dwt" /\ focus' = focus
  /\ Tim6Next => focus = "tim6" /\ focus' = focus
  /\ AdcNext => focus = "adc" /\ focus' = focus
  /\ BootNext => focus = "boot" /\ focus' = focus
<1>1. PinsNext => focus = "pins" /\ focus' = focus
  BY Zenon DEF PinsNext, Select, PutBit, ClockBit, SampleBit, Abandon, Blink, Clash
<1>2. SpiNext => focus = "spi" /\ focus' = focus
  BY Zenon DEF SpiNext, SpiStart, SpiWrite, SpiWait, SpiRead, PenEvent
<1>3. DisplayNext => focus = "display" /\ focus' = focus
  BY Zenon DEF DisplayNext, DisplayCommand, DisplayData, DisplayRead
<1>4. Tim5Next => focus = "tim5" /\ focus' = focus
  BY Zenon DEF Tim5Next, Tim5Advance, Tim5Enable, Tim5SetCnt, Tim5Arm, Tim5Registers, Tim5Handled,
               Tim5Poll
<1>5. DwtNext => focus = "dwt" /\ focus' = focus
  BY Zenon DEF DwtNext, DwtAdvance, DwtSet
<1>6. Tim6Next => focus = "tim6" /\ focus' = focus
  BY Zenon DEF Tim6Next, Tim6Advance, Tim6Configure, Tim6Enable, Tim6Restart, Tim6Ack, Tim6Poll
<1>7. AdcNext => focus = "adc" /\ focus' = focus
  BY Zenon DEF AdcNext, AdcStart, AdcConfigure, AdcFeed, AdcClear, AdcSample
<1>8. BootNext => focus = "boot" /\ focus' = focus
  BY Zenon DEF BootNext, BootProgress, Boot, BootAsk, InBoot, BootSee, I2cPoll, StorePlain, StoreBit,
               StoreTim11, Console
<1> QED BY <1>1, <1>2, <1>3, <1>4, <1>5, <1>6, <1>7, <1>8

LEMMA GroupSteps ==
  ASSUME [Next]_vars
  PROVE  /\ focus' = focus
         /\ focus = "spi" => SpiNext \/ UNCHANGED vars
         /\ focus = "display" => DisplayNext \/ UNCHANGED vars
         /\ focus = "tim5" => Tim5Next \/ UNCHANGED vars
         /\ focus = "dwt" => DwtNext \/ UNCHANGED vars
         /\ focus = "tim6" => Tim6Next \/ UNCHANGED vars
         /\ focus = "adc" => AdcNext \/ UNCHANGED vars
<1>1. UNCHANGED vars => focus' = focus
  BY DEF vars
<1> QED BY <1>1, OneGroup DEF Next

LEMMA GroupInits ==
  /\ Init /\ focus = "spi" => SpiInit
  /\ Init /\ focus = "display" => DisplayInit
  /\ Init /\ focus = "tim5" => Tim5Init
  /\ Init /\ focus = "dwt" => DwtInit
  /\ Init /\ focus = "tim6" => Tim6Init
  /\ Init /\ focus = "adc" => AdcInit
  BY DEF Init

-----------------------------------------------------------------------------
(* TIM5.                                                                    *)

Tim5 == [cen : BOOLEAN, ie : BOOLEAN, flag : BOOLEAN, ccr1 : 0..W - 1, armed : BOOLEAN,
         offset : 0..W - 1, held : 0..W - 1]

LEMMA TicksProperties ==
  ASSUME NEW now \in Nat
  PROVE  /\ Ticks(now) \in 0..W - 1
         /\ Ticks(now + 1) = IF (now + 1) % PerTick = 0 THEN (Ticks(now) + 1) % W ELSE Ticks(now)
<1> DEFINE n == now \div PerTick
<1>1. n \in Nat /\ (now + 1) \div PerTick = IF (now + 1) % PerTick = 0 THEN n + 1 ELSE n
  BY NextQuotient
<1> HIDE DEF n
<1>2. Ticks(now) = n % W /\ n % W \in 0..W - 1
  BY <1>1, QuotientRemainder DEF Ticks, n
<1>3. ((n % W) + 1) % W = (n + 1) % W
  <2>1. n \in Int /\ 1 \in Int
    BY <1>1
  <2> QED BY <2>1, ReducedTerm
<1>4. Ticks(now + 1) = (IF (now + 1) % PerTick = 0 THEN n + 1 ELSE n) % W
  BY <1>1 DEF Ticks
<1> QED BY <1>2, <1>3, <1>4

LEMMA CntProperties ==
  ASSUME NEW t \in Tim5, NEW now \in Nat
  PROVE  Cnt(t, now) \in 0..W - 1
<1>1. Ticks(now) + t.offset \in Int
  BY TicksProperties DEF Tim5
<1>2. (Ticks(now) + t.offset) % W \in 0..W - 1
  BY <1>1, QuotientRemainder
<1> QED BY <1>2 DEF Cnt, Tim5

\* A tick moves a running counter by one.
LEMMA CntTicks ==
  ASSUME NEW t \in Tim5, NEW now \in Nat
  PROVE  Cnt(t, now + 1) = IF t.cen /\ (now + 1) % PerTick = 0 THEN (Cnt(t, now) + 1) % W
                           ELSE Cnt(t, now)
<1>1. Ticks(now) \in Int /\ t.offset \in Int
  BY TicksProperties DEF Tim5
<1> DEFINE k == Ticks(now)
           o == t.offset
<1>2. /\ (((k + 1) % W) + o) % W = ((k + 1) + o) % W
      /\ (((k + o) % W) + 1) % W = ((k + o) + 1) % W
      /\ (k + 1) + o = (k + o) + 1
  <2> HIDE DEF k, o
  <2>1. k + 1 \in Int /\ k + o \in Int /\ o \in Int /\ 1 \in Int /\ (k + 1) + o = (k + o) + 1
    BY <1>1 DEF k, o
  <2> QED BY <2>1, ReducedTerm
<1> QED BY <1>2, TicksProperties DEF Cnt

\* Starting and stopping keep the count (write_cr1).
LEMMA WriteCr1Keeps ==
  ASSUME NEW t \in Tim5, NEW cen \in BOOLEAN, NEW now \in Nat
  PROVE  /\ WriteCr1(t, cen, now) \in Tim5
         /\ Cnt(WriteCr1(t, cen, now), now) = Cnt(t, now)
         /\ WriteCr1(t, cen, now).ccr1 = t.ccr1
<1>1. /\ Ticks(now) \in 0..W - 1 /\ t.held \in 0..W - 1 /\ Cnt(t, now) \in 0..W - 1
      /\ Ticks(now) \in Int /\ t.held - Ticks(now) \in Int
  BY TicksProperties, CntProperties DEF Tim5
<1> DEFINE o == (t.held - Ticks(now)) % W
           c == Cnt(t, now)
<1>2. o \in 0..W - 1
  BY <1>1, QuotientRemainder
<1>3. (Ticks(now) + o) % W = t.held
  <2>1. (o + Ticks(now)) % W = ((t.held - Ticks(now)) + Ticks(now)) % W
    BY <1>1, ReducedTerm
  <2>2. (t.held - Ticks(now)) + Ticks(now) = t.held /\ o + Ticks(now) = Ticks(now) + o
    BY <1>1, <1>2
  <2> QED BY <1>1, <2>1, <2>2, SmallRemainder
<1> HIDE DEF o, c
<1>4. CASE cen /\ ~t.cen
  <2>1. WriteCr1(t, cen, now) = [t EXCEPT !.cen = TRUE, !.offset = o]
    BY <1>4 DEF WriteCr1, o
  <2> QED BY <1>2, <1>3, <1>4, <2>1 DEF Tim5, Cnt
<1>5. CASE ~cen /\ t.cen
  <2>1. WriteCr1(t, cen, now) = [t EXCEPT !.cen = FALSE, !.held = c]
    BY <1>5 DEF WriteCr1, c
  <2>2. c \in 0..W - 1
    BY <1>1 DEF c
  <2>3. WriteCr1(t, cen, now) \in Tim5 /\ WriteCr1(t, cen, now).ccr1 = t.ccr1
    BY <2>1, <2>2 DEF Tim5
  <2>4. ~WriteCr1(t, cen, now).cen /\ WriteCr1(t, cen, now).held = c
    BY <2>1 DEF Tim5
  <2> QED BY <2>3, <2>4 DEF Cnt, c
<1>6. CASE ~(cen /\ ~t.cen) /\ ~(~cen /\ t.cen)
  <2>1. WriteCr1(t, cen, now) = t
    BY <1>6 DEF WriteCr1
  <2> QED BY <2>1
<1> QED BY <1>4, <1>5, <1>6

\* A write of CNT is what is read afterwards, running or stopped.
LEMMA WriteCntSets ==
  ASSUME NEW t \in Tim5, NEW value \in 0..W - 1, NEW now \in Nat
  PROVE  /\ WriteCnt(t, value, now) \in Tim5
         /\ Cnt(WriteCnt(t, value, now), now) = value
         /\ WriteCnt(t, value, now).ccr1 = t.ccr1
<1>1. Ticks(now) \in 0..W - 1 /\ Ticks(now) \in Int /\ value - Ticks(now) \in Int
  BY TicksProperties
<1> DEFINE o == (value - Ticks(now)) % W
<1>2. o \in 0..W - 1
  BY <1>1, QuotientRemainder
<1>3. (Ticks(now) + o) % W = value
  <2>1. (o + Ticks(now)) % W = ((value - Ticks(now)) + Ticks(now)) % W
    BY <1>1, ReducedTerm
  <2>2. (value - Ticks(now)) + Ticks(now) = value /\ o + Ticks(now) = Ticks(now) + o
    BY <1>1, <1>2
  <2> QED BY <1>1, <2>1, <2>2, SmallRemainder
<1> HIDE DEF o
<1>4. CASE t.cen
  <2>1. WriteCnt(t, value, now) = [t EXCEPT !.offset = o]
    BY <1>4 DEF WriteCnt, o
  <2> QED BY <1>2, <1>3, <1>4, <2>1 DEF Tim5, Cnt
<1>5. CASE ~t.cen
  <2>1. WriteCnt(t, value, now) = [t EXCEPT !.held = value]
    BY <1>5 DEF WriteCnt
  <2> QED BY <1>5, <2>1 DEF Tim5, Cnt
<1> QED BY <1>4, <1>5

\* A poll latches a match and leaves the counter alone.
LEMMA PollKeeps ==
  ASSUME NEW t \in Tim5, NEW now \in Nat
  PROVE  /\ Poll5(t, now) \in Tim5
         /\ Cnt(Poll5(t, now), now) = Cnt(t, now)
         /\ Poll5(t, now).ccr1 = t.ccr1 /\ Poll5(t, now).ie = t.ie
         /\ Poll5(t, now).flag <=> t.flag \/ (t.armed /\ HasPassedCcr1(t, now))
<1> DEFINE f == t.flag \/ (t.armed /\ HasPassedCcr1(t, now))
<1>1. f \in BOOLEAN /\ Poll5(t, now) = [t EXCEPT !.flag = f]
  BY Zenon DEF Poll5
<1>2. f <=> t.flag \/ (t.armed /\ HasPassedCcr1(t, now))
  OBVIOUS
<1> HIDE DEF f
<1>3. /\ Poll5(t, now) \in Tim5 /\ Poll5(t, now).flag = f
      /\ Poll5(t, now).ccr1 = t.ccr1 /\ Poll5(t, now).ie = t.ie
      /\ Poll5(t, now).cen = t.cen /\ Poll5(t, now).offset = t.offset
      /\ Poll5(t, now).held = t.held
  BY <1>1 DEF Tim5
<1> QED BY <1>2, <1>3 DEF Cnt

HalfRange == W \div 2

LEMMA Halves == HalfRange \in Nat /\ W = 2 * HalfRange
<1>1. HalfRange \in Int /\ W = 2 * HalfRange + (W % 2) /\ W % 2 = 0
  BY QuotientRemainder DEF HalfRange
<1> QED BY <1>1

\* A difference of two counts as a signed number.
LEMMA SignedDifference ==
  ASSUME NEW n \in Int
  PROVE  /\ Signed(n) \in Int /\ -HalfRange <= Signed(n) /\ Signed(n) < HalfRange
         /\ (n - Signed(n)) % W = 0
<1> DEFINE q == n \div W
           r == n % W
<1>1. q \in Int /\ r \in 0..W - 1 /\ n = W * q + r
  BY QuotientRemainder
<1>2. Signed(n) = IF r < HalfRange THEN r ELSE r - W
  BY DEF Signed, HalfRange
<1> HIDE DEF q, r
<1>3. Signed(n) \in Int /\ -HalfRange <= Signed(n) /\ Signed(n) < HalfRange
  BY <1>1, <1>2, Halves
<1>4. PICK k \in Int : n - Signed(n) = W * k + 0
  <2>1. r < HalfRange => n - Signed(n) = W * q + 0
    BY <1>1, <1>2
  <2>2. ~(r < HalfRange) => n - Signed(n) = W * (q + 1) + 0
    BY <1>1, <1>2
  <2>3. q \in Int /\ q + 1 \in Int
    BY <1>1
  <2> DEFINE m == n - Signed(n)
  <2> HIDE DEF m
  <2>4. m = W * q + 0 \/ m = W * (q + 1) + 0
    BY <2>1, <2>2 DEF m
  <2>5. \E k \in Int : m = W * k + 0
    BY <2>3, <2>4
  <2> QED BY <2>5 DEF m
<1>5. (W * k + 0) % W = 0
  BY RemainderUnique
<1> QED BY <1>3, <1>4, <1>5

\* left says how far the counter is from CCR1.
OnCourse(t, now, left) == ((Cnt(t, now) + left) - t.ccr1) % W = 0

LEMMA PassedWhenDue ==
  ASSUME NEW t \in Tim5, NEW now \in Nat, NEW left \in Int,
         -HalfRange < left, left <= HalfRange, OnCourse(t, now, left)
  PROVE  HasPassedCcr1(t, now) <=> left <= 0
<1> DEFINE d == Cnt(t, now) - t.ccr1
           k == (d + left) \div W
<1>1. d \in Int /\ (Cnt(t, now) + left) - t.ccr1 = d + left
  BY CntProperties DEF Tim5
<1>2. d + left \in Int /\ (d + left) % W = 0
  BY <1>1 DEF OnCourse
<1>3. k \in Int /\ d + left = W * k + 0
  BY <1>2, QuotientRemainder
<1>4. HasPassedCcr1(t, now) <=> d % W < HalfRange
  BY DEF HasPassedCcr1, HalfRange
<1> HIDE DEF d, k
<1>5. CASE left <= 0
  <2>1. d = W * k + (-left) /\ -left \in 0..W - 1 /\ -left < HalfRange
    BY <1>1, <1>3, <1>5, Halves
  <2>2. (W * k + (-left)) % W = -left
    BY <1>3, <2>1, RemainderUnique
  <2> QED BY <1>4, <1>5, <2>1, <2>2
<1>6. CASE left > 0
  <2>1. d = W * (k - 1) + (W - left) /\ W - left \in 0..W - 1 /\ ~(W - left < HalfRange)
        /\ k - 1 \in Int
    BY <1>1, <1>3, <1>6, Halves
  <2>2. (W * (k - 1) + (W - left)) % W = W - left
    BY <2>1, RemainderUnique
  <2> QED BY <1>4, <1>6, <2>1, <2>2
<1> QED BY <1>5, <1>6

\* More than half the range late it reads as still to come.
LEMMA NotPassedWhenLate ==
  ASSUME NEW t \in Tim5, NEW now \in Nat, NEW left \in Int,
         -W < left, left <= -HalfRange, OnCourse(t, now, left)
  PROVE  ~HasPassedCcr1(t, now)
<1> DEFINE d == Cnt(t, now) - t.ccr1
           k == (d + left) \div W
<1>1. d \in Int /\ (Cnt(t, now) + left) - t.ccr1 = d + left
  BY CntProperties DEF Tim5
<1>2. d + left \in Int /\ (d + left) % W = 0
  BY <1>1 DEF OnCourse
<1>3. k \in Int /\ d + left = W * k + 0
  BY <1>2, QuotientRemainder
<1>4. HasPassedCcr1(t, now) <=> d % W < HalfRange
  BY DEF HasPassedCcr1, HalfRange
<1> HIDE DEF d, k
<1>5. d = W * k + (-left) /\ -left \in 0..W - 1 /\ ~(-left < HalfRange)
  BY <1>1, <1>3, Halves
<1>6. (W * k + (-left)) % W = -left
  BY <1>3, <1>5, RemainderUnique
<1> QED BY <1>4, <1>5, <1>6

Tim5Inv ==
  focus = "tim5" =>
    /\ unit \in [now : Nat, t : Tim5, pending : BOOLEAN]
    /\ drv \in [left : Int] /\ drv.left <= HalfRange
    /\ OnCourse(unit.t, unit.now, drv.left)

LEMMA Tim5InvInit == Init => Tim5Inv
<1> SUFFICES ASSUME Init, focus = "tim5" PROVE Tim5Inv
  BY DEF Tim5Inv
<1>1. unit = [now |-> 0, t |-> NewTim5, pending |-> FALSE] /\ drv = [left |-> 0]
  BY GroupInits DEF Tim5Init
<1>2. NewTim5 \in Tim5
  BY DEF NewTim5, Tim5
<1>3. Cnt(NewTim5, 0) = 0 /\ NewTim5.ccr1 = 0
  BY DEF Cnt, NewTim5
<1>4. ((0 + 0) - 0) % W = 0
  BY SmallRemainder
<1> QED BY <1>1, <1>2, <1>3, <1>4, Halves DEF Tim5Inv, OnCourse

\* What one step of the group does to the timer and to its counter.
LEMMA Tim5Step ==
  ASSUME Tim5Inv, focus = "tim5", Tim5Next
  PROVE  /\ unit' \in [now : Nat, t : Tim5, pending : BOOLEAN]
         /\ drv' \in [left : Int] /\ drv'.left <= HalfRange
         /\ OnCourse(unit'.t, unit'.now, drv'.left)
         /\ LET was == Cnt(unit.t, unit.now)
                is == Cnt(unit'.t, unit'.now)
            IN \/ is = was
               \/ Tim5SetCnt
               \/ Tim5Advance /\ unit.t.cen /\ is = (was + 1) % W
<1> DEFINE t == unit.t
           now == unit.now
           was == Cnt(t, now)
           left == drv.left
           pend == unit.pending
<1>0. /\ unit = [now |-> now, t |-> t, pending |-> pend] /\ drv = [left |-> left]
      /\ now \in Nat /\ t \in Tim5 /\ pend \in BOOLEAN
      /\ left \in Int /\ left <= HalfRange /\ was \in 0..W - 1 /\ was \in Int
      /\ OnCourse(t, now, left)
  BY CntProperties DEF Tim5Inv
<1>1. t.ccr1 \in Int /\ ((was + left) - t.ccr1) % W = 0
  BY <1>0 DEF OnCourse, Tim5
<1> HIDE DEF t, now, left, was, pend
\* A step that keeps the counter, CCR1 and what is left.
<1>same. ASSUME NEW t2 \in Tim5, NEW p \in BOOLEAN,
                unit' = [now |-> now, t |-> t2, pending |-> p], drv' = drv,
                Cnt(t2, now) = was, t2.ccr1 = t.ccr1
         PROVE  /\ unit' \in [now : Nat, t : Tim5, pending : BOOLEAN]
                /\ drv' \in [left : Int] /\ drv'.left <= HalfRange
                /\ OnCourse(unit'.t, unit'.now, drv'.left)
                /\ Cnt(unit'.t, unit'.now) = was
  BY <1>0, <1>1, <1>same DEF OnCourse
<1>2. CASE Tim5Advance
  <2> DEFINE tick == t.cen /\ (now + 1) % PerTick = 0
             is == Cnt(t, now + 1)
             left2 == IF tick THEN left - 1 ELSE left
  <2>1. unit' = [now |-> now + 1, t |-> t, pending |-> pend] /\ drv' = [left |-> left2]
    <3>1. /\ unit' = [unit EXCEPT !.now = now + 1] /\ drv' = [drv EXCEPT !.left = left2]
      BY <1>2 DEF Tim5Advance, t, now, left
    <3> HIDE DEF left2
    <3> QED BY <1>0, <3>1
  <2>2. is = IF tick THEN (was + 1) % W ELSE was
    BY <1>0, CntTicks DEF was
  <2>3. left2 \in Int /\ left2 <= HalfRange
    BY <1>0, Halves
  <2>4. ((is + left2) - t.ccr1) % W = 0
    <3>1. CASE ~tick
      BY <1>1, <2>2, <3>1
    <3>2. CASE tick
      <4> DEFINE a == was + 1
                 b == (left - 1) - t.ccr1
      <4>1. a \in Int /\ b \in Int /\ a + b = (was + left) - t.ccr1
        BY <1>0, <1>1
      <4>0. (was + 1) % W \in Int
        <5>1. a % W \in Int
          <6> HIDE DEF a
          <6> QED BY <4>1, QuotientRemainder
        <5> QED BY <5>1
      <4>2. (((was + 1) % W) + ((left - 1) - t.ccr1)) % W = ((was + left) - t.ccr1) % W
        <5>1. ((a % W) + b) % W = (a + b) % W
          <6> HIDE DEF a, b
          <6> QED BY <4>1, ReducedTerm
        <5> QED BY <4>1, <5>1
      <4>3. is = (was + 1) % W /\ left2 = left - 1
        BY <2>2, <3>2
      <4> HIDE DEF is, left2
      <4>4. ((is + left2) - t.ccr1) = is + ((left - 1) - t.ccr1)
        BY <1>0, <1>1, <4>0, <4>3
      <4> QED BY <1>1, <4>2, <4>3, <4>4
    <3> QED BY <3>1, <3>2
  <2>5. is = was \/ (t.cen /\ is = (was + 1) % W)
    BY <2>2
  <2> HIDE DEF is, left2
  <2> QED BY <1>0, <1>2, <2>1, <2>3, <2>4, <2>5 DEF OnCourse, is, t, now, was
<1>3. CASE Tim5Enable
  <2>1. PICK cen \in BOOLEAN :
          unit' = [now |-> now, t |-> WriteCr1(t, cen, now), pending |-> pend]
    <3>1. PICK cen \in BOOLEAN : unit' = [unit EXCEPT !.t = WriteCr1(t, cen, now)]
      BY <1>3 DEF Tim5Enable, t, now
    <3> QED BY <1>0, <3>1
  <2>2. drv' = drv
    BY <1>3 DEF Tim5Enable
  <2> QED BY ZenonT(60), <1>0, <1>same, <2>1, <2>2, WriteCr1Keeps DEF t, now, was
<1>4. CASE Tim5SetCnt
  <2>1. PICK value \in {0, W - 1} :
          /\ unit' = [now |-> now, t |-> WriteCnt(t, value, now), pending |-> pend]
          /\ drv' = [left |-> -Signed(value - t.ccr1)]
    <3>1. PICK value \in {0, W - 1} :
            /\ unit' = [unit EXCEPT !.t = WriteCnt(t, value, now)]
            /\ drv' = [drv EXCEPT !.left = -Signed(value - t.ccr1)]
      BY <1>4 DEF Tim5SetCnt, t, now
    <3> QED BY <1>0, <3>1
  <2>2. value \in 0..W - 1 /\ value - t.ccr1 \in Int
    BY <1>1
  <2> DEFINE d == value - t.ccr1
             g == Signed(d)
             t2 == WriteCnt(t, value, now)
  <2>3. /\ d \in Int /\ g \in Int /\ -HalfRange <= g /\ g < HalfRange /\ (d - g) % W = 0
    BY <2>2, SignedDifference
  <2>4. t2 \in Tim5 /\ Cnt(t2, now) = value /\ t2.ccr1 = t.ccr1
    BY <1>0, <2>2, WriteCntSets
  <2>5. (value + (-g)) - t.ccr1 = d - g
    <3> HIDE DEF g
    <3> QED BY <1>1, <2>2, <2>3
  <2> HIDE DEF g, t2
  <2>6. ((value + (-g)) - t.ccr1) % W = 0
    BY <2>3, <2>5
  <2>7. -g \in Int /\ -g <= HalfRange
    BY <2>3, Halves
  <2>8. unit' = [now |-> now, t |-> t2, pending |-> pend] /\ drv' = [left |-> -g]
    BY <2>1 DEF t2, g
  <2> QED BY <1>0, <1>4, <2>4, <2>6, <2>7, <2>8 DEF OnCourse
<1>5. CASE Tim5Arm
  <2>1. PICK ahead \in 1..(W \div 2) - 1 :
          /\ unit' = [unit EXCEPT !.t.armed = TRUE, !.t.ccr1 = (was + ahead) % W]
          /\ drv' = [left |-> ahead]
    BY <1>0, <1>5 DEF Tim5Arm, t, now, was
  <2> DEFINE c == (was + ahead) % W
             t2 == [t EXCEPT !.armed = TRUE, !.ccr1 = c]
  <2>2. ahead \in Int /\ ahead <= HalfRange /\ was + ahead \in Int
    BY <1>0, Halves DEF HalfRange
  <2>3. c \in 0..W - 1 /\ ((was + ahead) - c) % W = ((was + ahead) - (was + ahead)) % W
    BY <2>2, QuotientRemainder, ReducedTerm
  <2>4. ((was + ahead) - (was + ahead)) % W = 0
    <3>1. (was + ahead) - (was + ahead) = 0 /\ 0 \in 0..W - 1
      BY <2>2
    <3> QED BY <3>1, SmallRemainder
  <2> HIDE DEF c
  <2>5. t2 \in Tim5 /\ Cnt(t2, now) = was /\ t2.ccr1 = c
    <3>1. t2 \in Tim5 /\ t2.ccr1 = c /\ t2.cen = t.cen /\ t2.offset = t.offset /\ t2.held = t.held
      BY <1>0, <2>3 DEF Tim5
    <3> QED BY <3>1 DEF Cnt, was
  <2>6. unit' = [now |-> now, t |-> t2, pending |-> pend]
    BY <1>0, <2>1 DEF c
  <2>7. drv' = [left |-> ahead]
    BY <2>1
  <2>8. unit'.t = t2 /\ unit'.now = now /\ drv'.left = ahead /\ drv' \in [left : Int]
        /\ unit' \in [now : Nat, t : Tim5, pending : BOOLEAN]
    <3> HIDE DEF t2
    <3> QED BY <1>0, <2>2, <2>5, <2>6, <2>7
  <2> HIDE DEF t2
  <2>9. OnCourse(t2, now, ahead)
    BY <2>3, <2>4, <2>5 DEF OnCourse
  <2> QED BY <2>2, <2>5, <2>8, <2>9 DEF was, t, now
<1>6. CASE Tim5Registers
  <2>1. PICK b \in BOOLEAN :
          \/ unit' = [unit EXCEPT !.t.flag = b]
          \/ unit' = [unit EXCEPT !.t.ie = b]
    BY <1>6 DEF Tim5Registers
  <2> DEFINE t1 == [t EXCEPT !.flag = b]
             t2 == [t EXCEPT !.ie = b]
  <2>2. /\ t1 \in Tim5 /\ Cnt(t1, now) = was /\ t1.ccr1 = t.ccr1
        /\ t2 \in Tim5 /\ Cnt(t2, now) = was /\ t2.ccr1 = t.ccr1
    BY <1>0 DEF Tim5, Cnt, was
  <2>3. \/ unit' = [now |-> now, t |-> t1, pending |-> pend]
        \/ unit' = [now |-> now, t |-> t2, pending |-> pend]
    BY <1>0, <2>1
  <2>4. drv' = drv
    BY <1>6 DEF Tim5Registers
  <2> HIDE DEF t1, t2
  <2> QED BY <1>0, <1>same, <2>2, <2>3, <2>4 DEF was, t, now
<1>7. CASE Tim5Handled
  <2>1. unit' = [now |-> now, t |-> t, pending |-> FALSE] /\ drv' = drv
    <3>1. unit' = [unit EXCEPT !.pending = FALSE] /\ drv' = drv
      BY <1>7 DEF Tim5Handled
    <3> QED BY <1>0, <3>1
  <2> QED BY <1>0, <1>same, <2>1 DEF was, t, now
<1>8. CASE Tim5Poll
  <2> DEFINE t2 == Poll5(t, now)
             p == pend \/ Pends5(t2)
  <2>1. p \in BOOLEAN
    OBVIOUS
  <2>2. unit' = [unit EXCEPT !.t = t2, !.pending = p] /\ drv' = drv
    BY Zenon, <1>8 DEF Tim5Poll, t, now, pend
  <2>3. t2 \in Tim5 /\ Cnt(t2, now) = was /\ t2.ccr1 = t.ccr1
    BY <1>0, PollKeeps DEF was
  <2> HIDE DEF t2, p
  <2>4. unit' = [now |-> now, t |-> t2, pending |-> p]
    BY <1>0, <2>2
  <2> QED BY <1>same, <2>1, <2>2, <2>3, <2>4 DEF was, t, now
<1> QED BY <1>2, <1>3, <1>4, <1>5, <1>6, <1>7, <1>8 DEF Tim5Next

LEMMA Tim5InvNext == Tim5Inv /\ [Next]_vars => Tim5Inv'
<1> SUFFICES ASSUME Tim5Inv, [Next]_vars, focus' = "tim5" PROVE Tim5Inv'
  BY DEF Tim5Inv
<1>1. focus = "tim5" /\ (Tim5Next \/ UNCHANGED vars)
  BY GroupSteps
<1>2. CASE UNCHANGED vars
  BY <1>1, <1>2 DEF Tim5Inv, vars, OnCourse, Cnt
<1>3. CASE Tim5Next
  BY <1>1, <1>3, Tim5Step DEF Tim5Inv, OnCourse, Cnt
<1> QED BY <1>1, <1>2, <1>3

LEMMA Tim5InvHolds == Spec => []Tim5Inv
  BY Tim5InvInit, Tim5InvNext, PTL DEF Spec

\* A compare match is latched by the first poll after CNT reaches CCR1 and by none before, across the
\* wrapping of CNT and of the instruction counter, stops, restarts and writes of CNT; and it is pending
\* if enabled (tim5.rs has_passed_ccr1, poll).  Half the range is the bound: a match polled later than
\* that reads as one still to come and is not latched.
THEOREM MatchesOnTime == Spec => MatchOnTime
<1>1. ASSUME Tim5Inv, Tim5Poll, unit.t.armed
      PROVE  /\ drv.left \in (1 - W \div 2) .. 0 =>
                  unit'.t.flag /\ (unit.t.ie => unit'.pending)
             /\ (drv.left > 0 \/ Late) /\ ~unit.t.flag => ~unit'.t.flag
  <2> DEFINE t == unit.t
             now == unit.now
             left == drv.left
             t2 == Poll5(t, now)
             p == unit.pending \/ Pends5(t2)
  <2>1. /\ now \in Nat /\ t \in Tim5 /\ left \in Int /\ left <= HalfRange
        /\ OnCourse(t, now, left)
        /\ unit \in [now : Nat, t : Tim5, pending : BOOLEAN]
    BY <1>1 DEF Tim5Inv, Tim5Poll
  <2>2. left \in (1 - HalfRange) .. 0 => HasPassedCcr1(t, now)
    <3> HIDE DEF t, now, left
    <3> SUFFICES ASSUME left \in (1 - HalfRange) .. 0 PROVE HasPassedCcr1(t, now)
      OBVIOUS
    <3>1. -HalfRange < left /\ left <= 0
      BY <2>1, Halves
    <3> QED BY <2>1, <3>1, PassedWhenDue
  <2>3. left > 0 => ~HasPassedCcr1(t, now)
    <3> HIDE DEF t, now, left
    <3> SUFFICES ASSUME left > 0 PROVE ~HasPassedCcr1(t, now)
      OBVIOUS
    <3>1. -HalfRange < left /\ ~(left <= 0)
      BY <2>1, Halves
    <3> QED BY <2>1, <3>1, PassedWhenDue
  <2>4. Late => ~HasPassedCcr1(t, now)
    <3>1. Late <=> left \in (1 - W) .. -HalfRange
      BY DEF Late, HalfRange
    <3> HIDE DEF t, now, left
    <3> SUFFICES ASSUME left \in (1 - W) .. -HalfRange PROVE ~HasPassedCcr1(t, now)
      BY <3>1
    <3>2. -W < left /\ left <= -HalfRange
      BY <2>1, Halves
    <3> QED BY <2>1, <3>2, NotPassedWhenLate
  <2>5. t2.ie = t.ie /\ (t2.flag <=> t.flag \/ (t.armed /\ HasPassedCcr1(t, now)))
    <3> HIDE DEF t, now
    <3> QED BY <2>1, PollKeeps
  <2>6. unit' = [unit EXCEPT !.t = t2, !.pending = p]
    BY Zenon, <1>1 DEF Tim5Poll
  <2>7. unit'.t = t2 /\ unit'.pending = p
    <3> HIDE DEF t2, p
    <3> QED BY <2>1, <2>6
  <2>8. p <=> unit.pending \/ (t2.flag /\ t2.ie)
    BY Zenon DEF Pends5
  <2>9. t.armed
    BY <1>1
  <2>10. (1 - HalfRange) .. 0 = (1 - W \div 2) .. 0
    BY DEF HalfRange
  <2> HIDE DEF t2, p
  <2> QED BY <2>2, <2>3, <2>4, <2>5, <2>7, <2>8, <2>9, <2>10
<1>2. Tim5Inv =>
        [Tim5Poll /\ unit.t.armed =>
           /\ drv.left \in (1 - W \div 2) .. 0 =>
                unit'.t.flag /\ (unit.t.ie => unit'.pending)
           /\ (drv.left > 0 \/ Late) /\ ~unit.t.flag => ~unit'.t.flag]_vars
  BY <1>1
<1> QED BY <1>2, Tim5InvHolds, PTL DEF MatchOnTime

-----------------------------------------------------------------------------
(* The cycle counter.                                                       *)

DwtInv == focus = "dwt" => unit \in [now : Nat, offset : Int]

LEMMA DwtInvHolds == Spec => []DwtInv
<1>1. Init => DwtInv
  BY GroupInits DEF DwtInit, DwtInv
<1>2. DwtInv /\ [Next]_vars => DwtInv'
  <2> SUFFICES ASSUME DwtInv, [Next]_vars, focus' = "dwt"
               PROVE  unit' \in [now : Nat, offset : Int]
    BY DEF DwtInv
  <2>1. focus = "dwt" /\ (DwtNext \/ UNCHANGED vars)
    BY GroupSteps
  <2>2. CASE UNCHANGED vars
    BY <2>1, <2>2 DEF DwtInv, vars
  <2>3. CASE DwtAdvance
    BY <2>1, <2>3 DEF DwtInv, DwtAdvance
  <2>4. CASE DwtSet
    <3>1. PICK value \in 0..W - 1 : unit' = [unit EXCEPT !.offset = SetCyccnt(value, unit.now)]
      BY <2>4 DEF DwtSet
    <3>2. value - unit.now \in Int
      BY <2>1 DEF DwtInv
    <3>3. SetCyccnt(value, unit.now) \in Int
      <4> DEFINE d == value - unit.now
      <4>1. d \in Int
        BY <3>2
      <4>2. d % W \in Int
        <5> HIDE DEF d
        <5> QED BY <4>1, QuotientRemainder
      <4> QED BY <4>2 DEF SetCyccnt
    <3> QED BY <2>1, <3>1, <3>3 DEF DwtInv
  <2> QED BY <2>1, <2>2, <2>3, <2>4 DEF DwtNext
<1> QED BY <1>1, <1>2, PTL DEF Spec

LEMMA CyccntTicks ==
  ASSUME DwtInv, DwtAdvance
  PROVE  Cyccnt(unit'.offset, unit'.now) = (Cyccnt(unit.offset, unit.now) + 1) % W
<1> DEFINE n == unit.now
           o == unit.offset
<1>1. n \in Nat /\ o \in Int /\ unit'.now = n + 1 /\ unit'.offset = o
  BY DEF DwtInv, DwtAdvance
<1> HIDE DEF n, o
<1>2. n + o \in Int /\ (n + 1) + o = (n + o) + 1
  BY <1>1
<1>3. (((n + o) % W) + 1) % W = ((n + o) + 1) % W
  BY <1>2, ReducedTerm
<1> QED BY <1>1, <1>2, <1>3 DEF Cyccnt, n, o

\* What CntContinuous says of a step, in the words of the two invariants.
LEMMA ContinuousStep ==
  ASSUME Tim5Inv, DwtInv, [Next]_vars, ~UNCHANGED vars
  PROVE  /\ DwtAdvance =>
              Cyccnt(unit'.offset, unit'.now) = (Cyccnt(unit.offset, unit.now) + 1) % W
         /\ focus = "tim5" =>
              LET was == Cnt(unit.t, unit.now)
                  is == Cnt(unit'.t, unit'.now)
              IN \/ is = was
                 \/ Tim5SetCnt
                 \/ Tim5Advance /\ unit.t.cen /\ is = (was + 1) % W
<1>1. focus = "tim5" => Tim5Next
  BY GroupSteps
<1> QED BY <1>1, CyccntTicks, Tim5Step

LEMMA CountersContinuous == Spec => CntContinuous
<1>1. Tim5Inv /\ DwtInv /\ [Next]_vars =>
        [/\ DwtAdvance =>
              Cyccnt(unit'.offset, unit'.now) = (Cyccnt(unit.offset, unit.now) + 1) % W
         /\ focus = "tim5" =>
              LET was == Cnt(unit.t, unit.now)
                  is == Cnt(unit'.t, unit'.now)
              IN \/ is = was
                 \/ Tim5SetCnt
                 \/ Tim5Advance /\ unit.t.cen /\ is = (was + 1) % W]_vars
  BY ContinuousStep
<1> QED BY <1>1, Tim5InvHolds, DwtInvHolds, PTL DEF CntContinuous, Spec

-----------------------------------------------------------------------------
(* TIM6.                                                                    *)

Tim6 == [cen : BOOLEAN, ie : BOOLEAN, flag : BOOLEAN, psc : Nat, arr : Nat, since : Nat]

LEMMA PeriodPositive ==
  ASSUME NEW t \in Tim6
  PROVE  Period(t) \in Nat \ {0}
<1> DEFINE a == t.psc + 1
           b == t.arr + 1
<1>1. a \in Nat \ {0} /\ b \in Nat \ {0}
  BY DEF Tim6
<1>2. Period(t) = 2 * a * b
  BY DEF Period
<1> HIDE DEF a, b
<1>3. a * b \in Nat /\ a * b >= 1
  BY <1>1
<1>4. 2 * a * b = 2 * (a * b)
  BY <1>1
<1> QED BY <1>2, <1>3, <1>4

\* The update events so far fit between the start and the last of them.
Tim6Inv ==
  focus = "tim6" =>
    /\ unit \in [now : Nat, t : Tim6, pending : BOOLEAN]
    /\ drv \in [updates : Nat, started : Nat]
    /\ unit.t.cen => /\ drv.updates * Period(unit.t) <= unit.t.since - drv.started
                     /\ unit.t.since <= unit.now

LEMMA Tim6InvInit == Init => Tim6Inv
<1> SUFFICES ASSUME Init, focus = "tim6" PROVE Tim6Inv
  BY DEF Tim6Inv
<1>1. /\ unit = [now |-> 0, t |-> NewTim6, pending |-> FALSE]
      /\ drv = [updates |-> 0, started |-> 0]
  BY GroupInits DEF Tim6Init
<1>2. NewTim6 \in Tim6 /\ ~NewTim6.cen
  BY DEF NewTim6, Tim6
<1> QED BY <1>1, <1>2 DEF Tim6Inv

LEMMA Tim6InvNext == Tim6Inv /\ [Next]_vars => Tim6Inv'
<1> SUFFICES ASSUME Tim6Inv, [Next]_vars, focus' = "tim6" PROVE Tim6Inv'
  BY DEF Tim6Inv
<1>1. focus = "tim6" /\ (Tim6Next \/ UNCHANGED vars)
  BY GroupSteps
<1> DEFINE t == unit.t
           now == unit.now
           pend == unit.pending
           updates == drv.updates
           started == drv.started
<1>2. /\ unit = [now |-> now, t |-> t, pending |-> pend]
      /\ drv = [updates |-> updates, started |-> started]
      /\ now \in Nat /\ t \in Tim6 /\ pend \in BOOLEAN /\ updates \in Nat /\ started \in Nat
      /\ t.cen => updates * Period(t) <= t.since - started /\ t.since <= now
  BY <1>1 DEF Tim6Inv
<1> HIDE DEF t, now, pend, updates, started
\* Enough for a step that leaves what is counted alone.
<1>same. ASSUME NEW t2 \in Tim6, NEW p \in BOOLEAN, NEW n \in Nat, n >= now,
                unit' = [now |-> n, t |-> t2, pending |-> p], drv' = drv,
                t2.cen => t.cen /\ t2.since = t.since /\ Period(t2) = Period(t)
         PROVE  Tim6Inv'
  BY <1>2, <1>same DEF Tim6Inv, Tim6
\* Enough for a step that starts counting again.
<1>fresh. ASSUME NEW t2 \in Tim6, t2.since = now,
                 unit' = [now |-> now, t |-> t2, pending |-> pend],
                 drv' = [updates |-> 0, started |-> now]
          PROVE  Tim6Inv'
  <2>1. Period(t2) \in Int /\ 0 * Period(t2) = 0
    BY PeriodPositive
  <2> QED BY <1>2, <1>fresh, <2>1 DEF Tim6Inv
<1>3. CASE UNCHANGED vars
  BY <1>1, <1>3 DEF Tim6Inv, vars
<1>4. CASE Tim6Advance
  <2>1. unit' = [now |-> now + 1, t |-> t, pending |-> pend] /\ drv' = drv
    <3>1. unit' = [unit EXCEPT !.now = now + 1] /\ drv' = drv
      BY <1>4 DEF Tim6Advance, now
    <3> QED BY <1>2, <3>1
  <2> QED BY <1>2, <1>same, <2>1
<1>5. CASE Tim6Configure
  <2>1. PICK psc \in 0..1, arr \in 0..1, ie \in BOOLEAN :
          unit' = [unit EXCEPT !.t.psc = psc, !.t.arr = arr, !.t.ie = ie]
    BY <1>5 DEF Tim6Configure
  <2> DEFINE t2 == [t EXCEPT !.psc = psc, !.arr = arr, !.ie = ie]
  <2>2. unit' = [now |-> now, t |-> t2, pending |-> pend]
    BY <1>2, <2>1
  <2>3. t2 \in Tim6 /\ ~t2.cen
    <3>1. ~t.cen
      BY <1>5 DEF Tim6Configure, t
    <3>2. t2 \in Tim6 /\ t2.cen = t.cen
      <4> DEFINE t0 == [t EXCEPT !.psc = psc, !.arr = arr]
      <4>1. t0 \in Tim6 /\ t0.cen = t.cen
        <5>1. t \in Tim6 /\ psc \in Nat /\ arr \in Nat
          BY <1>2
        <5> QED BY <5>1 DEF Tim6
      <4>2. t2 = [t0 EXCEPT !.ie = ie]
        BY Zenon
      <4> HIDE DEF t0, t2
      <4> QED BY <4>1, <4>2 DEF Tim6
    <3> HIDE DEF t2
    <3> QED BY <3>1, <3>2
  <2>4. drv' = drv /\ now >= now
    BY <1>2, <1>5 DEF Tim6Configure
  <2> HIDE DEF t2
  <2> QED BY <1>2, <1>same, <2>2, <2>3, <2>4
<1>6. CASE Tim6Enable
  <2>1. PICK cen \in BOOLEAN :
          /\ unit' = [unit EXCEPT !.t = WriteCr1Of6(t, cen, now)]
          /\ drv' = IF cen /\ ~t.cen THEN [updates |-> 0, started |-> now] ELSE drv
    BY <1>6 DEF Tim6Enable, t, now
  <2> DEFINE t2 == WriteCr1Of6(t, cen, now)
  <2>2. /\ t2 \in Tim6 /\ Period(t2) = Period(t) /\ t2.cen = cen
        /\ t2.since = IF cen /\ ~t.cen THEN now ELSE t.since
    BY <1>2 DEF WriteCr1Of6, Tim6, Period
  <2> HIDE DEF t2
  <2>3. unit' = [now |-> now, t |-> t2, pending |-> pend]
    BY <1>2, <2>1 DEF t2
  <2>4. CASE cen /\ ~t.cen
    BY <1>fresh, <2>1, <2>2, <2>3, <2>4
  <2>5. CASE ~(cen /\ ~t.cen)
    <3>1. drv' = drv /\ now >= now /\ (t2.cen => t.cen /\ t2.since = t.since)
      BY <1>2, <2>1, <2>2, <2>5
    <3> QED BY <1>2, <1>same, <2>2, <2>3, <3>1
  <2> QED BY <2>4, <2>5
<1>7. CASE Tim6Restart
  <2> DEFINE t2 == Restart6(t, now)
  <2>1. t2 \in Tim6 /\ t2.since = now
    BY <1>2 DEF Restart6, Tim6
  <2>2. unit' = [unit EXCEPT !.t = t2] /\ drv' = [updates |-> 0, started |-> now]
    BY <1>7 DEF Tim6Restart, t, now
  <2> HIDE DEF t2
  <2>3. unit' = [now |-> now, t |-> t2, pending |-> pend]
    BY <1>2, <2>2
  <2> QED BY <1>fresh, <2>1, <2>2, <2>3
<1>8. CASE Tim6Ack
  <2>1. \/ unit' = [unit EXCEPT !.pending = FALSE]
        \/ unit' = [unit EXCEPT !.t.flag = FALSE]
    BY <1>8 DEF Tim6Ack
  <2> DEFINE t2 == [t EXCEPT !.flag = FALSE]
  <2>2. t2 \in Tim6 /\ t2.cen = t.cen /\ t2.since = t.since /\ Period(t2) = Period(t)
    BY <1>2 DEF Tim6, Period
  <2>3. \/ unit' = [now |-> now, t |-> t, pending |-> FALSE]
        \/ unit' = [now |-> now, t |-> t2, pending |-> pend]
    BY <1>2, <2>1
  <2>4. drv' = drv /\ now >= now
    BY <1>2, <1>8 DEF Tim6Ack
  <2> HIDE DEF t2
  <2> QED BY <1>2, <1>same, <2>2, <2>3, <2>4
<1>9. CASE Tim6Poll
  <2> DEFINE t2 == Poll6(t, now)
             p == pend \/ Pends6(t2)
  <2>1. unit' = [unit EXCEPT !.t = t2, !.pending = p]
        /\ drv' = [drv EXCEPT !.updates = IF t2.since # t.since THEN @ + 1 ELSE @]
    BY Zenon, <1>9 DEF Tim6Poll, t, now, pend
  <2>2. p \in BOOLEAN
    OBVIOUS
  <2>3. Period(t) \in Nat \ {0}
    BY <1>2, PeriodPositive
  <2> HIDE DEF p
  <2>4. CASE t.cen /\ now - t.since >= Period(t)
    <3>1. t2 = [t EXCEPT !.flag = TRUE, !.since = now]
      BY <2>4 DEF Poll6
    <3> HIDE DEF t2
    <3>2. t2 \in Tim6 /\ t2.since = now /\ Period(t2) = Period(t) /\ t2.since # t.since
      <4>1. t2 \in Tim6 /\ t2.since = now /\ t2.psc = t.psc /\ t2.arr = t.arr
        BY <1>2, <3>1 DEF Tim6
      <4>2. t.since # now
        BY <1>2, <2>3, <2>4 DEF Tim6
      <4> QED BY <4>1, <4>2 DEF Period
    <3>3. unit' = [now |-> now, t |-> t2, pending |-> p]
      BY <1>2, <2>1
    <3>4. drv' = [updates |-> updates + 1, started |-> started]
      BY <1>2, <2>1, <3>2
    <3>5. (updates + 1) * Period(t) <= now - started
      <4>1. updates * Period(t) <= t.since - started
        BY <1>2, <2>4
      <4>2. /\ (updates + 1) * Period(t) = updates * Period(t) + Period(t)
            /\ updates * Period(t) \in Int
        BY <1>2, <2>3
      <4>3. t.since \in Nat
        BY <1>2 DEF Tim6
      <4> QED BY <1>2, <2>3, <2>4, <4>1, <4>2, <4>3
    <3>6. now <= now
      BY <1>2
    <3> QED BY <1>2, <2>2, <3>2, <3>3, <3>4, <3>5, <3>6 DEF Tim6Inv
  <2>5. CASE ~(t.cen /\ now - t.since >= Period(t))
    <3>1. t2 = t
      BY <2>5 DEF Poll6
    <3> HIDE DEF t2
    <3>2. unit' = [now |-> now, t |-> t, pending |-> p] /\ drv' = drv
      BY <1>2, <2>1, <3>1
    <3> QED BY <1>2, <1>same, <2>2, <3>2
  <2> QED BY <2>4, <2>5
<1> QED BY <1>1, <1>3, <1>4, <1>5, <1>6, <1>7, <1>8, <1>9 DEF Tim6Next

LEMMA Tim6InvNeverFast == Tim6Inv => NeverFast
<1> SUFFICES ASSUME Tim6Inv, focus = "tim6", unit.t.cen
             PROVE  drv.updates * 2 * (unit.t.psc + 1) * (unit.t.arr + 1) <= unit.now - drv.started
  BY DEF NeverFast
<1> DEFINE a == unit.t.psc
           b == unit.t.arr
           u == drv.updates
           since == unit.t.since
<1>1. /\ a \in Nat /\ b \in Nat /\ u \in Nat /\ since \in Nat /\ unit.now \in Nat
      /\ drv.started \in Nat /\ since <= unit.now
      /\ u * (2 * (a + 1) * (b + 1)) <= since - drv.started
  BY DEF Tim6Inv, Tim6, Period
<1> HIDE DEF a, b, u, since
<1>2. /\ u * 2 * (a + 1) * (b + 1) = u * (2 * (a + 1) * (b + 1))
      /\ u * (2 * (a + 1) * (b + 1)) \in Int
  BY <1>1
<1>3. u * 2 * (a + 1) * (b + 1) <= unit.now - drv.started
  <2> DEFINE m == u * (2 * (a + 1) * (b + 1))
  <2>1. m \in Int /\ m <= since - drv.started
    BY <1>1, <1>2
  <2> HIDE DEF m
  <2>2. m <= unit.now - drv.started
    BY <1>1, <2>1
  <2> QED BY <1>2, <2>2 DEF m
<1> QED BY <1>3 DEF a, b, u

\* No timer invents time, across the wrapping of the counter and of the instruction counter, stops,
\* restarts and late polls: CNT and CYCCNT move by single ticks and by writes only, and the update
\* events of TIM6 never come faster than its period (tim5.rs write_cr1 and ticks_from_instructions,
\* dwt.rs cyccnt, tim6.rs poll).
THEOREM TimeIsHonest == Spec => TimeHonest
<1>1. Spec => []NeverFast
  BY Tim6InvInit, Tim6InvNext, Tim6InvNeverFast, PTL DEF Spec
<1> QED BY <1>1, CountersContinuous, PTL DEF TimeHonest

-----------------------------------------------------------------------------
(* ADC.                                                                     *)

Converter == [sequence : Sequences, index : 0..2, eoc : BOOLEAN, cr2 : BOOLEAN]

Samples == 0..4095

LEMMA CountsTwelveBits ==
  ASSUME NEW mv \in Int
  PROVE  Counts(mv) \in Samples
<1> DEFINE c == IF mv < 0 THEN 0 ELSE IF mv > 3300 THEN 3300 ELSE mv
<1>1. c \in 0..3300
  OBVIOUS
<1> DEFINE n == (c * 4095) \div 3300
<1>2. Counts(mv) = n
  BY DEF Counts
<1> HIDE DEF c
<1>3. n \in 0..4095
  BY <1>1
<1> HIDE DEF n
<1> QED BY <1>2, <1>3 DEF Samples

\* The two bytes a DMA controller takes are those of the sample.
Taken(value) == DmaBytes(value)[1] + 256 * DmaBytes(value)[2]

LEMMA BytesOfSample ==
  ASSUME NEW value \in Samples
  PROVE  Taken(value) = value
<1>1. /\ DmaBytes(value)[1] = value % 256
      /\ DmaBytes(value)[2] = (value \div 256) % 256
  BY DEF DmaBytes
<1>2. (value % 256) + 256 * ((value \div 256) % 256) = value
  BY DEF Samples
<1> QED BY <1>1, <1>2 DEF Taken

LEMMA SequenceLengths ==
  ASSUME NEW q \in Sequences
  PROVE  /\ Len(q) \in 1..3
         /\ \A i \in 1..Len(q) : q[i] \in {0, 1, 16}
<1>1. CASE q = <<0>>
  BY <1>1
<1>2. CASE q = <<0, 1>>
  BY <1>2
<1>3. CASE q = <<1, 16, 0>>
  BY <1>3
<1> QED BY <1>1, <1>2, <1>3 DEF Sequences

\* Six conversions are whole scans of any of the sequences.
LEMMA ScanSteps ==
  ASSUME NEW n \in 1..3, NEW done \in 0..5, NEW index \in 0..2
  PROVE  /\ (index + 1) % n \in 0..2
         /\ index % n \in 0..n - 1
         /\ (done + 1) % 6 \in 0..5
         /\ index = done % n => /\ (index + 1) % n = ((done + 1) % 6) % n
                                /\ index % n = done % n
         /\ 0 % n = 0
<1>1. CASE n = 1
  BY <1>1
<1>2. CASE n = 2
  BY <1>2
<1>3. CASE n = 3
  BY <1>3
<1> QED BY <1>1, <1>2, <1>3

\* The index is that of the conversion to come, as long as the sequence is the one SWSTART found.
AdcInv ==
  focus = "adc" =>
    /\ unit \in [adc : Converter, mv : [0..1 -> Int]]
    /\ drv \in [done : 0..5, scanned : BOOLEAN, sample : Int, wanted : Int]
    /\ drv.scanned => unit.adc.index = drv.done % Len(unit.adc.sequence)
    /\ drv.scanned /\ drv.done # 0 => drv.sample = drv.wanted

LEMMA AdcInvInit == Init => AdcInv
<1> SUFFICES ASSUME Init, focus = "adc" PROVE AdcInv
  BY DEF AdcInv
<1>1. /\ unit = [adc |-> NewAdc, mv |-> [c \in 0..1 |-> 0]]
      /\ drv = [done |-> 0, scanned |-> FALSE, sample |-> 0, wanted |-> 0]
  BY GroupInits DEF AdcInit
<1>2. NewAdc \in Converter
  <2>1. <<0>> \in Sequences
    BY DEF Sequences
  <2> QED BY <2>1 DEF NewAdc, Converter
<1> QED BY <1>1, <1>2 DEF AdcInv

\* What a conversion gives: the channel at the index, which is the one the scan is at.
LEMMA ConvertedWanted ==
  ASSUME AdcInv, focus = "adc"
  PROVE  /\ Converted(unit.adc, unit.mv) \in Samples
         /\ WantedNow \in Int
         /\ drv.scanned => Converted(unit.adc, unit.mv) = WantedNow
<1> DEFINE a == unit.adc
           mv == unit.mv
           n == Len(a.sequence)
           i == a.index
           k == drv.done
           c == a.sequence[(i % n) + 1]
           d == a.sequence[(k % n) + 1]
           value == Converted(a, mv)
<1>1. /\ a \in Converter /\ mv \in [0..1 -> Int] /\ k \in 0..5
      /\ drv.scanned => i = k % n
  BY DEF AdcInv
<1>2. n \in 1..3 /\ \A x \in 1..n : a.sequence[x] \in {0, 1, 16}
  BY <1>1, SequenceLengths DEF Converter
<1>3. i \in 0..2
  BY <1>1 DEF Converter
<1>4. /\ value = IF c < 16 THEN Counts(mv[c]) ELSE Counts(0)
      /\ WantedNow = IF d \in DOMAIN mv THEN Counts(mv[d]) ELSE 0
  BY DEF Converted, ChannelNow, NumChannels, WantedNow
<1>5. /\ drv.scanned => i % n = k % n
      /\ (i % n) + 1 \in 1..n /\ (k % n) + 1 \in 1..n
  <2> HIDE DEF a, n, i, k
  <2>1. i % n \in 0..n - 1 /\ k % n \in 0..n - 1
    <3>1. n \in Nat \ {0} /\ i \in Int /\ k \in Int
      BY <1>1, <1>2, <1>3
    <3> QED BY <3>1, QuotientRemainder
  <2>2. i = k % n => i % n = k % n
    BY <1>1, <1>2, <1>3, ScanSteps
  <2> QED BY <1>1, <1>2, <2>1, <2>2
<1>6. c \in {0, 1, 16} /\ d \in {0, 1, 16} /\ (drv.scanned => c = d)
  BY <1>2, <1>5
<1>7. Counts(0) = 0
  BY DEF Counts
<1> DEFINE m0 == mv[0]
           m1 == mv[1]
           v0 == Counts(m0)
           v1 == Counts(m1)
<1>8. v0 \in Samples /\ v1 \in Samples /\ DOMAIN mv = 0..1
  <2>1. m0 \in Int /\ m1 \in Int /\ DOMAIN mv = 0..1
    BY <1>1
  <2>2. v0 \in Samples /\ v1 \in Samples
    <3> HIDE DEF m0, m1
    <3> QED BY <2>1, CountsTwelveBits
  <2> QED BY <2>1, <2>2
<1> HIDE DEF a, mv, n, i, k, c, d, value
<1>9. /\ c = 0 => value = v0
      /\ c = 1 => value = v1
      /\ c = 16 => value = 0
  BY <1>4, <1>7
<1>10. /\ d = 0 => WantedNow = v0
       /\ d = 1 => WantedNow = v1
       /\ d = 16 => WantedNow = 0
  BY <1>4, <1>8
<1>11. 0 \in Samples /\ \A x \in Samples : x \in Int
  BY DEF Samples
<1> HIDE DEF v0, v1
<1>12. value \in Samples /\ WantedNow \in Int /\ (drv.scanned => value = WantedNow)
  BY <1>6, <1>8, <1>9, <1>10, <1>11
<1> QED BY Zenon, <1>12 DEF value, a, mv

LEMMA AdcInvNext == AdcInv /\ [Next]_vars => AdcInv'
<1> SUFFICES ASSUME AdcInv, [Next]_vars, focus' = "adc" PROVE AdcInv'
  BY DEF AdcInv
<1>1. focus = "adc" /\ (AdcNext \/ UNCHANGED vars)
  BY GroupSteps
<1> DEFINE a == unit.adc
           mv == unit.mv
           n == Len(a.sequence)
           k == drv.done
           sc == drv.scanned
           sm == drv.sample
           wt == drv.wanted
<1>2. /\ unit \in [adc : Converter, mv : [0..1 -> Int]]
      /\ drv = [done |-> k, scanned |-> sc, sample |-> sm, wanted |-> wt]
      /\ k \in 0..5 /\ sc \in BOOLEAN /\ sm \in Int /\ wt \in Int
      /\ a \in Converter /\ mv \in [0..1 -> Int]
      /\ sc => a.index = k % n
      /\ sc /\ k # 0 => sm = wt
  BY <1>1 DEF AdcInv
<1>3. n \in 1..3 /\ a.index \in 0..2 /\ a.sequence \in Sequences
  BY <1>2, SequenceLengths DEF Converter
<1> HIDE DEF a, mv, n, k, sc, sm, wt
<1>4. CASE UNCHANGED vars
  BY <1>1, <1>4 DEF AdcInv, vars
<1>5. CASE AdcStart
  <2>1. PICK swstart \in BOOLEAN :
          /\ unit' = [unit EXCEPT !.adc = WriteCr2(a, swstart)]
          /\ drv' = IF swstart THEN [drv EXCEPT !.done = 0, !.scanned = TRUE] ELSE drv
    BY <1>5 DEF AdcStart, a
  <2> DEFINE a2 == WriteCr2(a, swstart)
  <2>2. /\ a2 \in Converter /\ a2.sequence = a.sequence
        /\ a2.index = IF swstart THEN 0 ELSE a.index
    <3> DEFINE i == IF swstart THEN 0 ELSE a.index
    <3>1. a2 = [a EXCEPT !.cr2 = swstart, !.index = i]
      BY Zenon DEF WriteCr2
    <3>2. i \in 0..2
      BY <1>3
    <3> HIDE DEF a2, i
    <3>3. a2 \in Converter /\ a2.sequence = a.sequence /\ a2.index = i
      BY <1>2, <3>1, <3>2 DEF Converter
    <3> QED BY <3>3 DEF i
  <2> HIDE DEF a2
  <2>3. unit'.adc = a2 /\ unit' \in [adc : Converter, mv : [0..1 -> Int]]
    BY <1>2, <2>1, <2>2 DEF a2
  <2>4. CASE swstart
    <3>1. 0 % n = 0
      BY <1>3, SmallRemainder
    <3>2. drv' = [drv EXCEPT !.done = 0, !.scanned = TRUE]
      BY <2>1, <2>4
    <3>3. drv' = [done |-> 0, scanned |-> TRUE, sample |-> sm, wanted |-> wt]
      BY <1>2, <3>2
    <3>4. /\ drv' \in [done : 0..5, scanned : BOOLEAN, sample : Int, wanted : Int]
          /\ drv'.done = 0
      BY <1>2, <3>3
    <3>5. unit'.adc.index = 0 /\ Len(unit'.adc.sequence) = n
      BY <2>2, <2>3, <2>4 DEF n
    <3> QED BY <2>3, <3>1, <3>4, <3>5 DEF AdcInv
  <2>5. CASE ~swstart
    <3>1. drv' = drv /\ unit'.adc.index = a.index /\ Len(unit'.adc.sequence) = n
      BY <2>1, <2>2, <2>3, <2>5 DEF n
    <3> QED BY <1>2, <2>3, <3>1 DEF AdcInv
  <2> QED BY <2>4, <2>5
<1>6. CASE AdcConfigure
  <2>1. PICK q \in Sequences : unit' = [unit EXCEPT !.adc = WriteSequence(a, q)]
    BY <1>6 DEF AdcConfigure, a
  <2>2. WriteSequence(a, q) \in Converter
    BY <1>2 DEF WriteSequence, Converter
  <2>3. drv' = [drv EXCEPT !.scanned = FALSE]
    BY <1>6 DEF AdcConfigure
  <2>4. drv' = [done |-> k, scanned |-> FALSE, sample |-> sm, wanted |-> wt]
    BY <1>2, <2>3
  <2>5. unit' \in [adc : Converter, mv : [0..1 -> Int]]
    BY <1>2, <2>1, <2>2
  <2> QED BY <1>2, <2>4, <2>5 DEF AdcInv
<1>7. CASE AdcFeed
  <2>1. PICK c \in 0..1, m \in Millivolts : unit' = [unit EXCEPT !.mv[c] = m]
    BY <1>7 DEF AdcFeed
  <2>2. [mv EXCEPT ![c] = m] \in [0..1 -> Int]
    BY <1>2 DEF Millivolts
  <2>3. unit' = [unit EXCEPT !.mv = [mv EXCEPT ![c] = m]]
    BY <2>1 DEF mv
  <2>4. unit' \in [adc : Converter, mv : [0..1 -> Int]] /\ unit'.adc = a
    BY <1>2, <2>2, <2>3 DEF a
  <2>5. drv' = drv
    BY <1>7 DEF AdcFeed
  <2> QED BY <1>2, <2>4, <2>5 DEF AdcInv, n
<1>8. CASE AdcClear
  <2>1. unit' = [unit EXCEPT !.adc = ClearSr(a)] /\ drv' = drv
    BY <1>8 DEF AdcClear, a
  <2> DEFINE a2 == ClearSr(a)
  <2>2. a2 \in Converter /\ a2.index = a.index /\ a2.sequence = a.sequence
    BY <1>2 DEF ClearSr, Converter
  <2> HIDE DEF a2
  <2>3. unit'.adc = a2 /\ unit' \in [adc : Converter, mv : [0..1 -> Int]]
    BY <1>2, <2>1, <2>2 DEF a2
  <2> QED BY <1>2, <2>1, <2>2, <2>3 DEF AdcInv, n
<1>9. CASE AdcSample
  <2> DEFINE value == Converted(a, mv)
             got == Taken(value)
             done == (k + 1) % 6
             want == WantedNow
  <2>1. \/ /\ unit' = [unit EXCEPT !.adc = ReadDr(a)]
           /\ drv' = [drv EXCEPT !.done = done, !.sample = value, !.wanted = want]
        \/ /\ unit' = [unit EXCEPT !.adc = Stepped(a)]
           /\ drv' = [drv EXCEPT !.done = done, !.sample = got, !.wanted = want]
    BY <1>9 DEF AdcSample, Taken, a, mv, k
  <2>2. value \in Samples /\ want \in Int /\ (sc => value = want)
    BY <1>1, ConvertedWanted DEF a, mv, sc
  <2> HIDE DEF value, want
  <2>3. value \in Int
    BY <2>2 DEF Samples
  <2>4. got = value
    BY <2>2, BytesOfSample
  <2> DEFINE index == (a.index + 1) % n
  <2>5. /\ index \in 0..2 /\ done \in 0..5
        /\ sc => index = done % n
    <3> DEFINE i == a.index
    <3>1. i \in 0..2 /\ k \in 0..5 /\ n \in 1..3 /\ (sc => i = k % n)
      BY <1>2, <1>3
    <3>2. /\ (i + 1) % n \in 0..2 /\ (k + 1) % 6 \in 0..5
          /\ i = k % n => (i + 1) % n = ((k + 1) % 6) % n
      <4> HIDE DEF i
      <4> QED BY <3>1, ScanSteps
    <3> QED BY <3>1, <3>2
  <2> HIDE DEF index, done, got
  <2>6. \A a2 \in {ReadDr(a), Stepped(a)} :
          a2 \in Converter /\ a2.index = index /\ a2.sequence = a.sequence
    <3>1. Stepped(a) = [a EXCEPT !.index = index]
      BY DEF Stepped, NumChannels, index, n
    <3>2. ReadDr(a) = [[a EXCEPT !.index = index] EXCEPT !.eoc = TRUE]
      BY <3>1 DEF ReadDr
    <3> DEFINE a1 == [a EXCEPT !.index = index]
               a2 == [a1 EXCEPT !.eoc = TRUE]
    <3>3. a1 \in Converter /\ a1.index = index /\ a1.sequence = a.sequence
      BY <1>2, <2>5 DEF Converter
    <3> HIDE DEF a1
    <3>4. a2 \in Converter /\ a2.index = index /\ a2.sequence = a.sequence
      BY <3>3 DEF Converter
    <3>5. Stepped(a) = a1 /\ ReadDr(a) = a2
      BY <3>1, <3>2 DEF a1
    <3> HIDE DEF a2
    <3> QED BY <3>3, <3>4, <3>5
  <2>7. PICK a2 \in {ReadDr(a), Stepped(a)} :
          /\ unit' = [unit EXCEPT !.adc = a2]
          /\ drv' = [drv EXCEPT !.done = done, !.sample = value, !.wanted = want]
    BY <2>1, <2>4
  <2>8. unit'.adc = a2 /\ unit' \in [adc : Converter, mv : [0..1 -> Int]]
    BY <1>2, <2>6, <2>7
  <2>9. drv' = [done |-> done, scanned |-> sc, sample |-> value, wanted |-> want]
    BY <1>2, <2>7
  <2>10. unit'.adc.index = index /\ Len(unit'.adc.sequence) = n
    BY <2>6, <2>8 DEF n
  <2> QED BY <1>2, <2>2, <2>3, <2>5, <2>8, <2>9, <2>10 DEF AdcInv
<1> QED BY <1>1, <1>4, <1>5, <1>6, <1>7, <1>8, <1>9 DEF AdcNext

\* After SWSTART the samples are those of the sequence's channels in order, over and over, at the
\* voltage of the moment, whether the processor reads them or the DMA controller takes them as two
\* bytes, until the sequence is written again (adc.rs next_conversion_value, dma_read_bytes).
THEOREM ScansAligned == Spec => []ScanAligned
<1>1. AdcInv => ScanAligned
  BY DEF AdcInv, ScanAligned
<1> QED BY <1>1, AdcInvInit, AdcInvNext, PTL DEF Spec

-----------------------------------------------------------------------------
(* The display.                                                             *)

Region == [left : Nat, right : Nat, top : Nat, bottom : Nat]

Commands == [is : {"none", "some"}, cmd : Nat, args : Seq(Nat)]

Points == [x : Int, y : Int]

Device == [region : Region, cmd : Commands, reply : Seq(Nat), drawing : BOOLEAN,
           at : Points, painted : Int]

Some(cmd, args) == [is |-> "some", cmd |-> cmd, args |-> args]

Corners == {SetHoriRegion, SetVertRegion}

\* The cursor moves as the pixels of the window are counted, along its rows, then around.
LEMMA CursorMoves ==
  ASSUME NEW w \in Region, NEW n \in Nat
  PROVE  /\ CursorAt(w, n) \in Points
         /\ Advanced(CursorAt(w, n), w) = CursorAt(w, n + 1)
<1> DEFINE columns == IF w.right >= w.left THEN w.right - w.left + 1 ELSE 1
           rows == IF w.bottom >= w.top THEN w.bottom - w.top + 1 ELSE 1
           c == n % columns
           q == n \div columns
           c2 == (n + 1) % columns
           q2 == (n + 1) \div columns
           r == q % rows
           r2 == q2 % rows
           left == w.left
           right == w.right
           top == w.top
           bottom == w.bottom
<1>1. /\ left \in Nat /\ right \in Nat /\ top \in Nat /\ bottom \in Nat
      /\ columns \in Nat \ {0} /\ rows \in Nat \ {0}
      /\ columns = IF right >= left THEN right - left + 1 ELSE 1
      /\ rows = IF bottom >= top THEN bottom - top + 1 ELSE 1
  BY DEF Region
<1>2. /\ CursorAt(w, n) = [x |-> left + c, y |-> top + r]
      /\ CursorAt(w, n + 1) = [x |-> left + c2, y |-> top + r2]
  BY DEF CursorAt
<1> HIDE DEF columns, rows
<1>3. /\ q \in Nat /\ c \in 0..columns - 1
      /\ c2 = IF c = columns - 1 THEN 0 ELSE c + 1
      /\ q2 = IF c = columns - 1 THEN q + 1 ELSE q
  BY <1>1, CountedNext
<1> HIDE DEF c, c2, q, q2
<1>4. /\ r \in 0..rows - 1
      /\ q2 = q + 1 => r2 = IF r = rows - 1 THEN 0 ELSE r + 1
  BY <1>1, <1>3, CountedNext
<1>5. q2 = q => r2 = r
  OBVIOUS
<1> HIDE DEF r, r2
<1>6. CursorAt(w, n) \in Points
  BY <1>1, <1>2, <1>3, <1>4 DEF Points
<1>7. Advanced([x |-> left + c, y |-> top + r], w) = [x |-> left + c2, y |-> top + r2]
  <2>1. CASE c # columns - 1
    <3>1. left + c + 1 <= right /\ c2 = c + 1 /\ r2 = r
      BY <1>1, <1>3, <1>5, <2>1
    <3>2. Advanced([x |-> left + c, y |-> top + r], w)
            = [[x |-> left + c, y |-> top + r] EXCEPT !.x = left + c + 1]
      BY <3>1 DEF Advanced, right
    <3>3. left + c + 1 = left + c2
      BY <1>1, <1>3, <3>1
    <3> QED BY <3>1, <3>2, <3>3
  <2>2. CASE c = columns - 1
    <3>1. ~(left + c + 1 <= right) /\ c2 = 0
      BY <1>1, <1>3, <2>2
    <3>2. Advanced([x |-> left + c, y |-> top + r], w)
            = [x |-> left, y |-> IF top + r + 1 > bottom THEN top ELSE top + r + 1]
      BY <3>1 DEF Advanced, right, left, bottom, top
    <3>3. (IF top + r + 1 > bottom THEN top ELSE top + r + 1) = top + r2
      BY <1>1, <1>3, <1>4, <2>2
    <3>4. left + c2 = left
      BY <1>1, <3>1
    <3> QED BY <3>2, <3>3, <3>4
  <2> QED BY <2>1, <2>2
<1> QED BY <1>2, <1>6, <1>7

\* What handle_cmd makes of each kind of command.
LEMMA CommandHandled ==
  ASSUME NEW d \in Device
  PROVE  /\ d.cmd.is = "none" => HandleCmd(d) = d
         /\ d.cmd.is = "some" =>
              /\ d.cmd.cmd \in Corners /\ Len(d.cmd.args) # 4 => HandleCmd(d) = d
              /\ d.cmd.cmd = SetHoriRegion /\ Len(d.cmd.args) = 4 =>
                   HandleCmd(d) = [d EXCEPT !.cmd = NoCmd,
                                            !.region.left = d.cmd.args[1] * 256 + d.cmd.args[2],
                                            !.region.right = d.cmd.args[3] * 256 + d.cmd.args[4]]
              /\ d.cmd.cmd = SetVertRegion /\ Len(d.cmd.args) = 4 =>
                   HandleCmd(d) = [d EXCEPT !.cmd = NoCmd,
                                            !.region.top = d.cmd.args[1] * 256 + d.cmd.args[2],
                                            !.region.bottom = d.cmd.args[3] * 256 + d.cmd.args[4]]
              /\ d.cmd.cmd = Draw /\ Len(d.cmd.args) = 0 =>
                   HandleCmd(d) = [d EXCEPT !.cmd = NoCmd, !.drawing = TRUE,
                                            !.at = [x |-> d.region.left, y |-> d.region.top]]
              /\ d.cmd.cmd = IdCommand =>
                   HandleCmd(d) = [d EXCEPT !.cmd = NoCmd, !.reply = IdReply]
              /\ d.cmd.cmd \notin Corners \cup {Draw, IdCommand} => HandleCmd(d) = d
<1> DEFINE is == d.cmd.is
           cmd == d.cmd.cmd
           n == Len(d.cmd.args)
           region == d.region
<1>1. SetHoriRegion # SetVertRegion /\ SetHoriRegion # Draw /\ SetVertRegion # Draw
  BY DEF SetHoriRegion, SetVertRegion, Draw
<1>2. IdCommand # SetHoriRegion /\ IdCommand # SetVertRegion /\ IdCommand # Draw
  BY ReplyAssumption
<1> DEFINE hori == [d EXCEPT !.cmd = NoCmd,
                             !.region.left = d.cmd.args[1] * 256 + d.cmd.args[2],
                             !.region.right = d.cmd.args[3] * 256 + d.cmd.args[4]]
           vert == [d EXCEPT !.cmd = NoCmd,
                             !.region.top = d.cmd.args[1] * 256 + d.cmd.args[2],
                             !.region.bottom = d.cmd.args[3] * 256 + d.cmd.args[4]]
           draw == [d EXCEPT !.cmd = NoCmd, !.drawing = TRUE,
                             !.at = [x |-> d.region.left, y |-> d.region.top]]
           told == [d EXCEPT !.cmd = NoCmd, !.reply = IdReply]
<1>3. HandleCmd(d) =
        CASE is = "some" /\ cmd = SetHoriRegion /\ n = 4 -> hori
          [] is = "some" /\ cmd = SetVertRegion /\ n = 4 -> vert
          [] is = "some" /\ cmd = Draw /\ n = 0 -> draw
          [] is = "some" /\ cmd = IdCommand -> told
          [] OTHER -> d
  BY Zenon DEF HandleCmd
<1> HIDE DEF is, cmd, n, hori, vert, draw, told
<1>4. /\ is = "none" => HandleCmd(d) = d
      /\ is = "some" =>
           /\ cmd \in Corners /\ n # 4 => HandleCmd(d) = d
           /\ cmd = SetHoriRegion /\ n = 4 => HandleCmd(d) = hori
           /\ cmd = SetVertRegion /\ n = 4 => HandleCmd(d) = vert
           /\ cmd = Draw /\ n = 0 => HandleCmd(d) = draw
           /\ cmd = IdCommand => HandleCmd(d) = told
           /\ cmd \notin Corners \cup {Draw, IdCommand} => HandleCmd(d) = d
  BY <1>1, <1>2, <1>3 DEF Corners
<1> QED BY Zenon, <1>4 DEF is, cmd, n, hori, vert, draw, told

LEMMA CursorStarts ==
  ASSUME NEW w \in Region
  PROVE  /\ CursorAt(w, 0) = [x |-> w.left, y |-> w.top]
         /\ [x |-> w.left, y |-> w.top] \in Points
<1> DEFINE columns == IF w.right >= w.left THEN w.right - w.left + 1 ELSE 1
           rows == IF w.bottom >= w.top THEN w.bottom - w.top + 1 ELSE 1
<1>1. columns \in Nat \ {0} /\ rows \in Nat \ {0} /\ w.left \in Nat /\ w.top \in Nat
  BY DEF Region
<1>2. CursorAt(w, 0) = [x |-> w.left + (0 % columns), y |-> w.top + ((0 \div columns) % rows)]
  BY DEF CursorAt
<1> HIDE DEF columns, rows
<1>3. 0 % columns = 0 /\ 0 \div columns = 0
  <2>1. columns * 0 + 0 = 0 /\ 0 \in 0..columns - 1 /\ 0 \in Int
    BY <1>1
  <2>2. (columns * 0 + 0) % columns = 0 /\ (columns * 0 + 0) \div columns = 0
    BY <1>1, <2>1, RemainderUnique
  <2> QED BY <2>1, <2>2
<1>4. 0 % rows = 0
  <2>1. 0 \in 0..rows - 1
    BY <1>1
  <2> QED BY <1>1, <2>1, SmallRemainder
<1> QED BY <1>1, <1>2, <1>3, <1>4 DEF Points

\* The data words of a command, as far as they matter; the high byte of a coordinate is zero.
Arguments == {a \in Seq(Nat) : /\ Len(a) <= 4
                               /\ Len(a) >= 1 => a[1] = 0
                               /\ Len(a) >= 3 => a[3] = 0}

LEMMA ArgumentsGrow ==
  ASSUME NEW args \in Arguments, Len(args) < 4, NEW word \in Nat, Len(args) % 2 = 0 => word = 0
  PROVE  /\ Append(args, word) \in Arguments
         /\ Len(Append(args, word)) = Len(args) + 1
         /\ Append(args, word) # args
<1> DEFINE a == Append(args, word)
           n == Len(args)
<1>1. args \in Seq(Nat) /\ n \in Nat /\ n < 4
  BY DEF Arguments
<1>2. /\ a \in Seq(Nat) /\ Len(a) = n + 1
      /\ \A i \in 1..n : a[i] = args[i]
      /\ a[n + 1] = word
  BY <1>1
<1>3. /\ n >= 1 => args[1] = 0
      /\ n >= 3 => args[3] = 0
  BY DEF Arguments
<1>4. n % 2 = 0 => word = 0
  OBVIOUS
<1> HIDE DEF a, n
<1>5. /\ n = 0 => word = 0
      /\ n = 2 => word = 0
  BY <1>4
<1>6. a[1] = 0
  <2>1. CASE n = 0
    BY <1>2, <1>5, <2>1
  <2>2. CASE n # 0
    BY <1>1, <1>2, <1>3, <2>2
  <2> QED BY <2>1, <2>2
<1>7. n + 1 >= 3 => a[3] = 0
  <2>1. CASE n = 2
    BY <1>2, <1>5, <2>1
  <2>2. CASE n = 3
    BY <1>1, <1>2, <1>3, <2>2
  <2> QED BY <1>1, <2>1, <2>2
<1>8. a \in Arguments
  <2>1. /\ a \in Seq(Nat) /\ Len(a) <= 4
        /\ Len(a) >= 1 => a[1] = 0
        /\ Len(a) >= 3 => a[3] = 0
    BY <1>1, <1>2, <1>6, <1>7
  <2> QED BY Zenon, <2>1 DEF Arguments
<1>9. a # args
  <2>1. Len(args) # n + 1
    BY <1>1 DEF n
  <2> QED BY <1>2, <2>1
<1> QED BY <1>2, <1>8, <1>9 DEF a, n

LEMMA WordOf ==
  ASSUME NEW s \in Seq(Nat), NEW i \in 1..Len(s)
  PROVE  s[i] \in Nat
  OBVIOUS

LEMMA WholeArguments ==
  ASSUME NEW a \in Arguments, Len(a) = 4
  PROVE  a[2] \in Nat /\ a[4] \in Nat /\ a[1] * 256 + a[2] = a[2] /\ a[3] * 256 + a[4] = a[4]
<1>1. /\ a \in Seq(Nat)
      /\ Len(a) >= 1 => a[1] = 0
      /\ Len(a) >= 3 => a[3] = 0
  BY Zenon DEF Arguments
<1>3. a[1] = 0 /\ a[3] = 0
  BY <1>1
<1> DEFINE x == a[2]
           y == a[4]
<1>4. x \in Nat /\ y \in Nat
  <2>1. a \in Seq(Nat) /\ 2 \in 1..Len(a) /\ 4 \in 1..Len(a)
    BY <1>1
  <2> QED BY Zenon, <2>1, WordOf
<1> HIDE DEF x, y
<1>5. a[1] * 256 + x = x /\ a[3] * 256 + y = y
  BY <1>3, <1>4
<1> QED BY <1>4, <1>5 DEF x, y

Dev(region, uc, reply, drawing, at, painted) ==
  [region |-> region, cmd |-> uc, reply |-> reply, drawing |-> drawing, at |-> at,
   painted |-> painted]

Drv(cmd, args, region, pixels, ops) ==
  [cmd |-> cmd, args |-> args, window |-> region, pixels |-> pixels, ops |-> ops]

\* The cursor is where the count of pixels says, and the device collects the command firmware is
\* giving it, or none.
Coupled(region, uc, drawing, at, cmd, args, pixels) ==
  /\ drawing <=> pixels >= 0
  /\ pixels >= 0 => uc.is = "none" /\ at = CursorAt(region, pixels)
  /\ cmd \in Corners => IF Len(args) < 4 THEN uc = Some(cmd, args) ELSE uc.is = "none"
  /\ cmd \notin Corners /\ uc.is = "some" => uc.cmd \notin Corners \cup {Draw}

\* The display and the firmware that draws on it have the same window.
Paired(u, v) ==
  \E region \in Region, uc \in Commands, reply \in Seq(Nat), drawing \in BOOLEAN, at \in Points,
     painted \in Int, cmd \in Nat, args \in Arguments, pixels \in Int, ops \in Int :
    /\ u = Dev(region, uc, reply, drawing, at, painted)
    /\ v = Drv(cmd, args, region, pixels, ops)
    /\ Coupled(region, uc, drawing, at, cmd, args, pixels)

LEMMA Pairs ==
  ASSUME NEW region \in Region, NEW uc \in Commands, NEW reply \in Seq(Nat),
         NEW drawing \in BOOLEAN, NEW at \in Points, NEW painted \in Int,
         NEW cmd \in Nat, NEW args \in Arguments, NEW pixels \in Int, NEW ops \in Int,
         Coupled(region, uc, drawing, at, cmd, args, pixels)
  PROVE  Paired(Dev(region, uc, reply, drawing, at, painted),
                Drv(cmd, args, region, pixels, ops))
  BY Zenon DEF Paired

LEMMA DisplayFacts ==
  /\ SetHoriRegion # SetVertRegion /\ Draw \notin Corners /\ Draw \in Nat
  /\ Corners = {SetHoriRegion, SetVertRegion} /\ Corners \subseteq Nat /\ 0 \notin Corners
  /\ IdCommand \notin Corners \cup {Draw} /\ IdCommand \in Nat /\ IdReply \in Seq(Nat)
  /\ NoCmd \in Commands /\ NoCmd.is = "none"
  /\ <<>> \in Arguments /\ Len(<<>>) = 0
  BY ReplyAssumption DEF SetHoriRegion, SetVertRegion, Draw, Corners, NoCmd, Commands, Arguments

\* A new command starts with no arguments; Draw puts the cursor in the corner of the window.
LEMMA CommandKeepsPair ==
  ASSUME NEW region \in Region, NEW uc \in Commands, NEW reply \in Seq(Nat),
         NEW drawing \in BOOLEAN, NEW at \in Points, NEW painted \in Int, NEW ops \in Int,
         NEW new \in Corners \cup {Draw, IdCommand, 0}
  PROVE  Paired(WriteCommand(Dev(region, uc, reply, drawing, at, painted), new),
                Drv(new, <<>>, region, IF new = Draw THEN 0 ELSE -1, ops))
<1>0. PICK off \in BOOLEAN, on \in BOOLEAN : off = FALSE /\ on = TRUE
  BY Zenon
<1> DEFINE some == Some(new, <<>>)
           d == Dev(region, some, reply, off, at, painted)
           written == WriteCommand(Dev(region, uc, reply, drawing, at, painted), new)
<1>1. new \in Nat
  BY DisplayFacts
<1>2. some \in Commands /\ some.is = "some" /\ some.cmd = new /\ some.args = <<>>
  BY <1>1 DEF Some, Commands
<1>3. Started(Dev(region, uc, reply, drawing, at, painted), new) = d
  <2>1. Started(Dev(region, uc, reply, drawing, at, painted), new)
          = [Dev(region, uc, reply, drawing, at, painted) EXCEPT !.drawing = off,
                                                                 !.cmd = some]
    BY Zenon, <1>0 DEF Started, Some
  <2> HIDE DEF some
  <2> QED BY <2>1 DEF Dev
<1>4. written = HandleCmd(d)
  BY Zenon, <1>3 DEF WriteCommand
<1> HIDE DEF some, written
<1>5. d \in Device /\ d.cmd = some /\ d.region = region
  BY <1>2 DEF Dev, Device
<1>6. CASE new \in Corners
  <2>1. written = d
    <3> HIDE DEF d
    <3>1. d.cmd.is = "some" /\ d.cmd.cmd \in Corners /\ Len(d.cmd.args) # 4
      <4>1. Len(some.args) = 0
        BY Zenon, <1>2, DisplayFacts
      <4>2. d.cmd.is = "some" /\ d.cmd.cmd = new /\ Len(d.cmd.args) = 0
        BY Zenon, <1>2, <1>5, <4>1
      <4>3. Len(d.cmd.args) # 4
        BY <4>2
      <4> QED BY Zenon, <1>6, <4>2, <4>3
    <3>2. HandleCmd(d) = d
      BY <1>5, <3>1, CommandHandled
    <3> QED BY <1>4, <3>2
  <2>2. Coupled(region, some, off, at, new, <<>>, -1)
    BY <1>0, <1>6, DisplayFacts DEF Coupled, some
  <2>3. (IF new = Draw THEN 0 ELSE -1) = -1 /\ -1 \in Int
    BY <1>6, DisplayFacts
  <2> QED BY <1>1, <1>2, <2>1, <2>2, <2>3, Pairs, DisplayFacts DEF written
<1>7. CASE new = Draw
  <2> DEFINE first == [x |-> region.left, y |-> region.top]
  <2>1. written = [d EXCEPT !.cmd = NoCmd, !.drawing = on, !.at = first]
    <3>1. HandleCmd(d) = [d EXCEPT !.cmd = NoCmd, !.drawing = TRUE,
                                   !.at = [x |-> d.region.left, y |-> d.region.top]]
      <4> HIDE DEF d
      <4> QED BY <1>2, <1>5, <1>7, CommandHandled, DisplayFacts
    <3> QED BY Zenon, <1>0, <1>4, <1>5, <3>1
  <2>2. first \in Points /\ first = CursorAt(region, 0)
    BY CursorStarts
  <2> HIDE DEF first
  <2>3. written = Dev(region, NoCmd, reply, on, first, painted)
    BY <2>1 DEF Dev
  <2>4. Coupled(region, NoCmd, on, first, new, <<>>, 0)
    BY <1>0, <1>7, <2>2, DisplayFacts DEF Coupled
  <2>5. (IF new = Draw THEN 0 ELSE -1) = 0 /\ 0 \in Int
    BY <1>7
  <2> QED BY <1>1, <2>2, <2>3, <2>4, <2>5, Pairs, DisplayFacts DEF written
<1>8. CASE new = IdCommand
  <2>1. written = [d EXCEPT !.cmd = NoCmd, !.reply = IdReply]
    <3> HIDE DEF d
    <3> QED BY <1>2, <1>4, <1>5, <1>8, CommandHandled
  <2>2. written = Dev(region, NoCmd, IdReply, off, at, painted)
    BY <2>1 DEF Dev
  <2>3. Coupled(region, NoCmd, off, at, new, <<>>, -1)
    BY <1>0, <1>8, DisplayFacts DEF Coupled
  <2>4. (IF new = Draw THEN 0 ELSE -1) = -1 /\ -1 \in Int
    BY <1>8, DisplayFacts
  <2> QED BY <1>1, <2>2, <2>3, <2>4, Pairs, DisplayFacts DEF written
<1>9. CASE new \notin Corners \cup {Draw, IdCommand}
  <2>1. written = d
    <3> HIDE DEF d
    <3> QED BY <1>2, <1>4, <1>5, <1>9, CommandHandled
  <2>2. Coupled(region, some, off, at, new, <<>>, -1)
    BY <1>0, <1>2, <1>9 DEF Coupled
  <2>3. (IF new = Draw THEN 0 ELSE -1) = -1 /\ -1 \in Int
    BY <1>9
  <2> QED BY <1>1, <1>2, <2>1, <2>2, <2>3, Pairs, DisplayFacts DEF written
<1> QED BY <1>6, <1>7, <1>8, <1>9

\* A pixel: the device moves its cursor as firmware counts.
LEMMA PixelKeepsPair ==
  ASSUME NEW region \in Region, NEW uc \in Commands, NEW reply \in Seq(Nat),
         NEW drawing \in BOOLEAN, NEW at \in Points, NEW painted \in Int,
         NEW cmd \in Nat, NEW args \in Arguments, NEW pixels \in Int, NEW ops \in Int,
         Coupled(region, uc, drawing, at, cmd, args, pixels), pixels >= 0, NEW word
  PROVE  Paired(WriteData(Dev(region, uc, reply, drawing, at, painted), word),
                Drv(cmd, args, region, pixels + 1, ops))
<1> DEFINE u == Dev(region, uc, reply, drawing, at, painted)
           next == Advanced(at, region)
           index == PixelIndex(at)
           d == Dev(region, uc, reply, drawing, next, index)
<1>1. drawing /\ uc.is = "none" /\ at = CursorAt(region, pixels)
  BY DEF Coupled
<1>2. u.drawing = drawing /\ u.at = at /\ u.region = region
  BY DEF Dev
<1>3. WriteData(u, word) = HandleCmd(DrawPixel(u))
  <2> HIDE DEF u
  <2> QED BY <1>1, <1>2 DEF WriteData
<1>4. index \in Int
  <2> DEFINE x == at.x
             y == at.y
             cx == Clamped(x, Width)
             cy == Clamped(y, Height)
  <2>1. x \in Int /\ y \in Int
    BY DEF Points
  <2> HIDE DEF x, y
  <2>2. cx \in Int /\ cy \in Int
    BY <2>1 DEF Clamped
  <2>3. index = cx + cy * Width
    BY DEF PixelIndex, x, y
  <2> HIDE DEF cx, cy, index
  <2> QED BY <2>2, <2>3
<1>5. next = CursorAt(region, pixels + 1) /\ next \in Points
  <2>1. pixels \in Nat /\ pixels + 1 \in Nat
    OBVIOUS
  <2> QED BY <1>1, <2>1, CursorMoves
<1>6. DrawPixel(u) = d
  <2>1. DrawPixel(u) = [u EXCEPT !.painted = index, !.at = next]
    BY Zenon, <1>2 DEF DrawPixel
  <2> HIDE DEF next, index
  <2> QED BY <2>1 DEF Dev
<1> HIDE DEF next, index
<1>7. d \in Device /\ d.cmd = uc
  BY <1>4, <1>5 DEF Dev, Device
<1>8. HandleCmd(d) = d
  <2> HIDE DEF d
  <2> QED BY <1>1, <1>7, CommandHandled
<1>9. WriteData(u, word) = d
  BY Zenon, <1>3, <1>6, <1>8
<1>10. Coupled(region, uc, drawing, next, cmd, args, pixels + 1)
  <2>1. pixels + 1 >= 0 /\ pixels + 1 \in Int
    OBVIOUS
  <2> QED BY <1>1, <1>5, <2>1 DEF Coupled
<1>11. pixels + 1 \in Int
  OBVIOUS
<1> DEFINE p2 == pixels + 1
<1>12. Paired(Dev(region, uc, reply, drawing, next, index), Drv(cmd, args, region, p2, ops))
  <2> HIDE DEF p2
  <2> QED BY <1>4, <1>5, <1>10, <1>11, Pairs DEF p2
<1> QED BY Zenon, <1>9, <1>12

\* A data word of a window command, the last of which moves the window.
LEMMA CoordinateKeepsPair ==
  ASSUME NEW region \in Region, NEW uc \in Commands, NEW reply \in Seq(Nat),
         NEW drawing \in BOOLEAN, NEW at \in Points, NEW painted \in Int,
         NEW cmd \in Corners, NEW args \in Arguments, NEW pixels \in Int, NEW ops \in Int,
         Coupled(region, uc, drawing, at, cmd, args, pixels), pixels < 0, Len(args) < 4,
         NEW word \in Nat, Len(args) % 2 = 0 => word = 0
  PROVE  Paired(WriteData(Dev(region, uc, reply, drawing, at, painted), word),
                Drv(cmd, Append(args, word), WithArguments(region, cmd, Append(args, word)),
                    pixels, ops))
<1> DEFINE u == Dev(region, uc, reply, drawing, at, painted)
           grown == Append(args, word)
           some == Some(cmd, grown)
           d == Dev(region, some, reply, drawing, at, painted)
           w2 == WithArguments(region, cmd, grown)
<1>1. ~drawing /\ uc = Some(cmd, args) /\ cmd \in Nat
  BY DisplayFacts DEF Coupled
<1>2. grown \in Arguments /\ grown \in Seq(Nat) /\ Len(grown) = Len(args) + 1 /\ Len(grown) <= 4
  <2>1. grown \in Arguments /\ Len(grown) = Len(args) + 1
    BY ArgumentsGrow
  <2> HIDE DEF grown
  <2>2. grown \in Seq(Nat) /\ Len(grown) <= 4
    BY <2>1 DEF Arguments
  <2> QED BY <2>1, <2>2
<1>3. WriteData(u, word) = HandleCmd(d)
  <2>1. u.drawing = drawing /\ u.cmd = uc /\ uc.is = "some"
    BY <1>1 DEF Dev, Some
  <2>2. WriteData(u, word) = HandleCmd([u EXCEPT !.cmd.args = Append(@, word)])
    <3> HIDE DEF u
    <3> QED BY <1>1, <2>1 DEF WriteData
  <2>3. [u EXCEPT !.cmd.args = Append(@, word)] = d
    <3>1. [u EXCEPT !.cmd.args = Append(@, word)]
            = [u EXCEPT !.cmd = [uc EXCEPT !.args = Append(@, word)]]
      BY Zenon, <2>1
    <3>2. [uc EXCEPT !.args = Append(@, word)] = some
      <4>1. uc.args = args
        BY <1>1 DEF Some
      <4>2. [uc EXCEPT !.args = Append(@, word)] = [uc EXCEPT !.args = grown]
        BY Zenon, <4>1
      <4> HIDE DEF grown
      <4>3. ASSUME NEW x, x = [uc EXCEPT !.args = grown]
            PROVE  x = some
        BY <1>1, <4>3 DEF Some
      <4> QED BY Zenon, <4>2, <4>3
    <3>3. [u EXCEPT !.cmd = some] = d
      <4> HIDE DEF some
      <4>1. ASSUME NEW x, x = [u EXCEPT !.cmd = some]
            PROVE  x = d
        BY <4>1 DEF Dev
      <4> QED BY <4>1
    <3> HIDE DEF u, d, some
    <3> QED BY Zenon, <3>1, <3>2, <3>3
  <2> QED BY Zenon, <2>2, <2>3
<1> HIDE DEF grown
<1>4. some \in Commands /\ some.is = "some" /\ some.cmd = cmd /\ some.args = grown
  BY <1>1, <1>2 DEF Some, Commands
<1>5. some = Some(cmd, grown)
  OBVIOUS
<1> HIDE DEF some
<1>6. d \in Device /\ d.cmd = some /\ d.region = region
  BY <1>4 DEF Dev, Device
<1>7. CASE Len(grown) # 4
  <2>1. HandleCmd(d) = d
    <3> HIDE DEF d
    <3>1. d.cmd.is = "some" /\ d.cmd.cmd \in Corners /\ d.cmd.args = grown
      BY Zenon, <1>4, <1>6
    <3>2. Len(d.cmd.args) # 4
      BY Zenon, <1>7, <3>1
    <3> QED BY <1>6, <3>1, <3>2, CommandHandled
  <2>2. w2 = region
    BY <1>7 DEF WithArguments
  <2>3. Len(grown) < 4
    BY <1>2, <1>7
  <2>4. Coupled(region, some, drawing, at, cmd, grown, pixels)
    BY <1>1, <1>5, <2>3 DEF Coupled
  <2>5. WriteData(u, word) = d
    BY Zenon, <1>3, <2>1
  <2>6. Paired(Dev(region, some, reply, drawing, at, painted), Drv(cmd, grown, region, pixels, ops))
    BY <1>1, <1>2, <1>4, <2>4, Pairs
  <2> HIDE DEF w2
  <2> QED BY Zenon, <2>2, <2>5, <2>6 DEF w2, grown
<1>8. CASE Len(grown) = 4
  <2> DEFINE a == grown[2]
             b == grown[4]
  <2>1. a \in Nat /\ b \in Nat /\ grown[1] * 256 + a = a /\ grown[3] * 256 + b = b
    BY <1>2, <1>8, WholeArguments
  <2>2. PICK r2 \in Region : HandleCmd(d) = Dev(r2, NoCmd, reply, drawing, at, painted) /\ w2 = r2
    <3>1. CASE cmd = SetHoriRegion
      <4> DEFINE r2 == [region EXCEPT !.left = a, !.right = b]
      <4>1. HandleCmd(d) = [d EXCEPT !.cmd = NoCmd,
                              !.region.left = d.cmd.args[1] * 256 + d.cmd.args[2],
                              !.region.right = d.cmd.args[3] * 256 + d.cmd.args[4]]
        <5> HIDE DEF d
        <5>1. d.cmd.is = "some" /\ d.cmd.cmd = SetHoriRegion /\ Len(d.cmd.args) = 4
          BY Zenon, <1>4, <1>6, <1>8, <3>1
        <5> QED BY Zenon, <1>6, <5>1, CommandHandled
      <4>2. d.cmd.args[1] * 256 + d.cmd.args[2] = a /\ d.cmd.args[3] * 256 + d.cmd.args[4] = b
        BY Zenon, <1>4, <1>6, <2>1
      <4>3. HandleCmd(d) = [d EXCEPT !.cmd = NoCmd, !.region.left = a, !.region.right = b]
        BY Zenon, <4>1, <4>2
      <4>4. [d EXCEPT !.cmd = NoCmd, !.region.left = a, !.region.right = b]
              = [d EXCEPT !.cmd = NoCmd, !.region = r2]
        <5> HIDE DEF a, b
        <5> QED BY <1>6 DEF Dev
      <4> HIDE DEF a, b
      <4>5. r2 \in Region
        BY <2>1 DEF Region
      <4>6. w2 = r2
        BY <1>8, <3>1, DisplayFacts DEF WithArguments, a, b
      <4> HIDE DEF r2
      <4>7. ASSUME NEW x, x = [d EXCEPT !.cmd = NoCmd, !.region = r2]
            PROVE  x = Dev(r2, NoCmd, reply, drawing, at, painted)
        BY <4>7 DEF Dev
      <4>8. HandleCmd(d) = Dev(r2, NoCmd, reply, drawing, at, painted)
        <5> HIDE DEF d, a, b
        <5> QED BY Zenon, <4>3, <4>4, <4>7
      <4> HIDE DEF d, w2
      <4> QED BY Zenon, <4>5, <4>6, <4>8
    <3>2. CASE cmd = SetVertRegion
      <4> DEFINE r2 == [region EXCEPT !.top = a, !.bottom = b]
      <4>1. HandleCmd(d) = [d EXCEPT !.cmd = NoCmd,
                              !.region.top = d.cmd.args[1] * 256 + d.cmd.args[2],
                              !.region.bottom = d.cmd.args[3] * 256 + d.cmd.args[4]]
        <5> HIDE DEF d
        <5>1. d.cmd.is = "some" /\ d.cmd.cmd = SetVertRegion /\ Len(d.cmd.args) = 4
          BY Zenon, <1>4, <1>6, <1>8, <3>2
        <5> QED BY Zenon, <1>6, <5>1, CommandHandled
      <4>2. d.cmd.args[1] * 256 + d.cmd.args[2] = a /\ d.cmd.args[3] * 256 + d.cmd.args[4] = b
        BY Zenon, <1>4, <1>6, <2>1
      <4>3. HandleCmd(d) = [d EXCEPT !.cmd = NoCmd, !.region.top = a, !.region.bottom = b]
        BY Zenon, <4>1, <4>2
      <4>4. [d EXCEPT !.cmd = NoCmd, !.region.top = a, !.region.bottom = b]
              = [d EXCEPT !.cmd = NoCmd, !.region = r2]
        <5> HIDE DEF a, b
        <5> QED BY <1>6 DEF Dev
      <4> HIDE DEF a, b
      <4>5. r2 \in Region
        BY <2>1 DEF Region
      <4>6. w2 = r2
        BY <1>8, <3>2, DisplayFacts DEF WithArguments, a, b
      <4> HIDE DEF r2
      <4>7. ASSUME NEW x, x = [d EXCEPT !.cmd = NoCmd, !.region = r2]
            PROVE  x = Dev(r2, NoCmd, reply, drawing, at, painted)
        BY <4>7 DEF Dev
      <4>8. HandleCmd(d) = Dev(r2, NoCmd, reply, drawing, at, painted)
        <5> HIDE DEF d, a, b
        <5> QED BY Zenon, <4>3, <4>4, <4>7
      <4> HIDE DEF d, w2
      <4> QED BY Zenon, <4>5, <4>6, <4>8
    <3> QED BY <3>1, <3>2, DisplayFacts
  <2>3. Coupled(w2, NoCmd, drawing, at, cmd, grown, pixels)
    BY <1>1, <1>8, DisplayFacts DEF Coupled
  <2>4. WriteData(u, word) = Dev(w2, NoCmd, reply, drawing, at, painted) /\ w2 \in Region
    BY Zenon, <1>3, <2>2
  <2>5. Paired(Dev(w2, NoCmd, reply, drawing, at, painted), Drv(cmd, grown, w2, pixels, ops))
    <3> HIDE DEF w2
    <3> QED BY <1>1, <1>2, <2>3, <2>4, Pairs, DisplayFacts
  <2> QED BY Zenon, <2>4, <2>5 DEF grown
<1> QED BY <1>7, <1>8

\* Any other data word leaves the window and the cursor alone.
LEMMA OtherKeepsPair ==
  ASSUME NEW region \in Region, NEW uc \in Commands, NEW reply \in Seq(Nat),
         NEW drawing \in BOOLEAN, NEW at \in Points, NEW painted \in Int,
         NEW cmd \in Nat, NEW args \in Arguments, NEW pixels \in Int, NEW ops \in Int,
         Coupled(region, uc, drawing, at, cmd, args, pixels), pixels < 0,
         ~(cmd \in Corners /\ Len(args) < 4),
         NEW word \in Nat, NEW args2 \in Arguments, cmd \in Corners => args2 = args
  PROVE  Paired(WriteData(Dev(region, uc, reply, drawing, at, painted), word),
                Drv(cmd, args2, region, pixels, ops))
<1> DEFINE u == Dev(region, uc, reply, drawing, at, painted)
<1>1. /\ ~drawing
      /\ cmd \in Corners => uc.is = "none"
      /\ cmd \notin Corners /\ uc.is = "some" => uc.cmd \notin Corners \cup {Draw}
  BY DEF Coupled
<1>2. u.drawing = drawing /\ u.cmd = uc /\ u \in Device
  BY DEF Dev, Device
<1>3. CASE uc.is = "none"
  <2>1. WriteData(u, word) = HandleCmd(u)
    <3> HIDE DEF u
    <3> QED BY <1>1, <1>2, <1>3 DEF WriteData
  <2>2. HandleCmd(u) = u
    <3> HIDE DEF u
    <3> QED BY <1>2, <1>3, CommandHandled
  <2>3. Coupled(region, uc, drawing, at, cmd, args2, pixels)
    BY <1>1, <1>3 DEF Coupled
  <2>4. Paired(Dev(region, uc, reply, drawing, at, painted),
               Drv(cmd, args2, region, pixels, ops))
    BY <2>3, Pairs
  <2> QED BY Zenon, <2>1, <2>2, <2>4
<1>4. CASE uc.is = "some"
  <2> DEFINE grown == Append(uc.args, word)
             some == [uc EXCEPT !.args = grown]
             d == Dev(region, some, reply, drawing, at, painted)
  <2>1. grown \in Seq(Nat)
    <3>1. uc.args \in Seq(Nat)
      BY DEF Commands
    <3> QED BY <3>1
  <2>2. WriteData(u, word) = HandleCmd([u EXCEPT !.cmd.args = Append(@, word)])
    <3> HIDE DEF u
    <3> QED BY <1>1, <1>2, <1>4 DEF WriteData
  <2> HIDE DEF grown
  <2>3. some \in Commands /\ some.is = "some" /\ some.cmd = uc.cmd
    BY <1>4, <2>1 DEF Commands
  <2>4. [u EXCEPT !.cmd.args = Append(@, word)] = d
    <3>1. [u EXCEPT !.cmd.args = Append(@, word)] = [u EXCEPT !.cmd = some]
      BY Zenon, <1>2 DEF grown
    <3> HIDE DEF some
    <3>2. ASSUME NEW x, x = [u EXCEPT !.cmd = some]
          PROVE  x = d
      BY <3>2 DEF Dev
    <3> HIDE DEF u, d
    <3> QED BY Zenon, <3>1, <3>2
  <2> HIDE DEF some
  <2>5. d \in Device /\ d.cmd = some
    BY <2>3 DEF Dev, Device
  <2>6. some.cmd \notin Corners \cup {Draw} /\ cmd \notin Corners
    BY <1>1, <1>4, <2>3
  <2>7. CASE some.cmd = IdCommand
    <3>1. HandleCmd(d) = [d EXCEPT !.cmd = NoCmd, !.reply = IdReply]
      <4> HIDE DEF d
      <4> QED BY <2>3, <2>5, <2>7, CommandHandled
    <3>2. HandleCmd(d) = Dev(region, NoCmd, IdReply, drawing, at, painted)
      BY <3>1 DEF Dev
    <3>3. Coupled(region, NoCmd, drawing, at, cmd, args2, pixels)
      BY <1>1, <2>6, DisplayFacts DEF Coupled
    <3>4. Paired(Dev(region, NoCmd, IdReply, drawing, at, painted),
                 Drv(cmd, args2, region, pixels, ops))
      BY <3>3, Pairs, DisplayFacts
    <3> HIDE DEF u, d
    <3> QED BY Zenon, <2>2, <2>4, <3>2, <3>4 DEF u
  <2>8. CASE some.cmd # IdCommand
    <3>1. HandleCmd(d) = d
      <4> HIDE DEF d
      <4> QED BY <2>3, <2>5, <2>6, <2>8, CommandHandled
    <3>2. Coupled(region, some, drawing, at, cmd, args2, pixels)
      BY <1>1, <2>6 DEF Coupled
    <3>3. Paired(Dev(region, some, reply, drawing, at, painted),
                 Drv(cmd, args2, region, pixels, ops))
      BY <2>3, <3>2, Pairs
    <3> QED BY Zenon, <2>2, <2>4, <3>1, <3>3
  <2> QED BY <2>7, <2>8
<1> QED BY <1>3, <1>4 DEF Commands

DisplayInv == focus = "display" => Paired(unit, drv)

LEMMA DisplayInvInit == Init => DisplayInv
<1> SUFFICES ASSUME Init, focus = "display" PROVE Paired(unit, drv)
  BY DEF DisplayInv
<1>0. PICK off \in BOOLEAN : off = FALSE
  BY Zenon
<1> DEFINE origin == [x |-> 0, y |-> 0]
<1>1. /\ unit = NewDisplay
      /\ drv = [cmd |-> 0, args |-> <<>>, window |-> Window, pixels |-> -1, ops |-> 0]
  BY GroupInits DEF DisplayInit
<1>2. unit = Dev(Window, NoCmd, <<>>, off, origin, 0) /\ drv = Drv(0, <<>>, Window, -1, 0)
  BY Zenon, <1>0, <1>1 DEF NewDisplay, Window, Dev, Drv
<1>3. /\ Window \in Region /\ origin \in Points /\ <<>> \in Seq(Nat) /\ 0 \in Nat
      /\ 0 \in Int /\ -1 \in Int
  BY DEF Window, Region, Points
<1> HIDE DEF origin
<1>4. Coupled(Window, NoCmd, off, origin, 0, <<>>, -1)
  BY <1>0, DisplayFacts DEF Coupled
<1>5. Paired(Dev(Window, NoCmd, <<>>, off, origin, 0), Drv(0, <<>>, Window, -1, 0))
  BY Zenon, <1>3, <1>4, Pairs, DisplayFacts
<1> QED BY Zenon, <1>2, <1>5

LEMMA DisplayInvNext == DisplayInv /\ [Next]_vars => DisplayInv'
<1> SUFFICES ASSUME DisplayInv, [Next]_vars, focus' = "display" PROVE Paired(unit', drv')
  BY Zenon DEF DisplayInv, Paired
<1>1. focus = "display" /\ (DisplayNext \/ UNCHANGED vars)
  BY GroupSteps
<1>2. PICK region \in Region, uc \in Commands, reply \in Seq(Nat), drawing \in BOOLEAN,
           at \in Points, painted \in Int, cmd \in Nat, args \in Arguments, pixels \in Int,
           ops \in Int :
        /\ unit = Dev(region, uc, reply, drawing, at, painted)
        /\ drv = Drv(cmd, args, region, pixels, ops)
        /\ Coupled(region, uc, drawing, at, cmd, args, pixels)
  BY Zenon, <1>1 DEF DisplayInv, Paired
<1>3. drv.cmd = cmd /\ drv.args = args /\ drv.window = region /\ drv.pixels = pixels /\ drv.ops = ops
  BY <1>2 DEF Drv
<1>4. ops + 1 \in Int
  OBVIOUS
<1>5. CASE UNCHANGED vars
  BY Zenon, <1>2, <1>5, Pairs DEF vars
<1>6. CASE DisplayRead
  <2>1. unit' = ReadReply(unit) /\ drv' = drv /\ reply # <<>> /\ unit.reply = reply
    BY <1>2, <1>6 DEF DisplayRead, Dev
  <2> DEFINE rest == Tail(reply)
  <2>2. unit' = [unit EXCEPT !.reply = rest]
    BY <2>1 DEF ReadReply
  <2>3. rest \in Seq(Nat)
    BY <2>1
  <2> HIDE DEF rest
  <2>4. unit' = Dev(region, uc, rest, drawing, at, painted)
    BY <1>2, <2>2 DEF Dev
  <2>5. Paired(Dev(region, uc, rest, drawing, at, painted), Drv(cmd, args, region, pixels, ops))
    BY <1>2, <2>3, Pairs
  <2> QED BY Zenon, <1>2, <2>1, <2>4, <2>5
<1>7. CASE DisplayCommand
  <2>1. PICK new \in Corners \cup {Draw, IdCommand, 0} :
          /\ unit' = WriteCommand(unit, new)
          /\ drv' = [drv EXCEPT !.cmd = new, !.args = <<>>, !.ops = ops + 1,
                                !.pixels = IF new = Draw THEN 0 ELSE -1]
    BY <1>3, <1>7 DEF DisplayCommand, Corners
  <2> DEFINE p2 == IF new = Draw THEN 0 ELSE -1
             more == ops + 1
  <2>2. drv' = Drv(new, <<>>, region, p2, more)
    <3>1. drv' = [drv EXCEPT !.cmd = new, !.args = <<>>, !.ops = more, !.pixels = p2]
      BY Zenon, <2>1
    <3> HIDE DEF p2, more
    <3> QED BY <1>2, <3>1 DEF Drv
  <2>3. Paired(WriteCommand(Dev(region, uc, reply, drawing, at, painted), new),
               Drv(new, <<>>, region, p2, more))
    <3> HIDE DEF more
    <3> QED BY <1>4, CommandKeepsPair DEF more
  <2> QED BY Zenon, <1>2, <2>1, <2>2, <2>3
<1>8. CASE DisplayData
  <2> DEFINE more == ops + 1
  <2>1. PICK word \in IF pixels >= 0 \/ Len(args) % 2 = 0 THEN {0} ELSE 0..2 :
          LET args2 == IF pixels < 0 /\ Len(args) < 4 THEN Append(args, word) ELSE args
          IN /\ unit' = WriteData(unit, word)
             /\ drv' = [drv EXCEPT !.args = args2, !.ops = more,
                                   !.window = IF args2 # args THEN WithArguments(region, cmd, args2)
                                              ELSE region,
                                   !.pixels = IF pixels >= 0 THEN pixels + 1 ELSE pixels]
    BY <1>3, <1>8 DEF DisplayData
  <2> DEFINE args2 == IF pixels < 0 /\ Len(args) < 4 THEN Append(args, word) ELSE args
             w2 == IF args2 # args THEN WithArguments(region, cmd, args2) ELSE region
             p2 == IF pixels >= 0 THEN pixels + 1 ELSE pixels
             u == Dev(region, uc, reply, drawing, at, painted)
  <2>2. word \in Nat /\ (Len(args) % 2 = 0 => word = 0)
    OBVIOUS
  <2>3. drv' = Drv(cmd, args2, w2, p2, more)
    <3>1. drv' = [drv EXCEPT !.args = args2, !.ops = more, !.window = w2, !.pixels = p2]
      BY Zenon, <2>1
    <3> HIDE DEF args2, w2, p2, more
    <3> QED BY <1>2, <3>1 DEF Drv
  <2>4. unit' = WriteData(u, word)
    BY Zenon, <1>2, <2>1
  <2>5. more \in Int
    OBVIOUS
  <2> HIDE DEF more
  <2>6. CASE pixels >= 0
    <3>1. args2 = args /\ w2 = region /\ p2 = pixels + 1
      BY <2>6
    <3>2. Paired(WriteData(u, word), Drv(cmd, args, region, pixels + 1, more))
      BY <1>2, <2>5, <2>6, PixelKeepsPair
    <3> HIDE DEF args2, w2, p2, u
    <3> QED BY Zenon, <2>3, <2>4, <3>1, <3>2
  <2>7. CASE pixels < 0 /\ cmd \in Corners /\ Len(args) < 4
    <3> DEFINE grown == Append(args, word)
    <3>1. Paired(WriteData(u, word),
                 Drv(cmd, grown, WithArguments(region, cmd, grown), pixels, more))
      BY <1>2, <2>2, <2>5, <2>7, CoordinateKeepsPair
    <3>2. grown # args
      BY <2>2, <2>7, ArgumentsGrow
    <3>3. args2 = grown
      BY Zenon, <2>7
    <3>4. p2 = pixels
      BY <2>7
    <3> HIDE DEF grown, args2, p2, u
    <3>5. w2 = WithArguments(region, cmd, grown)
      BY Zenon, <3>2, <3>3
    <3> HIDE DEF w2
    <3> QED BY Zenon, <2>3, <2>4, <3>1, <3>3, <3>4, <3>5
  <2>8. CASE pixels < 0 /\ ~(cmd \in Corners /\ Len(args) < 4)
    <3>1. args2 \in Arguments /\ (cmd \in Corners => args2 = args)
      <4>1. CASE Len(args) < 4
        <5>1. args2 = Append(args, word)
          BY Zenon, <2>8, <4>1
        <5>2. Append(args, word) \in Arguments
          BY <2>2, <4>1, ArgumentsGrow
        <5> HIDE DEF args2
        <5> QED BY Zenon, <2>8, <4>1, <5>1, <5>2
      <4>2. CASE ~(Len(args) < 4)
        BY Zenon, <4>2
      <4> QED BY Zenon, <4>1, <4>2
    <3>2. p2 = pixels
      BY <2>8
    <3> HIDE DEF args2
    <3>3. w2 = region
      <4>1. CASE cmd \in Corners
        BY Zenon, <3>1, <4>1
      <4>2. CASE cmd \notin Corners
        <5>1. WithArguments(region, cmd, args2) = region
          BY <4>2, DisplayFacts DEF WithArguments
        <5> QED BY Zenon, <5>1
      <4> QED BY Zenon, <4>1, <4>2
    <3>4. Paired(WriteData(u, word), Drv(cmd, args2, region, pixels, more))
      BY <1>2, <2>2, <2>5, <2>8, <3>1, OtherKeepsPair
    <3> HIDE DEF p2, w2, u
    <3> QED BY Zenon, <2>3, <2>4, <3>2, <3>3, <3>4
  <2>9. pixels >= 0 \/ pixels < 0
    OBVIOUS
  <2> QED BY Zenon, <2>6, <2>7, <2>8, <2>9
<1> QED BY <1>1, <1>5, <1>6, <1>7, <1>8 DEF DisplayNext

LEMMA DisplayInvHolds == Spec => []DisplayInv
<1> QED BY DisplayInvInit, DisplayInvNext, PTL DEF Spec

LEMMA DisplayInOrder ==
  DisplayInv =>
    (focus = "display" =>
       /\ unit.drawing = (drv.pixels >= 0) /\ unit.region = drv.window
       /\ drv.pixels >= 0 => unit.at = CursorAt(drv.window, drv.pixels))
<1> SUFFICES ASSUME DisplayInv, focus = "display"
             PROVE  /\ unit.drawing = (drv.pixels >= 0) /\ unit.region = drv.window
                    /\ drv.pixels >= 0 => unit.at = CursorAt(drv.window, drv.pixels)
  OBVIOUS
<1>1. PICK region \in Region, uc \in Commands, reply \in Seq(Nat), drawing \in BOOLEAN,
           at \in Points, painted \in Int, cmd \in Nat, args \in Arguments, pixels \in Int,
           ops \in Int :
        /\ unit = Dev(region, uc, reply, drawing, at, painted)
        /\ drv = Drv(cmd, args, region, pixels, ops)
        /\ Coupled(region, uc, drawing, at, cmd, args, pixels)
  BY Zenon DEF DisplayInv, Paired
<1>2. unit.drawing = drawing /\ unit.region = region /\ unit.at = at
  BY <1>1 DEF Dev
<1>3. drv.pixels = pixels /\ drv.window = region
  BY <1>1 DEF Drv
<1>4. drawing = (pixels >= 0) /\ (pixels >= 0 => at = CursorAt(region, pixels))
  BY <1>1 DEF Coupled
<1> QED BY Zenon, <1>2, <1>3, <1>4

-----------------------------------------------------------------------------
(* The LCD on the serial bus.                                               *)

Cells == 0..Width * Height - 1

Panel(drawing, collecting, at) ==
  [is |-> "lcd", drawing |-> drawing, collecting |-> collecting, at |-> at]

Count(drawing, at) == IF drawing THEN at ELSE 0

\* The cursor goes through the cells in order, and from the last one to the first.
LEMMA NextCell ==
  ASSUME NEW at \in Cells
  PROVE  NextPixel(at) = (at + 1) % (Width * Height) /\ NextPixel(at) \in Cells
<1> DEFINE n == Width * Height
           x == at % Width
           y == at \div Width
<1>1. n \in Nat \ {0} /\ at \in 0..n - 1
  BY DEF Cells
<1>2. x \in 0..Width - 1 /\ y \in Int /\ at = Width * y + x
  <2>1. at \in Int /\ Width \in Nat \ {0}
    BY <1>1
  <2> QED BY <2>1, QuotientRemainder
<1>3. NextPixel(at) = IF x + 1 < Width THEN at + 1
                      ELSE IF y + 1 < Height THEN (y + 1) * Width ELSE 0
  BY DEF NextPixel
<1> HIDE DEF x, y
<1>4. y \in 0..Height - 1
  BY <1>1, <1>2
<1>5. CASE x + 1 < Width
  <2>1. Width * y + Width <= Width * Height
    BY <1>4
  <2>2. at + 1 \in 0..n - 1
    BY <1>1, <1>2, <1>4, <1>5, <2>1
  <2> HIDE DEF n
  <2>3. (at + 1) % n = at + 1
    BY <1>1, <2>2, SmallRemainder
  <2> QED BY <1>3, <1>5, <2>2, <2>3 DEF n, Cells
<1>6. CASE ~(x + 1 < Width) /\ y + 1 < Height
  <2>1. at + 1 = (y + 1) * Width
    BY <1>2, <1>4, <1>6
  <2>2. Width * (y + 1) + Width <= Width * Height
    BY <1>4, <1>6
  <2>3. at + 1 \in 0..n - 1
    BY <1>1, <1>2, <1>4, <2>1, <2>2
  <2> HIDE DEF n
  <2>4. (at + 1) % n = at + 1
    BY <1>1, <2>3, SmallRemainder
  <2> QED BY <1>3, <1>6, <2>1, <2>3, <2>4 DEF n, Cells
<1>7. CASE ~(x + 1 < Width) /\ ~(y + 1 < Height)
  <2>1. y + 1 = Height /\ x + 1 = Width
    BY <1>2, <1>4, <1>7
  <2>2. at + 1 = n
    BY <1>2, <1>4, <2>1
  <2> HIDE DEF n
  <2>3. n % n = 0
    BY <1>1
  <2> QED BY <1>1, <1>3, <1>7, <2>2, <2>3 DEF n, Cells
<1> QED BY <1>5, <1>6, <1>7

\* What a byte does to an LCD: two pixels once drawing has started, none before.
Moved(drawing, collecting, at, byte, d, c, a) ==
  /\ LcdWrite(Panel(drawing, collecting, at), byte) = Panel(d, c, a)
  /\ drawing => d /\ a = (at + 2) % (Width * Height)
  /\ ~drawing /\ d => byte = StartDrawing /\ ~collecting /\ a = 0
  /\ ~drawing /\ ~d => ~(byte = StartDrawing /\ ~collecting)
  /\ collecting => c

Movable(drawing, collecting, at, byte) ==
  \E d \in BOOLEAN, c \in BOOLEAN, a \in Cells : Moved(drawing, collecting, at, byte, d, c, a)

LEMMA PanelWritten ==
  ASSUME NEW drawing \in BOOLEAN, NEW collecting \in BOOLEAN, NEW at \in Cells, NEW byte
  PROVE  Movable(drawing, collecting, at, byte)
<1>0. PICK on \in BOOLEAN : on = TRUE
  BY Zenon
<1> DEFINE l == Panel(drawing, collecting, at)
<1>1. l.drawing = drawing /\ l.collecting = collecting /\ l.at = at
  BY DEF Panel
<1>2. CASE drawing
  <2> DEFINE a == NextPixel(NextPixel(at))
  <2>1. a \in Cells /\ a = (at + 2) % (Width * Height)
    <3> DEFINE n == Width * Height
               b == NextPixel(at)
    <3>1. n \in Nat \ {0} /\ at \in Int
      BY DEF Cells
    <3>2. b \in Cells /\ b = (at + 1) % n
      BY NextCell
    <3>3. a \in Cells /\ a = (b + 1) % n
      <4> HIDE DEF b
      <4>1. NextPixel(b) \in Cells /\ NextPixel(b) = (b + 1) % n
        BY <3>2, NextCell
      <4> QED BY Zenon, <4>1 DEF b
    <3> HIDE DEF n, a, b
    <3>4. (((at + 1) % n) + 1) % n = ((at + 1) + 1) % n
      <4>1. at + 1 \in Int /\ 1 \in Int
        BY <3>1
      <4> QED BY <3>1, <4>1, ReducedTerm
    <3>5. (at + 1) + 1 = at + 2
      BY <3>1
    <3> QED BY Zenon, <3>2, <3>3, <3>4, <3>5 DEF n
  <2>2. LcdWrite(l, byte) = [l EXCEPT !.at = a]
    <3> HIDE DEF l
    <3> QED BY <1>1, <1>2 DEF LcdWrite
  <2> HIDE DEF a
  <2>3. LcdWrite(l, byte) = Panel(drawing, collecting, a)
    BY <2>2 DEF Panel
  <2> QED BY Zenon, <1>2, <2>1, <2>3 DEF Moved, Movable
<1>3. CASE ~drawing /\ ~collecting /\ byte = StartDrawing
  <2>1. LcdWrite(l, byte) = [l EXCEPT !.drawing = on, !.at = 0]
    <3>1. LcdWrite(l, byte) = [l EXCEPT !.drawing = TRUE, !.at = 0]
      <4> HIDE DEF l
      <4> QED BY <1>1, <1>3 DEF LcdWrite
    <3> QED BY Zenon, <1>0, <3>1
  <2>2. LcdWrite(l, byte) = Panel(on, collecting, 0)
    BY <2>1 DEF Panel
  <2>3. 0 \in Cells
    BY DEF Cells
  <2> QED BY Zenon, <1>0, <1>3, <2>2, <2>3 DEF Moved, Movable
<1>4. CASE ~drawing /\ ~collecting /\ byte \in LcdCommands \ {StartDrawing}
  <2>1. LcdWrite(l, byte) = [l EXCEPT !.collecting = on]
    <3>1. LcdWrite(l, byte) = [l EXCEPT !.collecting = TRUE]
      <4> HIDE DEF l
      <4> QED BY <1>1, <1>4 DEF LcdWrite
    <3> QED BY Zenon, <1>0, <3>1
  <2>2. LcdWrite(l, byte) = Panel(drawing, on, at)
    BY <2>1 DEF Panel
  <2>3. byte # StartDrawing
    BY <1>4
  <2> QED BY Zenon, <1>0, <1>4, <2>2, <2>3 DEF Moved, Movable
<1>5. CASE ~drawing /\ (collecting \/ byte \notin LcdCommands)
  <2>1. LcdWrite(l, byte) = l
    <3>1. StartDrawing \in LcdCommands
      BY DEF LcdCommands
    <3> HIDE DEF l
    <3> QED BY <1>1, <1>5, <3>1 DEF LcdWrite
  <2>2. ~(byte = StartDrawing /\ ~collecting)
    BY <1>5 DEF LcdCommands
  <2> QED BY Zenon, <1>5, <2>1, <2>2 DEF Moved, Movable
<1> QED BY <1>2, <1>3, <1>4, <1>5

\* The other devices stay what they are.
LEMMA OtherDevices ==
  ASSUME NEW d, "is" \in DOMAIN d, d.is \in {"flash", "touch"}, NEW byte, NEW pen
  PROVE  /\ "is" \in DOMAIN DeviceRead(d) /\ DeviceRead(d).is = d.is
         /\ "is" \in DOMAIN DeviceWrite(d, byte, pen) /\ DeviceWrite(d, byte, pen).is = d.is
<1>1. CASE d.is = "flash"
  <2>1. "is" \in DOMAIN FlashRead(d) /\ FlashRead(d).is = d.is
    BY DEF FlashRead
  <2>2. ASSUME NEW cmd, NEW args
        PROVE  "is" \in DOMAIN Processed(d, cmd, args) /\ Processed(d, cmd, args).is = d.is
    BY DEF Processed
  <2>3. "is" \in DOMAIN FlashWrite(d, byte) /\ FlashWrite(d, byte).is = d.is
    BY <2>2 DEF FlashWrite
  <2>4. DeviceRead(d) = FlashRead(d) /\ DeviceWrite(d, byte, pen) = FlashWrite(d, byte)
    BY <1>1 DEF DeviceRead, DeviceWrite
  <2> QED BY Zenon, <2>1, <2>3, <2>4
<1>2. CASE d.is = "touch"
  <2>1. "is" \in DOMAIN DeviceRead(d) /\ DeviceRead(d).is = d.is
    BY <1>2 DEF DeviceRead
  <2>2. "is" \in DOMAIN TouchWrite(d, byte, pen) /\ TouchWrite(d, byte, pen).is = d.is
    BY DEF TouchWrite
  <2>3. DeviceWrite(d, byte, pen) = TouchWrite(d, byte, pen)
    BY <1>2 DEF DeviceWrite
  <2> QED BY Zenon, <2>1, <2>2, <2>3
<1> QED BY <1>1, <1>2

\* The pixels a frame adds: two for a byte after the one that started drawing.
NarrowFrame(l, drawing, at, low, d, c, a) ==
  /\ LcdWrite(l, low) = Panel(d, c, a)
  /\ Count(d, a) = (Count(drawing, at) + 2 * (IF drawing THEN 1 ELSE 0)) % (Width * Height)

WideFrame(l, drawing, at, high, low, d, c, a) ==
  /\ LcdWrite(LcdWrite(l, high), low) = Panel(d, c, a)
  /\ Count(d, a) = (Count(drawing, at)
                       + 2 * (IF drawing THEN 2
                              ELSE IF d /\ high = StartDrawing THEN 1 ELSE 0))
                     % (Width * Height)

LEMMA NarrowWritten ==
  ASSUME NEW drawing \in BOOLEAN, NEW collecting \in BOOLEAN, NEW at \in Cells, NEW low
  PROVE  \E d \in BOOLEAN, c \in BOOLEAN, a \in Cells :
           NarrowFrame(Panel(drawing, collecting, at), drawing, at, low, d, c, a)
<1> DEFINE n == Width * Height
           l == Panel(drawing, collecting, at)
           new == IF drawing THEN 1 ELSE 0
<1>1. n \in Nat \ {0} /\ at \in Int
  BY DEF Cells
<1>2. PICK d \in BOOLEAN, c \in BOOLEAN, a \in Cells : Moved(drawing, collecting, at, low, d, c, a)
  BY Zenon, PanelWritten DEF Movable
<1>3. /\ drawing => d /\ a = (at + 2) % n
      /\ ~drawing /\ d => a = 0
  BY Zenon, <1>2 DEF Moved
<1> HIDE DEF n
<1>4. Count(d, a) = (Count(drawing, at) + 2 * new) % n
  <2>1. CASE drawing
    <3>1. Count(d, a) = a /\ Count(drawing, at) = at
      BY <1>3, <2>1 DEF Count
    <3>2. 2 * new = 2
      BY <2>1
    <3> HIDE DEF new
    <3> QED BY Zenon, <1>3, <2>1, <3>1, <3>2
  <2>2. CASE ~drawing
    <3>1. Count(d, a) = 0 /\ Count(drawing, at) = 0
      BY <1>3, <2>2 DEF Count
    <3>2. 0 + 2 * new = 0 /\ 0 % n = 0
      BY <1>1, <2>2
    <3> HIDE DEF new
    <3> QED BY Zenon, <3>1, <3>2
  <2> QED BY Zenon, <2>1, <2>2
<1> QED BY Zenon, <1>2, <1>4 DEF NarrowFrame, Moved, n

LEMMA WideWritten ==
  ASSUME NEW drawing \in BOOLEAN, NEW collecting \in BOOLEAN, NEW at \in Cells,
         NEW high, NEW low
  PROVE  \E d \in BOOLEAN, c \in BOOLEAN, a \in Cells :
           WideFrame(Panel(drawing, collecting, at), drawing, at, high, low, d, c, a)
<1> DEFINE n == Width * Height
           l == Panel(drawing, collecting, at)
<1>1. n \in Nat \ {0} /\ at \in Int
  BY DEF Cells
<1>2. PICK d2 \in BOOLEAN, c2 \in BOOLEAN, a2 \in Cells :
        Moved(drawing, collecting, at, high, d2, c2, a2)
  BY Zenon, PanelWritten DEF Movable
<1>3. PICK d \in BOOLEAN, c \in BOOLEAN, a \in Cells : Moved(d2, c2, a2, low, d, c, a)
  <2>1. Movable(d2, c2, a2, low)
    BY Zenon, <1>2, PanelWritten
  <2> QED BY Zenon, <2>1 DEF Movable
<1>4. /\ drawing => d2 /\ a2 = (at + 2) % n
      /\ ~drawing /\ d2 => high = StartDrawing /\ ~collecting /\ a2 = 0
      /\ ~drawing /\ ~d2 => ~(high = StartDrawing /\ ~collecting)
      /\ collecting => c2
  BY Zenon, <1>2 DEF Moved
<1>5. /\ d2 => d /\ a = (a2 + 2) % n
      /\ ~d2 /\ d => ~c2 /\ a = 0
  BY Zenon, <1>3 DEF Moved
<1> DEFINE new == IF drawing THEN 2 ELSE IF d /\ high = StartDrawing THEN 1 ELSE 0
<1> HIDE DEF n
<1>6. Count(d, a) = (Count(drawing, at) + 2 * new) % n
  <2>1. CASE drawing
    <3>1. Count(d, a) = a /\ Count(drawing, at) = at
      BY <1>4, <1>5, <2>1 DEF Count
    <3>2. a = (((at + 2) % n) + 2) % n
      BY Zenon, <1>4, <1>5, <2>1
    <3>3. (((at + 2) % n) + 2) % n = ((at + 2) + 2) % n
      <4>1. at + 2 \in Int /\ 2 \in Int
        BY <1>1
      <4> QED BY <1>1, <4>1, ReducedTerm
    <3>4. (at + 2) + 2 = at + 2 * new
      BY <1>1, <2>1
    <3> HIDE DEF new
    <3> QED BY Zenon, <3>1, <3>2, <3>3, <3>4
  <2>2. CASE ~drawing /\ d2
    <3>1. Count(d, a) = a /\ Count(drawing, at) = 0 /\ d /\ high = StartDrawing
      BY <1>4, <1>5, <2>2 DEF Count
    <3>2. a = (a2 + 2) % n /\ a2 = 0
      BY Zenon, <1>4, <1>5, <2>2
    <3>3. 0 + 2 = 0 + 2 * new
      BY <2>2, <3>1
    <3> HIDE DEF new
    <3> QED BY Zenon, <3>1, <3>2, <3>3
  <2>3. CASE ~drawing /\ ~d2
    <3>1. Count(d, a) = 0 /\ Count(drawing, at) = 0
      BY <1>5, <2>3 DEF Count
    <3>2. ~(d /\ high = StartDrawing)
      BY Zenon, <1>4, <1>5, <2>3
    <3>3. 0 + 2 * new = 0 /\ 0 % n = 0
      BY <1>1, <2>3, <3>2
    <3> HIDE DEF new
    <3> QED BY Zenon, <3>1, <3>3
  <2> QED BY Zenon, <2>1, <2>2, <2>3
<1>7. LcdWrite(LcdWrite(l, high), low) = Panel(d, c, a)
  BY Zenon, <1>2, <1>3 DEF Moved
<1> QED BY Zenon, <1>6, <1>7 DEF WideFrame, n

\* The LCD's cursor is at the pixel firmware has counted to.
Served(u, v) ==
  /\ {"spi", "dev", "pen"} \subseteq DOMAIN u /\ "pixels" \in DOMAIN v /\ "is" \in DOMAIN u.dev
  /\ \/ u.dev.is \in {"flash", "touch"}
     \/ \E drawing \in BOOLEAN, collecting \in BOOLEAN, at \in Cells :
          u.dev = Panel(drawing, collecting, at) /\ v.pixels = Count(drawing, at)

LcdInv == focus = "spi" => Served(unit, drv)

LEMMA LcdInvInit == Init => LcdInv
<1> SUFFICES ASSUME Init, focus = "spi" PROVE Served(unit, drv)
  BY DEF LcdInv
<1>0. PICK off \in BOOLEAN : off = FALSE
  BY Zenon
<1>1. PICK d \in {NewFlash, NewTouch, NewLcd} : unit = [spi |-> NewSpi, dev |-> d, pen |-> Lifted]
  BY Zenon, GroupInits DEF SpiInit
<1>2. "pixels" \in DOMAIN drv /\ drv.pixels = 0
  <2> DEFINE pen == Lifted
  <2>1. drv = [step |-> "idle", message |-> <<>>, at |-> 0, in |-> <<>>, asked |-> pen,
               ops |-> 0, pixels |-> 0]
    BY Zenon, GroupInits DEF SpiInit
  <2> HIDE DEF pen
  <2> QED BY <2>1
<1>3. {"spi", "dev", "pen"} \subseteq DOMAIN unit /\ unit.dev = d
  <2> DEFINE pen == Lifted
             spi == NewSpi
  <2>1. unit = [spi |-> spi, dev |-> d, pen |-> pen]
    BY Zenon, <1>1
  <2> HIDE DEF pen, spi
  <2> QED BY <2>1
<1>4. CASE d \in {NewFlash, NewTouch}
  <2>1. "is" \in DOMAIN d /\ d.is \in {"flash", "touch"}
    BY <1>4 DEF NewFlash, NewTouch
  <2> QED BY Zenon, <1>2, <1>3, <2>1 DEF Served
<1>5. CASE d = NewLcd
  <2>1. d = Panel(off, off, 0)
    BY Zenon, <1>0, <1>5 DEF NewLcd, Panel
  <2>2. "is" \in DOMAIN d
    BY <2>1 DEF Panel
  <2>3. 0 \in Cells /\ Count(off, 0) = 0
    BY <1>0 DEF Cells, Count
  <2> QED BY Zenon, <1>2, <1>3, <2>1, <2>2, <2>3 DEF Served
<1> QED BY <1>1, <1>4, <1>5

LEMMA LcdInvNext == LcdInv /\ [Next]_vars => LcdInv'
<1> SUFFICES ASSUME LcdInv, [Next]_vars, focus' = "spi" PROVE Served(unit', drv')
  BY Zenon DEF LcdInv, Served, Cells
<1>1. focus = "spi" /\ (SpiNext \/ UNCHANGED vars)
  BY GroupSteps
<1>2. Served(unit, drv)
  BY <1>1 DEF LcdInv
<1>3. /\ {"spi", "dev", "pen"} \subseteq DOMAIN unit /\ "pixels" \in DOMAIN drv
      /\ "is" \in DOMAIN unit.dev
  BY <1>2 DEF Served
<1>4. ASSUME unit'.dev = unit.dev, {"spi", "dev", "pen"} \subseteq DOMAIN unit',
             drv'.pixels = drv.pixels, "pixels" \in DOMAIN drv'
      PROVE  Served(unit', drv')
  BY Zenon, <1>2, <1>4 DEF Served
<1>5. CASE UNCHANGED vars
  BY Zenon, <1>2, <1>5 DEF vars
<1>6. CASE SpiStart
  <2>1. PICK m \in SpiMessages(unit.dev), wide \in BOOLEAN :
          /\ unit' = [unit EXCEPT !.spi.wide = wide]
          /\ drv' = [drv EXCEPT !.step = "write", !.message = m, !.at = 1, !.in = <<>>,
                                !.ops = @ + 1]
    BY Zenon, <1>6 DEF SpiStart
  <2>2. unit'.dev = unit.dev /\ {"spi", "dev", "pen"} \subseteq DOMAIN unit'
    BY <1>3, <2>1
  <2>3. drv'.pixels = drv.pixels /\ "pixels" \in DOMAIN drv'
    BY <1>3, <2>1
  <2> QED BY <1>4, <2>2, <2>3
<1>7. CASE SpiWrite
  <2> DEFINE after == WriteDr(unit.spi, unit.dev, Frame, unit.pen)
             bytes == IF unit.spi.wide THEN 2 ELSE 1
             new == IF unit.dev.is # "lcd" THEN 0
                    ELSE IF unit.dev.drawing THEN bytes
                    ELSE IF after.dev.drawing /\ unit.spi.wide /\ Frame \div 256 = StartDrawing
                         THEN 1 ELSE 0
             count == (drv.pixels + 2 * new) % (Width * Height)
             asked == IF drv.at = 1 THEN unit.pen ELSE drv.asked
             spi == after.spi
             dev == after.dev
  <2>1. /\ unit' = [unit EXCEPT !.spi = spi, !.dev = dev]
        /\ drv' = [drv EXCEPT !.step = "wait", !.pixels = count, !.asked = asked]
    BY Zenon, <1>7 DEF SpiWrite
  <2>2. unit'.dev = dev /\ {"spi", "dev", "pen"} \subseteq DOMAIN unit'
    <3> HIDE DEF spi, dev
    <3> QED BY <1>3, <2>1
  <2>3. drv'.pixels = count /\ "pixels" \in DOMAIN drv'
    <3> HIDE DEF count, asked
    <3> QED BY <1>3, <2>1
  <2>4. CASE unit.dev.is \in {"flash", "touch"}
    <3>1. "is" \in DOMAIN dev /\ dev.is = unit.dev.is
      <4> DEFINE low == Frame % 256
                 high == Frame \div 256
                 before == ReadsDone(unit.spi, unit.dev)
                 first == DeviceWrite(before, high, unit.pen)
      <4>1. dev = IF unit.spi.wide THEN DeviceWrite(first, low, unit.pen)
                  ELSE DeviceWrite(before, low, unit.pen)
        BY Zenon DEF WriteDr
      <4> HIDE DEF low, high, dev
      <4>2. "is" \in DOMAIN before /\ before.is = unit.dev.is
        BY Zenon, <1>3, <2>4, OtherDevices DEF ReadsDone
      <4> HIDE DEF before
      <4>3. before.is \in {"flash", "touch"}
        BY Zenon, <2>4, <4>2
      <4>4. "is" \in DOMAIN first /\ first.is = unit.dev.is
        BY <4>2, <4>3, OtherDevices
      <4>5. "is" \in DOMAIN DeviceWrite(before, low, unit.pen)
              /\ DeviceWrite(before, low, unit.pen).is = unit.dev.is
        BY <4>2, <4>3, OtherDevices
      <4> HIDE DEF first
      <4>6. first.is \in {"flash", "touch"}
        BY Zenon, <2>4, <4>4
      <4>7. "is" \in DOMAIN DeviceWrite(first, low, unit.pen)
              /\ DeviceWrite(first, low, unit.pen).is = unit.dev.is
        BY <4>4, <4>6, OtherDevices
      <4> QED BY Zenon, <4>1, <4>5, <4>7
    <3> QED BY Zenon, <2>2, <2>3, <2>4, <3>1 DEF Served
  <2>5. CASE unit.dev.is \notin {"flash", "touch"}
    <3>1. PICK drawing \in BOOLEAN, collecting \in BOOLEAN, at \in Cells :
            unit.dev = Panel(drawing, collecting, at) /\ drv.pixels = Count(drawing, at)
      BY Zenon, <1>2, <2>5 DEF Served
    <3> DEFINE low == Frame % 256
               high == Frame \div 256
               l == Panel(drawing, collecting, at)
    <3>2. l.is = "lcd" /\ l.drawing = drawing
      BY DEF Panel
    <3>3. ASSUME NEW d \in BOOLEAN, NEW c \in BOOLEAN, NEW a \in Cells
          PROVE  /\ Panel(d, c, a).is = "lcd" /\ "is" \in DOMAIN Panel(d, c, a)
                 /\ Panel(d, c, a).drawing = d
      BY DEF Panel
    <3> HIDE DEF l, low, high
    <3>4. DeviceRead(l) = l
      BY <3>2 DEF DeviceRead
    <3>5. ASSUME NEW d \in BOOLEAN, NEW c \in BOOLEAN, NEW a \in Cells, NEW byte
          PROVE  DeviceWrite(Panel(d, c, a), byte, unit.pen) = LcdWrite(Panel(d, c, a), byte)
      <4> DEFINE m == Panel(d, c, a)
      <4>1. m.is = "lcd"
        BY Zenon, <3>3
      <4> HIDE DEF m
      <4>2. DeviceWrite(m, byte, unit.pen) = LcdWrite(m, byte)
        BY <4>1 DEF DeviceWrite
      <4> QED BY Zenon, <4>2 DEF m
    <3>6. dev = IF unit.spi.wide
                THEN DeviceWrite(DeviceWrite(ReadsDone(unit.spi, l), high, unit.pen), low, unit.pen)
                ELSE DeviceWrite(ReadsDone(unit.spi, l), low, unit.pen)
      BY Zenon, <3>1 DEF WriteDr, l, low, high
    <3>7. ReadsDone(unit.spi, l) = l
      BY Zenon, <3>4 DEF ReadsDone
    <3>8. CASE unit.spi.wide
      <4>1. PICK d \in BOOLEAN, c \in BOOLEAN, a \in Cells :
              WideFrame(l, drawing, at, high, low, d, c, a)
        BY WideWritten DEF l
      <4>2. PICK d1 \in BOOLEAN, c1 \in BOOLEAN, a1 \in Cells : LcdWrite(l, high) = Panel(d1, c1, a1)
        BY PanelWritten DEF l, Moved, Movable
      <4> HIDE DEF dev
      <4>3. dev = Panel(d, c, a)
        <5>1. DeviceWrite(l, high, unit.pen) = LcdWrite(l, high)
          BY <3>5 DEF l
        <5>2. DeviceWrite(Panel(d1, c1, a1), low, unit.pen) = LcdWrite(Panel(d1, c1, a1), low)
          BY <3>5
        <5> QED BY Zenon, <3>6, <3>7, <3>8, <4>1, <4>2, <5>1, <5>2 DEF WideFrame
      <4>4. dev.drawing = d /\ dev.is = "lcd" /\ "is" \in DOMAIN dev
        BY Zenon, <3>3, <4>3
      <4>5. new = IF drawing THEN 2 ELSE IF d /\ high = StartDrawing THEN 1 ELSE 0
        <5>1. unit.dev.is = "lcd" /\ unit.dev.drawing = drawing
          BY Zenon, <3>1, <3>2 DEF l
        <5>2. bytes = 2
          BY Zenon, <3>8
        <5>3. new = IF drawing THEN 2
                    ELSE IF dev.drawing /\ unit.spi.wide /\ high = StartDrawing THEN 1 ELSE 0
          BY Zenon, <5>1, <5>2 DEF high, dev
        <5> HIDE DEF new
        <5> QED BY Zenon, <3>8, <4>4, <5>3
      <4>6. count = Count(d, a)
        <5> HIDE DEF new
        <5> QED BY Zenon, <3>1, <4>1, <4>5 DEF WideFrame
      <4> HIDE DEF count
      <4> QED BY Zenon, <2>2, <2>3, <4>3, <4>4, <4>6 DEF Served
    <3>9. CASE ~unit.spi.wide
      <4>1. PICK d \in BOOLEAN, c \in BOOLEAN, a \in Cells :
              NarrowFrame(l, drawing, at, low, d, c, a)
        BY ZenonT(40), NarrowWritten DEF l
      <4> HIDE DEF dev
      <4>2. dev = Panel(d, c, a)
        <5>1. DeviceWrite(l, low, unit.pen) = LcdWrite(l, low)
          BY <3>5 DEF l
        <5> QED BY Zenon, <3>6, <3>7, <3>9, <4>1, <5>1 DEF NarrowFrame
      <4>3. dev.is = "lcd" /\ "is" \in DOMAIN dev
        BY Zenon, <3>3, <4>2
      <4>4. new = IF drawing THEN 1 ELSE 0
        <5>1. unit.dev.is = "lcd" /\ unit.dev.drawing = drawing
          BY Zenon, <3>1, <3>2 DEF l
        <5>2. bytes = 1
          BY Zenon, <3>9
        <5> QED BY Zenon, <3>9, <5>1, <5>2
      <4>5. count = Count(d, a)
        <5> HIDE DEF new
        <5> QED BY Zenon, <3>1, <4>1, <4>4 DEF NarrowFrame
      <4> HIDE DEF count
      <4> QED BY Zenon, <2>2, <2>3, <4>2, <4>3, <4>5 DEF Served
    <3> QED BY Zenon, <3>8, <3>9
  <2> QED BY Zenon, <2>4, <2>5
<1>8. CASE SpiWait
  <2> DEFINE spi == ReadSr(unit.spi)
             step == IF unit'.spi.ready THEN "read" ELSE "wait"
  <2>1. unit' = [unit EXCEPT !.spi = spi] /\ drv' = [drv EXCEPT !.step = step]
    BY Zenon, <1>8 DEF SpiWait
  <2> HIDE DEF spi, step
  <2>2. unit'.dev = unit.dev /\ {"spi", "dev", "pen"} \subseteq DOMAIN unit'
    BY <1>3, <2>1
  <2>3. drv'.pixels = drv.pixels /\ "pixels" \in DOMAIN drv'
    BY <1>3, <2>1
  <2> QED BY <1>4, <2>2, <2>3
<1>9. CASE SpiRead
  <2>1. PICK in, step : drv' = [drv EXCEPT !.in = in, !.at = @ + 1, !.step = step]
    BY ZenonT(40), <1>9 DEF SpiRead
  <2>2. unit' = unit
    BY <1>9 DEF SpiRead
  <2>3. drv'.pixels = drv.pixels /\ "pixels" \in DOMAIN drv'
    BY <1>3, <2>1
  <2> QED BY <1>3, <1>4, <2>2, <2>3
<1>10. CASE PenEvent
  <2>1. PICK pen : unit' = [unit EXCEPT !.pen = pen]
    BY Zenon, <1>10 DEF PenEvent
  <2>2. drv' = drv
    BY <1>10 DEF PenEvent
  <2>3. unit'.dev = unit.dev /\ {"spi", "dev", "pen"} \subseteq DOMAIN unit'
    BY <1>3, <2>1
  <2> QED BY <1>3, <1>4, <2>2, <2>3
<1> QED BY Zenon, <1>1, <1>5, <1>6, <1>7, <1>8, <1>9, <1>10 DEF SpiNext

LEMMA LcdInvHolds == Spec => []LcdInv
<1> QED BY LcdInvInit, LcdInvNext, PTL DEF Spec

LEMMA LcdInOrder ==
  LcdInv => (focus = "spi" /\ unit.dev.is = "lcd" /\ unit.dev.drawing => unit.dev.at = drv.pixels)
<1> SUFFICES ASSUME LcdInv, focus = "spi", unit.dev.is = "lcd", unit.dev.drawing
             PROVE  unit.dev.at = drv.pixels
  OBVIOUS
<1>1. "lcd" \notin {"flash", "touch"}
  OBVIOUS
<1>2. PICK drawing \in BOOLEAN, collecting \in BOOLEAN, at \in Cells :
        unit.dev = Panel(drawing, collecting, at) /\ drv.pixels = Count(drawing, at)
  BY Zenon, <1>1 DEF LcdInv, Served
<1>3. unit.dev.drawing = drawing /\ unit.dev.at = at
  BY <1>2 DEF Panel
<1> QED BY Zenon, <1>2, <1>3 DEF Count

(* Whatever commands and data come in whatever order, the display draws in *)
(* the window of the last whole window commands, every pixel where the     *)
(* number of pixels since Draw puts it, and the LCD along its rows, in     *)
(* frames of one or two bytes (display.rs handle_cmd and draw_pixel,       *)
(* lcd.rs write and draw_pixel).                                           *)
THEOREM PixelsInOrder == Spec => []PaintedInOrder
<1>1. DisplayInv /\ LcdInv => PaintedInOrder
  BY Zenon, DisplayInOrder, LcdInOrder DEF PaintedInOrder
<1> QED BY <1>1, DisplayInvHolds, LcdInvHolds, PTL

-----------------------------------------------------------------------------
(* The USB controller and its driver.                                       *)

HIDE SizesAssumption
USE OtgAssumption, UsbAssumption

Bytes == Nat \X Nat

InEp == [ena : BOOLEAN, int : SUBSET {"TXFE", "XFRC"}, size : Nat, sent : Nat]

OutEp == [ena : BOOLEAN, active : BOOLEAN, int : SUBSET {"STUP", "XFRC"}, size : Nat]

Entries == [sts : {"SETUP_DATA", "SETUP_COMP", "OUT_DATA", "OUT_COMP"}, n : Nat, ep : Endpoints]

Fields == {"present", "inbox", "outbox", "stage", "gintsts", "gintmsk", "attached", "daintmsk",
           "empmsk", "inep", "outep", "rx_fifo", "rx_status", "tx_fifo", "step"}

\* The controller, as far as transfers to the host depend on it.
Typed(o) ==
  /\ Fields \subseteq DOMAIN o
  /\ o.inbox \in Nat
  /\ o.outbox \in Seq(Bytes)
  /\ o.empmsk \subseteq Endpoints
  /\ o.inep \in [Endpoints -> InEp]
  /\ o.outep \in [Endpoints -> OutEp]
  /\ o.rx_status \in Seq(Entries)
  /\ o.tx_fifo \in [Endpoints -> Seq(Bytes)]

Configured(o) == o.step = "Configured"

\* Nothing is announced for the bulk endpoint.
NoBulk(o) == \A i \in 1..Len(o.rx_status) : o.rx_status[i].ep # Bulk

\* What neither a transfer nor a request changes.
Framed(o, p) ==
  /\ Typed(p)
  /\ p.empmsk = o.empmsk /\ p.outep = o.outep /\ p.gintsts = o.gintsts
  /\ Configured(o) => Configured(p)
  /\ NoBulk(o) => NoBulk(p)

\* Only requests to come have changed.
Same(o, p) ==
  /\ Framed(o, p) /\ p.inep = o.inep /\ p.tx_fifo = o.tx_fifo /\ p.outbox = o.outbox
  /\ p.step = o.step /\ p.stage = o.stage

LEMMA EndpointFacts == 0 \in Endpoints /\ Bulk \in Endpoints /\ Bulk # 0 /\ Endpoints = {0, Bulk}
  BY DEF Endpoints

\* Entries of endpoint 0 at the end of the status queue.
LEMMA Announced ==
  ASSUME NEW o, Typed(o), NEW more \in Seq(Entries),
         \A i \in 1..Len(more) : more[i].ep = 0,
         NEW fifo, NEW p, p = [o EXCEPT !.rx_fifo = fifo, !.rx_status = o.rx_status \o more]
  PROVE  Same(o, p)
<1> DEFINE queue == o.rx_status \o more
<1>1. queue \in Seq(Entries)
  BY DEF Typed
<1>2. NoBulk(o) => \A i \in 1..Len(queue) : queue[i].ep # Bulk
  <2>1. o.rx_status \in Seq(Entries)
    BY DEF Typed
  <2>2. /\ Len(queue) = Len(o.rx_status) + Len(more)
        /\ \A i \in 1..Len(o.rx_status) + Len(more) :
             queue[i] = IF i <= Len(o.rx_status) THEN o.rx_status[i]
                        ELSE more[i - Len(o.rx_status)]
    <3> HIDE OtgAssumption, UsbAssumption
    <3> QED BY <2>1, ConcatProperties
  <2>3. Len(o.rx_status) \in Nat /\ Len(more) \in Nat
    BY <2>1, LenProperties
  <2> HIDE DEF queue
  <2> SUFFICES ASSUME NoBulk(o), NEW i \in 1..Len(queue) PROVE queue[i].ep # Bulk
    OBVIOUS
  <2>4. CASE i <= Len(o.rx_status)
    <3>1. queue[i] = o.rx_status[i] /\ i \in 1..Len(o.rx_status)
      BY <2>2, <2>3, <2>4
    <3> QED BY <3>1 DEF NoBulk
  <2>5. CASE ~(i <= Len(o.rx_status))
    <3>1. queue[i] = more[i - Len(o.rx_status)] /\ i - Len(o.rx_status) \in 1..Len(more)
      <4> HIDE OtgAssumption, UsbAssumption
      <4> QED BY <2>2, <2>3, <2>5
    <3> QED BY <3>1, EndpointFacts
  <2> QED BY <2>4, <2>5
<1>0. p = [o EXCEPT !.rx_fifo = fifo, !.rx_status = queue]
  OBVIOUS
<1> HIDE DEF queue
<1>3. /\ DOMAIN p = DOMAIN o /\ p.rx_status = queue
      /\ p.empmsk = o.empmsk /\ p.outep = o.outep /\ p.inbox = o.inbox
      /\ p.gintsts = o.gintsts /\ p.inep = o.inep
      /\ p.tx_fifo = o.tx_fifo /\ p.outbox = o.outbox /\ p.step = o.step /\ p.stage = o.stage
  BY <1>0 DEF Typed, Fields
<1>4. Typed(p)
  BY <1>1, <1>3 DEF Typed
<1> QED BY <1>2, <1>3, <1>4 DEF Same, Framed, NoBulk, Configured

LEMMA SetupSame ==
  ASSUME NEW o, Typed(o), NEW request
  PROVE  Same(o, Setup(o, request))
<1> DEFINE more == <<Status("SETUP_DATA", SetupBytes, 0), Status("SETUP_COMP", 0, 0)>>
           fifo == o.rx_fifo \o Packet(request, SetupBytes)
<1>1. more \in Seq(Entries) /\ \A i \in 1..Len(more) : more[i].ep = 0
  BY EndpointFacts DEF Status, Entries
<1>2. Setup(o, request) = [o EXCEPT !.rx_fifo = fifo, !.rx_status = o.rx_status \o more]
  BY DEF Setup
<1> HIDE DEF more, fifo
<1> QED BY <1>1, <1>2, Announced

LEMMA PacketSame ==
  ASSUME NEW o, Typed(o), NEW what, NEW n \in Nat
  PROVE  Same(o, OutPacket(o, 0, what, n))
<1> DEFINE more == <<Status("OUT_DATA", n, 0), Status("OUT_COMP", 0, 0)>>
           fifo == o.rx_fifo \o Packet(what, n)
<1>1. more \in Seq(Entries) /\ \A i \in 1..Len(more) : more[i].ep = 0
  BY EndpointFacts DEF Status, Entries
<1>2. OutPacket(o, 0, what, n) = [o EXCEPT !.rx_fifo = fifo, !.rx_status = o.rx_status \o more]
  BY DEF OutPacket
<1> HIDE DEF more, fifo
<1> QED BY <1>1, <1>2, Announced

LEMMA SameTwice ==
  ASSUME NEW o, NEW p, NEW q, Same(o, p), Same(p, q)
  PROVE  Same(o, q)
  BY DEF Same, Framed, Configured

LEMMA NextRequestSame ==
  ASSUME NEW o, Typed(o)
  PROVE  Same(o, NextRequest(o))
<1>1. Same(o, o)
  BY DEF Same, Framed
<1>2. Same(o, Setup(OutPacket(o, 0, "status", 0), "SET_ADDRESS"))
  <2>1. Same(o, OutPacket(o, 0, "status", 0))
    BY PacketSame
  <2>2. Same(OutPacket(o, 0, "status", 0), Setup(OutPacket(o, 0, "status", 0), "SET_ADDRESS"))
    BY <2>1, SetupSame DEF Same, Framed
  <2> QED BY <2>1, <2>2, SameTwice
<1>3. Same(o, OutPacket(Setup(o, "SET_LINE_CODING"), 0, "data", LineCodingBytes))
  <2>1. Same(o, Setup(o, "SET_LINE_CODING"))
    BY SetupSame
  <2>2. LineCodingBytes \in Nat
    OBVIOUS
  <2>3. Same(Setup(o, "SET_LINE_CODING"),
             OutPacket(Setup(o, "SET_LINE_CODING"), 0, "data", LineCodingBytes))
    BY <2>1, <2>2, PacketSame DEF Same, Framed
  <2> QED BY <2>1, <2>3, SameTwice
<1>4. Same(o, Setup(o, "SET_CONFIGURATION")) /\ Same(o, Setup(o, "SET_CONTROL_LINE_STATE"))
  BY SetupSame
<1> QED BY <1>1, <1>2, <1>3, <1>4 DEF NextRequest

\* A transfer or a request that leaves the endpoints alone.
Apart(o, p) ==
  Framed(o, p) /\ p.inep = o.inep /\ p.tx_fifo = o.tx_fifo /\ p.outbox = o.outbox

LEMMA AdvanceApart ==
  ASSUME NEW o, Typed(o)
  PROVE  Apart(o, Advance(o))
<1> DEFINE n == NextRequest(o)
           next == StepAfter(o.step)
           stage == CASE next = o.step -> n.stage
                      [] next = Steps[6] -> "ProtocolReady"
                      [] OTHER -> next
           p == [n EXCEPT !.step = next, !.stage = stage]
<1>1. Same(o, n)
  BY NextRequestSame
<1>2. o.step = "Configured" => next = "Configured"
  BY DEF StepAfter, Steps
<1>3. Advance(o) = p
  BY DEF Advance
<1> HIDE DEF n, next, stage
<1>4. /\ DOMAIN p = DOMAIN n /\ p.step = next /\ p.inbox = n.inbox
      /\ p.empmsk = n.empmsk /\ p.outep = n.outep /\ p.gintsts = n.gintsts /\ p.inep = n.inep
      /\ p.tx_fifo = n.tx_fifo /\ p.outbox = n.outbox /\ p.rx_status = n.rx_status
  BY <1>1 DEF Same, Framed, Typed, Fields
<1> HIDE DEF p
<1>5. Typed(p)
  BY <1>1, <1>4 DEF Same, Framed, Typed
<1>6. Apart(o, p)
  BY <1>1, <1>2, <1>4, <1>5 DEF Same, Framed, Apart, Configured, NoBulk
<1> QED BY <1>3, <1>6

\* Writes of the registers of an IN endpoint and of its FIFO, the last with bytes for the host.
WithRegs(o, e, regs) == [o EXCEPT !.inep[e] = regs]
WithFifo(o, e, fifo) == [o EXCEPT !.tx_fifo[e] = fifo]
WithSent(o, e, fifo, out) == [o EXCEPT !.tx_fifo[e] = fifo, !.outbox = out]

LEMMA Written ==
  ASSUME NEW o, Typed(o), NEW e \in Endpoints, NEW regs \in InEp,
         NEW p, p = WithRegs(o, e, regs)
  PROVE  /\ Framed(o, p) /\ p.tx_fifo = o.tx_fifo /\ p.outbox = o.outbox /\ p.step = o.step
         /\ p.inep = [o.inep EXCEPT ![e] = regs]
<1>1. /\ DOMAIN p = DOMAIN o /\ p.inep = [o.inep EXCEPT ![e] = regs]
      /\ p.empmsk = o.empmsk /\ p.outep = o.outep /\ p.inbox = o.inbox
      /\ p.gintsts = o.gintsts /\ p.rx_status = o.rx_status
      /\ p.tx_fifo = o.tx_fifo /\ p.outbox = o.outbox /\ p.step = o.step
  BY DEF Typed, Fields, WithRegs
<1>2. p.inep \in [Endpoints -> InEp]
  BY <1>1 DEF Typed
<1>3. Typed(p)
  BY <1>1, <1>2 DEF Typed
<1> QED BY <1>1, <1>3 DEF Framed, Configured, NoBulk

LEMMA MovedFifo ==
  ASSUME NEW o, Typed(o), NEW e \in Endpoints, NEW fifo \in Seq(Bytes), NEW out \in Seq(Bytes),
         NEW p, p = WithSent(o, e, fifo, out)
  PROVE  /\ Framed(o, p) /\ p.inep = o.inep /\ p.outbox = out /\ p.step = o.step
         /\ p.tx_fifo = [o.tx_fifo EXCEPT ![e] = fifo]
<1>1. /\ DOMAIN p = DOMAIN o /\ p.tx_fifo = [o.tx_fifo EXCEPT ![e] = fifo]
      /\ p.empmsk = o.empmsk /\ p.outep = o.outep /\ p.inbox = o.inbox
      /\ p.gintsts = o.gintsts /\ p.rx_status = o.rx_status
      /\ p.inep = o.inep /\ p.outbox = out /\ p.step = o.step
  BY DEF Typed, Fields, WithSent
<1>2. p.tx_fifo \in [Endpoints -> Seq(Bytes)]
  BY <1>1 DEF Typed
<1>3. Typed(p)
  BY <1>1, <1>2 DEF Typed
<1> QED BY <1>1, <1>3 DEF Framed, Configured, NoBulk

LEMMA Refilled ==
  ASSUME NEW o, Typed(o), NEW e \in Endpoints, NEW fifo \in Seq(Bytes),
         NEW p, p = WithFifo(o, e, fifo)
  PROVE  /\ Framed(o, p) /\ p.inep = o.inep /\ p.outbox = o.outbox /\ p.step = o.step
         /\ p.tx_fifo = [o.tx_fifo EXCEPT ![e] = fifo]
<1>1. /\ DOMAIN p = DOMAIN o /\ p.tx_fifo = [o.tx_fifo EXCEPT ![e] = fifo]
      /\ p.empmsk = o.empmsk /\ p.outep = o.outep /\ p.inbox = o.inbox
      /\ p.gintsts = o.gintsts /\ p.rx_status = o.rx_status
      /\ p.inep = o.inep /\ p.outbox = o.outbox /\ p.step = o.step
  BY DEF Typed, Fields, WithFifo
<1>2. p.tx_fifo \in [Endpoints -> Seq(Bytes)]
  BY <1>1 DEF Typed
<1>3. Typed(p)
  BY <1>1, <1>2 DEF Typed
<1> QED BY <1>1, <1>3 DEF Framed, Configured, NoBulk

LEMMA SentTyped ==
  ASSUME NEW fifo \in Seq(Bytes), NEW size \in Nat
  PROVE  /\ Sent(fifo, size) \in Seq(Bytes)
         /\ size = 0 => Sent(fifo, size) = <<>>
<1> DEFINE n == Least(Len(fifo), size)
<1>1. n \in 0..Len(fifo) /\ (size = 0 => n = 0) /\ Len(fifo) \in Nat
  BY LenProperties DEF Least
<1> HIDE DEF n
<1>2. SubSeq(fifo, 1, n) \in Seq(Bytes)
  BY <1>1
<1>3. n = 0 => SubSeq(fifo, 1, n) = <<>>
  BY <1>1
<1> QED BY <1>1, <1>2, <1>3 DEF Sent, n

\* One endpoint's registers, the others being left alone.
Only(o, p, e) == \A f \in Endpoints : f # e => p.inep[f] = o.inep[f]

\* A completed transfer: the endpoint is told, and bulk bytes leave the FIFO once the
\* device is configured.
Complete(o, p, e) ==
  /\ Framed(o, p) /\ Only(o, p, e)
  /\ p.inep[e].ena = o.inep[e].ena /\ p.inep[e].size = o.inep[e].size
  /\ p.inep[e].sent = o.inep[e].sent
  /\ p.inep[e].int = o.inep[e].int \cup {"XFRC"}
  /\ IF e = Bulk /\ Configured(o)
     THEN /\ p.tx_fifo[Bulk] = <<>>
          /\ p.outbox = o.outbox \o Sent(o.tx_fifo[Bulk], o.inep[Bulk].size)
     ELSE p.tx_fifo[Bulk] = o.tx_fifo[Bulk] /\ p.outbox = o.outbox

LEMMA Completed ==
  ASSUME NEW o, Typed(o), NEW e \in Endpoints
  PROVE  Complete(o, CompleteIn(o, e), e)
<1> DEFINE regs == [o.inep[e] EXCEPT !.int = @ \cup {"XFRC"}]
           raised == [o EXCEPT !.inep[e] = regs]
           p == CompleteIn(o, e)
<1>1. regs \in InEp
  BY DEF Typed, InEp
<1>2. raised = [o EXCEPT !.inep[e].int = @ \cup {"XFRC"}]
  BY DEF Typed
<1>3. raised = WithRegs(o, e, regs)
  BY DEF WithRegs
<1>4. /\ regs.ena = o.inep[e].ena /\ regs.size = o.inep[e].size
      /\ regs.sent = o.inep[e].sent /\ regs.int = o.inep[e].int \cup {"XFRC"}
  BY DEF Typed, InEp
<1> HIDE DEF regs, raised
<1>5. /\ Framed(o, raised) /\ raised.tx_fifo = o.tx_fifo /\ raised.outbox = o.outbox
      /\ raised.step = o.step /\ raised.inep = [o.inep EXCEPT ![e] = regs]
  BY <1>1, <1>3, Written
<1>6. /\ o.tx_fifo \in [Endpoints -> Seq(Bytes)] /\ <<>> \in Seq(Bytes)
      /\ o.inep \in [Endpoints -> InEp] /\ o.inep[e].size \in Nat
  <2> HIDE OtgAssumption, UsbAssumption
  <2> QED BY DEF Typed, InEp
<1>10. Typed(raised)
  BY <1>5 DEF Framed
<1>7. CASE e = 0
  <2> DEFINE q == [raised EXCEPT !.tx_fifo[0] = <<>>]
  <2>1. p = Advance(q)
    BY <1>2, <1>7 DEF CompleteIn
  <2>2. PICK none \in Seq(Bytes) : none = <<>>
    BY <1>6
  <2>8. q = WithFifo(raised, e, none)
    BY <1>7, <2>2 DEF WithFifo
  <2> HIDE DEF q
  <2>3. /\ Framed(raised, q) /\ q.inep = raised.inep /\ q.outbox = raised.outbox
        /\ q.tx_fifo = [raised.tx_fifo EXCEPT ![e] = none]
    BY <1>10, <2>8, Refilled
  <2>4. Apart(q, p)
    BY <2>1, <2>3, AdvanceApart DEF Framed
  <2>5. Framed(o, p)
    BY <1>5, <2>3, <2>4 DEF Framed, Apart
  <2>6. p.tx_fifo[Bulk] = o.tx_fifo[Bulk]
    BY <1>5, <1>6, <1>7, <2>3, <2>4, EndpointFacts DEF Apart
  <2>7. p.inep = [o.inep EXCEPT ![e] = regs] /\ p.outbox = o.outbox /\ e # Bulk
    BY <1>5, <1>7, <2>3, <2>4, EndpointFacts DEF Apart
  <2> HIDE DEF p
  <2> QED BY <1>4, <1>6, <2>5, <2>6, <2>7 DEF p, Complete, Only
<1>8. CASE e = Bulk /\ ~Configured(o)
  <2>1. p = raised
    BY <1>2, <1>8, EndpointFacts DEF CompleteIn, Configured, Steps
  <2> HIDE DEF p
  <2> QED BY <1>4, <1>5, <1>6, <1>8, <2>1 DEF p, Complete, Only
<1>9. CASE e = Bulk /\ Configured(o)
  <2> DEFINE out == o.outbox \o Sent(o.tx_fifo[e], o.inep[e].size)
  <2>6. PICK none \in Seq(Bytes) : none = <<>>
    BY <1>6
  <2>1. p = WithSent(raised, e, none, out)
    BY <2>6, <1>2, <1>5, <1>9, EndpointFacts DEF CompleteIn, Configured, Steps, WithSent
  <2>2. Sent(o.tx_fifo[e], o.inep[e].size) \in Seq(Bytes)
    BY <1>6, SentTyped
  <2>3. out \in Seq(Bytes)
    BY <2>2 DEF Typed
  <2> HIDE DEF out, p
  <2>4. /\ Framed(raised, p) /\ p.inep = raised.inep /\ p.outbox = out
        /\ p.tx_fifo = [raised.tx_fifo EXCEPT ![e] = none]
    BY <1>10, <2>1, <2>3, MovedFifo
  <2>5. Framed(o, p) /\ p.tx_fifo[Bulk] = <<>>
    BY <1>5, <1>6, <1>9, <2>4, <2>6 DEF Framed
  <2> QED BY <1>4, <1>5, <1>6, <1>9, <2>4, <2>5 DEF p, out, Complete, Only
<1> QED BY <1>7, <1>8, <1>9, EndpointFacts

-----------------------------------------------------------------------------
(* The accesses that move a transfer.                                       *)

\* A write of DIEPCTL: an armed endpoint stays as it is, and a transfer without bytes is
\* done at once.
Arms(o, p, e) ==
  /\ Framed(o, p) /\ Only(o, p, e) /\ p.outbox = o.outbox
  /\ p.inep[e].size = o.inep[e].size
  /\ o.inep[e].ena =>
       /\ p.inep[e].ena /\ p.inep[e].int = o.inep[e].int /\ p.inep[e].sent = o.inep[e].sent
       /\ p.tx_fifo[Bulk] = o.tx_fifo[Bulk]
  /\ ~o.inep[e].ena /\ o.inep[e].size = 0 =>
       /\ ~p.inep[e].ena /\ p.inep[e].int = o.inep[e].int \cup {"XFRC"}
       /\ p.tx_fifo[Bulk] \in {o.tx_fifo[Bulk], <<>>}
  /\ ~o.inep[e].ena /\ o.inep[e].size # 0 =>
       /\ p.inep[e].ena /\ p.inep[e].int = o.inep[e].int \cup TxfeOnArm(o, e)
       /\ p.inep[e].sent = 0 /\ p.tx_fifo[Bulk] = o.tx_fifo[Bulk]

\* The fields of an endpoint's registers.
LEMMA RegsOf ==
  ASSUME NEW o, Typed(o), NEW e \in Endpoints
  PROVE  /\ o.inep[e] \in InEp /\ o.inep[e].ena \in BOOLEAN /\ o.inep[e].size \in Nat
         /\ o.inep[e].sent \in Nat /\ o.inep[e].int \in SUBSET {"TXFE", "XFRC"}
         /\ o.inep \in [Endpoints -> InEp]
  BY DEF Typed, InEp

LEMMA WrittenRegs ==
  ASSUME NEW o, Typed(o), NEW e \in Endpoints, NEW regs \in InEp,
         NEW p, p = WithRegs(o, e, regs)
  PROVE  /\ Framed(o, p) /\ Only(o, p, e) /\ p.tx_fifo = o.tx_fifo /\ p.outbox = o.outbox
         /\ p.step = o.step /\ p.inep[e] = regs
<1>1. /\ Framed(o, p) /\ p.tx_fifo = o.tx_fifo /\ p.outbox = o.outbox /\ p.step = o.step
      /\ p.inep = [o.inep EXCEPT ![e] = regs]
  BY Written
<1> QED BY <1>1, RegsOf DEF Only

LEMMA Armed ==
  ASSUME NEW o, Typed(o), NEW e \in Endpoints
  PROVE  Arms(o, WriteDiepctl(o, e, TRUE), e)
<1> DEFINE more == TxfeOnArm(o, e)
<1>20. more = TxfeOnArm(o, e) /\ more \subseteq {"TXFE", "XFRC"}
  BY DEF TxfeOnArm
<1> HIDE DEF more
<1>1. PICK on \in BOOLEAN : on = TRUE
  OBVIOUS
<1>2. PICK off \in BOOLEAN : off = FALSE
  OBVIOUS
<1> DEFINE r == o.inep[e]
           on_regs == [r EXCEPT !.ena = on]
           arm_regs == [on_regs EXCEPT !.sent = 0]
           off_regs == [arm_regs EXCEPT !.ena = off]
           both == r.int \cup more
           done_regs == [arm_regs EXCEPT !.int = both]
           p == WriteDiepctl(o, e, TRUE)
           written == [o EXCEPT !.inep[e].ena = on]
           armed == [written EXCEPT !.inep[e].sent = 0]
<1>3. r \in InEp /\ more \subseteq {"TXFE", "XFRC"}
  BY <1>20, RegsOf
<1>4. /\ on_regs \in InEp /\ on_regs.ena = on /\ on_regs.int = r.int
      /\ on_regs.size = r.size /\ on_regs.sent = r.sent
  BY <1>3 DEF InEp
<1>5. /\ arm_regs \in InEp /\ arm_regs.ena = on /\ arm_regs.int = r.int
      /\ arm_regs.size = r.size /\ arm_regs.sent = 0
  BY <1>4 DEF InEp
<1>6. /\ off_regs \in InEp /\ off_regs.ena = off /\ off_regs.int = r.int
      /\ off_regs.size = r.size
  BY <1>5 DEF InEp
<1>7. /\ done_regs \in InEp /\ done_regs.ena = on
      /\ done_regs.int = r.int \cup more
      /\ done_regs.size = r.size /\ done_regs.sent = 0
  BY <1>3, <1>5 DEF InEp
<1>8. written = WithRegs(o, e, on_regs)
  BY DEF Typed, WithRegs
<1>9. armed = WithRegs(o, e, arm_regs)
  BY DEF Typed, WithRegs, Fields
<1>10. [armed EXCEPT !.inep[e].ena = off] = WithRegs(o, e, off_regs)
  BY DEF Typed, WithRegs, Fields
<1>11. [armed EXCEPT !.inep[e].int = @ \cup TxfeOnArm(o, e)] = WithRegs(o, e, done_regs)
  <2>1. armed.inep[e].int = r.int
    BY DEF Typed, Fields
  <2>2. [armed EXCEPT !.inep[e].int = @ \cup more] = [armed EXCEPT !.inep[e].int = both]
    BY <2>1
  <2> HIDE DEF both
  <2>3. [armed EXCEPT !.inep[e].int = both] = WithRegs(o, e, done_regs)
    BY DEF Typed, WithRegs, Fields
  <2> QED BY <1>20, <2>2, <2>3
<1>12. p = IF o.inep[e].ena THEN written
           ELSE IF o.inep[e].size = 0 THEN CompleteIn([armed EXCEPT !.inep[e].ena = off], e)
           ELSE WithRegs(o, e, done_regs)
  <2>1. p = WriteDiepctl(o, e, on)
    BY <1>1, Zenon
  <2>2. WriteDiepctl(o, e, on) =
          IF ~on \/ o.inep[e].ena THEN written
          ELSE IF o.inep[e].size = 0 THEN CompleteIn([armed EXCEPT !.inep[e].ena = FALSE], e)
          ELSE [armed EXCEPT !.inep[e].int = @ \cup TxfeOnArm(o, e)]
    BY Zenon DEF WriteDiepctl
  <2>3. [armed EXCEPT !.inep[e].ena = FALSE] = [armed EXCEPT !.inep[e].ena = off]
    BY <1>2, Zenon
  <2> HIDE DEF p, written, armed
  <2> QED BY <1>1, <1>11, <2>1, <2>2, <2>3, Zenon
<1> HIDE DEF both, on_regs, arm_regs, off_regs, done_regs, p, written, armed
<1>13. CASE o.inep[e].ena
  <2>1. p = WithRegs(o, e, on_regs)
    BY <1>8, <1>12, <1>13
  <2>2. /\ Framed(o, p) /\ Only(o, p, e) /\ p.tx_fifo = o.tx_fifo /\ p.outbox = o.outbox
        /\ p.step = o.step /\ p.inep[e] = on_regs
    BY <1>4, <2>1, WrittenRegs
  <2> QED BY <1>1, <1>4, <1>13, <2>2 DEF Arms, p
<1>14. CASE ~o.inep[e].ena /\ o.inep[e].size = 0
  <2> DEFINE q == WithRegs(o, e, off_regs)
  <2>1. p = CompleteIn(q, e)
    BY <1>10, <1>12, <1>14
  <2>2. q = WithRegs(o, e, off_regs)
    OBVIOUS
  <2> HIDE DEF q
  <2>3. /\ Framed(o, q) /\ Only(o, q, e) /\ q.tx_fifo = o.tx_fifo /\ q.outbox = o.outbox
        /\ q.step = o.step /\ q.inep[e] = off_regs
    BY <1>6, <2>2, WrittenRegs
  <2>4. Typed(q)
    BY <2>3 DEF Framed
  <2>5. Complete(q, p, e)
    BY <2>1, <2>4, Completed
  <2>6. q.inep[Bulk].size = 0 /\ e = Bulk => p.outbox = o.outbox
    <3>1. q.tx_fifo[Bulk] \in Seq(Bytes) /\ q.outbox \in Seq(Bytes)
      BY <2>4, EndpointFacts DEF Typed
    <3>2. q.inep[Bulk].size = 0 => Sent(q.tx_fifo[Bulk], q.inep[Bulk].size) = <<>>
      BY <3>1, SentTyped
    <3>3. q.outbox \o <<>> = q.outbox
      BY <3>1
    <3> QED BY <2>3, <2>5, <3>2, <3>3 DEF Complete
  <2>7. Framed(o, p) /\ Only(o, p, e)
    BY <2>3, <2>5 DEF Complete, Framed, Only
  <2>8. p.outbox = o.outbox /\ p.tx_fifo[Bulk] \in {o.tx_fifo[Bulk], <<>>}
    BY <1>6, <1>14, <2>3, <2>5, <2>6 DEF Complete
  <2>9. /\ p.inep[e].size = o.inep[e].size /\ ~p.inep[e].ena
        /\ p.inep[e].int = o.inep[e].int \cup {"XFRC"}
    BY <1>2, <1>6, <2>3, <2>5 DEF Complete
  <2> QED BY <1>14, <2>7, <2>8, <2>9 DEF Arms, p
<1>15. CASE ~o.inep[e].ena /\ o.inep[e].size # 0
  <2>1. p = WithRegs(o, e, done_regs)
    BY <1>12, <1>15
  <2>2. /\ Framed(o, p) /\ Only(o, p, e) /\ p.tx_fifo = o.tx_fifo /\ p.outbox = o.outbox
        /\ p.step = o.step /\ p.inep[e] = done_regs
    BY <1>7, <2>1, WrittenRegs
  <2> QED BY <1>1, <1>7, <1>20, <1>15, <2>2 DEF Arms, p
<1> QED BY <1>13, <1>14, <1>15

\* A word pushed into the FIFO of an endpoint.
NextWord(o, e, what) == [i \in 1..WordBytes |-> <<what, o.inep[e].sent + i>>]

\* It completes the transfer.
Completes(o, e) == o.inep[e].ena /\ o.inep[e].sent + WordBytes >= o.inep[e].size

Pushes(o, p, e, what) ==
  /\ Framed(o, p) /\ Only(o, p, e)
  /\ p.inep[e].size = o.inep[e].size /\ p.inep[e].sent = o.inep[e].sent + WordBytes
  /\ p.inep[e].ena <=> o.inep[e].ena /\ ~Completes(o, e)
  /\ p.inep[e].int \in {o.inep[e].int, o.inep[e].int \cup {"XFRC"}}
  /\ e # Bulk => p.tx_fifo[Bulk] = o.tx_fifo[Bulk]
  /\ e = Bulk /\ ~Completes(o, e) => p.tx_fifo[Bulk] = o.tx_fifo[Bulk] \o NextWord(o, e, what)
  /\ IF e = Bulk /\ Completes(o, e) /\ Configured(o)
     THEN /\ p.tx_fifo[Bulk] = <<>>
          /\ p.outbox = o.outbox \o Sent(o.tx_fifo[Bulk] \o NextWord(o, e, what), o.inep[e].size)
     ELSE p.outbox = o.outbox

LEMMA WordTyped ==
  ASSUME NEW o, Typed(o), NEW e \in Endpoints, NEW what \in Nat
  PROVE  NextWord(o, e, what) \in Seq(Bytes) /\ Len(NextWord(o, e, what)) = WordBytes
<1> DEFINE sent == o.inep[e].sent
           word == [i \in 1..WordBytes |-> <<what, sent + i>>]
<1>1. sent \in Nat /\ WordBytes \in Nat
  BY RegsOf
<1> HIDE DEF sent
<1>2. ASSUME NEW i \in 1..WordBytes PROVE <<what, sent + i>> \in Bytes
  BY <1>1 DEF Bytes
<1>3. word \in Seq(Bytes) /\ Len(word) = WordBytes
  <2>1. word \in [1..WordBytes -> Bytes]
    BY <1>2
  <2> HIDE DEF word
  <2> QED BY <1>1, <2>1
<1> QED BY <1>3 DEF NextWord, sent

LEMMA RefilledFifo ==
  ASSUME NEW o, Typed(o), NEW e \in Endpoints, NEW fifo \in Seq(Bytes),
         NEW p, p = WithFifo(o, e, fifo)
  PROVE  /\ Framed(o, p) /\ p.inep = o.inep /\ p.outbox = o.outbox /\ p.step = o.step
         /\ p.tx_fifo[e] = fifo /\ (e # Bulk => p.tx_fifo[Bulk] = o.tx_fifo[Bulk])
<1>1. /\ Framed(o, p) /\ p.inep = o.inep /\ p.outbox = o.outbox /\ p.step = o.step
      /\ p.tx_fifo = [o.tx_fifo EXCEPT ![e] = fifo]
  BY Refilled
<1> QED BY <1>1, EndpointFacts DEF Typed

\* What PushWord makes of the controller with the word in the FIFO.
AfterWord(o, q, e) ==
  IF o.inep[e].ena /\ q.inep[e].sent >= o.inep[e].size
  THEN CompleteIn([q EXCEPT !.inep[e].ena = FALSE], e) ELSE q

LEMMA Pushed ==
  ASSUME NEW o, Typed(o), NEW e \in Endpoints, NEW what \in Nat
  PROVE  Pushes(o, PushWord(o, e, what), e, what)
<1>1. PICK off \in BOOLEAN : off = FALSE
  OBVIOUS
<1> DEFINE r == o.inep[e]
           word == NextWord(o, e, what)
           fifo == o.tx_fifo[e] \o word
           total == r.sent + WordBytes
           sent_regs == [r EXCEPT !.sent = total]
           done_regs == [sent_regs EXCEPT !.ena = off]
           filled == WithFifo(o, e, fifo)
           pushed == WithRegs(filled, e, sent_regs)
           done == WithRegs(filled, e, done_regs)
           p == PushWord(o, e, what)
<1>2. /\ r \in InEp /\ total \in Nat /\ r.sent \in Nat /\ r.size \in Nat
      /\ r.int \in SUBSET {"TXFE", "XFRC"} /\ o.inep \in [Endpoints -> InEp]
  BY RegsOf
<1>15. word \in Seq(Bytes)
  BY WordTyped
<1>16. o.tx_fifo[e] \in Seq(Bytes)
  BY DEF Typed
<1> HIDE DEF word
<1>3. word \in Seq(Bytes) /\ o.tx_fifo[e] \in Seq(Bytes) /\ fifo \in Seq(Bytes)
  BY <1>15, <1>16
<1> HIDE DEF fifo, total
<1>4. /\ sent_regs \in InEp /\ sent_regs.ena = r.ena /\ sent_regs.int = r.int
      /\ sent_regs.size = r.size /\ sent_regs.sent = total
  BY <1>2 DEF InEp
<1>5. /\ done_regs \in InEp /\ done_regs.ena = off /\ done_regs.int = r.int
      /\ done_regs.size = r.size /\ done_regs.sent = total
  BY <1>4 DEF InEp
<1>6. pushed = [o EXCEPT !.tx_fifo[e] = fifo, !.inep[e].sent = total]
  BY DEF Typed, Fields, WithRegs, WithFifo
<1>7. [pushed EXCEPT !.inep[e].ena = off] = done
  BY DEF Typed, Fields, WithRegs, WithFifo
<1>8. filled = WithFifo(o, e, fifo)
  OBVIOUS
<1> HIDE DEF filled
<1>9. /\ Framed(o, filled) /\ filled.inep = o.inep /\ filled.outbox = o.outbox
      /\ filled.step = o.step
      /\ filled.tx_fifo[e] = fifo /\ (e # Bulk => filled.tx_fifo[Bulk] = o.tx_fifo[Bulk])
  BY <1>3, <1>8, RefilledFifo
<1>10. Typed(filled)
  BY <1>9 DEF Framed
<1>11. pushed = WithRegs(filled, e, sent_regs) /\ done = WithRegs(filled, e, done_regs)
  OBVIOUS
<1>12. p = IF Completes(o, e) THEN CompleteIn(done, e) ELSE pushed
  <2>1. pushed = [o EXCEPT !.tx_fifo[e] = @ \o NextWord(o, e, what),
                           !.inep[e].sent = @ + WordBytes]
    BY <1>6 DEF fifo, word, total
  <2>5. pushed.inep[e] = sent_regs
    BY <1>4, <1>10, <1>11, WrittenRegs
  <2>2. pushed.inep[e].size = r.size /\ pushed.inep[e].sent = total
    BY <1>4, <2>5
  <2>6. pushed = [o EXCEPT !.tx_fifo[e] = @ \o [i \in 1..WordBytes |-> <<what, o.inep[e].sent + i>>],
                           !.inep[e].sent = @ + WordBytes]
    BY <2>1, Zenon DEF NextWord
  <2>7. p = AfterWord(o, [o EXCEPT !.tx_fifo[e] = @ \o [i \in 1..WordBytes |-> <<what, o.inep[e].sent + i>>],
                                  !.inep[e].sent = @ + WordBytes], e)
    BY Zenon DEF PushWord, AfterWord
  <2> HIDE DEF pushed
  <2>8. p = AfterWord(o, pushed, e)
    BY <2>6, <2>7, Zenon
  <2>3. p = IF o.inep[e].ena /\ pushed.inep[e].sent >= o.inep[e].size
            THEN CompleteIn([pushed EXCEPT !.inep[e].ena = FALSE], e) ELSE pushed
    BY <2>8, Zenon DEF AfterWord
  <2>4. [pushed EXCEPT !.inep[e].ena = FALSE] = done
    BY <1>1, <1>7, Zenon
  <2> HIDE DEF pushed, done, p
  <2> QED BY <2>2, <2>3, <2>4 DEF Completes, total
<1> HIDE DEF pushed, done, p, sent_regs, done_regs
<1>13. CASE ~Completes(o, e)
  <2>1. p = WithRegs(filled, e, sent_regs)
    BY <1>11, <1>12, <1>13
  <2>2. /\ Framed(filled, p) /\ Only(filled, p, e) /\ p.tx_fifo = filled.tx_fifo
        /\ p.outbox = filled.outbox /\ p.inep[e] = sent_regs
    BY <1>4, <1>10, <2>1, WrittenRegs
  <2>3. Framed(o, p) /\ Only(o, p, e)
    BY <1>9, <2>2 DEF Framed, Only
  <2>4. /\ e # Bulk => p.tx_fifo[Bulk] = o.tx_fifo[Bulk]
        /\ e = Bulk => p.tx_fifo[Bulk] = o.tx_fifo[Bulk] \o word
    BY <1>9, <2>2 DEF fifo
  <2>5. /\ p.inep[e].size = o.inep[e].size /\ p.inep[e].int = o.inep[e].int
        /\ p.inep[e].ena = o.inep[e].ena
        /\ p.inep[e].sent = o.inep[e].sent + WordBytes
    BY <1>4, <2>2 DEF total
  <2> QED BY <1>9, <1>13, <2>2, <2>3, <2>4, <2>5 DEF Pushes, p, word
<1>14. CASE Completes(o, e)
  <2>1. p = CompleteIn(done, e)
    BY <1>12, <1>14
  <2>2. /\ Framed(filled, done) /\ Only(filled, done, e) /\ done.tx_fifo = filled.tx_fifo
        /\ done.outbox = filled.outbox /\ done.step = filled.step /\ done.inep[e] = done_regs
    BY <1>5, <1>10, <1>11, WrittenRegs
  <2>3. Typed(done)
    BY <2>2 DEF Framed
  <2>4. Complete(done, p, e)
    BY <2>1, <2>3, Completed
  <2>5. Framed(o, p) /\ Only(o, p, e)
    BY <1>9, <2>2, <2>4 DEF Complete, Framed, Only
  <2>6. Configured(done) <=> Configured(o)
    BY <1>9, <2>2 DEF Configured
  <2>7. /\ p.inep[e].size = o.inep[e].size /\ ~p.inep[e].ena
        /\ p.inep[e].int = o.inep[e].int \cup {"XFRC"}
        /\ p.inep[e].sent = o.inep[e].sent + WordBytes
    BY <1>1, <1>5, <2>2, <2>4 DEF Complete, total
  <2>8. e # Bulk => p.tx_fifo[Bulk] = o.tx_fifo[Bulk] /\ p.outbox = o.outbox
    BY <1>9, <2>2, <2>4 DEF Complete
  <2>9. e = Bulk /\ ~Configured(o) => p.outbox = o.outbox
    BY <1>9, <2>2, <2>4, <2>6 DEF Complete
  <2>10. e = Bulk /\ Configured(o) =>
           p.tx_fifo[Bulk] = <<>> /\ p.outbox = o.outbox \o Sent(o.tx_fifo[Bulk] \o word, o.inep[e].size)
    BY <1>5, <1>9, <2>2, <2>4, <2>6 DEF Complete, fifo
  <2> QED BY <1>14, <2>5, <2>7, <2>8, <2>9, <2>10 DEF Pushes, p, word
<1> QED BY <1>13, <1>14

\* Writes of DIEPTSIZ and DIEPINT: one register.
Sizes(o, p, e, n) ==
  /\ Framed(o, p) /\ Only(o, p, e) /\ p.tx_fifo = o.tx_fifo /\ p.outbox = o.outbox
  /\ p.inep[e].ena = o.inep[e].ena /\ p.inep[e].int = o.inep[e].int
  /\ p.inep[e].sent = o.inep[e].sent /\ p.inep[e].size = n

LEMMA Resized ==
  ASSUME NEW o, Typed(o), NEW e \in Endpoints, NEW n \in Nat
  PROVE  Sizes(o, WriteDiepsiz(o, e, n), e, n)
<1> DEFINE r == o.inep[e]
           regs == [r EXCEPT !.size = n]
           p == WriteDiepsiz(o, e, n)
<1>1. r \in InEp
  BY RegsOf
<1>2. /\ regs \in InEp /\ regs.ena = r.ena /\ regs.int = r.int /\ regs.sent = r.sent
      /\ regs.size = n
  BY <1>1 DEF InEp
<1>3. p = WithRegs(o, e, regs)
  BY DEF WriteDiepsiz, WithRegs, Typed
<1> HIDE DEF regs, p
<1>4. /\ Framed(o, p) /\ Only(o, p, e) /\ p.tx_fifo = o.tx_fifo /\ p.outbox = o.outbox
      /\ p.inep[e] = regs
  BY <1>2, <1>3, WrittenRegs
<1> QED BY <1>2, <1>4 DEF Sizes, p

Clears(o, p, e, bits) ==
  /\ Framed(o, p) /\ Only(o, p, e) /\ p.tx_fifo = o.tx_fifo /\ p.outbox = o.outbox
  /\ p.step = o.step
  /\ p.inep[e].ena = o.inep[e].ena /\ p.inep[e].size = o.inep[e].size
  /\ p.inep[e].sent = o.inep[e].sent /\ p.inep[e].int = o.inep[e].int \ bits

LEMMA IntCleared ==
  ASSUME NEW o, Typed(o), NEW e \in Endpoints, NEW bits
  PROVE  Clears(o, WriteDiepint(o, e, bits), e, bits)
<1> DEFINE r == o.inep[e]
           left == r.int \ bits
           regs == [r EXCEPT !.int = left]
           p == WriteDiepint(o, e, bits)
<1>1. r \in InEp /\ left \in SUBSET {"TXFE", "XFRC"}
  BY RegsOf
<1>2. p = [o EXCEPT !.inep[e].int = left]
  BY DEF WriteDiepint
<1> HIDE DEF left
<1>3. /\ regs \in InEp /\ regs.ena = r.ena /\ regs.size = r.size /\ regs.sent = r.sent
      /\ regs.int = left
  BY <1>1 DEF InEp
<1> HIDE DEF p
<1>4. p = WithRegs(o, e, regs)
  BY <1>2 DEF WithRegs, Typed
<1> HIDE DEF regs
<1>5. /\ Framed(o, p) /\ Only(o, p, e) /\ p.tx_fifo = o.tx_fifo /\ p.outbox = o.outbox
      /\ p.step = o.step /\ p.inep[e] = regs
  BY <1>3, <1>4, WrittenRegs
<1> QED BY <1>3, <1>5 DEF Clears, p, left

\* A write of DIEPEMPMSK: what is unmasked while armed is told.
Masks(o, p, mask) ==
  /\ Typed(p) /\ p.empmsk = mask
  /\ p.outep = o.outep /\ p.gintsts = o.gintsts /\ p.rx_status = o.rx_status
  /\ p.tx_fifo = o.tx_fifo /\ p.outbox = o.outbox /\ p.step = o.step
  /\ \A f \in Endpoints :
       /\ p.inep[f].ena = o.inep[f].ena /\ p.inep[f].size = o.inep[f].size
       /\ p.inep[f].sent = o.inep[f].sent
       /\ p.inep[f].int = IF f \in mask \ o.empmsk /\ o.inep[f].ena
                          THEN o.inep[f].int \cup {"TXFE"} ELSE o.inep[f].int

LEMMA Remasked ==
  ASSUME NEW o, Typed(o), NEW mask \in SUBSET Endpoints
  PROVE  Masks(o, WriteDiepempmsk(o, mask), mask)
<1> DEFINE int(f) == o.inep[f].int \cup {"TXFE"}
           told(f) == [o.inep[f] EXCEPT !.int = int(f)]
           hit(f) == f \in mask \ o.empmsk /\ o.inep[f].ena
           eps == [f \in Endpoints |-> IF hit(f) THEN told(f) ELSE o.inep[f]]
           p == WriteDiepempmsk(o, mask)
<1>1. p = [o EXCEPT !.empmsk = mask, !.inep = eps]
  BY DEF WriteDiepempmsk
<1>2. ASSUME NEW f \in Endpoints
      PROVE  /\ told(f) \in InEp /\ told(f).ena = o.inep[f].ena
             /\ told(f).size = o.inep[f].size /\ told(f).sent = o.inep[f].sent
             /\ told(f).int = o.inep[f].int \cup {"TXFE"} /\ o.inep[f] \in InEp
  <2>1. o.inep[f] \in InEp /\ int(f) \in SUBSET {"TXFE", "XFRC"}
    BY RegsOf
  <2> HIDE DEF int
  <2>2. /\ told(f) \in InEp /\ told(f).ena = o.inep[f].ena
        /\ told(f).size = o.inep[f].size /\ told(f).sent = o.inep[f].sent
        /\ told(f).int = int(f)
    BY <2>1 DEF InEp
  <2> QED BY <2>1, <2>2 DEF int
<1> HIDE DEF told, int
<1>3. eps \in [Endpoints -> InEp]
  BY <1>2
<1>4. \A f \in Endpoints :
        /\ eps[f].ena = o.inep[f].ena /\ eps[f].size = o.inep[f].size
        /\ eps[f].sent = o.inep[f].sent
        /\ eps[f].int = IF hit(f) THEN o.inep[f].int \cup {"TXFE"} ELSE o.inep[f].int
  BY <1>2
<1> HIDE DEF eps, p
<1>5. /\ DOMAIN p = DOMAIN o /\ p.empmsk = mask /\ p.inep = eps
      /\ p.outep = o.outep /\ p.gintsts = o.gintsts /\ p.rx_status = o.rx_status
      /\ p.tx_fifo = o.tx_fifo /\ p.outbox = o.outbox /\ p.step = o.step /\ p.inbox = o.inbox
  BY <1>1 DEF Typed, Fields
<1>6. Typed(p)
  BY <1>3, <1>5 DEF Typed
<1> QED BY <1>4, <1>5, <1>6 DEF Masks, p

-----------------------------------------------------------------------------
(* Accesses that leave transfers to the host alone.                         *)

\* Before the host has configured the device there is nothing for the bulk endpoint.
Calm(o) == Configured(o) \/ (o.outep[Bulk].int = {} /\ NoBulk(o))

\* Nothing a transfer depends on has changed.
Alike(o, p) ==
  /\ Typed(p) /\ p.empmsk = o.empmsk
  /\ p.tx_fifo[Bulk] = o.tx_fifo[Bulk] /\ p.outbox = o.outbox
  /\ Configured(p) <=> Configured(o)
  /\ "USBRST" \in p.gintsts <=> "USBRST" \in o.gintsts
  /\ Calm(o) => Calm(p)
  /\ \A f \in Endpoints :
       /\ p.inep[f].ena = o.inep[f].ena /\ p.inep[f].size = o.inep[f].size
       /\ p.inep[f].sent = o.inep[f].sent
       /\ "TXFE" \in p.inep[f].int <=> "TXFE" \in o.inep[f].int

\* Everything but the OUT side is as it was.
LEMMA Elsewhere ==
  ASSUME NEW o, Typed(o), NEW p, DOMAIN p = DOMAIN o, p.inbox \in Nat,
         p.empmsk = o.empmsk, p.inep = o.inep, p.tx_fifo = o.tx_fifo, p.outbox = o.outbox,
         p.step = o.step, "USBRST" \in p.gintsts <=> "USBRST" \in o.gintsts,
         p.outep \in [Endpoints -> OutEp], p.rx_status \in Seq(Entries), Calm(o) => Calm(p)
  PROVE  Alike(o, p)
<1>1. Typed(p)
  BY DEF Typed
<1> QED BY <1>1 DEF Alike, Configured

LEMMA AlikeSelf ==
  ASSUME NEW o, Typed(o)
  PROVE  Alike(o, o)
  BY DEF Alike

LEMMA AlikeTwice ==
  ASSUME NEW o, NEW p, NEW q, Alike(o, p), Alike(p, q)
  PROVE  Alike(o, q)
  BY DEF Alike

\* Fields that no transfer depends on.
LEMMA Masked ==
  ASSUME NEW o, Typed(o), NEW mask
  PROVE  Alike(o, WriteGintmsk(o, mask))
<1> DEFINE p == WriteGintmsk(o, mask)
<1>1. /\ DOMAIN p = DOMAIN o /\ p.inbox = o.inbox /\ p.empmsk = o.empmsk /\ p.inep = o.inep
      /\ p.tx_fifo = o.tx_fifo /\ p.outbox = o.outbox /\ p.step = o.step
      /\ p.gintsts = o.gintsts /\ p.outep = o.outep /\ p.rx_status = o.rx_status
  BY DEF Typed, Fields, WriteGintmsk
<1> HIDE DEF p
<1> QED BY <1>1, Elsewhere DEF Typed, Calm, Configured, NoBulk, p

LEMMA Daintmsked ==
  ASSUME NEW o, Typed(o), NEW mask
  PROVE  Alike(o, WriteDaintmsk(o, mask))
<1> DEFINE p == WriteDaintmsk(o, mask)
<1>1. /\ DOMAIN p = DOMAIN o /\ p.inbox = o.inbox /\ p.empmsk = o.empmsk /\ p.inep = o.inep
      /\ p.tx_fifo = o.tx_fifo /\ p.outbox = o.outbox /\ p.step = o.step
      /\ p.gintsts = o.gintsts /\ p.outep = o.outep /\ p.rx_status = o.rx_status
  BY DEF Typed, Fields, WriteDaintmsk
<1> HIDE DEF p
<1> QED BY <1>1, Elsewhere DEF Typed, Calm, Configured, NoBulk, p

LEMMA Popped ==
  ASSUME NEW o, Typed(o)
  PROVE  Alike(o, PopWord(o))
<1> DEFINE p == PopWord(o)
<1>1. /\ DOMAIN p = DOMAIN o /\ p.inbox = o.inbox /\ p.empmsk = o.empmsk /\ p.inep = o.inep
      /\ p.tx_fifo = o.tx_fifo /\ p.outbox = o.outbox /\ p.step = o.step
      /\ p.gintsts = o.gintsts /\ p.outep = o.outep /\ p.rx_status = o.rx_status
  BY DEF Typed, Fields, PopWord
<1> HIDE DEF p
<1> QED BY <1>1, Elsewhere DEF Typed, Calm, Configured, NoBulk, p

\* Interrupt causes other than a bus reset.
LEMMA Flagged ==
  ASSUME NEW o, Typed(o), NEW causes, "USBRST" \in causes <=> "USBRST" \in o.gintsts
  PROVE  Alike(o, [o EXCEPT !.gintsts = causes])
<1> DEFINE p == [o EXCEPT !.gintsts = causes]
<1>1. /\ DOMAIN p = DOMAIN o /\ p.inbox = o.inbox /\ p.empmsk = o.empmsk /\ p.inep = o.inep
      /\ p.tx_fifo = o.tx_fifo /\ p.outbox = o.outbox /\ p.step = o.step
      /\ p.gintsts = causes /\ p.outep = o.outep /\ p.rx_status = o.rx_status
  BY DEF Typed, Fields
<1> HIDE DEF p
<1> QED BY <1>1, Elsewhere DEF Typed, Calm, Configured, NoBulk, p

LEMMA Told ==
  ASSUME NEW o, Typed(o), NEW e \in Endpoints, NEW bits, "TXFE" \notin bits
  PROVE  Alike(o, WriteDiepint(o, e, bits))
<1> DEFINE p == WriteDiepint(o, e, bits)
<1> HIDE DEF p
<1>1. Clears(o, p, e, bits)
  BY IntCleared DEF p
<1>2. \A f \in Endpoints :
        /\ p.inep[f].ena = o.inep[f].ena /\ p.inep[f].size = o.inep[f].size
        /\ p.inep[f].sent = o.inep[f].sent
        /\ "TXFE" \in p.inep[f].int <=> "TXFE" \in o.inep[f].int
  BY <1>1 DEF Clears, Only
<1> QED BY <1>1, <1>2 DEF Clears, Framed, Alike, Calm, Configured, p

\* The registers of one OUT endpoint.
WithOut(o, e, regs) == [o EXCEPT !.outep[e] = regs]

LEMMA OutWritten ==
  ASSUME NEW o, Typed(o), NEW e \in Endpoints, NEW regs \in OutEp,
         regs.int \subseteq o.outep[e].int
  PROVE  Alike(o, WithOut(o, e, regs)) /\ WithOut(o, e, regs).rx_status = o.rx_status
<1> DEFINE p == WithOut(o, e, regs)
<1>1. /\ DOMAIN p = DOMAIN o /\ p.inbox = o.inbox /\ p.empmsk = o.empmsk /\ p.inep = o.inep
      /\ p.tx_fifo = o.tx_fifo /\ p.outbox = o.outbox /\ p.step = o.step
      /\ p.gintsts = o.gintsts /\ p.outep = [o.outep EXCEPT ![e] = regs]
      /\ p.rx_status = o.rx_status
  BY DEF Typed, Fields, WithOut
<1> HIDE DEF p
<1>2. p.outep \in [Endpoints -> OutEp] /\ p.outep[Bulk].int \subseteq o.outep[Bulk].int
  BY <1>1, EndpointFacts DEF Typed
<1>3. Calm(o) => Calm(p)
  BY <1>1, <1>2 DEF Calm, Configured, NoBulk
<1>4. p.inbox \in Nat /\ p.rx_status \in Seq(Entries)
  BY <1>1 DEF Typed
<1>5. Alike(o, p)
  BY <1>1, <1>2, <1>3, <1>4, Elsewhere
<1> QED BY <1>1, <1>5 DEF p

\* The fields of an OUT endpoint's registers.
LEMMA OutRegsOf ==
  ASSUME NEW o, Typed(o), NEW e \in Endpoints
  PROVE  /\ o.outep[e] \in OutEp /\ o.outep[e].int \in SUBSET {"STUP", "XFRC"}
         /\ o.outep[e].size \in Nat
  BY DEF Typed, OutEp

LEMMA OutTold ==
  ASSUME NEW o, Typed(o), NEW e \in Endpoints, NEW bits
  PROVE  Alike(o, WriteDoepint(o, e, bits))
<1> DEFINE r == o.outep[e]
           left == r.int \ bits
           regs == [r EXCEPT !.int = left]
<1>1. r \in OutEp /\ left \in SUBSET {"STUP", "XFRC"} /\ left \subseteq r.int
  BY OutRegsOf
<1>2. WriteDoepint(o, e, bits) = [o EXCEPT !.outep[e].int = left]
  BY DEF WriteDoepint
<1> HIDE DEF left
<1>3. regs \in OutEp /\ regs.int = left
  BY <1>1 DEF OutEp
<1>4. WriteDoepint(o, e, bits) = WithOut(o, e, regs)
  BY <1>2 DEF WithOut
<1> HIDE DEF regs
<1>5. regs.int \subseteq o.outep[e].int
  BY <1>1, <1>3
<1> QED BY <1>3, <1>4, <1>5, OutWritten

LEMMA OutSized ==
  ASSUME NEW o, Typed(o), NEW e \in Endpoints, NEW n \in Nat
  PROVE  Alike(o, WriteDoepsiz(o, e, n))
<1> DEFINE r == o.outep[e]
           regs == [r EXCEPT !.size = n]
<1>1. r \in OutEp
  BY OutRegsOf
<1>2. regs \in OutEp /\ regs.int = r.int
  BY <1>1 DEF OutEp
<1>3. WriteDoepsiz(o, e, n) = WithOut(o, e, regs)
  BY DEF WithOut, WriteDoepsiz
<1> HIDE DEF regs
<1> QED BY <1>2, <1>3, OutWritten

\* A request leaves the same transfers.
LEMMA SameAlike ==
  ASSUME NEW o, NEW p, Same(o, p)
  PROVE  Alike(o, p)
  BY DEF Same, Framed, Alike, Calm, Configured

\* A write of DOEPCTL arms and activates an OUT endpoint, and may invite a request.
LEMMA OutArmed ==
  ASSUME NEW o, Typed(o), NEW e \in Endpoints, NEW ena \in BOOLEAN, NEW active \in BOOLEAN
  PROVE  Alike(o, WriteDoepctl(o, e, ena, active))
<1> DEFINE r == o.outep[e]
           ena_regs == [r EXCEPT !.ena = ena]
           regs == [ena_regs EXCEPT !.active = active]
           written == [o EXCEPT !.outep[e].ena = ena, !.outep[e].active = active]
           p == WriteDoepctl(o, e, ena, active)
<1>1. r \in OutEp
  BY OutRegsOf
<1>2. ena_regs \in OutEp /\ ena_regs.int = r.int
  BY <1>1 DEF OutEp
<1>3. regs \in OutEp /\ regs.int = r.int
  BY <1>2 DEF OutEp
<1>4. written = WithOut(o, e, regs)
  BY DEF WithOut, Typed, Fields
<1>5. p \in {written, Setup(written, "GET_DESCRIPTOR")}
  BY DEF WriteDoepctl
<1> HIDE DEF regs, written, p
<1>6. Alike(o, written)
  BY <1>3, <1>4, OutWritten
<1>7. Typed(written)
  BY <1>6 DEF Alike
<1>8. Alike(written, Setup(written, "GET_DESCRIPTOR"))
  BY <1>7, SetupSame, SameAlike
<1> QED BY <1>5, <1>6, <1>8, AlikeTwice DEF p

\* A read of GRXSTSP: before the configuration it raises nothing for the bulk endpoint.
LEMMA StatusTaken ==
  ASSUME NEW o, Typed(o)
  PROVE  Alike(o, PopStatus(o))
<1>1. CASE o.rx_status = <<>>
  BY <1>1, AlikeSelf DEF PopStatus
<1>2. CASE o.rx_status # <<>>
  <2> DEFINE queue == o.rx_status
             status == Head(queue)
             e == status.ep
             left == Tail(queue)
             told == o.outep[e].int \cup RaisedBy(status)
             regs == [o.outep[e] EXCEPT !.int = told]
             eps == [o.outep EXCEPT ![e] = regs]
             p == PopStatus(o)
  <2>1. /\ queue \in Seq(Entries) /\ queue # <<>> /\ Len(queue) \in Nat
        /\ left \in Seq(Entries) /\ Len(left) = Len(queue) - 1
        /\ \A i \in 1..Len(left) : left[i] = queue[i + 1] /\ i + 1 \in 1..Len(queue)
        /\ status = queue[1] /\ 1 \in 1..Len(queue)
    <3> HIDE OtgAssumption, UsbAssumption
    <3> QED BY <1>2 DEF Typed
  <2>2. status \in Entries
    BY <2>1
  <2>3. e \in Endpoints
    BY <2>2 DEF Entries
  <2>4. p = [o EXCEPT !.rx_status = left, !.outep[e].int = told]
    BY <1>2 DEF PopStatus
  <2>5. o.outep \in [Endpoints -> OutEp] /\ o.outep[e] \in OutEp /\ told \in SUBSET {"STUP", "XFRC"}
    BY <2>3, OutRegsOf DEF RaisedBy, Typed
  <2>6. NoBulk(o) => e # Bulk /\ \A i \in 1..Len(left) : left[i].ep # Bulk
    BY <2>1 DEF NoBulk
  <2> HIDE DEF told, left, queue, status, e
  <2>7. regs \in OutEp /\ regs.int = told
    BY <2>5 DEF OutEp
  <2> HIDE DEF p
  <2>8. /\ DOMAIN p = DOMAIN o /\ p.inbox = o.inbox /\ p.empmsk = o.empmsk /\ p.inep = o.inep
        /\ p.tx_fifo = o.tx_fifo /\ p.outbox = o.outbox /\ p.step = o.step
        /\ p.gintsts = o.gintsts /\ p.outep = eps /\ p.rx_status = left
    BY <2>4 DEF Typed, Fields
  <2> HIDE DEF regs
  <2>9. p.outep \in [Endpoints -> OutEp] /\ (e # Bulk => p.outep[Bulk] = o.outep[Bulk])
    BY <2>3, <2>5, <2>7, <2>8, EndpointFacts
  <2>10. Calm(o) => Calm(p)
    BY <2>6, <2>8, <2>9 DEF Calm, Configured, NoBulk
  <2>11. p.inbox \in Nat /\ p.rx_status \in Seq(Entries)
    BY <2>1, <2>8 DEF Typed, left, queue
  <2>12. Alike(o, p)
    BY <2>8, <2>9, <2>10, <2>11, Elsewhere
  <2> QED BY <2>12 DEF p
<1> QED BY <1>1, <1>2

\* The poll hands the device what the host has for it.
LEMMA Forwarded ==
  ASSUME NEW o, Typed(o)
  PROVE  Alike(o, ForwardBulkOut(o)) /\ ForwardBulkOut(o).attached = o.attached
<1>1. CASE ~CanForward(o)
  BY <1>1, AlikeSelf DEF ForwardBulkOut
<1>2. CASE CanForward(o)
  <2>1. PICK off \in BOOLEAN : off = FALSE
    OBVIOUS
  <2> DEFINE r == o.outep[Bulk]
             n == Least(o.inbox, Least(MaxPacket, r.size))
             left == o.inbox - n
             room == r.size - n
             off_regs == [r EXCEPT !.ena = off]
             regs == [off_regs EXCEPT !.size = room]
             eps == [o.outep EXCEPT ![Bulk] = regs]
             fifo == o.rx_fifo \o Packet("data", n)
             queue == o.rx_status \o <<Status("OUT_DATA", n, Bulk), Status("OUT_COMP", 0, Bulk)>>
             p == ForwardBulkOut(o)
  <2>2. o.inbox \in Nat /\ MaxPacket \in Nat /\ r.size \in Nat /\ Bulk \in Endpoints
    BY EndpointFacts, OutRegsOf DEF Typed
  <2>3. n \in Nat /\ left \in Nat /\ room \in Nat
    BY <2>2 DEF Least
  <2>4. p = OutPacket([o EXCEPT !.inbox = left, !.outep[Bulk].ena = FALSE, !.outep[Bulk].size = room],
                      Bulk, "data", n)
    <3>1. [o EXCEPT !.inbox = left, !.outep[Bulk].ena = FALSE, !.outep[Bulk].size = room]
          = [o EXCEPT !.inbox = @ - n, !.outep[Bulk].ena = FALSE, !.outep[Bulk].size = @ - n]
      BY Zenon
    <3> QED BY <1>2, <3>1, Zenon DEF ForwardBulkOut
  <2> HIDE DEF n, left, room
  <2>5. p = [o EXCEPT !.inbox = left, !.outep = eps, !.rx_fifo = fifo, !.rx_status = queue]
    <3> DEFINE q == [o EXCEPT !.inbox = left, !.outep[Bulk].ena = off, !.outep[Bulk].size = room]
    <3>1. p = OutPacket(q, Bulk, "data", n)
      BY <2>1, <2>4, Zenon
    <3>2. q = [o EXCEPT !.inbox = left, !.outep = eps]
      BY <2>2 DEF Typed, Fields
    <3> HIDE DEF q, eps, p
    <3>3. q.rx_fifo = o.rx_fifo /\ q.rx_status = o.rx_status /\ DOMAIN q = DOMAIN o
      BY <3>2 DEF Typed, Fields
    <3>4. p = [q EXCEPT !.rx_fifo = fifo, !.rx_status = queue]
      BY <3>1, <3>3 DEF OutPacket
    <3> HIDE DEF fifo, queue
    <3> QED BY <3>2, <3>4
  <2>6. Status("OUT_DATA", n, Bulk) \in Entries /\ Status("OUT_COMP", 0, Bulk) \in Entries
    BY <2>2, <2>3 DEF Status, Entries
  <2>7. queue \in Seq(Entries)
    BY <2>6 DEF Typed
  <2>8. off_regs \in OutEp
    BY <2>2, OutRegsOf DEF OutEp
  <2>9. regs \in OutEp
    BY <2>3, <2>8 DEF OutEp
  <2> HIDE DEF regs, fifo, queue
  <2>10. eps \in [Endpoints -> OutEp]
    BY <2>9 DEF Typed
  <2> HIDE DEF eps, p
  <2>11. /\ DOMAIN p = DOMAIN o /\ p.inbox = left /\ p.empmsk = o.empmsk /\ p.inep = o.inep
         /\ p.tx_fifo = o.tx_fifo /\ p.outbox = o.outbox /\ p.step = o.step
         /\ p.gintsts = o.gintsts /\ p.outep = eps /\ p.rx_status = queue
         /\ p.attached = o.attached
    BY <2>5 DEF Typed, Fields
  <2>12. Calm(p)
    BY <1>2, <2>11 DEF CanForward, Calm, Configured, Steps
  <2>13. Alike(o, p)
    BY <2>3, <2>7, <2>10, <2>11, <2>12, Elsewhere
  <2> QED BY <2>11, <2>13 DEF p
<1> QED BY <1>1, <1>2

\* A bus reset: no transfer is under way.
Vacates(o, p) ==
  /\ Typed(p) /\ p.empmsk = o.empmsk /\ p.outbox = o.outbox
  /\ "USBRST" \in p.gintsts /\ Calm(p) /\ p.tx_fifo[Bulk] = <<>>
  /\ \A f \in Endpoints :
       /\ ~p.inep[f].ena /\ "TXFE" \notin p.inep[f].int
       /\ p.inep[f].size = 0 /\ p.inep[f].sent = 0

LEMMA VacatesAlike ==
  ASSUME NEW o, NEW p, NEW q, Vacates(o, p), Alike(p, q)
  PROVE  Vacates(o, q)
<1>1. /\ Typed(q) /\ q.empmsk = o.empmsk /\ q.outbox = o.outbox /\ "USBRST" \in q.gintsts
      /\ Calm(q) /\ q.tx_fifo[Bulk] = <<>>
  BY DEF Vacates, Alike
<1>2. ASSUME NEW f \in Endpoints
      PROVE  /\ ~q.inep[f].ena /\ "TXFE" \notin q.inep[f].int
             /\ q.inep[f].size = 0 /\ q.inep[f].sent = 0
  BY DEF Vacates, Alike
<1> QED BY <1>1, <1>2 DEF Vacates

LEMMA ResetVacates ==
  ASSUME NEW o, Typed(o)
  PROVE  Vacates(o, Reset(o)) /\ Reset(o).attached = o.attached
<1>1. PICK off \in BOOLEAN : off = FALSE
  OBVIOUS
<1> DEFINE in_regs == [ena |-> off, int |-> {}, size |-> 0, sent |-> 0]
           out_regs == [ena |-> off, active |-> off, int |-> {}, size |-> 0]
           inep == [e \in Endpoints |-> in_regs]
           outep == [e \in Endpoints |-> out_regs]
           fifos == [e \in Endpoints |-> <<>>]
           causes == o.gintsts \cup {"USBRST"}
           p == Reset(o)
<1>2. p = [o EXCEPT !.stage = Steps[1], !.step = Steps[1], !.gintsts = causes,
                    !.inep = inep, !.outep = outep, !.rx_fifo = <<>>, !.rx_status = <<>>,
                    !.tx_fifo = fifos]
  <2>1. InRegs = in_regs /\ OutRegs = out_regs
    BY <1>1, Zenon DEF InRegs, OutRegs
  <2> HIDE DEF in_regs, out_regs
  <2> QED BY <2>1, Zenon DEF Reset
<1>3. in_regs \in InEp /\ in_regs.ena = off /\ in_regs.int = {} /\ in_regs.size = 0 /\ in_regs.sent = 0
  BY DEF InEp
<1>4. out_regs \in OutEp /\ out_regs.int = {}
  BY DEF OutEp
<1> HIDE DEF in_regs, out_regs
<1>5. /\ inep \in [Endpoints -> InEp] /\ \A f \in Endpoints : inep[f] = in_regs
      /\ outep \in [Endpoints -> OutEp] /\ outep[Bulk] = out_regs
  BY <1>3, <1>4, EndpointFacts
<1>6. fifos \in [Endpoints -> Seq(Bytes)] /\ fifos[Bulk] = <<>>
  BY EndpointFacts
<1>7. "USBRST" \in causes
  OBVIOUS
<1> HIDE DEF inep, outep, fifos, p, causes
<1>8. /\ DOMAIN p = DOMAIN o /\ p.inbox = o.inbox /\ p.empmsk = o.empmsk /\ p.inep = inep
      /\ p.tx_fifo = fifos /\ p.outbox = o.outbox /\ p.gintsts = causes /\ p.outep = outep
      /\ p.rx_status = <<>> /\ p.attached = o.attached
  BY <1>2 DEF Typed, Fields
<1>9. <<>> \in Seq(Entries) /\ Len(<<>>) = 0
  OBVIOUS
<1>10. Typed(p)
  BY <1>5, <1>6, <1>8, <1>9 DEF Typed
<1>11. Calm(p)
  BY <1>4, <1>5, <1>8, <1>9 DEF Calm, NoBulk
<1>12. \A f \in Endpoints :
        /\ ~p.inep[f].ena /\ "TXFE" \notin p.inep[f].int
        /\ p.inep[f].size = 0 /\ p.inep[f].sent = 0
  BY <1>1, <1>3, <1>5, <1>8
<1> QED BY <1>6, <1>7, <1>8, <1>10, <1>11, <1>12 DEF Vacates, p

\* Only the link to the bridge has changed.
LEMMA Attached ==
  ASSUME NEW o, Typed(o), NEW attached \in BOOLEAN
  PROVE  LET p == [o EXCEPT !.attached = attached]
         IN  Alike(o, p) /\ p.attached = attached
<1> DEFINE p == [o EXCEPT !.attached = attached]
<1>1. /\ DOMAIN p = DOMAIN o /\ p.inbox = o.inbox /\ p.empmsk = o.empmsk /\ p.inep = o.inep
      /\ p.tx_fifo = o.tx_fifo /\ p.outbox = o.outbox /\ p.step = o.step
      /\ p.gintsts = o.gintsts /\ p.outep = o.outep /\ p.rx_status = o.rx_status
      /\ p.attached = attached
  BY DEF Typed, Fields
<1> HIDE DEF p
<1>2. Alike(o, p)
  BY <1>1, Elsewhere DEF Typed, Calm, Configured, NoBulk
<1> QED BY <1>1, <1>2 DEF p

\* Between two polls nothing changes for a transfer, but by a reset.
LEMMA Polled ==
  ASSUME Typed(otg), NEW enabled, NEW sof, PollOtg(enabled, sof)
  PROVE  IF otg'.attached /\ ~otg.attached THEN Vacates(otg, otg') ELSE Alike(otg, otg')
<1>1. PICK on \in BOOLEAN : on = TRUE
  OBVIOUS
<1> DEFINE refreshed == Refresh(otg, enabled)
           causes == refreshed.gintsts \cup {"SOF"}
           framed == IF refreshed.attached /\ sof
                     THEN [refreshed EXCEPT !.gintsts = causes] ELSE refreshed
           comes == otg.present /\ otg.gintmsk # {} /\ enabled /\ ~otg.attached
           stays == otg.attached /\ otg.present
<1>2. otg' = ForwardBulkOut(framed)
  BY DEF PollOtg
<1>3. /\ refreshed.attached \in BOOLEAN /\ Typed(refreshed)
      /\ IF refreshed.attached /\ ~otg.attached THEN Vacates(otg, refreshed)
         ELSE Alike(otg, refreshed)
  <2>1. CASE comes
    <3> DEFINE q == [otg EXCEPT !.attached = on]
    <3>1. refreshed = Reset(q)
      <4>1. refreshed = Reset([otg EXCEPT !.attached = TRUE])
        BY <2>1, Zenon DEF Refresh
      <4> QED BY <1>1, <4>1, Zenon
    <3>2. Alike(otg, q) /\ q.attached = on
      BY Attached
    <3> HIDE DEF q, refreshed
    <3>3. Vacates(q, refreshed) /\ refreshed.attached = on
      BY <3>1, <3>2, ResetVacates DEF Alike
    <3>4. Vacates(otg, refreshed)
      BY <3>2, <3>3 DEF Alike, Vacates
    <3> QED BY <1>1, <2>1, <3>3, <3>4 DEF Vacates
  <2>2. CASE ~comes
    <3>1. PICK b \in BOOLEAN : b = stays
      BY Zenon
    <3>2. refreshed = [otg EXCEPT !.attached = b]
      BY <2>2, <3>1, Zenon DEF Refresh
    <3> HIDE DEF refreshed
    <3>3. Alike(otg, refreshed) /\ refreshed.attached = b
      BY <3>2, Attached
    <3>4. ~(b /\ ~otg.attached)
      BY <3>1
    <3> QED BY <3>3, <3>4 DEF Alike
  <2> QED BY <2>1, <2>2
<1> HIDE DEF refreshed
<1>4. Alike(refreshed, framed) /\ framed.attached = refreshed.attached
  <2>1. "USBRST" \in causes <=> "USBRST" \in refreshed.gintsts
    OBVIOUS
  <2>2. [refreshed EXCEPT !.gintsts = causes].attached = refreshed.attached
    BY <1>3 DEF Typed, Fields
  <2> HIDE DEF causes
  <2>3. Alike(refreshed, [refreshed EXCEPT !.gintsts = causes])
    BY <1>3, <2>1, Flagged
  <2>4. Alike(refreshed, refreshed)
    BY <1>3, AlikeSelf
  <2> QED BY <2>2, <2>3, <2>4
<1> HIDE DEF framed
<1>5. Alike(framed, otg') /\ otg'.attached = framed.attached
  BY <1>2, <1>4, Forwarded DEF Alike
<1>6. Alike(refreshed, otg')
  BY <1>4, <1>5, AlikeTwice
<1>7. CASE refreshed.attached /\ ~otg.attached
  BY <1>3, <1>4, <1>5, <1>6, <1>7, VacatesAlike
<1>8. CASE ~(refreshed.attached /\ ~otg.attached)
  BY <1>3, <1>4, <1>5, <1>6, <1>8, AlikeTwice
<1> QED BY <1>7, <1>8

-----------------------------------------------------------------------------
(* What holds of the controller while the driver has accesses to make.      *)

Up(o) == Configured(o) \/ "USBRST" \in o.gintsts

\* Every armed and unmasked transfer has bytes to send and has been told so, but for the
\* endpoints F being filled and the endpoints X whose size has been taken.
Held(o, F, X) ==
  \A f \in Endpoints : o.inep[f].ena /\ f \in o.empmsk =>
    ("TXFE" \in o.inep[f].int \/ f \in F) /\ (o.inep[f].size > 0 \/ f \in X)

\* The bulk FIFO is empty.
Quiet(o) == o.tx_fifo[Bulk] = <<>> /\ (o.inep[Bulk].ena => o.inep[Bulk].sent = 0)

\* A bulk transfer that is told to fill its FIFO is one of a configured device.
Idle(o) == Quiet(o) /\ (Bulk \in o.empmsk => Up(o))

Sized(o, e) == o.inep[e].ena => o.inep[e].size > 0

\* k words are enough for the transfer under way, and for the bulk transfer not one too many.
Enough(o, e, k) == o.inep[e].ena => o.inep[e].sent + k * WordBytes >= o.inep[e].size
Exact(o, k) ==
  /\ o.inep[Bulk].ena /\ o.inep[Bulk].sent + k * WordBytes >= ReplyBytes
  /\ o.inep[Bulk].sent + (k - 1) * WordBytes < ReplyBytes

\* A FIFO-empty interrupt is one of an armed transfer, and replies are all of one size.
Ground(o) ==
  /\ \A f \in Endpoints : "TXFE" \in o.inep[f].int => o.inep[f].ena
  /\ o.inep[Bulk].size \in {0, ReplyBytes}
  /\ o.inep[Bulk].ena => o.inep[Bulk].size = ReplyBytes

\* What the accesses ahead depend on is as it was.
Kept(o, p) ==
  /\ Typed(p) /\ p.empmsk = o.empmsk
  /\ p.tx_fifo[Bulk] = o.tx_fifo[Bulk]
  /\ Configured(p) <=> Configured(o)
  /\ "USBRST" \in p.gintsts <=> "USBRST" \in o.gintsts
  /\ Calm(o) => Calm(p)
  /\ \A f \in Endpoints :
       /\ p.inep[f].ena = o.inep[f].ena /\ p.inep[f].size = o.inep[f].size
       /\ p.inep[f].sent = o.inep[f].sent
       /\ "TXFE" \in p.inep[f].int <=> "TXFE" \in o.inep[f].int

LEMMA AlikeKept ==
  ASSUME NEW o, NEW p, Alike(o, p)
  PROVE  Kept(o, p)
  BY DEF Alike, Kept

LEMMA KeptHolds ==
  ASSUME NEW o, NEW p, Typed(o), Kept(o, p)
  PROVE  /\ Calm(o) => Calm(p)
         /\ Ground(o) => Ground(p)
         /\ Up(o) <=> Up(p)
         /\ \A F, X : Held(o, F, X) => Held(p, F, X)
         /\ Quiet(o) => Quiet(p)
         /\ Idle(o) => Idle(p)
         /\ \A e \in Endpoints : Sized(o, e) => Sized(p, e)
         /\ \A e \in Endpoints : \A k : Enough(o, e, k) => Enough(p, e, k)
         /\ \A k : Exact(o, k) => Exact(p, k)
<1>1. Calm(o) => Calm(p)
  BY DEF Kept
<1>2. Ground(o) => Ground(p)
  BY EndpointFacts DEF Kept, Ground
<1>3. Up(o) <=> Up(p)
  BY DEF Kept, Up
<1>4. \A F, X : Held(o, F, X) => Held(p, F, X)
  BY DEF Kept, Held
<1>5. Quiet(o) => Quiet(p)
  BY EndpointFacts DEF Kept, Quiet
<1>6. Idle(o) => Idle(p)
  BY <1>3, <1>5 DEF Kept, Idle
<1>7. \A e \in Endpoints : Sized(o, e) => Sized(p, e)
  BY DEF Kept, Sized
<1>8. \A e \in Endpoints : \A k : Enough(o, e, k) => Enough(p, e, k)
  BY DEF Kept, Enough
<1>9. \A k : Exact(o, k) => Exact(p, k)
  BY EndpointFacts DEF Kept, Exact
<1> QED BY <1>1, <1>2, <1>3, <1>4, <1>5, <1>6, <1>7, <1>8, <1>9

LEMMA AlikeHolds ==
  ASSUME NEW o, NEW p, Typed(o), Alike(o, p)
  PROVE  /\ Calm(o) => Calm(p)
         /\ Ground(o) => Ground(p)
         /\ Up(o) <=> Up(p)
         /\ \A F, X : Held(o, F, X) => Held(p, F, X)
         /\ Quiet(o) => Quiet(p)
         /\ Idle(o) => Idle(p)
         /\ \A e \in Endpoints : Sized(o, e) => Sized(p, e)
         /\ \A e \in Endpoints : \A k : Enough(o, e, k) => Enough(p, e, k)
         /\ \A k : Exact(o, k) => Exact(p, k)
  BY AlikeKept, KeptHolds

LEMMA VacatesHolds ==
  ASSUME NEW o, NEW p, Vacates(o, p)
  PROVE  /\ Calm(p) /\ Ground(p) /\ Up(p) /\ Idle(p)
         /\ \A F, X : Held(p, F, X)
         /\ \A e \in Endpoints : Sized(p, e)
         /\ \A e \in Endpoints : \A k : Enough(p, e, k)
<1>1. Calm(p) /\ Up(p)
  BY DEF Vacates, Up
<1>2. Ground(p) /\ Idle(p)
  BY <1>1, EndpointFacts DEF Vacates, Ground, Idle, Quiet
<1>3. \A F, X : Held(p, F, X)
  BY DEF Vacates, Held
<1>4. \A e \in Endpoints : Sized(p, e)
  BY DEF Vacates, Sized
<1>5. \A e \in Endpoints : \A k : Enough(p, e, k)
  BY DEF Vacates, Enough
<1> QED BY <1>1, <1>2, <1>3, <1>4, <1>5

\* The accesses of the driver.
SizeOp(e, n) == [reg |-> "DIEPTSIZ", ep |-> e, n |-> n]
CtlOp(e) == [reg |-> "DIEPCTL", ep |-> e]
MaskOp(e, on) == [reg |-> "DIEPEMPMSK", ep |-> e, on |-> on]
ClearOp(e) == [reg |-> "DIEPINT", ep |-> e, bits |-> {"TXFE"}]
FillOp(e) == [reg |-> "TXFIFO", ep |-> e]
TellOp(e, bits) == [reg |-> "DOEPINT", ep |-> e, bits |-> bits]
DoneOp(e) == [reg |-> "DIEPINT", ep |-> e, bits |-> {"XFRC"}]
EndReset == [reg |-> "GINTSTS", bits |-> {"USBRST"}]

\* Those no transfer to the host depends on.
MildOps ==
  {[reg |-> "GINTMSK"], [reg |-> "NVIC"], [reg |-> "GRXSTSP"], [reg |-> "RXFIFO"]}
    \cup {[reg |-> "GINTSTS", bits |-> {"SOF"}]}
    \cup {[reg |-> "DAINTMSK", ep |-> e] : e \in Endpoints}
    \cup {[reg |-> "DOEPTSIZ", ep |-> e] : e \in Endpoints}
    \cup {[reg |-> "DOEPCTL", ep |-> e] : e \in Endpoints}
    \cup {TellOp(e, b) : e \in Endpoints, b \in {{"STUP"}, {"XFRC"}}}
    \cup {DoneOp(e) : e \in Endpoints}

\* The rest T of a handler from its first access that a transfer depends on, with what is
\* then true of the controller; t says that the session began within the handler, w is the
\* reply under way.
AtRest(T, o, t) == T = <<>> /\ Held(o, {}, {}) /\ (t \/ Idle(o))

ToSize(T, o, t, e, n) ==
  /\ T = <<SizeOp(e, n), CtlOp(e), MaskOp(e, n > 0)>> /\ (e = Bulk => n = ReplyBytes)
  /\ Held(o, {}, {}) /\ (t \/ (Idle(o) /\ (e = Bulk => Up(o))))

ToResize(T, o, t) ==
  /\ T = <<SizeOp(Bulk, ReplyBytes), CtlOp(Bulk)>>
  /\ Held(o, {}, {}) /\ (t \/ Idle(o))

ToArm(T, o, t, e) == T = <<CtlOp(e)>> /\ Held(o, {}, {}) /\ (t \/ Idle(o))

Unmasking(o, t, e, on) ==
  /\ Held(o, {}, IF on THEN {} ELSE {e}) /\ (on => Sized(o, e))
  /\ t \/ (Idle(o) /\ (e = Bulk /\ on => Up(o)))

ToArmAndMask(T, o, t, e, on) == T = <<CtlOp(e), MaskOp(e, on)>> /\ Unmasking(o, t, e, on)

ToMask(T, o, t, e, on) == T = <<MaskOp(e, on)>> /\ Unmasking(o, t, e, on)

ToClear(T, o, t, e) ==
  T = <<ClearOp(e)>> /\ e \notin o.empmsk /\ Held(o, {}, {}) /\ (t \/ Idle(o))

ToClearAndFill(T, o, t, e, on, k) ==
  /\ T = <<ClearOp(e)>> \o (Repeat(FillOp(e), k) \o <<MaskOp(e, on)>>)
  /\ Held(o, {}, {}) /\ Enough(o, e, k)
  /\ t \/ (Idle(o) /\ (e = Bulk => Configured(o) /\ Exact(o, k)))

ToFill(T, o, t, w, e, on, k) ==
  /\ T = Repeat(FillOp(e), k) \o <<MaskOp(e, on)>>
  /\ Held(o, {e}, {}) /\ Enough(o, e, k) /\ "TXFE" \notin o.inep[e].int
  /\ \/ t
     \/ e # Bulk /\ Idle(o)
     \/ e = Bulk /\ Configured(o) /\ Exact(o, k)
          /\ o.tx_fifo[Bulk] = Packet(w, o.inep[Bulk].sent)

\* The end of the reset handler: the masks come down, and endpoint 0 is activated.
Activation == << [reg |-> "DAINTMSK", ep |-> 0], [reg |-> "DOEPCTL", ep |-> 0] >>

ToEndReset(T, o, t, r) ==
  /\ T = <<EndReset, MaskOp(0, FALSE), MaskOp(Bulk, FALSE)>> \o Activation
  /\ Held(o, {}, {}) /\ (t \/ Idle(o)) /\ ~r

ToMaskBoth(T, o, t) ==
  /\ T = <<MaskOp(0, FALSE), MaskOp(Bulk, FALSE)>> \o Activation
  /\ Held(o, {}, {}) /\ (t \/ Quiet(o))

ToMaskBulk(T, o, t) ==
  /\ T = <<MaskOp(Bulk, FALSE)>> \o Activation
  /\ Held(o, {}, {}) /\ (t \/ Quiet(o))

Ahead(T, o, t, r, w) ==
  \/ AtRest(T, o, t)
  \/ \E e \in Endpoints, n \in Nat : ToSize(T, o, t, e, n)
  \/ ToResize(T, o, t)
  \/ \E e \in Endpoints : ToArm(T, o, t, e)
  \/ \E e \in Endpoints, on \in BOOLEAN : ToArmAndMask(T, o, t, e, on)
  \/ \E e \in Endpoints, on \in BOOLEAN : ToMask(T, o, t, e, on)
  \/ \E e \in Endpoints : ToClear(T, o, t, e)
  \/ \E e \in Endpoints, on \in BOOLEAN, k \in Nat \ {0} : ToClearAndFill(T, o, t, e, on, k)
  \/ \E e \in Endpoints, on \in BOOLEAN, k \in Nat \ {0} : ToFill(T, o, t, w, e, on, k)
  \/ ToEndReset(T, o, t, r) \/ ToMaskBoth(T, o, t) \/ ToMaskBulk(T, o, t)

\* What is ahead stays so as long as no transfer is touched ...
LEMMA AheadKept ==
  ASSUME NEW o, NEW p, NEW T, NEW t, NEW r, NEW w, Typed(o), Kept(o, p), Ahead(T, o, t, r, w)
  PROVE  Ahead(T, p, t, r, w)
<1>1. AtRest(T, o, t) => AtRest(T, p, t)
  BY KeptHolds DEF AtRest
<1>2. ASSUME NEW e \in Endpoints, NEW n \in Nat, ToSize(T, o, t, e, n)
      PROVE  ToSize(T, p, t, e, n)
  BY <1>2, KeptHolds DEF ToSize
<1>3. ToResize(T, o, t) => ToResize(T, p, t)
  BY KeptHolds DEF ToResize
<1>4. ASSUME NEW e \in Endpoints, ToArm(T, o, t, e)
      PROVE  ToArm(T, p, t, e)
  BY <1>4, KeptHolds DEF ToArm
<1>5. ASSUME NEW e \in Endpoints, NEW on \in BOOLEAN, ToArmAndMask(T, o, t, e, on)
      PROVE  ToArmAndMask(T, p, t, e, on)
  BY <1>5, KeptHolds DEF ToArmAndMask, Unmasking
<1>6. ASSUME NEW e \in Endpoints, NEW on \in BOOLEAN, ToMask(T, o, t, e, on)
      PROVE  ToMask(T, p, t, e, on)
  BY <1>6, KeptHolds DEF ToMask, Unmasking
<1>7. ASSUME NEW e \in Endpoints, ToClear(T, o, t, e)
      PROVE  ToClear(T, p, t, e)
  BY <1>7, KeptHolds DEF ToClear, Kept
<1>8. ASSUME NEW e \in Endpoints, NEW on \in BOOLEAN, NEW k \in Nat \ {0}, ToClearAndFill(T, o, t, e, on, k)
      PROVE  ToClearAndFill(T, p, t, e, on, k)
  BY <1>8, KeptHolds DEF ToClearAndFill, Kept
<1>9. ASSUME NEW e \in Endpoints, NEW on \in BOOLEAN, NEW k \in Nat \ {0}, ToFill(T, o, t, w, e, on, k)
      PROVE  ToFill(T, p, t, w, e, on, k)
  BY <1>9, KeptHolds DEF ToFill, Kept
<1>10. ToEndReset(T, o, t, r) => ToEndReset(T, p, t, r)
  BY KeptHolds DEF ToEndReset
<1>11. ToMaskBoth(T, o, t) => ToMaskBoth(T, p, t)
  BY KeptHolds DEF ToMaskBoth
<1>12. ToMaskBulk(T, o, t) => ToMaskBulk(T, p, t)
  BY KeptHolds DEF ToMaskBulk
<1> QED BY <1>1, <1>2, <1>3, <1>4, <1>5, <1>6, <1>7, <1>8, <1>9, <1>10, <1>11, <1>12 DEF Ahead

LEMMA AheadAlike ==
  ASSUME NEW o, NEW p, NEW T, NEW t, NEW r, NEW w, Typed(o), Alike(o, p), Ahead(T, o, t, r, w)
  PROVE  Ahead(T, p, t, r, w)
  BY AlikeKept, AheadKept

\* ... and when a reset comes between two accesses.
LEMMA AheadTorn ==
  ASSUME NEW o, NEW p, NEW T, NEW t, NEW r, NEW w, Typed(o), Vacates(o, p), Ahead(T, o, t, r, w)
  PROVE  Ahead(T, p, TRUE, r, w)
<1>1. AtRest(T, o, t) => AtRest(T, p, TRUE)
  BY VacatesHolds DEF AtRest
<1>2. ASSUME NEW e \in Endpoints, NEW n \in Nat, ToSize(T, o, t, e, n)
      PROVE  ToSize(T, p, TRUE, e, n)
  BY <1>2, VacatesHolds DEF ToSize
<1>3. ToResize(T, o, t) => ToResize(T, p, TRUE)
  BY VacatesHolds DEF ToResize
<1>4. ASSUME NEW e \in Endpoints, ToArm(T, o, t, e)
      PROVE  ToArm(T, p, TRUE, e)
  BY <1>4, VacatesHolds DEF ToArm
<1>5. ASSUME NEW e \in Endpoints, NEW on \in BOOLEAN, ToArmAndMask(T, o, t, e, on)
      PROVE  ToArmAndMask(T, p, TRUE, e, on)
  BY <1>5, VacatesHolds DEF ToArmAndMask, Unmasking
<1>6. ASSUME NEW e \in Endpoints, NEW on \in BOOLEAN, ToMask(T, o, t, e, on)
      PROVE  ToMask(T, p, TRUE, e, on)
  BY <1>6, VacatesHolds DEF ToMask, Unmasking
<1>7. ASSUME NEW e \in Endpoints, ToClear(T, o, t, e)
      PROVE  ToClear(T, p, TRUE, e)
  BY <1>7, VacatesHolds DEF ToClear, Vacates
<1>8. ASSUME NEW e \in Endpoints, NEW on \in BOOLEAN, NEW k \in Nat \ {0}, ToClearAndFill(T, o, t, e, on, k)
      PROVE  ToClearAndFill(T, p, TRUE, e, on, k)
  BY <1>8, VacatesHolds DEF ToClearAndFill, Vacates
<1>9. ASSUME NEW e \in Endpoints, NEW on \in BOOLEAN, NEW k \in Nat \ {0}, ToFill(T, o, t, w, e, on, k)
      PROVE  ToFill(T, p, TRUE, w, e, on, k)
  BY <1>9, VacatesHolds DEF ToFill, Vacates
<1>10. ToEndReset(T, o, t, r) => ToEndReset(T, p, TRUE, r)
  BY VacatesHolds DEF ToEndReset
<1>11. ToMaskBoth(T, o, t) => ToMaskBoth(T, p, TRUE)
  BY VacatesHolds DEF ToMaskBoth
<1>12. ToMaskBulk(T, o, t) => ToMaskBulk(T, p, TRUE)
  BY VacatesHolds DEF ToMaskBulk
<1> QED BY <1>1, <1>2, <1>3, <1>4, <1>5, <1>6, <1>7, <1>8, <1>9, <1>10, <1>11, <1>12 DEF Ahead

-----------------------------------------------------------------------------
(* The accesses of a handler, one after the other.                          *)

LEMMA MildAccess ==
  ASSUME Typed(otg), NEW op \in MildOps
  PROVE  Alike(otg, Access(op))
<1>1. CASE op = [reg |-> "GINTMSK"]
  <2>1. Access(op) = WriteGintmsk(otg, Causes)
    BY <1>1 DEF Access
  <2> QED BY <2>1, Masked
<1>2. CASE op = [reg |-> "NVIC"]
  <2>1. Access(op) = otg
    BY <1>2 DEF Access
  <2> QED BY <2>1, AlikeSelf
<1>3. CASE op = [reg |-> "GRXSTSP"]
  <2>1. Access(op) = PopStatus(otg)
    BY <1>3 DEF Access
  <2> QED BY <2>1, StatusTaken
<1>4. CASE op = [reg |-> "RXFIFO"]
  <2>1. Access(op) = PopWord(otg)
    BY <1>4 DEF Access
  <2> QED BY <2>1, Popped
<1>5. CASE op = [reg |-> "GINTSTS", bits |-> {"SOF"}]
  <2> DEFINE causes == otg.gintsts \ {"SOF"}
  <2>1. Access(op) = [otg EXCEPT !.gintsts = causes]
    BY <1>5 DEF Access, WriteGintsts
  <2>2. "USBRST" \in causes <=> "USBRST" \in otg.gintsts
    OBVIOUS
  <2> HIDE DEF causes
  <2> QED BY <2>1, <2>2, Flagged
<1>6. ASSUME NEW e \in Endpoints, op = [reg |-> "DAINTMSK", ep |-> e]
      PROVE  Alike(otg, Access(op))
  <2>1. PICK mask : Access(op) = WriteDaintmsk(otg, mask)
    BY <1>6 DEF Access
  <2> QED BY <2>1, Daintmsked
<1>7. ASSUME NEW e \in Endpoints, op = [reg |-> "DOEPTSIZ", ep |-> e]
      PROVE  Alike(otg, Access(op))
  <2>1. Access(op) = WriteDoepsiz(otg, e, MaxPacket)
    BY <1>7 DEF Access
  <2>2. MaxPacket \in Nat
    OBVIOUS
  <2> QED BY <2>1, <2>2, OutSized
<1>8. ASSUME NEW e \in Endpoints, op = [reg |-> "DOEPCTL", ep |-> e]
      PROVE  Alike(otg, Access(op))
  <2>1. PICK ena \in BOOLEAN, active \in BOOLEAN : ena = (e # 0) /\ active = TRUE
    BY Zenon
  <2>2. op.reg = "DOEPCTL" /\ op.ep = e
    BY <1>8
  <2>3. Access(op) = WriteDoepctl(otg, e, e # 0, TRUE)
    BY <2>2 DEF Access
  <2>4. Access(op) = WriteDoepctl(otg, e, ena, active)
    BY <2>1, <2>3, Zenon
  <2> QED BY <2>4, OutArmed
<1>9. ASSUME NEW e \in Endpoints, NEW b, op = [reg |-> "DOEPINT", ep |-> e, bits |-> b]
      PROVE  Alike(otg, Access(op))
  <2>1. Access(op) = WriteDoepint(otg, e, b)
    BY <1>9 DEF Access
  <2> QED BY <2>1, OutTold
<1>10. ASSUME NEW e \in Endpoints, op = [reg |-> "DIEPINT", ep |-> e, bits |-> {"XFRC"}]
       PROVE  Alike(otg, Access(op))
  <2> DEFINE bits == {"XFRC"}
  <2>1. Access(op) = WriteDiepint(otg, e, bits)
    BY <1>10 DEF Access
  <2>2. "TXFE" \notin bits
    OBVIOUS
  <2> HIDE DEF bits
  <2> QED BY <2>1, <2>2, Told
<1> QED
  <2>1. \/ op \in {[reg |-> "GINTMSK"], [reg |-> "NVIC"], [reg |-> "GRXSTSP"], [reg |-> "RXFIFO"]}
        \/ op = [reg |-> "GINTSTS", bits |-> {"SOF"}]
        \/ \E e \in Endpoints : op = [reg |-> "DAINTMSK", ep |-> e]
        \/ \E e \in Endpoints : op = [reg |-> "DOEPTSIZ", ep |-> e]
        \/ \E e \in Endpoints : op = [reg |-> "DOEPCTL", ep |-> e]
        \/ \E e \in Endpoints, b \in {{"STUP"}, {"XFRC"}} :
             op = [reg |-> "DOEPINT", ep |-> e, bits |-> b]
        \/ \E e \in Endpoints : op = [reg |-> "DIEPINT", ep |-> e, bits |-> {"XFRC"}]
    BY DEF MildOps, TellOp, DoneOp
  <2> QED BY <2>1, <1>1, <1>2, <1>3, <1>4, <1>5, <1>6, <1>7, <1>8, <1>9, <1>10, Zenon

\* A sequence in two parts, seen from its front.
LEMMA FrontOf ==
  ASSUME NEW S, NEW A, NEW Q \in Seq(S), NEW T \in Seq(A), NEW s, s = Q \o T
  PROVE  /\ Q = <<>> => s = T
         /\ Q # <<>> => /\ s # <<>> /\ Head(s) = Head(Q) /\ Head(Q) \in S
                        /\ Tail(Q) \in Seq(S) /\ Tail(s) = Tail(Q) \o T
<1>1. Q = <<>> => s = T
  OBVIOUS
<1>2. ASSUME Q # <<>>
      PROVE  /\ s # <<>> /\ Head(s) = Head(Q) /\ Head(Q) \in S
             /\ Tail(Q) \in Seq(S) /\ Tail(s) = Tail(Q) \o T
  <2>1. /\ Head(Q) \in S /\ Tail(Q) \in Seq(S) /\ Head(Q) = Q[1]
        /\ Len(Tail(Q)) = Len(Q) - 1
        /\ \A i \in 1..Len(Tail(Q)) : Tail(Q)[i] = Q[i + 1]
    BY <1>2, HeadTailProperties
  <2>2. Len(Q) \in Nat /\ Len(Q) > 0 /\ Len(T) \in Nat
    BY <1>2, EmptySeq, LenProperties
  <2>3. /\ Q \in Seq(S \cup A) /\ T \in Seq(S \cup A)
    BY SeqMonotonic
  <2>4. /\ s \in Seq(S \cup A) /\ Len(s) = Len(Q) + Len(T)
        /\ \A i \in 1..Len(s) : s[i] = IF i <= Len(Q) THEN Q[i] ELSE T[i - Len(Q)]
    BY <2>3, ConcatProperties
  <2>5. s # <<>> /\ Head(s) = s[1] /\ s[1] = Q[1]
    BY <2>2, <2>4
  <2>6. Tail(s) = Tail(Q) \o T
    <3> DEFINE u == Tail(s)
               v == Tail(Q) \o T
    <3>1. /\ u \in Seq(S \cup A) /\ Len(u) = Len(s) - 1
          /\ \A i \in 1..Len(u) : u[i] = s[i + 1]
      BY <2>4, <2>5, HeadTailProperties
    <3>2. Tail(Q) \in Seq(S \cup A)
      BY <2>1, SeqMonotonic
    <3>3. /\ v \in Seq(S \cup A) /\ Len(v) = Len(Tail(Q)) + Len(T)
          /\ \A i \in 1..Len(v) : v[i] = IF i <= Len(Tail(Q)) THEN Tail(Q)[i]
                                          ELSE T[i - Len(Tail(Q))]
      BY <2>3, <3>2, ConcatProperties
    <3> HIDE DEF u, v
    <3>4. Len(u) = Len(v)
      BY <2>1, <2>2, <2>4, <3>1, <3>3
    <3>5. ASSUME NEW i \in 1..Len(u) PROVE u[i] = v[i]
      <4>1. u[i] = s[i + 1] /\ i + 1 \in 1..Len(s) /\ i \in 1..Len(v)
        <5> HIDE OtgAssumption, UsbAssumption
        <5>1. Len(u) = Len(s) - 1 /\ Len(s) \in Nat
          BY <2>2, <2>4, <3>1
        <5>2. i + 1 \in 1..Len(s)
          BY <5>1
        <5> QED BY <3>1, <3>4, <5>2
      <4>2. CASE i + 1 <= Len(Q)
        <5>1. s[i + 1] = Q[i + 1] /\ i \in 1..Len(Tail(Q))
          BY <2>1, <2>2, <2>4, <4>1, <4>2
        <5> QED BY <2>1, <3>3, <4>1, <5>1
      <4>3. CASE ~(i + 1 <= Len(Q))
        <5>1. s[i + 1] = T[(i + 1) - Len(Q)]
          BY <2>4, <4>1, <4>3
        <5>2. v[i] = T[i - Len(Tail(Q))]
          BY <2>1, <2>2, <3>3, <4>1, <4>3
        <5>3. (i + 1) - Len(Q) = i - Len(Tail(Q))
          <6> HIDE OtgAssumption, UsbAssumption
          <6> QED BY <2>1, <2>2, <4>1
        <5> QED BY <4>1, <5>1, <5>2, <5>3
      <4> QED BY <4>2, <4>3
    <3>6. u = v
      BY <3>1, <3>3, <3>4, <3>5, SeqEqual
    <3> QED BY <3>6 DEF u, v
  <2> QED BY <2>1, <2>5, <2>6
<1> QED BY <1>1, <1>2

-----------------------------------------------------------------------------
(* What the accesses of a transfer leave true.                              *)

LEMMA FramedHolds ==
  ASSUME NEW o, NEW p, Framed(o, p)
  PROVE  Typed(p) /\ (Calm(o) => Calm(p)) /\ (Up(o) => Up(p))
  BY DEF Framed, Calm, Up, Configured

LEMMA SizedGround ==
  ASSUME NEW o, NEW p, NEW e \in Endpoints, NEW n \in Nat, Ground(o), Sizes(o, p, e, n),
         e = Bulk => n = ReplyBytes
  PROVE  /\ Ground(p) /\ (Held(o, {}, {}) => Held(p, {}, {e}))
         /\ n > 0 /\ Held(o, {}, {}) => Held(p, {}, {})
         /\ n > 0 => Sized(p, e)
         /\ Idle(o) => Idle(p)
<1>1. \A f \in Endpoints :
        /\ p.inep[f].ena = o.inep[f].ena /\ p.inep[f].int = o.inep[f].int
        /\ p.inep[f].sent = o.inep[f].sent
        /\ p.inep[f].size = IF f = e THEN n ELSE o.inep[f].size
  BY DEF Sizes, Only
<1>2. p.empmsk = o.empmsk /\ p.tx_fifo[Bulk] = o.tx_fifo[Bulk] /\ (Up(o) => Up(p))
  BY FramedHolds DEF Sizes, Framed
<1>3. Ground(p)
  BY <1>1, EndpointFacts DEF Ground
<1>4. Held(o, {}, {}) => Held(p, {}, {e})
  BY <1>1, <1>2 DEF Held
<1>5. n > 0 /\ Held(o, {}, {}) => Held(p, {}, {})
  BY <1>1, <1>2 DEF Held
<1>6. n > 0 => Sized(p, e)
  BY <1>1 DEF Sized
<1>7. Idle(o) => Idle(p)
  BY <1>1, <1>2, EndpointFacts DEF Idle, Quiet
<1> QED BY <1>3, <1>4, <1>5, <1>6, <1>7

LEMMA SizeTaken ==
  ASSUME NEW o, NEW p, NEW T, NEW t, NEW e \in Endpoints, NEW n \in Nat, Ground(o),
         Sizes(o, p, e, n), ToSize(T, o, t, e, n)
  PROVE  \E on \in BOOLEAN : ToArmAndMask(Tail(T), p, t, e, on)
<1>1. PICK on \in BOOLEAN : on = (n > 0)
  <2>1. CASE n > 0
    <3>1. (n > 0) = TRUE
      BY <2>1, Zenon
    <3> QED BY <3>1, Zenon
  <2>2. CASE ~(n > 0)
    <3>1. (n > 0) = FALSE
      BY <2>2
    <3> QED BY <3>1, Zenon
  <2> QED BY <2>1, <2>2
<1>2. T = <<SizeOp(e, n), CtlOp(e), MaskOp(e, on)>>
  BY <1>1, Zenon DEF ToSize
<1>3. /\ e = Bulk => n = ReplyBytes
      /\ Held(o, {}, {}) /\ (t \/ (Idle(o) /\ (e = Bulk => Up(o))))
  BY DEF ToSize
<1>4. on <=> n > 0
  BY <1>1
<1>5. Tail(T) = <<CtlOp(e), MaskOp(e, on)>>
  BY <1>2
<1>6. /\ Held(p, {}, IF on THEN {} ELSE {e}) /\ (on => Sized(p, e)) /\ (Idle(o) => Idle(p))
  BY <1>3, <1>4, SizedGround
<1>7. Up(o) => Up(p)
  BY FramedHolds DEF Sizes
<1>8. Unmasking(p, t, e, on)
  BY <1>3, <1>6, <1>7 DEF Unmasking
<1> QED BY <1>5, <1>8 DEF ToArmAndMask

LEMMA SizeRetaken ==
  ASSUME NEW o, NEW p, NEW T, NEW t, Ground(o),
         Sizes(o, p, Bulk, ReplyBytes), ToResize(T, o, t)
  PROVE  ToArm(Tail(T), p, t, Bulk)
<1>1. Tail(T) = <<CtlOp(Bulk)>>
  BY DEF ToResize
<1>2. ReplyBytes \in Nat /\ ReplyBytes > 0 /\ Bulk \in Endpoints
  BY EndpointFacts
<1> QED BY <1>1, <1>2, SizedGround DEF ToResize, ToArm

LEMMA ArmedHolds ==
  ASSUME NEW o, NEW p, NEW e \in Endpoints, Typed(o), Ground(o), Arms(o, p, e)
  PROVE  /\ Ground(p)
         /\ \A X : Held(o, {}, X) => Held(p, {}, X)
         /\ Sized(o, e) => Sized(p, e)
         /\ Idle(o) => Idle(p)
<1>1. /\ p.empmsk = o.empmsk /\ p.tx_fifo[Bulk] \in {o.tx_fifo[Bulk], <<>>} /\ (Up(o) => Up(p))
      /\ \A f \in Endpoints : f # e => p.inep[f] = o.inep[f]
      /\ p.inep[e].size = o.inep[e].size /\ p.inep[e].size \in Nat
  BY FramedHolds, RegsOf DEF Arms, Framed, Only
<1>2. CASE o.inep[e].ena
  <2>1. /\ p.inep[e].ena /\ p.inep[e].int = o.inep[e].int /\ p.inep[e].sent = o.inep[e].sent
        /\ p.tx_fifo[Bulk] = o.tx_fifo[Bulk]
    BY <1>2 DEF Arms
  <2>2. Ground(p)
    BY <1>1, <1>2, <2>1, EndpointFacts DEF Ground
  <2>3. \A X : Held(o, {}, X) => Held(p, {}, X)
    BY <1>1, <1>2, <2>1 DEF Held
  <2>4. Sized(o, e) => Sized(p, e)
    BY <1>1, <1>2, <2>1 DEF Sized
  <2>5. Idle(o) => Idle(p)
    BY <1>1, <1>2, <2>1, EndpointFacts DEF Idle, Quiet
  <2> QED BY <2>2, <2>3, <2>4, <2>5
<1>3. CASE ~o.inep[e].ena /\ o.inep[e].size = 0
  <2>1. ~p.inep[e].ena /\ p.inep[e].int = o.inep[e].int \cup {"XFRC"}
    BY <1>3 DEF Arms
  <2>2. Ground(p)
    BY <1>1, <1>3, <2>1, EndpointFacts DEF Ground
  <2>3. \A X : Held(o, {}, X) => Held(p, {}, X)
    BY <1>1, <2>1 DEF Held
  <2>4. Sized(p, e)
    BY <2>1 DEF Sized
  <2>5. Idle(o) => Idle(p)
    BY <1>1, <2>1, EndpointFacts DEF Idle, Quiet
  <2> QED BY <2>2, <2>3, <2>4, <2>5
<1>4. CASE ~o.inep[e].ena /\ o.inep[e].size # 0
  <2>1. /\ p.inep[e].ena /\ p.inep[e].int = o.inep[e].int \cup TxfeOnArm(o, e)
        /\ p.inep[e].sent = 0 /\ p.tx_fifo[Bulk] = o.tx_fifo[Bulk]
    BY <1>4 DEF Arms
  <2>2. Ground(p)
    BY <1>1, <1>4, <2>1, EndpointFacts DEF Ground
  <2>3. p.inep[e].size > 0
    BY <1>1, <1>4
  <2>4. \A X : Held(o, {}, X) => Held(p, {}, X)
    BY <1>1, <2>1, <2>3 DEF Held, TxfeOnArm
  <2>5. Sized(p, e)
    BY <2>3 DEF Sized
  <2>6. Idle(o) => Idle(p)
    BY <1>1, <2>1, EndpointFacts DEF Idle, Quiet
  <2> QED BY <2>2, <2>4, <2>5, <2>6
<1> QED BY <1>2, <1>3, <1>4

LEMMA ArmTaken ==
  ASSUME NEW o, NEW p, NEW T, NEW t, NEW e \in Endpoints, Typed(o), Ground(o), Arms(o, p, e),
         ToArm(T, o, t, e)
  PROVE  AtRest(Tail(T), p, t)
<1>1. Tail(T) = <<>>
  BY DEF ToArm
<1> QED BY <1>1, ArmedHolds DEF ToArm, AtRest

LEMMA ArmAndMaskTaken ==
  ASSUME NEW o, NEW p, NEW T, NEW t, NEW e \in Endpoints, NEW on \in BOOLEAN,
         Typed(o), Ground(o), Arms(o, p, e), ToArmAndMask(T, o, t, e, on)
  PROVE  ToMask(Tail(T), p, t, e, on)
<1>1. Tail(T) = <<MaskOp(e, on)>>
  BY DEF ToArmAndMask
<1>2. Up(o) => Up(p)
  BY FramedHolds DEF Arms
<1>3. Unmasking(p, t, e, on)
  BY <1>2, ArmedHolds DEF Unmasking, ToArmAndMask
<1> QED BY <1>1, <1>3 DEF ToMask

LEMMA MaskedHolds ==
  ASSUME NEW o, NEW p, NEW mask, Typed(o), Ground(o), Masks(o, p, mask)
  PROVE  /\ Typed(p) /\ Ground(p) /\ (Calm(o) => Calm(p)) /\ (Up(o) <=> Up(p))
         /\ Quiet(o) => Quiet(p)
         /\ \A X : Held(o, {}, X) /\ X \cap mask = {} /\ (\A f \in mask \ o.empmsk : Sized(o, f))
              => Held(p, {}, {})
<1>1. Typed(p) /\ (Calm(o) => Calm(p)) /\ (Up(o) <=> Up(p))
  BY DEF Masks, Calm, NoBulk, Configured, Up
<1>2. Ground(p)
  BY EndpointFacts DEF Masks, Ground
<1>3. Quiet(o) => Quiet(p)
  BY EndpointFacts DEF Masks, Quiet
<1>4. ASSUME NEW X, Held(o, {}, X), X \cap mask = {}, \A f \in mask \ o.empmsk : Sized(o, f)
      PROVE  Held(p, {}, {})
  <2> SUFFICES ASSUME NEW f \in Endpoints, p.inep[f].ena, f \in p.empmsk
               PROVE  "TXFE" \in p.inep[f].int /\ p.inep[f].size > 0
    BY DEF Held
  <2>1. /\ f \in mask /\ f \notin X /\ o.inep[f].ena /\ p.inep[f].size = o.inep[f].size
        /\ p.inep[f].int = IF f \in mask \ o.empmsk /\ o.inep[f].ena
                           THEN o.inep[f].int \cup {"TXFE"} ELSE o.inep[f].int
    BY <1>4 DEF Masks
  <2>2. CASE f \in o.empmsk
    BY <1>4, <2>1, <2>2 DEF Held
  <2>3. CASE f \notin o.empmsk
    BY <1>4, <2>1, <2>3 DEF Sized
  <2> QED BY <2>2, <2>3
<1> QED BY <1>1, <1>2, <1>3, <1>4

\* The mask a write of DIEPEMPMSK installs.
MaskOf(o, e, on) == IF on THEN o.empmsk \cup {e} ELSE o.empmsk \ {e}

LEMMA MaskTaken ==
  ASSUME NEW o, NEW p, NEW T, NEW t, NEW e \in Endpoints, NEW on \in BOOLEAN, Typed(o), Ground(o),
         Masks(o, p, MaskOf(o, e, on)), ToMask(T, o, t, e, on)
  PROVE  AtRest(Tail(T), p, t)
<1> DEFINE mask == MaskOf(o, e, on)
           X == IF on THEN {} ELSE {e}
<1>1. /\ X \cap mask = {} /\ (\A f \in mask \ o.empmsk : on /\ f = e)
      /\ Bulk \in mask => Bulk \in o.empmsk \/ (e = Bulk /\ on)
  BY DEF MaskOf
<1>2. Held(o, {}, X) /\ (on => Sized(o, e))
  BY DEF ToMask, Unmasking
<1> HIDE DEF mask, X
<1>3. /\ Up(o) <=> Up(p)
      /\ Quiet(o) => Quiet(p)
      /\ Held(p, {}, {})
  BY <1>1, <1>2, MaskedHolds DEF mask
<1>4. p.empmsk = mask
  BY DEF Masks, mask
<1>5. t \/ Idle(p)
  BY <1>1, <1>3, <1>4 DEF ToMask, Unmasking, Idle
<1>6. Tail(T) = <<>>
  BY DEF ToMask
<1> QED BY <1>3, <1>5, <1>6 DEF AtRest

LEMMA UnmaskedHolds ==
  ASSUME NEW o, NEW p, NEW e \in Endpoints, Typed(o), Ground(o), Masks(o, p, o.empmsk \ {e})
  PROVE  Held(o, {}, {}) => Held(p, {}, {})
<1> DEFINE mask == o.empmsk \ {e}
<1>1. {} \cap mask = {} /\ \A f \in mask \ o.empmsk : Sized(o, f)
  OBVIOUS
<1> HIDE DEF mask
<1> QED BY <1>1, MaskedHolds DEF mask

LEMMA MaskBothTaken ==
  ASSUME NEW o, NEW p, NEW T, NEW t, Typed(o), Ground(o), Masks(o, p, o.empmsk \ {0}),
         ToMaskBoth(T, o, t)
  PROVE  ToMaskBulk(Tail(T), p, t)
<1>1. Tail(T) = <<MaskOp(Bulk, FALSE)>> \o Activation
  <2>1. PICK m, n : m = MaskOp(0, FALSE) /\ n = MaskOp(Bulk, FALSE)
    BY Zenon
  <2>2. T = <<m, n>> \o Activation
    BY <2>1, Zenon DEF ToMaskBoth
  <2>3. Tail(<<m, n>> \o Activation) = <<n>> \o Activation
    BY DEF Activation
  <2> QED BY <2>1, <2>2, <2>3, Zenon
<1>2. Held(p, {}, {}) /\ (Quiet(o) => Quiet(p))
  BY UnmaskedHolds, MaskedHolds, EndpointFacts DEF ToMaskBoth
<1> QED BY <1>1, <1>2, Zenon DEF ToMaskBoth, ToMaskBulk

LEMMA TailOf ==
  ASSUME NEW A, NEW R \in Seq(A), NEW c
  PROVE  Tail(<<c>> \o R) = R
<1> DEFINE Q == <<c>>
           s == Q \o R
<1>1. Q \in Seq({c}) /\ Q # <<>> /\ Tail(Q) = <<>>
  OBVIOUS
<1>2. s = Q \o R
  OBVIOUS
<1> HIDE DEF Q, s
<1>3. Tail(s) = Tail(Q) \o R
  <2> HIDE OtgAssumption, UsbAssumption
  <2> QED BY <1>1, <1>2, FrontOf
<1>4. <<>> \o R = R
  OBVIOUS
<1> QED BY <1>1, <1>3, <1>4 DEF s, Q

LEMMA MaskBulkTaken ==
  ASSUME NEW o, NEW p, NEW T, NEW t, Typed(o), Ground(o), Masks(o, p, o.empmsk \ {Bulk}),
         ToMaskBulk(T, o, t)
  PROVE  Tail(T) = Activation /\ AtRest(<<>>, p, t)
<1>1. Tail(T) = Activation
  <2>1. PICK n : n = MaskOp(Bulk, FALSE)
    BY Zenon
  <2>2. T = <<n>> \o Activation
    BY <2>1, Zenon DEF ToMaskBulk
  <2> DEFINE a == [reg |-> "DAINTMSK", ep |-> 0]
             b == [reg |-> "DOEPCTL", ep |-> 0]
  <2>4. Activation = <<a, b>>
    BY DEF Activation
  <2> HIDE DEF a, b
  <2>5. <<a, b>> \in Seq({a, b})
    OBVIOUS
  <2>3. Tail(<<n>> \o Activation) = Activation
    BY <2>4, <2>5, TailOf
  <2> QED BY <2>2, <2>3
<1>2. Held(p, {}, {}) /\ (Quiet(o) => Quiet(p))
  BY UnmaskedHolds, MaskedHolds, EndpointFacts DEF ToMaskBulk
<1>3. Bulk \notin p.empmsk
  BY DEF Masks
<1> QED BY <1>1, <1>2, <1>3, Zenon DEF ToMaskBulk, AtRest, Idle

\* The end of a bus reset, at a driver that sends nothing until it hears from the host again.
LEMMA ResetEnded ==
  ASSUME NEW o, NEW T, NEW t, NEW r, Typed(o), Ground(o), Calm(o), ToEndReset(T, o, t, r)
  PROVE  LET p == WriteGintsts(o, {"USBRST"})
         IN  /\ Typed(p) /\ Ground(p) /\ Calm(p) /\ ~r /\ p.outbox = o.outbox
             /\ ToMaskBoth(Tail(T), p, t)
<1> DEFINE p == WriteGintsts(o, {"USBRST"})
<1>1. /\ DOMAIN p = DOMAIN o /\ p.inbox = o.inbox /\ p.empmsk = o.empmsk /\ p.inep = o.inep
      /\ p.tx_fifo = o.tx_fifo /\ p.outbox = o.outbox /\ p.step = o.step
      /\ p.outep = o.outep /\ p.rx_status = o.rx_status
  BY DEF Typed, Fields, WriteGintsts
<1> HIDE DEF p
<1>2. Typed(p) /\ Ground(p) /\ Calm(p)
  BY <1>1 DEF Typed, Ground, Calm, Configured, NoBulk
<1>3. Tail(T) = <<MaskOp(0, FALSE), MaskOp(Bulk, FALSE)>> \o Activation
  <2>1. PICK m, n : m = MaskOp(0, FALSE) /\ n = MaskOp(Bulk, FALSE)
    BY Zenon
  <2>2. T = <<EndReset, m, n>> \o Activation
    BY <2>1, Zenon DEF ToEndReset
  <2>3. Tail(<<EndReset, m, n>> \o Activation) = <<m, n>> \o Activation
    BY DEF Activation
  <2> QED BY <2>1, <2>2, <2>3, Zenon
<1>4. Held(o, {}, {}) => Held(p, {}, {})
  BY <1>1 DEF Held
<1>5. Quiet(o) => Quiet(p)
  BY <1>1 DEF Quiet
<1>6. ~r /\ Held(o, {}, {}) /\ (t \/ Quiet(o))
  BY Zenon DEF ToEndReset, Idle
<1>7. ToMaskBoth(Tail(T), p, t)
  BY <1>3, <1>4, <1>5, <1>6, Zenon DEF ToMaskBoth
<1> QED BY <1>1, <1>2, <1>6, <1>7 DEF p

LEMMA RepeatOf ==
  ASSUME NEW f, NEW k \in Nat
  PROVE  /\ Repeat(f, k) \in Seq({f}) /\ Len(Repeat(f, k)) = k
         /\ k = 0 => Repeat(f, k) = <<>>
         /\ k # 0 => /\ Repeat(f, k) # <<>> /\ Head(Repeat(f, k)) = f
                     /\ Tail(Repeat(f, k)) = Repeat(f, k - 1)
<1> DEFINE s == Repeat(f, k)
<1>1. s \in Seq({f}) /\ Len(s) = k /\ \A i \in 1..k : s[i] = f
  <2>1. s \in [1..k -> {f}]
    BY DEF Repeat
  <2>2. \A i \in 1..k : s[i] = f
    BY <2>1
  <2> HIDE DEF s
  <2> QED BY <2>1, <2>2
<1>2. k = 0 => s = <<>>
  <2> HIDE DEF s
  <2> QED BY <1>1, EmptySeq
<1>3. ASSUME k # 0
      PROVE  s # <<>> /\ Head(s) = f /\ Tail(s) = Repeat(f, k - 1)
  <2> DEFINE u == Repeat(f, k - 1)
  <2>1. u \in [1..(k - 1) -> {f}] /\ k - 1 \in Nat
    BY <1>3 DEF Repeat
  <2> HIDE DEF s, u
  <2>2. u \in Seq({f}) /\ Len(u) = k - 1 /\ \A i \in 1..(k - 1) : u[i] = f
    BY <2>1
  <2>3. s # <<>> /\ Head(s) = f
    BY <1>1, <1>3
  <2>4. /\ Tail(s) \in Seq({f}) /\ Len(Tail(s)) = k - 1
        /\ \A i \in 1..(k - 1) : Tail(s)[i] = s[i + 1] /\ i + 1 \in 1..k
    BY <1>1, <1>3, <2>3, HeadTailProperties
  <2>5. \A i \in 1..(k - 1) : Tail(s)[i] = u[i]
    BY <1>1, <2>2, <2>4
  <2>6. Tail(s) = u
    BY <2>2, <2>4, <2>5, SeqEqual
  <2> QED BY <2>3, <2>6 DEF u
<1> HIDE DEF s
<1> QED BY <1>1, <1>2, <1>3 DEF s

\* A reply in the FIFO, word by word ...
LEMMA PacketGrows ==
  ASSUME NEW w \in Nat, NEW s \in Nat
  PROVE  Packet(w, s) \o [i \in 1..WordBytes |-> <<w, s + i>>] = Packet(w, s + WordBytes)
<1> DEFINE a == Packet(w, s)
           b == [i \in 1..WordBytes |-> <<w, s + i>>]
           c == Packet(w, s + WordBytes)
<1>1. WordBytes \in Nat
  OBVIOUS
<1>2. ASSUME NEW i \in 1..WordBytes PROVE <<w, s + i>> \in Bytes
  BY <1>1 DEF Bytes
<1>3. a \in [1..s -> Bytes] /\ \A i \in 1..s : a[i] = <<w, i>>
  BY DEF Packet, Bytes
<1>4. b \in [1..WordBytes -> Bytes] /\ \A i \in 1..WordBytes : b[i] = <<w, s + i>>
  BY <1>2
<1>5. /\ c \in [1..(s + WordBytes) -> Bytes]
      /\ \A i \in 1..(s + WordBytes) : c[i] = <<w, i>>
  BY <1>1 DEF Packet, Bytes
<1> HIDE DEF a, b, c
<1>6. /\ a \in Seq(Bytes) /\ Len(a) = s /\ b \in Seq(Bytes) /\ Len(b) = WordBytes
      /\ c \in Seq(Bytes) /\ Len(c) = s + WordBytes
  <2>1. a \in Seq(Bytes) /\ Len(a) = s
    BY <1>3
  <2>2. b \in Seq(Bytes) /\ Len(b) = WordBytes
    BY <1>1, <1>4
  <2>3. s + WordBytes \in Nat
    BY <1>1
  <2>4. c \in Seq(Bytes) /\ Len(c) = s + WordBytes
    <3> DEFINE n == s + WordBytes
    <3>1. c \in [1..n -> Bytes] /\ n \in Nat
      BY <1>5, <2>3
    <3> HIDE DEF n
    <3>2. c \in Seq(Bytes) /\ Len(c) = n
      BY <3>1
    <3> QED BY <3>2 DEF n
  <2> QED BY <2>1, <2>2, <2>4
<1>7. /\ a \o b \in Seq(Bytes) /\ Len(a \o b) = s + WordBytes
      /\ \A i \in 1..(s + WordBytes) : (a \o b)[i] = IF i <= s THEN a[i] ELSE b[i - s]
  BY <1>6, ConcatProperties
<1>8. ASSUME NEW i \in 1..(s + WordBytes) PROVE (a \o b)[i] = c[i]
  <2>1. CASE i <= s
    <3>1. i \in 1..s
      BY <2>1
    <3> QED BY <1>3, <1>5, <1>7, <2>1, <3>1
  <2>2. CASE ~(i <= s)
    <3>1. i - s \in 1..WordBytes /\ s + (i - s) = i
      BY <1>1, <2>2
    <3>2. (a \o b)[i] = b[i - s] /\ b[i - s] = <<w, s + (i - s)>>
      BY <1>4, <1>7, <2>2, <3>1
    <3> QED BY <1>5, <3>1, <3>2
  <2> QED BY <2>1, <2>2
<1>9. a \o b = c
  BY <1>6, <1>7, <1>8, SeqEqual
<1> QED BY <1>9 DEF a, b, c

\* ... and what the host is given of it.
LEMMA PacketSent ==
  ASSUME NEW w \in Nat, NEW n \in Nat, NEW size \in Nat, n >= size
  PROVE  Sent(Packet(w, n), size) = Packet(w, size)
<1> DEFINE a == Packet(w, n)
           c == Packet(w, size)
<1>1. a \in [1..n -> Bytes] /\ \A i \in 1..n : a[i] = <<w, i>>
  BY DEF Packet, Bytes
<1>2. c \in [1..size -> Bytes] /\ \A i \in 1..size : c[i] = <<w, i>>
  BY DEF Packet, Bytes
<1> HIDE DEF a, c
<1>3. a \in Seq(Bytes) /\ Len(a) = n /\ c \in Seq(Bytes) /\ Len(c) = size
  BY <1>1, <1>2
<1>4. Sent(a, size) = SubSeq(a, 1, size)
  BY <1>3 DEF Sent, Least
<1>5. /\ SubSeq(a, 1, size) \in Seq(Bytes) /\ Len(SubSeq(a, 1, size)) = size
      /\ \A i \in 1..size : SubSeq(a, 1, size)[i] = a[i]
  <2> HIDE OtgAssumption, UsbAssumption
  <2> QED BY <1>3
<1>6. ASSUME NEW i \in 1..size PROVE SubSeq(a, 1, size)[i] = c[i]
  <2>1. i \in 1..n
    OBVIOUS
  <2> QED BY <1>1, <1>2, <1>5, <2>1
<1>7. SubSeq(a, 1, size) = c
  BY <1>3, <1>5, <1>6, SeqEqual
<1> QED BY <1>4, <1>7 DEF a, c

LEMMA ClearTaken ==
  ASSUME NEW o, NEW p, NEW T, NEW t, NEW e \in Endpoints, Ground(o),
         Clears(o, p, e, {"TXFE"}), ToClear(T, o, t, e)
  PROVE  Ground(p) /\ AtRest(Tail(T), p, t)
<1>1. /\ \A f \in Endpoints :
           /\ p.inep[f].ena = o.inep[f].ena /\ p.inep[f].size = o.inep[f].size
           /\ p.inep[f].sent = o.inep[f].sent
           /\ p.inep[f].int \subseteq o.inep[f].int
           /\ f # e => p.inep[f].int = o.inep[f].int
      /\ p.empmsk = o.empmsk /\ p.tx_fifo = o.tx_fifo
      /\ Up(o) => Up(p)
  BY FramedHolds DEF Clears, Only, Framed
<1>2. Ground(p)
  BY <1>1, EndpointFacts DEF Ground
<1>3. Held(p, {}, {})
  BY <1>1 DEF Held, ToClear
<1>4. Idle(o) => Idle(p)
  BY <1>1, EndpointFacts DEF Idle, Quiet
<1>5. Tail(T) = <<>>
  BY DEF ToClear
<1> QED BY <1>2, <1>3, <1>4, <1>5 DEF ToClear, AtRest

LEMMA FillBegins ==
  ASSUME NEW o, NEW p, NEW T, NEW t, NEW w, NEW e \in Endpoints, NEW on \in BOOLEAN,
         NEW k \in Nat \ {0}, Ground(o),
         Clears(o, p, e, {"TXFE"}), ToClearAndFill(T, o, t, e, on, k)
  PROVE  Ground(p) /\ ToFill(Tail(T), p, t, w, e, on, k)
<1>1. /\ \A f \in Endpoints :
           /\ p.inep[f].ena = o.inep[f].ena /\ p.inep[f].size = o.inep[f].size
           /\ p.inep[f].sent = o.inep[f].sent
           /\ p.inep[f].int \subseteq o.inep[f].int
           /\ f # e => p.inep[f].int = o.inep[f].int
      /\ "TXFE" \notin p.inep[e].int
      /\ p.empmsk = o.empmsk /\ p.tx_fifo = o.tx_fifo
      /\ Up(o) => Up(p)
      /\ Configured(o) => Configured(p)
  BY FramedHolds DEF Clears, Only, Framed
<1>2. Ground(p)
  BY <1>1, EndpointFacts DEF Ground
<1>3. Held(p, {e}, {})
  BY <1>1 DEF Held, ToClearAndFill
<1>4. Enough(p, e, k)
  BY <1>1 DEF Enough, ToClearAndFill
<1>5. Idle(o) => Idle(p)
  BY <1>1, EndpointFacts DEF Idle, Quiet
<1>6. Exact(o, k) => Exact(p, k)
  BY <1>1, EndpointFacts DEF Exact
<1>7. Idle(o) /\ Exact(o, k) => p.tx_fifo[Bulk] = Packet(w, p.inep[Bulk].sent)
  <2>1. Packet(w, 0) = <<>>
    BY DEF Packet
  <2>2. Idle(o) /\ Exact(o, k) => p.tx_fifo[Bulk] = <<>> /\ p.inep[Bulk].sent = 0
    BY <1>1, EndpointFacts DEF Idle, Quiet, Exact
  <2> QED BY <2>1, <2>2
<1>8. Tail(T) = Repeat(FillOp(e), k) \o <<MaskOp(e, on)>>
  <2> DEFINE a == Repeat(FillOp(e), k)
             m == MaskOp(e, on)
             c == ClearOp(e)
  <2>1. a \in Seq({FillOp(e)})
    BY RepeatOf
  <2> HIDE DEF a, m, c
  <2>2. a \o <<m>> \in Seq({FillOp(e), m})
    BY <2>1
  <2>3. Tail(<<c>> \o (a \o <<m>>)) = a \o <<m>>
    BY <2>2, TailOf
  <2>4. T = <<c>> \o (a \o <<m>>)
    BY Zenon DEF ToClearAndFill, a, m, c
  <2> QED BY <2>3, <2>4 DEF a, m
<1> QED BY <1>1, <1>2, <1>3, <1>4, <1>5, <1>6, <1>7, <1>8 DEF ToClearAndFill, ToFill

LEMMA Products ==
  ASSUME NEW k \in Nat \ {0}
  PROVE  /\ k * WordBytes \in Nat /\ (k - 1) * WordBytes \in Nat
         /\ k * WordBytes = (k - 1) * WordBytes + WordBytes
         /\ k # 1 => (k - 1) * WordBytes >= WordBytes
         /\ k = 1 => (k - 1) * WordBytes = 0
<1>1. WordBytes \in Nat
  OBVIOUS
<1>2. \A a \in Nat : a * WordBytes \in Nat /\ (a + 1) * WordBytes = a * WordBytes + WordBytes
  BY <1>1
<1>3. k - 1 \in Nat /\ (k - 1) + 1 = k /\ (k # 1 => k - 2 \in Nat /\ (k - 2) + 1 = k - 1)
  OBVIOUS
<1>4. /\ (k - 1) * WordBytes \in Nat
      /\ ((k - 1) + 1) * WordBytes = (k - 1) * WordBytes + WordBytes
  BY <1>2, <1>3
<1>5. k # 1 => /\ (k - 2) * WordBytes \in Nat
               /\ ((k - 2) + 1) * WordBytes = (k - 2) * WordBytes + WordBytes
  BY <1>2, <1>3
<1>6. k * WordBytes = (k - 1) * WordBytes + WordBytes
  BY <1>3, <1>4, Zenon
<1>7. k # 1 => (k - 1) * WordBytes = (k - 2) * WordBytes + WordBytes
  BY <1>3, <1>5, Zenon
<1> DEFINE a == k * WordBytes
           b == (k - 1) * WordBytes
           c == (k - 2) * WordBytes
<1> HIDE DEF a, b, c
<1>8. a = b + WordBytes /\ b \in Nat /\ (k # 1 => b = c + WordBytes /\ c \in Nat)
  BY <1>4, <1>5, <1>6, <1>7 DEF a, b, c
<1>9. a \in Nat /\ b \in Nat /\ (k # 1 => b >= WordBytes)
  BY <1>1, <1>8
<1>10. k = 1 => (k - 1) * WordBytes = 0
  <2>1. 0 * WordBytes = 0 /\ (k = 1 => k - 1 = 0)
    BY <1>1
  <2> QED BY <2>1, Zenon
<1> QED BY <1>6, <1>9, <1>10 DEF a, b

\* What a step gives the host.
Delivered(o, p, t, w) ==
  p.outbox = o.outbox \/ t \/ p.outbox = o.outbox \o Packet(w, ReplyBytes)

\* A word in the FIFO: the last of the transfer completes it.
LEMMA FillTaken ==
  ASSUME NEW o, NEW p, NEW T, NEW t, NEW w, NEW e, NEW on, NEW k,
         w \in Nat, e \in Endpoints, on \in BOOLEAN, k \in Nat \ {0}, Typed(o), Ground(o),
         Pushes(o, p, e, w), ToFill(T, o, t, w, e, on, k)
  PROVE  /\ Ground(p) /\ Delivered(o, p, t, w)
         /\ k = 1 => ToMask(Tail(T), p, t, e, on)
         /\ k # 1 => ToFill(Tail(T), p, t, w, e, on, k - 1)
<1> DEFINE many == k * WordBytes
           less == (k - 1) * WordBytes
           s == o.inep[e].sent
           size == o.inep[e].size
<1>1. /\ many \in Nat /\ less \in Nat /\ many = less + WordBytes
      /\ k # 1 => less >= WordBytes
      /\ k = 1 => less = 0
      /\ WordBytes \in Nat /\ ReplyBytes \in Nat /\ s \in Nat /\ size \in Nat
  BY Products, RegsOf
<1> HIDE DEF many, less
<1>15. /\ k = 1 /\ s + many >= size => s + WordBytes >= size
       /\ k # 1 /\ s + less < ReplyBytes => ~(s + WordBytes >= ReplyBytes)
       /\ s + many >= ReplyBytes => (s + WordBytes) + less >= ReplyBytes
       /\ \A c \in Nat : less = c + WordBytes /\ s + less < ReplyBytes => (s + WordBytes) + c < ReplyBytes
  <2> HIDE DEF s, size
  <2> QED BY <1>1
<1>2. /\ \A f \in Endpoints : f # e => p.inep[f] = o.inep[f]
      /\ p.inep[e].size = size /\ p.inep[e].sent = s + WordBytes
      /\ p.inep[e].ena <=> o.inep[e].ena /\ ~Completes(o, e)
      /\ "TXFE" \in p.inep[e].int <=> "TXFE" \in o.inep[e].int
      /\ p.empmsk = o.empmsk /\ (Up(o) => Up(p)) /\ (Configured(o) => Configured(p))
  BY FramedHolds DEF Pushes, Only, Framed
<1>3. Held(o, {e}, {}) /\ Enough(o, e, k) /\ "TXFE" \notin o.inep[e].int
  BY DEF ToFill
<1>4. Ground(p)
  BY <1>2, <1>3, EndpointFacts DEF Ground
<1>5. Completes(o, e) <=> o.inep[e].ena /\ s + WordBytes >= size
  BY DEF Completes
<1>6. o.inep[e].ena => s + many >= size
  BY <1>3 DEF Enough, many
<1>7. ASSUME e = Bulk, ~t
      PROVE  /\ Configured(o) /\ o.inep[e].ena /\ size = ReplyBytes
             /\ s + many >= ReplyBytes /\ s + less < ReplyBytes
             /\ o.tx_fifo[Bulk] = Packet(w, s)
             /\ o.tx_fifo[Bulk] \o NextWord(o, e, w) = Packet(w, s + WordBytes)
  <2>1. /\ Configured(o) /\ Exact(o, k) /\ o.tx_fifo[Bulk] = Packet(w, s)
    BY <1>7 DEF ToFill
  <2>2. NextWord(o, e, w) = [i \in 1..WordBytes |-> <<w, s + i>>]
    BY DEF NextWord
  <2>3. Packet(w, s) \o [i \in 1..WordBytes |-> <<w, s + i>>] = Packet(w, s + WordBytes)
    BY <1>1, PacketGrows
  <2> HIDE DEF s
  <2>4. o.tx_fifo[Bulk] \o NextWord(o, e, w) = Packet(w, s + WordBytes)
    BY <2>1, <2>2, <2>3, Zenon
  <2> QED BY <1>7, <2>1, <2>4 DEF Exact, Ground, s, many, less
<1>8. Delivered(o, p, t, w)
  <2>1. CASE e = Bulk /\ ~t /\ Completes(o, e)
    <3>1. p.outbox = o.outbox \o Sent(o.tx_fifo[Bulk] \o NextWord(o, e, w), size)
      BY <1>7, <2>1 DEF Pushes
    <3>5. size = ReplyBytes /\ s + WordBytes >= size
      BY <1>5, <1>7, <2>1
    <3> DEFINE n == s + WordBytes
    <3>2. n \in Nat /\ n >= ReplyBytes /\ size = ReplyBytes
      BY <1>1, <3>5
    <3> HIDE DEF n
    <3>3. Sent(Packet(w, n), ReplyBytes) = Packet(w, ReplyBytes)
      BY <1>1, <3>2, PacketSent
    <3>4. o.tx_fifo[Bulk] \o NextWord(o, e, w) = Packet(w, n)
      BY <1>7, <2>1 DEF n
    <3> HIDE DEF size
    <3> QED BY <3>1, <3>2, <3>3, <3>4, Zenon DEF Delivered
  <2>2. CASE ~(e = Bulk /\ Completes(o, e))
    BY <2>2 DEF Pushes, Delivered
  <2>3. CASE t
    BY <2>3, Zenon DEF Delivered
  <2> QED BY <2>1, <2>2, <2>3
<1> DEFINE a == Repeat(FillOp(e), k)
           b == Repeat(FillOp(e), k - 1)
           m == MaskOp(e, on)
<1>9. T = a \o <<m>>
  BY Zenon DEF ToFill
<1>10. /\ a \in Seq({FillOp(e)}) /\ a # <<>> /\ Tail(a) = b
       /\ k = 1 => b = <<>>
  <2>1. k \in Nat /\ k - 1 \in Nat /\ (k = 1 => k - 1 = 0) /\ k # 0
    OBVIOUS
  <2>2. /\ a \in Seq({FillOp(e)}) /\ a # <<>> /\ Tail(a) = b
    <3> HIDE OtgAssumption, UsbAssumption
    <3> QED BY <2>1, RepeatOf
  <2>3. k - 1 = 0 => b = <<>>
    BY <2>1, RepeatOf
  <2> QED BY <2>1, <2>2, <2>3
<1>11. Tail(T) = b \o <<m>> /\ (k = 1 => Tail(T) = <<m>>)
  <2> HIDE DEF a, b, m
  <2>1. <<m>> \in Seq({m})
    OBVIOUS
  <2>2. Tail(T) = Tail(a) \o <<m>>
    <3> HIDE OtgAssumption, UsbAssumption
    <3> QED BY <1>9, <1>10, <2>1, FrontOf
  <2>3. <<>> \o <<m>> = <<m>>
    OBVIOUS
  <2> QED BY <1>10, <2>2, <2>3
<1> HIDE DEF a, b, m
<1>12. ~t /\ e # Bulk => Idle(p)
  <2> SUFFICES ASSUME ~t, e # Bulk PROVE Idle(p)
    OBVIOUS
  <2>1. Idle(o) /\ p.inep[Bulk] = o.inep[Bulk]
    BY <1>2, EndpointFacts DEF ToFill
  <2>2. p.tx_fifo[Bulk] = o.tx_fifo[Bulk]
    BY DEF Pushes
  <2> QED BY <1>2, <2>1, <2>2 DEF Idle, Quiet
<1>13. CASE k = 1
  <2>1. ~p.inep[e].ena
    BY <1>2, <1>5, <1>6, <1>13, <1>15
  <2>2. Held(p, {}, {})
    BY <1>2, <1>3, <2>1 DEF Held
  <2>3. Sized(p, e)
    BY <2>1 DEF Sized
  <2>4. ~t /\ e = Bulk => Idle(p) /\ Up(p)
    <3> SUFFICES ASSUME ~t, e = Bulk PROVE Idle(p) /\ Up(p)
      OBVIOUS
    <3>1. Configured(o) /\ Completes(o, e)
      BY <1>5, <1>7, <1>6, <1>13, <1>15
    <3>2. p.tx_fifo[Bulk] = <<>>
      BY <3>1 DEF Pushes
    <3>3. Up(p)
      BY <1>2, <3>1 DEF Up
    <3> QED BY <2>1, <3>2, <3>3 DEF Idle, Quiet
  <2>5. Held(p, {}, IF on THEN {} ELSE {e})
    BY <2>2 DEF Held
  <2>6. Unmasking(p, t, e, on)
    BY <1>12, <2>3, <2>4, <2>5 DEF Unmasking
  <2> QED BY <1>4, <1>8, <1>11, <1>13, <2>6 DEF ToMask, m
<1>14. CASE k # 1
  <2>1. Held(p, {e}, {})
    BY <1>2, <1>3 DEF Held
  <2>2. Enough(p, e, k - 1)
    BY <1>1, <1>2, <1>6 DEF Enough, less
  <2>3. ~t /\ e = Bulk =>
          /\ Configured(p) /\ Exact(p, k - 1)
          /\ p.tx_fifo[Bulk] = Packet(w, p.inep[Bulk].sent)
    <3> SUFFICES ASSUME ~t, e = Bulk
                 PROVE  /\ Configured(p) /\ Exact(p, k - 1)
                        /\ p.tx_fifo[Bulk] = Packet(w, p.inep[Bulk].sent)
      OBVIOUS
    <3>1. ~Completes(o, e) /\ p.inep[e].ena
      BY <1>2, <1>5, <1>7, <1>14, <1>15
    <3>2. p.tx_fifo[Bulk] = Packet(w, s + WordBytes)
      BY <1>7, <3>1 DEF Pushes
    <3>3. Exact(p, k - 1)
      <4> DEFINE j == k - 1
      <4>1. j \in Nat \ {0} /\ less = j * WordBytes
        BY <1>14 DEF less
      <4> HIDE DEF j
      <4>2. less = (j - 1) * WordBytes + WordBytes /\ (j - 1) * WordBytes \in Nat
        BY <4>1, Products
      <4>7. p.inep[Bulk].sent = s + WordBytes
        BY <1>2
      <4>3. p.inep[Bulk].sent + less >= ReplyBytes
        BY <1>7, <1>15, <4>7
      <4> DEFINE c == (j - 1) * WordBytes
      <4>4. c \in Nat /\ less = c + WordBytes /\ (j - 1) * WordBytes = c
        BY <4>2
      <4> HIDE DEF c
      <4>5. p.inep[Bulk].sent + c < ReplyBytes
        BY <1>7, <1>15, <4>4, <4>7
      <4>6. Exact(p, j)
        BY <3>1, <4>1, <4>3, <4>4, <4>5 DEF Exact
      <4> QED BY <4>6 DEF j
    <3> QED BY <1>2, <1>7, <3>2, <3>3
  <2>4. Tail(T) = Repeat(FillOp(e), k - 1) \o <<MaskOp(e, on)>>
    BY <1>11 DEF b, m
  <2>5. "TXFE" \notin p.inep[e].int
    BY <1>2, <1>3
  <2>6. ToFill(Tail(T), p, t, w, e, on, k - 1)
    BY <1>12, <2>1, <2>2, <2>3, <2>4, <2>5 DEF ToFill
  <2> QED BY <1>4, <1>8, <1>14, <2>6
<1> QED BY <1>13, <1>14

\* The words of a transfer.
LEMMA WordsOf ==
  ASSUME NEW n \in Nat
  PROVE  /\ Words(n) \in Nat /\ Words(n) * WordBytes >= n
         /\ n > 0 => Words(n) # 0 /\ (Words(n) - 1) * WordBytes < n
<1> DEFINE a == n + WordBytes - 1
           q == a \div WordBytes
           m == a % WordBytes
<1>1. WordBytes \in Nat /\ WordBytes > 0
  OBVIOUS
<1>2. a \in Nat
  BY <1>1
<1>3. q \in Nat /\ m \in 0..(WordBytes - 1) /\ a = q * WordBytes + m
  <2> HIDE DEF a
  <2> QED BY <1>1, <1>2
<1>4. Words(n) = q
  BY DEF Words
<1> HIDE DEF q, m
<1>5. CASE q = 0
  <2>1. q * WordBytes = 0
    BY <1>1, <1>5
  <2> QED BY <1>1, <1>3, <1>4, <1>5, <2>1
<1>6. CASE q # 0
  <2> DEFINE b == q * WordBytes
             c == (q - 1) * WordBytes
  <2>1. b \in Nat /\ c \in Nat /\ b = c + WordBytes
    BY <1>3, <1>6, Products
  <2>2. a = b + m
    BY <1>3
  <2> HIDE DEF b, c
  <2>3. b >= n /\ c < n
    BY <1>1, <1>3, <2>1, <2>2
  <2> QED BY <1>3, <1>4, <1>6, <2>3 DEF b, c
<1> QED BY <1>5, <1>6

-----------------------------------------------------------------------------
(* The invariant.                                                           *)

\* What the driver is about to do: accesses no transfer depends on, then the rest T.
Handling(o, q, t, r, w) ==
  \E Q, T : Q \in Seq(MildOps) /\ q = Q \o T /\ Ahead(T, o, t, r, w)

\* At every access the driver has still to make, the controller is where that access expects it
\* to be, whatever polls and hosts have done since the handler was entered; the driver only
\* takes itself for connected (r) when it is, or is about to be told that it is not.
Sound(o, q, t, r, w) ==
  /\ Typed(o) /\ Ground(o) /\ Calm(o) /\ (r => Up(o)) /\ w \in Nat
  /\ Handling(o, q, t, r, w)

UsbInv == Sound(otg, todo, torn, ready, replies)

LEMMA AheadSeq ==
  ASSUME NEW o, NEW T, NEW t, NEW r, NEW w, Ahead(T, o, t, r, w)
  PROVE  \E A : T \in Seq(A)
<1>1. AtRest(T, o, t) => \E A : T \in Seq(A)
  <2>1. <<>> \in Seq({})
    OBVIOUS
  <2> QED BY <2>1, Zenon DEF AtRest
<1>2. \A x : <<x>> \in Seq({x})
  OBVIOUS
<1>3. \A x, y : <<x, y>> \in Seq({x, y})
  OBVIOUS
<1>4. \A x, y, z : <<x, y, z>> \in Seq({x, y, z})
  OBVIOUS
<1>5. \A A, B, s, u : s \in Seq(A) /\ u \in Seq(B) => s \o u \in Seq(A \cup B)
  <2> SUFFICES ASSUME NEW A, NEW B, NEW s \in Seq(A), NEW u \in Seq(B)
               PROVE  s \o u \in Seq(A \cup B)
    OBVIOUS
  <2>1. s \in Seq(A \cup B) /\ u \in Seq(A \cup B)
    BY SeqMonotonic
  <2> QED BY <2>1, ConcatProperties
<1>6. ASSUME NEW e, NEW n, ToSize(T, o, t, e, n) PROVE \E A : T \in Seq(A)
  BY <1>4, <1>6, Zenon DEF ToSize
<1>7. ToResize(T, o, t) => \E A : T \in Seq(A)
  <2>1. ToResize(T, o, t) => T = <<SizeOp(Bulk, ReplyBytes), CtlOp(Bulk)>>
    BY Zenon DEF ToResize
  <2>2. <<SizeOp(Bulk, ReplyBytes), CtlOp(Bulk)>> \in Seq({SizeOp(Bulk, ReplyBytes), CtlOp(Bulk)})
    BY <1>3, Zenon
  <2> QED BY <2>1, <2>2, Zenon
<1>8. ASSUME NEW e, ToArm(T, o, t, e) PROVE \E A : T \in Seq(A)
  BY <1>2, <1>8, Zenon DEF ToArm
<1>9. ASSUME NEW e, NEW on, ToArmAndMask(T, o, t, e, on) PROVE \E A : T \in Seq(A)
  BY <1>3, <1>9, Zenon DEF ToArmAndMask
<1>10. ASSUME NEW e, NEW on, ToMask(T, o, t, e, on) PROVE \E A : T \in Seq(A)
  BY <1>2, <1>10, Zenon DEF ToMask
<1>11. ASSUME NEW e, ToClear(T, o, t, e) PROVE \E A : T \in Seq(A)
  BY <1>2, <1>11, Zenon DEF ToClear
<1>12. ASSUME NEW e, NEW on, NEW k \in Nat, ToFill(T, o, t, w, e, on, k) PROVE \E A : T \in Seq(A)
  <2>1. Repeat(FillOp(e), k) \in Seq({FillOp(e)})
    BY RepeatOf
  <2>2. T = Repeat(FillOp(e), k) \o <<MaskOp(e, on)>>
    BY <1>12, Zenon DEF ToFill
  <2> QED BY <1>2, <1>5, <2>1, <2>2, Zenon
<1>13. ASSUME NEW e, NEW on, NEW k \in Nat, ToClearAndFill(T, o, t, e, on, k)
       PROVE  \E A : T \in Seq(A)
  <2>1. Repeat(FillOp(e), k) \in Seq({FillOp(e)})
    BY RepeatOf
  <2>2. T = <<ClearOp(e)>> \o (Repeat(FillOp(e), k) \o <<MaskOp(e, on)>>)
    BY <1>13, Zenon DEF ToClearAndFill
  <2> QED BY <1>2, <1>5, <2>1, <2>2, Zenon
<1>14. ToEndReset(T, o, t, r) \/ ToMaskBoth(T, o, t) \/ ToMaskBulk(T, o, t) => \E A : T \in Seq(A)
  <2>1. PICK x, y : x = MaskOp(0, FALSE) /\ y = MaskOp(Bulk, FALSE)
    BY Zenon
  <2>2. PICK A : Activation \in Seq(A)
    BY <1>3, Zenon DEF Activation
  <2>3. \E B : <<EndReset, x, y>> \o Activation \in Seq(B)
    BY <1>4, <1>5, <2>2, Zenon
  <2>4. \E B : <<x, y>> \o Activation \in Seq(B)
    BY <1>3, <1>5, <2>2, Zenon
  <2>5. \E B : <<y>> \o Activation \in Seq(B)
    BY <1>2, <1>5, <2>2, Zenon
  <2>6. ToEndReset(T, o, t, r) => T = <<EndReset, x, y>> \o Activation
    BY <2>1, Zenon DEF ToEndReset
  <2>7. ToMaskBoth(T, o, t) => T = <<x, y>> \o Activation
    BY <2>1, Zenon DEF ToMaskBoth
  <2>8. ToMaskBulk(T, o, t) => T = <<y>> \o Activation
    BY <2>1, Zenon DEF ToMaskBulk
  <2> QED BY <2>3, <2>4, <2>5, <2>6, <2>7, <2>8, Zenon
<1>15. \A k \in Nat \ {0} : k \in Nat
  OBVIOUS
<1> QED BY <1>1, <1>6, <1>7, <1>8, <1>9, <1>10, <1>11, <1>12, <1>13, <1>14, <1>15, Zenon DEF Ahead

LEMMA Straight ==
  ASSUME NEW o, NEW T, NEW t, NEW r, NEW w, Ahead(T, o, t, r, w)
  PROVE  Handling(o, T, t, r, w)
<1>1. PICK A : T \in Seq(A)
  BY AheadSeq
<1>2. <<>> \o T = T /\ <<>> \in Seq(MildOps)
  BY <1>1
<1> QED BY <1>2, Zenon DEF Handling

\* The accesses a transfer depends on, as the controller takes them.
LEMMA SizeAccess ==
  ASSUME NEW e, NEW n
  PROVE  Access(SizeOp(e, n)) = WriteDiepsiz(otg, e, n) /\ SizeOp(e, n).reg # "GRXSTSP"
<1>1. SizeOp(e, n).reg = "DIEPTSIZ" /\ SizeOp(e, n).ep = e /\ SizeOp(e, n).n = n
  BY DEF SizeOp
<1> QED BY <1>1 DEF Access

LEMMA CtlAccess ==
  ASSUME NEW e
  PROVE  Access(CtlOp(e)) = WriteDiepctl(otg, e, TRUE) /\ CtlOp(e).reg # "GRXSTSP"
<1>1. CtlOp(e).reg = "DIEPCTL" /\ CtlOp(e).ep = e
  BY DEF CtlOp
<1> QED BY <1>1 DEF Access

LEMMA MaskAccess ==
  ASSUME NEW e, NEW on \in BOOLEAN
  PROVE  /\ Access(MaskOp(e, on)) = WriteDiepempmsk(otg, MaskOf(otg, e, on))
         /\ MaskOp(e, on).reg # "GRXSTSP"
<1>1. MaskOp(e, on).reg = "DIEPEMPMSK" /\ MaskOp(e, on).ep = e /\ MaskOp(e, on).on = on
  BY DEF MaskOp
<1> QED BY <1>1 DEF Access, MaskOf

LEMMA ClearAccess ==
  ASSUME NEW e
  PROVE  /\ Access(ClearOp(e)) = WriteDiepint(otg, e, {"TXFE"}) /\ ClearOp(e).reg # "GRXSTSP"
<1>1. ClearOp(e).reg = "DIEPINT" /\ ClearOp(e).ep = e /\ ClearOp(e).bits = {"TXFE"}
  BY DEF ClearOp
<1> QED BY <1>1 DEF Access

LEMMA FillAccess ==
  ASSUME NEW e
  PROVE  Access(FillOp(e)) = PushWord(otg, e, replies) /\ FillOp(e).reg # "GRXSTSP"
<1>1. FillOp(e).reg = "TXFIFO" /\ FillOp(e).ep = e
  BY DEF FillOp
<1> QED BY <1>1 DEF Access

LEMMA EndResetAccess ==
  Access(EndReset) = WriteGintsts(otg, {"USBRST"}) /\ EndReset.reg # "GRXSTSP"
<1>1. EndReset.reg = "GINTSTS" /\ EndReset.bits = {"USBRST"}
  BY DEF EndReset
<1> QED BY <1>1 DEF Access

\* The first access of a sequence.
LEMMA Heads ==
  /\ \A x : Head(<<x>>) = x
  /\ \A x, y : Head(<<x, y>>) = x
  /\ \A x, y, z : Head(<<x, y, z>>) = x
  OBVIOUS

LEMMA HeadOf ==
  ASSUME NEW A, NEW B, NEW Q \in Seq(A), Q # <<>>, NEW T \in Seq(B)
  PROVE  Head(Q \o T) = Head(Q)
  BY FrontOf

\* An access that leaves the OUT side alone leaves what holds between two accesses.
LEMMA SoundAfter ==
  ASSUME NEW o, NEW p, NEW T, NEW t, NEW r, NEW w \in Nat, Calm(o), r => Up(o),
         Framed(o, p), Ground(p), Ahead(T, p, t, r, w)
  PROVE  Sound(p, T, t, r, w)
  BY FramedHolds, Straight DEF Sound

LEMMA FillStep ==
  ASSUME NEW T, NEW t, NEW r, NEW e \in Endpoints, NEW on \in BOOLEAN, NEW k \in Nat \ {0},
         Typed(otg), Ground(otg), Calm(otg), r => Up(otg), replies \in Nat,
         ToFill(T, otg, t, replies, e, on, k)
  PROVE  /\ Head(T).reg # "GRXSTSP"
         /\ Sound(Access(Head(T)), Tail(T), t, r, replies)
         /\ Delivered(otg, Access(Head(T)), t, replies)
<1>1. Head(T) = FillOp(e)
  <2>1. Repeat(FillOp(e), k) \in Seq({FillOp(e)}) /\ Repeat(FillOp(e), k) # <<>>
        /\ Head(Repeat(FillOp(e), k)) = FillOp(e)
    BY RepeatOf
  <2>2. T = Repeat(FillOp(e), k) \o <<MaskOp(e, on)>>
    BY Zenon DEF ToFill
  <2> DEFINE a == Repeat(FillOp(e), k)
             m == MaskOp(e, on)
  <2> HIDE DEF a, m
  <2>3. a \in Seq({FillOp(e)}) /\ a # <<>> /\ Head(a) = FillOp(e) /\ T = a \o <<m>>
    BY <2>1, <2>2 DEF a, m
  <2>4. <<m>> \in Seq({m})
    OBVIOUS
  <2> QED BY <2>3, <2>4, HeadOf
<1> DEFINE p == Access(FillOp(e))
<1>2. p = PushWord(otg, e, replies) /\ FillOp(e).reg # "GRXSTSP"
  BY FillAccess
<1> HIDE DEF p
<1>3. Pushes(otg, p, e, replies)
  BY <1>2, Pushed
<1>4. /\ Ground(p) /\ Delivered(otg, p, t, replies)
      /\ k = 1 => ToMask(Tail(T), p, t, e, on)
      /\ k # 1 => ToFill(Tail(T), p, t, replies, e, on, k - 1)
  BY <1>3, FillTaken
<1>5. Ahead(Tail(T), p, t, r, replies)
  <2>1. CASE k = 1
    BY <1>4, <2>1, Zenon DEF Ahead
  <2>2. CASE k # 1
    <3>1. k - 1 \in Nat \ {0}
      BY <2>2
    <3> QED BY <1>4, <2>2, <3>1, Zenon DEF Ahead
  <2> QED BY <2>1, <2>2
<1>6. Framed(otg, p)
  BY <1>3 DEF Pushes
<1>7. Sound(p, Tail(T), t, r, replies)
  BY <1>4, <1>5, <1>6, SoundAfter
<1> QED BY <1>1, <1>2, <1>4, <1>7 DEF p

\* A word that masks or unmasks an endpoint.
LEMMA MaskStep ==
  ASSUME NEW t, NEW e \in Endpoints, NEW on \in BOOLEAN, Typed(otg)
  PROVE  LET p == Access(MaskOp(e, on))
         IN  /\ Masks(otg, p, MaskOf(otg, e, on))
             /\ Delivered(otg, p, t, replies)
<1> DEFINE mask == MaskOf(otg, e, on)
           p == Access(MaskOp(e, on))
<1>1. mask \in SUBSET Endpoints
  BY DEF MaskOf, Typed
<1>2. p = WriteDiepempmsk(otg, mask)
  BY MaskAccess
<1> HIDE DEF mask, p
<1>3. Masks(otg, p, mask)
  BY <1>1, <1>2, Remasked
<1>4. Delivered(otg, p, t, replies)
  BY <1>3 DEF Masks, Delivered
<1> QED BY <1>3, <1>4 DEF p, mask

\* The first access of what is ahead.
LEMMA AheadStep ==
  ASSUME NEW T, NEW t, NEW r, T # <<>>, Typed(otg), Ground(otg), Calm(otg), r => Up(otg),
         replies \in Nat, Ahead(T, otg, t, r, replies)
  PROVE  /\ Head(T).reg # "GRXSTSP"
         /\ Sound(Access(Head(T)), Tail(T), t, r, replies)
         /\ Delivered(otg, Access(Head(T)), t, replies)
<1> DEFINE p == Access(Head(T))
           Goal == /\ Head(T).reg # "GRXSTSP" /\ Sound(p, Tail(T), t, r, replies)
                   /\ Delivered(otg, p, t, replies)
<1>1. AtRest(T, otg, t) => Goal
  BY Zenon DEF AtRest
<1>2. ASSUME NEW e \in Endpoints, NEW n \in Nat, ToSize(T, otg, t, e, n) PROVE Goal
  <2>1. Head(T) = SizeOp(e, n)
    BY <1>2, Heads, Zenon DEF ToSize
  <2>2. p = WriteDiepsiz(otg, e, n) /\ Head(T).reg # "GRXSTSP"
    BY <2>1, SizeAccess
  <2> HIDE DEF p
  <2>3. Sizes(otg, p, e, n)
    BY <2>2, Resized
  <2>4. Ground(p)
    BY <1>2, <2>3, SizedGround DEF ToSize
  <2>5. \E on \in BOOLEAN : ToArmAndMask(Tail(T), p, t, e, on)
    BY <1>2, <2>3, SizeTaken
  <2>6. Ahead(Tail(T), p, t, r, replies)
    BY <2>5, Zenon DEF Ahead
  <2>7. Framed(otg, p) /\ Delivered(otg, p, t, replies)
    BY <2>3 DEF Sizes, Delivered
  <2> QED BY <2>2, <2>4, <2>6, <2>7, SoundAfter
<1>3. ASSUME ToResize(T, otg, t) PROVE Goal
  <2>1. Head(T) = SizeOp(Bulk, ReplyBytes)
    BY <1>3, Heads, Zenon DEF ToResize
  <2>2. p = WriteDiepsiz(otg, Bulk, ReplyBytes) /\ Head(T).reg # "GRXSTSP"
    BY <2>1, SizeAccess
  <2>8. ReplyBytes \in Nat /\ Bulk \in Endpoints
    BY EndpointFacts
  <2> HIDE DEF p
  <2>3. Sizes(otg, p, Bulk, ReplyBytes)
    BY <2>2, <2>8, Resized
  <2>4. Ground(p)
    BY <2>3, <2>8, SizedGround
  <2>5. ToArm(Tail(T), p, t, Bulk)
    BY <1>3, <2>3, SizeRetaken
  <2>6. Ahead(Tail(T), p, t, r, replies)
    BY <2>5, <2>8, Zenon DEF Ahead
  <2>7. Framed(otg, p) /\ Delivered(otg, p, t, replies)
    BY <2>3 DEF Sizes, Delivered
  <2> QED BY <2>2, <2>4, <2>6, <2>7, SoundAfter
<1>4. ASSUME NEW e \in Endpoints, ToArm(T, otg, t, e) PROVE Goal
  <2>1. Head(T) = CtlOp(e)
    BY <1>4, Heads, Zenon DEF ToArm
  <2>2. p = WriteDiepctl(otg, e, TRUE) /\ Head(T).reg # "GRXSTSP"
    BY <2>1, CtlAccess, Zenon
  <2> HIDE DEF p
  <2>3. Arms(otg, p, e)
    BY <2>2, Armed, Zenon
  <2>4. Ground(p)
    BY <2>3, ArmedHolds
  <2>5. AtRest(Tail(T), p, t)
    BY <1>4, <2>3, ArmTaken
  <2>6. Ahead(Tail(T), p, t, r, replies)
    BY <2>5, Zenon DEF Ahead
  <2>7. Framed(otg, p) /\ Delivered(otg, p, t, replies)
    BY <2>3 DEF Arms, Delivered
  <2> QED BY <2>2, <2>4, <2>6, <2>7, SoundAfter
<1>5. ASSUME NEW e \in Endpoints, NEW on \in BOOLEAN, ToArmAndMask(T, otg, t, e, on) PROVE Goal
  <2>1. Head(T) = CtlOp(e)
    BY <1>5, Heads, Zenon DEF ToArmAndMask
  <2>2. p = WriteDiepctl(otg, e, TRUE) /\ Head(T).reg # "GRXSTSP"
    BY <2>1, CtlAccess, Zenon
  <2> HIDE DEF p
  <2>3. Arms(otg, p, e)
    BY <2>2, Armed, Zenon
  <2>4. Ground(p)
    BY <2>3, ArmedHolds
  <2>5. ToMask(Tail(T), p, t, e, on)
    BY <1>5, <2>3, ArmAndMaskTaken
  <2>6. Ahead(Tail(T), p, t, r, replies)
    BY <2>5, Zenon DEF Ahead
  <2>7. Framed(otg, p) /\ Delivered(otg, p, t, replies)
    BY <2>3 DEF Arms, Delivered
  <2> QED BY <2>2, <2>4, <2>6, <2>7, SoundAfter
<1>6. ASSUME NEW e \in Endpoints, NEW on \in BOOLEAN, ToMask(T, otg, t, e, on) PROVE Goal
  <2>1. Head(T) = MaskOp(e, on)
    BY <1>6, Heads, Zenon DEF ToMask
  <2>2. Masks(otg, p, MaskOf(otg, e, on)) /\ Delivered(otg, p, t, replies)
    BY <2>1, MaskStep
  <2>3. Head(T).reg # "GRXSTSP"
    BY <2>1, MaskAccess
  <2> HIDE DEF p
  <2>4. Typed(p) /\ Ground(p) /\ Calm(p) /\ (r => Up(p))
    BY <2>2, MaskedHolds
  <2>5. AtRest(Tail(T), p, t)
    BY <1>6, <2>2, MaskTaken
  <2>6. Handling(p, Tail(T), t, r, replies)
    BY <2>5, Straight DEF Ahead
  <2> QED BY <2>2, <2>3, <2>4, <2>6 DEF Sound
<1>7. ASSUME NEW e \in Endpoints, ToClear(T, otg, t, e) PROVE Goal
  <2> DEFINE bits == {"TXFE"}
  <2>1. Head(T) = ClearOp(e)
    BY <1>7, Heads, Zenon DEF ToClear
  <2>2. p = WriteDiepint(otg, e, bits) /\ Head(T).reg # "GRXSTSP"
    BY <2>1, ClearAccess
  <2> HIDE DEF p, bits
  <2>3. Clears(otg, p, e, bits)
    BY <2>2, IntCleared
  <2>4. Ground(p) /\ AtRest(Tail(T), p, t)
    BY <1>7, <2>3, ClearTaken DEF bits
  <2>6. Ahead(Tail(T), p, t, r, replies)
    BY <2>4, Zenon DEF Ahead
  <2>7. Framed(otg, p) /\ Delivered(otg, p, t, replies)
    BY <2>3 DEF Clears, Delivered
  <2> QED BY <2>2, <2>4, <2>6, <2>7, SoundAfter
<1>8. ASSUME NEW e \in Endpoints, NEW on \in BOOLEAN, NEW k \in Nat \ {0},
             ToClearAndFill(T, otg, t, e, on, k) PROVE Goal
  <2> DEFINE bits == {"TXFE"}
  <2>1. Head(T) = ClearOp(e)
    <3> DEFINE a == Repeat(FillOp(e), k) \o <<MaskOp(e, on)>>
               c == ClearOp(e)
    <3>1. \E A : a \in Seq(A)
      <4>1. k \in Nat
        OBVIOUS
      <4>2. Repeat(FillOp(e), k) \in Seq({FillOp(e), MaskOp(e, on)})
        <5> HIDE OtgAssumption, UsbAssumption
        <5> QED BY <4>1, RepeatOf, SeqMonotonic
      <4>3. <<MaskOp(e, on)>> \in Seq({FillOp(e), MaskOp(e, on)})
        OBVIOUS
      <4> QED BY <4>2, <4>3, ConcatProperties
    <3>2. T = <<c>> \o a
      BY <1>8, Zenon DEF ToClearAndFill
    <3> HIDE DEF a, c
    <3>3. <<c>> \in Seq({c}) /\ <<c>> # <<>> /\ Head(<<c>>) = c
      OBVIOUS
    <3>4. Head(T) = c
      BY <3>1, <3>2, <3>3, HeadOf
    <3> QED BY <3>4 DEF c
  <2>2. p = WriteDiepint(otg, e, bits) /\ Head(T).reg # "GRXSTSP"
    BY <2>1, ClearAccess
  <2> HIDE DEF p, bits
  <2>3. Clears(otg, p, e, bits)
    BY <2>2, IntCleared
  <2>4. Ground(p) /\ ToFill(Tail(T), p, t, replies, e, on, k)
    BY <1>8, <2>3, FillBegins DEF bits
  <2>6. Ahead(Tail(T), p, t, r, replies)
    BY <2>4, Zenon DEF Ahead
  <2>7. Framed(otg, p) /\ Delivered(otg, p, t, replies)
    BY <2>3 DEF Clears, Delivered
  <2> QED BY <2>2, <2>4, <2>6, <2>7, SoundAfter
<1>9. ASSUME NEW e \in Endpoints, NEW on \in BOOLEAN, NEW k \in Nat \ {0},
             ToFill(T, otg, t, replies, e, on, k) PROVE Goal
  BY <1>9, FillStep
<1>10. ASSUME ToEndReset(T, otg, t, r) PROVE Goal
  <2>1. PICK x, y : x = MaskOp(0, FALSE) /\ y = MaskOp(Bulk, FALSE)
    BY Zenon
  <2>2. T = <<EndReset, x, y>> \o Activation
    BY <1>10, <2>1, Zenon DEF ToEndReset
  <2>3. Head(T) = EndReset
    BY <2>2 DEF Activation
  <2>4. p = WriteGintsts(otg, {"USBRST"}) /\ Head(T).reg # "GRXSTSP"
    BY <2>3, EndResetAccess
  <2> HIDE DEF p
  <2>5. /\ Typed(p) /\ Ground(p) /\ Calm(p) /\ ~r /\ p.outbox = otg.outbox
        /\ ToMaskBoth(Tail(T), p, t)
    BY <1>10, <2>4, ResetEnded
  <2>6. Handling(p, Tail(T), t, r, replies)
    BY <2>5, Straight DEF Ahead
  <2> QED BY <2>4, <2>5, <2>6 DEF Sound, Delivered
<1>11. ASSUME ToMaskBoth(T, otg, t) PROVE Goal
  <2>1. PICK off \in BOOLEAN : off = FALSE
    OBVIOUS
  <2>2. PICK y : y = MaskOp(Bulk, FALSE)
    BY Zenon
  <2>3. T = <<MaskOp(0, off), y>> \o Activation
    BY <1>11, <2>1, <2>2, Zenon DEF ToMaskBoth
  <2>4. Head(T) = MaskOp(0, off)
    BY <2>3 DEF Activation
  <2>5. Masks(otg, p, MaskOf(otg, 0, off)) /\ Delivered(otg, p, t, replies)
    BY <2>4, MaskStep, EndpointFacts
  <2>6. Head(T).reg # "GRXSTSP"
    BY <2>4, MaskAccess
  <2> HIDE DEF p
  <2>7. Masks(otg, p, otg.empmsk \ {0})
    BY <2>1, <2>5 DEF MaskOf
  <2>8. Typed(p) /\ Ground(p) /\ Calm(p) /\ (r => Up(p))
    BY <2>7, MaskedHolds
  <2>9. ToMaskBulk(Tail(T), p, t)
    BY <1>11, <2>7, MaskBothTaken
  <2>10. Handling(p, Tail(T), t, r, replies)
    BY <2>9, Straight DEF Ahead
  <2> QED BY <2>5, <2>6, <2>8, <2>10 DEF Sound
<1>12. ASSUME ToMaskBulk(T, otg, t) PROVE Goal
  <2>1. PICK off \in BOOLEAN : off = FALSE
    OBVIOUS
  <2>3. T = <<MaskOp(Bulk, off)>> \o Activation
    BY <1>12, <2>1, Zenon DEF ToMaskBulk
  <2>4. Head(T) = MaskOp(Bulk, off)
    BY <2>3 DEF Activation
  <2>5. Masks(otg, p, MaskOf(otg, Bulk, off)) /\ Delivered(otg, p, t, replies)
    BY <2>4, MaskStep, EndpointFacts
  <2>6. Head(T).reg # "GRXSTSP"
    BY <2>4, MaskAccess
  <2> HIDE DEF p
  <2>7. Masks(otg, p, otg.empmsk \ {Bulk})
    BY <2>1, <2>5 DEF MaskOf
  <2>8. Typed(p) /\ Ground(p) /\ Calm(p) /\ (r => Up(p))
    BY <2>7, MaskedHolds
  <2>9. Tail(T) = Activation /\ AtRest(<<>>, p, t)
    BY <1>12, <2>7, MaskBulkTaken
  <2>10. Activation \in Seq(MildOps) /\ Activation \o <<>> = Activation
    <3> DEFINE a == [reg |-> "DAINTMSK", ep |-> 0]
               b == [reg |-> "DOEPCTL", ep |-> 0]
    <3>1. a \in MildOps /\ b \in MildOps
      BY EndpointFacts DEF MildOps
    <3>2. Activation = <<a, b>>
      BY DEF Activation
    <3> HIDE DEF a, b
    <3> QED BY <3>1, <3>2
  <2>11. Handling(p, Tail(T), t, r, replies)
    BY <2>9, <2>10, Zenon DEF Handling, Ahead
  <2> QED BY <2>5, <2>6, <2>8, <2>11 DEF Sound
<1> HIDE DEF Goal
<1>13. Goal
  BY <1>1, <1>2, <1>3, <1>4, <1>5, <1>6, <1>7, <1>8, <1>9, <1>10, <1>11, <1>12 DEF Ahead
<1> QED BY <1>13 DEF Goal

-----------------------------------------------------------------------------
(* The steps of the firmware.                                               *)

HIDE UsbAssumption

LEMMA MildOnes ==
  /\ [reg |-> "RXFIFO"] \in MildOps /\ [reg |-> "GRXSTSP"] \in MildOps
  /\ [reg |-> "GINTMSK"] \in MildOps /\ [reg |-> "NVIC"] \in MildOps
  /\ [reg |-> "GINTSTS", bits |-> {"SOF"}] \in MildOps
  /\ \A e \in Endpoints :
       /\ [reg |-> "DAINTMSK", ep |-> e] \in MildOps
       /\ [reg |-> "DOEPTSIZ", ep |-> e] \in MildOps
       /\ [reg |-> "DOEPCTL", ep |-> e] \in MildOps
       /\ TellOp(e, {"STUP"}) \in MildOps /\ TellOp(e, {"XFRC"}) \in MildOps
       /\ DoneOp(e) \in MildOps
<1>1. ASSUME NEW e \in Endpoints
      PROVE  /\ [reg |-> "DAINTMSK", ep |-> e] \in MildOps
             /\ [reg |-> "DOEPTSIZ", ep |-> e] \in MildOps
             /\ [reg |-> "DOEPCTL", ep |-> e] \in MildOps
             /\ TellOp(e, {"STUP"}) \in MildOps /\ TellOp(e, {"XFRC"}) \in MildOps
             /\ DoneOp(e) \in MildOps
  <2>1. [reg |-> "DAINTMSK", ep |-> e] \in MildOps
    BY DEF MildOps
  <2>2. [reg |-> "DOEPTSIZ", ep |-> e] \in MildOps
    BY DEF MildOps
  <2>3. [reg |-> "DOEPCTL", ep |-> e] \in MildOps
    BY DEF MildOps
  <2>4. \A b \in {{"STUP"}, {"XFRC"}} : TellOp(e, b) \in MildOps
    BY DEF MildOps
  <2>5. DoneOp(e) \in MildOps
    BY DEF MildOps
  <2> QED BY <2>1, <2>2, <2>3, <2>4, <2>5
<1>2. /\ [reg |-> "RXFIFO"] \in MildOps /\ [reg |-> "GRXSTSP"] \in MildOps
      /\ [reg |-> "GINTMSK"] \in MildOps /\ [reg |-> "NVIC"] \in MildOps
      /\ [reg |-> "GINTSTS", bits |-> {"SOF"}] \in MildOps
  BY DEF MildOps
<1> QED BY <1>1, <1>2

\* The words of a packet are read before anything else.
LEMMA WordsAhead ==
  ASSUME Typed(otg), Step
  PROVE  \E R \in Seq(MildOps) :
           todo' = R \o Tail(todo) /\ (Head(todo).reg # "GRXSTSP" => R = <<>>)
<1> DEFINE pops == Head(todo).reg = "GRXSTSP" /\ otg.rx_status # <<>>
           word == [reg |-> "RXFIFO"]
           R == IF pops THEN Repeat(word, Words(Head(otg.rx_status).n)) ELSE <<>>
<1>1. todo' = R \o Tail(todo)
  BY DEF Step
<1>2. R \in Seq(MildOps)
  <2>1. CASE pops
    <3>1. Head(otg.rx_status) \in Entries
      BY <2>1, HeadTailProperties DEF Typed
    <3>2. Head(otg.rx_status).n \in Nat
      BY <3>1 DEF Entries
    <3>3. Words(Head(otg.rx_status).n) \in Nat
      BY <3>2, WordsOf
    <3>4. R \in Seq({word}) /\ word \in MildOps
      <4>1. R = Repeat(word, Words(Head(otg.rx_status).n))
        BY <2>1
      <4> HIDE DEF word, R
      <4>2. R \in Seq({word})
        BY <3>3, <4>1, RepeatOf
      <4> QED BY <4>2, MildOnes DEF word
    <3> HIDE DEF R, word
    <3> QED BY <3>4, SeqMonotonic
  <2>2. CASE ~pops
    BY <2>2
  <2> QED BY <2>1, <2>2
<1>3. Head(todo).reg # "GRXSTSP" => R = <<>>
  OBVIOUS
<1> HIDE DEF R
<1> QED BY <1>1, <1>2, <1>3

LEMMA Regrouped ==
  ASSUME NEW A, NEW B, NEW p, NEW q, NEW s, p \in Seq(A), q \in Seq(A), s \in Seq(B)
  PROVE  (p \o q) \o s = p \o (q \o s)
<1>1. PICK S : S = A \cup B
  OBVIOUS
<1>2. p \in Seq(S) /\ q \in Seq(S) /\ s \in Seq(S)
  BY <1>1, SeqMonotonic
<1> QED
  <2> HIDE OtgAssumption
  <2> QED BY <1>2, ConcatAssociative

LEMMA FrontIs ==
  ASSUME NEW A, NEW B, NEW Q, NEW T, Q \in Seq(A), T \in Seq(B), Q # <<>>
  PROVE  /\ Head(Q \o T) = Head(Q) /\ Head(Q) \in A /\ Tail(Q) \in Seq(A)
         /\ Tail(Q \o T) = Tail(Q) \o T
<1> DEFINE s == Q \o T
<1>1. s = Q \o T
  OBVIOUS
<1> HIDE DEF s
<1> QED BY <1>1, FrontOf

\* An access, mild or ahead, leaves the invariant.
LEMMA StepSound ==
  ASSUME UsbInv, Step
  PROVE  UsbInv' /\ Delivered(otg, otg', torn, replies)
<1>1. PICK Q, T : /\ Q \in Seq(MildOps) /\ todo = Q \o T
                  /\ Ahead(T, otg, torn, ready, replies)
  BY DEF UsbInv, Sound, Handling
<1>2. Typed(otg) /\ Ground(otg) /\ Calm(otg) /\ (ready => Up(otg)) /\ replies \in Nat
  BY DEF UsbInv, Sound
<1>3. torn' = torn /\ ready' = ready /\ replies' = replies
  BY DEF Step, tallyVars
<1>4. otg' = Access(Head(todo)) /\ todo # <<>>
  BY DEF Step
<1>5. PICK A : T \in Seq(A)
  BY <1>1, AheadSeq
<1>6. PICK R \in Seq(MildOps) :
        todo' = R \o Tail(todo) /\ (Head(todo).reg # "GRXSTSP" => R = <<>>)
  BY <1>2, WordsAhead
<1>7. ASSUME Q # <<>>
      PROVE  Sound(otg', todo', torn, ready, replies) /\ Delivered(otg, otg', torn, replies)
  <2>1. /\ Head(todo) = Head(Q) /\ Head(Q) \in MildOps
        /\ Tail(Q) \in Seq(MildOps) /\ Tail(todo) = Tail(Q) \o T
    <3>1. todo = Q \o T
      BY <1>1
    <3> QED
      <4> HIDE OtgAssumption
      <4> QED BY <1>1, <1>5, <1>7, <3>1, FrontIs
  <2>2. Alike(otg, Access(Head(Q)))
    BY <1>2, <2>1, MildAccess
  <2>3. Alike(otg, otg')
    BY <1>4, <2>1, <2>2
  <2>4. R \o Tail(Q) \in Seq(MildOps) /\ todo' = (R \o Tail(Q)) \o T
    <3> DEFINE u == Tail(Q)
    <3>1. u \in Seq(MildOps)
      BY <2>1
    <3> HIDE DEF u
    <3> HIDE OtgAssumption
    <3>2. R \in Seq(MildOps)
      BY <1>6
    <3>3. (R \o u) \o T = R \o (u \o T)
      BY <1>5, <3>1, <3>2, Regrouped
    <3> QED BY <1>6, <2>1, <3>3, ConcatProperties DEF u
  <2>5. Typed(otg') /\ Ground(otg') /\ Calm(otg') /\ (ready => Up(otg'))
    BY <1>2, <2>3, AlikeHolds DEF Alike
  <2>6. Ahead(T, otg', torn, ready, replies)
    BY <1>1, <1>2, <2>3, AheadAlike
  <2>7. Handling(otg', todo', torn, ready, replies)
    BY <2>4, <2>6 DEF Handling
  <2> QED BY <1>2, <2>3, <2>5, <2>7 DEF Sound, Delivered, Alike
<1>8. ASSUME Q = <<>>
      PROVE  Sound(otg', todo', torn, ready, replies) /\ Delivered(otg, otg', torn, replies)
  <2>1. todo = T
    BY <1>1, <1>5, <1>8
  <2>2. /\ Head(T).reg # "GRXSTSP"
        /\ Sound(Access(Head(T)), Tail(T), torn, ready, replies)
        /\ Delivered(otg, Access(Head(T)), torn, replies)
    BY <1>1, <1>2, <1>4, <2>1, AheadStep
  <2>3. T # <<>> /\ Tail(T) \in Seq(A)
    BY <1>4, <1>5, <2>1, HeadTailProperties
  <2>4. <<>> \o Tail(T) = Tail(T)
    BY <2>3
  <2>5. todo' = Tail(T)
    BY <1>6, <2>1, <2>2, <2>4
  <2> QED BY <1>4, <2>1, <2>2, <2>5
<1>9. Sound(otg', todo', torn, ready, replies) /\ Delivered(otg, otg', torn, replies)
  BY <1>7, <1>8
<1> QED BY <1>3, <1>9 DEF UsbInv

\* The accesses of a handler that is over: none.
LEMMA Nothing ==
  ASSUME NEW o, NEW t, NEW r, NEW w, Held(o, {}, {}), t \/ Idle(o)
  PROVE  Handling(o, <<>>, t, r, w)
<1>1. AtRest(<<>>, o, t)
  BY Zenon DEF AtRest
<1>2. Ahead(<<>>, o, t, r, w)
  BY <1>1, Zenon DEF Ahead
<1> QED BY <1>2, Straight

\* The poll leaves what is under way as it was, or ends it with the session.
LEMMA PollSound ==
  ASSUME UsbInv, Poll
  PROVE  UsbInv' /\ Delivered(otg, otg', torn, replies)
<1>1. PICK Q, T : /\ Q \in Seq(MildOps) /\ todo = Q \o T
                  /\ Ahead(T, otg, torn, ready, replies)
  BY DEF UsbInv, Sound, Handling
<1>2. Typed(otg) /\ Ground(otg) /\ Calm(otg) /\ (ready => Up(otg)) /\ replies \in Nat
  BY DEF UsbInv, Sound
<1>3. todo' = todo /\ ready' = ready /\ replies' = replies
  BY DEF Poll, tallyVars
<1>4. PICK sof : PollOtg(irq_enabled, sof)
  BY DEF Poll
<1>5. IF otg'.attached /\ ~otg.attached THEN Vacates(otg, otg') ELSE Alike(otg, otg')
  BY <1>2, <1>4, Polled
<1>6. CASE otg'.attached /\ ~otg.attached
  <2>1. Vacates(otg, otg') /\ torn' = (todo # <<>>)
    BY <1>5, <1>6 DEF Poll
  <2>2. Typed(otg') /\ Ground(otg') /\ Calm(otg') /\ Up(otg')
    BY <2>1, VacatesHolds DEF Vacates
  <2>3. ASSUME todo = <<>>
        PROVE  Handling(otg', todo, torn', ready, replies)
    <3>1. Held(otg', {}, {}) /\ Idle(otg')
      BY <2>1, VacatesHolds
    <3>2. Handling(otg', <<>>, torn', ready, replies)
      BY <3>1, Nothing
    <3> QED BY <2>3, <3>2
  <2>4. ASSUME todo # <<>>
        PROVE  Handling(otg', todo, torn', ready, replies)
    <3>1. Ahead(T, otg', TRUE, ready, replies)
      BY <1>1, <1>2, <2>1, AheadTorn
    <3>2. torn' = TRUE
      BY <2>1, <2>4, Zenon
    <3>3. Ahead(T, otg', torn', ready, replies)
      BY <3>1, <3>2, Zenon
    <3> QED BY <1>1, <3>3 DEF Handling
  <2>5. Handling(otg', todo', torn', ready', replies')
    BY <1>3, <2>3, <2>4
  <2> QED BY <1>2, <1>3, <2>1, <2>2, <2>5 DEF UsbInv, Sound, Delivered, Vacates
<1>7. CASE ~(otg'.attached /\ ~otg.attached)
  <2>1. Alike(otg, otg') /\ torn' = torn
    BY <1>5, <1>7 DEF Poll
  <2>2. Typed(otg') /\ Ground(otg') /\ Calm(otg') /\ (ready => Up(otg'))
    BY <1>2, <2>1, AlikeHolds DEF Alike
  <2>3. Ahead(T, otg', torn, ready, replies)
    BY <1>1, <1>2, <2>1, AheadAlike
  <2>4. Handling(otg', todo, torn, ready, replies)
    BY <1>1, <2>3 DEF Handling
  <2>5. Sound(otg', todo, torn, ready, replies) /\ Delivered(otg, otg', torn, replies)
    BY <1>2, <2>1, <2>2, <2>4 DEF Sound, Delivered, Alike
  <2> QED BY <1>3, <2>1, <2>5 DEF UsbInv
<1> QED BY <1>6, <1>7

\* What the host does reaches the driver only through the poll.
LEMMA Aside ==
  ASSUME NEW o, NEW p, NEW q, NEW t, NEW r, NEW w, Sound(o, q, t, r, w),
         DOMAIN p = DOMAIN o, p.inbox \in Nat, p.outbox \in Seq(Bytes),
         p.empmsk = o.empmsk, p.inep = o.inep, p.tx_fifo = o.tx_fifo, p.step = o.step,
         p.gintsts = o.gintsts, p.outep = o.outep, p.rx_status = o.rx_status
  PROVE  Sound(p, q, t, r, w)
<1>1. Typed(o) /\ Ground(o) /\ Calm(o) /\ (r => Up(o)) /\ w \in Nat
  BY DEF Sound
<1>2. Typed(p)
  BY <1>1 DEF Typed
<1>3. Calm(p)
  BY <1>1 DEF Calm, Configured, NoBulk
<1>4. Kept(o, p)
  BY <1>2, <1>3 DEF Kept, Configured
<1>5. Ground(p) /\ (r => Up(p))
  BY <1>1, <1>4, KeptHolds
<1>6. PICK Q, T : Q \in Seq(MildOps) /\ q = Q \o T /\ Ahead(T, o, t, r, w)
  BY DEF Sound, Handling
<1>7. Ahead(T, p, t, r, w)
  BY <1>1, <1>4, <1>6, AheadKept
<1>8. Handling(p, q, t, r, w)
  BY <1>6, <1>7 DEF Handling
<1> QED BY <1>1, <1>2, <1>3, <1>5, <1>8 DEF Sound

LEMMA HostSound ==
  ASSUME UsbInv, Host
  PROVE  UsbInv' /\ (otg'.outbox = otg.outbox \/ otg'.outbox = <<>>)
<1> DEFINE none == <<>>
<1>1. todo' = todo /\ torn' = torn /\ ready' = ready /\ replies' = replies
  BY DEF Host, HostConnects, HostSends, HostLeaves, HostReceives, driverVars, tallyVars
<1>2. Typed(otg)
  BY DEF UsbInv, Sound
<1>3. none \in Seq(Bytes)
  OBVIOUS
<1>4. /\ DOMAIN otg' = DOMAIN otg /\ otg'.inbox \in Nat
      /\ otg'.outbox = otg.outbox \/ otg'.outbox = none
      /\ otg'.empmsk = otg.empmsk /\ otg'.inep = otg.inep /\ otg'.tx_fifo = otg.tx_fifo
      /\ otg'.step = otg.step /\ otg'.gintsts = otg.gintsts /\ otg'.outep = otg.outep
      /\ otg'.rx_status = otg.rx_status
  <2>1. CASE HostConnects
    BY <1>2, <2>1 DEF HostConnects, Typed, Fields
  <2>2. CASE HostSends
    BY <1>2, <2>2 DEF HostSends, Typed, Fields
  <2>3. CASE HostLeaves
    BY <1>2, <2>3 DEF HostLeaves, Typed, Fields
  <2>4. CASE HostReceives
    BY <1>2, <2>4 DEF HostReceives, Typed, Fields
  <2> QED BY <2>1, <2>2, <2>3, <2>4 DEF Host
<1>5. otg'.outbox \in Seq(Bytes)
  BY <1>2, <1>3, <1>4 DEF Typed
<1>6. Sound(otg', todo, torn, ready, replies)
  <2> HIDE DEF none
  <2>1. Sound(otg, todo, torn, ready, replies)
    BY DEF UsbInv
  <2> QED BY <1>4, <1>5, <2>1, Aside
<1> QED BY <1>1, <1>4, <1>6 DEF UsbInv

\* At the start the driver is about to unmask its interrupts.
LEMMA InitSound == UsbInit => UsbInv
<1> SUFFICES ASSUME UsbInit
             PROVE  UsbInv
  OBVIOUS
<1> DEFINE a == [reg |-> "GINTMSK"]
           b == [reg |-> "NVIC"]
<1>1. Typed(otg)
  <2>1. InRegs \in InEp /\ OutRegs \in OutEp
    BY DEF InRegs, OutRegs, InEp, OutEp
  <2>2. <<>> \in Seq(Bytes) /\ <<>> \in Seq(Entries)
    OBVIOUS
  <2>3. /\ Fields \subseteq DOMAIN otg /\ otg.inbox = 0 /\ otg.outbox = <<>> /\ otg.empmsk = {}
        /\ otg.inep = [e \in Endpoints |-> InRegs] /\ otg.outep = [e \in Endpoints |-> OutRegs]
        /\ otg.rx_status = <<>> /\ otg.tx_fifo = [e \in Endpoints |-> <<>>]
    BY DEF UsbInit, OtgInit, Fields
  <2> QED BY <2>1, <2>2, <2>3 DEF Typed
<1>2. /\ otg.empmsk = {} /\ otg.rx_status = <<>> /\ otg.tx_fifo[Bulk] = <<>>
      /\ \A e \in Endpoints : ~otg.inep[e].ena /\ otg.inep[e].int = {} /\ otg.inep[e].size = 0
      /\ otg.outep[Bulk].int = {}
  BY EndpointFacts DEF UsbInit, OtgInit, InRegs, OutRegs
<1>3. Ground(otg) /\ Calm(otg)
  BY <1>2, EndpointFacts DEF Ground, Calm, NoBulk
<1>4. Held(otg, {}, {}) /\ Idle(otg)
  BY <1>2, EndpointFacts DEF Held, Idle, Quiet
<1>5. AtRest(<<>>, otg, torn)
  BY <1>4, Zenon DEF AtRest
<1>6. Ahead(<<>>, otg, torn, ready, replies)
  BY <1>5, Zenon DEF Ahead
<1>7. todo \in Seq(MildOps) /\ todo = todo \o <<>>
  <2>1. a \in MildOps /\ b \in MildOps
    BY MildOnes
  <2>2. todo = <<a, b>>
    BY DEF UsbInit
  <2> HIDE DEF a, b
  <2> QED BY <2>1, <2>2
<1>8. Handling(otg, todo, torn, ready, replies)
  BY <1>6, <1>7 DEF Handling
<1>9. ~ready /\ replies \in Nat
  BY DEF UsbInit
<1> QED BY <1>1, <1>3, <1>8, <1>9 DEF UsbInv, Sound

-----------------------------------------------------------------------------
(* The interrupt handler is entered.                                        *)

\* Between two handlers nothing is under way.
LEMMA RestOf ==
  ASSUME NEW o, NEW T, NEW t, NEW r, NEW w, Ahead(T, o, t, r, w), T = <<>>
  PROVE  Held(o, {}, {}) /\ (t \/ Idle(o))
<1> DEFINE Goal == Held(o, {}, {}) /\ (t \/ Idle(o))
<1>1. AtRest(T, o, t) => Goal
  BY DEF AtRest
<1>2. /\ \A x : <<x>> # <<>>
      /\ \A x, y : <<x, y>> # <<>>
      /\ \A x, y, z : <<x, y, z>> # <<>>
  OBVIOUS
<1>3. \A A, Q, x : Q \in Seq(A) => Q \o <<x>> # <<>>
  <2> SUFFICES ASSUME NEW A, NEW Q \in Seq(A), NEW x
               PROVE  Q \o <<x>> # <<>>
    OBVIOUS
  <2>1. <<x>> \in Seq({x}) /\ <<x>> # <<>>
    OBVIOUS
  <2>2. CASE Q = <<>>
    BY <2>2, <2>1
  <2>3. CASE Q # <<>>
    <3> DEFINE R == <<x>>
               s == Q \o R
    <3>1. R \in Seq({x}) /\ s = Q \o R
      BY <2>1
    <3> HIDE DEF R, s
    <3>2. s # <<>>
      BY <2>3, <3>1, FrontOf
    <3> QED BY <3>2 DEF s, R
  <2> QED BY <2>2, <2>3
<1>4. \A A, B, Q, R : Q \in Seq(A) /\ R \in Seq(B) /\ Q # <<>> => Q \o R # <<>>
  <2> SUFFICES ASSUME NEW A, NEW B, NEW Q \in Seq(A), NEW R \in Seq(B), Q # <<>>
               PROVE  Q \o R # <<>>
    OBVIOUS
  <2> DEFINE s == Q \o R
  <2>1. s = Q \o R
    OBVIOUS
  <2> HIDE DEF s
  <2>2. s # <<>>
    BY <2>1, FrontOf
  <2> QED BY <2>2 DEF s
<1>5. ASSUME NEW e, NEW n, ToSize(T, o, t, e, n) PROVE FALSE
  BY <1>2, <1>5, Zenon DEF ToSize
<1>6. ~ToResize(T, o, t)
  <2>1. ToResize(T, o, t) => T = <<SizeOp(Bulk, ReplyBytes), CtlOp(Bulk)>>
    BY Zenon DEF ToResize
  <2> QED BY <1>2, <2>1, Zenon
<1>7. ASSUME NEW e, ToArm(T, o, t, e) PROVE FALSE
  BY <1>2, <1>7, Zenon DEF ToArm
<1>8. ASSUME NEW e, NEW on, ToArmAndMask(T, o, t, e, on) PROVE FALSE
  BY <1>2, <1>8, Zenon DEF ToArmAndMask
<1>9. ASSUME NEW e, NEW on, ToMask(T, o, t, e, on) PROVE FALSE
  BY <1>2, <1>9, Zenon DEF ToMask
<1>10. ASSUME NEW e, ToClear(T, o, t, e) PROVE FALSE
  BY <1>2, <1>10, Zenon DEF ToClear
<1>11. ASSUME NEW e, NEW on, NEW k \in Nat, ToFill(T, o, t, w, e, on, k) PROVE FALSE
  <2>1. Repeat(FillOp(e), k) \in Seq({FillOp(e)})
    BY RepeatOf
  <2>2. T = Repeat(FillOp(e), k) \o <<MaskOp(e, on)>>
    BY <1>11, Zenon DEF ToFill
  <2> QED BY <1>3, <2>1, <2>2, Zenon
<1>12. ASSUME NEW e, NEW on, NEW k \in Nat, ToClearAndFill(T, o, t, e, on, k) PROVE FALSE
  <2>1. Repeat(FillOp(e), k) \in Seq({FillOp(e), MaskOp(e, on)})
    BY RepeatOf, SeqMonotonic
  <2>2. <<MaskOp(e, on)>> \in Seq({FillOp(e), MaskOp(e, on)})
    OBVIOUS
  <2>3. Repeat(FillOp(e), k) \o <<MaskOp(e, on)>> \in Seq({FillOp(e), MaskOp(e, on)})
    BY <2>1, <2>2, ConcatProperties
  <2>4. <<ClearOp(e)>> \in Seq({ClearOp(e)})
    OBVIOUS
  <2>5. T = <<ClearOp(e)>> \o (Repeat(FillOp(e), k) \o <<MaskOp(e, on)>>)
    BY <1>12, Zenon DEF ToClearAndFill
  <2> QED BY <1>2, <1>4, <2>3, <2>4, <2>5, Zenon
<1>13. ~ToEndReset(T, o, t, r) /\ ~ToMaskBoth(T, o, t) /\ ~ToMaskBulk(T, o, t)
  <2>1. PICK x, y : x = MaskOp(0, FALSE) /\ y = MaskOp(Bulk, FALSE)
    BY Zenon
  <2>2. <<EndReset, x, y>> \o Activation # <<>>
    BY DEF Activation
  <2>3. <<x, y>> \o Activation # <<>>
    BY DEF Activation
  <2>4. <<y>> \o Activation # <<>>
    BY DEF Activation
  <2>5. ToEndReset(T, o, t, r) => T = <<EndReset, x, y>> \o Activation
    BY <2>1, Zenon DEF ToEndReset
  <2>6. ToMaskBoth(T, o, t) => T = <<x, y>> \o Activation
    BY <2>1, Zenon DEF ToMaskBoth
  <2>7. ToMaskBulk(T, o, t) => T = <<y>> \o Activation
    BY <2>1, Zenon DEF ToMaskBulk
  <2> QED BY <2>2, <2>3, <2>4, <2>5, <2>6, <2>7, Zenon
<1>14. \A k \in Nat \ {0} : k \in Nat
  OBVIOUS
<1>15. AtRest(T, o, t)
  BY <1>5, <1>6, <1>7, <1>8, <1>9, <1>10, <1>11, <1>12, <1>13, <1>14, Zenon DEF Ahead
<1> QED BY <1>1, <1>15

LEMMA AtEntry ==
  ASSUME UsbInv, todo = <<>>
  PROVE  /\ Held(otg, {}, {}) /\ (torn \/ Idle(otg))
         /\ Typed(otg) /\ Ground(otg) /\ Calm(otg) /\ (ready => Up(otg)) /\ replies \in Nat
<1>1. PICK Q, T : /\ Q \in Seq(MildOps) /\ todo = Q \o T
                  /\ Ahead(T, otg, torn, ready, replies)
  BY DEF UsbInv, Sound, Handling
<1>2. PICK A : T \in Seq(A)
  BY <1>1, AheadSeq
<1>3. T = <<>>
  <2>1. Q \o T = <<>>
    BY <1>1
  <2>2. Q = <<>>
    <3>1. ASSUME Q # <<>> PROVE FALSE
      <4> DEFINE s == Q \o T
      <4>1. s = Q \o T
        OBVIOUS
      <4> HIDE DEF s
      <4>2. s # <<>>
        BY <1>2, <3>1, <4>1, FrontOf
      <4> QED BY <2>1, <4>1, <4>2
    <3> QED BY <3>1
  <2> QED BY <1>2, <2>1, <2>2
<1>4. Held(otg, {}, {}) /\ (torn \/ Idle(otg))
  BY <1>1, <1>3, RestOf
<1> QED BY <1>4 DEF UsbInv, Sound

\* A handler begins.
LEMMA Begun ==
  ASSUME UsbInv, todo = <<>>, NEW M \in Seq(MildOps), NEW T, todo' = M \o T,
         otg' = otg, torn' = torn, replies' \in Nat, ready' => Up(otg),
         Ahead(T, otg, torn, ready', replies')
  PROVE  UsbInv'
<1>1. Typed(otg) /\ Ground(otg) /\ Calm(otg)
  BY AtEntry
<1>2. Handling(otg, todo', torn, ready', replies')
  BY DEF Handling
<1>3. Sound(otg, todo', torn, ready', replies')
  BY <1>1, <1>2 DEF Sound
<1> QED BY <1>3 DEF UsbInv

\* One that touches no transfer.
LEMMA BegunMild ==
  ASSUME UsbInv, todo = <<>>, todo' \in Seq(MildOps),
         otg' = otg, torn' = torn, replies' \in Nat, ready' => Up(otg)
  PROVE  UsbInv'
<1>1. Held(otg, {}, {}) /\ (torn \/ Idle(otg))
  BY AtEntry
<1>2. AtRest(<<>>, otg, torn)
  BY <1>1, Zenon DEF AtRest
<1>3. Ahead(<<>>, otg, torn, ready', replies')
  BY <1>2, Zenon DEF Ahead
<1>4. todo' = todo' \o <<>>
  OBVIOUS
<1>5. \E M, T : M \in Seq(MildOps) /\ todo' = M \o T /\ Ahead(T, otg, torn, ready', replies')
  BY <1>3, <1>4, Zenon
<1> QED BY <1>5, Begun

LEMMA Joined ==
  \A S, a, b : a \in Seq(S) /\ b \in Seq(S) =>
    /\ a \o b \in Seq(S) /\ Len(a \o b) = Len(a) + Len(b)
    /\ \A i \in 1..(Len(a) + Len(b)) :
         /\ i <= Len(a) => (a \o b)[i] = a[i]
         /\ ~(i <= Len(a)) => (a \o b)[i] = b[i - Len(a)]
  BY ConcatProperties

LEMMA JoinedIs ==
  ASSUME NEW S, NEW a, NEW b, NEW c, a \in Seq(S), b \in Seq(S), c \in Seq(S),
         Len(c) = Len(a) + Len(b),
         \A i \in 1..Len(c) : /\ i <= Len(a) => c[i] = a[i]
                              /\ ~(i <= Len(a)) => c[i] = b[i - Len(a)]
  PROVE  a \o b = c
<1>1. a \o b \in Seq(S) /\ Len(a \o b) = Len(a) + Len(b)
  BY Joined
<1>2. ASSUME NEW i \in 1..Len(c) PROVE (a \o b)[i] = c[i]
  BY Joined
<1> QED BY <1>1, <1>2, SeqEqual

LEMMA TwoAndOne ==
  ASSUME NEW x, NEW y, NEW z
  PROVE  <<x, y>> \o <<z>> = <<x, y, z>>
<1> DEFINE a == <<x, y>>
           b == <<z>>
           c == <<x, y, z>>
           S == {x, y, z}
<1>1. /\ a \in Seq(S) /\ b \in Seq(S) /\ c \in Seq(S) /\ Len(a) = 2 /\ Len(b) = 1 /\ Len(c) = 3
      /\ a[1] = x /\ a[2] = y /\ b[1] = z /\ c[1] = x /\ c[2] = y /\ c[3] = z
  OBVIOUS
<1> HIDE DEF a, b, c, S
<1>2. Len(c) = Len(a) + Len(b)
  BY <1>1
<1>3. ASSUME NEW i \in 1..Len(c)
      PROVE  (i <= Len(a) => c[i] = a[i]) /\ (~(i <= Len(a)) => c[i] = b[i - Len(a)])
  BY <1>1
<1>4. a \o b = c
  BY <1>1, <1>2, <1>3, JoinedIs
<1> QED BY <1>4 DEF a, b, c

LEMMA OneAndTwo ==
  ASSUME NEW x, NEW y, NEW z
  PROVE  <<x>> \o <<y, z>> = <<x, y, z>>
<1> DEFINE a == <<x>>
           b == <<y, z>>
           c == <<x, y, z>>
           S == {x, y, z}
<1>1. /\ a \in Seq(S) /\ b \in Seq(S) /\ c \in Seq(S) /\ Len(a) = 1 /\ Len(b) = 2 /\ Len(c) = 3
      /\ a[1] = x /\ b[1] = y /\ b[2] = z /\ c[1] = x /\ c[2] = y /\ c[3] = z
  OBVIOUS
<1> HIDE DEF a, b, c, S
<1>2. Len(c) = Len(a) + Len(b)
  BY <1>1
<1>3. ASSUME NEW i \in 1..Len(c)
      PROVE  (i <= Len(a) => c[i] = a[i]) /\ (~(i <= Len(a)) => c[i] = b[i - Len(a)])
  BY <1>1
<1>4. a \o b = c
  BY <1>1, <1>2, <1>3, JoinedIs
<1> QED BY <1>4 DEF a, b, c

LEMMA ListOf ==
  ASSUME NEW f, NEW A, NEW n, n \in Nat, f \in [1..n -> A]
  PROVE  f \in Seq(A) /\ Len(f) = n
  OBVIOUS

\* What is sent: size, control, mask.
LEMMA TransmitIs ==
  ASSUME NEW e, NEW n
  PROVE  Transmit(e, n) = <<SizeOp(e, n), CtlOp(e), MaskOp(e, n > 0)>>
<1>1. PICK x, y, z : x = SizeOp(e, n) /\ y = CtlOp(e) /\ z = MaskOp(e, n > 0)
  BY Zenon
<1>2. Transmit(e, n) = <<x, y>> \o <<z>>
  BY <1>1, Zenon DEF Transmit, Rearm, SizeOp, CtlOp, MaskOp
<1>3. <<x, y>> \o <<z>> = <<x, y, z>>
  BY TwoAndOne
<1> QED BY <1>1, <1>2, <1>3, Zenon

LEMMA ToTransmit ==
  ASSUME NEW o, NEW t, NEW r, NEW w, NEW e \in Endpoints, NEW n \in Nat,
         e = Bulk => n = ReplyBytes, Held(o, {}, {}), t \/ Idle(o), e = Bulk => Up(o)
  PROVE  Ahead(Transmit(e, n), o, t, r, w)
<1>1. ToSize(Transmit(e, n), o, t, e, n)
  BY TransmitIs, Zenon DEF ToSize
<1> QED BY <1>1, Zenon DEF Ahead

LEMMA ReceiveMild ==
  ASSUME NEW e \in Endpoints
  PROVE  Receive(e) \in Seq(MildOps)
<1> DEFINE a == [reg |-> "DOEPTSIZ", ep |-> e]
           b == [reg |-> "DOEPCTL", ep |-> e]
<1>1. a \in MildOps /\ b \in MildOps
  BY MildOnes
<1>2. Receive(e) = <<a, b>>
  BY DEF Receive
<1> HIDE DEF a, b
<1> QED BY <1>1, <1>2

LEMMA SingleMild ==
  ASSUME NEW op \in MildOps
  PROVE  <<op>> \in Seq(MildOps) /\ <<op>> \o <<>> = <<op>>
  OBVIOUS

\* The reset handler.
LEMMA ResetSound ==
  ASSUME UsbInv, ServeReset
  PROVE  UsbInv'
<1>1. todo = <<>> /\ otg' = otg /\ torn' = torn /\ replies' = replies /\ ~ready'
  BY DEF ServeReset, Enter, tallyVars
<1>2. /\ Held(otg, {}, {}) /\ (torn \/ Idle(otg)) /\ replies \in Nat
  BY <1>1, AtEntry
<1>3. PICK x, y : x = MaskOp(0, FALSE) /\ y = MaskOp(Bulk, FALSE)
  BY Zenon
<1>4. todo' = <<EndReset, x, y>> \o Activation
  <2> DEFINE m(e) == [reg |-> "DIEPEMPMSK", ep |-> e, on |-> FALSE]
             p == <<0, Bulk>>
             f == [i \in 1..2 |-> m(p[i])]
  <2>1. f[1] = x /\ f[2] = y
    <3>1. p[1] = 0 /\ p[2] = Bulk
      OBVIOUS
    <3>2. m(0) = x /\ m(Bulk) = y
      BY <1>3, Zenon DEF MaskOp
    <3> HIDE DEF p, m
    <3> QED BY <3>1, <3>2
  <2>2. f \in [1..2 -> {x, y}]
    <3>1. f = [i \in 1..2 |-> f[i]]
      OBVIOUS
    <3>2. \A i \in 1..2 : f[i] \in {x, y}
      BY <2>1
    <3> HIDE DEF f
    <3> QED BY <3>1, <3>2
  <2>4. todo' = (<<EndReset>> \o f) \o Activation
    BY Zenon DEF ServeReset, Enter, EndReset, Activation
  <2> HIDE DEF f
  <2>5. f \in Seq({x, y}) /\ Len(f) = 2
    <3>1. PICK n, A : n = 2 /\ n \in Nat /\ A = {x, y} /\ f \in [1..n -> A]
      BY <2>2
    <3>2. f \in Seq(A) /\ Len(f) = n
      BY <3>1, ListOf, Zenon
    <3> QED BY <3>1, <3>2, Zenon
  <2>6. f = <<x, y>>
    <3>1. <<x, y>> \in Seq({x, y}) /\ Len(<<x, y>>) = 2 /\ <<x, y>>[1] = x /\ <<x, y>>[2] = y
      OBVIOUS
    <3>2. \A i \in 1..2 : f[i] = <<x, y>>[i]
      BY <2>1, <3>1
    <3> DEFINE g == <<x, y>>
    <3>3. g \in Seq({x, y}) /\ Len(g) = 2 /\ \A i \in 1..2 : f[i] = g[i]
      BY <3>1, <3>2
    <3> HIDE DEF g
    <3>4. f = g
      BY <2>5, <3>3, SeqEqual
    <3> QED BY <3>4 DEF g
  <2>7. <<EndReset>> \o <<x, y>> = <<EndReset, x, y>>
    BY OneAndTwo
  <2> QED BY <2>4, <2>6, <2>7, Zenon
<1>5. ToEndReset(todo', otg, torn, ready')
  BY <1>1, <1>2, <1>3, <1>4, Zenon DEF ToEndReset
<1>6. Ahead(todo', otg, torn, ready', replies')
  BY <1>5, Zenon DEF Ahead
<1>7. Handling(otg, todo', torn, ready', replies')
  BY <1>6, Straight
<1>8. Sound(otg, todo', torn, ready', replies')
  BY <1>1, <1>2, <1>7, AtEntry DEF Sound
<1> QED BY <1>1, <1>8 DEF UsbInv

LEMMA FrameSound ==
  ASSUME UsbInv, ServeFrame \/ ServeReceive
  PROVE  UsbInv'
<1>1. /\ todo = <<>> /\ otg' = otg /\ torn' = torn /\ replies' = replies /\ ready' = ready
  BY DEF ServeFrame, ServeReceive, Enter, tallyVars
<1>2. todo' \in Seq(MildOps)
  <2>1. PICK op \in MildOps : todo' = <<op>>
    BY MildOnes, Zenon DEF ServeFrame, ServeReceive, Enter
  <2> QED BY <2>1, SingleMild
<1> QED BY <1>1, <1>2, AtEntry, BegunMild

\* A reply of the thread.
LEMMA RespondSound ==
  ASSUME UsbInv, Respond
  PROVE  UsbInv' /\ otg' = otg
<1>1. /\ todo = <<>> /\ otg' = otg /\ torn' = torn /\ replies' = replies + 1 /\ ready' = ready
      /\ ready /\ todo' = Transmit(Bulk, ReplyBytes)
  BY DEF Respond
<1>2. /\ Held(otg, {}, {}) /\ (torn \/ Idle(otg)) /\ replies' \in Nat /\ Up(otg)
  BY <1>1, AtEntry
<1>3. ReplyBytes \in Nat /\ Bulk \in Endpoints
  BY UsbAssumption, EndpointFacts
<1>4. Ahead(todo', otg, torn, ready', replies')
  BY <1>1, <1>2, <1>3, ToTransmit
<1>5. Handling(otg, todo', torn, ready', replies')
  BY <1>4, Straight
<1>6. Sound(otg, todo', torn, ready', replies')
  BY <1>1, <1>2, <1>5, AtEntry DEF Sound
<1> QED BY <1>1, <1>6 DEF UsbInv

\* The FIFO of an endpoint is empty: it is filled if there is a transfer to fill it for.
LEMMA TxfeSound ==
  ASSUME UsbInv, NEW e \in Endpoints, NEW on \in BOOLEAN, todo = <<>>,
         "USBRST" \notin otg.gintsts, "TXFE" \in otg.inep[e].int, NEW T,
         todo' = <<ClearOp(e)>> \o T,
         e \in otg.empmsk => T = Repeat(FillOp(e), Words(otg.inep[e].size)) \o <<MaskOp(e, on)>>,
         e \notin otg.empmsk => T = <<>>,
         otg' = otg, torn' = torn, replies' = replies, ready' = ready
  PROVE  UsbInv'
<1>1. /\ Held(otg, {}, {}) /\ (torn \/ Idle(otg))
      /\ Typed(otg) /\ Ground(otg) /\ Calm(otg) /\ (ready => Up(otg)) /\ replies \in Nat
  BY AtEntry
<1> SUFFICES Ahead(todo', otg, torn, ready, replies)
  <2>1. Handling(otg, todo', torn, ready, replies)
    BY Straight
  <2>2. Sound(otg, todo', torn, ready, replies)
    BY <1>1, <2>1 DEF Sound
  <2> QED BY <2>2 DEF UsbInv
<1>2. CASE e \notin otg.empmsk
  <2>1. <<ClearOp(e)>> \o <<>> = <<ClearOp(e)>>
    <3>1. <<ClearOp(e)>> \in Seq({ClearOp(e)})
      OBVIOUS
    <3> QED BY <3>1
  <2>2. todo' = <<ClearOp(e)>>
    BY <1>2, <2>1
  <2>3. ToClear(todo', otg, torn, e)
    BY <1>1, <1>2, <2>2, Zenon DEF ToClear
  <2> QED BY <2>3, Zenon DEF Ahead
<1>3. CASE e \in otg.empmsk
  <2> DEFINE size == otg.inep[e].size
             sent == otg.inep[e].sent
             k == Words(size)
  <2>1. otg.inep[e].ena /\ size \in Nat /\ sent \in Nat
    BY <1>1 DEF Ground, Typed, InEp
  <2>2. size > 0
    BY <1>1, <1>3, <2>1 DEF Held
  <2>3. k \in Nat /\ k * WordBytes >= size /\ k # 0 /\ (k - 1) * WordBytes < size
    <3> HIDE DEF size
    <3> QED BY <2>1, <2>2, WordsOf
  <2>4. k * WordBytes \in Nat /\ (k - 1) * WordBytes \in Nat
    <3> HIDE DEF k
    <3>1. k \in Nat \ {0}
      BY <2>3
    <3> QED BY <3>1, Products
  <2>5. Enough(otg, e, k)
    <3>1. sent + k * WordBytes >= size
      <4> DEFINE b == k * WordBytes
      <4>1. b \in Nat /\ b >= size
        BY <2>3, <2>4
      <4> HIDE DEF b, size, sent
      <4> QED BY <2>1, <4>1 DEF b
    <3> HIDE DEF k
    <3> QED BY <3>1 DEF Enough
  <2>6. ASSUME e = Bulk, ~torn
        PROVE  Configured(otg) /\ Exact(otg, k)
    <3>1. Up(otg) /\ sent = 0 /\ size = ReplyBytes
      BY <1>1, <1>3, <2>1, <2>6 DEF Idle, Quiet, Ground
    <3>2. Configured(otg)
      BY <3>1 DEF Up
    <3>3. sent + k * WordBytes >= ReplyBytes /\ sent + (k - 1) * WordBytes < ReplyBytes
      <4> DEFINE b == k * WordBytes
                 c == (k - 1) * WordBytes
      <4>1. b \in Nat /\ b >= size /\ c \in Nat /\ c < size
        BY <2>3, <2>4
      <4> HIDE DEF b, c, size, sent
      <4> QED BY <2>1, <3>1, <4>1 DEF b, c
    <3> HIDE DEF k
    <3> QED BY <2>1, <2>6, <3>2, <3>3 DEF Exact
  <2> HIDE DEF k
  <2>7. todo' = <<ClearOp(e)>> \o (Repeat(FillOp(e), k) \o <<MaskOp(e, on)>>)
    BY <1>3, Zenon DEF k
  <2>8. torn \/ (Idle(otg) /\ (e = Bulk => Configured(otg) /\ Exact(otg, k)))
    BY <1>1, <2>6, Zenon
  <2>9. ToClearAndFill(todo', otg, torn, e, on, k)
    BY <1>1, <2>5, <2>7, <2>8, Zenon DEF ToClearAndFill
  <2>10. k \in Nat \ {0}
    BY <2>3 DEF k
  <2> QED BY <2>9, <2>10, Zenon DEF Ahead
<1> QED BY <1>2, <1>3

\* A transfer is complete: the next of the reply is begun.
LEMMA XfrcSound ==
  ASSUME UsbInv, NEW e \in Endpoints, todo = <<>>, NEW T, todo' = <<DoneOp(e)>> \o T,
         T = <<>> \/ T = Rearm(Bulk, ReplyBytes),
         otg' = otg, torn' = torn, replies' = replies, ready' = ready
  PROVE  UsbInv'
<1>1. /\ Held(otg, {}, {}) /\ (torn \/ Idle(otg))
      /\ Typed(otg) /\ Ground(otg) /\ Calm(otg) /\ (ready => Up(otg)) /\ replies \in Nat
  BY AtEntry
<1>2. DoneOp(e) \in MildOps
  BY MildOnes
<1>3. <<DoneOp(e)>> \in Seq(MildOps)
  BY <1>2, SingleMild
<1>4. Ahead(T, otg, torn, ready, replies)
  <2>1. CASE T = <<>>
    <3>1. AtRest(T, otg, torn)
      BY <1>1, <2>1, Zenon DEF AtRest
    <3> QED BY <3>1, Zenon DEF Ahead
  <2>2. CASE T = Rearm(Bulk, ReplyBytes)
    <3>1. ToResize(T, otg, torn)
      BY <1>1, <2>2, Zenon DEF ToResize, Rearm, SizeOp, CtlOp
    <3> QED BY <3>1, Zenon DEF Ahead
  <2> QED BY <2>1, <2>2
<1>5. Ahead(T, otg, torn, ready', replies')
  BY <1>4
<1>6. replies' \in Nat /\ (ready' => Up(otg))
  BY <1>1
<1> QED BY <1>3, <1>5, <1>6, Begun

LEMMA InSound ==
  ASSUME UsbInv, NEW e \in Endpoints, ServeIn(e)
  PROVE  UsbInv'
<1>1. /\ todo = <<>> /\ otg' = otg /\ torn' = torn /\ replies' = replies /\ ready' = ready
      /\ "USBRST" \notin otg.gintsts
  BY DEF ServeIn, Enter, tallyVars
<1>2. CASE "TXFE" \in otg.inep[e].int
           /\ todo' = << [reg |-> "DIEPINT", ep |-> e, bits |-> {"TXFE"}] >>
                   \o (IF e \in otg.empmsk
                       THEN Repeat([reg |-> "TXFIFO", ep |-> e], Words(otg.inep[e].size))
                              \o << [reg |-> "DIEPEMPMSK", ep |-> e,
                                     on |-> e # 0 /\ sending > 1] >>
                       ELSE <<>>)
  <2>1. PICK on \in BOOLEAN : on = (e # 0 /\ sending > 1)
    BY Zenon
  <2> DEFINE T == IF e \in otg.empmsk
                  THEN Repeat(FillOp(e), Words(otg.inep[e].size)) \o <<MaskOp(e, on)>> ELSE <<>>
  <2>2. todo' = <<ClearOp(e)>> \o T
    BY <1>2, <2>1, Zenon DEF ClearOp, FillOp, MaskOp
  <2>3. /\ e \in otg.empmsk => T = Repeat(FillOp(e), Words(otg.inep[e].size)) \o <<MaskOp(e, on)>>
        /\ e \notin otg.empmsk => T = <<>>
    BY Zenon
  <2> HIDE DEF T
  <2> QED BY <1>1, <1>2, <2>2, <2>3, TxfeSound
<1>3. CASE todo' = << [reg |-> "DIEPINT", ep |-> e, bits |-> {"XFRC"}] >>
                     \o IF e # 0 /\ sending > 1 THEN Rearm(e, ReplyBytes) ELSE <<>>
  <2> DEFINE T == IF e # 0 /\ sending > 1 THEN Rearm(e, ReplyBytes) ELSE <<>>
  <2>1. T = <<>> \/ T = Rearm(Bulk, ReplyBytes)
    <3>1. e # 0 => e = Bulk
      BY EndpointFacts
    <3> QED BY <3>1, Zenon
  <2>2. todo' = <<DoneOp(e)>> \o T
    BY <1>3, Zenon DEF DoneOp
  <2> HIDE DEF T
  <2> QED BY <1>1, <2>1, <2>2, XfrcSound
<1> QED BY <1>2, <1>3, Zenon DEF ServeIn, Enter

\* A setup packet or an OUT packet has come: registers no transfer depends on, then an answer on
\* the control endpoint or none.
LEMMA OutBegun ==
  ASSUME UsbInv, todo = <<>>, NEW op \in MildOps, NEW M, NEW T, M \in Seq(MildOps),
         T = <<>> \/ \E n \in Nat : T = Transmit(0, n),
         todo' = <<op>> \o (M \o T), otg' = otg, torn' = torn, replies' = replies,
         ready' => Up(otg)
  PROVE  UsbInv'
<1>1. /\ Held(otg, {}, {}) /\ (torn \/ Idle(otg)) /\ replies \in Nat
  BY AtEntry
<1>2. Ahead(T, otg, torn, ready', replies')
  <2>1. CASE T = <<>>
    <3>1. AtRest(T, otg, torn)
      BY <1>1, <2>1, Zenon DEF AtRest
    <3> QED BY <3>1, Zenon DEF Ahead
  <2>2. ASSUME NEW n \in Nat, T = Transmit(0, n)
        PROVE  Ahead(T, otg, torn, ready', replies')
    <3>1. PICK e \in Endpoints : e = 0 /\ e # Bulk
      BY EndpointFacts
    <3>2. Ahead(Transmit(e, n), otg, torn, ready', replies')
      BY <1>1, <3>1, ToTransmit
    <3> QED BY <2>2, <3>1, <3>2
  <2> QED BY <2>1, <2>2
<1>3. PICK A : T \in Seq(A)
  BY <1>2, AheadSeq
<1>4. <<op>> \in Seq(MildOps)
  BY SingleMild
<1>5. <<op>> \o M \in Seq(MildOps)
  BY <1>4, ConcatProperties
<1>6. todo' = (<<op>> \o M) \o T
  <2> DEFINE a == <<op>>
  <2>1. a \in Seq(MildOps)
    BY <1>4
  <2> HIDE DEF a
  <2>2. (a \o M) \o T = a \o (M \o T)
    <3> HIDE OtgAssumption
    <3> QED BY <1>3, <2>1, Regrouped
  <2> QED BY <2>2 DEF a
<1>7. replies' \in Nat
  BY <1>1
<1> QED BY <1>2, <1>5, <1>6, <1>7, Begun

\* What the driver does about a request.
LEMMA ReactionIs ==
  ASSUME NEW request
  PROVE  \E M, T : /\ M \in Seq(MildOps) /\ Reaction(request) = M \o T
                   /\ T = <<>> \/ \E n \in Nat : T = Transmit(0, n)
<1>1. \A e, n : Transmit(e, n) = <<>> \o Transmit(e, n)
  <2> SUFFICES ASSUME NEW e, NEW n
               PROVE  Transmit(e, n) = <<>> \o Transmit(e, n)
    OBVIOUS
  <2>1. PICK x, y, z : Transmit(e, n) = <<x, y, z>>
    BY TransmitIs, Zenon
  <2>2. <<x, y, z>> \in Seq({x, y, z})
    OBVIOUS
  <2> QED BY <2>1, <2>2
<1>2. <<>> \in Seq(MildOps)
  OBVIOUS
<1>3. ASSUME NEW n \in Nat, Reaction(request) = Transmit(0, n)
      PROVE  \E M, T : /\ M \in Seq(MildOps) /\ Reaction(request) = M \o T
                       /\ T = <<>> \/ \E k \in Nat : T = Transmit(0, k)
  BY <1>1, <1>2, <1>3, Zenon
<1>4. CASE request = "GET_DESCRIPTOR"
  <2>1. Reaction(request) = Transmit(0, DescriptorBytes) /\ DescriptorBytes \in Nat
    BY <1>4, UsbAssumption DEF Reaction
  <2> QED BY <1>3, <2>1
<1>5. CASE request = "SET_LINE_CODING"
  <2>1. Reaction(request) = Receive(0)
    BY <1>5 DEF Reaction
  <2>2. Receive(0) \in Seq(MildOps)
    BY EndpointFacts, ReceiveMild
  <2>3. Receive(0) = Receive(0) \o <<>>
    BY <2>2
  <2> QED BY <2>1, <2>2, <2>3, Zenon
<1>6. CASE request = "SET_CONFIGURATION"
  <2> DEFINE op == [reg |-> "DAINTMSK", ep |-> Bulk]
             M == <<op>> \o Receive(Bulk)
  <2>1. Reaction(request) = M \o Transmit(0, 0)
    BY <1>6 DEF Reaction
  <2>2. op \in MildOps /\ Receive(Bulk) \in Seq(MildOps)
    BY EndpointFacts, ReceiveMild, MildOnes
  <2>3. M \in Seq(MildOps)
    <3> HIDE DEF op
    <3>1. <<op>> \in Seq(MildOps)
      BY <2>2, SingleMild
    <3> QED BY <2>2, <3>1, ConcatProperties
  <2>4. 0 \in Nat
    OBVIOUS
  <2> HIDE DEF M
  <2> QED BY <2>1, <2>3, <2>4, Zenon
<1>7. CASE request \in {"SET_ADDRESS", "SET_CONTROL_LINE_STATE"}
  <2>1. Reaction(request) = Transmit(0, 0) /\ 0 \in Nat
    BY <1>7 DEF Reaction
  <2> QED BY <1>3, <2>1
<1>8. CASE request \notin {"GET_DESCRIPTOR", "SET_LINE_CODING", "SET_CONFIGURATION",
                           "SET_ADDRESS", "SET_CONTROL_LINE_STATE"}
  <2>1. Reaction(request) = <<>>
    BY <1>8 DEF Reaction
  <2>2. <<>> \o <<>> = <<>>
    OBVIOUS
  <2> QED BY <1>2, <2>1, <2>2, Zenon
<1> QED BY <1>4, <1>5, <1>6, <1>7, <1>8

LEMMA OutSound ==
  ASSUME UsbInv, NEW e \in Endpoints, ServeOut(e)
  PROVE  UsbInv'
<1>1. /\ todo = <<>> /\ otg' = otg /\ torn' = torn /\ replies' = replies
  BY DEF ServeOut, Enter, tallyVars
<1>2. Calm(otg) /\ (ready => Up(otg))
  BY <1>1, AtEntry
<1>3. CASE ready' = ready
           /\ todo' = << [reg |-> "DOEPINT", ep |-> e, bits |-> {"STUP"}] >> \o Reaction(setup)
  <2>1. PICK M, T : /\ M \in Seq(MildOps) /\ Reaction(setup) = M \o T
                    /\ T = <<>> \/ \E n \in Nat : T = Transmit(0, n)
    BY ReactionIs
  <2>2. PICK op \in MildOps : op = TellOp(e, {"STUP"})
    BY MildOnes
  <2>3. todo' = <<op>> \o (M \o T)
    BY <1>3, <2>1, <2>2, Zenon DEF TellOp
  <2>4. ready' => Up(otg)
    BY <1>2, <1>3
  <2> QED BY <1>1, <2>1, <2>3, <2>4, OutBegun
<1>4. CASE /\ otg.outep[e].int = {"XFRC"} /\ ready' = (ready \/ e # 0)
           /\ todo' = << [reg |-> "DOEPINT", ep |-> e, bits |-> {"XFRC"}] >>
                   \o CASE e # 0 -> Receive(e)
                        [] e = 0 /\ setup = "SET_LINE_CODING" -> Transmit(0, 0)
                        [] OTHER -> <<>>
  <2> DEFINE rest == CASE e # 0 -> Receive(e)
                       [] e = 0 /\ setup = "SET_LINE_CODING" -> Transmit(0, 0)
                       [] OTHER -> <<>>
  <2>1. PICK op \in MildOps : op = TellOp(e, {"XFRC"})
    BY MildOnes
  <2>2. todo' = <<op>> \o rest
    BY <1>4, <2>1, Zenon DEF TellOp
  <2>3. \E M, T : /\ M \in Seq(MildOps) /\ rest = M \o T
                  /\ T = <<>> \/ \E n \in Nat : T = Transmit(0, n)
    <3>1. \/ rest = Receive(e) \/ rest = Transmit(0, 0) \/ rest = <<>>
      OBVIOUS
    <3> HIDE DEF rest
    <3>2. Receive(e) \in Seq(MildOps)
      BY ReceiveMild
    <3>3. Receive(e) = Receive(e) \o <<>> /\ <<>> = <<>> \o <<>>
      BY <3>2
    <3>4. Transmit(0, 0) = <<>> \o Transmit(0, 0)
      <4>1. PICK x, y, z : Transmit(0, 0) = <<x, y, z>>
        BY TransmitIs, Zenon
      <4>2. <<x, y, z>> \in Seq({x, y, z})
        OBVIOUS
      <4> QED BY <4>1, <4>2
    <3>5. <<>> \in Seq(MildOps) /\ 0 \in Nat
      OBVIOUS
    <3> QED BY <3>1, <3>2, <3>3, <3>4, <3>5, Zenon
  <2> HIDE DEF rest
  <2>4. ready' => Up(otg)
    <3>1. e # 0 => e = Bulk
      BY EndpointFacts
    <3>2. e = Bulk => otg.outep[Bulk].int # {}
      BY <1>4
    <3>3. e # 0 => Configured(otg)
      BY <1>2, <3>1, <3>2 DEF Calm
    <3> QED BY <1>2, <1>4, <3>3 DEF Up
  <2>5. PICK M, T : /\ M \in Seq(MildOps) /\ rest = M \o T
                    /\ T = <<>> \/ \E n \in Nat : T = Transmit(0, n)
    BY <2>3
  <2>6. todo' = <<op>> \o (M \o T)
    BY <2>2, <2>5
  <2> QED BY <1>1, <2>4, <2>5, <2>6, OutBegun
<1> QED BY <1>3, <1>4, Zenon DEF ServeOut, Enter

-----------------------------------------------------------------------------
(* The properties.                                                          *)

LEMMA NextSound ==
  UsbInv /\ [UsbNext]_usbVars => UsbInv'
<1> SUFFICES ASSUME UsbInv, [UsbNext]_usbVars
             PROVE  UsbInv'
  OBVIOUS
<1>1. ASSUME Step \/ Poll \/ Respond \/ Host PROVE UsbInv'
  BY <1>1, StepSound, PollSound, RespondSound, HostSound
<1>2. ASSUME Serve PROVE UsbInv'
  <2>1. CASE ServeReset
    BY <2>1, ResetSound
  <2>2. CASE ServeFrame \/ ServeReceive
    BY <2>2, FrameSound
  <2>3. ASSUME NEW e \in Endpoints, ServeIn(e) PROVE UsbInv'
    BY <2>3, InSound
  <2>4. ASSUME NEW e \in Endpoints, ServeOut(e) PROVE UsbInv'
    BY <2>4, OutSound
  <2> QED BY <1>2, <2>1, <2>2, <2>3, <2>4 DEF Serve
<1>3. ASSUME UNCHANGED usbVars PROVE UsbInv'
  <2>1. otg' = otg /\ todo' = todo /\ torn' = torn /\ ready' = ready /\ replies' = replies
    BY <1>3 DEF usbVars, driverVars, tallyVars
  <2> QED BY <2>1 DEF UsbInv
<1> QED BY <1>1, <1>2, <1>3 DEF UsbNext, Firmware

\* Whatever the interleaving of register accesses, polls and hosts, the rest of the handler under
\* way finds the controller as it needs it (the interrupt handler of the driver, poll,
\* virtual_host_reset).
THEOREM UsbSound == UsbSpec => []UsbInv
<1> QED BY InitSound, NextSound, PTL DEF UsbSpec

\* What is ahead is to fill a FIFO, or every armed and unmasked transfer has been told.
LEMMA AheadHeld ==
  ASSUME NEW o, NEW T, NEW t, NEW r, NEW w, Ahead(T, o, t, r, w)
  PROVE  \/ \E X : Held(o, {}, X)
         \/ T # <<>> /\ Head(T).reg = "TXFIFO"
<1> DEFINE Goal == \/ \E X : Held(o, {}, X)
                   \/ T # <<>> /\ Head(T).reg = "TXFIFO"
<1>1. ASSUME NEW e \in Endpoints, NEW on, NEW k \in Nat \ {0}, ToFill(T, o, t, w, e, on, k)
      PROVE  T # <<>> /\ Head(T).reg = "TXFIFO"
  <2> DEFINE a == Repeat(FillOp(e), k)
             m == MaskOp(e, on)
  <2>1. a \in Seq({FillOp(e)}) /\ a # <<>> /\ Head(a) = FillOp(e)
    BY RepeatOf
  <2>2. T = a \o <<m>>
    BY <1>1, Zenon DEF ToFill
  <2> HIDE DEF a, m
  <2>3. <<m>> \in Seq({m})
    OBVIOUS
  <2>4. T # <<>> /\ Head(T) = FillOp(e)
    BY <2>1, <2>2, <2>3, FrontOf
  <2> QED BY <2>4 DEF FillOp
<1>2. AtRest(T, o, t) => Goal
  BY Zenon DEF AtRest
<1>3. ASSUME NEW e, NEW n, ToSize(T, o, t, e, n) PROVE Goal
  BY <1>3, Zenon DEF ToSize
<1>4. ToResize(T, o, t) => Goal
  BY Zenon DEF ToResize
<1>5. ASSUME NEW e, ToArm(T, o, t, e) PROVE Goal
  BY <1>5, Zenon DEF ToArm
<1>6. ASSUME NEW e, NEW on, ToArmAndMask(T, o, t, e, on) PROVE Goal
  BY <1>6, Zenon DEF ToArmAndMask, Unmasking
<1>7. ASSUME NEW e, NEW on, ToMask(T, o, t, e, on) PROVE Goal
  BY <1>7, Zenon DEF ToMask, Unmasking
<1>8. ASSUME NEW e, ToClear(T, o, t, e) PROVE Goal
  BY <1>8, Zenon DEF ToClear
<1>9. ASSUME NEW e, NEW on, NEW k, ToClearAndFill(T, o, t, e, on, k) PROVE Goal
  BY <1>9, Zenon DEF ToClearAndFill
<1>10. ToEndReset(T, o, t, r) \/ ToMaskBoth(T, o, t) \/ ToMaskBulk(T, o, t) => Goal
  BY Zenon DEF ToEndReset, ToMaskBoth, ToMaskBulk
<1> QED BY <1>1, <1>2, <1>3, <1>4, <1>5, <1>6, <1>7, <1>8, <1>9, <1>10, Zenon DEF Ahead

LEMMA Within ==
  ASSUME NEW A, NEW B, NEW Q, NEW T, Q \in Seq(A), T \in Seq(B), T # <<>>
  PROVE  \E i \in DOMAIN (Q \o T) : (Q \o T)[i] = Head(T)
<1>1. PICK S : S = A \cup B
  OBVIOUS
<1>2. Q \in Seq(S) /\ T \in Seq(S)
  BY <1>1, SeqMonotonic
<1>3. Len(Q) \in Nat /\ Len(T) \in Nat /\ Len(T) > 0 /\ Head(T) = T[1]
  BY <1>2, HeadTailProperties, EmptySeq, LenProperties
<1> DEFINE i == Len(Q) + 1
<1>4. i \in 1..(Len(Q) + Len(T)) /\ ~(i <= Len(Q)) /\ i - Len(Q) = 1
  BY <1>3
<1> HIDE DEF i
<1>5. Q \o T \in Seq(S) /\ Len(Q \o T) = Len(Q) + Len(T) /\ (Q \o T)[i] = T[i - Len(Q)]
  BY <1>2, <1>4, Joined
<1>6. DOMAIN (Q \o T) = 1..(Len(Q) + Len(T))
  BY <1>5, LenProperties
<1> QED BY <1>3, <1>4, <1>5, <1>6

LEMMA InvTxfeHeld == UsbInv => TxfeHeld
<1> SUFFICES ASSUME UsbInv
             PROVE  TxfeHeld
  OBVIOUS
<1>1. PICK Q, T : /\ Q \in Seq(MildOps) /\ todo = Q \o T
                  /\ Ahead(T, otg, torn, ready, replies)
  BY DEF UsbInv, Sound, Handling
<1>2. PICK A : T \in Seq(A)
  BY <1>1, AheadSeq
<1>3. CASE \E X : Held(otg, {}, X)
  BY <1>3 DEF Held, TxfeHeld
<1>4. CASE T # <<>> /\ Head(T).reg = "TXFIFO"
  <2>1. \E i \in DOMAIN (Q \o T) : (Q \o T)[i] = Head(T)
    BY <1>1, <1>2, <1>4, Within
  <2>2. \E i \in DOMAIN todo : todo[i].reg = "TXFIFO"
    BY <1>1, <1>4, <2>1
  <2> QED BY <2>2 DEF TxfeHeld
<1> QED BY <1>1, <1>3, <1>4, AheadHeld

\* An armed transfer whose FIFO-empty interrupt is unmasked is told to fill its FIFO, or is
\* filling it, in every interleaving of the driver's register accesses with the polls and with
\* hosts that come and go (writes of DIEPCTL, DIEPEMPMSK and DIEPINT, virtual_host_reset).
THEOREM TxfeIsHeld == UsbSpec => []TxfeHeld
<1> QED BY UsbSound, InvTxfeHeld, PTL

LEMMA InvTransfer == UsbInv /\ [UsbNext]_usbVars => [TransferStep]_usbVars
<1> SUFFICES ASSUME UsbInv, UsbNext
             PROVE  TransferStep
  OBVIOUS
<1>1. Typed(otg)
  BY DEF UsbInv, Sound
<1>2. ASSUME Delivered(otg, otg', torn, replies) PROVE TransferStep
  <2>1. otg'.outbox = otg.outbox => ~(Len(otg'.outbox) > Len(otg.outbox))
    <3>1. Len(otg.outbox) \in Nat
      BY <1>1, LenProperties DEF Typed
    <3> QED BY <3>1
  <2> QED BY <1>2, <2>1, Zenon DEF Delivered, TransferStep
<1>3. ASSUME otg'.outbox = otg.outbox \/ otg'.outbox = <<>> PROVE TransferStep
  <2>1. Len(otg.outbox) \in Nat /\ Len(<<>>) = 0
    BY <1>1, LenProperties DEF Typed
  <2>2. ~(Len(otg'.outbox) > Len(otg.outbox))
    BY <1>3, <2>1
  <2> QED BY <2>2 DEF TransferStep
<1>4. ASSUME Serve PROVE otg' = otg
  BY <1>4 DEF Serve, ServeReset, ServeFrame, ServeReceive, ServeIn, ServeOut
<1> QED BY <1>2, <1>3, <1>4, StepSound, PollSound, HostSound, RespondSound DEF UsbNext, Firmware

\* What reaches the host is whole replies: every bulk transfer is completed with the bytes of the
\* reply under way, no others and without the padding of its last word, unless its session began
\* inside a handler (push_tx_fifo_word, complete_in_transfer).
THEOREM TransfersWhole == UsbSpec => Transferred
<1> QED BY UsbSound, InvTransfer, PTL DEF UsbSpec, Transferred

=============================================================================
