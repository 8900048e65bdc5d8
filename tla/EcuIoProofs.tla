---------------------------- MODULE EcuIoProofs -----------------------------
(***************************************************************************)
(* Proofs about the ECU I/O bridge, its link and the trigger wheel, for    *)
(* every wheel, every set of outputs, every capacity and every speed that  *)
(* is asked for.                                                           *)
(***************************************************************************)
EXTENDS EcuIo, WellFoundedInduction, TLAPS

\* A set of natural numbers has a least element.
LEMMA LeastNumber ==
  ASSUME NEW T \in SUBSET Nat, T # {}
  PROVE  \E x \in T : \A y \in T : x <= y
<1> DEFINE R == OpToRel(<,Nat)
<1>1. IsWellFoundedOn(R, Nat)
  BY NatLessThanWellFounded
<1>2. \A x, y \in Nat : x < y => <<x, y>> \in R
  BY DEF OpToRel
<1> HIDE DEF R
<1>3. PICK x \in T : \A y \in T : ~(<<y, x>> \in R)
  BY <1>1, WFMin
<1>4. \A y \in T : ~(y < x)
  BY <1>2, <1>3, Zenon
<1> QED BY <1>4

\* The largest index of a set of them is one of them (the position a scan for the last
\* match ends at).
LEMMA MaxIn ==
  ASSUME NEW S, NEW n \in Nat, S \subseteq 1..n, S # {}
  PROVE  Max(S) \in S /\ \A i \in S : i <= Max(S)
<1> DEFINE T == {n - i : i \in S}
<1>1. T \in SUBSET Nat /\ T # {}
  <2>1. \A i \in S : n - i \in Nat
    OBVIOUS
  <2> QED BY <2>1
<1>2. PICK m \in T : \A k \in T : m <= k
  BY <1>1, LeastNumber
<1>3. PICK top \in S : m = n - top
  BY <1>2
<1>4. \A i \in S : top >= i
  <2> SUFFICES ASSUME NEW i \in S PROVE top >= i
    OBVIOUS
  <2>1. n - i \in T
    OBVIOUS
  <2>2. m <= n - i
    BY <1>2, <2>1
  <2> QED BY <1>3, <2>2
<1>5. \E x \in S : \A y \in S : x >= y
  BY <1>4
<1>6. Max(S) \in S /\ \A y \in S : Max(S) >= y
  BY <1>5, Zenon DEF Max
<1> QED BY <1>6

-----------------------------------------------------------------------------
(* The operators of the model.                                              *)

\* A queue that is cut to its newest entries keeps its type and its bound.
LEMMA NewestTyped ==
  ASSUME NEW S, NEW queue \in Seq(S), NEW n \in Nat
  PROVE  Newest(queue, n) \in Seq(S) /\ Len(Newest(queue, n)) <= n
<1> DEFINE k == Least(n, Len(queue))
<1>1. k \in Nat /\ k <= n /\ k <= Len(queue) /\ Len(queue) \in Nat
  BY DEF Least
<1> HIDE DEF k
<1>2. Newest(queue, n) = SubSeq(queue, Len(queue) - k + 1, Len(queue))
  BY DEF Newest, k
<1>3. Len(queue) - k + 1 \in 1..(Len(queue) + 1)
  BY <1>1
<1> QED BY <1>1, <1>2, <1>3

\* The lines found in a buffer end inside it.
LEMMA EndsInside ==
  ASSUME NEW S, NEW buffer \in Seq(S)
  PROVE  WholeLines(buffer) \subseteq 1..Len(buffer) /\ LastEnd(buffer) \in 0..Len(buffer)
<1>1. Len(buffer) \in Nat
  OBVIOUS
<1>2. WholeLines(buffer) \subseteq 1..Len(buffer)
  BY <1>1 DEF WholeLines
<1> DEFINE ends == {i \in DOMAIN buffer : buffer[i].part = 2}
<1>3. ends \subseteq 1..Len(buffer)
  OBVIOUS
<1>4. LastEnd(buffer) = IF ends = {} THEN 0 ELSE Max(ends)
  BY DEF LastEnd
<1> HIDE DEF ends
<1>5. ends # {} => Max(ends) \in ends
  BY <1>1, <1>3, MaxIn
<1>6. LastEnd(buffer) = 0 \/ LastEnd(buffer) \in ends
  BY <1>4, <1>5, Zenon
<1>7. LastEnd(buffer) = 0 \/ LastEnd(buffer) \in 1..Len(buffer)
  BY <1>3, <1>6, Zenon
<1>8. LastEnd(buffer) \in 0..Len(buffer)
  <2> DEFINE e == LastEnd(buffer)
  <2> HIDE DEF e
  <2>1. e = 0 \/ e \in 1..Len(buffer)
    BY <1>7 DEF e
  <2>2. e \in 0..Len(buffer)
    BY <1>1, <2>1
  <2> QED BY <2>2 DEF e
<1> QED BY <1>2, <1>8

\* What is left of a buffer behind its last line.
LEMMA RestTyped ==
  ASSUME NEW S, NEW buffer \in Seq(S), NEW k \in 0..Len(buffer)
  PROVE  /\ SubSeq(buffer, k + 1, Len(buffer)) \in Seq(S)
         /\ Len(SubSeq(buffer, k + 1, Len(buffer))) <= Len(buffer)
<1>1. Len(buffer) \in Nat /\ k + 1 \in 1..(Len(buffer) + 1)
  OBVIOUS
<1> QED BY <1>1

\* What is taken from the front of a queue.
LEMMA FrontTyped ==
  ASSUME NEW S, NEW queue \in Seq(S), NEW k \in 0..Len(queue)
  PROVE  SubSeq(queue, 1, k) \in Seq(S)
<1>1. Len(queue) \in Nat
  OBVIOUS
<1> QED BY <1>1

\* The input pins and their lines.
LEMMA LinesTyped ==
  /\ Lines \subseteq 0..15 /\ Inputs = {"din", "wheel"}
  /\ Line["din"] \in Lines /\ Line["wheel"] \in Lines
  /\ \A n \in Inputs : Line[n] \in Lines
  /\ {"din", "wheel", "rpm"} \subseteq Names
BY EcuAssumption DEF Lines, Inputs, Names

\* The values after assignments: those of the assignments, and the old ones, so that a
\* name that is not assigned keeps its value.
LEMMA SetValuesTyped ==
  ASSUME NEW v \in [Names -> Int], NEW list, Len(list) \in Nat,
         NEW at, at \subseteq 1..Len(list),
         \A i \in at : list[i].name \in {"din", "rpm"} /\ list[i].value \in Int
  PROVE  /\ SetValues(v, list, at) \in [Names -> Int]
         /\ SetValues(v, list, at)["wheel"] = v["wheel"]
<1> DEFINE last(n) == {i \in at : list[i].name = n}
<1>1. \A n \in Names : SetValues(v, list, at)[n]
                         = IF last(n) = {} THEN v[n] ELSE list[Max(last(n))].value
  BY DEF SetValues
<1>2. \A n \in Names : last(n) # {} => list[Max(last(n))].value \in Int
  <2> SUFFICES ASSUME NEW n \in Names, last(n) # {}
               PROVE  list[Max(last(n))].value \in Int
    OBVIOUS
  <2>1. last(n) \subseteq at /\ last(n) \subseteq 1..Len(list)
    OBVIOUS
  <2>2. Max(last(n)) \in last(n)
    <3> HIDE DEF last
    <3> QED BY <2>1, MaxIn
  <2>3. Max(last(n)) \in at
    BY <2>1, <2>2, Zenon
  <2> QED BY <2>3, Zenon
<1>3. SetValues(v, list, at) = [n \in Names |-> SetValues(v, list, at)[n]]
  BY DEF SetValues
<1>4. \A n \in Names : SetValues(v, list, at)[n] \in Int
  <2> SUFFICES ASSUME NEW n \in Names PROVE SetValues(v, list, at)[n] \in Int
    OBVIOUS
  <2>1. v[n] \in Int
    OBVIOUS
  <2> QED BY <1>1, <1>2, <2>1, Zenon
<1>5. \A n \in Names \ {"din", "rpm"} : last(n) = {}
  <2> SUFFICES ASSUME NEW n \in Names, n \notin {"din", "rpm"}, NEW i \in at,
                      list[i].name = n
               PROVE  FALSE
    OBVIOUS
  <2>1. list[i].name \in {"din", "rpm"}
    OBVIOUS
  <2> QED BY <2>1
<1>6. SetValues(v, list, at) \in [Names -> Int]
  BY <1>3, <1>4, Zenon
<1>7. "wheel" \in Names \ {"din", "rpm"}
  BY LinesTyped
<1> QED BY <1>1, <1>5, <1>6, <1>7, Zenon

\* No assignment is of an output.
LEMMA OutputsUnset ==
  ASSUME NEW v, NEW list, NEW at, NEW o \in Outputs,
         \A i \in at : list[i].name \in {"din", "rpm"}
  PROVE  SetValues(v, list, at)[o] = v[o]
<1>1. o \in Names /\ o \notin {"din", "rpm"}
  BY EcuAssumption DEF Names
<1>2. {i \in at : list[i].name = o} = {}
  BY <1>1
<1> QED BY <1>1, <1>2, Zenon DEF SetValues

\* What the host or a client knows of the outputs after entries of a queue.
LEMMA LevelsTyped ==
  ASSUME NEW old \in OutputLevels, NEW S, NEW list \in Seq(S),
         \A a \in S : a.value \in {0, 1},
         NEW at, \A o \in Outputs : at[o] \subseteq 1..Len(list)
  PROVE  [o \in Outputs |-> IF at[o] = {} THEN old[o] ELSE list[Max(at[o])].value]
           \in OutputLevels
<1>1. Len(list) \in Nat
  OBVIOUS
<1>2. \A o \in Outputs : at[o] # {} => list[Max(at[o])].value \in {Unknown, 0, 1}
  <2> SUFFICES ASSUME NEW o \in Outputs, at[o] # {}
               PROVE  list[Max(at[o])].value \in {Unknown, 0, 1}
    OBVIOUS
  <2>1. Max(at[o]) \in at[o]
    BY <1>1, MaxIn
  <2>2. Max(at[o]) \in 1..Len(list)
    BY <2>1, Zenon
  <2>3. \A i \in 1..Len(list) : list[i] \in S
    OBVIOUS
  <2>4. list[Max(at[o])].value \in {0, 1}
    BY <2>2, <2>3, Zenon
  <2> QED BY <2>4, Zenon
<1>3. \A o \in Outputs : old[o] \in {Unknown, 0, 1}
  BY Zenon DEF OutputLevels
<1> QED BY <1>2, <1>3, Zenon DEF OutputLevels

\* So for a client that has read the parts of got.
LEMMA ClientViewTyped ==
  ASSUME view \in OutputLevels, NEW got \in Seq(Outbound)
  PROVE  ClientView(got) \in OutputLevels
<1> DEFINE at == [o \in Outputs |-> {i \in WholeLines(got) : got[i].name = o}]
<1>1. \A o \in Outputs : at[o] = {i \in WholeLines(got) : got[i].name = o}
  OBVIOUS
<1>2. \A o \in Outputs : at[o] \subseteq 1..Len(got)
  BY EndsInside
<1>3. ClientView(got)
        = [o \in Outputs |-> IF at[o] = {} THEN view[o] ELSE got[Max(at[o])].value]
  BY <1>1, Zenon DEF ClientView
<1>4. \A a \in Outbound : a.value \in {0, 1}
  BY DEF Outbound
<1> HIDE DEF at
<1>5. [o \in Outputs |-> IF at[o] = {} THEN view[o] ELSE got[Max(at[o])].value]
        \in OutputLevels
  BY <1>2, <1>4, LevelsTyped
<1> QED BY <1>3, <1>5

\* Every line of EXTI has an interrupt.
LEMMA IrqOfLine ==
  ASSUME NEW l \in 0..15
  PROVE  IrqForLine(l) \in Nat /\ IrqForLine(l) # NoIrq
BY DEF IrqForLine, NoIrq

\* Quotient and remainder of a position by the length of a slot.
LEMMA DivStep ==
  ASSUME NEW w \in Nat \ {0}, NEW q \in Nat, NEW r \in 0..(w - 1)
  PROVE  (w * q + r) \div w = q /\ (w * q + r) % w = r
OBVIOUS

LEMMA DivParts ==
  ASSUME NEW w \in Nat \ {0}, NEW p \in Nat
  PROVE  p = w * (p \div w) + (p % w) /\ p \div w \in Nat /\ (p % w) \in 0..(w - 1)
OBVIOUS

LEMMA TimesMonotone ==
  ASSUME NEW w \in Nat, NEW a \in Nat, NEW b \in Nat, a <= b
  PROVE  w * a <= w * b
<1>1. PICK d \in Nat : b = a + d
  <2>1. b - a \in Nat /\ b = a + (b - a)
    OBVIOUS
  <2> QED BY <2>1
<1>2. w * b = w * a + w * d /\ w * d \in Nat /\ w * a \in Nat
  BY <1>1
<1> QED BY <1>2

\* A turn of less than half a slot stays in its slot, or enters the next one at its
\* start, or the first one after the last (level_at, TriggerWheel::advance).
LEMMA WheelTurns ==
  ASSUME NEW p \in 0..(Revolution - 1), NEW m \in 0..(Half - 1)
  PROVE  LET w == 2 * Half
             t == p + m
             n == t % Revolution
         IN  /\ n \in 0..(Revolution - 1)
             /\ \/ /\ t < Revolution /\ n = t
                   /\ t \div w = p \div w
                   /\ (LevelAt(t) => LevelAt(p))
                \/ /\ t < Revolution /\ n = t
                   /\ t \div w = p \div w + 1
                   /\ ~LevelAt(p) /\ (LevelAt(t) <=> p \div w + 1 < Teeth - Missing)
                \/ /\ t >= Revolution
                   /\ n \div w = 0 /\ p \div w = Teeth - 1
                   /\ ~LevelAt(p) /\ (LevelAt(n) <=> 0 < Teeth - Missing)
<1> DEFINE w == 2 * Half
           t == p + m
           n == t % Revolution
           q == p \div w
           r == p % w
<1>1. w \in Nat \ {0} /\ Half \in Nat \ {0} /\ w = Half + Half /\ Teeth \in Nat \ {0}
      /\ Missing \in 0..Teeth
  BY EcuAssumption
<1>2. Revolution = w * Teeth /\ Revolution \in Nat \ {0}
  BY <1>1 DEF Revolution
<1>3. p \in Nat /\ m \in Nat /\ p < Revolution /\ m < Half
  BY <1>1, <1>2
<1> HIDE DEF w
<1>4. p = w * q + r /\ q \in Nat /\ r \in 0..(w - 1)
  BY <1>1, <1>3, DivParts
<1> HIDE DEF q, r
<1>5. q < Teeth
  <2> SUFFICES ASSUME Teeth <= q PROVE FALSE
    BY <1>1, <1>4
  <2>1. w * Teeth <= w * q
    BY <1>1, <1>4, TimesMonotone
  <2> DEFINE a == w * Teeth
             b == w * q
  <2>2. a \in Nat /\ b \in Nat /\ a <= b /\ p = b + r /\ p < a
    BY <1>1, <1>2, <1>3, <1>4, <2>1
  <2> HIDE DEF a, b
  <2> QED BY <1>4, <2>2
<1>6. LevelAt(p) <=> q < Teeth - Missing /\ r < Half
  BY DEF LevelAt, q, r, w
<1>7. CASE r + m < w
  <2>1. t = w * q + (r + m) /\ r + m \in 0..(w - 1)
    BY <1>1, <1>3, <1>4, <1>7
  <2>2. t \div w = q /\ t % w = r + m
    <3> DEFINE k == r + m
    <3>1. k \in 0..(w - 1) /\ t = w * q + k
      BY <2>1
    <3> HIDE DEF k
    <3>2. (w * q + k) \div w = q /\ (w * q + k) % w = k
      BY <1>1, <1>4, <3>1, DivStep
    <3> HIDE DEF t
    <3> QED BY <3>1, <3>2, Zenon DEF k
  <2>3. LevelAt(t) <=> q < Teeth - Missing /\ r + m < Half
    BY <2>2, Zenon DEF LevelAt, w
  <2>4. LevelAt(t) => LevelAt(p)
    BY <1>1, <1>3, <1>4, <1>6, <2>3
  <2>5. t < Revolution
    <3>1. w * (q + 1) <= w * Teeth /\ w * (q + 1) = w * q + w
      BY <1>1, <1>4, <1>5, TimesMonotone
    <3> QED BY <1>1, <1>2, <1>4, <2>1, <3>1
  <2>6. n = t /\ t \in 0..(Revolution - 1)
    <3>1. t \in Nat /\ Revolution * 0 + t = t
      BY <1>2, <1>3
    <3>2. t \in 0..(Revolution - 1)
      BY <1>2, <2>5, <3>1
    <3> HIDE DEF t
    <3>3. (Revolution * 0 + t) % Revolution = t
      BY <1>2, <3>2, DivStep
    <3> QED BY <3>1, <3>2, <3>3
  <2> HIDE DEF n, t
  <2>7. /\ n \in 0..(Revolution - 1)
        /\ t < Revolution /\ n = t
        /\ t \div w = q
        /\ (LevelAt(t) => LevelAt(p))
    BY <2>2, <2>4, <2>5, <2>6, Zenon
  <2> QED BY <2>7, Zenon DEF n, t, q, w
<1>8. CASE r + m >= w /\ q + 1 < Teeth
  <2>1. t = w * (q + 1) + (r + m - w) /\ r + m - w \in 0..(w - 1) /\ r + m - w < Half
        /\ q + 1 \in Nat
    BY <1>1, <1>3, <1>4, <1>8
  <2>2. t \div w = q + 1 /\ t % w = r + m - w
    BY <1>1, <2>1, DivStep
  <2>3. LevelAt(t) <=> q + 1 < Teeth - Missing
    BY <2>1, <2>2, Zenon DEF LevelAt, w
  <2>4. ~LevelAt(p)
    BY <1>1, <1>3, <1>4, <1>6, <1>8
  <2>5. t < Revolution
    <3>1. w * (q + 2) <= w * Teeth /\ w * (q + 2) = w * (q + 1) + w
      BY <1>1, <1>4, <1>8, TimesMonotone
    <3> QED BY <1>1, <1>2, <1>4, <2>1, <3>1
  <2>6. n = t /\ t \in 0..(Revolution - 1)
    <3>1. t \in Nat /\ Revolution * 0 + t = t
      BY <1>2, <1>3
    <3>2. t \in 0..(Revolution - 1)
      BY <1>2, <2>5, <3>1
    <3> HIDE DEF t
    <3>3. (Revolution * 0 + t) % Revolution = t
      BY <1>2, <3>2, DivStep
    <3> QED BY <3>1, <3>2, <3>3
  <2> HIDE DEF n, t
  <2>7. /\ n \in 0..(Revolution - 1)
        /\ t < Revolution /\ n = t
        /\ t \div w = q + 1
        /\ ~LevelAt(p) /\ (LevelAt(t) <=> q + 1 < Teeth - Missing)
    BY <2>2, <2>3, <2>4, <2>5, <2>6, Zenon
  <2> QED BY <2>7, Zenon DEF n, t, q, w
<1>9. CASE r + m >= w /\ q + 1 = Teeth
  <2> DEFINE k == r + m - w
  <2>1. k \in Nat /\ k < Half /\ k < w
    BY <1>1, <1>3, <1>4, <1>9
  <2>2. t = Revolution + k
    <3>1. w * (q + 1) = w * q + w
      BY <1>1, <1>4
    <3> QED BY <1>1, <1>2, <1>3, <1>4, <1>9, <3>1
  <2>3. k < Revolution
    <3>1. w * 1 <= w * Teeth
      BY <1>1, TimesMonotone
    <3> QED BY <1>1, <1>2, <2>1, <3>1
  <2> HIDE DEF k
  <2>4. n = k
    <3>1. (Revolution * 1 + k) % Revolution = k
      BY <1>2, <2>1, <2>3, DivStep
    <3>2. Revolution * 1 + k = Revolution + k
      BY <1>2, <2>1
    <3> QED BY <2>2, <3>1, <3>2
  <2>5. k \div w = 0 /\ k % w = k
    <3>1. w * 0 + k = k /\ k \in 0..(w - 1)
      BY <1>1, <2>1
    <3> QED BY <1>1, <3>1, DivStep
  <2>6. LevelAt(k) <=> 0 < Teeth - Missing
    BY <2>1, <2>5, Zenon DEF LevelAt, w
  <2>7. ~LevelAt(p)
    BY <1>1, <1>3, <1>4, <1>6, <1>9
  <2>8. n \in 0..(Revolution - 1) /\ t >= Revolution /\ q = Teeth - 1
    BY <1>1, <1>2, <1>4, <1>9, <2>1, <2>2, <2>3, <2>4
  <2> HIDE DEF n, t
  <2>9. /\ n \in 0..(Revolution - 1) /\ t >= Revolution
        /\ n \div w = 0 /\ q = Teeth - 1
        /\ ~LevelAt(p) /\ (LevelAt(n) <=> 0 < Teeth - Missing)
    BY <2>4, <2>5, <2>6, <2>7, <2>8, Zenon
  <2> QED BY <2>9, Zenon DEF n, t, q, w
<1> QED BY <1>1, <1>3, <1>4, <1>5, <1>7, <1>8, <1>9

\* Between two polls the wheel turns less than half a slot, whatever speed is asked for.
LEMMA MoveBounded ==
  ASSUME NEW rpm \in Int, NEW delta \in 1..MaxDelta
  PROVE  WheelMove(rpm, delta) \in 0..(Half - 1)
<1>1. /\ Half \in Nat \ {0} /\ MaxRpm \in Nat \ {0} /\ MaxDelta \in Nat \ {0}
      /\ MaxRpm * MaxDelta < Half
  BY EcuAssumption
<1>2. CASE rpm <= 0
  BY <1>1, <1>2 DEF WheelMove
<1>3. CASE rpm > 0
  <2> DEFINE speed == Least(rpm, MaxRpm)
  <2>1. speed \in Nat /\ speed <= MaxRpm
    BY <1>1, <1>3 DEF Least
  <2>2. WheelMove(rpm, delta) = speed * delta
    BY <1>3 DEF WheelMove
  <2> HIDE DEF speed
  <2>3. delta \in Nat /\ delta <= MaxDelta
    BY <1>1
  <2>4. speed * delta <= speed * MaxDelta
    BY <1>1, <2>1, <2>3, TimesMonotone
  <2>5. MaxDelta * speed <= MaxDelta * MaxRpm
    BY <1>1, <2>1, TimesMonotone
  <2>6. speed * MaxDelta = MaxDelta * speed /\ MaxRpm * MaxDelta = MaxDelta * MaxRpm
    BY <1>1, <2>1
  <2> DEFINE a == speed * delta
             b == speed * MaxDelta
             c == MaxRpm * MaxDelta
  <2>7. a \in Nat /\ b \in Nat /\ c \in Nat /\ a <= b /\ b <= c /\ c < Half
    BY <1>1, <2>1, <2>3, <2>4, <2>5, <2>6
  <2> HIDE DEF a, b, c
  <2>8. a \in 0..(Half - 1)
    BY <1>1, <2>7
  <2> QED BY <2>2, <2>8 DEF a
<1> QED BY <1>2, <1>3

\* What check_digital_edges does: it only sets bits of PR, pends the interrupt of each, and
\* sets the bit of an input whose level changed if its line is configured for that edge.
LEMMA EdgesRaised ==
  ASSUME exti \in Registers, irqs \subseteq {IrqForLine(l) : l \in Lines},
         NEW v, CheckDigitalEdges(v)
  PROVE  /\ exti' \in Registers
         /\ exti'.imr = exti.imr /\ exti'.rtsr = exti.rtsr /\ exti'.ftsr = exti.ftsr
         /\ exti'.exticr = exti.exticr /\ exti.pr \subseteq exti'.pr
         /\ irqs' \subseteq {IrqForLine(l) : l \in Lines} /\ irqs \subseteq irqs'
         /\ \A l \in exti'.pr \ exti.pr : IrqForLine(l) \in irqs'
         /\ levels' = [n \in Inputs |-> v[n] # 0]
         /\ \A n \in Inputs : /\ (v[n] # 0) # levels[n]
                              /\ Configured(exti, Port[n], Line[n], v[n] # 0)
                              => Line[n] \in exti'.pr
<1> DEFINE level == [n \in Inputs |-> v[n] # 0]
           edges == {n \in Inputs : level[n] # levels[n]}
           after(n) == RaiseLine(exti, Port[n], Line[n], level[n])
           conf(n) == Configured(exti, Port[n], Line[n], level[n])
           raised == UNION {after(n).x.pr : n \in edges}
           pended == {after(n).irq : n \in edges} \ {NoIrq}
<1>1. /\ exti' = [exti EXCEPT !.pr = @ \cup raised]
      /\ irqs' = irqs \cup pended
      /\ levels' = level
  BY DEF CheckDigitalEdges
<1>2. \A n \in Inputs : level[n] = (v[n] # 0)
  OBVIOUS
<1>3. \A n \in Inputs : conf(n) => /\ after(n).x.pr = exti.pr \cup {Line[n]}
                                   /\ after(n).irq = IrqForLine(Line[n])
  <2> SUFFICES ASSUME NEW n \in Inputs, conf(n)
               PROVE  after(n).x.pr = exti.pr \cup {Line[n]} /\ after(n).irq = IrqForLine(Line[n])
    OBVIOUS
  <2> DEFINE x == [exti EXCEPT !.pr = @ \cup {Line[n]}]
  <2>1. x.pr = exti.pr \cup {Line[n]}
    BY DEF Registers
  <2> HIDE DEF x
  <2>2. after(n) = [x |-> x, irq |-> IrqForLine(Line[n])]
    BY DEF RaiseLine, x
  <2> QED BY <2>1, <2>2
<1>4. \A n \in Inputs : ~conf(n) => after(n).x.pr = exti.pr /\ after(n).irq = NoIrq
  BY DEF RaiseLine
<1>5. \A n \in Inputs : Line[n] \in Lines /\ IrqForLine(Line[n]) # NoIrq
  BY LinesTyped, IrqOfLine
<1> HIDE DEF conf, after
<1>6. raised \subseteq Lines
  <2>1. exti.pr \subseteq Lines
    BY DEF Registers
  <2>2. \A n \in edges : after(n).x.pr \subseteq Lines
    BY <1>3, <1>4, <1>5, <2>1, Zenon
  <2> QED BY <2>2, Zenon
<1>7. pended \subseteq {IrqForLine(l) : l \in Lines}
  <2> SUFFICES ASSUME NEW i \in pended
               PROVE  \E l \in Lines : i = IrqForLine(l)
    BY Zenon
  <2>1. PICK n \in edges : i = after(n).irq /\ i # NoIrq
    BY Zenon
  <2>2. conf(n)
    BY <1>4, <2>1, Zenon
  <2> QED BY <1>3, <1>5, <2>1, <2>2, Zenon
<1>8. \A l \in raised \ exti.pr : IrqForLine(l) \in pended
  <2> SUFFICES ASSUME NEW l \in raised, l \notin exti.pr
               PROVE  IrqForLine(l) \in pended
    OBVIOUS
  <2>1. PICK n \in edges : l \in after(n).x.pr
    BY Zenon
  <2>2. conf(n)
    BY <1>4, <2>1, Zenon
  <2>3. l = Line[n]
    BY <1>3, <2>1, <2>2, Zenon
  <2> QED BY <1>3, <1>5, <2>1, <2>2, <2>3, Zenon
<1>9. \A n \in edges : conf(n) => Line[n] \in raised
  BY <1>3, ZenonT(40)
<1> HIDE DEF raised, pended
<1>11. /\ exti' \in Registers
       /\ exti'.imr = exti.imr /\ exti'.rtsr = exti.rtsr /\ exti'.ftsr = exti.ftsr
       /\ exti'.exticr = exti.exticr /\ exti'.pr = exti.pr \cup raised
  <2> HIDE DEF level, edges
  <2> QED BY <1>1, <1>6 DEF Registers
<1>12. \A n \in Inputs : /\ (v[n] # 0) # levels[n]
                         /\ Configured(exti, Port[n], Line[n], v[n] # 0)
                         => Line[n] \in raised
  <2> SUFFICES ASSUME NEW n \in Inputs, (v[n] # 0) # levels[n],
                      Configured(exti, Port[n], Line[n], v[n] # 0)
               PROVE  Line[n] \in raised
    OBVIOUS
  <2>1. n \in edges
    OBVIOUS
  <2>2. conf(n)
    BY <1>2, Zenon DEF conf
  <2> QED BY <1>9, <2>1, <2>2, Zenon
<1> QED BY <1>1, <1>7, <1>8, <1>11, <1>12, Zenon

-----------------------------------------------------------------------------
(* The inductive invariant.                                                 *)

\* The levels the edge check remembers are those the values say.
LevelInv == \A n \in Inputs : levels[n] = (values[n] # 0)

\* Once it has set them up, din is routed, enabled on both edges, and unmasked.
Routed(x) ==
  /\ Line["din"] \in x.rtsr /\ Line["din"] \in x.ftsr
  /\ x.exticr[Line["din"]] = Port["din"]
RoutedInv ==
  /\ firmware # "reset" => Routed(exti)
  /\ firmware \in {"reading", "idle", "acking"} => Line["din"] \in exti.imr

\* Unless its bit of PR says that din changed, the firmware has read its level.
FreshInv ==
  firmware \in {"idle", "acking"} =>
    Line["din"] \in exti.pr \/ seen = (values["din"] # 0)

\* Where the wheel stands, its level, and the edges it has made in this revolution: none
\* before it has moved, then one for each slot with a tooth it has entered.
WheelInv ==
  \/ position = 0 /\ rises = 0 /\ ~levels["wheel"]
  \/ /\ levels["wheel"] = LevelAt(position)
     /\ rises = Least(position \div (2 * Half) + 1, Teeth - Missing)

SignalInv == LevelInv /\ RoutedInv /\ FreshInv /\ EdgeOnItsWay /\ WheelInv

\* The wheel of one poll, as numbers.
LEMMA WheelAdvances ==
  ASSUME position \in 0..(Revolution - 1), rises \in Nat, WheelInv,
         NEW m \in 0..(Half - 1), NEW up \in BOOLEAN, NEW up0 \in BOOLEAN,
         levels["wheel"] = up0,
         position' = (position + m) % Revolution,
         levels'["wheel"] = up,
         rises' = (IF position + m >= Revolution THEN 0 ELSE rises)
                    + (IF up /\ ~up0 THEN 1 ELSE 0),
         (m = 0 /\ up = up0) \/ up = LevelAt((position + m) % Revolution)
  PROVE  /\ position' \in 0..(Revolution - 1) /\ rises' \in Nat
         /\ WheelInv'
         /\ position' < position => rises = Teeth - Missing
<1> DEFINE w == 2 * Half
           p == position
           t == position + m
           n == (position + m) % Revolution
           q == position \div w
           N == Teeth - Missing
<1>1. /\ Half \in Nat \ {0} /\ w \in Nat \ {0} /\ Half < w /\ N \in Nat /\ N <= Teeth
      /\ Teeth \in Nat \ {0} /\ Revolution \in Nat \ {0} /\ Half <= Revolution
  <2>1. Half \in Nat \ {0} /\ Teeth \in Nat \ {0} /\ Missing \in 0..Teeth
    BY EcuAssumption
  <2>2. Revolution = w * Teeth /\ w \in Nat \ {0} /\ Half < w
    BY <2>1 DEF Revolution
  <2>3. w * 1 <= w * Teeth
    BY <2>1, <2>2, TimesMonotone
  <2> QED BY <2>1, <2>2, <2>3
<1>2. p \in Nat /\ p < Revolution /\ m \in Nat /\ m < Half /\ t \in Nat
  BY <1>1
<1>3. /\ n \in 0..(Revolution - 1)
      /\ \/ /\ t < Revolution /\ n = t
            /\ t \div w = q
            /\ (LevelAt(t) => LevelAt(p))
         \/ /\ t < Revolution /\ n = t
            /\ t \div w = q + 1
            /\ ~LevelAt(p) /\ (LevelAt(t) <=> q + 1 < N)
         \/ /\ t >= Revolution
            /\ n \div w = 0 /\ q = Teeth - 1
            /\ ~LevelAt(p) /\ (LevelAt(n) <=> 0 < N)
  BY WheelTurns, Zenon
<1>4. q \in Nat
  BY <1>1, <1>2, DivParts
<1>5. /\ (up /\ ~up0) => rises' = (IF t >= Revolution THEN 0 ELSE rises) + 1
      /\ ~(up /\ ~up0) => rises' = (IF t >= Revolution THEN 0 ELSE rises) + 0
  BY Zenon
<1>6. position' = n
  OBVIOUS
<1>7. m = 0 => n = p
  <2>1. p \in 0..(Revolution - 1) /\ Revolution * 0 + p = p
    BY <1>1, <1>2
  <2>2. (Revolution * 0 + p) % Revolution = p
    BY <1>1, <2>1, DivStep
  <2>3. m = 0 => t = p
    BY <1>2
  <2> QED BY <2>1, <2>2, <2>3
<1> HIDE DEF w, p, t, n, q, N
<1>8. CASE position = 0 /\ rises = 0 /\ ~up0
  <2>1. t = m /\ w * 0 + m = m /\ m \in 0..(w - 1)
    BY <1>1, <1>2, <1>8 DEF t
  <2>2. m \div w = 0 /\ m % w = m
    BY <1>1, <2>1, DivStep
  <2>3. t < Revolution /\ ~(t >= Revolution)
    BY <1>1, <1>2, <2>1
  <2>4. n = m
    <3>1. Revolution * 0 + m = m /\ m \in 0..(Revolution - 1)
      BY <1>1, <1>2
    <3>2. (Revolution * 0 + m) % Revolution = m
      BY <1>1, <3>1, DivStep
    <3> QED BY <2>1, <3>1, <3>2, Zenon DEF n, t
  <2>5. ~(position' < position)
    BY <1>2, <1>6, <1>8, <2>4
  <2>6. CASE m = 0 /\ up = up0
    <3>1. position' = 0 /\ ~levels'["wheel"]
      BY <1>6, <1>8, <2>4, <2>6
    <3>2. rises' = 0
      <4>1. ~up
        BY <1>8, <2>6
      <4> QED BY <1>5, <1>8, <2>3, <4>1
    <3>3. WheelInv'
      BY <3>1, <3>2, Zenon DEF WheelInv
    <3> QED BY <1>3, <1>6, <2>5, <3>2, <3>3
  <2>7. CASE up = LevelAt(n)
    <3>1. LevelAt(n) <=> 0 < N
      <4>1. LevelAt(m) <=> 0 < N /\ m < Half
        BY <2>2, Zenon DEF LevelAt, w, N
      <4> QED BY <1>2, <2>4, <4>1
    <3>2. up <=> 0 < N
      BY <2>7, <3>1, Zenon
    <3>3. rises' = Least(1, N)
      <4>1. CASE up
        <5>1. rises' = 0 + 1
          BY <1>5, <1>8, <2>3, <4>1, Zenon
        <5>2. 0 < N
          BY <3>2, <4>1, Zenon
        <5> QED BY <1>1, <5>1, <5>2 DEF Least
      <4>2. CASE ~up
        <5>1. rises' = 0 + 0
          BY <1>5, <1>8, <2>3, <4>2, Zenon
        <5>2. ~(0 < N)
          BY <3>2, <4>2, Zenon
        <5> QED BY <1>1, <5>1, <5>2 DEF Least
      <4> QED BY <4>1, <4>2, Zenon
    <3>4. position' \div w + 1 = 1
      BY <1>6, <2>2, <2>4
    <3>5. WheelInv'
      <4>1. levels'["wheel"] = LevelAt(position')
        BY <1>6, <2>7, Zenon
      <4>2. rises' = Least(position' \div w + 1, N)
        BY <3>3, <3>4, Zenon
      <4> QED BY <4>1, <4>2, Zenon DEF WheelInv, w, N
    <3>6. rises' \in Nat
      BY <1>1, <3>3 DEF Least
    <3> QED BY <1>3, <1>6, <2>5, <3>5, <3>6
  <2> QED BY <2>6, <2>7, Zenon DEF n
<1>9. CASE up0 = LevelAt(p) /\ rises = Least(q + 1, N)
  <2>1. up = LevelAt(n)
    BY <1>7, <1>9, Zenon DEF n
  <2>2. SUFFICES /\ rises' = Least(n \div w + 1, N)
                 /\ n < p => rises = N
                 /\ n \div w \in Nat
    <3>1. levels'["wheel"] = LevelAt(position')
      BY <1>6, <2>1, Zenon
    <3>2. WheelInv'
      BY <1>6, <2>2, <3>1, Zenon DEF WheelInv, w, N
    <3> DEFINE k == n \div w
    <3>3. k \in Nat /\ rises' = Least(k + 1, N)
      BY <2>2
    <3> HIDE DEF k
    <3>4. rises' \in Nat
      BY <1>1, <3>3 DEF Least
    <3>5. position' < position => rises = Teeth - Missing
      BY <1>6, <2>2, Zenon DEF p, N
    <3> QED BY <1>3, <1>6, <3>2, <3>4, <3>5, Zenon
  <2>3. CASE t < Revolution /\ n = t /\ t \div w = q /\ (LevelAt(t) => LevelAt(p))
    <3>1. ~(up /\ ~up0)
      BY <1>9, <2>1, <2>3, Zenon
    <3>2. ~(t >= Revolution) /\ ~(n < p)
      BY <1>1, <1>2, <2>3 DEF t, p
    <3>3. rises' = rises
      BY <1>5, <3>1, <3>2
    <3> QED BY <1>4, <1>9, <2>3, <3>2, <3>3
  <2>4. CASE /\ t < Revolution /\ n = t /\ t \div w = q + 1 /\ ~LevelAt(p)
             /\ (LevelAt(t) <=> q + 1 < N)
    <3>1. (up /\ ~up0) <=> q + 1 < N
      BY <1>9, <2>1, <2>4, Zenon
    <3>2. ~(t >= Revolution) /\ ~(n < p)
      BY <1>1, <1>2, <2>4 DEF t, p
    <3>3. n \div w = q + 1 /\ q + 1 \in Nat
      BY <1>4, <2>4
    <3>4. rises' = Least(q + 2, N)
      <4>1. CASE q + 1 < N
        <5>1. rises' = rises + 1
          BY <1>5, <3>1, <3>2, <4>1, Zenon
        <5> QED BY <1>1, <1>4, <1>9, <4>1, <5>1 DEF Least
      <4>2. CASE ~(q + 1 < N)
        <5>1. rises' = rises + 0
          BY <1>5, <3>1, <3>2, <4>2, Zenon
        <5> QED BY <1>1, <1>4, <1>9, <4>2, <5>1 DEF Least
      <4> QED BY <4>1, <4>2, Zenon
    <3>5. n \div w + 1 = q + 2
      BY <1>4, <3>3
    <3> QED BY <3>2, <3>3, <3>4, <3>5, Zenon
  <2>5. CASE /\ t >= Revolution /\ n \div w = 0 /\ q = Teeth - 1 /\ ~LevelAt(p)
             /\ (LevelAt(n) <=> 0 < N)
    <3>1. (up /\ ~up0) <=> 0 < N
      BY <1>9, <2>1, <2>5, Zenon
    <3>2. rises = N
      BY <1>1, <1>4, <1>9, <2>5 DEF Least
    <3>3. rises' = Least(1, N)
      <4>1. CASE 0 < N
        <5>1. rises' = 0 + 1
          BY <1>5, <2>5, <3>1, <4>1, Zenon
        <5> QED BY <1>1, <4>1, <5>1 DEF Least
      <4>2. CASE ~(0 < N)
        <5>1. rises' = 0 + 0
          BY <1>5, <2>5, <3>1, <4>2, Zenon
        <5> QED BY <1>1, <4>2, <5>1 DEF Least
      <4> QED BY <4>1, <4>2, Zenon
    <3>4. n \div w \in Nat /\ n \div w + 1 = 1
      BY <2>5
    <3> QED BY <3>2, <3>3, <3>4, Zenon
  <2> QED BY <1>3, <2>3, <2>4, <2>5, Zenon
<1> QED BY <1>8, <1>9, Zenon DEF WheelInv, w, p, q, N

\* A poll keeps the invariant and turns the wheel without missing a tooth, whatever inputs
\* it was given but the wheel's own pin (ExtDevices::poll).
LEMMA AdvanceKeeps ==
  ASSUME InputsTyped, SignalInv, NEW v \in [Names -> Int], v["wheel"] = values["wheel"],
         NEW delta \in 1..MaxDelta, Advance(v, delta), UNCHANGED firmwareVars
  PROVE  InputsTyped' /\ SignalInv' /\ (position' < position => rises = Teeth - Missing)
<1> DEFINE m == WheelMove(v["rpm"], delta)
           n == (position + m) % Revolution
           driven == IF v["rpm"] <= 0 THEN v
                     ELSE [v EXCEPT !["wheel"] = IF LevelAt(n) THEN 1 ELSE 0]
           D == Line["din"]
<1>1. /\ position' = n /\ values' = driven /\ CheckDigitalEdges(driven)
      /\ rises' = (IF position + m >= Revolution THEN 0 ELSE rises)
                    + (IF driven["wheel"] # 0 /\ ~levels["wheel"] THEN 1 ELSE 0)
  BY DEF Advance
<1>2. {"din", "wheel", "rpm"} \subseteq Names /\ Inputs = {"din", "wheel"} /\ Inputs \subseteq Names
  BY LinesTyped
<1>3. driven \in [Names -> Int] /\ driven["din"] = v["din"]
  <2> DEFINE u == IF LevelAt(n) THEN 1 ELSE 0
  <2>1. u \in Int
    OBVIOUS
  <2> HIDE DEF u
  <2>2. [v EXCEPT !["wheel"] = u] \in [Names -> Int] /\ [v EXCEPT !["wheel"] = u]["din"] = v["din"]
    BY <1>2, <2>1
  <2> HIDE DEF n
  <2> QED BY <2>2, Zenon DEF u
<1>4. m \in 0..(Half - 1)
  BY <1>2, MoveBounded
<1>5. /\ (v["rpm"] <= 0 => m = 0 /\ driven["wheel"] = values["wheel"])
      /\ (~(v["rpm"] <= 0) => (driven["wheel"] # 0) = LevelAt(n))
  <2>1. v["rpm"] <= 0 => m = 0 /\ driven = v
    BY DEF WheelMove
  <2>2. ASSUME ~(v["rpm"] <= 0) PROVE (driven["wheel"] # 0) = LevelAt(n)
    <3> HIDE DEF n
    <3>1. driven["wheel"] = IF LevelAt(n) THEN 1 ELSE 0
      BY <1>2, <2>2
    <3>2. CASE LevelAt(n)
      <4>1. driven["wheel"] = 1
        BY <3>1, <3>2, Zenon
      <4> HIDE DEF driven
      <4>2. (driven["wheel"] # 0) = TRUE
        BY <4>1
      <4>3. LevelAt(n) = TRUE
        BY <3>2 DEF LevelAt
      <4> QED BY <4>2, <4>3, Zenon
    <3>3. CASE ~LevelAt(n)
      <4>1. driven["wheel"] = 0
        BY <3>1, <3>3, Zenon
      <4> HIDE DEF driven
      <4>2. (driven["wheel"] # 0) = FALSE
        BY <4>1
      <4>3. LevelAt(n) = FALSE
        BY <3>3 DEF LevelAt
      <4> QED BY <4>2, <4>3, Zenon
    <3> QED BY <3>2, <3>3, Zenon
  <2> QED BY <2>1, <2>2, Zenon
<1> HIDE DEF m, driven
<1>6. /\ exti' \in Registers
      /\ exti'.imr = exti.imr /\ exti'.rtsr = exti.rtsr /\ exti'.ftsr = exti.ftsr
      /\ exti'.exticr = exti.exticr /\ exti.pr \subseteq exti'.pr
      /\ irqs' \subseteq {IrqForLine(l) : l \in Lines} /\ irqs \subseteq irqs'
      /\ \A l \in exti'.pr \ exti.pr : IrqForLine(l) \in irqs'
      /\ levels' = [x \in Inputs |-> driven[x] # 0]
      /\ \A x \in Inputs : /\ (driven[x] # 0) # levels[x]
                           /\ Configured(exti, Port[x], Line[x], driven[x] # 0)
                           => Line[x] \in exti'.pr
  <2>1. exti \in Registers /\ irqs \subseteq {IrqForLine(l) : l \in Lines}
    BY DEF InputsTyped
  <2> QED BY <1>1, <2>1, EdgesRaised, Zenon
<1>7. UNCHANGED <<firmware, seen, snapshot>>
  BY DEF firmwareVars
<1>8. levels["wheel"] = (values["wheel"] # 0)
  BY <1>2, Zenon DEF SignalInv, LevelInv
<1>9. /\ position' \in 0..(Revolution - 1) /\ rises' \in Nat /\ WheelInv'
      /\ (position' < position => rises = Teeth - Missing)
  <2> DEFINE up == driven["wheel"] # 0
             up0 == levels["wheel"]
  <2>1. up \in BOOLEAN /\ up0 \in BOOLEAN /\ levels'["wheel"] = up
    BY <1>2, <1>6, <1>8, Zenon
  <2>2. (m = 0 /\ up = up0) \/ up = LevelAt(n)
    BY <1>5, <1>8, Zenon
  <2>3. rises' = (IF position + m >= Revolution THEN 0 ELSE rises)
                   + (IF up /\ ~up0 THEN 1 ELSE 0)
    BY <1>1, Zenon
  <2>4. position \in 0..(Revolution - 1) /\ rises \in Nat /\ WheelInv
    BY DEF InputsTyped, SignalInv
  <2> HIDE DEF up, up0
  <2>5. up0 = levels["wheel"] /\ levels["wheel"] = up0 /\ position' = (position + m) % Revolution
    BY <1>1 DEF up0
  <2>6. (m = 0 /\ up = up0) \/ up = LevelAt((position + m) % Revolution)
    BY <2>2
  <2> HIDE DEF n
  <2> QED BY <1>4, <2>1, <2>3, <2>4, <2>5, <2>6, WheelAdvances, Zenon
<1>10. InputsTyped'
  <2>1. levels' \in [Inputs -> BOOLEAN]
    BY <1>6, Zenon
  <2>2. values' \in [Names -> Int]
    BY <1>1, <1>3
  <2> QED BY <1>6, <1>7, <1>9, <2>1, <2>2, Zenon DEF InputsTyped
<1>11. LevelInv'
  BY <1>1, <1>6, Zenon DEF LevelInv, Inputs
<1>12. RoutedInv'
  BY <1>6, <1>7, Zenon DEF SignalInv, RoutedInv, Routed
<1>13. EdgeOnItsWay'
  BY <1>6, <1>7, Zenon DEF SignalInv, EdgeOnItsWay
<1>14. FreshInv'
  <2> SUFFICES ASSUME firmware \in {"idle", "acking"}, D \notin exti'.pr
               PROVE  seen = (driven["din"] # 0)
    BY <1>1, <1>7, Zenon DEF FreshInv
  <2>1. D \notin exti.pr
    BY <1>6, Zenon
  <2>2. seen = (values["din"] # 0)
    BY <2>1, Zenon DEF SignalInv, FreshInv
  <2>3. seen = levels["din"]
    BY <1>2, <2>2, Zenon DEF SignalInv, LevelInv
  <2>4. Routed(exti) /\ D \in exti.imr
    BY DEF SignalInv, RoutedInv
  <2>5. D \in 0..15
    BY EcuAssumption
  <2>6. \A b \in BOOLEAN : Configured(exti, Port["din"], D, b)
    BY <2>4, <2>5, Zenon DEF Configured, EdgeMatches, Routed
  <2>7. ~((driven["din"] # 0) # levels["din"])
    BY <1>2, <1>6, <2>6, Zenon
  <2> QED BY <2>3, <2>7, Zenon
<1> QED BY <1>9, <1>10, <1>11, <1>12, <1>13, <1>14, Zenon DEF SignalInv

EcuInv == TypeOK /\ SignalInv

\* What a step that leaves the inputs and the firmware alone keeps.
LEMMA InputsLeft ==
  ASSUME InputsTyped, SignalInv, UNCHANGED inputVars, UNCHANGED firmwareVars
  PROVE  InputsTyped' /\ SignalInv' /\ TeethStep
<1>1. UNCHANGED <<values, levels, position, exti, irqs, rises, firmware, seen, snapshot>>
  BY DEF inputVars, firmwareVars
<1>2. InputsTyped'
  BY <1>1, Zenon DEF InputsTyped
<1>3. LevelInv' /\ RoutedInv' /\ FreshInv' /\ EdgeOnItsWay' /\ WheelInv'
  BY <1>1, Zenon DEF SignalInv, LevelInv, RoutedInv, Routed, FreshInv, EdgeOnItsWay, WheelInv
<1>4. position' = position /\ position \in Int
  BY <1>1 DEF InputsTyped
<1>5. ~(position' < position)
  BY <1>4
<1> QED BY <1>2, <1>3, <1>5, Zenon DEF SignalInv, TeethStep

\* A part on the wire or in the buffer assigns to din or rpm.
LEMMA Assignments ==
  /\ \A a \in Inbound : a.name \in {"din", "rpm"} /\ a.value \in Int
  /\ \A a \in [name : {"din", "rpm"}, value : Int] : a.name \in {"din", "rpm"} /\ a.value \in Int
BY DEF Inbound

\* A poll of the link.
LEMMA PollLinkKeeps ==
  ASSUME EcuInv, NEW delta \in 1..MaxDelta, PollLink(delta)
  PROVE  EcuInv' /\ TeethStep
<1> DEFINE v == SetValues(values, pending_inputs, DOMAIN pending_inputs)
           S == [name : {"din", "rpm"}, value : Int]
<1>1. values \in [Names -> Int] /\ pending_inputs \in Seq(S) /\ InputsTyped /\ SignalInv
  BY DEF EcuInv, TypeOK, InputsTyped, LinkTyped
<1>2. DOMAIN pending_inputs \subseteq 1..Len(pending_inputs)
  BY <1>1
<1>3. v \in [Names -> Int] /\ v["wheel"] = values["wheel"]
  <2>1. Len(pending_inputs) \in Nat /\ \A i \in DOMAIN pending_inputs : pending_inputs[i] \in S
    <3> HIDE DEF S
    <3> QED BY <1>1
  <2>2. \A i \in DOMAIN pending_inputs :
          pending_inputs[i].name \in {"din", "rpm"} /\ pending_inputs[i].value \in Int
    BY <2>1
  <2> QED BY <1>1, <1>2, <2>1, <2>2, SetValuesTyped
<1> HIDE DEF v
<1>5. Advance(v, delta) /\ UNCHANGED firmwareVars
  BY DEF PollLink, v
<1>6. InputsTyped' /\ SignalInv' /\ (position' < position => rises = Teeth - Missing)
  BY <1>1, <1>3, <1>5, AdvanceKeeps
<1>7. /\ pending_inputs' = <<>>
      /\ UNCHANGED <<embedded, uses, client, recv_buffer, outgoing, wire, closed, torn, whole,
                     outputs, output_events, next_output_sequence, pins, view, expect, half,
                     told, gap, fed, reports, sessions>>
  BY DEF PollLink, tcpVars, hostVars, tallyVars
<1>8. TcpTyped' /\ TallyTyped'
  BY <1>7, Zenon DEF EcuInv, TypeOK, TcpTyped, TallyTyped
<1>9. LinkTyped'
  <2>1. /\ pending_inputs' \in Seq([name : {"din", "rpm"}, value : Int])
        /\ Len(pending_inputs') <= MaxInputs
    BY <1>7, EcuAssumption
  <2> QED BY <1>7, <2>1, Zenon DEF EcuInv, TypeOK, LinkTyped
<1> QED BY <1>6, <1>8, <1>9, Zenon DEF EcuInv, TypeOK, TeethStep

\* Sending to the client keeps the queue and what the client knows well formed.
LEMMA SendKeeps ==
  ASSUME outgoing \in Seq(Outbound), Len(outgoing) <= Capacity, half \in Seq(Outbound),
         view \in OutputLevels, NEW k \in 0..Len(outgoing), SendToClient(k)
  PROVE  /\ outgoing' \in Seq(Outbound) /\ Len(outgoing') <= Capacity
         /\ half' \in Seq(Outbound) /\ view' \in OutputLevels
<1> DEFINE sent == SubSeq(outgoing, 1, k)
           got == half \o sent
<1>1. sent \in Seq(Outbound)
  BY FrontTyped
<1> HIDE DEF sent
<1>2. got \in Seq(Outbound)
  BY <1>1
<1>3. outgoing' = SubSeq(outgoing, k + 1, Len(outgoing)) /\ view' = ClientView(got)
      /\ half' = SubSeq(got, LastEnd(got) + 1, Len(got))
  BY DEF SendToClient, sent
<1> HIDE DEF got
<1>4. outgoing' \in Seq(Outbound) /\ Len(outgoing') <= Len(outgoing)
  BY <1>3, RestTyped
<1>5. Len(outgoing') <= Capacity
  BY <1>4, EcuAssumption
<1>6. LastEnd(got) \in 0..Len(got)
  BY <1>2, EndsInside
<1>7. half' \in Seq(Outbound)
  <2> DEFINE e == LastEnd(got)
  <2> HIDE DEF e
  <2>1. e \in 0..Len(got)
    BY <1>6 DEF e
  <2>2. SubSeq(got, e + 1, Len(got)) \in Seq(Outbound)
    BY <1>2, <2>1, RestTyped
  <2> QED BY <1>3, <2>2 DEF e
<1>8. view' \in OutputLevels
  BY <1>2, <1>3, ClientViewTyped
<1> QED BY <1>4, <1>5, <1>7, <1>8

\* A poll of the socket.
LEMMA PollSocketKeeps ==
  ASSUME EcuInv, NEW delta \in 1..MaxDelta, NEW n \in 0..Len(wire), NEW k \in 0..Len(outgoing),
         PollSocket(n, k, delta)
  PROVE  EcuInv' /\ TeethStep
<1> DEFINE front == SubSeq(wire, 1, n)
           read == recv_buffer \o front
           buffer == Newest(read, Capacity)
           disconnected == closed /\ n = Len(wire)
           lines == Processed(buffer, disconnected)
           rest == SubSeq(buffer, LastEnd(buffer) + 1, Len(buffer))
           v == SetValues(values, buffer, lines)
           ends == {i \in 1..n : wire[i].part = 2 /\ wire[i].name = "din"}
<1>1. /\ values \in [Names -> Int] /\ wire \in Seq(Inbound) /\ recv_buffer \in Seq(Inbound)
      /\ whole \in Int /\ client \in Nat /\ closed \in BOOLEAN /\ torn \in BOOLEAN
      /\ InputsTyped /\ SignalInv /\ Capacity \in Nat /\ Len(wire) \in Nat
  BY EcuAssumption DEF EcuInv, TypeOK, InputsTyped, TcpTyped
<1>2. buffer \in Seq(Inbound) /\ Len(buffer) <= Capacity
  <2>1. front \in Seq(Inbound)
    BY <1>1, FrontTyped
  <2> HIDE DEF front
  <2>2. read \in Seq(Inbound)
    BY <1>1, <2>1
  <2> HIDE DEF read
  <2> QED BY <1>1, <2>2, NewestTyped
<1>3. /\ Advance(v, delta) /\ UNCHANGED firmwareVars
      /\ recv_buffer' = rest
      /\ whole' = IF ends = {} THEN whole ELSE wire[Max(ends)].value
      /\ \E reset \in {FALSE, closed /\ ~disconnected /\ outgoing # <<>>} :
           /\ client' = IF disconnected \/ reset THEN 0 ELSE client
           /\ closed' = (closed /\ ~disconnected /\ ~reset)
           /\ wire' = IF reset THEN <<>> ELSE SubSeq(wire, n + 1, Len(wire))
           /\ torn' = (torn \/ ((disconnected \/ reset) /\ rest # <<>>)
                             \/ Len(recv_buffer) + n > Capacity)
      /\ (UNCHANGED <<outgoing, hostVars>> \/ SendToClient(k))
      /\ UNCHANGED <<embedded, uses, linkVars, pins, tallyVars>>
  BY Zenon DEF PollSocket
<1>4. lines \subseteq 1..Len(buffer)
  <2> HIDE DEF buffer
  <2> QED BY <1>2, EndsInside DEF Processed
<1> HIDE DEF buffer, lines
<1>5. v \in [Names -> Int] /\ v["wheel"] = values["wheel"]
  <2>1. Len(buffer) \in Nat /\ \A i \in lines : buffer[i] \in Inbound
    BY <1>2, <1>4
  <2>2. \A i \in lines : buffer[i].name \in {"din", "rpm"} /\ buffer[i].value \in Int
    BY <2>1, Assignments, Zenon
  <2>3. values \in [Names -> Int] /\ lines \subseteq 1..Len(buffer)
    BY <1>1, <1>4
  <2> HIDE DEF v
  <2>4. v = SetValues(values, buffer, lines)
    BY DEF v
  <2>5. /\ SetValues(values, buffer, lines) \in [Names -> Int]
        /\ SetValues(values, buffer, lines)["wheel"] = values["wheel"]
    BY <2>1, <2>2, <2>3, SetValuesTyped
  <2> QED BY <2>4, <2>5
<1> HIDE DEF v
<1>7. InputsTyped' /\ SignalInv' /\ (position' < position => rises = Teeth - Missing)
  BY <1>1, <1>3, <1>5, AdvanceKeeps
<1>8. rest \in Seq(Inbound) /\ Len(rest) <= Capacity
  <2> DEFINE e == LastEnd(buffer)
  <2>1. e \in 0..Len(buffer)
    BY <1>2, EndsInside
  <2> HIDE DEF e
  <2>2. /\ SubSeq(buffer, e + 1, Len(buffer)) \in Seq(Inbound)
        /\ Len(SubSeq(buffer, e + 1, Len(buffer))) <= Len(buffer)
    BY <1>2, <2>1, RestTyped
  <2>3. Len(SubSeq(buffer, e + 1, Len(buffer))) <= Capacity
    BY <1>1, <1>2, <2>2
  <2> QED BY <2>2, <2>3 DEF e
<1> HIDE DEF rest
<1>9. whole' \in Int
  <2>1. n \in Nat /\ ends \subseteq 1..n
    BY <1>1
  <2>2. \A i \in 1..n : wire[i] \in Inbound
    BY <1>1
  <2>3. ends # {} => Max(ends) \in ends
    <3> HIDE DEF ends
    <3> QED BY <2>1, MaxIn
  <2>4. ends # {} => wire[Max(ends)].value \in Int
    BY <2>1, <2>2, <2>3, Assignments, Zenon
  <2> QED BY <1>1, <1>3, <2>4, Zenon
<1> HIDE DEF ends
<1>10. client' \in Nat /\ closed' \in BOOLEAN /\ torn' \in BOOLEAN /\ wire' \in Seq(Inbound)
  <2> DEFINE tail == SubSeq(wire, n + 1, Len(wire))
  <2>1. tail \in Seq(Inbound) /\ <<>> \in Seq(Inbound) /\ 0 \in Nat
    BY <1>1, RestTyped
  <2> HIDE DEF tail
  <2>2. PICK reset \in BOOLEAN :
          /\ client' = IF disconnected \/ reset THEN 0 ELSE client
          /\ closed' = (closed /\ ~disconnected /\ ~reset)
          /\ wire' = IF reset THEN <<>> ELSE tail
          /\ torn' = (torn \/ ((disconnected \/ reset) /\ rest # <<>>)
                            \/ Len(recv_buffer) + n > Capacity)
    BY <1>3, Zenon DEF tail
  <2> HIDE DEF disconnected
  <2>3. client' \in Nat
    BY <1>1, <2>1, <2>2, Zenon
  <2>4. wire' \in Seq(Inbound)
    BY <2>1, <2>2, Zenon
  <2>5. closed' \in BOOLEAN /\ torn' \in BOOLEAN
    BY <2>2, Zenon
  <2> QED BY <2>3, <2>4, <2>5
<1>11. /\ outgoing' \in Seq(Outbound) /\ Len(outgoing') <= Capacity
       /\ half' \in Seq(Outbound) /\ view' \in OutputLevels
       /\ UNCHANGED <<expect, told, gap>>
  <2>1. /\ outgoing \in Seq(Outbound) /\ Len(outgoing) <= Capacity
        /\ half \in Seq(Outbound) /\ view \in OutputLevels
    BY DEF EcuInv, TypeOK, TcpTyped, LinkTyped
  <2>2. CASE UNCHANGED <<outgoing, hostVars>>
    BY <2>1, <2>2 DEF hostVars
  <2>3. CASE SendToClient(k)
    <3>1. UNCHANGED <<expect, told, gap>>
      BY <2>3 DEF SendToClient
    <3> QED BY <2>1, <2>3, <3>1, SendKeeps
  <2> QED BY <1>3, <2>2, <2>3
<1>12. UNCHANGED <<embedded, uses, pending_inputs, outputs, output_events,
                   next_output_sequence, pins, fed, reports, sessions>>
  BY <1>3 DEF linkVars, tallyVars
<1>13. TcpTyped'
  BY <1>3, <1>8, <1>9, <1>10, <1>11, Zenon DEF TcpTyped
<1>14. LinkTyped' /\ TallyTyped'
  BY <1>11, <1>12, Zenon DEF EcuInv, TypeOK, LinkTyped, TallyTyped
<1> QED BY <1>7, <1>13, <1>14, Zenon DEF EcuInv, TypeOK, TeethStep

\* What is fed assigns a value to din or to the wheel's speed.
LEMMA FedTyped ==
  \A a \in Fed : /\ a.name \in {"din", "rpm"} /\ a.value \in Int
                 /\ a \in [name : {"din", "rpm"}, value : Int]
<1>1. Rpms \subseteq Int
  BY EcuAssumption
<1>2. \A a \in [name : {"din"}, value : {0, 1}] : a \in [name : {"din", "rpm"}, value : Int]
  OBVIOUS
<1>3. \A a \in [name : {"rpm"}, value : Rpms] : a \in [name : {"din", "rpm"}, value : Int]
  BY <1>1
<1>4. \A a \in Fed : a \in [name : {"din", "rpm"}, value : Int]
  BY <1>2, <1>3, Zenon DEF Fed
<1> QED BY <1>4, Assignments, Zenon

\* The feeder and the host's reads do not touch the inputs.
LEMMA FeederKeeps ==
  ASSUME EcuInv, Feeder
  PROVE  EcuInv' /\ TeethStep
<1>1. UNCHANGED inputVars /\ UNCHANGED firmwareVars
  BY Zenon DEF Feeder, SetInput, Connect, Close, WriteLine
<1>2. InputsTyped' /\ SignalInv' /\ TeethStep
  BY <1>1, InputsLeft DEF EcuInv, TypeOK
<1>3. \A a \in Fed : /\ a.name \in {"din", "rpm"} /\ a.value \in Int
                     /\ a \in [name : {"din", "rpm"}, value : Int]
  BY FedTyped
<1>4. TcpTyped /\ LinkTyped /\ TallyTyped
  BY DEF EcuInv, TypeOK
<1>5. CASE SetInput
  <2>1. PICK a \in Fed : pending_inputs' = Newest(Append(pending_inputs, a), MaxInputs)
    BY <1>5 DEF SetInput
  <2> DEFINE S == [name : {"din", "rpm"}, value : Int]
             q == Append(pending_inputs, a)
  <2>2. a \in S /\ pending_inputs \in Seq(S) /\ MaxInputs \in Nat
    BY <1>3, <1>4, EcuAssumption DEF LinkTyped
  <2> HIDE DEF S
  <2>3. q \in Seq(S)
    BY <2>2
  <2> HIDE DEF q
  <2>4. Newest(q, MaxInputs) \in Seq(S) /\ Len(Newest(q, MaxInputs)) <= MaxInputs
    BY <2>2, <2>3, NewestTyped
  <2>5. /\ pending_inputs' \in Seq([name : {"din", "rpm"}, value : Int])
        /\ Len(pending_inputs') <= MaxInputs
    BY <2>1, <2>4, Zenon DEF S, q
  <2>6. fed' = fed + 1 /\ fed \in Nat
    BY <1>4, <1>5 DEF SetInput, TallyTyped
  <2>7. fed' \in Nat
    BY <2>6
  <2>8. UNCHANGED <<embedded, uses, client, recv_buffer, outgoing, wire, closed, torn, whole,
                    outputs, output_events, next_output_sequence, pins, view, expect, half,
                    told, gap, reports, sessions>>
    BY <1>5 DEF SetInput, tcpVars, hostVars
  <2>9. TcpTyped' /\ LinkTyped' /\ TallyTyped'
    BY <1>4, <2>5, <2>7, <2>8, Zenon DEF TcpTyped, LinkTyped, TallyTyped
  <2> QED BY <1>2, <2>9 DEF EcuInv, TypeOK
<1>6. CASE Connect
  <2>1. /\ client' = sessions + 1 /\ sessions' = sessions + 1 /\ sessions \in Nat
        /\ view' = [o \in Outputs |-> Unknown] /\ half' = <<>> /\ told' = {} /\ gap' = FALSE
    BY <1>4, <1>6 DEF Connect, TallyTyped
  <2>2. client' \in Nat /\ sessions' \in Nat /\ half' \in Seq(Outbound)
    BY <2>1
  <2>3. view' \in OutputLevels /\ told' \subseteq Outputs /\ gap' \in BOOLEAN
    BY <2>1, Zenon DEF OutputLevels
  <2>4. UNCHANGED <<embedded, uses, recv_buffer, outgoing, wire, closed, torn, whole,
                    pending_inputs, outputs, output_events, next_output_sequence, pins, expect,
                    fed, reports>>
    BY <1>6 DEF Connect, linkVars
  <2>5. TcpTyped' /\ LinkTyped' /\ TallyTyped'
    BY <1>4, <2>2, <2>3, <2>4, Zenon DEF TcpTyped, LinkTyped, TallyTyped
  <2> QED BY <1>2, <2>5 DEF EcuInv, TypeOK
<1>7. CASE Close
  <2>1. /\ closed' = TRUE
        /\ UNCHANGED <<embedded, uses, client, recv_buffer, outgoing, wire, torn, whole,
                       pending_inputs, outputs, output_events, next_output_sequence, pins, view,
                       expect, half, told, gap, fed, reports, sessions>>
    BY <1>7 DEF Close, linkVars, hostVars, tallyVars
  <2>2. TcpTyped' /\ LinkTyped' /\ TallyTyped'
    BY <1>4, <2>1, Zenon DEF TcpTyped, LinkTyped, TallyTyped
  <2> QED BY <1>2, <2>2 DEF EcuInv, TypeOK
<1>8. ASSUME NEW parts \in 1..2, WriteLine(parts) PROVE EcuInv' /\ TeethStep
  <2>1. PICK a \in Fed : wire' = wire \o [i \in 1..parts |->
                           [name |-> a.name, value |-> a.value, of |-> fed, part |-> i]]
    BY <1>8 DEF WriteLine
  <2> DEFINE line == [i \in 1..parts |->
                           [name |-> a.name, value |-> a.value, of |-> fed, part |-> i]]
  <2>2. fed \in Nat /\ fed' = fed + 1 /\ wire \in Seq(Inbound)
    BY <1>4, <1>8 DEF WriteLine, TcpTyped, TallyTyped
  <2>3. \A i \in 1..parts : [name |-> a.name, value |-> a.value, of |-> fed, part |-> i] \in Inbound
    BY <1>3, <2>2 DEF Inbound
  <2>4. line \in Seq(Inbound)
    <3>1. parts \in Nat /\ line \in [1..parts -> Inbound]
      BY <2>3
    <3> HIDE DEF line
    <3> QED BY <3>1
  <2> HIDE DEF line
  <2>5. wire' \in Seq(Inbound) /\ fed' \in Nat
    BY <2>1, <2>2, <2>4 DEF line
  <2>6. closed' \in BOOLEAN
    BY <1>8, Zenon DEF WriteLine
  <2>7. UNCHANGED <<embedded, uses, client, recv_buffer, outgoing, torn, whole,
           pending_inputs, outputs, output_events, next_output_sequence, pins, view, expect,
           half, told, gap, reports, sessions>>
    BY <1>8 DEF WriteLine, linkVars, hostVars
  <2>8. TcpTyped' /\ LinkTyped' /\ TallyTyped'
    BY <1>4, <2>5, <2>6, <2>7, Zenon DEF TcpTyped, LinkTyped, TallyTyped
  <2> QED BY <1>2, <2>8 DEF EcuInv, TypeOK
<1> QED BY <1>5, <1>6, <1>7, <1>8 DEF Feeder

\* The handler clears only the bits it has read, and reads the pin after it.
LEMMA FirmwareKeeps ==
  ASSUME EcuInv, Firmware
  PROVE  EcuInv' /\ TeethStep
<1> DEFINE D == Line["din"]
           route == [l \in Lines |-> Port["din"]]
<1>1. UNCHANGED <<embedded, uses, values, levels, position, rises, client, recv_buffer, outgoing,
                  wire, closed, torn, whole, pending_inputs, outputs, output_events,
                  next_output_sequence, pins, view, expect, half, told, gap, fed, reports,
                  sessions>>
  BY DEF Firmware, tcpVars, linkVars, hostVars, tallyVars
<1>2. TcpTyped' /\ LinkTyped' /\ TallyTyped'
  BY <1>1, Zenon DEF EcuInv, TypeOK, TcpTyped, LinkTyped, TallyTyped
<1>3. LevelInv' /\ WheelInv'
  BY <1>1, Zenon DEF EcuInv, SignalInv, LevelInv, WheelInv
<1>4. TeethStep
  <2>1. position' = position /\ position \in Int
    BY <1>1 DEF EcuInv, TypeOK, InputsTyped
  <2>2. ~(position' < position)
    BY <2>1
  <2> QED BY <2>2, Zenon DEF TeethStep
<1>5. /\ exti \in Registers /\ irqs \subseteq {IrqForLine(l) : l \in Lines}
      /\ snapshot \subseteq Lines
      /\ values \in [Names -> Int] /\ levels \in [Inputs -> BOOLEAN] /\ seen \in BOOLEAN
      /\ position \in 0..(Revolution - 1) /\ rises \in Nat
  BY DEF EcuInv, TypeOK, InputsTyped
<1>6. SUFFICES /\ exti' \in Registers /\ irqs' \subseteq {IrqForLine(l) : l \in Lines}
               /\ firmware' \in {"reset", "routed", "reading", "idle", "acking"}
               /\ seen' \in BOOLEAN /\ snapshot' \subseteq Lines
               /\ RoutedInv' /\ FreshInv' /\ EdgeOnItsWay'
  <2>1. InputsTyped'
    BY <1>1, <1>5, <1>6, Zenon DEF InputsTyped
  <2> QED BY <1>2, <1>3, <1>4, <1>6, <2>1, Zenon DEF EcuInv, TypeOK, SignalInv
<1>7. RoutedInv /\ FreshInv /\ EdgeOnItsWay
  BY DEF EcuInv, SignalInv
<1>8. D \in Lines
  BY LinesTyped
<1>9. CASE /\ firmware = "reset" /\ firmware' = "routed"
           /\ exti' = WriteRtsr(WriteFtsr(WriteExticr(exti, route), Lines), Lines)
           /\ UNCHANGED <<irqs, seen, snapshot>>
  <2>1. route \in [Lines -> {0} \cup {Port[n] : n \in Inputs}] /\ route[D] = Port["din"]
    BY <1>8, LinesTyped
  <2> HIDE DEF route
  <2>2. /\ exti' \in Registers /\ exti'.rtsr = Lines /\ exti'.ftsr = Lines
        /\ exti'.exticr = route /\ exti'.pr = exti.pr
    BY <1>5, <1>9, <2>1 DEF Registers, WriteRtsr, WriteFtsr, WriteExticr
  <2>3. RoutedInv' /\ FreshInv' /\ EdgeOnItsWay'
    BY <1>7, <1>8, <1>9, <2>1, <2>2 DEF RoutedInv, Routed, FreshInv, EdgeOnItsWay
  <2> QED BY <1>5, <1>9, <2>2, <2>3
<1>10. CASE /\ firmware = "routed" /\ firmware' = "reading"
            /\ exti' = WriteImr(exti, Lines)
            /\ UNCHANGED <<irqs, seen, snapshot>>
  <2>1. /\ exti' \in Registers /\ exti'.rtsr = exti.rtsr /\ exti'.ftsr = exti.ftsr
        /\ exti'.exticr = exti.exticr /\ exti'.pr = exti.pr /\ exti'.imr = Lines
    BY <1>5, <1>10 DEF Registers, WriteImr
  <2>2. RoutedInv' /\ FreshInv' /\ EdgeOnItsWay'
    BY <1>7, <1>8, <1>10, <2>1 DEF RoutedInv, Routed, FreshInv, EdgeOnItsWay
  <2> QED BY <1>5, <1>10, <2>1, <2>2
<1>11. CASE /\ firmware = "reading" /\ firmware' = "idle"
            /\ seen' = (values["din"] # 0)
            /\ UNCHANGED <<exti, irqs, snapshot>>
  <2>1. seen' \in BOOLEAN /\ FreshInv'
    BY <1>1, <1>11, Zenon DEF FreshInv
  <2>2. RoutedInv' /\ EdgeOnItsWay'
    BY <1>7, <1>11 DEF RoutedInv, Routed, EdgeOnItsWay
  <2> QED BY <1>5, <1>11, <2>1, <2>2
<1>12. CASE /\ firmware = "idle" /\ irqs # {} /\ firmware' = "acking"
            /\ irqs' = {} /\ snapshot' = exti.pr
            /\ UNCHANGED <<exti, seen>>
  <2>1. snapshot' \subseteq Lines
    BY <1>5, <1>12 DEF Registers
  <2>2. RoutedInv' /\ EdgeOnItsWay'
    BY <1>7, <1>12 DEF RoutedInv, Routed, EdgeOnItsWay
  <2>3. FreshInv'
    BY <1>1, <1>7, <1>12, Zenon DEF FreshInv
  <2> QED BY <1>5, <1>12, <2>1, <2>2, <2>3
<1>13. CASE /\ firmware = "acking"
            /\ firmware' = IF D \in snapshot THEN "reading" ELSE "idle"
            /\ exti' = WritePr(exti, snapshot)
            /\ snapshot' = {}
            /\ UNCHANGED <<irqs, seen>>
  <2>1. /\ exti' \in Registers /\ exti'.rtsr = exti.rtsr /\ exti'.ftsr = exti.ftsr
        /\ exti'.exticr = exti.exticr /\ exti'.pr = exti.pr \ snapshot /\ exti'.imr = exti.imr
    BY <1>5, <1>13 DEF Registers, WritePr
  <2>2. RoutedInv'
    BY <1>7, <1>13, <2>1 DEF RoutedInv, Routed
  <2>3. EdgeOnItsWay'
    BY <1>7, <1>13, <2>1, Zenon DEF EdgeOnItsWay
  <2>4. FreshInv'
    BY <1>1, <1>7, <1>13, <2>1, Zenon DEF FreshInv
  <2> QED BY <1>5, <1>13, <2>1, <2>2, <2>3, <2>4
<1> QED BY <1>9, <1>10, <1>11, <1>12, <1>13, Zenon DEF Firmware

\* The host takes the events it has been sent, or reads the levels.
LEMMA TakeOutputEventsKeeps ==
  ASSUME EcuInv, TakeOutputEvents
  PROVE  EcuInv' /\ TeethStep
<1> DEFINE at == [o \in Outputs |-> {i \in DOMAIN output_events : output_events[i].name = o}]
<1>1. UNCHANGED inputVars /\ UNCHANGED firmwareVars
  BY DEF TakeOutputEvents
<1>2. InputsTyped' /\ SignalInv' /\ TeethStep
  BY <1>1, InputsLeft DEF EcuInv, TypeOK
<1>3. TcpTyped /\ LinkTyped /\ TallyTyped
  BY DEF EcuInv, TypeOK
<1>4. output_events \in Seq(Events) /\ view \in OutputLevels /\ output_events # <<>>
  BY <1>3 DEF LinkTyped, TakeOutputEvents
<1>5. view' = [o \in Outputs |-> IF at[o] = {} THEN view[o]
                                 ELSE output_events[Max(at[o])].value]
  <2>1. \A o \in Outputs : at[o] = {i \in DOMAIN output_events : output_events[i].name = o}
    OBVIOUS
  <2> QED BY <2>1, Zenon DEF TakeOutputEvents
<1>6. \A o \in Outputs : at[o] \subseteq 1..Len(output_events)
  BY <1>4
<1>7. \A a \in Events : a.value \in {0, 1} /\ a.sequence \in Nat
  BY DEF Events
<1> HIDE DEF at
<1>8. view' \in OutputLevels
  BY <1>4, <1>5, <1>6, <1>7, LevelsTyped
<1>9. expect' \in Nat
  <2>1. /\ Len(output_events) \in Nat \ {0}
        /\ \A i \in 1..Len(output_events) : output_events[i] \in Events
    BY <1>4
  <2>2. output_events[Len(output_events)] \in Events
    BY <2>1
  <2>3. output_events[Len(output_events)].sequence \in Nat
    BY <1>7, <2>2, Zenon
  <2>4. expect' = output_events[Len(output_events)].sequence + 1
    BY Zenon DEF TakeOutputEvents, Last
  <2> QED BY <2>3, <2>4
<1>10. gap' \in BOOLEAN
  BY Zenon DEF TakeOutputEvents
<1>11. output_events' \in Seq(Events) /\ Len(output_events') <= MaxEvents
  BY EcuAssumption DEF TakeOutputEvents
<1>12. UNCHANGED <<embedded, uses, client, recv_buffer, outgoing, wire, closed, torn, whole,
         pending_inputs, outputs, next_output_sequence, pins, half, told, fed, reports, sessions>>
  BY DEF TakeOutputEvents, tcpVars, tallyVars
<1>13. TcpTyped' /\ LinkTyped' /\ TallyTyped'
  BY <1>3, <1>8, <1>9, <1>10, <1>11, <1>12, Zenon DEF TcpTyped, LinkTyped, TallyTyped
<1> QED BY <1>2, <1>13 DEF EcuInv, TypeOK

LEMMA ReadOutputsKeeps ==
  ASSUME EcuInv, ReadOutputs
  PROVE  EcuInv' /\ TeethStep
<1>1. UNCHANGED inputVars /\ UNCHANGED firmwareVars
  BY DEF ReadOutputs
<1>2. InputsTyped' /\ SignalInv' /\ TeethStep
  BY <1>1, InputsLeft DEF EcuInv, TypeOK
<1>3. gap' = FALSE /\ view' = outputs
      /\ UNCHANGED <<embedded, uses, client, recv_buffer, outgoing, wire, closed, torn, whole,
         pending_inputs, outputs, output_events, next_output_sequence, pins, expect, half, told,
         fed, reports, sessions>>
  BY DEF ReadOutputs, tcpVars, linkVars, tallyVars
<1>4. TcpTyped' /\ LinkTyped' /\ TallyTyped'
  BY <1>3, Zenon DEF EcuInv, TypeOK, TcpTyped, LinkTyped, TallyTyped
<1> QED BY <1>2, <1>4 DEF EcuInv, TypeOK

\* The inputs at power-up: the initial ones, and those of an emulator built anew.
PoweredUp ==
  /\ values = [n \in Names |-> IF n \in Outputs THEN Unknown ELSE 0]
  /\ levels = [n \in Inputs |-> FALSE] /\ position = 0 /\ rises = 0
  /\ exti = ExtiInit(Lines) /\ irqs = {} /\ firmware = "reset" /\ seen = FALSE
  /\ snapshot = {}

LEMMA PowerUp == PoweredUp => InputsTyped /\ SignalInv
<1> SUFFICES ASSUME PoweredUp PROVE InputsTyped /\ SignalInv
  OBVIOUS
<1> USE DEF PoweredUp
<1>1. /\ Inputs = {"din", "wheel"} /\ Inputs \cap Outputs = {} /\ Inputs \subseteq Names
      /\ Revolution \in Nat \ {0}
  <2>1. Half \in Nat \ {0} /\ Teeth \in Nat \ {0} /\ Outputs \cap {"din", "wheel", "rpm"} = {}
    BY EcuAssumption
  <2>2. Revolution \in Nat \ {0}
    BY <2>1 DEF Revolution
  <2> QED BY <2>1, <2>2, LinesTyped
<1>2. exti \in Registers /\ exti.pr = {}
  BY DEF ExtiInit, Registers
<1>3. values \in [Names -> Int]
  BY DEF Unknown
<1>4. levels \in [Inputs -> BOOLEAN] /\ ~levels["wheel"] /\ seen \in BOOLEAN
  BY <1>1, Zenon
<1>5. position \in 0..(Revolution - 1) /\ rises \in Nat
  BY <1>1
<1>6. InputsTyped
  BY <1>2, <1>3, <1>4, <1>5, Zenon DEF InputsTyped
<1>7. LevelInv
  <2> SUFFICES ASSUME NEW n \in Inputs PROVE levels[n] = (values[n] # 0)
    BY DEF LevelInv
  <2>1. values[n] = 0
    BY <1>1
  <2>2. levels[n] = FALSE
    OBVIOUS
  <2>3. (values[n] # 0) = FALSE
    BY <2>1
  <2> QED BY <2>2, <2>3, Zenon
<1>8. RoutedInv /\ FreshInv /\ EdgeOnItsWay
  BY <1>2 DEF RoutedInv, FreshInv, EdgeOnItsWay
<1>9. WheelInv
  BY <1>4, Zenon DEF WheelInv
<1> QED BY <1>6, <1>7, <1>8, <1>9 DEF SignalInv

\* Levels nobody has reported.
LEMMA Silent == [o \in Outputs |-> Unknown] \in OutputLevels
BY Zenon DEF OutputLevels

LEMMA RestartKeeps ==
  ASSUME EcuInv, Restart
  PROVE  EcuInv' /\ TeethStep
<1>1. PoweredUp'
  BY DEF Restart, PoweredUp
<1>2. InputsTyped' /\ SignalInv'
  BY <1>1, PowerUp, PTL
<1>3. TcpTyped /\ LinkTyped /\ TallyTyped
  BY DEF EcuInv, TypeOK
<1>4. sessions' = sessions + 1 /\ sessions \in Nat
  BY <1>3 DEF Restart, TallyTyped
<1>5. sessions' \in Nat /\ sessions' # sessions
  BY <1>4
<1>6. /\ pending_inputs' \in Seq([name : {"din", "rpm"}, value : Int])
      /\ Len(pending_inputs') <= MaxInputs
      /\ output_events' \in Seq(Events) /\ Len(output_events') <= MaxEvents
  BY EcuAssumption DEF Restart
<1>7. /\ outputs' \in OutputLevels /\ pins' \in OutputLevels /\ view' \in OutputLevels
      /\ gap' \in BOOLEAN /\ expect' = next_output_sequence
  BY Silent, Zenon DEF Restart
<1>8. UNCHANGED <<embedded, uses, client, recv_buffer, outgoing, wire, closed, torn, whole,
                  next_output_sequence, half, told, fed, reports>>
  BY DEF Restart, tcpVars
<1>9. TcpTyped' /\ LinkTyped' /\ TallyTyped'
  BY <1>3, <1>5, <1>6, <1>7, <1>8, Zenon DEF TcpTyped, LinkTyped, TallyTyped
<1> QED BY <1>2, <1>5, <1>9, Zenon DEF EcuInv, TypeOK, TeethStep

LEMMA PublishKeeps ==
  ASSUME LinkTyped, NEW o \in Outputs, NEW v \in {0, 1}, PublishOutput(o, v)
  PROVE  /\ outputs' \in OutputLevels /\ next_output_sequence' \in Nat
         /\ output_events' \in Seq(Events) /\ Len(output_events') <= MaxEvents
<1>1. /\ outputs \in OutputLevels /\ next_output_sequence \in Nat /\ MaxEvents \in Nat
      /\ output_events \in Seq(Events) /\ Len(output_events) <= MaxEvents
  BY EcuAssumption DEF LinkTyped
<1>2. outputs' \in OutputLevels
  BY <1>1 DEF PublishOutput, OutputLevels
<1> DEFINE event == [sequence |-> next_output_sequence, name |-> o, value |-> v]
           queue == Append(output_events, event)
<1>3. event \in Events
  BY <1>1 DEF Events
<1>4. CASE outputs[o] = v
  BY <1>1, <1>2, <1>4 DEF PublishOutput
<1>5. CASE outputs[o] # v
  <2>1. /\ output_events' = Newest(queue, MaxEvents)
        /\ next_output_sequence' = next_output_sequence + 1
    BY <1>5 DEF PublishOutput
  <2> HIDE DEF event
  <2>2. queue \in Seq(Events)
    BY <1>1, <1>3
  <2> HIDE DEF queue
  <2>3. Newest(queue, MaxEvents) \in Seq(Events) /\ Len(Newest(queue, MaxEvents)) <= MaxEvents
    BY <1>1, <2>2, NewestTyped
  <2>4. next_output_sequence' \in Nat
    BY <1>1, <2>1
  <2> QED BY <1>2, <2>1, <2>3, <2>4
<1> QED BY <1>4, <1>5

LEMMA QueueKeeps ==
  ASSUME outgoing \in Seq(Outbound), reports \in Nat, NEW o \in Outputs, NEW v \in {0, 1}
  PROVE  QueueLine(o, v) \in Seq(Outbound) /\ Len(QueueLine(o, v)) <= Capacity
<1> DEFINE line == [i \in 1..2 |-> [name |-> o, value |-> v, of |-> reports, part |-> i]]
           queue == outgoing \o line
<1>1. \A i \in 1..2 : [name |-> o, value |-> v, of |-> reports, part |-> i] \in Outbound
  BY DEF Outbound
<1>2. line \in Seq(Outbound)
  <2>1. line \in [1..2 -> Outbound] /\ 2 \in Nat
    BY <1>1
  <2> HIDE DEF line
  <2> QED BY <2>1
<1> HIDE DEF line
<1>3. queue \in Seq(Outbound) /\ Capacity \in Nat
  BY <1>2, EcuAssumption
<1>4. QueueLine(o, v) = Newest(queue, Capacity)
  BY DEF QueueLine, line
<1> HIDE DEF queue
<1> QED BY <1>3, <1>4, NewestTyped

\* The firmware's write of an output pin is no input.
LEMMA ReportOutputKeeps ==
  ASSUME EcuInv, NEW o \in Outputs, NEW v \in {0, 1}, ReportOutput(o, v)
  PROVE  EcuInv' /\ TeethStep
<1>1. TcpTyped /\ LinkTyped /\ TallyTyped /\ InputsTyped
  BY DEF EcuInv, TypeOK
<1>2. UNCHANGED <<embedded, uses, levels, position, exti, irqs, rises, client, recv_buffer,
                  wire, closed, torn, whole, pending_inputs, firmware, seen, snapshot, view,
                  expect, half, fed, sessions>>
  BY DEF ReportOutput, firmwareVars
<1>3. /\ values' = [values EXCEPT ![o] = v] /\ pins' = [pins EXCEPT ![o] = v]
      /\ reports' = reports + 1 /\ reports \in Nat
      /\ values \in [Names -> Int] /\ pins \in OutputLevels
  BY <1>1 DEF ReportOutput, InputsTyped, LinkTyped, TallyTyped
<1>4. values' \in [Names -> Int] /\ reports' \in Nat /\ pins' \in OutputLevels
  <2>1. v \in Int /\ v \in {Unknown, 0, 1}
    BY DEF Unknown
  <2>2. values' \in [Names -> Int]
    BY <1>3, <2>1, Zenon
  <2>3. pins' \in OutputLevels
    BY <1>3, <2>1, Zenon DEF OutputLevels
  <2>4. reports' \in Nat
    BY <1>3
  <2> QED BY <2>2, <2>3, <2>4
<1>5. o \notin Inputs /\ Inputs = {"din", "wheel"} /\ Inputs \subseteq Names
  BY EcuAssumption, LinesTyped
<1>6. \A n \in Inputs : values'[n] = values[n]
  BY <1>3, <1>5
<1>7. InputsTyped'
  BY <1>1, <1>2, <1>4, Zenon DEF InputsTyped
<1>8. LevelInv' /\ FreshInv'
  <2>1. LevelInv /\ FreshInv /\ values'["din"] = values["din"]
    BY <1>5, <1>6 DEF EcuInv, SignalInv
  <2>2. LevelInv'
    BY <1>2, <1>6, <2>1, Zenon DEF LevelInv, Inputs
  <2> QED BY <1>2, <2>1, <2>2, Zenon DEF FreshInv
<1>9. RoutedInv' /\ EdgeOnItsWay' /\ WheelInv'
  BY <1>2, Zenon DEF EcuInv, SignalInv, RoutedInv, Routed, EdgeOnItsWay, WheelInv
<1>10. TeethStep
  <2>1. position' = position /\ position \in Int
    BY <1>1, <1>2 DEF InputsTyped
  <2>2. ~(position' < position)
    BY <2>1
  <2> QED BY <2>2, Zenon DEF TeethStep
<1>11. /\ outputs' \in OutputLevels /\ next_output_sequence' \in Nat
       /\ output_events' \in Seq(Events) /\ Len(output_events') <= MaxEvents
  <2>1. CASE PublishOutput(o, v)
    BY <1>1, <2>1, PublishKeeps
  <2>2. CASE UNCHANGED <<outputs, output_events, next_output_sequence>>
    BY <1>1, <2>2 DEF LinkTyped
  <2> QED BY <2>1, <2>2, Zenon DEF ReportOutput
<1>12. /\ outgoing' \in Seq(Outbound) /\ Len(outgoing') <= Capacity
       /\ gap' \in BOOLEAN /\ told' \subseteq Outputs
  <2>1. /\ outgoing \in Seq(Outbound) /\ Len(outgoing) <= Capacity /\ gap \in BOOLEAN
        /\ told \subseteq Outputs
    BY <1>1 DEF TcpTyped, TallyTyped
  <2>2. QueueLine(o, v) \in Seq(Outbound) /\ Len(QueueLine(o, v)) <= Capacity
    BY <1>3, <2>1, QueueKeeps
  <2>3. outgoing' \in {outgoing, QueueLine(o, v)}
    BY Zenon DEF ReportOutput
  <2>4. gap' \in BOOLEAN
    BY <2>1, Zenon DEF ReportOutput
  <2>5. told' = told \/ told' = told \cup {o}
    BY Zenon DEF ReportOutput
  <2>6. told' \subseteq Outputs
    BY <2>1, <2>5
  <2> QED BY <2>1, <2>2, <2>3, <2>4, <2>6, Zenon
<1>13. TcpTyped' /\ LinkTyped' /\ TallyTyped'
  BY <1>1, <1>2, <1>4, <1>11, <1>12, Zenon DEF TcpTyped, LinkTyped, TallyTyped
<1> QED BY <1>7, <1>8, <1>9, <1>10, <1>13, Zenon DEF EcuInv, TypeOK, SignalInv

-----------------------------------------------------------------------------
(* The theorems.                                                            *)

LEMMA EcuInitial == Init => EcuInv
<1> SUFFICES ASSUME Init PROVE EcuInv
  OBVIOUS
<1>1. PoweredUp
  BY DEF Init, PoweredUp
<1>2. InputsTyped /\ SignalInv
  BY <1>1, PowerUp
<1>3. {Capacity, MaxEvents, MaxInputs} \subseteq Nat \ {0}
  BY EcuAssumption
<1>4. TcpTyped
  <2>1. closed \in BOOLEAN /\ torn \in BOOLEAN
    BY Zenon DEF Init
  <2>2. client \in Nat /\ whole \in Int
    BY DEF Init
  <2>3. /\ wire \in Seq(Inbound) /\ recv_buffer \in Seq(Inbound) /\ Len(recv_buffer) <= Capacity
        /\ outgoing \in Seq(Outbound) /\ Len(outgoing) <= Capacity /\ half \in Seq(Outbound)
    BY <1>3 DEF Init
  <2> QED BY <2>1, <2>2, <2>3 DEF TcpTyped
<1>5. LinkTyped
  <2>1. /\ pending_inputs \in Seq([name : {"din", "rpm"}, value : Int])
        /\ Len(pending_inputs) <= MaxInputs
        /\ output_events \in Seq(Events) /\ Len(output_events) <= MaxEvents
        /\ next_output_sequence \in Nat /\ expect \in Nat
    BY <1>3 DEF Init
  <2>2. outputs \in OutputLevels /\ pins \in OutputLevels /\ view \in OutputLevels
    BY Silent, Zenon DEF Init
  <2> QED BY <2>1, <2>2 DEF LinkTyped
<1>6. TallyTyped
  <2>1. /\ embedded \in BOOLEAN /\ uses \in {"inputs", "outputs"} /\ told \subseteq Outputs
        /\ gap \in BOOLEAN
    BY Zenon DEF Init
  <2>2. fed \in Nat /\ reports \in Nat /\ sessions \in Nat
    BY DEF Init
  <2> QED BY <2>1, <2>2 DEF TallyTyped
<1> QED BY <1>2, <1>4, <1>5, <1>6 DEF EcuInv, TypeOK

LEMMA EcuStep == EcuInv /\ [Next]_vars => EcuInv' /\ [TeethStep]_vars
<1> SUFFICES ASSUME EcuInv, [Next]_vars PROVE EcuInv' /\ [TeethStep]_vars
  OBVIOUS
<1>1. CASE Next
  <2>1. CASE Poll
    BY <2>1, PollLinkKeeps, PollSocketKeeps DEF Poll
  <2>2. CASE Feeder
    BY <2>2, FeederKeeps
  <2>3. CASE Firmware
    BY <2>3, FirmwareKeeps
  <2>4. CASE TakeOutputEvents
    BY <2>4, TakeOutputEventsKeeps
  <2>5. CASE ReadOutputs
    BY <2>5, ReadOutputsKeeps
  <2>6. CASE Restart
    BY <2>6, RestartKeeps
  <2>7. CASE \E o \in Outputs, v \in {0, 1} : ReportOutput(o, v)
    BY <2>7, ReportOutputKeeps
  <2> QED BY <1>1, <2>1, <2>2, <2>3, <2>4, <2>5, <2>6, <2>7, Zenon DEF Next
<1>2. CASE UNCHANGED vars
  <2>1. UNCHANGED inputVars /\ UNCHANGED firmwareVars
    BY <1>2 DEF vars
  <2>2. InputsTyped' /\ SignalInv'
    BY <2>1, InputsLeft DEF EcuInv, TypeOK
  <2>3. UNCHANGED <<embedded, uses, client, recv_buffer, outgoing, wire, closed, torn, whole,
          pending_inputs, outputs, output_events, next_output_sequence, pins, view, expect,
          half, told, gap, fed, reports, sessions>>
    BY <1>2 DEF vars, tcpVars, linkVars, hostVars, tallyVars
  <2>4. TcpTyped' /\ LinkTyped' /\ TallyTyped'
    BY <2>3, Zenon DEF EcuInv, TypeOK, TcpTyped, LinkTyped, TallyTyped
  <2> QED BY <1>2, <2>2, <2>4 DEF EcuInv, TypeOK
<1> QED BY <1>1, <1>2

LEMMA EcuInvariant == Spec => []EcuInv
<1> QED BY EcuInitial, EcuStep, PTL DEF Spec

\* Type correctness: the buffers, the queue of output lines, the link's queues of inputs
\* and of events stay within their limits, what is in them is well formed, PR and the
\* pending interrupts are of the lines of the pins, and the wheel stays in its revolution.
THEOREM TypeCorrect == Spec => []TypeOK
<1>1. EcuInv => TypeOK
  BY DEF EcuInv
<1> QED BY <1>1, EcuInvariant, PTL

\* Every edge that is latched is on its way to the firmware, and an idle firmware with no
\* interrupt pending has read the level din has, however polls, edges, restarts and the
\* steps of the handler interleave (check_digital_edges, raise_line_if_configured).
THEOREM EdgesSeen == Spec => []NoEdgeMissed
<1>1. EcuInv => NoEdgeMissed
  <2> SUFFICES ASSUME EcuInv PROVE NoEdgeMissed
    OBVIOUS
  <2>1. EdgeOnItsWay /\ FreshInv
    BY DEF EcuInv, SignalInv
  <2>2. ASSUME firmware = "idle", irqs = {} PROVE seen = (values["din"] # 0)
    <3>1. exti.pr = {}
      BY <2>1, <2>2, Zenon DEF EdgeOnItsWay
    <3> QED BY <2>1, <2>2, <3>1, Zenon DEF FreshInv
  <2> QED BY <2>1, <2>2, Zenon DEF NoEdgeMissed
<1> QED BY <1>1, EcuInvariant, PTL

\* The wheel delivers every tooth of a revolution and no other, for every tooth count,
\* number of missing teeth, and sequence of speeds and poll intervals, as long as half a
\* slot is longer than the farthest turn between two polls (TriggerWheel::advance).
THEOREM TeethComplete == Spec => TeethDelivered
<1> QED BY EcuInvariant, EcuStep, PTL DEF TeethDelivered, Spec

-----------------------------------------------------------------------------
(* How the parts of lines follow each other.                                *)

\* A start is followed by its end, and an end by a start.
Joined(q) ==
  \A i \in 1..(Len(q) - 1) :
    /\ (q[i].part = 1 => q[i + 1] = [q[i] EXCEPT !.part = 2])
    /\ (q[i].part = 2 => q[i + 1].part = 1)
StartsOnly(q) == \A i \in 1..Len(q) : q[i].part = 1
Begun(q) == Len(q) > 0 => q[1].part = 1
Ended(q) == Len(q) > 0 => q[Len(q)].part = 2

\* Each of the two parts of a line determines the other.
Twins(S) ==
  \A x, y \in S : /\ x.part \in 1..2
                  /\ (x.part = 1 /\ y = [x EXCEPT !.part = 2] =>
                        y.part = 2 /\ x = [y EXCEPT !.part = 1])

LEMMA PartsAreTwins == Twins(Inbound) /\ Twins(Outbound)
<1>1. Twins(Inbound)
  BY DEF Twins, Inbound
<1>2. Twins(Outbound)
  BY DEF Twins, Outbound
<1> QED BY <1>1, <1>2

\* The ends of a queue whose parts follow each other are whole lines, but for one that
\* lost its start (process_complete_lines).
LEMMA EndsAreWhole ==
  ASSUME NEW S, Twins(S), NEW q \in Seq(S), Joined(q)
  PROVE  WholeLines(q) = {i \in 2..Len(q) : q[i].part = 2}
<1>1. Len(q) \in Nat /\ \A i \in 1..Len(q) : q[i] \in S
  OBVIOUS
<1>2. \A i \in 1..Len(q) : q[i].part \in 1..2
  BY <1>1, Zenon DEF Twins
<1>3. ASSUME NEW i \in 2..Len(q), q[i].part = 2
      PROVE  /\ q[i - 1] = [q[i] EXCEPT !.part = 1]
             /\ (i > 2 => q[i - 2].part = 2)
  <2>1. i - 1 \in 1..(Len(q) - 1) /\ i - 1 \in 1..Len(q) /\ (i - 1) + 1 = i /\ i \in 1..Len(q)
    BY <1>1, <1>3
  <2>2. /\ (q[i - 1].part = 1 => q[i] = [q[i - 1] EXCEPT !.part = 2])
        /\ (q[i - 1].part = 2 => q[i].part = 1)
    BY <2>1, Zenon DEF Joined
  <2>3. q[i - 1].part = 1
    <3>1. q[i - 1].part \in 1..2
      BY <1>2, <2>1, Zenon
    <3>2. q[i - 1].part # 2
      BY <1>3, <2>2
    <3> DEFINE x == q[i - 1].part
    <3> HIDE DEF x
    <3>3. x \in 1..2 /\ x # 2
      BY <3>1, <3>2 DEF x
    <3>4. x = 1
      BY <3>3
    <3> QED BY <3>4 DEF x
  <2>4. q[i - 1] = [q[i] EXCEPT !.part = 1]
    BY <1>1, <2>1, <2>2, <2>3, Zenon DEF Twins
  <2>5. ASSUME i > 2 PROVE q[i - 2].part = 2
    <3>1. i - 2 \in 1..(Len(q) - 1) /\ i - 2 \in 1..Len(q) /\ (i - 2) + 1 = i - 1
      BY <1>1, <1>3, <2>5
    <3>2. q[i - 2].part = 1 => q[i - 1] = [q[i - 2] EXCEPT !.part = 2]
      BY <3>1, Zenon DEF Joined
    <3>3. q[i - 2].part = 1 => q[i - 1].part = 2
      BY <1>1, <2>1, <3>1, <3>2, Zenon DEF Twins
    <3>4. q[i - 2].part \in 1..2 /\ q[i - 2].part # 1
      BY <1>2, <2>3, <3>1, <3>3
    <3> DEFINE x == q[i - 2].part
    <3> HIDE DEF x
    <3>5. x \in 1..2 /\ x # 1
      BY <3>4 DEF x
    <3>6. x = 2
      BY <3>5
    <3> QED BY <3>6 DEF x
  <2> QED BY <2>4, <2>5
<1> QED BY <1>3, Zenon DEF WholeLines

\* LastEnd is the last end, if there is one.
LEMMA LastEndIs ==
  ASSUME NEW S, NEW q \in Seq(S)
  PROVE  /\ LastEnd(q) \in 0..Len(q)
         /\ (LastEnd(q) # 0 => q[LastEnd(q)].part = 2)
         /\ \A i \in 1..Len(q) : q[i].part = 2 => i <= LastEnd(q)
<1> DEFINE ends == {i \in DOMAIN q : q[i].part = 2}
           e == LastEnd(q)
<1>1. Len(q) \in Nat /\ DOMAIN q = 1..Len(q) /\ ends \subseteq 1..Len(q)
  OBVIOUS
<1>2. e = IF ends = {} THEN 0 ELSE Max(ends)
  BY DEF LastEnd
<1>3. \A i \in 1..Len(q) : q[i].part = 2 => i \in ends
  BY <1>1
<1>4. \A i \in ends : q[i].part = 2
  OBVIOUS
<1> HIDE DEF ends, e
<1>5. e \in 0..Len(q)
  BY EndsInside DEF e
<1>6. CASE ends = {}
  <2>1. e = 0
    BY <1>2, <1>6
  <2> QED BY <1>3, <1>5, <1>6, <2>1 DEF e
<1>7. CASE ends # {}
  <2>1. e \in ends /\ \A i \in ends : i <= e
    BY <1>1, <1>2, <1>7, MaxIn
  <2> QED BY <1>3, <1>4, <1>5, <2>1, Zenon DEF e
<1> QED BY <1>6, <1>7

\* Behind the last end there are only starts.
LEMMA RestStarts ==
  ASSUME NEW S, Twins(S), NEW q \in Seq(S)
  PROVE  StartsOnly(SubSeq(q, LastEnd(q) + 1, Len(q)))
<1> DEFINE e == LastEnd(q)
           rest == SubSeq(q, e + 1, Len(q))
<1>1. e \in 0..Len(q) /\ \A i \in 1..Len(q) : q[i].part = 2 => i <= e
  BY LastEndIs
<1> HIDE DEF e
<1>2. Len(q) \in Nat /\ e \in Nat /\ e + 1 \in 1..(Len(q) + 1)
  BY <1>1
<1>3. Len(rest) = Len(q) - e /\ \A i \in 1..Len(rest) : rest[i] = q[i + e]
  BY <1>2
<1> HIDE DEF rest
<1> SUFFICES ASSUME NEW i \in 1..Len(rest) PROVE rest[i].part = 1
  BY DEF StartsOnly, rest, e
<1>4. i + e \in 1..Len(q) /\ ~(i + e <= e)
  BY <1>2, <1>3
<1>5. rest[i] = q[i + e] /\ q[i + e].part # 2
  BY <1>1, <1>3, <1>4
<1>6. q[i + e].part \in 1..2
  <2>1. q[i + e] \in S
    BY <1>4
  <2> QED BY <2>1, Zenon DEF Twins
<1> DEFINE x == rest[i].part
<1>7. x \in 1..2 /\ x # 2
  BY <1>5, <1>6
<1> HIDE DEF x
<1>8. x = 1
  BY <1>7
<1> QED BY <1>8 DEF x

\* A queue that fits is not cut.
LEMMA NewestAll ==
  ASSUME NEW S, NEW q \in Seq(S), NEW n \in Nat, Len(q) <= n
  PROVE  Newest(q, n) = q
<1>1. Len(q) \in Nat /\ Least(n, Len(q)) = Len(q)
  BY DEF Least
<1>2. Newest(q, n) = SubSeq(q, 1, Len(q))
  BY <1>1 DEF Newest
<1> QED BY <1>2

\* The parts of two queues one behind the other.
LEMMA CatParts ==
  ASSUME NEW S, NEW a \in Seq(S), NEW b \in Seq(S)
  PROVE  /\ a \o b \in Seq(S) /\ Len(a \o b) = Len(a) + Len(b)
         /\ \A i \in 1..Len(a \o b) : (a \o b)[i] = IF i <= Len(a) THEN a[i] ELSE b[i - Len(a)]
OBVIOUS

LEMMA ListTyped ==
  ASSUME NEW S, NEW m \in Nat, NEW list \in [1..m -> S]
  PROVE  list \in Seq(S) /\ Len(list) = m
<1>1. DOMAIN list = 1..m
  OBVIOUS
<1> QED BY <1>1

LEMMA CatAssoc ==
  ASSUME NEW S, NEW a \in Seq(S), NEW b \in Seq(S), NEW c \in Seq(S)
  PROVE  a \o (b \o c) = (a \o b) \o c
OBVIOUS

\* What is taken from the front of b and put behind a, and what is left of both from e on,
\* are the parts of a \o b at their places.
Divided(S, a, b, k, e) ==
  LET q == a \o b
      got == a \o SubSeq(b, 1, k)
      rest == SubSeq(got, e + 1, Len(got))
      left == rest \o SubSeq(b, k + 1, Len(b))
  IN  /\ q \in Seq(S) /\ got \in Seq(S) /\ rest \in Seq(S) /\ left \in Seq(S)
      /\ Len(q) = Len(a) + Len(b) /\ Len(got) = Len(a) + k
      /\ Len(rest) = Len(got) - e /\ Len(left) = Len(q) - e
      /\ \A i \in 1..Len(got) : got[i] = q[i]
      /\ \A i \in 1..Len(rest) : rest[i] = got[i + e]
      /\ \A i \in 1..Len(left) : left[i] = q[i + e]
      /\ \A j \in 1..k : got[Len(a) + j] = b[j]

LEMMA SplitPoint ==
  ASSUME NEW S, NEW a \in Seq(S), NEW b \in Seq(S), NEW k \in 0..Len(b),
         NEW e \in 0..(Len(a) + k)
  PROVE  Divided(S, a, b, k, e)
<1> DEFINE q == a \o b
           front == SubSeq(b, 1, k)
           tail == SubSeq(b, k + 1, Len(b))
           got == a \o front
           rest == SubSeq(got, e + 1, Len(got))
           left == rest \o tail
<1>1. Len(a) \in Nat /\ Len(b) \in Nat /\ k \in Nat /\ e \in Nat /\ k <= Len(b)
  OBVIOUS
<1>2. front \in Seq(S) /\ Len(front) = k /\ \A i \in 1..k : front[i] = b[i]
  BY <1>1
<1>3. tail \in Seq(S) /\ Len(tail) = Len(b) - k /\ \A i \in 1..(Len(b) - k) : tail[i] = b[i + k]
  <2>1. k + 1 \in 1..(Len(b) + 1)
    BY <1>1
  <2> QED BY <1>1, <2>1
<1>4. q \in Seq(S) /\ Len(q) = Len(a) + Len(b)
      /\ \A i \in 1..Len(q) : q[i] = IF i <= Len(a) THEN a[i] ELSE b[i - Len(a)]
  BY <1>1
<1> HIDE DEF front, tail, q
<1>5. got \in Seq(S) /\ Len(got) = Len(a) + k
      /\ \A i \in 1..Len(got) : got[i] = IF i <= Len(a) THEN a[i] ELSE front[i - Len(a)]
  BY <1>1, <1>2
<1> HIDE DEF got
<1>6. rest \in Seq(S) /\ Len(rest) = Len(got) - e /\ \A i \in 1..Len(rest) : rest[i] = got[i + e]
  <2>1. e + 1 \in 1..(Len(got) + 1) /\ Len(got) \in Nat
    BY <1>1, <1>5
  <2> QED BY <1>1, <1>5, <2>1
<1> HIDE DEF rest
<1>7. left \in Seq(S) /\ Len(left) = Len(rest) + Len(tail)
      /\ \A i \in 1..Len(left) : left[i] = IF i <= Len(rest) THEN rest[i] ELSE tail[i - Len(rest)]
  <2>1. rest \in Seq(S) /\ tail \in Seq(S)
    BY <1>3, <1>6
  <2> QED BY <2>1, CatParts
<1> HIDE DEF left
<1>8. \A i \in 1..Len(got) : got[i] = q[i]
  <2> SUFFICES ASSUME NEW i \in 1..Len(got) PROVE got[i] = q[i]
    OBVIOUS
  <2>1. i \in 1..Len(q)
    BY <1>1, <1>4, <1>5
  <2>2. CASE i <= Len(a)
    BY <1>4, <1>5, <2>1, <2>2
  <2>3. CASE ~(i <= Len(a))
    <3>1. i - Len(a) \in 1..k
      BY <1>1, <1>5, <2>3
    <3>2. got[i] = front[i - Len(a)] /\ q[i] = b[i - Len(a)]
      BY <1>4, <1>5, <2>1, <2>3
    <3> QED BY <1>2, <3>1, <3>2
  <2> QED BY <2>2, <2>3
<1>9. \A i \in 1..Len(left) : left[i] = q[i + e]
  <2> SUFFICES ASSUME NEW i \in 1..Len(left) PROVE left[i] = q[i + e]
    OBVIOUS
  <2>1. CASE i <= Len(rest)
    <3>1. i \in 1..Len(rest) /\ i + e \in 1..Len(got)
      BY <1>1, <1>5, <1>6, <2>1
    <3> QED BY <1>6, <1>7, <1>8, <2>1, <3>1
  <2>2. CASE ~(i <= Len(rest))
    <3>1. /\ i - Len(rest) \in 1..(Len(b) - k) /\ i + e \in 1..Len(q) /\ ~(i + e <= Len(a))
          /\ (i - Len(rest)) + k = (i + e) - Len(a)
      BY SMTT(30), <1>1, <1>3, <1>4, <1>5, <1>6, <1>7, <2>2
    <3>2. left[i] = tail[i - Len(rest)] /\ tail[i - Len(rest)] = b[(i - Len(rest)) + k]
      BY <1>3, <1>7, <2>2, <3>1
    <3>3. q[i + e] = b[(i + e) - Len(a)]
      BY <1>4, <3>1
    <3> QED BY <3>1, <3>2, <3>3
  <2> QED BY <2>1, <2>2
<1>10. \A j \in 1..k : got[Len(a) + j] = b[j]
  <2> SUFFICES ASSUME NEW j \in 1..k PROVE got[Len(a) + j] = b[j]
    OBVIOUS
  <2>1. Len(a) + j \in 1..Len(got) /\ ~(Len(a) + j <= Len(a)) /\ (Len(a) + j) - Len(a) = j
    BY <1>1, <1>5
  <2> QED BY <1>2, <1>5, <2>1
<1>11. Len(left) = Len(q) - e
  BY <1>1, <1>3, <1>4, <1>5, <1>6, <1>7
<1> QED BY <1>4, <1>5, <1>6, <1>7, <1>8, <1>9, <1>10, <1>11 DEF Divided, front, tail, q, got, rest, left

\* The parts of a queue from its last end on, or of the queue from its start, follow each
\* other as they did.
LEMMA OrderKept ==
  ASSUME NEW S, Twins(S), NEW q \in Seq(S), Joined(q), NEW e \in 0..Len(q),
         NEW p \in Seq(S), Len(p) = Len(q) - e, \A i \in 1..Len(p) : p[i] = q[i + e]
  PROVE  /\ Joined(p) /\ (Ended(q) => Ended(p))
         /\ (e = 0 /\ Begun(q) => Begun(p))
         /\ (e # 0 /\ q[e].part = 2 => Begun(p))
<1>1. Len(q) \in Nat /\ Len(p) \in Nat /\ e \in Nat
  OBVIOUS
<1>2. Joined(p)
  <2> SUFFICES ASSUME NEW i \in 1..(Len(p) - 1)
               PROVE  /\ (p[i].part = 1 => p[i + 1] = [p[i] EXCEPT !.part = 2])
                      /\ (p[i].part = 2 => p[i + 1].part = 1)
    BY DEF Joined
  <2>1. /\ i + e \in 1..(Len(q) - 1) /\ i \in 1..Len(p) /\ i + 1 \in 1..Len(p)
        /\ (i + 1) + e = (i + e) + 1
    BY <1>1
  <2>2. p[i] = q[i + e] /\ p[i + 1] = q[(i + e) + 1]
    BY <2>1
  <2> QED BY <2>1, <2>2, Zenon DEF Joined
<1>3. Ended(q) => Ended(p)
  <2> SUFFICES ASSUME Ended(q), Len(p) > 0 PROVE p[Len(p)].part = 2
    BY DEF Ended
  <2>1. Len(q) > 0 /\ Len(p) \in 1..Len(p) /\ Len(p) + e = Len(q)
    BY <1>1
  <2>2. p[Len(p)] = q[Len(q)]
    BY <2>1
  <2> QED BY <2>1, <2>2 DEF Ended
<1>4. ASSUME e = 0, Begun(q) PROVE Begun(p)
  <2> SUFFICES ASSUME Len(p) > 0 PROVE p[1].part = 1
    BY DEF Begun
  <2>1. Len(q) > 0 /\ 1 \in 1..Len(p) /\ 1 + e = 1
    BY <1>1, <1>4
  <2> QED BY <1>4, <2>1 DEF Begun
<1>5. ASSUME e # 0, q[e].part = 2 PROVE Begun(p)
  <2> SUFFICES ASSUME Len(p) > 0 PROVE p[1].part = 1
    BY DEF Begun
  <2>1. e \in 1..(Len(q) - 1) /\ 1 \in 1..Len(p) /\ 1 + e = e + 1
    BY <1>1, <1>5
  <2>2. p[1] = q[e + 1]
    BY <2>1
  <2> QED BY <1>5, <2>1, <2>2 DEF Joined
<1> QED BY <1>2, <1>3, <1>4, <1>5

\* What is taken from the front keeps its order.
LEMMA FrontJoined ==
  ASSUME NEW S, NEW q \in Seq(S), Joined(q), NEW p \in Seq(S), Len(p) <= Len(q),
         \A i \in 1..Len(p) : p[i] = q[i]
  PROVE  Joined(p)
<1> SUFFICES ASSUME NEW i \in 1..(Len(p) - 1)
             PROVE  /\ (p[i].part = 1 => p[i + 1] = [p[i] EXCEPT !.part = 2])
                    /\ (p[i].part = 2 => p[i + 1].part = 1)
  BY DEF Joined
<1>1. Len(q) \in Nat /\ Len(p) \in Nat
  OBVIOUS
<1>2. i \in 1..(Len(q) - 1) /\ i \in 1..Len(p) /\ i + 1 \in 1..Len(p)
  BY <1>1
<1>3. p[i] = q[i] /\ p[i + 1] = q[i + 1]
  BY <1>2
<1> QED BY <1>2, <1>3, Zenon DEF Joined

\* The lines of a read that begins in the middle of one say of din what the ends among the
\* parts that were read say (process_complete_lines, process_line).
SaysDin(v, a, b, k) ==
  LET got == a \o SubSeq(b, 1, k)
      ends == {i \in 1..k : b[i].part = 2 /\ b[i].name = "din"}
  IN  SetValues(v, got, WholeLines(got))["din"]
        = IF ends = {} THEN v["din"] ELSE b[Max(ends)].value

LEMMA DinTaken ==
  ASSUME NEW v, NEW a \in Seq(Inbound), NEW b \in Seq(Inbound), NEW k \in 0..Len(b),
         StartsOnly(a), Joined(a \o b), Begun(a \o b)
  PROVE  SaysDin(v, a, b, k)
<1> DEFINE q == a \o b
           got == a \o SubSeq(b, 1, k)
           ends == {i \in 1..k : b[i].part = 2 /\ b[i].name = "din"}
           last == {i \in WholeLines(got) : got[i].name = "din"}
           n == Len(a)
<1>1. Len(a) \in Nat /\ Len(b) \in Nat /\ k \in Nat /\ k <= Len(b)
  OBVIOUS
<1>2. 0 \in 0..(Len(a) + k)
  BY <1>1
<1>3. /\ q \in Seq(Inbound) /\ got \in Seq(Inbound) /\ Len(q) = n + Len(b) /\ Len(got) = n + k
      /\ \A i \in 1..Len(got) : got[i] = q[i]
      /\ \A j \in 1..k : got[n + j] = b[j]
  <2>1. Divided(Inbound, a, b, k, 0)
    BY <1>2, SplitPoint
  <2> QED BY <2>1 DEF Divided
<1>4. \A i \in 1..Len(q) : q[i] = IF i <= n THEN a[i] ELSE b[i - n]
  BY CatParts
<1>5. Joined(q) /\ Begun(q)
  OBVIOUS
<1> HIDE DEF q, got, n
<1>6. Joined(got)
  <2>1. Len(got) <= Len(q)
    BY <1>1, <1>3 DEF n
  <2> QED BY <1>3, <1>5, <2>1, FrontJoined
<1>7. WholeLines(got) = {i \in 2..Len(got) : got[i].part = 2}
  BY <1>3, <1>6, PartsAreTwins, EndsAreWhole
<1>8. n \in Nat
  BY <1>1 DEF n
<1>9. ASSUME NEW j \in ends PROVE n + j \in last
  <2>1. j \in 1..k /\ b[j].part = 2 /\ b[j].name = "din"
    OBVIOUS
  <2>2. n + j \in 1..Len(got) /\ got[n + j] = b[j]
    BY <1>1, <1>3, <1>8, <2>1
  <2>3. n + j # 1
    <3> SUFFICES ASSUME n + j = 1 PROVE FALSE
      OBVIOUS
    <3>1. q[1].part = 1 /\ got[1] = q[1]
      BY <1>1, <1>3, <1>5, <1>8, <2>1, <2>2 DEF Begun
    <3> QED BY <2>1, <2>2, <3>1
  <2>4. n + j \in 2..Len(got)
    BY <1>1, <1>3, <1>8, <2>1, <2>2, <2>3
  <2> QED BY <1>7, <2>1, <2>2, <2>4
<1>10. ASSUME NEW i \in last PROVE i - n \in ends /\ i \in 1..Len(got)
  <2>1. i \in 2..Len(got) /\ got[i].part = 2 /\ got[i].name = "din"
    BY <1>7
  <2>2. i \in 1..Len(got) /\ i \in 1..Len(q)
    BY <1>1, <1>3, <1>8, <2>1
  <2>3. i > n
    <3> SUFFICES ASSUME i <= n PROVE FALSE
      BY <1>8, <2>1
    <3>1. got[i] = a[i]
      BY <1>3, <1>4, <2>2
    <3>2. a[i].part = 1
      BY <2>2 DEF StartsOnly, n
    <3> QED BY <2>1, <3>1, <3>2
  <2>4. i - n \in 1..k /\ n + (i - n) = i
    BY <1>1, <1>3, <1>8, <2>2, <2>3
  <2>5. got[i] = b[i - n]
    BY <1>3, <2>4
  <2> QED BY <2>1, <2>2, <2>4, <2>5
<1>11. ends \subseteq 1..k /\ last \subseteq 1..Len(got) /\ Len(got) \in Nat
  BY <1>1, <1>3, <1>8, <1>10
<1>12. "din" \in Names
  BY LinesTyped
<1>13. SetValues(v, got, WholeLines(got))["din"]
         = IF last = {} THEN v["din"] ELSE got[Max(last)].value
  BY <1>12 DEF SetValues
<1>14. \A j \in 1..k : got[n + j] = b[j]
  BY <1>3
<1> HIDE DEF ends, last
<1> SUFFICES SetValues(v, got, WholeLines(got))["din"]
               = IF ends = {} THEN v["din"] ELSE b[Max(ends)].value
  BY DEF SaysDin, got, ends
<1>15. CASE ends = {}
  <2>1. last = {}
    BY <1>10, <1>15
  <2> QED BY <1>13, <1>15, <2>1
<1>16. CASE ends # {}
  <2>1. last # {}
    BY <1>9, <1>16
  <2> DEFINE m == Max(last)
             x == Max(ends)
  <2>2. m \in last /\ \A i \in last : i <= m
    BY <1>11, <2>1, MaxIn
  <2>3. x \in ends /\ \A i \in ends : i <= x
    BY <1>1, <1>11, <1>16, MaxIn
  <2> HIDE DEF m, x
  <2>4. n + x <= m /\ m - n <= x
    BY <1>9, <1>10, <2>2, <2>3
  <2>5. m \in 1..Len(got) /\ x \in 1..k
    BY <1>11, <2>2, <2>3
  <2>6. m = n + x
    BY <1>1, <1>8, <1>11, <2>4, <2>5
  <2>7. got[m].value = b[x].value
    BY <1>14, <2>5, <2>6
  <2> QED BY <1>13, <1>16, <2>1, <2>7, Zenon DEF m, x
<1> QED BY <1>15, <1>16

\* The parts of the lines for the emulator, read and unread, are in order while none was
\* cut, those held from an earlier read begin a line, and din is what the last end said.
LineOrder ==
  LET q == recv_buffer \o wire
  IN  /\ Joined(q) /\ Begun(q) /\ (~closed => Ended(q))
      /\ StartsOnly(recv_buffer)
      /\ (client = 0 => Len(q) = 0 /\ ~closed)
LineInv == ~embedded /\ ~torn => LineOrder /\ values["din"] = whole

\* The wheel does not drive din.
LEMMA AdvanceDin ==
  ASSUME NEW v \in [Names -> Int], NEW delta, Advance(v, delta)
  PROVE  values'["din"] = v["din"] /\ \A o \in Outputs : values'[o] = v[o]
<1> DEFINE up == IF LevelAt((position + WheelMove(v["rpm"], delta)) % Revolution) THEN 1 ELSE 0
<1>1. values' = IF v["rpm"] <= 0 THEN v ELSE [v EXCEPT !["wheel"] = up]
  BY Zenon DEF Advance
<1> HIDE DEF up
<1>2. "din" \in Names /\ "din" # "wheel" /\ Outputs \subseteq Names /\ "wheel" \notin Outputs
  BY LinesTyped, EcuAssumption DEF Names
<1> QED BY <1>1, <1>2

\* A poll takes whole lines from the front of what was written, and keeps a start whose
\* end it has not read; it forgets nothing but at a disconnect, where the bridge clears
\* its buffer (receive_from_client, disconnect_client).
LEMMA PollLines ==
  ASSUME EcuInv, LineInv, NEW delta \in 1..MaxDelta, NEW n \in 0..Len(wire),
         NEW k \in 0..Len(outgoing), PollSocket(n, k, delta)
  PROVE  LineInv'
<1> SUFFICES ASSUME ~torn' PROVE LineOrder' /\ values'["din"] = whole'
  BY DEF LineInv
<1> DEFINE front == SubSeq(wire, 1, n)
           tail == SubSeq(wire, n + 1, Len(wire))
           read == recv_buffer \o front
           q == recv_buffer \o wire
           disconnected == closed /\ n = Len(wire)
           e == LastEnd(read)
           rest == SubSeq(read, e + 1, Len(read))
           ends == {i \in 1..n : wire[i].part = 2 /\ wire[i].name = "din"}
<1>1. /\ values \in [Names -> Int] /\ wire \in Seq(Inbound) /\ recv_buffer \in Seq(Inbound)
      /\ closed \in BOOLEAN /\ Capacity \in Nat /\ Len(wire) \in Nat /\ Len(recv_buffer) \in Nat
      /\ n \in Nat
  BY EcuAssumption DEF EcuInv, TypeOK, InputsTyped, TcpTyped
<1>2. ~embedded /\ (client = 0 => n = 0)
  BY Zenon DEF PollSocket
<1>3. ~torn /\ ~(Len(recv_buffer) + n > Capacity)
  BY Zenon DEF PollSocket
<1>4. LineOrder /\ values["din"] = whole
  BY <1>2, <1>3 DEF LineInv
<1>5. /\ Joined(q) /\ Begun(q) /\ (~closed => Ended(q)) /\ StartsOnly(recv_buffer)
      /\ (client = 0 => Len(q) = 0 /\ ~closed)
  BY <1>4 DEF LineOrder
<1>6. read \in Seq(Inbound) /\ Len(read) = Len(recv_buffer) + n
  <2>1. 0 \in 0..(Len(recv_buffer) + n)
    BY <1>1
  <2>2. Divided(Inbound, recv_buffer, wire, n, 0)
    BY <1>1, <2>1, SplitPoint
  <2> QED BY <2>2 DEF Divided
<1>7. Newest(read, Capacity) = read
  <2>1. Len(read) <= Capacity
    BY <1>1, <1>3, <1>6
  <2> HIDE DEF read
  <2> QED BY <1>1, <1>6, <2>1, NewestAll
<1>8. PICK reset \in BOOLEAN :
        /\ client' = IF disconnected \/ reset THEN 0 ELSE client
        /\ closed' = (closed /\ ~disconnected /\ ~reset)
        /\ wire' = IF reset THEN <<>> ELSE tail
        /\ torn' = (torn \/ ((disconnected \/ reset) /\ rest # <<>>)
                         \/ Len(recv_buffer) + n > Capacity)
        /\ recv_buffer' = rest
        /\ whole' = IF ends = {} THEN whole ELSE wire[Max(ends)].value
        /\ Advance(SetValues(values, read, WholeLines(read)), delta)
  BY <1>1, <1>7, Zenon DEF PollSocket, Processed
<1>9. /\ e \in 0..Len(read) /\ (e # 0 => read[e].part = 2)
      /\ \A i \in 1..Len(read) : read[i].part = 2 => i <= e
  <2> HIDE DEF read
  <2> QED BY <1>6, LastEndIs
<1>10. values'["din"] = whole'
  <2> DEFINE v == SetValues(values, read, WholeLines(read))
  <2>1. v \in [Names -> Int]
    <3> HIDE DEF read
    <3>1. Len(read) \in Nat /\ WholeLines(read) \subseteq 1..Len(read)
      BY <1>6, EndsInside
    <3>2. \A i \in WholeLines(read) : read[i] \in Inbound
      BY <1>6, <3>1
    <3>3. \A i \in WholeLines(read) : read[i].name \in {"din", "rpm"} /\ read[i].value \in Int
      BY <3>2, Assignments, Zenon
    <3> QED BY <1>1, <3>1, <3>3, SetValuesTyped
  <2>2. v["din"] = IF ends = {} THEN values["din"] ELSE wire[Max(ends)].value
    <3>1. SaysDin(values, recv_buffer, wire, n)
      BY <1>1, <1>5, DinTaken
    <3> QED BY <3>1, Zenon DEF SaysDin
  <2> HIDE DEF v
  <2>3. values'["din"] = v["din"]
    BY <1>8, <2>1, AdvanceDin DEF v
  <2> HIDE DEF ends
  <2> QED BY <1>4, <1>8, <2>2, <2>3
<1> HIDE DEF e
<1> DEFINE left == rest \o tail
<1>11. /\ q \in Seq(Inbound) /\ rest \in Seq(Inbound) /\ left \in Seq(Inbound)
       /\ Len(q) = Len(recv_buffer) + Len(wire)
       /\ Len(rest) = Len(read) - e /\ Len(left) = Len(q) - e
       /\ \A i \in 1..Len(read) : read[i] = q[i]
       /\ \A i \in 1..Len(rest) : rest[i] = read[i + e]
       /\ \A i \in 1..Len(left) : left[i] = q[i + e]
  <2>1. e \in 0..(Len(recv_buffer) + n)
    BY <1>6, <1>9
  <2>2. Divided(Inbound, recv_buffer, wire, n, e)
    BY <1>1, <2>1, SplitPoint
  <2> QED BY <2>2, Zenon DEF Divided
<1> HIDE DEF front, tail, read, q, rest, ends, left
<1>12. StartsOnly(rest)
  <2> HIDE DEF read
  <2>1. StartsOnly(SubSeq(read, LastEnd(read) + 1, Len(read)))
    BY <1>6, PartsAreTwins, RestStarts
  <2> QED BY <2>1, Zenon DEF rest, e
<1>13. e \in 0..Len(q) /\ Len(q) \in Nat
  BY <1>1, <1>6, <1>9, <1>11
<1>14. Joined(left) /\ Begun(left) /\ (Ended(q) => Ended(left))
  <2>1. Twins(Inbound)
    BY PartsAreTwins
  <2>2. /\ Joined(left) /\ (Ended(q) => Ended(left))
        /\ (e = 0 /\ Begun(q) => Begun(left))
        /\ (e # 0 /\ q[e].part = 2 => Begun(left))
    BY <1>5, <1>11, <1>13, <2>1, OrderKept
  <2>3. e # 0 => q[e].part = 2
    <3>1. e # 0 => e \in 1..Len(read)
      BY <1>9
    <3> QED BY <1>9, <1>11, <3>1
  <2> QED BY <1>5, <2>2, <2>3
<1>15. CASE disconnected \/ reset
  <2>1. rest = <<>> /\ ~closed'
    BY <1>8, <1>15
  <2>2. wire' = <<>>
    <3>1. CASE reset
      BY <1>8, <3>1
    <3>2. CASE disconnected
      <4>1. tail = <<>>
        BY <1>1, <3>2 DEF tail
      <4> QED BY <1>8, <4>1
    <3> QED BY <1>15, <3>1, <3>2
  <2>3. recv_buffer' = <<>>
    BY <1>8, <2>1
  <2> DEFINE p == recv_buffer' \o wire'
  <2>4. Len(p) = 0 /\ Len(recv_buffer') = 0
    BY <2>2, <2>3
  <2>5. /\ Joined(p) /\ Begun(p) /\ Ended(p) /\ StartsOnly(recv_buffer')
    BY <2>4 DEF Joined, Begun, Ended, StartsOnly
  <2> HIDE DEF p
  <2>6. LineOrder'
    BY <2>1, <2>4, <2>5 DEF LineOrder, p
  <2> QED BY <1>10, <2>6
<1>16. CASE ~(disconnected \/ reset)
  <2>1. client' = client /\ (closed' <=> closed) /\ wire' = tail /\ recv_buffer' = rest
    BY <1>1, <1>8, <1>16
  <2>2. recv_buffer' \o wire' = left
    BY <2>1 DEF left
  <2>3. Len(q) = 0 => Len(left) = 0
    BY <1>11, <1>13
  <2>4. LineOrder'
    BY <1>5, <1>12, <1>14, <2>1, <2>2, <2>3 DEF LineOrder
  <2> QED BY <1>10, <2>4
<1> QED BY <1>15, <1>16

\* A line, or its start, behind parts that are in order and end with an end.
LEMMA LineBehind ==
  ASSUME NEW S, Twins(S), NEW q \in Seq(S), Joined(q), Ended(q),
         NEW m \in 1..2, NEW line \in Seq(S), Len(line) = m, line[1].part = 1,
         m = 2 => line[2] = [line[1] EXCEPT !.part = 2]
  PROVE  /\ Joined(q \o line) /\ (Begun(q) => Begun(q \o line))
         /\ (m = 2 => Ended(q \o line))
<1> DEFINE p == q \o line
           n == Len(q)
<1>1. /\ n \in Nat /\ Len(p) = n + m /\ p \in Seq(S)
      /\ \A i \in 1..Len(p) : p[i] = IF i <= n THEN q[i] ELSE line[i - n]
  BY CatParts
<1>2. \A i \in 1..n : p[i] = q[i]
  BY <1>1
<1>3. p[n + 1] = line[1] /\ (m = 2 => p[n + 2] = line[2])
  <2>1. n + 1 \in 1..Len(p) /\ ~(n + 1 <= n) /\ (n + 1) - n = 1
    BY <1>1
  <2>2. m = 2 => n + 2 \in 1..Len(p) /\ ~(n + 2 <= n) /\ (n + 2) - n = 2
    BY <1>1
  <2> HIDE DEF p, n
  <2> QED BY <1>1, <2>1, <2>2
<1>4. m = 2 => line[2].part = 2 /\ line[1] \in S /\ line[2] \in S
  <2>1. line[1] \in S /\ (m = 2 => line[2] \in S)
    OBVIOUS
  <2> QED BY <2>1, Zenon DEF Twins
<1> HIDE DEF p
<1>5. Joined(p)
  <2> SUFFICES ASSUME NEW i \in 1..(Len(p) - 1)
               PROVE  /\ (p[i].part = 1 => p[i + 1] = [p[i] EXCEPT !.part = 2])
                      /\ (p[i].part = 2 => p[i + 1].part = 1)
    BY DEF Joined
  <2>1. CASE i < n
    <3>1. i \in 1..(Len(q) - 1) /\ p[i] = q[i] /\ p[i + 1] = q[i + 1]
      BY <1>1, <1>2, <2>1
    <3> QED BY <3>1, Zenon DEF Joined
  <2>2. CASE i = n
    <3>1. p[i] = q[n] /\ q[n].part = 2 /\ p[i + 1] = line[1]
      BY <1>1, <1>2, <1>3, <2>2 DEF Ended
    <3>2. p[i].part = 2 /\ p[i + 1].part = 1
      BY <3>1
    <3> QED BY <3>2
  <2>3. CASE i > n
    <3>1. i = n + 1 /\ m = 2 /\ (n + 1) + 1 = n + 2
      BY <1>1, <2>3
    <3>2. p[i] = line[1] /\ p[i + 1] = line[2]
      BY <1>3, <3>1
    <3> QED BY <3>1, <3>2
  <2> QED BY <1>1, <2>1, <2>2, <2>3
<1>6. ASSUME Begun(q) PROVE Begun(p)
  <2>1. CASE n = 0
    <3>1. p[1] = line[1]
      BY <1>3, <2>1
    <3> QED BY <3>1 DEF Begun
  <2>2. CASE n # 0
    <3>1. p[1] = q[1] /\ n > 0
      BY <1>1, <1>2, <2>2
    <3> QED BY <1>6, <3>1 DEF Begun
  <2> QED BY <2>1, <2>2
<1>7. ASSUME m = 2 PROVE Ended(p)
  <2>1. p[Len(p)] = line[2]
    BY <1>1, <1>3, <1>7
  <2> QED BY <1>4, <1>7, <2>1 DEF Ended
<1> QED BY <1>5, <1>6, <1>7 DEF p

\* The client writes whole lines, but for one that it begins and then closes in.
LEMMA WriteLineLines ==
  ASSUME EcuInv, LineInv, NEW parts \in 1..2, WriteLine(parts)
  PROVE  LineInv'
<1> SUFFICES ASSUME ~embedded', ~torn' PROVE LineOrder' /\ values'["din"] = whole'
  BY DEF LineInv
<1>1. PICK a \in Fed : wire' = wire \o [i \in 1..parts |->
                         [name |-> a.name, value |-> a.value, of |-> fed, part |-> i]]
  BY DEF WriteLine
<1>2. /\ client # 0 /\ ~closed /\ client' = client /\ closed' = (parts = 1)
      /\ UNCHANGED <<embedded, values, recv_buffer, torn, whole>>
  BY DEF WriteLine, inputVars
<1>3. /\ wire \in Seq(Inbound) /\ recv_buffer \in Seq(Inbound) /\ fed \in Nat
  BY DEF EcuInv, TypeOK, TcpTyped, TallyTyped
<1>4. LineOrder /\ values["din"] = whole
  BY <1>2 DEF LineInv
<1> DEFINE line == [i \in 1..parts |->
                         [name |-> a.name, value |-> a.value, of |-> fed, part |-> i]]
           q == recv_buffer \o wire
<1>5. \A i \in 1..parts : [name |-> a.name, value |-> a.value, of |-> fed, part |-> i] \in Inbound
  <2>1. a.name \in {"din", "rpm"} /\ a.value \in Int
    BY FedTyped, Zenon
  <2> QED BY <1>3, <2>1 DEF Inbound
<1>6. line \in Seq(Inbound) /\ Len(line) = parts
  <2>1. parts \in Nat /\ line \in [1..parts -> Inbound] /\ DOMAIN line = 1..parts
    BY <1>5
  <2> HIDE DEF line
  <2> QED BY <2>1
<1>7. line[1].part = 1 /\ (parts = 2 => line[2] = [line[1] EXCEPT !.part = 2])
  OBVIOUS
<1> HIDE DEF line
<1>8. /\ Joined(q) /\ Begun(q) /\ Ended(q) /\ StartsOnly(recv_buffer)
  BY <1>2, <1>4 DEF LineOrder
<1>9. q \in Seq(Inbound) /\ recv_buffer' \o wire' = q \o line
  BY SMTT(30), <1>1, <1>2, <1>3, <1>6 DEF line
<1> HIDE DEF q
<1>10. /\ Joined(q \o line) /\ Begun(q \o line) /\ (parts = 2 => Ended(q \o line))
  BY <1>6, <1>7, <1>8, <1>9, PartsAreTwins, LineBehind
<1>11. LineOrder'
  <2>1. ~closed' => parts # 1
    BY <1>2, Zenon
  <2>2. parts # 1 => parts = 2
    OBVIOUS
  <2> QED BY <1>2, <1>8, <1>9, <1>10, <2>1, <2>2 DEF LineOrder
<1> QED BY <1>2, <1>4, <1>11

\* Nothing else touches the parts of lines or din, but for a close.
LEMMA LinesLeft ==
  ASSUME LineInv, UNCHANGED <<embedded, client, recv_buffer, wire, torn, whole>>,
         (closed' = closed) \/ (closed' /\ client # 0),
         ~embedded => values'["din"] = values["din"]
  PROVE  LineInv'
BY DEF LineInv, LineOrder

LEMMA LineInitial == Init => LineInv
<1> SUFFICES ASSUME Init PROVE LineOrder /\ values["din"] = whole
  BY DEF LineInv
<1>1. recv_buffer = <<>> /\ wire = <<>> /\ closed = FALSE /\ whole = 0
      /\ values = [n \in Names |-> IF n \in Outputs THEN Unknown ELSE 0]
  BY DEF Init
<1>2. values["din"] = 0
  BY <1>1, LinesTyped, EcuAssumption
<1> DEFINE q == recv_buffer \o wire
<1>3. Len(q) = 0 /\ Len(recv_buffer) = 0
  BY <1>1
<1> HIDE DEF q
<1>4. Joined(q) /\ Begun(q) /\ Ended(q) /\ StartsOnly(recv_buffer)
  BY <1>3 DEF Joined, Begun, Ended, StartsOnly
<1>5. LineOrder
  BY <1>1, <1>3, <1>4 DEF LineOrder, q
<1> QED BY <1>1, <1>2, <1>5

LEMMA LineStep == EcuInv /\ LineInv /\ [Next]_vars => LineInv'
<1> SUFFICES ASSUME EcuInv, LineInv, [Next]_vars PROVE LineInv'
  OBVIOUS
<1>1. ASSUME embedded, embedded' = embedded PROVE LineInv'
  BY <1>1 DEF LineInv
<1>2. ASSUME UNCHANGED <<embedded, values, tcpVars>> PROVE LineInv'
  BY <1>2, LinesLeft DEF tcpVars
<1>3. CASE Poll
  <2>1. ASSUME NEW delta \in 1..MaxDelta, PollLink(delta) PROVE LineInv'
    BY <1>1, <2>1 DEF PollLink
  <2> QED BY <1>3, <2>1, PollLines DEF Poll
<1>4. CASE Feeder
  <2>1. CASE SetInput
    BY <1>1, <2>1 DEF SetInput
  <2>2. CASE Connect
    <3>1. /\ client = 0 /\ client' = sessions + 1 /\ sessions \in Nat
          /\ UNCHANGED <<embedded, values, recv_buffer, wire, closed, torn, whole>>
      BY <2>2 DEF Connect, inputVars, EcuInv, TypeOK, TallyTyped
    <3>2. client' # 0
      BY <3>1
    <3> QED BY <3>1, <3>2 DEF LineInv, LineOrder
  <2>3. CASE Close
    BY <2>3, LinesLeft DEF Close, inputVars
  <2> QED BY <1>4, <2>1, <2>2, <2>3, WriteLineLines DEF Feeder
<1>5. CASE Firmware
  BY <1>2, <1>5 DEF Firmware
<1>6. CASE TakeOutputEvents
  BY <1>2, <1>6 DEF TakeOutputEvents, inputVars
<1>7. CASE ReadOutputs
  BY <1>1, <1>7 DEF ReadOutputs
<1>8. CASE Restart
  BY <1>1, <1>8 DEF Restart
<1>9. ASSUME NEW o \in Outputs, NEW v \in {0, 1}, ReportOutput(o, v) PROVE LineInv'
  <2>1. /\ UNCHANGED <<embedded, client, recv_buffer, wire, closed, torn, whole>>
        /\ values' = [values EXCEPT ![o] = v]
    BY <1>9 DEF ReportOutput
  <2>2. values \in [Names -> Int] /\ "din" \in Names /\ o # "din"
    BY LinesTyped, EcuAssumption DEF EcuInv, TypeOK, InputsTyped
  <2> QED BY <2>1, <2>2, LinesLeft
<1>10. CASE UNCHANGED vars
  BY <1>2, <1>10 DEF vars, inputVars
<1> QED BY <1>3, <1>4, <1>5, <1>6, <1>7, <1>8, <1>9, <1>10, Zenon DEF Next

\* Din is what the last whole line of it said, however lines are split between reads and
\* whatever came with a close, unless a line was cut: for every capacity of the buffer
\* and every number of sessions (receive_from_client, process_complete_lines).
THEOREM LinesCount == Spec => []LastLineCounts
<1>1. EcuInv /\ LineInv => LastLineCounts
  BY DEF LineInv, LastLineCounts
<1>2. Spec => []LineInv
  BY EcuInvariant, LineInitial, LineStep, PTL DEF Spec
<1> QED BY <1>1, <1>2, EcuInvariant, PTL

-----------------------------------------------------------------------------
(* What the host and the client know of the outputs.                        *)

\* The levels reported are those the firmware drives.
OutLevels == \A o \in Outputs : pins[o] = values[o] /\ (embedded => outputs[o] = values[o])

\* The events queued have successive numbers up to the next one, the last one of an output
\* has its level, and a host that missed none knows the level of an output with none.
LinkInv ==
  IF embedded
  THEN LET len == Len(output_events)
       IN  /\ \A i \in 1..len :
                output_events[i].sequence = ((next_output_sequence - len) + i) - 1
           /\ expect + len <= next_output_sequence
           /\ (len = 0 => expect = next_output_sequence)
           /\ \A i \in 1..len :
                (\A j \in (i + 1)..len : output_events[j].name # output_events[i].name)
                  => output_events[i].value = outputs[output_events[i].name]
           /\ (~gap /\ expect + len = next_output_sequence =>
                 \A o \in Outputs :
                   (\A i \in 1..len : output_events[i].name # o) => view[o] = outputs[o])
  ELSE Len(output_events) = 0

\* The lines queued are in order; with the start the client has, too, if none was cut; and
\* they tell it the level of every output that changed, or it knows it.
EndOf(q, i, o) == q[i].part = 2 /\ q[i].name = o
Says(q, o, known, driven) ==
  /\ ((\A i \in 2..Len(q) : ~EndOf(q, i, o)) => known = driven)
  /\ \A i \in 2..Len(q) :
       EndOf(q, i, o) /\ (\A j \in (i + 1)..Len(q) : ~EndOf(q, j, o)) => q[i].value = driven
Tells(q, o) == Says(q, o, view[o], pins[o])
ClientInv ==
  ~embedded =>
    LET q == half \o outgoing
    IN  /\ Joined(outgoing) /\ Ended(outgoing) /\ StartsOnly(half)
        /\ (~gap => Joined(q) /\ Ended(q))
        /\ (~gap /\ client # 0 => \A o \in told : Tells(q, o))

\* What a queue keeps when it is cut to its newest entries: the last ones, at their places
\* from d on.
Kept(S, queue, n, d) ==
  LET new == Newest(queue, n)
  IN  /\ d = Len(queue) - Len(new) /\ new \in Seq(S) /\ Len(new) <= n
      /\ (Len(queue) <= n => d = 0) /\ (Len(queue) > n => Len(new) = n)
      /\ d \in 0..Len(queue) /\ Len(new) = Len(queue) - d
      /\ \A i \in 1..Len(new) : new[i] = queue[i + d]

LEMMA NewestKept ==
  ASSUME NEW S, NEW queue \in Seq(S), NEW n \in Nat
  PROVE  Kept(S, queue, n, Len(queue) - Least(n, Len(queue)))
<1> DEFINE k == Least(n, Len(queue))
           d == Len(queue) - k
<1>1. /\ k \in Nat /\ k <= n /\ k <= Len(queue) /\ Len(queue) \in Nat
      /\ (Len(queue) <= n => k = Len(queue)) /\ (Len(queue) > n => k = n)
  BY DEF Least
<1> HIDE DEF k
<1>2. Newest(queue, n) = SubSeq(queue, d + 1, Len(queue))
  BY DEF Newest, k
<1>3. d \in 0..Len(queue) /\ d + 1 \in 1..(Len(queue) + 1) /\ Len(queue) - d = k
  BY <1>1
<1> HIDE DEF d
<1> DEFINE new == SubSeq(queue, d + 1, Len(queue))
<1>4. new \in Seq(S) /\ Len(new) = k /\ \A i \in 1..Len(new) : new[i] = queue[i + d]
  BY <1>1, <1>3
<1> HIDE DEF new
<1>5. d = Len(queue) - Len(new) /\ Len(new) <= n /\ (Len(queue) <= n => d = 0)
      /\ (Len(queue) > n => Len(new) = n)
  BY <1>1, <1>3, <1>4 DEF d
<1>6. Kept(S, queue, n, d)
  BY <1>2, <1>3, <1>4, <1>5 DEF Kept, new
<1> QED BY <1>6 DEF d, k

\* A report gives every output the level it drives (report_output).
LEMMA ReportLevels ==
  ASSUME EcuInv, OutLevels, NEW o \in Outputs, NEW v \in {0, 1}, ReportOutput(o, v)
  PROVE  /\ OutLevels' /\ pins' \in OutputLevels /\ embedded' = embedded
         /\ pins'[o] = v /\ \A p \in Outputs : p # o => pins'[p] = pins[p]
<1>1. /\ pins' = [pins EXCEPT ![o] = v] /\ values' = [values EXCEPT ![o] = v]
      /\ embedded' = embedded
  BY DEF ReportOutput
<1>2. /\ values \in [Names -> Int] /\ pins \in [Outputs -> {Unknown, 0, 1}]
      /\ outputs \in [Outputs -> {Unknown, 0, 1}] /\ Outputs \subseteq Names
  BY DEF EcuInv, TypeOK, InputsTyped, LinkTyped, OutputLevels, Names
<1>3. /\ values'[o] = v /\ pins'[o] = v
      /\ \A p \in Outputs : p # o => values'[p] = values[p] /\ pins'[p] = pins[p]
  BY <1>1, <1>2
<1>4. embedded => outputs'[o] = v /\ \A p \in Outputs : p # o => outputs'[p] = outputs[p]
  <2>1. CASE PublishOutput(o, v)
    <3>1. outputs' = [outputs EXCEPT ![o] = v]
      BY <2>1 DEF PublishOutput
    <3> QED BY <1>2, <3>1
  <2>2. CASE ~ChangedFrom(o, v) /\ outputs' = outputs
    BY <2>2 DEF OutLevels, ChangedFrom
  <2> QED BY <2>1, <2>2 DEF ReportOutput
<1>5. pins' \in OutputLevels
  BY ReportOutputKeeps DEF EcuInv, TypeOK, LinkTyped
<1>6. OutLevels'
  <2> SUFFICES ASSUME NEW p \in Outputs
               PROVE  pins'[p] = values'[p] /\ (embedded' => outputs'[p] = values'[p])
    BY DEF OutLevels
  <2>1. pins[p] = values[p] /\ (embedded => outputs[p] = values[p])
    BY DEF OutLevels
  <2> QED BY <1>1, <1>3, <1>4, <2>1
<1> QED BY <1>1, <1>3, <1>5, <1>6

\* A changed output is queued as an event with the next number; the oldest event makes
\* room, and its number is then missing for the host (publish_output).
LEMMA ReportEvents ==
  ASSUME EcuInv, OutLevels, LinkInv, embedded, NEW o \in Outputs, NEW v \in {0, 1},
         ReportOutput(o, v)
  PROVE  LinkInv'
<1> DEFINE events == output_events
           next == next_output_sequence
           len == Len(output_events)
<1>1. /\ embedded' = embedded /\ UNCHANGED <<expect, view>>
      /\ gap \in BOOLEAN
  BY DEF ReportOutput, EcuInv, TypeOK, TallyTyped
<1>2. /\ events \in Seq(Events) /\ len \in Nat /\ len <= MaxEvents /\ MaxEvents \in Nat \ {0}
      /\ next \in Nat /\ expect \in Nat /\ outputs \in [Outputs -> {Unknown, 0, 1}]
  BY EcuAssumption DEF EcuInv, TypeOK, LinkTyped, OutputLevels
<1>3. /\ \A i \in 1..len : events[i].sequence = ((next - len) + i) - 1
      /\ expect + len <= next
      /\ (len = 0 => expect = next)
      /\ \A i \in 1..len :
           (\A j \in (i + 1)..len : events[j].name # events[i].name)
             => events[i].value = outputs[events[i].name]
      /\ (~gap /\ expect + len = next =>
            \A p \in Outputs : (\A i \in 1..len : events[i].name # p) => view[p] = outputs[p])
  BY Zenon DEF LinkInv
<1>4. CASE ~ChangedFrom(o, v)
  <2>1. UNCHANGED <<outputs, output_events, next_output_sequence, gap>>
    BY <1>4 DEF ReportOutput
  <2> QED BY <1>1, <2>1 DEF LinkInv
<1>5. CASE ChangedFrom(o, v)
  <2>1. PublishOutput(o, v) /\ gap' = gap
    BY <1>5 DEF ReportOutput
  <2>2. outputs[o] # v
    BY <1>5 DEF ChangedFrom, OutLevels
  <2> DEFINE event == [sequence |-> next, name |-> o, value |-> v]
             queue == Append(output_events, event)
             d == Len(queue) - Least(MaxEvents, Len(queue))
  <2>3. outputs' = [outputs EXCEPT ![o] = v] /\ next_output_sequence' = next + 1
        /\ output_events' = Newest(queue, MaxEvents)
    BY <2>1, <2>2 DEF PublishOutput
  <2>4. event \in Events
    BY <1>2 DEF Events
  <2>5. event.sequence = next /\ event.name = o /\ event.value = v
    OBVIOUS
  <2> HIDE DEF event
  <2>6. /\ queue \in Seq(Events) /\ Len(queue) = len + 1 /\ queue[len + 1] = event
        /\ \A i \in 1..len : queue[i] = events[i]
    BY <1>2, <2>4
  <2> HIDE DEF queue
  <2>7. Kept(Events, queue, MaxEvents, d)
    BY <1>2, <2>6, NewestKept
  <2> HIDE DEF d
  <2> DEFINE new == output_events'
             m == Len(new)
  <2>8. /\ d = Len(queue) - m /\ m <= MaxEvents /\ d \in 0..Len(queue) /\ m = Len(queue) - d
        /\ (Len(queue) <= MaxEvents => d = 0) /\ (Len(queue) > MaxEvents => m = MaxEvents)
        /\ \A i \in 1..m : new[i] = queue[i + d]
    BY <2>3, <2>7 DEF Kept
  <2> HIDE DEF new, m
  <2>9. m \in Nat /\ m > 0 /\ d \in Nat /\ m + d = len + 1
    BY <1>2, <2>6, <2>8
  <2>10. new[m] = event
    BY <2>6, <2>8, <2>9
  <2>11. \A i \in 1..(m - 1) : i + d \in 1..len /\ new[i] = events[i + d]
    <3> SUFFICES ASSUME NEW i \in 1..(m - 1) PROVE i + d \in 1..len /\ new[i] = events[i + d]
      OBVIOUS
    <3>1. i + d \in 1..len /\ i \in 1..m
      BY <1>2, <2>9
    <3> QED BY <2>6, <2>8, <3>1
  <2>12. /\ outputs'[o] = v
         /\ \A p \in Outputs : p # o => outputs'[p] = outputs[p]
    BY <1>2, <2>3
  <2>13. \A i \in 1..len : events[i].name \in Outputs
    <3>1. \A i \in 1..len : events[i] \in Events
      BY <1>2
    <3> QED BY <3>1 DEF Events
  <2>14. ASSUME NEW i \in 1..m PROVE new[i].sequence = (((next + 1) - m) + i) - 1
    <3>1. CASE i = m
      BY <1>2, <2>5, <2>9, <2>10, <3>1
    <3>2. CASE i # m
      <4>1. i \in 1..(m - 1)
        BY <2>9, <3>2
      <4>2. new[i] = events[i + d] /\ i + d \in 1..len
        BY <2>11, <4>1
      <4>3. new[i].sequence = ((next - len) + (i + d)) - 1
        BY <1>3, <4>2, Zenon
      <4> QED BY <1>2, <2>9, <4>3
    <3> QED BY <3>1, <3>2
  <2>15. expect + m <= next + 1 /\ m # 0
    BY <1>2, <1>3, <2>9
  <2>16. ASSUME NEW i \in 1..m, \A j \in (i + 1)..m : new[j].name # new[i].name
         PROVE  new[i].value = outputs'[new[i].name]
    <3>1. CASE i = m
      BY <2>5, <2>10, <2>12, <3>1
    <3>2. CASE i # m
      <4>1. i \in 1..(m - 1) /\ m \in (i + 1)..m
        BY <2>9, <3>2
      <4>2. new[i] = events[i + d] /\ i + d \in 1..len
        BY <2>11, <4>1
      <4>3. new[i].name # o
        BY <2>5, <2>10, <2>16, <4>1
      <4>4. \A j \in ((i + d) + 1)..len : events[j].name # events[i + d].name
        <5> SUFFICES ASSUME NEW j \in ((i + d) + 1)..len PROVE events[j].name # events[i + d].name
          OBVIOUS
        <5>1. j - d \in (i + 1)..m /\ j - d \in 1..(m - 1) /\ (j - d) + d = j
          BY <1>2, <2>9, <4>1
        <5>2. new[j - d] = events[j] /\ new[j - d].name # new[i].name
          BY <2>11, <2>16, <5>1
        <5> QED BY <4>2, <5>2
      <4>5. events[i + d].value = outputs[events[i + d].name]
        BY <1>3, <4>2, <4>4
      <4>6. events[i + d].name \in Outputs
        BY <2>13, <4>2
      <4> QED BY <2>12, <4>2, <4>3, <4>5, <4>6
    <3> QED BY <3>1, <3>2
  <2>17. ASSUME ~gap, expect + m = next + 1, NEW p \in Outputs, \A i \in 1..m : new[i].name # p
         PROVE  view[p] = outputs'[p]
    <3>1. d = 0 /\ expect + len = next /\ m = len + 1
      <4>1. expect + m = next + 1 /\ expect + len <= next
        BY <1>3, <2>17, Zenon
      <4>2. len \in Nat /\ next \in Nat /\ expect \in Nat
        BY <1>2
      <4> HIDE DEF len, next
      <4> QED BY <2>9, <4>1, <4>2
    <3>2. p # o
      <4>1. m \in 1..m
        BY <2>9
      <4> QED BY <2>5, <2>10, <2>17, <4>1
    <3>3. \A i \in 1..len : events[i].name # p
      <4> SUFFICES ASSUME NEW i \in 1..len PROVE events[i].name # p
        OBVIOUS
      <4>1. i \in 1..(m - 1) /\ i \in 1..m /\ i + d = i
        BY <1>2, <3>1
      <4> QED BY <2>11, <2>17, <4>1
    <3> QED BY <1>3, <2>12, <2>17, <3>1, <3>2, <3>3
  <2> SUFFICES /\ \A i \in 1..m : new[i].sequence = ((next' - m) + i) - 1
               /\ expect' + m <= next'
               /\ (m = 0 => expect' = next')
               /\ \A i \in 1..m :
                    (\A j \in (i + 1)..m : new[j].name # new[i].name)
                      => new[i].value = outputs'[new[i].name]
               /\ (~gap' /\ expect' + m = next' =>
                     \A p \in Outputs :
                       (\A i \in 1..m : new[i].name # p) => view'[p] = outputs'[p])
    BY <1>1, Zenon DEF LinkInv, new, m
  <2>18. next' = next + 1 /\ expect' = expect /\ gap' = gap /\ view' = view
    BY <1>1, <2>1, <2>3
  <2> HIDE DEF next, len, events
  <2> QED BY <2>14, <2>15, <2>16, <2>17, <2>18
<1> QED BY <1>4, <1>5

\* What the events queued say of an output: its level, once they are read.
LEMMA EventsSay ==
  ASSUME EcuInv, LinkInv, embedded, NEW o \in Outputs,
         NEW at, at = {i \in DOMAIN output_events : output_events[i].name = o}
  PROVE  /\ at # {} => output_events[Max(at)].value = outputs[o]
         /\ at = {} => \A i \in 1..Len(output_events) : output_events[i].name # o
<1> DEFINE len == Len(output_events)
<1>1. output_events \in Seq(Events) /\ len \in Nat /\ DOMAIN output_events = 1..len
  BY DEF EcuInv, TypeOK, LinkTyped
<1>2. \A i \in 1..len :
        (\A j \in (i + 1)..len : output_events[j].name # output_events[i].name)
          => output_events[i].value = outputs[output_events[i].name]
  BY Zenon DEF LinkInv
<1>3. \A i \in 1..len : output_events[i].name = o => i \in at
  BY <1>1
<1>4. at \subseteq 1..len /\ \A i \in at : output_events[i].name = o
  BY <1>1
<1>5. ASSUME at # {} PROVE output_events[Max(at)].value = outputs[o]
  <2> DEFINE x == Max(at)
  <2>1. x \in at /\ \A i \in at : i <= x
    BY <1>1, <1>4, <1>5, MaxIn
  <2> HIDE DEF x, len
  <2>2. x \in 1..len /\ output_events[x].name = o
    BY <1>4, <2>1
  <2>3. \A j \in (x + 1)..len : output_events[j].name # output_events[x].name
    <3> SUFFICES ASSUME NEW j \in (x + 1)..len, output_events[j].name = o PROVE FALSE
      BY <2>2
    <3>1. j \in 1..len /\ ~(j <= x)
      BY <1>1, <2>2
    <3> QED BY <1>3, <2>1, <3>1
  <2>4. output_events[x].value = outputs[output_events[x].name]
    BY <1>2, <2>2, <2>3, Zenon
  <2> QED BY <2>2, <2>4 DEF x
<1>6. ASSUME at = {} PROVE \A i \in 1..len : output_events[i].name # o
  BY <1>3, <1>6, Zenon
<1> QED BY <1>5, <1>6

\* A host that takes the events has, if it missed none, every level.
LEMMA TakeLink ==
  ASSUME EcuInv, OutLevels, LinkInv, TakeOutputEvents
  PROVE  embedded /\ OutLevels' /\ LinkInv'
<1> DEFINE len == Len(output_events)
           next == next_output_sequence
           at(o) == {i \in DOMAIN output_events : output_events[i].name = o}
<1>1. /\ output_events \in Seq(Events) /\ len \in Nat /\ next \in Nat /\ expect \in Nat
      /\ gap \in BOOLEAN
  BY DEF EcuInv, TypeOK, LinkTyped, TallyTyped
<1>2. output_events # <<>> /\ len # 0
  BY <1>1 DEF TakeOutputEvents
<1>3. embedded
  BY <1>2, Zenon DEF LinkInv
<1>4. /\ \A i \in 1..len : output_events[i].sequence = ((next - len) + i) - 1
      /\ expect + len <= next
      /\ (~gap /\ expect + len = next =>
            \A o \in Outputs :
              (\A i \in 1..len : output_events[i].name # o) => view[o] = outputs[o])
  BY <1>3, Zenon DEF LinkInv
<1>5. /\ view' = [o \in Outputs |-> IF at(o) = {} THEN view[o]
                                    ELSE output_events[Max(at(o))].value]
      /\ expect' = output_events[len].sequence + 1
      /\ gap' = (gap \/ output_events[1].sequence # expect)
      /\ output_events' = <<>>
      /\ UNCHANGED <<embedded, values, outputs, next_output_sequence, pins>>
  BY <1>1, <1>2 DEF TakeOutputEvents, inputVars, Last
<1>6. expect' = next /\ output_events[1].sequence = next - len
  <2>1. 1 \in 1..len /\ len \in 1..len
    BY <1>1, <1>2
  <2>2. /\ output_events[1].sequence = ((next - len) + 1) - 1
        /\ output_events[len].sequence = ((next - len) + len) - 1
    BY <1>4, <2>1, Zenon
  <2> QED BY <1>1, <1>5, <2>2
<1>7. ASSUME ~gap', NEW o \in Outputs PROVE view'[o] = outputs[o]
  <2>1. ~gap /\ expect = next - len
    BY <1>1, <1>5, <1>6, <1>7
  <2>2. expect + len = next
    BY <1>1, <2>1
  <2>3. view'[o] = IF at(o) = {} THEN view[o] ELSE output_events[Max(at(o))].value
    BY <1>5
  <2>4. /\ at(o) # {} => output_events[Max(at(o))].value = outputs[o]
        /\ at(o) = {} => \A i \in 1..len : output_events[i].name # o
    BY <1>3, EventsSay
  <2> HIDE DEF at
  <2> QED BY <1>4, <2>1, <2>2, <2>3, <2>4, Zenon
<1>8. Len(output_events') = 0
  BY <1>5
<1>9. LinkInv'
  <2> SUFFICES LET m == Len(output_events')
               IN  /\ \A i \in 1..m :
                        output_events'[i].sequence = ((next' - m) + i) - 1
                   /\ expect' + m <= next'
                   /\ (m = 0 => expect' = next')
                   /\ \A i \in 1..m :
                        (\A j \in (i + 1)..m : output_events'[j].name # output_events'[i].name)
                          => output_events'[i].value = outputs'[output_events'[i].name]
                   /\ (~gap' /\ expect' + m = next' =>
                        \A o \in Outputs :
                          (\A i \in 1..m : output_events'[i].name # o) => view'[o] = outputs'[o])
    BY <1>3, <1>5, Zenon DEF LinkInv
  <2> HIDE DEF len, at
  <2>1. next' = next /\ outputs' = outputs
    BY <1>5
  <2> HIDE DEF next
  <2> QED BY <1>1, <1>6, <1>7, <1>8, <2>1
<1>10. OutLevels'
  BY <1>5, Zenon DEF OutLevels
<1> QED BY <1>3, <1>9, <1>10

\* A host that reads outputs has every level, and one of a new emulator begins with it.
LEMMA ReadLink ==
  ASSUME EcuInv, OutLevels, LinkInv, ReadOutputs
  PROVE  OutLevels' /\ LinkInv'
<1>1. /\ embedded /\ view' = outputs
      /\ UNCHANGED <<embedded, values, outputs, output_events, next_output_sequence, pins, expect>>
  BY DEF ReadOutputs, inputVars, linkVars
<1>2. OutLevels'
  BY <1>1, Zenon DEF OutLevels
<1>3. LinkInv'
  BY <1>1 DEF LinkInv
<1> QED BY <1>2, <1>3

NothingReported ==
  /\ output_events = <<>> /\ expect = next_output_sequence /\ next_output_sequence \in Nat
  /\ outputs = [o \in Outputs |-> Unknown] /\ pins = [o \in Outputs |-> Unknown]
  /\ view = [o \in Outputs |-> Unknown]
  /\ values = [n \in Names |-> IF n \in Outputs THEN Unknown ELSE 0]

LEMMA FreshLink == NothingReported => OutLevels /\ LinkInv
<1> SUFFICES ASSUME NothingReported PROVE OutLevels /\ LinkInv
  OBVIOUS
<1>1. \A o \in Outputs : /\ pins[o] = Unknown /\ outputs[o] = Unknown /\ view[o] = Unknown
                         /\ values[o] = Unknown
  BY DEF NothingReported, Names
<1>2. OutLevels
  BY <1>1, Zenon DEF OutLevels
<1>3. Len(output_events) = 0
  BY DEF NothingReported
<1>4. expect + 0 <= next_output_sequence /\ expect = next_output_sequence
  BY DEF NothingReported
<1>5. LinkInv
  BY <1>1, <1>3, <1>4 DEF LinkInv
<1> QED BY <1>2, <1>5

\* Nothing else touches the outputs, the levels driven or the events.
LEMMA LinkLeft ==
  ASSUME OutLevels, LinkInv,
         UNCHANGED <<embedded, outputs, output_events, next_output_sequence, pins>>,
         embedded => UNCHANGED <<view, expect, gap>>,
         \A o \in Outputs : values'[o] = values[o]
  PROVE  OutLevels' /\ LinkInv'
<1>1. OutLevels'
  BY Zenon DEF OutLevels
<1>2. LinkInv'
  BY DEF LinkInv
<1> QED BY <1>1, <1>2

\* A poll assigns no output.
LEMMA PollLevels ==
  ASSUME EcuInv, Poll, NEW o \in Outputs
  PROVE  values'[o] = values[o]
<1>1. /\ values \in [Names -> Int] /\ wire \in Seq(Inbound) /\ recv_buffer \in Seq(Inbound)
      /\ pending_inputs \in Seq([name : {"din", "rpm"}, value : Int]) /\ Capacity \in Nat
  BY EcuAssumption DEF EcuInv, TypeOK, InputsTyped, TcpTyped, LinkTyped
<1>2. ASSUME NEW delta, PollLink(delta) PROVE values'[o] = values[o]
  <2> DEFINE at == DOMAIN pending_inputs
             v == SetValues(values, pending_inputs, at)
  <2>1. /\ Len(pending_inputs) \in Nat /\ at \subseteq 1..Len(pending_inputs)
        /\ \A i \in at : /\ pending_inputs[i].name \in {"din", "rpm"}
                         /\ pending_inputs[i].value \in Int
    <3> DEFINE S == [name : {"din", "rpm"}, value : Int]
    <3>1. pending_inputs \in Seq(S)
      BY <1>1
    <3> HIDE DEF S
    <3>2. /\ Len(pending_inputs) \in Nat /\ at \subseteq 1..Len(pending_inputs)
          /\ \A i \in at : pending_inputs[i] \in S
      BY <3>1
    <3> QED BY <3>2, Assignments, Zenon DEF S
  <2> HIDE DEF at
  <2>2. SetValues(values, pending_inputs, at) \in [Names -> Int]
    <3>1. values \in [Names -> Int]
      BY <1>1
    <3> QED BY <2>1, <3>1, SetValuesTyped
  <2> HIDE DEF v
  <2>3. Advance(v, delta)
    BY <1>2, Zenon DEF PollLink, v, at
  <2>4. v \in [Names -> Int] /\ v[o] = values[o]
    <3>1. \A i \in at : pending_inputs[i].name \in {"din", "rpm"}
      BY <2>1
    <3>2. SetValues(values, pending_inputs, at)[o] = values[o]
      BY <3>1, OutputsUnset
    <3> QED BY <2>2, <3>2 DEF v
  <2> QED BY <2>3, <2>4, AdvanceDin
<1>3. ASSUME NEW delta, NEW n \in 0..Len(wire), NEW k, PollSocket(n, k, delta)
      PROVE  values'[o] = values[o]
  <2> DEFINE front == SubSeq(wire, 1, n)
             read == recv_buffer \o front
             buffer == Newest(read, Capacity)
             at == WholeLines(buffer)
             v == SetValues(values, buffer, at)
  <2>1. buffer \in Seq(Inbound)
    <3>1. front \in Seq(Inbound)
      BY <1>1, FrontTyped
    <3> HIDE DEF front
    <3>2. read \in Seq(Inbound)
      BY <1>1, <3>1
    <3> HIDE DEF read
    <3> QED BY <1>1, <3>2, NewestTyped
  <2>2. Advance(v, delta)
    BY <1>3, Zenon DEF PollSocket, Processed
  <2> HIDE DEF buffer
  <2>3. at \subseteq 1..Len(buffer) /\ Len(buffer) \in Nat
    BY <2>1, EndsInside
  <2>4. \A i \in at : buffer[i] \in Inbound
    BY <2>1, <2>3
  <2>5. \A i \in at : buffer[i].name \in {"din", "rpm"} /\ buffer[i].value \in Int
    BY <2>4, Assignments, Zenon
  <2> HIDE DEF at
  <2> HIDE DEF v
  <2>6. SetValues(values, buffer, at) \in [Names -> Int]
    <3>1. values \in [Names -> Int]
      BY <1>1
    <3> QED BY <2>3, <2>5, <3>1, SetValuesTyped
  <2>7. v \in [Names -> Int] /\ v[o] = values[o]
    BY <2>5, <2>6, OutputsUnset DEF v
  <2> QED BY <2>2, <2>7, AdvanceDin
<1> QED BY <1>2, <1>3 DEF Poll

\* Sending takes the lines from the front of the queue, whole or in part, and what the
\* client knows once it has read them is what they said (send_to_client).
LEMMA SendTells ==
  ASSUME outgoing \in Seq(Outbound), half \in Seq(Outbound), NEW k \in 0..Len(outgoing),
         Joined(half \o outgoing), SendToClient(k), UNCHANGED pins,
         NEW o \in Outputs, Tells(half \o outgoing, o)
  PROVE  Tells(half \o outgoing, o)'
<1> DEFINE q == half \o outgoing
           got == half \o SubSeq(outgoing, 1, k)
           e == LastEnd(got)
           rest == SubSeq(got, e + 1, Len(got))
           left == rest \o SubSeq(outgoing, k + 1, Len(outgoing))
           at == {i \in WholeLines(got) : got[i].name = o}
<1>1. /\ outgoing' = SubSeq(outgoing, k + 1, Len(outgoing)) /\ half' = rest
      /\ view' = ClientView(got)
  BY Zenon DEF SendToClient
<1>2. view'[o] = IF at = {} THEN view[o] ELSE got[Max(at)].value
  BY <1>1 DEF ClientView
<1>3. half' \o outgoing' = left
  BY <1>1
<1>4. Len(half) \in Nat /\ Len(outgoing) \in Nat /\ k \in Nat /\ k <= Len(outgoing)
  OBVIOUS
<1>5. got \in Seq(Outbound) /\ Len(got) = Len(half) + k
  <2>1. 0 \in 0..(Len(half) + k)
    BY <1>4
  <2>2. Divided(Outbound, half, outgoing, k, 0)
    BY <2>1, SplitPoint
  <2> QED BY <2>2 DEF Divided
<1>6. /\ e \in 0..Len(got) /\ (e # 0 => got[e].part = 2)
      /\ \A i \in 1..Len(got) : got[i].part = 2 => i <= e
  <2> HIDE DEF got
  <2> QED BY <1>5, LastEndIs
<1> HIDE DEF e
<1>7. /\ q \in Seq(Outbound) /\ left \in Seq(Outbound)
      /\ Len(q) = Len(half) + Len(outgoing) /\ Len(left) = Len(q) - e
      /\ \A i \in 1..Len(got) : got[i] = q[i]
      /\ \A i \in 1..Len(left) : left[i] = q[i + e]
  <2>1. e \in 0..(Len(half) + k)
    BY <1>5, <1>6
  <2>2. Divided(Outbound, half, outgoing, k, e)
    BY <2>1, SplitPoint
  <2> QED BY <2>2, Zenon DEF Divided
<1>8. Joined(q) /\ Tells(q, o)
  OBVIOUS
<1> HIDE DEF q, got, rest, left, at
<1>9. Joined(got) /\ Len(got) <= Len(q) /\ Len(q) \in Nat /\ Len(got) \in Nat /\ e \in Nat
  <2>1. Len(got) <= Len(q) /\ Len(q) \in Nat /\ Len(got) \in Nat /\ e \in Nat
    BY <1>4, <1>5, <1>6, <1>7
  <2> QED BY <1>5, <1>7, <1>8, <2>1, FrontJoined
<1>10. WholeLines(got) = {i \in 2..Len(got) : got[i].part = 2}
  BY <1>5, <1>9, PartsAreTwins, EndsAreWhole
<1>11. \A i \in 2..Len(q) : EndOf(q, i, o) /\ i <= e => i \in at
  <2> SUFFICES ASSUME NEW i \in 2..Len(q), EndOf(q, i, o), i <= e PROVE i \in at
    OBVIOUS
  <2>1. i \in 2..Len(got) /\ i \in 1..Len(got)
    BY <1>6, <1>9
  <2>2. got[i] = q[i]
    BY <1>7, <2>1
  <2> QED BY <1>10, <2>1, <2>2 DEF at, EndOf
<1>12. \A i \in at : i \in 2..Len(q) /\ i <= e /\ EndOf(q, i, o) /\ got[i] = q[i]
  <2> SUFFICES ASSUME NEW i \in at
               PROVE  i \in 2..Len(q) /\ i <= e /\ EndOf(q, i, o) /\ got[i] = q[i]
    OBVIOUS
  <2>1. i \in 2..Len(got) /\ got[i].part = 2 /\ got[i].name = o
    BY <1>10 DEF at
  <2>2. i \in 1..Len(got) /\ i \in 2..Len(q)
    BY <1>9, <2>1
  <2> QED BY <1>6, <1>7, <2>1, <2>2 DEF EndOf
<1>13. \A i \in 1..Len(q) : i > e => i - e \in 1..Len(left) /\ left[i - e] = q[i]
  <2> SUFFICES ASSUME NEW i \in 1..Len(q), i > e
               PROVE  i - e \in 1..Len(left) /\ left[i - e] = q[i]
    OBVIOUS
  <2>1. i - e \in 1..Len(left) /\ (i - e) + e = i
    BY <1>7, <1>9
  <2> QED BY <1>7, <2>1
<1>14. \A i \in 2..Len(q) : EndOf(q, i, o) /\ i > e => i - e \in 2..Len(left) /\ EndOf(left, i - e, o)
  <2> SUFFICES ASSUME NEW i \in 2..Len(q), EndOf(q, i, o), i > e
               PROVE  i - e \in 2..Len(left) /\ EndOf(left, i - e, o)
    OBVIOUS
  <2>1. i \in 1..Len(q) /\ i - e \in 1..Len(left) /\ left[i - e] = q[i]
    <3>1. i \in 1..Len(q)
      BY <1>9
    <3> QED BY <1>13, <3>1
  <2>2. i - e # 1
    <3> SUFFICES ASSUME i - e = 1 PROVE FALSE
      OBVIOUS
    <3>1. e + 1 = i /\ e # 0 /\ e \in 1..(Len(q) - 1) /\ e \in 1..Len(got)
      BY <1>6, <1>9
    <3>2. q[e].part = 2
      BY <1>6, <1>7, <3>1
    <3>3. q[i].part = 1
      BY <1>8, <3>1, <3>2 DEF Joined
    <3> QED BY <3>3 DEF EndOf
  <2>3. i - e \in 2..Len(left)
    BY <1>9, <2>1, <2>2
  <2> QED BY <2>1, <2>3 DEF EndOf
<1>15. ASSUME \A i \in 2..Len(left) : ~EndOf(left, i, o) PROVE view'[o] = pins[o]
  <2>1. \A i \in 2..Len(q) : EndOf(q, i, o) => i <= e
    BY <1>9, <1>14, <1>15
  <2>2. CASE at = {}
    <3>1. \A i \in 2..Len(q) : ~EndOf(q, i, o)
      BY <1>11, <2>1, <2>2
    <3> QED BY <1>2, <1>8, <2>2, <3>1 DEF Tells, Says
  <2>3. CASE at # {}
    <3> DEFINE x == Max(at)
    <3>1. at \subseteq 1..Len(q)
      BY <1>9, <1>12
    <3>2. x \in at /\ \A i \in at : i <= x
      BY <1>9, <2>3, <3>1, MaxIn
    <3> HIDE DEF x
    <3>3. x \in 2..Len(q) /\ EndOf(q, x, o) /\ got[x] = q[x]
      BY <1>12, <3>2
    <3>4. \A j \in (x + 1)..Len(q) : ~EndOf(q, j, o)
      <4> SUFFICES ASSUME NEW j \in (x + 1)..Len(q), EndOf(q, j, o) PROVE FALSE
        OBVIOUS
      <4>1. j \in 2..Len(q) /\ ~(j <= x)
        BY <1>9, <3>3
      <4> QED BY <1>11, <2>1, <3>2, <4>1
    <3>5. q[x].value = pins[o]
      BY <1>8, <3>3, <3>4, Zenon DEF Tells, Says
    <3> QED BY <1>2, <2>3, <3>3, <3>5 DEF x
  <2> QED BY <2>2, <2>3
<1>16. ASSUME NEW i \in 2..Len(left), EndOf(left, i, o),
              \A j \in (i + 1)..Len(left) : ~EndOf(left, j, o)
       PROVE  left[i].value = pins[o]
  <2>1. i \in 1..Len(left) /\ i + e \in 2..Len(q)
    BY <1>7, <1>9
  <2>2. left[i] = q[i + e]
    BY <1>7, <2>1
  <2>3. \A j \in ((i + e) + 1)..Len(q) : ~EndOf(q, j, o)
    <3> SUFFICES ASSUME NEW j \in ((i + e) + 1)..Len(q), EndOf(q, j, o) PROVE FALSE
      OBVIOUS
    <3>1. j \in 1..Len(q) /\ j > e /\ j - e \in (i + 1)..Len(left)
      BY <1>7, <1>9, <2>1
    <3>2. left[j - e] = q[j]
      BY <1>13, <3>1
    <3>3. EndOf(left, j - e, o)
      BY <3>2 DEF EndOf
    <3> QED BY <1>16, <3>1, <3>3
  <2>4. EndOf(q, i + e, o)
    BY <1>16, <2>2 DEF EndOf
  <2>5. q[i + e].value = pins[o]
    BY <1>8, <2>1, <2>3, <2>4, Zenon DEF Tells, Says
  <2> QED BY <2>2, <2>5
<1> SUFFICES /\ ((\A i \in 2..Len(left) : ~EndOf(left, i, o)) => view'[o] = pins'[o])
             /\ \A i \in 2..Len(left) :
                  EndOf(left, i, o) /\ (\A j \in (i + 1)..Len(left) : ~EndOf(left, j, o))
                    => left[i].value = pins'[o]
  BY <1>3 DEF Tells, Says, EndOf
<1> QED BY <1>15, <1>16

\* What is left of the queue and what the client has of a line stay in order.
LEMMA SendOrder ==
  ASSUME outgoing \in Seq(Outbound), half \in Seq(Outbound), NEW k \in 0..Len(outgoing),
         SendToClient(k)
  PROVE  /\ Joined(outgoing) => Joined(outgoing)' /\ (Ended(outgoing) => Ended(outgoing)')
         /\ StartsOnly(half)'
         /\ Joined(half \o outgoing) =>
              Joined(half \o outgoing)' /\ (Ended(half \o outgoing) => Ended(half \o outgoing)')
<1> DEFINE q == half \o outgoing
           got == half \o SubSeq(outgoing, 1, k)
           e == LastEnd(got)
           rest == SubSeq(got, e + 1, Len(got))
           tail == SubSeq(outgoing, k + 1, Len(outgoing))
           left == rest \o tail
<1>1. outgoing' = tail /\ half' = rest
  BY Zenon DEF SendToClient
<1>2. half' \o outgoing' = left
  BY <1>1
<1>3. Len(half) \in Nat /\ Len(outgoing) \in Nat /\ k \in Nat /\ k <= Len(outgoing)
      /\ k + 1 \in 1..(Len(outgoing) + 1) /\ Twins(Outbound)
  BY PartsAreTwins
<1>4. got \in Seq(Outbound) /\ Len(got) = Len(half) + k
  <2>1. 0 \in 0..(Len(half) + k)
    BY <1>3
  <2>2. Divided(Outbound, half, outgoing, k, 0)
    BY <2>1, SplitPoint
  <2> QED BY <2>2 DEF Divided
<1>5. e \in 0..Len(got)
  <2> HIDE DEF got
  <2> QED BY <1>4, LastEndIs
<1>6. StartsOnly(rest)
  <2> HIDE DEF got
  <2> QED BY <1>3, <1>4, RestStarts
<1> HIDE DEF e
<1>7. /\ q \in Seq(Outbound) /\ left \in Seq(Outbound)
      /\ Len(q) = Len(half) + Len(outgoing) /\ Len(left) = Len(q) - e
      /\ \A i \in 1..Len(left) : left[i] = q[i + e]
  <2>1. e \in 0..(Len(half) + k)
    BY <1>4, <1>5
  <2>2. Divided(Outbound, half, outgoing, k, e)
    BY <2>1, SplitPoint
  <2> QED BY <2>2, Zenon DEF Divided
<1>8. /\ tail \in Seq(Outbound) /\ Len(tail) = Len(outgoing) - k
      /\ \A i \in 1..Len(tail) : tail[i] = outgoing[i + k]
  BY <1>3
<1> HIDE DEF q, got, rest, left, tail
<1>9. ASSUME Joined(q) PROVE Joined(left) /\ (Ended(q) => Ended(left))
  <2>1. e \in 0..Len(q)
    BY <1>3, <1>4, <1>5, <1>7
  <2> QED BY <1>3, <1>7, <1>9, <2>1, OrderKept
<1>10. ASSUME Joined(outgoing) PROVE Joined(tail) /\ (Ended(outgoing) => Ended(tail))
  <2>1. k \in 0..Len(outgoing)
    OBVIOUS
  <2> QED BY <1>3, <1>8, <1>10, <2>1, OrderKept
<1>11. Joined(outgoing)' = Joined(tail) /\ Ended(outgoing)' = Ended(tail)
       /\ StartsOnly(half)' = StartsOnly(rest)
  BY <1>1 DEF Joined, Ended, StartsOnly
<1>12. Joined(half \o outgoing)' = Joined(left) /\ Ended(half \o outgoing)' = Ended(left)
  BY <1>2 DEF Joined, Ended
<1> QED BY <1>6, <1>9, <1>10, <1>11, <1>12 DEF q

\* A poll sends to a client that is there, or leaves what is for it alone.
LEMMA PollClient ==
  ASSUME EcuInv, ClientInv, NEW delta, NEW n, NEW k \in 0..Len(outgoing),
         PollSocket(n, k, delta)
  PROVE  ClientInv'
<1>1. /\ outgoing \in Seq(Outbound) /\ half \in Seq(Outbound) /\ told \subseteq Outputs
  BY DEF EcuInv, TypeOK, TcpTyped, TallyTyped
<1>2. /\ ~embedded /\ UNCHANGED <<embedded, pins>>
      /\ client' # 0 => client' = client
      /\ UNCHANGED <<outgoing, hostVars>> \/ SendToClient(k)
  BY Zenon DEF PollSocket
<1>3. /\ Joined(outgoing) /\ Ended(outgoing) /\ StartsOnly(half)
      /\ (~gap => Joined(half \o outgoing) /\ Ended(half \o outgoing))
      /\ (~gap /\ client # 0 => \A o \in told : Tells(half \o outgoing, o))
  BY <1>2 DEF ClientInv
<1>4. CASE UNCHANGED <<outgoing, hostVars>>
  <2>1. UNCHANGED <<outgoing, half, view, told, gap>>
    BY <1>4 DEF hostVars
  <2>2. \A o \in told : Tells(half \o outgoing, o) => Tells(half \o outgoing, o)'
    BY <1>2, <2>1 DEF Tells, Says, EndOf
  <2>3. /\ Joined(outgoing)' /\ Ended(outgoing)' /\ StartsOnly(half)'
        /\ (~gap => Joined(half \o outgoing)' /\ Ended(half \o outgoing)')
    BY <1>3, <2>1 DEF Joined, Ended, StartsOnly
  <2> QED BY <1>2, <1>3, <2>1, <2>2, <2>3 DEF ClientInv
<1>5. CASE SendToClient(k)
  <2>1. UNCHANGED <<told, gap>>
    BY <1>5 DEF SendToClient
  <2>2. \A o \in told : ~gap /\ client # 0 => Tells(half \o outgoing, o)'
    BY <1>1, <1>2, <1>3, <1>5, SendTells
  <2>3. /\ Joined(outgoing)' /\ Ended(outgoing)' /\ StartsOnly(half)'
        /\ (~gap => Joined(half \o outgoing)' /\ Ended(half \o outgoing)')
    BY <1>1, <1>3, <1>5, SendOrder
  <2> QED BY <1>2, <2>1, <2>2, <2>3 DEF ClientInv
<1> QED BY <1>2, <1>4, <1>5

\* The line of a report, queued whole unless the queue is full.
ReportLine(o, v) == [i \in 1..2 |-> [name |-> o, value |-> v, of |-> reports, part |-> i]]

LEMMA QueueOrder ==
  ASSUME outgoing \in Seq(Outbound), reports \in Nat, Joined(outgoing), Ended(outgoing),
         NEW o \in Outputs, NEW v \in {0, 1}
  PROVE  LET line == ReportLine(o, v)
         IN  /\ line \in Seq(Outbound) /\ Len(line) = 2 /\ line[1].part = 1
             /\ line[2] = [line[1] EXCEPT !.part = 2] /\ line[2].part = 2
             /\ line[2].name = o /\ line[2].value = v
             /\ Joined(QueueLine(o, v)) /\ Ended(QueueLine(o, v))
             /\ (Len(outgoing) + 2 <= Capacity => QueueLine(o, v) = outgoing \o line)
<1> DEFINE line == ReportLine(o, v)
<1>1. \A i \in 1..2 : [name |-> o, value |-> v, of |-> reports, part |-> i] \in Outbound
  BY DEF Outbound
<1>2. line \in Seq(Outbound) /\ Len(line) = 2
  <2>1. line \in [1..2 -> Outbound] /\ 2 \in Nat
    BY <1>1 DEF ReportLine
  <2> HIDE DEF line
  <2> QED BY <2>1, ListTyped
<1>3. /\ line[1].part = 1 /\ line[2] = [line[1] EXCEPT !.part = 2] /\ line[2].part = 2
      /\ line[2].name = o /\ line[2].value = v
  BY DEF ReportLine
<1> DEFINE queue == outgoing \o line
           d == Len(queue) - Least(Capacity, Len(queue))
           new == Newest(queue, Capacity)
<1>4. QueueLine(o, v) = new
  BY Zenon DEF QueueLine, ReportLine
<1> HIDE DEF line
<1>5. queue \in Seq(Outbound) /\ Len(queue) = Len(outgoing) + 2 /\ Capacity \in Nat
  <2>1. queue \in Seq(Outbound) /\ Len(queue) = Len(outgoing) + Len(line)
    BY <1>2, CatParts
  <2> QED BY <1>2, <2>1, EcuAssumption
<1>6. Joined(queue) /\ Ended(queue)
  <2>1. 2 \in 1..2
    OBVIOUS
  <2> QED BY <1>2, <1>3, <2>1, PartsAreTwins, LineBehind
<1> HIDE DEF queue
<1>7. Kept(Outbound, queue, Capacity, d)
  BY <1>5, NewestKept
<1> HIDE DEF d
<1>8. /\ new \in Seq(Outbound) /\ d \in 0..Len(queue) /\ Len(new) = Len(queue) - d
      /\ \A i \in 1..Len(new) : new[i] = queue[i + d]
  BY <1>7 DEF Kept
<1> HIDE DEF new
<1>9. Joined(new) /\ Ended(new)
  BY <1>5, <1>6, <1>8, PartsAreTwins, OrderKept
<1>10. Len(outgoing) + 2 <= Capacity => new = queue
  BY <1>5, NewestAll DEF new
<1> QED BY <1>2, <1>3, <1>4, <1>9, <1>10 DEF queue, line

\* A client that reads the line of a report behind the others knows the level it reports,
\* and of the other outputs what it knew.
LEMMA LineTells ==
  ASSUME NEW q \in Seq(Outbound), NEW line \in Seq(Outbound), Len(line) = 2,
         line[1].part = 1, line[2].part = 2, NEW o, line[2].name = o,
         NEW p, NEW known, NEW driven, p = o => line[2].value = driven,
         p # o => Says(q, p, known, driven)
  PROVE  Says(q \o line, p, known, driven)
<1> DEFINE n == Len(q)
           next == q \o line
<1>1. /\ n \in Nat /\ Len(next) = n + 2
      /\ \A i \in 1..Len(next) : next[i] = IF i <= n THEN q[i] ELSE line[i - n]
  <2>1. /\ Len(next) = n + Len(line)
        /\ \A i \in 1..Len(next) : next[i] = IF i <= n THEN q[i] ELSE line[i - n]
    BY CatParts, Zenon
  <2>2. n \in Nat
    OBVIOUS
  <2> QED BY <2>1, <2>2
<1> SUFFICES Says(next, p, known, driven)
  OBVIOUS
<1> HIDE DEF next
<1>2. next[n + 1] = line[1] /\ next[n + 2] = line[2] /\ n + 2 \in 2..Len(next)
  <2>1. n + 1 \in 1..Len(next) /\ ~(n + 1 <= n) /\ (n + 1) - n = 1
        /\ n + 2 \in 1..Len(next) /\ ~(n + 2 <= n) /\ (n + 2) - n = 2
    BY <1>1
  <2> HIDE DEF n
  <2> QED BY <1>1, <2>1
<1>3. \A i \in 2..n : i \in 2..Len(next) /\ next[i] = q[i]
  <2> SUFFICES ASSUME NEW i \in 2..n PROVE i \in 2..Len(next) /\ next[i] = q[i]
    OBVIOUS
  <2>1. i \in 1..Len(next) /\ i <= n
    BY <1>1
  <2> HIDE DEF n
  <2> QED BY <1>1, <2>1
<1>4. \A i \in 2..Len(next) : i \in 2..n \/ i = n + 1 \/ i = n + 2
  <2> HIDE DEF n
  <2> QED BY <1>1
<1> HIDE DEF n
<1>5. CASE p = o
  <2>1. EndOf(next, n + 2, o) /\ next[n + 2].value = driven
    BY <1>2, <1>5 DEF EndOf
  <2>2. ~ \A i \in 2..Len(next) : ~EndOf(next, i, p)
    BY <1>2, <1>5, <2>1
  <2>3. ASSUME NEW i \in 2..Len(next), \A j \in (i + 1)..Len(next) : ~EndOf(next, j, p)
        PROVE  i = n + 2
    <3> SUFFICES ASSUME i # n + 2 PROVE FALSE
      OBVIOUS
    <3>1. n + 2 \in (i + 1)..Len(next)
      BY <1>1
    <3> QED BY <1>5, <2>1, <2>3, <3>1
  <2> QED BY <1>5, <2>1, <2>2, <2>3 DEF Says
<1>6. CASE p # o
  <2>1. ~EndOf(next, n + 1, p) /\ ~EndOf(next, n + 2, p)
    BY <1>2, <1>6 DEF EndOf
  <2>2. \A i \in 2..n : EndOf(next, i, p) <=> EndOf(q, i, p)
    BY <1>3 DEF EndOf
  <2>3. ASSUME \A i \in 2..Len(next) : ~EndOf(next, i, p) PROVE known = driven
    <3>1. \A i \in 2..n : ~EndOf(q, i, p)
      BY <1>3, <2>2, <2>3
    <3> QED BY <1>6, <3>1 DEF Says, n
  <2>4. ASSUME NEW i \in 2..Len(next), EndOf(next, i, p),
               \A j \in (i + 1)..Len(next) : ~EndOf(next, j, p)
        PROVE  next[i].value = driven
    <3>1. i \in 2..n
      BY <1>4, <2>1, <2>4
    <3>2. \A j \in (i + 1)..n : ~EndOf(q, j, p)
      <4> SUFFICES ASSUME NEW j \in (i + 1)..n PROVE ~EndOf(q, j, p)
        OBVIOUS
      <4>1. j \in 2..n /\ j \in (i + 1)..Len(next)
        BY <1>1, <3>1
      <4> QED BY <2>2, <2>4, <4>1
    <3>3. q[i].value = driven
      BY <1>6, <2>2, <2>4, <3>1, <3>2 DEF Says, n
    <3> QED BY <1>3, <1>6, <3>1, <3>3
  <2> QED BY <2>3, <2>4 DEF Says
<1> QED BY <1>5, <1>6

\* A report that changes an output queues its line for the client, whole behind whole
\* ones while the queue does not overflow (report_output).
LEMMA ReportClient ==
  ASSUME EcuInv, OutLevels, ClientInv, ~embedded, NEW o \in Outputs, NEW v \in {0, 1},
         ReportOutput(o, v)
  PROVE  ClientInv'
<1>1. /\ outgoing \in Seq(Outbound) /\ half \in Seq(Outbound) /\ reports \in Nat
      /\ told \subseteq Outputs /\ gap \in BOOLEAN
  BY DEF EcuInv, TypeOK, TcpTyped, TallyTyped
<1>2. /\ embedded' = embedded /\ UNCHANGED <<client, half, view>>
      /\ pins'[o] = v /\ \A p \in Outputs : p # o => pins'[p] = pins[p]
  BY ReportLevels DEF ReportOutput
<1>3. /\ Joined(outgoing) /\ Ended(outgoing) /\ StartsOnly(half)
      /\ (~gap => Joined(half \o outgoing) /\ Ended(half \o outgoing))
      /\ (~gap /\ client # 0 => \A p \in told : Tells(half \o outgoing, p))
  BY DEF ClientInv
<1>4. CASE ChangedFrom(o, v) /\ client # 0
  <2> DEFINE line == ReportLine(o, v)
             q == half \o outgoing
  <2>1. /\ outgoing' = QueueLine(o, v) /\ gap' = (gap \/ Len(outgoing) + 2 > Capacity)
        /\ told' = told \cup {o}
    BY <1>4, Zenon DEF ReportOutput, ChangedFrom
  <2>2. /\ line \in Seq(Outbound) /\ Len(line) = 2 /\ line[1].part = 1
        /\ line[2] = [line[1] EXCEPT !.part = 2] /\ line[2].part = 2 /\ line[2].name = o /\ line[2].value = v
        /\ Joined(QueueLine(o, v)) /\ Ended(QueueLine(o, v))
        /\ (Len(outgoing) + 2 <= Capacity => QueueLine(o, v) = outgoing \o line)
    BY <1>1, <1>3, QueueOrder
  <2> HIDE DEF line
  <2>3. Joined(outgoing)' /\ Ended(outgoing)' /\ StartsOnly(half)'
    BY <1>2, <1>3, <2>1, <2>2 DEF Joined, Ended, StartsOnly
  <2>4. CASE gap'
    BY <1>2, <2>3, <2>4 DEF ClientInv
  <2>5. CASE ~gap'
    <3>1. ~gap /\ Len(outgoing) + 2 <= Capacity
      <4>1. ~gap /\ ~(Len(outgoing) + 2 > Capacity)
        BY <2>1, <2>5, Zenon
      <4>2. Len(outgoing) \in Nat /\ Capacity \in Nat
        BY <1>1, EcuAssumption
      <4> QED BY <4>1, <4>2
    <3>2. q \in Seq(Outbound) /\ half' \o outgoing' = q \o line
      <4>1. outgoing' = outgoing \o line /\ half' = half
        BY <1>2, <2>1, <2>2, <3>1, Zenon
      <4>2. half \o (outgoing \o line) = q \o line
        <5>1. line \in Seq(Outbound) /\ outgoing \in Seq(Outbound) /\ half \in Seq(Outbound)
          BY <1>1, <2>2
        <5> QED BY <5>1, CatAssoc
      <4> QED BY <1>1, <4>1, <4>2
    <3>3. Joined(q) /\ Ended(q) /\ \A p \in told : Tells(q, p)
      BY <1>3, <1>4, <3>1
    <3> HIDE DEF q
    <3>4. Joined(q \o line) /\ Ended(q \o line)
      <4>1. 2 \in 1..2
        OBVIOUS
      <4> QED BY <2>2, <3>2, <3>3, <4>1, PartsAreTwins, LineBehind
    <3>5. Joined(half \o outgoing)' /\ Ended(half \o outgoing)'
      BY <3>2, <3>4 DEF Joined, Ended
    <3>6. ASSUME NEW p \in told' PROVE Says(q \o line, p, view'[p], pins'[p])
      <4>1. p \in Outputs /\ (p # o => p \in told)
        BY <1>1, <2>1
      <4>2. p # o => Says(q, p, view'[p], pins'[p])
        BY <1>2, <3>3, <4>1 DEF Tells
      <4>3. p = o => line[2].value = pins'[p]
        BY <1>2, <2>2
      <4> QED BY <2>2, <3>2, <4>2, <4>3, LineTells
    <3>7. \A p \in told' : Tells(half \o outgoing, p)'
      <4>1. \A p \in told' : Says(half' \o outgoing', p, view'[p], pins'[p])
        BY <3>2, <3>6, Zenon
      <4> QED BY <4>1 DEF Tells, Says, EndOf
    <3> QED BY <1>2, <2>3, <3>5, <3>7 DEF ClientInv
  <2> QED BY <2>4, <2>5
<1>5. CASE ~(ChangedFrom(o, v) /\ client # 0)
  <2>1. UNCHANGED <<outgoing, gap, told>>
    BY <1>5, Zenon DEF ReportOutput, ChangedFrom
  <2>2. /\ Joined(outgoing)' /\ Ended(outgoing)' /\ StartsOnly(half)'
        /\ (~gap => Joined(half \o outgoing)' /\ Ended(half \o outgoing)')
    BY <1>2, <1>3, <2>1 DEF Joined, Ended, StartsOnly
  <2>3. client # 0 => \A p \in Outputs : pins'[p] = pins[p]
    <3>1. client # 0 => pins[o] = v
      BY <1>5 DEF ChangedFrom, OutLevels
    <3> QED BY <1>2, <3>1
  <2>4. ASSUME client # 0, ~gap, NEW p \in told PROVE Tells(half \o outgoing, p)'
    <3>1. pins'[p] = pins[p] /\ Tells(half \o outgoing, p)
      BY <1>1, <1>3, <2>3, <2>4
    <3> QED BY <1>2, <2>1, <3>1 DEF Tells, Says, EndOf
  <2> QED BY <1>2, <2>1, <2>2, <2>4 DEF ClientInv
<1> QED BY <1>4, <1>5

\* Nothing else touches what is for the client or what it knows.
LEMMA ClientLeft ==
  ASSUME ClientInv, UNCHANGED <<embedded, client, pins, outgoing, half, view, told, gap>>
  PROVE  ClientInv'
<1>1. \A o \in told : Tells(half \o outgoing, o) => Tells(half \o outgoing, o)'
  BY DEF Tells, Says, EndOf
<1>2. /\ Joined(outgoing) => Joined(outgoing)' /\ (Ended(outgoing) => Ended(outgoing)')
      /\ (StartsOnly(half) => StartsOnly(half)')
      /\ (Joined(half \o outgoing) => Joined(half \o outgoing)')
      /\ (Ended(half \o outgoing) => Ended(half \o outgoing)')
  BY DEF Joined, Ended, StartsOnly
<1> QED BY <1>1, <1>2 DEF ClientInv

\* A client that connects knows of no change yet; lines left for one before it are whole,
\* but perhaps for the first.
LEMMA ConnectClient ==
  ASSUME EcuInv, ClientInv, Connect
  PROVE  ClientInv'
<1>1. /\ half' = <<>> /\ told' = {} /\ gap' = FALSE /\ outgoing' = outgoing /\ ~embedded
      /\ outgoing \in Seq(Outbound)
  BY DEF Connect, EcuInv, TypeOK, TcpTyped
<1>2. Joined(outgoing) /\ Ended(outgoing)
  BY <1>1 DEF ClientInv
<1>3. half' \o outgoing' = outgoing
  BY <1>1
<1>4. /\ Joined(outgoing)' /\ Ended(outgoing)' /\ Joined(half \o outgoing)'
      /\ Ended(half \o outgoing)'
  BY <1>1, <1>2, <1>3 DEF Joined, Ended
<1>5. StartsOnly(half)'
  BY <1>1 DEF StartsOnly
<1>6. \A o \in told' : Tells(half \o outgoing, o)'
  BY <1>1
<1> QED BY <1>4, <1>5, <1>6, Zenon DEF ClientInv

HostInv == OutLevels /\ LinkInv /\ ClientInv

LEMMA HostInitial == Init => HostInv
<1> SUFFICES ASSUME Init PROVE HostInv
  OBVIOUS
<1>1. NothingReported
  BY DEF Init, NothingReported
<1>2. outgoing = <<>> /\ half = <<>> /\ client = 0
  BY DEF Init
<1> DEFINE q == half \o outgoing
<1>3. Len(q) = 0 /\ Len(outgoing) = 0 /\ Len(half) = 0
  BY <1>2
<1> HIDE DEF q
<1>4. Joined(outgoing) /\ Ended(outgoing) /\ StartsOnly(half) /\ Joined(q) /\ Ended(q)
  BY <1>3 DEF Joined, Ended, StartsOnly
<1>5. ClientInv
  BY <1>2, <1>4 DEF ClientInv, q
<1> QED BY <1>1, <1>5, FreshLink DEF HostInv

LEMMA HostStep == EcuInv /\ HostInv /\ [Next]_vars => HostInv'
<1> SUFFICES ASSUME EcuInv, HostInv, [Next]_vars PROVE HostInv'
  OBVIOUS
<1>1. OutLevels /\ LinkInv /\ ClientInv
  BY DEF HostInv
<1>2. ASSUME embedded' = embedded, embedded PROVE ClientInv'
  BY <1>2 DEF ClientInv
<1>3. ASSUME UNCHANGED <<embedded, client, outgoing, outputs, output_events,
                         next_output_sequence, pins, hostVars>>,
             \A o \in Outputs : values'[o] = values[o]
      PROVE  HostInv'
  <2>1. UNCHANGED <<view, expect, half, told, gap>>
    BY <1>3 DEF hostVars
  <2>2. OutLevels' /\ LinkInv'
    BY <1>1, <1>3, <2>1, LinkLeft
  <2>3. ClientInv'
    BY <1>1, <1>3, <2>1, ClientLeft
  <2> QED BY <2>2, <2>3 DEF HostInv
<1>4. CASE Poll
  <2>1. \A o \in Outputs : values'[o] = values[o]
    BY <1>4, PollLevels
  <2>2. ASSUME NEW delta, PollLink(delta) PROVE HostInv'
    <3>1. UNCHANGED <<embedded, client, outgoing, outputs, output_events,
                      next_output_sequence, pins, hostVars>>
      BY <2>2 DEF PollLink, tcpVars
    <3> QED BY <1>3, <2>1, <3>1
  <2>3. ASSUME NEW delta, NEW n, NEW k \in 0..Len(outgoing), PollSocket(n, k, delta)
        PROVE  HostInv'
    <3>1. UNCHANGED <<embedded, outputs, output_events, next_output_sequence, pins>> /\ ~embedded
      BY <2>3 DEF PollSocket, linkVars
    <3>2. OutLevels' /\ LinkInv'
      BY <1>1, <2>1, <3>1, LinkLeft
    <3> QED BY <1>1, <2>3, <3>2, PollClient DEF HostInv
  <2> QED BY <1>4, <2>2, <2>3 DEF Poll
<1>5. CASE Feeder
  <2>1. CASE Connect
    <3>1. UNCHANGED <<embedded, outputs, output_events, next_output_sequence, pins, values>>
          /\ ~embedded
      BY <2>1 DEF Connect, linkVars, inputVars
    <3>2. OutLevels' /\ LinkInv'
      BY <1>1, <3>1, LinkLeft
    <3> QED BY <1>1, <2>1, <3>2, ConnectClient DEF HostInv
  <2>2. CASE SetInput
    <3>1. UNCHANGED <<embedded, client, outgoing, outputs, output_events,
                      next_output_sequence, pins, hostVars, values>>
      BY <2>2 DEF SetInput, tcpVars, inputVars
    <3> QED BY <1>3, <3>1
  <2>3. CASE Close \/ \E parts \in 1..2 : WriteLine(parts)
    <3>1. UNCHANGED <<embedded, client, outgoing, outputs, output_events,
                      next_output_sequence, pins, hostVars, values>>
      BY <2>3 DEF Close, WriteLine, linkVars, inputVars
    <3> QED BY <1>3, <3>1
  <2> QED BY <1>5, <2>1, <2>2, <2>3 DEF Feeder
<1>6. CASE Firmware
  <2>1. UNCHANGED <<embedded, client, outgoing, outputs, output_events,
                    next_output_sequence, pins, hostVars, values>>
    BY <1>6 DEF Firmware, tcpVars, linkVars
  <2> QED BY <1>3, <2>1
<1>7. CASE TakeOutputEvents
  <2>1. embedded /\ OutLevels' /\ LinkInv'
    BY <1>1, <1>7, TakeLink
  <2>2. embedded' = embedded
    BY <1>7 DEF TakeOutputEvents
  <2> QED BY <1>2, <2>1, <2>2 DEF HostInv
<1>8. CASE ReadOutputs
  <2>1. OutLevels' /\ LinkInv'
    BY <1>1, <1>8, ReadLink
  <2>2. embedded /\ embedded' = embedded
    BY <1>8 DEF ReadOutputs
  <2> QED BY <1>2, <2>1, <2>2 DEF HostInv
<1>9. CASE Restart
  <2>1. next_output_sequence \in Nat
    BY DEF EcuInv, TypeOK, LinkTyped
  <2>2. NothingReported'
    BY <1>9, <2>1 DEF Restart, NothingReported
  <2>3. OutLevels' /\ LinkInv'
    BY <2>2, FreshLink, PTL
  <2>4. embedded /\ embedded' = embedded
    BY <1>9 DEF Restart
  <2> QED BY <1>2, <2>3, <2>4 DEF HostInv
<1>10. ASSUME NEW o \in Outputs, NEW v \in {0, 1}, ReportOutput(o, v) PROVE HostInv'
  <2>1. OutLevels' /\ embedded' = embedded
    BY <1>1, <1>10, ReportLevels
  <2>2. CASE embedded
    <3>1. LinkInv'
      BY <1>1, <1>10, <2>2, ReportEvents
    <3> QED BY <1>2, <2>1, <2>2, <3>1 DEF HostInv
  <2>3. CASE ~embedded
    <3>1. ClientInv'
      BY <1>1, <1>10, <2>3, ReportClient
    <3>2. output_events' = output_events
      BY <1>10, <2>3 DEF ReportOutput
    <3>3. LinkInv'
      BY <1>1, <2>1, <2>3, <3>2 DEF LinkInv
    <3> QED BY <2>1, <3>1, <3>3 DEF HostInv
  <2> QED BY <2>2, <2>3
<1>11. CASE UNCHANGED vars
  <2>1. UNCHANGED <<embedded, client, outgoing, outputs, output_events,
                    next_output_sequence, pins, hostVars, values>>
    BY <1>11 DEF vars, tcpVars, linkVars, inputVars
  <2> QED BY <1>3, <2>1
<1> QED BY <1>4, <1>5, <1>6, <1>7, <1>8, <1>9, <1>10, <1>11, Zenon DEF Next

\* What the invariant says of a host or a client that missed nothing.
LEMMA InformedByInv ==
  ASSUME EcuInv, HostInv
  PROVE  HostInformed
<1> SUFFICES ASSUME NEW o \in Outputs
             PROVE  LET at == {i \in DOMAIN output_events : output_events[i].name = o}
                        known == IF at = {} THEN view[o] ELSE output_events[Max(at)].value
                        numbered == output_events # <<>> => Head(output_events).sequence = expect
                    IN  IF embedded THEN numbered /\ ~gap => known = pins[o]
                        ELSE o \in told /\ client # 0 /\ ~gap
                               => ClientView(half \o outgoing)[o] = pins[o]
  BY Zenon DEF HostInformed
<1> DEFINE at == {i \in DOMAIN output_events : output_events[i].name = o}
           known == IF at = {} THEN view[o] ELSE output_events[Max(at)].value
<1>1. OutLevels /\ LinkInv /\ ClientInv
  BY DEF HostInv
<1>2. ASSUME embedded, output_events # <<>> => Head(output_events).sequence = expect, ~gap
      PROVE  known = pins[o]
  <2> DEFINE len == Len(output_events)
             next == next_output_sequence
  <2>1. output_events \in Seq(Events) /\ len \in Nat /\ next \in Nat /\ expect \in Nat
    BY DEF EcuInv, TypeOK, LinkTyped
  <2>2. /\ \A i \in 1..len : output_events[i].sequence = ((next - len) + i) - 1
        /\ (len = 0 => expect = next)
        /\ (~gap /\ expect + len = next =>
              \A p \in Outputs :
                (\A i \in 1..len : output_events[i].name # p) => view[p] = outputs[p])
    BY <1>1, <1>2, Zenon DEF LinkInv
  <2>3. expect + len = next
    <3>1. CASE len = 0
      BY <2>1, <2>2, <3>1
    <3>2. CASE len # 0
      <4>1. output_events # <<>> /\ 1 \in 1..len /\ Head(output_events) = output_events[1]
        BY <2>1, <3>2
      <4>2. output_events[1].sequence = ((next - len) + 1) - 1
        BY <2>2, <4>1, Zenon
      <4>3. expect = ((next - len) + 1) - 1
        BY <1>2, <4>1, <4>2
      <4> HIDE DEF len, next
      <4> QED BY <2>1, <4>3
    <3> QED BY <3>1, <3>2
  <2>4. /\ at # {} => output_events[Max(at)].value = outputs[o]
        /\ at = {} => \A i \in 1..len : output_events[i].name # o
    BY <1>1, <1>2, EventsSay
  <2>5. pins[o] = outputs[o]
    BY <1>1, <1>2 DEF OutLevels
  <2> HIDE DEF at
  <2> QED BY <1>2, <2>2, <2>3, <2>4, <2>5, Zenon
<1>3. ASSUME ~embedded, o \in told, client # 0, ~gap
      PROVE  ClientView(half \o outgoing)[o] = pins[o]
  <2> DEFINE q == half \o outgoing
             ends == {i \in WholeLines(q) : q[i].name = o}
  <2>1. q \in Seq(Outbound)
    BY DEF EcuInv, TypeOK, TcpTyped
  <2>2. Joined(q) /\ Tells(q, o)
    BY <1>1, <1>3 DEF ClientInv
  <2>3. ClientView(q)[o] = IF ends = {} THEN view[o] ELSE q[Max(ends)].value
    BY DEF ClientView
  <2> HIDE DEF q
  <2>4. Len(q) \in Nat /\ WholeLines(q) = {i \in 2..Len(q) : q[i].part = 2}
    BY <2>1, <2>2, PartsAreTwins, EndsAreWhole
  <2>5. /\ ends \subseteq 1..Len(q) /\ \A i \in ends : i \in 2..Len(q) /\ EndOf(q, i, o)
        /\ \A i \in 2..Len(q) : EndOf(q, i, o) => i \in ends
    BY <2>4 DEF EndOf
  <2> HIDE DEF ends
  <2>6. CASE ends = {}
    BY <2>2, <2>3, <2>5, <2>6 DEF Tells, Says, q
  <2>7. CASE ends # {}
    <3> DEFINE x == Max(ends)
    <3>1. x \in ends /\ \A i \in ends : i <= x
      BY <2>4, <2>5, <2>7, MaxIn
    <3> HIDE DEF x
    <3>2. x \in 2..Len(q) /\ EndOf(q, x, o)
      BY <2>5, <3>1
    <3>3. \A j \in (x + 1)..Len(q) : ~EndOf(q, j, o)
      <4> SUFFICES ASSUME NEW j \in (x + 1)..Len(q), EndOf(q, j, o) PROVE FALSE
        OBVIOUS
      <4>1. j \in 2..Len(q) /\ ~(j <= x)
        BY <2>4, <3>2
      <4> QED BY <2>5, <3>1, <4>1
    <3>4. q[x].value = pins[o]
      BY <2>2, <3>2, <3>3, Zenon DEF Tells, Says
    <3>5. ClientView(q)[o] = pins[o]
      BY <2>3, <2>7, <3>4, Zenon DEF x
    <3> QED BY <3>5 DEF q
  <2> QED BY <2>6, <2>7
<1> QED BY <1>2, <1>3, Zenon

\* A host that takes the events and has missed none knows, with the events still queued,
\* every level the firmware drives; a client knows those that changed while it was
\* connected, unless its queue overflowed: for every capacity of the queue of lines and of
\* events (report_output, publish_output, take_output_events, send_to_client).
THEOREM HostKnows == Spec => []HostInformed
<1>1. EcuInv /\ HostInv => HostInformed
  BY InformedByInv
<1>2. Spec => []HostInv
  BY EcuInvariant, HostInitial, HostStep, PTL DEF Spec
<1> QED BY <1>1, <1>2, EcuInvariant, PTL
=============================================================================
