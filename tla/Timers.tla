------------------------------- MODULE Timers ------------------------------
(***************************************************************************)
(* TIM5, TIM6, TIM11 and the DWT cycle counter (src/peripherals/tim5.rs,   *)
(* tim6.rs, tim11.rs, dwt.rs), all computed from the instruction counter.  *)
(* Counters are W wide: arithmetic on them is modulo W, as the code's      *)
(* wrapping operations are modulo 2^32.                                    *)
(***************************************************************************)
EXTENDS Integers

CONSTANTS W,        \* number of counter values, 2^32 in the code
          PerTick   \* INSTRUCTIONS_PER_TICK

NewTim5 == [cen |-> FALSE, ie |-> FALSE, flag |-> FALSE, ccr1 |-> 0,
            armed |-> FALSE, offset |-> 0, held |-> 0]

(* Truncated before it is divided: CNT wraps at W instructions. *)
TicksTruncated(now) == (now % W) \div PerTick

(* ticks_from_instructions: divided before it is truncated. *)
Ticks(now) == (now \div PerTick) % W

Cnt(t, now) == IF t.cen THEN (Ticks(now) + t.offset) % W ELSE t.held

WriteCr1(t, cen, now) ==
  CASE cen /\ ~t.cen -> [t EXCEPT !.cen = TRUE, !.offset = (t.held - Ticks(now)) % W]
    [] ~cen /\ t.cen -> [t EXCEPT !.cen = FALSE, !.held = Cnt(t, now)]
    [] OTHER -> t

WriteCnt(t, value, now) ==
  IF t.cen THEN [t EXCEPT !.offset = (value - Ticks(now)) % W]
  ELSE [t EXCEPT !.held = value]

(* A plain comparison of the two counters. *)
HasPassedCcr1Plain(t, now) == Cnt(t, now) >= t.ccr1

(* has_passed_ccr1: the difference read as a signed number is not negative. *)
HasPassedCcr1(t, now) == (Cnt(t, now) - t.ccr1) % W < W \div 2

Poll5(t, now) == [t EXCEPT !.flag = @ \/ (t.armed /\ HasPassedCcr1(t, now))]

(* The level condition poll re-asserts to the NVIC. *)
Pends5(t) == t.flag /\ t.ie

----------------------------------------------------------------------------
NewTim6 == [cen |-> FALSE, ie |-> FALSE, flag |-> FALSE, psc |-> 0, arr |-> 0,
            since |-> 0]

Period(t) == 2 * (t.psc + 1) * (t.arr + 1)

WriteCr1Of6(t, cen, now) ==
  [t EXCEPT !.cen = cen, !.since = IF cen /\ ~t.cen THEN now ELSE @]

(* EGR.UG and any write of CNT. *)
Restart6(t, now) == [t EXCEPT !.since = now]

Poll6(t, now) ==
  IF t.cen /\ now - t.since >= Period(t)
  THEN [t EXCEPT !.flag = TRUE, !.since = now] ELSE t

Pends6(t) == t.flag /\ t.ie

----------------------------------------------------------------------------
(* TIM11: CC1IF is set whenever the channel is configured for capture, and *)
(* set again by the write that clears it.                                  *)
NewTim11 == [cen |-> FALSE, input |-> FALSE, enabled |-> FALSE, flag |-> FALSE]

Refreshed11(t) == [t EXCEPT !.flag = @ \/ (t.cen /\ t.input /\ t.enabled)]

Write11(t, reg, on) ==
  Refreshed11(IF reg = "flag" THEN [t EXCEPT !.flag = @ /\ ~on]
              ELSE [t EXCEPT ![reg] = on])

----------------------------------------------------------------------------
(* Dwt: CYCCNT counts instructions, from an offset set by a write. *)
Cyccnt(offset, now) == (now + offset) % W

SetCyccnt(value, now) == (value - now) % W
=============================================================================
