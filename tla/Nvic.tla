-------------------------------- MODULE Nvic --------------------------------
(***************************************************************************)
(* Interrupt delivery in the emulator: the Nvic peripheral                 *)
(* (src/src/peripherals/nvic.rs), the SysTick and SCB registers that feed   *)
(* it, and the two Unicorn hooks of run_emulator that drive it             *)
(* (src/src/emulator.rs): the block hook at every translation-block entry  *)
(* and the interrupt hook on svc and on exception return.                  *)
(*                                                                         *)
(* The emulator is sequential.  `phase' alternates between "entry" (the    *)
(* block hook is about to run) and "exec" (the firmware's block runs and   *)
(* performs one operation).  The firmware and the CPU are the environment: *)
(* `handlers' and `frames' record which exception handlers are really live *)
(* and what was stacked for them, so that what Nvic believes               *)
(* (in_interrupt, active_exception_number) can be compared with the truth. *)
(*                                                                         *)
(* Exceptions are numbered as in the pending bit set: external IRQ n is    *)
(* bit IRQ_OFFSET + n, architectural exceptions lie below IRQ_OFFSET.      *)
(* Counters are kept as ages (halfwords since the last event), saturated   *)
(* one past the largest value they are compared with.                      *)
(***************************************************************************)
EXTENDS Integers, Sequences

CONSTANTS
  Irqs,            (* external IRQ numbers the board's peripherals raise     *)
  InterruptPeriod, (* args.interrupt_period: halfwords between block checks  *)
  BlockSizes,      (* sizes of translation blocks, in halfwords              *)
  Reloads,         (* SysTick LOAD values the firmware programs              *)
  AgeCap,          (* saturation bound of since_systick and since_check      *)
  MaxNesting,      (* svc is executed with fewer live handlers than this:    *)
                   (* 1 = from thread mode only, 2 = also from a handler     *)
  FpInHandler,     (* may a handler execute floating-point instructions      *)
  LrIntact         (* ways handlers return: TRUE, LR still holds EXC_RETURN; *)
                   (* FALSE, LR was overwritten by calls the handler made    *)

ASSUME NvicAssumption ==
  /\ Irqs \subseteq 0..111        \* bits IRQ_OFFSET .. 127 of a u128
  /\ InterruptPeriod \in Nat
  /\ BlockSizes \subseteq Nat \ {0}
  /\ Reloads \subseteq Nat
  /\ AgeCap \in Nat
  /\ AgeCap >= InterruptPeriod
  /\ \A r \in Reloads : r < AgeCap
  /\ MaxNesting \in Nat \ {0}
  /\ FpInHandler \in BOOLEAN
  /\ LrIntact \subseteq BOOLEAN

VARIABLES
  pending,                 \* Nvic.pending, as the set of its bit numbers
  enabled,                 \* Nvic.enabled, as a set of IRQ numbers
  in_interrupt,            \* Nvic.in_interrupt
  active_exception_number, \* Nvic.active_exception_number
  systick_period,          \* Nvic.systick_period, NoPeriod for None
  since_systick,           \* NUM_INSTRUCTIONS - Nvic.last_systick_trigger
  since_check,             \* NUM_INSTRUCTIONS - last_interrupt_check
  cpu,                     \* [masked, it, spsel, fpca] as the hooks read them
  handlers,                \* exceptions whose handlers are live, innermost last
  frames,                  \* what run_interrupt stacked for each of them
  sp,                      \* words of exception frames on each stack
  phase                    \* "entry": block hook next; "exec": firmware next

nvicVars == <<pending, enabled, in_interrupt, active_exception_number>>
clockVars == <<systick_period, since_systick, since_check>>
cpuVars == <<cpu, handlers, frames, sp>>
vars == <<nvicVars, clockVars, cpuVars, phase>>

IRQ_OFFSET == 16
PENDSV == IRQ_OFFSET - 2
SYSTICK == IRQ_OFFSET - 1
SVCALL == IRQ_OFFSET - 5

NoPeriod == -1

\* What set_intr_pending is called with: PENDSV and SYSTICK by the SCB and the
\* SysTick check, external IRQs by the peripherals and by STIR.
Pendable == {PENDSV, SYSTICK} \cup {IRQ_OFFSET + i : i \in Irqs}
Exceptions == Pendable \cup {SVCALL}

\* The CPU registers the hooks read: PRIMASK/BASEPRI, ITSTATE, CONTROL.SPSEL and
\* CONTROL.FPCA; and what an exception frame (with its EXC_RETURN value) keeps.
CpuState == [masked : BOOLEAN, it : BOOLEAN, spsel : BOOLEAN, fpca : BOOLEAN]
Frame == [it : BOOLEAN, spsel : BOOLEAN, fpca : BOOLEAN]

\* sp_reg in push_regs and pop_regs.
Stacks == {"MSP", "PSP"}
StackReg(spsel) == IF spsel THEN "PSP" ELSE "MSP"

Saturated(age) == IF age > AgeCap THEN AgeCap ELSE age

\* The words push_regs writes and pop_regs skips: 8, or 26 with the
\* floating-point context and its reserved alignment word.
FrameWords(fpca) == IF fpca THEN 26 ELSE 8

-----------------------------------------------------------------------------
Init ==
  /\ pending = {}
  /\ enabled = {}
  /\ in_interrupt = FALSE
  /\ active_exception_number = 0
  /\ systick_period = NoPeriod
  /\ since_systick = 0
  /\ since_check = 0
  /\ cpu = [masked |-> FALSE, it |-> FALSE, spsel |-> FALSE, fpca |-> FALSE]
  /\ handlers = <<>>
  /\ frames = <<>>
  /\ sp = [s \in Stacks |-> 0]
  /\ phase = "entry"

-----------------------------------------------------------------------------
(* Nvic's own operations.  They are applied to the registers of the step    *)
(* under way, which the exception return has already changed when it        *)
(* re-checks for pending interrupts.                                        *)

\* The dispatcher without its ISER gate.
DispatchableUngated(pd) == pd

\* get_and_clear_next_dispatchable: architectural exceptions bypass ISER.
Dispatchable(pd) ==
  {e \in pd : e < IRQ_OFFSET \/ (e - IRQ_OFFSET) \in enabled}

\* The early returns with the in_interrupt test left out.
DeferredWhenMasked(busy, c) == c.masked \/ c.it

\* The early returns of run_pending_interrupts: a handler runs, PRIMASK or
\* BASEPRI is set, or the CPU sits inside an IT block.
Deferred(busy, c) == busy \/ c.masked \/ c.it

\* maybe_set_systick_intr_pending's test.
SysTickDue(age) == systick_period # NoPeriod /\ age > systick_period

\* What run_interrupt records as the active exception: IRQ_OFFSET + irq, which is
\* how this module numbers exceptions throughout.
ExceptionNumber(e) == e

\* run_interrupt: stack the context on the stack and in the frame type that
\* CONTROL selects, clear ITSTATE, record the EXC_RETURN value (a function of
\* the same two CONTROL bits, so the frame record stands for LR as well).
RunInterrupt(e, c, hs, fr, stack) ==
  /\ in_interrupt' = TRUE
  /\ active_exception_number' = ExceptionNumber(e)
  /\ handlers' = Append(hs, e)
  /\ frames' = Append(fr, [it |-> c.it, spsel |-> c.spsel, fpca |-> c.fpca])
  /\ sp' = [stack EXCEPT ![StackReg(c.spsel)] = @ + FrameWords(c.fpca)]
  /\ cpu' = [c EXCEPT !.it = FALSE]

\* run_pending_interrupts.  `raised' is what the poll that follows in the same
\* block hook pends; it comes too late for this dispatch.
RunPending(busy, active, c, hs, fr, stack, age, raised) ==
  LET pd == pending \cup (IF SysTickDue(age) THEN {SYSTICK} ELSE {})
      ready == IF Deferred(busy, c) THEN {} ELSE Dispatchable(pd)
  IN  /\ since_systick' = IF SysTickDue(age) THEN 0 ELSE age
      /\ \/ /\ ready = {}
            /\ pending' = pd \cup raised
            /\ in_interrupt' = busy
            /\ active_exception_number' = active
            /\ cpu' = c /\ handlers' = hs /\ frames' = fr /\ sp' = stack
         \/ \E e \in ready :
              /\ \A f \in ready : e <= f          \* trailing_zeros
              /\ pending' = (pd \ {e}) \cup raised
              /\ RunInterrupt(e, c, hs, fr, stack)

-----------------------------------------------------------------------------
(* The block hook.                                                          *)

\* A block of `size' halfwords is entered: NUM_INSTRUCTIONS advances; when the
\* period has elapsed pending interrupts are run; then, if a poll is due, the
\* peripherals pend `raised'.  A dispatch stops the engine at the vector, whose
\* first block is entered next; otherwise the block's instructions execute.
BlockHook(size, raised) ==
  /\ phase = "entry"
  /\ LET age == Saturated(since_systick + size)
     IN  IF since_check >= InterruptPeriod
         THEN /\ RunPending(in_interrupt, active_exception_number, cpu,
                            handlers, frames, sp, age, raised)
              /\ since_check' = Saturated(size)
         ELSE /\ since_systick' = age
              /\ since_check' = Saturated(since_check + size)
              /\ pending' = pending \cup raised
              /\ UNCHANGED <<in_interrupt, active_exception_number, cpuVars>>
  /\ phase' = IF handlers' = handlers THEN "exec" ELSE "entry"
  /\ UNCHANGED <<enabled, systick_period>>

-----------------------------------------------------------------------------
(* One operation of the firmware per executed block.                        *)

Executes == phase = "exec" /\ phase' = "entry"

\* Nothing the interrupt machinery can see.
PlainBlock == Executes /\ UNCHANGED <<nvicVars, clockVars, cpuVars>>

\* NVIC_ISERn and NVIC_ICERn.
EnableIrq(i) ==
  /\ Executes
  /\ enabled' = enabled \cup {i}
  /\ UNCHANGED <<pending, in_interrupt, active_exception_number, clockVars, cpuVars>>

DisableIrq(i) ==
  /\ Executes
  /\ enabled' = enabled \ {i}
  /\ UNCHANGED <<pending, in_interrupt, active_exception_number, clockVars, cpuVars>>

\* SCB ICSR as the firmware reads it: RETTOBASE is hard-wired.
Icsr == [RETTOBASE |-> TRUE, VECTACTIVE |-> active_exception_number]

\* A write to NVIC_STIR pends one external IRQ.
WriteStir(i) ==
  /\ Executes
  /\ pending' = pending \cup {IRQ_OFFSET + i}
  /\ UNCHANGED <<enabled, in_interrupt, active_exception_number, clockVars, cpuVars>>

\* A write to SCB ICSR with PENDSVSET, PENDSTSET or both.
WriteIcsr(es) ==
  /\ Executes
  /\ pending' = pending \cup es
  /\ UNCHANGED <<enabled, in_interrupt, active_exception_number, clockVars, cpuVars>>

\* STK CTRL / LOAD writes reprogram the period Nvic counts with; the last
\* trigger time is left alone.
WriteSysTick(period) ==
  /\ Executes
  /\ systick_period' = period
  /\ UNCHANGED <<nvicVars, since_systick, since_check, cpuVars>>

\* CPSID/CPSIE and writes to BASEPRI: the hooks test the two together.
SetMask(masked) ==
  /\ Executes
  /\ cpu.masked # masked
  /\ cpu' = [cpu EXCEPT !.masked = masked]
  /\ UNCHANGED <<nvicVars, clockVars, handlers, frames, sp>>

\* A block that ends inside an IT block, and the one that completes it.
SetItState(it) ==
  /\ Executes
  /\ cpu.it # it
  /\ cpu' = [cpu EXCEPT !.it = it]
  /\ UNCHANGED <<nvicVars, clockVars, handlers, frames, sp>>

\* Thread code selects its stack and drops its floating-point context (writes
\* to CONTROL); the CPU sets CONTROL.FPCA on the first floating-point
\* instruction, in thread or handler code alike.
WriteControl(spsel) ==
  /\ Executes
  /\ handlers = <<>>
  /\ cpu' = [cpu EXCEPT !.spsel = spsel, !.fpca = FALSE]
  /\ UNCHANGED <<nvicVars, clockVars, handlers, frames, sp>>

UseFloatingPoint ==
  /\ Executes
  /\ handlers # <<>> => FpInHandler
  /\ cpu' = [cpu EXCEPT !.fpca = TRUE]
  /\ UNCHANGED <<nvicVars, clockVars, handlers, frames, sp>>

\* The interrupt hook on EXCP_SWI: enter_svcall enters the handler directly,
\* whatever is pending, masked or running.
Svc ==
  /\ Executes
  /\ Len(handlers) < MaxNesting
  /\ RunInterrupt(SVCALL, cpu, handlers, frames, sp)
  /\ UNCHANGED <<pending, enabled, clockVars>>

\* Decoding of EXC_RETURN that reads the inverted frame-type bit as it stands.
ReturnContextMisread(lr_intact) ==
  LET frame == frames[Len(frames)]
  IN  [masked |-> cpu.masked, it |-> frame.it,
       spsel |-> IF lr_intact THEN frame.spsel ELSE cpu.spsel,
       fpca |-> IF lr_intact THEN ~frame.fpca ELSE cpu.fpca]

\* The registers return_from_interrupt leaves: ITSTATE from the stacked XPSR;
\* stack and frame type from LR when it holds an EXC_RETURN value (CONTROL is
\* rewritten from it), else from CONTROL as the handler left it.
ReturnContext(lr_intact) ==
  LET frame == frames[Len(frames)]
  IN  [masked |-> cpu.masked, it |-> frame.it,
       spsel |-> IF lr_intact THEN frame.spsel ELSE cpu.spsel,
       fpca |-> IF lr_intact THEN frame.fpca ELSE cpu.fpca]

\* A return that leaves in_interrupt set.
BusyKept == TRUE

\* What return_from_interrupt leaves in in_interrupt.
BusyAfterReturn == FALSE

\* What return_from_interrupt leaves in active_exception_number.
ActiveAfterReturn == 0

\* The interrupt hook on EXCP_EXCEPTION_EXIT (8), and on the prefetch abort (3)
\* at an EXC_RETURN address, handled alike: return_from_interrupt, then
\* run_pending_interrupts.  When the handler's last branch popped the
\* EXC_RETURN value straight into PC after calling functions, LR holds a code
\* address (not lr_intact).
ExceptionReturn(lr_intact) ==
  /\ Executes
  /\ handlers # <<>>
  /\ LET n == Len(frames)
         c == ReturnContext(lr_intact)
     IN  RunPending(BusyAfterReturn, ActiveAfterReturn, c,
                    SubSeq(handlers, 1, n - 1), SubSeq(frames, 1, n - 1),
                    [sp EXCEPT ![StackReg(c.spsel)] = @ - FrameWords(c.fpca)],
                    since_systick, {})
  /\ UNCHANGED <<enabled, systick_period, since_check>>

-----------------------------------------------------------------------------
RaisedByPoll == {{}} \cup {{IRQ_OFFSET + i} : i \in Irqs}

Firmware ==
  \/ PlainBlock
  \/ \E i \in Irqs : EnableIrq(i) \/ DisableIrq(i) \/ WriteStir(i)
  \/ \E es \in {{PENDSV}, {SYSTICK}, {PENDSV, SYSTICK}} : WriteIcsr(es)
  \/ \E p \in Reloads \cup {NoPeriod} : WriteSysTick(p)
  \/ \E b \in BOOLEAN : SetMask(b) \/ SetItState(b) \/ WriteControl(b)
  \/ UseFloatingPoint
  \/ Svc
  \/ \E b \in LrIntact : ExceptionReturn(b)

Hook == \E size \in BlockSizes, raised \in RaisedByPoll : BlockHook(size, raised)

Next == Hook \/ Firmware

Spec == Init /\ [][Next]_vars

\* Unicorn always enters the next block and executes it; handlers return; and
\* thread code that is inside an IT block or masked gets out of it again.
EndsItBlock == handlers = <<>> /\ SetItState(FALSE)
Unmasks == handlers = <<>> /\ ~cpu.it /\ SetMask(FALSE)
Returns == \E b \in LrIntact : ExceptionReturn(b)

Fairness ==
  /\ WF_vars(Hook) /\ WF_vars(Firmware)
  /\ SF_vars(Returns) /\ SF_vars(EndsItBlock) /\ SF_vars(Unmasks)

FairSpec == Spec /\ Fairness

-----------------------------------------------------------------------------
TypeOK ==
  /\ pending \subseteq Pendable
  /\ enabled \subseteq Irqs
  /\ in_interrupt \in BOOLEAN
  /\ active_exception_number \in Exceptions \cup {0}
  /\ systick_period \in Reloads \cup {NoPeriod}
  /\ since_systick \in 0..AgeCap
  /\ since_check \in 0..AgeCap
  /\ cpu \in CpuState
  /\ handlers \in Seq(Exceptions)
  /\ frames \in Seq(Frame)
  /\ sp \in [Stacks -> Int]
  /\ phase \in {"entry", "exec"}

\* One frame is stacked for every live handler.
OneFramePerHandler == Len(frames) = Len(handlers)

\* ICSR.RETTOBASE is hard-wired to 1 because "our NVIC never nests
\* interrupts" (scb.rs): at most one handler is live, whatever mix of svc,
\* pended exceptions, tail-chained returns and mask changes led here.
RetToBaseTruthful == Icsr.RETTOBASE => Len(handlers) <= 1

\* in_interrupt and ICSR.VECTACTIVE, which the firmware reads back to find the
\* priority of the handler it is in, agree with the handler that is really live.
VectActiveTruthful ==
  /\ in_interrupt <=> handlers # <<>>
  /\ Icsr.VECTACTIVE = IF handlers = <<>> THEN 0 ELSE handlers[Len(handlers)]

\* What the firmware reads of the mode it is in is true: RETTOBASE, VECTACTIVE, and
\* the busy flag that defers dispatches (scb.rs read, run_interrupt,
\* return_from_interrupt).
ModeTruthful == RetToBaseTruthful /\ VectActiveTruthful

\* Every exception frame is popped in the size and from the stack it was pushed
\* with: thread code finds both stacks where it left them.
StackBalanced == handlers = <<>> => sp = [s \in Stacks |-> 0]

\* The firmware discipline the stacks depend on: handlers leave the FPU alone, or
\* return with the EXC_RETURN value still in LR.
FrameDiscipline == ~FpInHandler \/ LrIntact \subseteq {TRUE}

\* Why StackBalanced holds: while a handler is live its frame is all there is on
\* the stacks, and CONTROL still describes that frame (its stack always, its type
\* as long as handlers leave the FPU alone).
FrameInv ==
  FrameDiscipline =>
    IF handlers = <<>> THEN sp = [s \in Stacks |-> 0]
    ELSE /\ sp = [s \in Stacks |-> IF s = StackReg(frames[1].spsel)
                                   THEN FrameWords(frames[1].fpca) ELSE 0]
         /\ cpu.spsel = frames[1].spsel
         /\ ~FpInHandler => cpu.fpca = frames[1].fpca

\* A pending bit goes away only by running its handler, and only when that is
\* legal: nothing is masked, the interrupted context is not inside an IT block
\* (its ITSTATE is the one stacked), an external IRQ is enabled, and no
\* exception with a lower number that was dispatchable before is passed over.
DispatchStep ==
  \A e \in pending \ pending' :
    /\ handlers' # <<>> /\ handlers'[Len(handlers')] = e
    /\ ~cpu'.masked /\ ~frames'[Len(frames')].it
    /\ e > IRQ_OFFSET - 1 => (e - IRQ_OFFSET) \in enabled
    /\ \A f \in Dispatchable(pending) : e <= f
DispatchDiscipline == [][DispatchStep]_vars

\* The exception trailing_zeros would pick.
IsHead(e) == e \in Dispatchable(pending) /\ \A f \in Dispatchable(pending) : e <= f

\* With a check at every block, an exception that is first among the dispatchable
\* ones is not left waiting: again and again its handler runs, or it is disabled
\* or overtaken by a lower number.
HeadServed == \A e \in Pendable : []<>(~IsHead(e) \/ active_exception_number = e)
=============================================================================
