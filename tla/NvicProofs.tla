----------------------------- MODULE NvicProofs -----------------------------
(***************************************************************************)
(* Proofs about Nvic for every set of IRQs, every interrupt period, every  *)
(* block size and SysTick reload.                                          *)
(***************************************************************************)
EXTENDS Nvic, SequenceTheorems, TLAPS

\* Type correctness needs to know that a return finds a frame to pop.
TypeInv == TypeOK /\ OneFramePerHandler

LEMMA InitTypeInv == Init => TypeInv
<1> SUFFICES ASSUME Init PROVE TypeInv
  OBVIOUS
<1>1. /\ pending \subseteq Pendable /\ enabled \subseteq Irqs
      /\ in_interrupt \in BOOLEAN
      /\ active_exception_number \in Exceptions \cup {0}
      /\ systick_period \in Reloads \cup {NoPeriod}
      /\ phase \in {"entry", "exec"}
  BY DEF Init
<1>2. since_systick \in 0..AgeCap /\ since_check \in 0..AgeCap
  BY NvicAssumption DEF Init
<1>3. cpu \in CpuState /\ sp \in [Stacks -> Int]
  BY DEF Init, CpuState
<1>4. handlers \in Seq(Exceptions) /\ frames \in Seq(Frame) /\ OneFramePerHandler
  BY DEF Init, OneFramePerHandler
<1>5. QED
  BY <1>1, <1>2, <1>3, <1>4 DEF TypeInv, TypeOK

\* What entering an exception does to the variables it touches.
LEMMA RunInterruptTypes ==
  ASSUME NEW e \in Exceptions, NEW c \in CpuState,
         NEW hs \in Seq(Exceptions), NEW fr \in Seq(Frame),
         NEW stack \in [Stacks -> Int], Len(fr) = Len(hs),
         RunInterrupt(e, c, hs, fr, stack)
  PROVE  /\ in_interrupt' \in BOOLEAN
         /\ active_exception_number' \in Exceptions \cup {0}
         /\ cpu' \in CpuState
         /\ handlers' \in Seq(Exceptions)
         /\ frames' \in Seq(Frame)
         /\ sp' \in [Stacks -> Int]
         /\ OneFramePerHandler'
<1> USE DEF RunInterrupt, ExceptionNumber
<1>1. [it |-> c.it, spsel |-> c.spsel, fpca |-> c.fpca] \in Frame
  BY DEF CpuState, Frame
<1>2. frames' \in Seq(Frame) /\ Len(frames') = Len(fr) + 1
  BY <1>1
<1>3. handlers' \in Seq(Exceptions) /\ Len(handlers') = Len(hs) + 1
  OBVIOUS
<1>4. sp' \in [Stacks -> Int]
  BY DEF FrameWords, CpuState, Stacks, StackReg
<1>5. cpu' \in CpuState
  BY DEF CpuState
<1>6. QED
  BY <1>2, <1>3, <1>4, <1>5 DEF OneFramePerHandler

\* The same for run_pending_interrupts, whether or not it dispatches.
LEMMA RunPendingTypes ==
  ASSUME TypeInv,
         NEW busy \in BOOLEAN, NEW active \in Exceptions \cup {0}, NEW c \in CpuState,
         NEW hs \in Seq(Exceptions), NEW fr \in Seq(Frame),
         NEW stack \in [Stacks -> Int], Len(fr) = Len(hs),
         NEW age \in 0..AgeCap, NEW raised \in SUBSET Pendable,
         RunPending(busy, active, c, hs, fr, stack, age, raised)
  PROVE  /\ pending' \subseteq Pendable
         /\ since_systick' \in 0..AgeCap
         /\ in_interrupt' \in BOOLEAN
         /\ active_exception_number' \in Exceptions \cup {0}
         /\ cpu' \in CpuState
         /\ handlers' \in Seq(Exceptions)
         /\ frames' \in Seq(Frame)
         /\ sp' \in [Stacks -> Int]
         /\ OneFramePerHandler'
<1> DEFINE pd == pending \cup (IF SysTickDue(age) THEN {SYSTICK} ELSE {})
           ready == IF Deferred(busy, c) THEN {} ELSE Dispatchable(pd)
<1>1. pd \subseteq Pendable
  BY DEF TypeInv, TypeOK, Pendable
<1>2. ready \subseteq pd
  BY DEF Dispatchable
<1>3. since_systick' \in 0..AgeCap
  BY NvicAssumption DEF RunPending
<1>4. CASE ready = {}
  BY <1>1, <1>3, <1>4 DEF RunPending, OneFramePerHandler
<1>5. ASSUME NEW e \in ready,
             pending' = (pd \ {e}) \cup raised,
             RunInterrupt(e, c, hs, fr, stack)
      PROVE  /\ pending' \subseteq Pendable
             /\ in_interrupt' \in BOOLEAN
             /\ active_exception_number' \in Exceptions \cup {0}
             /\ cpu' \in CpuState
             /\ handlers' \in Seq(Exceptions)
             /\ frames' \in Seq(Frame)
             /\ sp' \in [Stacks -> Int]
             /\ OneFramePerHandler'
  <2>1. e \in Exceptions
    BY <1>1, <1>2 DEF Exceptions
  <2>2. pending' \subseteq Pendable
    BY <1>1, <1>5
  <2> HIDE DEF pd, ready
  <2>3. QED
    BY <1>5, <2>1, <2>2, RunInterruptTypes
<1>6. QED
  BY <1>3, <1>4, <1>5 DEF RunPending

LEMMA SaturatedType ==
  ASSUME NEW n \in Nat
  PROVE  Saturated(n) \in 0..AgeCap
BY NvicAssumption DEF Saturated

\* What the exception return hands to run_pending_interrupts.
LEMMA ReturnTypes ==
  ASSUME TypeInv, handlers # <<>>, NEW lr_intact \in BOOLEAN
  PROVE  /\ Len(frames) \in 1..Len(frames)
         /\ ReturnContext(lr_intact) \in CpuState
         /\ SubSeq(handlers, 1, Len(frames) - 1) \in Seq(Exceptions)
         /\ SubSeq(frames, 1, Len(frames) - 1) \in Seq(Frame)
         /\ Len(SubSeq(handlers, 1, Len(frames) - 1)) = Len(frames) - 1
         /\ Len(SubSeq(frames, 1, Len(frames) - 1)) = Len(frames) - 1
<1>1. Len(frames) = Len(handlers) /\ Len(frames) \in Nat \ {0}
  BY DEF TypeInv, TypeOK, OneFramePerHandler
<1>2. frames[Len(frames)] \in Frame
  BY <1>1 DEF TypeInv, TypeOK
<1>3. ReturnContext(lr_intact) \in CpuState
  BY <1>2 DEF ReturnContext, TypeInv, TypeOK, CpuState, Frame
<1>4. /\ SubSeq(handlers, 1, Len(frames) - 1) \in Seq(Exceptions)
      /\ Len(SubSeq(handlers, 1, Len(frames) - 1)) = Len(frames) - 1
  BY <1>1, SubSeqProperties DEF TypeInv, TypeOK
<1>5. /\ SubSeq(frames, 1, Len(frames) - 1) \in Seq(Frame)
      /\ Len(SubSeq(frames, 1, Len(frames) - 1)) = Len(frames) - 1
  BY <1>1, SubSeqProperties DEF TypeInv, TypeOK
<1>6. QED
  BY <1>1, <1>3, <1>4, <1>5

LEMMA NextTypeInv == TypeInv /\ [Next]_vars => TypeInv'
<1> SUFFICES ASSUME TypeInv, [Next]_vars PROVE TypeInv'
  OBVIOUS
<1> USE DEF TypeInv
<1>1. ASSUME NEW size \in BlockSizes, NEW raised \in RaisedByPoll, BlockHook(size, raised)
      PROVE  TypeInv'
  <2> DEFINE age == Saturated(since_systick + size)
  <2>1. age \in 0..AgeCap /\ Saturated(size) \in 0..AgeCap
        /\ Saturated(since_check + size) \in 0..AgeCap
    <3>1. size \in Nat /\ since_systick + size \in Nat /\ since_check + size \in Nat
      BY NvicAssumption DEF TypeOK
    <3>2. QED
      BY <3>1, SaturatedType
  <2>2. raised \in SUBSET Pendable
    BY DEF RaisedByPoll, Pendable
  <2>3. phase' \in {"entry", "exec"} /\ enabled' \subseteq Irqs
        /\ systick_period' \in Reloads \cup {NoPeriod} /\ since_check' \in 0..AgeCap
    BY <1>1, <2>1 DEF BlockHook, TypeOK
  <2> HIDE DEF age
  <2>4. CASE since_check >= InterruptPeriod
    <3>1. RunPending(in_interrupt, active_exception_number, cpu, handlers, frames, sp, age, raised)
      BY <1>1, <2>4 DEF BlockHook, age
    <3>2. QED
      BY <2>1, <2>2, <2>3, <3>1, RunPendingTypes DEF TypeOK, OneFramePerHandler
  <2>5. CASE ~(since_check >= InterruptPeriod)
    BY <1>1, <2>1, <2>2, <2>3, <2>5 DEF BlockHook, TypeOK, OneFramePerHandler, cpuVars, age
  <2>6. QED
    BY <2>4, <2>5
<1>2. ASSUME NEW lr_intact \in LrIntact, ExceptionReturn(lr_intact)
      PROVE  TypeInv'
  <2>1. lr_intact \in BOOLEAN
    BY NvicAssumption
  <2> DEFINE n == Len(frames)
             c == ReturnContext(lr_intact)
             stack == [sp EXCEPT ![StackReg(c.spsel)] = @ - FrameWords(c.fpca)]
  <2>2. RunPending(BusyAfterReturn, ActiveAfterReturn, c, SubSeq(handlers, 1, n - 1),
                   SubSeq(frames, 1, n - 1), stack, since_systick, {})
    BY <1>2 DEF ExceptionReturn
  <2>3. stack \in [Stacks -> Int]
    <3> HIDE DEF c
    <3> DEFINE w == FrameWords(c.fpca)
               k == StackReg(c.spsel)
    <3>1. w \in Int /\ k \in Stacks
      BY DEF FrameWords, StackReg, Stacks
    <3>2. sp \in [Stacks -> Int]
      BY DEF TypeOK
    <3> HIDE DEF w, k
    <3>3. [sp EXCEPT ![k] = @ - w] \in [Stacks -> Int]
      BY <3>1, <3>2
    <3>4. QED
      BY <3>3 DEF w, k
  <2>4. ActiveAfterReturn \in Exceptions \cup {0}
    BY DEF ActiveAfterReturn
  <2>5. phase' \in {"entry", "exec"} /\ enabled' \subseteq Irqs
        /\ systick_period' \in Reloads \cup {NoPeriod} /\ since_check' \in 0..AgeCap
        /\ handlers # <<>>
    BY <1>2 DEF ExceptionReturn, Executes, TypeOK
  <2> HIDE DEF n, c, stack
  <2>6. /\ c \in CpuState
        /\ SubSeq(handlers, 1, n - 1) \in Seq(Exceptions)
        /\ SubSeq(frames, 1, n - 1) \in Seq(Frame)
        /\ Len(SubSeq(frames, 1, n - 1)) = Len(SubSeq(handlers, 1, n - 1))
    BY <2>1, <2>5, ReturnTypes DEF n, c
  <2>7. since_systick \in 0..AgeCap /\ BusyAfterReturn \in BOOLEAN /\ {} \in SUBSET Pendable
    BY DEF TypeOK, BusyAfterReturn
  <2>8. /\ pending' \subseteq Pendable
        /\ since_systick' \in 0..AgeCap
        /\ in_interrupt' \in BOOLEAN
        /\ active_exception_number' \in Exceptions \cup {0}
        /\ cpu' \in CpuState
        /\ handlers' \in Seq(Exceptions)
        /\ frames' \in Seq(Frame)
        /\ sp' \in [Stacks -> Int]
        /\ OneFramePerHandler'
    BY <2>2, <2>3, <2>4, <2>6, <2>7, RunPendingTypes
  <2>9. QED
    BY <2>5, <2>8 DEF TypeOK
<1>3. CASE Svc
  <2>1. SVCALL \in Exceptions
    BY DEF Exceptions
  <2>2. RunInterrupt(SVCALL, cpu, handlers, frames, sp)
    BY <1>3 DEF Svc
  <2>3. QED
    BY <1>3, <2>1, <2>2, RunInterruptTypes
       DEF Svc, Executes, TypeOK, OneFramePerHandler, clockVars
<1>4. ASSUME NEW i \in Irqs, EnableIrq(i) \/ DisableIrq(i) \/ WriteStir(i)
      PROVE  TypeInv'
  BY <1>4 DEF EnableIrq, DisableIrq, WriteStir, Pendable, Executes, TypeOK,
              OneFramePerHandler, clockVars, cpuVars
<1>5. ASSUME NEW es \in SUBSET Pendable, WriteIcsr(es)
      PROVE  TypeInv'
  BY <1>5 DEF WriteIcsr, Executes, TypeOK, OneFramePerHandler, clockVars, cpuVars
<1>6. ASSUME NEW p \in Reloads \cup {NoPeriod}, WriteSysTick(p)
      PROVE  TypeInv'
  BY <1>6 DEF WriteSysTick, Executes, TypeOK, OneFramePerHandler, nvicVars, cpuVars
<1>7. ASSUME NEW b \in BOOLEAN, SetMask(b) \/ SetItState(b) \/ WriteControl(b)
      PROVE  TypeInv'
  <2>1. cpu' \in CpuState
    BY <1>7 DEF SetMask, SetItState, WriteControl, TypeOK, CpuState
  <2>2. QED
    BY <1>7, <2>1 DEF SetMask, SetItState, WriteControl, Executes, TypeOK,
                      OneFramePerHandler, nvicVars, clockVars
<1>8. CASE UseFloatingPoint
  <2>1. cpu' \in CpuState
    BY <1>8 DEF UseFloatingPoint, TypeOK, CpuState
  <2>2. QED
    BY <1>8, <2>1 DEF UseFloatingPoint, Executes, TypeOK, OneFramePerHandler, nvicVars, clockVars
<1>9. CASE PlainBlock
  BY <1>9 DEF PlainBlock, Executes, TypeOK, OneFramePerHandler, nvicVars, clockVars, cpuVars
<1>10. CASE UNCHANGED vars
  BY <1>10 DEF vars, TypeOK, OneFramePerHandler, nvicVars, clockVars, cpuVars
<1>11. \A es \in {{PENDSV}, {SYSTICK}, {PENDSV, SYSTICK}} :
          es \in SUBSET Pendable
  BY DEF Pendable
<1>12. QED
  BY <1>1, <1>2, <1>3, <1>4, <1>5, <1>6, <1>7, <1>8, <1>9, <1>10, <1>11
     DEF Next, Hook, Firmware

\* Every state of the emulator's interrupt machinery is well-typed: register
\* sets hold only exceptions of the board, ages stay within their saturation
\* bound, and a handler's return always finds the frame run_interrupt stacked.
THEOREM TypeCorrect == Spec => [](TypeOK /\ OneFramePerHandler)
<1>1. Init => TypeInv
  BY InitTypeInv
<1>2. TypeInv /\ [Next]_vars => TypeInv'
  BY NextTypeInv
<1>3. QED
  BY <1>1, <1>2, PTL DEF Spec, TypeInv

-----------------------------------------------------------------------------
(* Dispatch discipline.                                                     *)

\* The dispatch rule for one call of run_pending_interrupts.
LEMMA RunPendingDispatch ==
  ASSUME NEW busy, NEW active, NEW c \in CpuState,
         NEW hs \in Seq(Exceptions), NEW fr \in Seq(Frame), NEW stack,
         NEW age, NEW raised, pending \subseteq Pendable,
         RunPending(busy, active, c, hs, fr, stack, age, raised)
  PROVE  DispatchStep
<1> DEFINE pd == pending \cup (IF SysTickDue(age) THEN {SYSTICK} ELSE {})
<1>1. CASE pending \subseteq pending'
  BY <1>1 DEF DispatchStep
<1>2. ASSUME NEW e \in Dispatchable(pd),
             ~Deferred(busy, c),
             \A f \in Dispatchable(pd) : e <= f,
             pending' = (pd \ {e}) \cup raised,
             RunInterrupt(e, c, hs, fr, stack)
      PROVE  DispatchStep
  <2>1. SUFFICES ASSUME e \in pending, e \notin pending'
                 PROVE  /\ handlers' # <<>> /\ handlers'[Len(handlers')] = e
                        /\ ~cpu'.masked /\ ~frames'[Len(frames')].it
                        /\ e > IRQ_OFFSET - 1 => (e - IRQ_OFFSET) \in enabled
                        /\ \A f \in Dispatchable(pending) : e <= f
    BY <1>2 DEF DispatchStep
  <2>2. e \in Exceptions
    BY <2>1 DEF Exceptions
  <2>3. handlers' # <<>> /\ handlers'[Len(handlers')] = e
    <3>1. handlers' = Append(hs, e)
      BY <1>2 DEF RunInterrupt
    <3>2. QED
      BY <2>2, <3>1
  <2>4. ~c.masked /\ ~c.it
    BY <1>2 DEF Deferred
  <2>5. cpu'.masked = c.masked
    BY <1>2 DEF RunInterrupt, CpuState
  <2>6. [it |-> c.it, spsel |-> c.spsel, fpca |-> c.fpca] \in Frame
    BY DEF CpuState, Frame
  <2>7. frames'[Len(frames')].it = c.it
    BY <1>2, <2>6 DEF RunInterrupt
  <2>8. e > IRQ_OFFSET - 1 => (e - IRQ_OFFSET) \in enabled
    <3>1. e \in Int
      BY <2>1, NvicAssumption DEF Pendable, IRQ_OFFSET, PENDSV, SYSTICK
    <3>2. QED
      BY <3>1 DEF Dispatchable, IRQ_OFFSET
  <2>9. \A f \in Dispatchable(pending) : e <= f
    BY <1>2 DEF Dispatchable
  <2>10. QED
    BY <2>3, <2>4, <2>5, <2>7, <2>8, <2>9
<1>3. \/ pending \subseteq pending'
      \/ \E e \in Dispatchable(pd) :
           /\ ~Deferred(busy, c)
           /\ \A f \in Dispatchable(pd) : e <= f
           /\ pending' = (pd \ {e}) \cup raised
           /\ RunInterrupt(e, c, hs, fr, stack)
  BY DEF RunPending
<1>4. QED
  BY <1>1, <1>2, <1>3

LEMMA NextDispatch == TypeInv /\ [Next]_vars => [DispatchStep]_vars
<1> SUFFICES ASSUME TypeInv, Next PROVE DispatchStep
  OBVIOUS
<1> USE DEF TypeInv
<1>1. ASSUME NEW size \in BlockSizes, NEW raised \in RaisedByPoll, BlockHook(size, raised)
      PROVE  DispatchStep
  <2>1. CASE since_check >= InterruptPeriod
    BY <1>1, <2>1, RunPendingDispatch DEF BlockHook, TypeOK
  <2>2. CASE ~(since_check >= InterruptPeriod)
    BY <1>1, <2>2 DEF BlockHook, DispatchStep
  <2>3. QED
    BY <2>1, <2>2
<1>2. ASSUME NEW lr_intact \in LrIntact, ExceptionReturn(lr_intact)
      PROVE  DispatchStep
  <2>1. lr_intact \in BOOLEAN /\ handlers # <<>>
    BY <1>2, NvicAssumption DEF ExceptionReturn
  <2> DEFINE n == Len(frames)
             c == ReturnContext(lr_intact)
             stack == [sp EXCEPT ![StackReg(c.spsel)] = @ - FrameWords(c.fpca)]
  <2>2. RunPending(BusyAfterReturn, ActiveAfterReturn, c, SubSeq(handlers, 1, n - 1),
                   SubSeq(frames, 1, n - 1), stack, since_systick, {})
    BY <1>2 DEF ExceptionReturn
  <2>3. /\ c \in CpuState
        /\ SubSeq(handlers, 1, n - 1) \in Seq(Exceptions)
        /\ SubSeq(frames, 1, n - 1) \in Seq(Frame)
    BY <2>1, ReturnTypes
  <2> HIDE DEF n, c, stack
  <2>4. QED
    BY <2>2, <2>3, RunPendingDispatch DEF TypeOK
<1>3. pending \subseteq pending' => DispatchStep
  BY DEF DispatchStep
<1>4. ASSUME NEW x, WriteIcsr(x) \/ WriteStir(x)
      PROVE  pending \subseteq pending'
  BY <1>4 DEF WriteIcsr, WriteStir
<1>5. CASE Svc
  BY <1>5, <1>3 DEF Svc
<1>6. ASSUME NEW i, EnableIrq(i) \/ DisableIrq(i)
      PROVE  pending' = pending
  BY <1>6 DEF EnableIrq, DisableIrq
<1>7. ASSUME NEW b, SetMask(b) \/ SetItState(b) \/ WriteControl(b) \/ WriteSysTick(b)
      PROVE  pending' = pending
  BY <1>7 DEF SetMask, SetItState, WriteControl, WriteSysTick, nvicVars
<1>8. UseFloatingPoint \/ PlainBlock => pending' = pending
  BY DEF UseFloatingPoint, PlainBlock, nvicVars
<1>9. QED
  BY <1>1, <1>2, <1>3, <1>4, <1>5, <1>6, <1>7, <1>8 DEF Next, Hook, Firmware

\* An interrupt that was pended is never dropped, never taken in a masked, IT-block
\* or disabled context, and never overtakes a lower-numbered one, for any firmware,
\* nested svc included.
THEOREM DispatchCorrect == Spec => DispatchDiscipline
<1>1. TypeInv /\ [Next]_vars => [DispatchStep]_vars
  BY NextDispatch
<1>2. QED
  BY <1>1, InitTypeInv, NextTypeInv, PTL DEF Spec, DispatchDiscipline

-----------------------------------------------------------------------------
(* No nesting and balanced stacks, when svc is executed in thread mode only. *)

NestInv == TypeInv /\ RetToBaseTruthful /\ VectActiveTruthful

\* Entering an exception from thread mode.
LEMMA EnterFromThread ==
  ASSUME NEW e \in Exceptions, NEW c \in CpuState,
         NEW stack \in [Stacks -> Int], FrameDiscipline => stack = [s \in Stacks |-> 0],
         RunInterrupt(e, c, <<>>, <<>>, stack)
  PROVE  RetToBaseTruthful' /\ VectActiveTruthful' /\ FrameInv'
<1> DEFINE f == [it |-> c.it, spsel |-> c.spsel, fpca |-> c.fpca]
<1>1. handlers' = <<e>> /\ frames' = <<f>>
  BY DEF RunInterrupt
<1>2. RetToBaseTruthful' /\ VectActiveTruthful'
  BY <1>1 DEF Icsr, RetToBaseTruthful, VectActiveTruthful, RunInterrupt, ExceptionNumber
<1>3. frames'[1] = f /\ handlers' # <<>>
  BY <1>1
<1>4. cpu'.spsel = c.spsel /\ cpu'.fpca = c.fpca
  BY DEF RunInterrupt, CpuState
<1>5. FrameDiscipline =>
        sp' = [s \in Stacks |-> IF s = StackReg(c.spsel) THEN FrameWords(c.fpca) ELSE 0]
  <2> DEFINE w == FrameWords(c.fpca)
             k == StackReg(c.spsel)
  <2>1. w \in Int /\ k \in Stacks
    BY DEF FrameWords, StackReg, Stacks
  <2>2. sp' = [stack EXCEPT ![k] = @ + w]
    BY DEF RunInterrupt
  <2> HIDE DEF w, k
  <2>3. ASSUME FrameDiscipline
        PROVE  sp' = [s \in Stacks |-> IF s = k THEN w ELSE 0]
    <3>1. stack = [s \in Stacks |-> 0]
      BY <2>3
    <3>2. QED
      BY <2>1, <2>2, <3>1
  <2>4. QED
    BY <2>3 DEF w, k
<1>6. QED
  BY <1>2, <1>3, <1>4, <1>5 DEF FrameInv

\* run_pending_interrupts called with no handler live and empty stacks.
LEMMA RunPendingFromThread ==
  ASSUME NEW c \in CpuState, NEW age, NEW raised, pending \subseteq Pendable,
         NEW stack \in [Stacks -> Int], FrameDiscipline => stack = [s \in Stacks |-> 0],
         RunPending(FALSE, 0, c, <<>>, <<>>, stack, age, raised)
  PROVE  RetToBaseTruthful' /\ VectActiveTruthful' /\ FrameInv'
<1> DEFINE pd == pending \cup (IF SysTickDue(age) THEN {SYSTICK} ELSE {})
<1>1. \/ /\ ~in_interrupt' /\ active_exception_number' = 0
         /\ handlers' = <<>> /\ sp' = stack
      \/ \E e \in Dispatchable(pd) : RunInterrupt(e, c, <<>>, <<>>, stack)
  BY DEF RunPending
<1>2. Dispatchable(pd) \subseteq Exceptions
  BY DEF Dispatchable, Exceptions, Pendable
<1>3. CASE /\ ~in_interrupt' /\ active_exception_number' = 0
           /\ handlers' = <<>> /\ sp' = stack
  BY <1>3 DEF Icsr, RetToBaseTruthful, VectActiveTruthful, FrameInv
<1>4. CASE \E e \in Dispatchable(pd) : RunInterrupt(e, c, <<>>, <<>>, stack)
  BY <1>2, <1>4, EnterFromThread
<1>5. QED
  BY <1>1, <1>3, <1>4

\* With svc confined to thread mode one step keeps the whole invariant, as far as
\* the discipline on floating point and LR that the frame part needs is kept.
LEMMA NextNest ==
  ASSUME MaxNesting = 1, NestInv, FrameInv, Next
  PROVE  RetToBaseTruthful' /\ VectActiveTruthful' /\ FrameInv'
<1> USE DEF NestInv, TypeInv
<1> DEFINE Goal == RetToBaseTruthful' /\ VectActiveTruthful' /\ FrameInv'
<1>1. /\ handlers \in Seq(Exceptions) /\ frames \in Seq(Frame)
      /\ Len(frames) = Len(handlers) /\ Len(handlers) \in {0, 1}
      /\ cpu \in CpuState /\ sp \in [Stacks -> Int] /\ pending \subseteq Pendable
  BY DEF TypeOK, OneFramePerHandler, Icsr, RetToBaseTruthful
<1>2. handlers = <<>> =>
        /\ frames = <<>> /\ (FrameDiscipline => sp = [s \in Stacks |-> 0])
        /\ in_interrupt = FALSE /\ active_exception_number = 0
  BY <1>1 DEF Icsr, VectActiveTruthful, FrameInv, TypeOK
<1>3. handlers # <<>> => Len(frames) = 1 /\ Len(handlers) = 1 /\ in_interrupt
  BY <1>1 DEF Icsr, VectActiveTruthful
<1>4. CASE UNCHANGED <<in_interrupt, active_exception_number, cpuVars>>
  BY <1>4 DEF Icsr, RetToBaseTruthful, VectActiveTruthful, FrameInv, cpuVars
<1>5. ASSUME NEW size \in BlockSizes, NEW raised \in RaisedByPoll, BlockHook(size, raised)
      PROVE  Goal
  <2> DEFINE age == Saturated(since_systick + size)
  <2>1. CASE since_check >= InterruptPeriod /\ handlers = <<>>
    <3>1. RunPending(FALSE, 0, cpu, <<>>, <<>>, sp, age, raised)
      BY <1>2, <1>5, <2>1 DEF BlockHook
    <3> HIDE DEF age
    <3>2. QED
      BY <1>1, <1>2, <2>1, <3>1, RunPendingFromThread
  <2>2. CASE since_check >= InterruptPeriod /\ handlers # <<>>
    <3>1. Deferred(in_interrupt, cpu)
      BY <1>3, <2>2 DEF Deferred
    <3>2. UNCHANGED <<in_interrupt, active_exception_number, cpuVars>>
      BY <1>5, <2>2, <3>1 DEF BlockHook, RunPending, cpuVars
    <3>3. QED
      BY <1>4, <3>2
  <2>3. CASE ~(since_check >= InterruptPeriod)
    BY <1>4, <1>5, <2>3 DEF BlockHook
  <2>4. QED
    BY <2>1, <2>2, <2>3
<1>6. ASSUME NEW lr_intact \in LrIntact, ExceptionReturn(lr_intact)
      PROVE  Goal
  <2>1. lr_intact \in BOOLEAN /\ handlers # <<>>
    BY <1>6, NvicAssumption DEF ExceptionReturn
  <2> DEFINE c == ReturnContext(lr_intact)
             stack == [sp EXCEPT ![StackReg(c.spsel)] = @ - FrameWords(c.fpca)]
  <2>2. c \in CpuState /\ frames[1] \in Frame
    BY <1>1, <1>3, <2>1, ReturnTypes
  <2>3. FrameDiscipline => c.spsel = frames[1].spsel /\ c.fpca = frames[1].fpca
    BY <1>3, <2>1 DEF ReturnContext, FrameInv, FrameDiscipline
  <2>4. ASSUME FrameDiscipline PROVE stack = [s \in Stacks |-> 0]
    <3> DEFINE w == FrameWords(c.fpca)
               k == StackReg(c.spsel)
    <3>1. w \in Int /\ k \in Stacks
      BY DEF FrameWords, StackReg, Stacks
    <3>2. sp = [s \in Stacks |-> IF s = k THEN w ELSE 0]
      BY <2>1, <2>3, <2>4 DEF FrameInv
    <3> HIDE DEF w, k
    <3>3. [sp EXCEPT ![k] = @ - w] = [s \in Stacks |-> 0]
      BY <3>1, <3>2
    <3>4. QED
      BY <3>3 DEF w, k
  <2>5. SubSeq(handlers, 1, 0) = <<>> /\ SubSeq(frames, 1, 0) = <<>>
    OBVIOUS
  <2>6. RunPending(FALSE, 0, c, <<>>, <<>>, stack, since_systick, {})
    <3>1. RunPending(BusyAfterReturn, ActiveAfterReturn, c, SubSeq(handlers, 1, Len(frames) - 1),
                     SubSeq(frames, 1, Len(frames) - 1), stack, since_systick, {})
      BY <1>6 DEF ExceptionReturn
    <3>2. Len(frames) - 1 = 0
      BY <1>3, <2>1
    <3>3. /\ SubSeq(handlers, 1, Len(frames) - 1) = <<>>
          /\ SubSeq(frames, 1, Len(frames) - 1) = <<>>
      BY <2>5, <3>2
    <3>4. ActiveAfterReturn = 0 /\ BusyAfterReturn = FALSE
      BY DEF ActiveAfterReturn, BusyAfterReturn
    <3> HIDE DEF c, stack
    <3>5. QED
      BY <3>1, <3>3, <3>4, Zenon
  <2>7. stack \in [Stacks -> Int]
    <3> DEFINE w == FrameWords(c.fpca)
               k == StackReg(c.spsel)
    <3>1. w \in Int /\ k \in Stacks
      BY DEF FrameWords, StackReg, Stacks
    <3> HIDE DEF w, k
    <3>2. [sp EXCEPT ![k] = @ - w] \in [Stacks -> Int]
      BY <1>1, <3>1
    <3>3. QED
      BY <3>2 DEF w, k
  <2> HIDE DEF c, stack
  <2>8. QED
    BY <1>1, <2>2, <2>4, <2>6, <2>7, RunPendingFromThread
<1>7. CASE Svc
  <2>1. handlers = <<>>
    BY <1>1, <1>7 DEF Svc
  <2>2. RunInterrupt(SVCALL, cpu, <<>>, <<>>, sp) /\ SVCALL \in Exceptions
    BY <1>2, <1>7, <2>1 DEF Svc, Exceptions
  <2>3. QED
    BY <1>1, <1>2, <2>1, <2>2, EnterFromThread
<1>8. ASSUME NEW b, WriteControl(b)
      PROVE  Goal
  BY <1>8 DEF Icsr, WriteControl, RetToBaseTruthful, VectActiveTruthful, FrameInv, nvicVars
<1>9. CASE UseFloatingPoint
  <2>1. cpu'.spsel = cpu.spsel /\ (handlers # <<>> => FpInHandler)
    BY <1>1, <1>9 DEF UseFloatingPoint, CpuState
  <2>2. QED
    BY <1>9, <2>1 DEF Icsr, UseFloatingPoint, RetToBaseTruthful, VectActiveTruthful, FrameInv, nvicVars
<1>10. ASSUME NEW b, SetMask(b) \/ SetItState(b)
       PROVE  Goal
  <2>1. cpu'.spsel = cpu.spsel /\ cpu'.fpca = cpu.fpca
    BY <1>1, <1>10 DEF SetMask, SetItState, CpuState
  <2>2. QED
    BY <1>10, <2>1 DEF Icsr, SetMask, SetItState, RetToBaseTruthful, VectActiveTruthful, FrameInv, nvicVars
<1>11. ASSUME NEW x, EnableIrq(x) \/ DisableIrq(x) \/ WriteStir(x) \/ WriteIcsr(x) \/ WriteSysTick(x) \/ PlainBlock
       PROVE  Goal
  BY <1>4, <1>11 DEF EnableIrq, DisableIrq, WriteStir, WriteIcsr, WriteSysTick, PlainBlock, nvicVars
<1>12. QED
  BY <1>5, <1>6, <1>7, <1>8, <1>9, <1>10, <1>11 DEF Next, Hook, Firmware

\* The inductive invariant: the frame part tells what a return finds on the stacks.
LEMMA NestInvariant ==
  ASSUME MaxNesting = 1
  PROVE  Spec => [](NestInv /\ FrameInv)
<1>1. Init => NestInv /\ FrameInv
  <2>1. Init => TypeInv
    BY InitTypeInv
  <2>2. Init => RetToBaseTruthful /\ VectActiveTruthful /\ FrameInv
    BY DEF Init, Icsr, RetToBaseTruthful, VectActiveTruthful, FrameInv
  <2>3. QED
    BY <2>1, <2>2 DEF NestInv
<1>2. (NestInv /\ FrameInv) /\ [Next]_vars => (NestInv /\ FrameInv)'
  <2> SUFFICES ASSUME NestInv, FrameInv, [Next]_vars PROVE (NestInv /\ FrameInv)'
    OBVIOUS
  <2>1. TypeInv'
    BY NextTypeInv DEF NestInv
  <2>2. CASE Next
    BY <2>1, <2>2, NextNest DEF NestInv
  <2>3. CASE UNCHANGED vars
    BY <2>1, <2>3 DEF NestInv, Icsr, RetToBaseTruthful, VectActiveTruthful, FrameInv,
                      vars, nvicVars, cpuVars
  <2>4. QED
    BY <2>2, <2>3
<1>3. QED
  BY <1>1, <1>2, PTL DEF Spec

\* Without svc inside handlers the NVIC never nests: ICSR's hard-wired RETTOBASE
\* is right and VECTACTIVE names the handler that is live, in every reachable
\* state, for every board, interrupt period and firmware.
THEOREM NeverNests ==
  ASSUME MaxNesting = 1
  PROVE  Spec => []ModeTruthful
<1>1. NestInv /\ FrameInv => ModeTruthful
  BY DEF NestInv, ModeTruthful
<1>2. QED
  BY <1>1, NestInvariant, PTL

\* Firmware whose handlers either leave the FPU alone or return with LR intact finds
\* both stacks where it left them whenever it is back in thread mode: push_regs and
\* pop_regs agree on stack and frame size across every entry, return and tail chain.
THEOREM StacksBalanced ==
  ASSUME MaxNesting = 1, FrameDiscipline
  PROVE  Spec => []StackBalanced
<1>1. NestInv /\ FrameInv => StackBalanced
  BY DEF FrameInv, StackBalanced
<1>2. QED
  BY <1>1, NestInvariant, PTL
=============================================================================
