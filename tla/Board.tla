------------------------------- MODULE Board --------------------------------
(***************************************************************************)
(* Interrupt delivery and DMA together, under the driver the delays of     *)
(* dma.rs were made for: an ADC driver that keeps a conversion going by    *)
(* arming the next transfer inside the completion handler of the last one. *)
(*                                                                         *)
(* The block hook is one step of both components: Nvic dispatches first,   *)
(* then the poll completes transfers and pends their interrupts.  Thread   *)
(* code arms streams and enables their interrupts; a handler acknowledges  *)
(* its stream with its first block, may re-arm it with any later one, and  *)
(* returns within HandlerBlocks blocks.  The module extends Dma, whose     *)
(* actions it takes, and instantiates Nvic.                                *)
(***************************************************************************)
EXTENDS Dma, Sequences

CONSTANT HandlerBlocks   (* most blocks a handler runs                     *)

ASSUME BoardAssumption == HandlerBlocks \in Nat \ {0} /\ "read" \in Directions

VARIABLES
  pending, enabled, in_interrupt, active_exception_number,
  systick_period, since_systick, since_check, cpu, handlers, frames, sp, phase,
  blocks   \* blocks the live handler has executed

nvicVars == <<pending, enabled, in_interrupt, active_exception_number,
              systick_period, since_systick, since_check, cpu, handlers, frames,
              sp, phase>>
boardVars == <<nvicVars, vars, blocks>>

\* stream_irq for DMA2.
StreamIrq == [s \in 0..7 |-> IF s < 5 THEN 56 + s ELSE 63 + s]

N == INSTANCE Nvic WITH
       Irqs <- {StreamIrq[s] : s \in Streams}, InterruptPeriod <- 1,
       BlockSizes <- 1..MaxBlock, Reloads <- {}, AgeCap <- 1, MaxNesting <- 1,
       FpInHandler <- FALSE, LrIntact <- {TRUE}

Irq(s) == N!IRQ_OFFSET + StreamIrq[s]
Start == [en |-> TRUE, tcie |-> TRUE, dir |-> "read"]

BoardInit == N!Init /\ Init /\ blocks = 0

-----------------------------------------------------------------------------
\* The block hook: the dispatch, then the poll.
Hook ==
  /\ \E size \in 1..MaxBlock :
       /\ Block(size)
       /\ N!BlockHook(size, {Irq(s) : s \in irqs'})
  /\ blocks' = IF handlers' # handlers THEN 0 ELSE blocks

\* One block of thread code: enable a stream's interrupt, start a stream that is
\* idle, or anything else.
ThreadBlock ==
  /\ handlers = <<>>
  /\ \/ N!PlainBlock /\ UNCHANGED vars
     \/ \E s \in Streams :
          \/ N!EnableIrq(StreamIrq[s]) /\ UNCHANGED vars
          \/ /\ StreamIrq[s] \in enabled /\ age[s] = None /\ s \notin done
             /\ WriteCr(s, Start) /\ N!PlainBlock
  /\ UNCHANGED blocks

Live(s) == handlers # <<>> /\ handlers[Len(handlers)] = Irq(s)

\* One block of the completion handler.
HandlerBlock(s) ==
  /\ Live(s) /\ blocks < HandlerBlocks
  /\ N!PlainBlock
  /\ IF blocks = 0 THEN WriteIfcr(s)
     ELSE UNCHANGED vars \/ (age[s] = None /\ WriteCr(s, Start))
  /\ blocks' = blocks + 1

HandlerReturn(s) ==
  /\ Live(s) /\ blocks > 0
  /\ N!ExceptionReturn(TRUE)
  /\ blocks' = 0
  /\ UNCHANGED vars

Code == ThreadBlock \/ \E s \in Streams : HandlerBlock(s) \/ HandlerReturn(s)

BoardNext == Hook \/ Code

BoardSpec == BoardInit /\ [][BoardNext]_boardVars

\* Unicorn keeps entering blocks and executing them.
BoardFairSpec == BoardSpec /\ WF_boardVars(Hook) /\ WF_boardVars(Code)

-----------------------------------------------------------------------------
\* A completion is never lost between the poll that sets the flag and the driver:
\* until it is acknowledged its interrupt is pending, or its handler is live.
CompletionDelivered ==
  \A s \in Streams : s \in done => Irq(s) \in pending \/ Live(s)

\* Handlers that re-arm their own transfer do not starve thread code (the reason
\* for TRANSFER_COMPLETE_DELAY): thread blocks execute again and again.
ThreadRuns == []<>(handlers = <<>> /\ phase = "exec")

\* Nor do they starve each other: every completed transfer is acknowledged.
CompletionHandled == \A s \in Streams : s \in done ~> s \notin done

\* Under a driver that re-arms in its handler both thread code and every handler get
\* their turn (advance_to, run_pending_interrupts).
Responsive == ThreadRuns /\ CompletionHandled
=============================================================================
