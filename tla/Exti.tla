-------------------------------- MODULE Exti --------------------------------
(***************************************************************************)
(* External interrupt lines and their routing                              *)
(* (src/src/peripherals/exti.rs).  The registers of EXTI and SYSCFG are    *)
(* one record, a register is the set of its lines, EXTICR maps a line to   *)
(* the port it listens to.  EMR and SWIER are only stored by the code.     *)
(***************************************************************************)
EXTENDS Integers

NoIrq == -1

ExtiInit(lines) == [imr |-> {}, rtsr |-> {}, ftsr |-> {}, pr |-> {},
                    exticr |-> [l \in lines |-> 0]]

\* write_exti and write_syscfg.
WriteImr(x, lines) == [x EXCEPT !.imr = lines]
WriteRtsr(x, lines) == [x EXCEPT !.rtsr = lines]
WriteFtsr(x, lines) == [x EXCEPT !.ftsr = lines]
WritePr(x, lines) == [x EXCEPT !.pr = @ \ lines]
WriteExticr(x, port) == [x EXCEPT !.exticr = port]

\* irq_for_line
IrqForLine(line) ==
  CASE line \in 0..4 -> 6 + line [] line \in 5..9 -> 23 [] OTHER -> 40

\* An edge test that leaves FTSR out.
EdgeMatchesRising(x, line, rising) == rising /\ line \in x.rtsr

\* edge_matches
EdgeMatches(x, line, rising) == line \in (IF rising THEN x.rtsr ELSE x.ftsr)

\* The conditions of raise_line_if_configured.
Configured(x, port, line, rising) ==
  line \in 0..15 /\ x.exticr[line] = port /\ line \in x.imr /\ EdgeMatches(x, line, rising)

\* raise_line_if_configured: the registers after it, and the interrupt to pend.
RaiseLine(x, port, line, rising) ==
  IF Configured(x, port, line, rising)
  THEN [x |-> [x EXCEPT !.pr = @ \cup {line}], irq |-> IrqForLine(line)]
  ELSE [x |-> x, irq |-> NoIrq]
=============================================================================
