------------------------------- MODULE EcuIo --------------------------------
(***************************************************************************)
(* Signals between the firmware's pins and the outside                     *)
(* (src/src/ext_devices/ecu_io.rs, embedded_ecu_io.rs): a feeder sends     *)
(* `name=value' lines over TCP, or a host application shares a link with   *)
(* the emulator; inputs become pin levels and, through EXTI, interrupts;   *)
(* a trigger wheel drives one of them; outputs are reported as they change. *)
(*                                                                         *)
(* A line is two parts, the second with its newline, so that a line may be *)
(* split between reads, cut by a close or by a full buffer.  The wheel's   *)
(* position counts units, Half of them to half a slot; `delta' is the time *)
(* between two polls in units of one revolution per minute.                *)
(***************************************************************************)
EXTENDS Exti, Sequences, FiniteSets, SequencesExt

CONSTANTS
  Line,         (* EXTI line of each input pin: din, and wheel, which the  *)
                (* trigger wheel drives                                    *)
  Port,         (* their port                                              *)
  Outputs,      (* names of output pins                                    *)
  Teeth, Missing, Half,
  MaxRpm,       (* the clamp of the wheel's speed              (30000)     *)
  Rpms,         (* speeds the feeder asks for                              *)
  MaxDelta,     (* longest time between polls                              *)
  Capacity,     (* MAX_BUFFERED_BYTES, in parts                            *)
  MaxEvents,    (* MAX_PENDING_OUTPUT_EVENTS                               *)
  MaxInputs,    (* MAX_PENDING_INPUTS                                      *)
  MaxLines,     (* bound: lines and inputs that are fed                    *)
  MaxReports,   (* bound: writes of output pins                            *)
  MaxSessions   (* bound: connections, or runs of an embedded emulator     *)

ASSUME EcuAssumption ==
  /\ Line \in [{"din", "wheel"} -> 0..15] /\ DOMAIN Port = DOMAIN Line
  \* A name is of one pin, or of the wheel's speed.
  /\ Outputs \cap {"din", "wheel", "rpm"} = {}
  /\ Teeth \in Nat \ {0} /\ Missing \in 0..Teeth /\ Half \in Nat \ {0}
  /\ {MaxRpm, MaxDelta, Capacity, MaxEvents, MaxInputs} \subseteq Nat \ {0}
  /\ Rpms \subseteq Int
  \* The wheel turns less than half a slot between two polls.
  /\ MaxRpm * MaxDelta < Half

VARIABLES
  embedded,     \* has it a link rather than a socket
  uses,         \* which signals the two sides use: "inputs" or "outputs"
  values,       \* level or value last known of each name
  levels,       \* last_digital_levels
  position,     \* of the wheel
  client,       \* the connection held, or 0
  recv_buffer, outgoing,
  pending_inputs, outputs, output_events, next_output_sequence,  \* the link
  exti, irqs,   \* EXTI, and its interrupts pending at the NVIC
  firmware,     \* where the firmware is in its use of the input pins
  seen,         \* level of din the firmware has read last
  snapshot,     \* PR as the handler read it
  rises,        \* rising edges of the wheel's pin in this revolution
  wire, closed, \* parts the feeder wrote and are not read; has it closed
  torn,         \* a line was cut, by a close inside it or by a full buffer
  whole,        \* value of din in the last whole line that was read
  pins,         \* levels the firmware drives
  view, expect, \* outputs as the host has them, next sequence number it expects
  half,         \* parts of an unfinished line at the client
  told,         \* outputs that changed while the client was connected
  gap,          \* the host has seen from a number that events were lost, or a line
                \* for the client was cut
  fed, reports, sessions

inputVars == <<values, levels, position, exti, irqs, rises>>
tcpVars == <<client, recv_buffer, outgoing, wire, closed, torn, whole>>
linkVars == <<pending_inputs, outputs, output_events, next_output_sequence>>
firmwareVars == <<firmware, seen, snapshot>>
hostVars == <<view, expect, half, told, gap>>
tallyVars == <<fed, reports, sessions>>
vars == <<embedded, uses, inputVars, tcpVars, linkVars, firmwareVars, pins, hostVars, tallyVars>>

Inputs == DOMAIN Line
Names == Inputs \cup Outputs \cup {"rpm"}
Lines == {Line[n] : n \in Inputs}
Unknown == -1
Revolution == 2 * Half * Teeth

Init ==
  /\ embedded \in BOOLEAN /\ uses \in {"inputs", "outputs"}
  /\ values = [n \in Names |-> IF n \in Outputs THEN Unknown ELSE 0]
  /\ levels = [n \in Inputs |-> FALSE]
  /\ position = 0 /\ rises = 0
  /\ client = 0 /\ recv_buffer = <<>> /\ outgoing = <<>> /\ wire = <<>> /\ closed = FALSE
  /\ torn = FALSE /\ whole = 0
  /\ pending_inputs = <<>> /\ outputs = [o \in Outputs |-> Unknown]
  /\ output_events = <<>> /\ next_output_sequence = 0
  /\ exti = ExtiInit(Lines) /\ irqs = {}
  /\ firmware = "reset" /\ seen = FALSE /\ snapshot = {}
  /\ pins = [o \in Outputs |-> Unknown]
  /\ view = [o \in Outputs |-> Unknown] /\ expect = 0 /\ half = <<>>
  /\ told = {} /\ gap = FALSE
  /\ fed = 0 /\ reports = 0 /\ sessions = 0

Least(n, m) == IF n < m THEN n ELSE m
Newest(queue, n) == SubSeq(queue, Len(queue) - Least(n, Len(queue)) + 1, Len(queue))

-----------------------------------------------------------------------------
(* What a poll does with the signals.                                       *)

\* The whole lines of a buffer: an end, right behind its start, which begins a line.
WholeLines(buffer) ==
  {i \in 2..Len(buffer) : /\ buffer[i].part = 2
                          /\ buffer[i - 1] = [buffer[i] EXCEPT !.part = 1]
                          /\ i > 2 => buffer[i - 2].part = 2}

\* Where the last line of a buffer ends.
LastEnd(buffer) ==
  LET ends == {i \in DOMAIN buffer : buffer[i].part = 2}
  IN  IF ends = {} THEN 0 ELSE Max(ends)

\* set_value for a sequence of assignments; the last one of a name stays.
SetValues(v, assignments, at) ==
  [n \in Names |->
     LET last == {i \in at : assignments[i].name = n}
     IN  IF last = {} THEN v[n] ELSE assignments[Max(last)].value]

\* level_at
LevelAt(p) == p \div (2 * Half) < Teeth - Missing /\ p % (2 * Half) < Half

\* A wheel whose speed is not clamped.
WheelMoveUnclamped(rpm, delta) == IF rpm <= 0 THEN 0 ELSE rpm * delta

\* TriggerWheel::advance: how far it turns.
WheelMove(rpm, delta) == IF rpm <= 0 THEN 0 ELSE Least(rpm, MaxRpm) * delta

\* check_digital_edges, for pins on different lines.
CheckDigitalEdges(v) ==
  LET level == [n \in Inputs |-> v[n] # 0]
      edges == {n \in Inputs : level[n] # levels[n]}
      after(n) == RaiseLine(exti, Port[n], Line[n], level[n])
  IN  /\ exti' = [exti EXCEPT !.pr = @ \cup UNION {after(n).x.pr : n \in edges}]
      /\ irqs' = irqs \cup ({after(n).irq : n \in edges} \ {NoIrq})
      /\ levels' = level

\* The wheel, then the edges, once the inputs are in: the rest of ExtDevices::poll.
Advance(v, delta) ==
  LET rpm == v["rpm"]
      turned == position + WheelMove(rpm, delta)
      driven == IF rpm <= 0 THEN v
                ELSE [v EXCEPT !["wheel"] = IF LevelAt(turned % Revolution) THEN 1 ELSE 0]
      rising == driven["wheel"] # 0 /\ ~levels["wheel"]
  IN  /\ position' = turned % Revolution
      /\ values' = driven
      /\ CheckDigitalEdges(driven)
      /\ rises' = (IF turned >= Revolution THEN 0 ELSE rises) + (IF rising THEN 1 ELSE 0)

\* A poll of the link: take_inputs.
PollLink(delta) ==
  /\ embedded
  /\ Advance(SetValues(values, pending_inputs, DOMAIN pending_inputs), delta)
  /\ pending_inputs' = <<>>
  /\ UNCHANGED <<embedded, uses, tcpVars, outputs, output_events, next_output_sequence,
                 firmwareVars, pins, hostVars, tallyVars>>

\* Receiving that forgets the lines that came with the close.
ProcessedUnlessClosed(buffer, disconnected) == IF disconnected THEN {} ELSE WholeLines(buffer)

\* process_complete_lines: the lines that are handled, also when the client is gone.
Processed(buffer, disconnected) == WholeLines(buffer)

\* What a client knows of the outputs once it has read the parts of got.
ClientView(got) ==
  [o \in Outputs |->
     LET at == {i \in WholeLines(got) : got[i].name = o}
     IN  IF at = {} THEN view[o] ELSE got[Max(at)].value]

\* send_to_client writes k parts to a client that is there.
SendToClient(k) ==
  LET got == half \o SubSeq(outgoing, 1, k)
  IN  /\ outgoing' = SubSeq(outgoing, k + 1, Len(outgoing))
      /\ view' = ClientView(got)
      /\ half' = SubSeq(got, LastEnd(got) + 1, Len(got))
      /\ UNCHANGED <<expect, told, gap>>

\* A poll of the socket: the first n parts on the wire are read, and the close behind
\* them if nothing else is; then k parts are sent, unless the connection proves reset.
PollSocket(n, k, delta) ==
  LET buffer == Newest(recv_buffer \o SubSeq(wire, 1, n), Capacity)
      disconnected == closed /\ n = Len(wire)
      lines == Processed(buffer, disconnected)
      rest == SubSeq(buffer, LastEnd(buffer) + 1, Len(buffer))
      ends == {i \in 1..n : wire[i].part = 2 /\ wire[i].name = "din"}
  IN  /\ ~embedded /\ (client = 0 => n = 0)
      /\ \E reset \in {FALSE, closed /\ ~disconnected /\ outgoing # <<>>} :
           /\ client' = IF disconnected \/ reset THEN 0 ELSE client
           /\ closed' = (closed /\ ~disconnected /\ ~reset)
           /\ wire' = IF reset THEN <<>> ELSE SubSeq(wire, n + 1, Len(wire))
           /\ torn' = (torn \/ ((disconnected \/ reset) /\ rest # <<>>)
                             \/ Len(recv_buffer) + n > Capacity)
      /\ recv_buffer' = rest
      /\ whole' = IF ends = {} THEN whole ELSE wire[Max(ends)].value
      /\ IF client = 0 \/ disconnected THEN k = 0 /\ UNCHANGED <<outgoing, hostVars>>
         ELSE SendToClient(k)
      /\ Advance(SetValues(values, buffer, lines), delta)
      /\ UNCHANGED <<embedded, uses, linkVars, firmwareVars, pins, tallyVars>>

Poll ==
  \E delta \in 1..MaxDelta : 
    \/ PollLink(delta)
    \/ \E n \in 0..Len(wire), k \in 0..Len(outgoing) : PollSocket(n, k, delta)

-----------------------------------------------------------------------------
(* Output pins.                                                             *)

\* report_output that looks for a change after it has stored the level.
ChangedLate(o, v) == FALSE

ChangedFrom(o, v) == values[o] # v

\* publish_output
PublishOutput(o, v) ==
  /\ outputs' = [outputs EXCEPT ![o] = v]
  /\ IF outputs[o] = v THEN UNCHANGED <<output_events, next_output_sequence>>
     ELSE /\ output_events' = Newest(Append(output_events,
                [sequence |-> next_output_sequence, name |-> o, value |-> v]), MaxEvents)
          /\ next_output_sequence' = next_output_sequence + 1

\* The line for a connected client; the oldest bytes make room.
QueueLine(o, v) ==
  Newest(outgoing \o [i \in 1..2 |-> [name |-> o, value |-> v, of |-> reports, part |-> i]],
         Capacity)

\* The firmware writes a pin; the callback reports it if it changed: report_output.
ReportOutput(o, v) ==
  /\ uses = "outputs" /\ reports < MaxReports
  /\ reports' = reports + 1
  /\ pins' = [pins EXCEPT ![o] = v]
  /\ values' = [values EXCEPT ![o] = v]
  /\ IF ChangedFrom(o, v) /\ embedded
     THEN PublishOutput(o, v) /\ UNCHANGED <<outgoing, told, gap>>
     ELSE /\ UNCHANGED <<outputs, output_events, next_output_sequence>>
          /\ IF ChangedFrom(o, v) /\ client # 0
             THEN /\ outgoing' = QueueLine(o, v)
                  /\ gap' = (gap \/ Len(outgoing) + 2 > Capacity)
             ELSE UNCHANGED <<outgoing, gap>>
          /\ told' = IF values[o] # v /\ client # 0 THEN told \cup {o} ELSE told
  /\ UNCHANGED <<embedded, uses, levels, position, exti, irqs, rises, client, recv_buffer,
                 wire, closed, torn, whole, pending_inputs, firmwareVars, view, expect,
                 half, fed, sessions>>

\* take_output_events, by a host that keeps the levels and the next number.
TakeOutputEvents ==
  LET at(o) == {i \in DOMAIN output_events : output_events[i].name = o}
  IN  /\ output_events # <<>>
      /\ view' = [o \in Outputs |-> IF at(o) = {} THEN view[o]
                                    ELSE output_events[Max(at(o))].value]
      /\ expect' = Last(output_events).sequence + 1
      /\ gap' = (gap \/ Head(output_events).sequence # expect)
      /\ output_events' = <<>>
      /\ UNCHANGED <<embedded, uses, inputVars, tcpVars, pending_inputs, outputs,
                     next_output_sequence, firmwareVars, pins, half, told, tallyVars>>

\* outputs(), by a host that has missed events.
ReadOutputs ==
  /\ embedded /\ gap /\ gap' = FALSE
  /\ view' = outputs
  /\ UNCHANGED <<embedded, uses, inputVars, tcpVars, linkVars, firmwareVars, pins, expect,
                 half, told, tallyVars>>

-----------------------------------------------------------------------------
(* The feeder, and the host application.                                    *)

Fed == [name : {"din"}, value : {0, 1}] \cup [name : {"rpm"}, value : Rpms]

\* set_input
SetInput ==
  /\ embedded /\ uses = "inputs" /\ fed < MaxLines
  /\ \E a \in Fed : pending_inputs' = Newest(Append(pending_inputs, a), MaxInputs)
  /\ fed' = fed + 1
  /\ UNCHANGED <<embedded, uses, inputVars, tcpVars, outputs, output_events, next_output_sequence,
                 firmwareVars, pins, hostVars, reports, sessions>>

\* accept_clients: the first connection is held, others are dropped unseen.
Connect ==
  /\ ~embedded /\ client = 0 /\ sessions < MaxSessions
  /\ client' = sessions + 1 /\ sessions' = sessions + 1
  /\ view' = [o \in Outputs |-> Unknown] /\ half' = <<>> /\ told' = {} /\ gap' = FALSE
  /\ UNCHANGED <<embedded, uses, inputVars, recv_buffer, outgoing, wire, closed, torn, whole,
                 linkVars, firmwareVars, pins, expect, fed, reports>>

\* The client writes a line, or as far as it gets before it closes.
WriteLine(parts) ==
  /\ client # 0 /\ ~closed /\ uses = "inputs" /\ fed < MaxLines
  /\ fed' = fed + 1
  /\ closed' = (parts = 1)
  /\ \E a \in Fed :
       LET part(i) == [name |-> a.name, value |-> a.value, of |-> fed, part |-> i]
       IN  wire' = wire \o [i \in 1..parts |-> part(i)]
  /\ UNCHANGED <<embedded, uses, inputVars, client, recv_buffer, outgoing, torn, whole, linkVars,
                 firmwareVars, pins, hostVars, reports, sessions>>

Close ==
  /\ client # 0 /\ ~closed
  /\ closed' = TRUE
  /\ UNCHANGED <<embedded, uses, inputVars, client, recv_buffer, outgoing, wire, torn, whole, linkVars,
                 firmwareVars, pins, hostVars, tallyVars>>

-----------------------------------------------------------------------------
(* The firmware's use of the input pins.                                    *)

Firmware ==
  /\ uses = "inputs"
  /\ \/ /\ firmware = "reset" /\ firmware' = "routed"
        /\ exti' = WriteRtsr(WriteFtsr(WriteExticr(exti, [l \in Lines |-> Port["din"]]), Lines), Lines)
        /\ UNCHANGED <<irqs, seen, snapshot>>
     \/ /\ firmware = "routed" /\ firmware' = "reading"
        /\ exti' = WriteImr(exti, Lines)
        /\ UNCHANGED <<irqs, seen, snapshot>>
     \/ /\ firmware = "reading" /\ firmware' = "idle"
        /\ seen' = (values["din"] # 0)
        /\ UNCHANGED <<exti, irqs, snapshot>>
     \/ /\ firmware = "idle" /\ irqs # {} /\ firmware' = "acking"
        /\ irqs' = {} /\ snapshot' = exti.pr
        /\ UNCHANGED <<exti, seen>>
     \/ /\ firmware = "acking"
        /\ firmware' = IF Line["din"] \in snapshot THEN "reading" ELSE "idle"
        /\ exti' = WritePr(exti, snapshot)
        /\ snapshot' = {}
        /\ UNCHANGED <<irqs, seen>>
  /\ UNCHANGED <<embedded, uses, values, levels, position, rises, tcpVars, linkVars, pins,
                 hostVars, tallyVars>>

\* The emulator of the link is dropped and another one built (attach_device,
\* detach_device); the host that started it begins anew with what it knows.
Restart ==
  /\ embedded /\ sessions < MaxSessions
  /\ sessions' = sessions + 1
  /\ pending_inputs' = <<>> /\ outputs' = [o \in Outputs |-> Unknown]
  /\ output_events' = <<>> /\ gap' = FALSE
  /\ values' = [n \in Names |-> IF n \in Outputs THEN Unknown ELSE 0]
  /\ levels' = [n \in Inputs |-> FALSE]
  /\ position' = 0 /\ rises' = 0
  /\ exti' = ExtiInit(Lines) /\ irqs' = {}
  /\ firmware' = "reset" /\ seen' = FALSE /\ snapshot' = {}
  /\ pins' = [o \in Outputs |-> Unknown] /\ view' = [o \in Outputs |-> Unknown]
  /\ expect' = next_output_sequence
  /\ UNCHANGED <<embedded, uses, tcpVars, next_output_sequence, half, told, fed, reports>>

Feeder == SetInput \/ Connect \/ Close \/ \E parts \in 1..2 : WriteLine(parts)

Next ==
  \/ Poll \/ Feeder \/ Firmware \/ TakeOutputEvents \/ ReadOutputs \/ Restart
  \/ \E o \in Outputs, v \in {0, 1} : ReportOutput(o, v)

Spec == Init /\ [][Next]_vars

-----------------------------------------------------------------------------
Registers ==
  [imr : SUBSET Lines, rtsr : SUBSET Lines, ftsr : SUBSET Lines, pr : SUBSET Lines,
   exticr : [Lines -> {0} \cup {Port[n] : n \in Inputs}]]
Inbound == [name : {"din", "rpm"}, value : Int, of : Nat, part : 1..2]
Outbound == [name : Outputs, value : {0, 1}, of : Nat, part : 1..2]
Events == [sequence : Nat, name : Outputs, value : {0, 1}]
OutputLevels == [Outputs -> {Unknown, 0, 1}]

InputsTyped ==
  /\ values \in [Names -> Int] /\ levels \in [Inputs -> BOOLEAN]
  /\ position \in 0..(Revolution - 1) /\ rises \in Nat
  /\ exti \in Registers /\ irqs \subseteq {IrqForLine(l) : l \in Lines}
  /\ firmware \in {"reset", "routed", "reading", "idle", "acking"} /\ seen \in BOOLEAN
  /\ snapshot \subseteq Lines
TcpTyped ==
  /\ client \in Nat /\ closed \in BOOLEAN /\ torn \in BOOLEAN /\ whole \in Int
  /\ wire \in Seq(Inbound) /\ recv_buffer \in Seq(Inbound) /\ Len(recv_buffer) <= Capacity
  /\ outgoing \in Seq(Outbound) /\ Len(outgoing) <= Capacity /\ half \in Seq(Outbound)
LinkTyped ==
  /\ pending_inputs \in Seq([name : {"din", "rpm"}, value : Int]) /\ Len(pending_inputs) <= MaxInputs
  /\ output_events \in Seq(Events) /\ Len(output_events) <= MaxEvents
  /\ next_output_sequence \in Nat /\ expect \in Nat
  /\ outputs \in OutputLevels /\ pins \in OutputLevels /\ view \in OutputLevels
TallyTyped ==
  /\ embedded \in BOOLEAN /\ uses \in {"inputs", "outputs"}
  /\ told \subseteq Outputs /\ gap \in BOOLEAN
  /\ fed \in Nat /\ reports \in Nat /\ sessions \in Nat
TypeOK == InputsTyped /\ TcpTyped /\ LinkTyped /\ TallyTyped

\* An edge that set its bit of PR is on its way to the firmware: its interrupt is pending
\* or the handler has read the bit and not yet cleared it (raise_line_if_configured).
EdgeOnItsWay ==
  \A l \in exti.pr : IrqForLine(l) \in irqs \/ (firmware = "acking" /\ l \in snapshot)

\* However the wheel is sped up, slowed down or stopped, a revolution has each of its
\* teeth and no other: no poll steps over one (TriggerWheel::advance).
TeethStep ==
  position' < position /\ sessions' = sessions => rises = Teeth - Missing
TeethDelivered == [][TeethStep]_vars

\* Lines that are split between reads are joined and handled in order, and those that
\* came before a close are handled too: din is what the last whole line said, unless a
\* line was cut (receive_from_client, process_complete_lines).
LastLineCounts == ~embedded => values["din"] = whole \/ torn

\* A host that takes events, and reads outputs when it sees a gap in their numbers, has,
\* with the events still queued, the levels the firmware drives; so has a client, of the
\* outputs that changed while it was connected, unless its queue overflowed, whatever was
\* left in the queue for the client before it (report_output, publish_output,
\* send_to_client).
HostInformed ==
  \A o \in Outputs :
    LET at == {i \in DOMAIN output_events : output_events[i].name = o}
        known == IF at = {} THEN view[o] ELSE output_events[Max(at)].value
        numbered == output_events # <<>> => Head(output_events).sequence = expect
    IN  IF embedded THEN numbered /\ ~gap => known = pins[o]
        ELSE o \in told /\ client # 0 /\ ~gap => ClientView(half \o outgoing)[o] = pins[o]

\* No edge is missed: one that is latched is on its way, and while the handler is not at work and no interrupt is on its way, the
\* firmware has read the level the input has, whenever it changed and however often, also
\* while the handler ran (check_digital_edges, EXTI, the handler).
NoEdgeMissed ==
  EdgeOnItsWay /\ (firmware = "idle" /\ irqs = {} => seen = (values["din"] # 0))
=============================================================================
