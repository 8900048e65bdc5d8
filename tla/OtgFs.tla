------------------------------- MODULE OtgFs --------------------------------
(***************************************************************************)
(* The USB device controller and the virtual host behind it                *)
(* (src/src/peripherals/otg_fs.rs).                                        *)
(*                                                                         *)
(* The controller is one record, and what a register access or the poll    *)
(* does to it is a function of that record, composed as the code composes  *)
(* its methods.  Bits of a register are the set of their names, the        *)
(* endpoints are the control endpoint 0 and the bulk endpoint.  A byte of  *)
(* a FIFO carries its packet and its place in it.  The bridge is what the *)
(* controller uses of it: is a host there, how many bytes has it for the   *)
(* device, what was sent to it, which protocol stage was it told last.     *)
(***************************************************************************)
EXTENDS Integers, Sequences

CONSTANTS
  Bulk,             (* bulk_in_endpoint, bulk_out_endpoint      (2)        *)
  WordBytes,        (* bytes of a FIFO word                     (4)        *)
  SetupBytes,       (* bytes of a SETUP packet                  (8)        *)
  LineCodingBytes,  (* bytes of SET_LINE_CODING's data stage    (7)        *)
  MaxPacket         (* most bytes of a bulk OUT packet          (64)       *)

ASSUME OtgAssumption ==
  /\ Bulk \in Nat \ {0}
  /\ {WordBytes, SetupBytes, LineCodingBytes, MaxPacket} \subseteq Nat \ {0}

VARIABLES
  otg,  \* OtgFs, and the side of the bridge it talks to
  irq   \* is interrupt 67 pending at the NVIC

Endpoints == {0, Bulk}

\* VirtualHostStep: what the host waits for.
Steps == <<"AwaitingDeviceDescriptor", "AwaitingSetAddressStatus",
           "AwaitingSetConfigurationStatus", "AwaitingSetLineCodingStatus",
           "AwaitingSetControlLineStateStatus", "Configured">>

\* EndpointRegs
InRegs == [ena |-> FALSE, int |-> {}, size |-> 0, sent |-> 0]
OutRegs == [ena |-> FALSE, active |-> FALSE, int |-> {}, size |-> 0]

OtgInit ==
  /\ irq = FALSE
  /\ otg = [present |-> FALSE, inbox |-> 0, outbox |-> <<>>, stage |-> "Attached",
            gintsts |-> {}, gintmsk |-> {}, attached |-> FALSE,
            daintmsk |-> {}, empmsk |-> {},
            inep |-> [e \in Endpoints |-> InRegs],
            outep |-> [e \in Endpoints |-> OutRegs],
            rx_fifo |-> <<>>, rx_status |-> <<>>,
            tx_fifo |-> [e \in Endpoints |-> <<>>], step |-> Steps[1]]

\* effective_gintsts: RXFLVL and the endpoint bits are levels.
Gintsts(o) ==
  LET raised(dir, regs) ==
        \E e \in Endpoints : regs[e].int # {} /\ <<dir, e>> \in o.daintmsk
  IN  o.gintsts \cup (IF o.rx_status # <<>> THEN {"RXFLVL"} ELSE {})
                \cup (IF raised("in", o.inep) THEN {"IEPINT"} ELSE {})
                \cup (IF raised("out", o.outep) THEN {"OEPINT"} ELSE {})

\* interrupt_pending
InterruptPending(o) == Gintsts(o) \cap o.gintmsk # {}

-----------------------------------------------------------------------------
(* The virtual host.                                                        *)

Status(sts, n, e) == [sts |-> sts, n |-> n, ep |-> e]
Packet(what, n) == [i \in 1..n |-> <<what, i>>]

\* A reset that leaves the endpoints as the last session left them.
ResetKeepsEndpoints(o) ==
  [o EXCEPT !.stage = Steps[1], !.step = Steps[1], !.gintsts = @ \cup {"USBRST"},
            !.rx_fifo = <<>>, !.rx_status = <<>>,
            !.tx_fifo = [e \in Endpoints |-> <<>>]]

\* virtual_host_reset: the masks stay.
Reset(o) ==
  [o EXCEPT !.stage = Steps[1], !.step = Steps[1], !.gintsts = @ \cup {"USBRST"},
            !.inep = [e \in Endpoints |-> InRegs],
            !.outep = [e \in Endpoints |-> OutRegs],
            !.rx_fifo = <<>>, !.rx_status = <<>>,
            !.tx_fifo = [e \in Endpoints |-> <<>>]]

\* virtual_host_setup
Setup(o, request) ==
  [o EXCEPT !.rx_fifo = @ \o Packet(request, SetupBytes),
            !.rx_status = @ \o <<Status("SETUP_DATA", SetupBytes, 0),
                                 Status("SETUP_COMP", 0, 0)>>]

\* The data stage of virtual_host_control_out, and one OUT packet in general.
OutPacket(o, e, what, n) ==
  [o EXCEPT !.rx_fifo = @ \o Packet(what, n),
            !.rx_status = @ \o <<Status("OUT_DATA", n, e), Status("OUT_COMP", 0, e)>>]

\* A host that sends the request after SET_LINE_CODING without waiting for its status.
NextRequestAhead(o) ==
  CASE o.step = Steps[1] -> Setup(OutPacket(o, 0, "status", 0), "SET_ADDRESS")
    [] o.step = Steps[2] -> Setup(o, "SET_CONFIGURATION")
    [] o.step = Steps[3] -> Setup(OutPacket(Setup(o, "SET_LINE_CODING"), 0, "data", LineCodingBytes),
                                  "SET_CONTROL_LINE_STATE")
    [] OTHER -> o

\* What the host does about the completion of a request: a zero-length status
\* stage for GET_DESCRIPTOR, and the next request.
NextRequest(o) ==
  CASE o.step = Steps[1] -> Setup(OutPacket(o, 0, "status", 0), "SET_ADDRESS")
    [] o.step = Steps[2] -> Setup(o, "SET_CONFIGURATION")
    [] o.step = Steps[3] -> OutPacket(Setup(o, "SET_LINE_CODING"), 0, "data", LineCodingBytes)
    [] o.step = Steps[4] -> Setup(o, "SET_CONTROL_LINE_STATE")
    [] OTHER -> o

\* A host that goes straight from the configuration to bulk transfers.
StepAfterSkipping(step) ==
  IF step \in {Steps[3], Steps[6]} THEN Steps[6]
  ELSE CHOOSE s \in {Steps[i + 1] : i \in {j \in 1..5 : Steps[j] = step}} : TRUE

StepAfter(step) ==
  IF step = Steps[6] THEN step
  ELSE CHOOSE s \in {Steps[i + 1] : i \in {j \in 1..5 : Steps[j] = step}} : TRUE

\* advance_virtual_host
Advance(o) ==
  LET next == StepAfter(o.step)
  IN  [NextRequest(o) EXCEPT
         !.step = next,
         !.stage = CASE next = o.step -> @
                     [] next = Steps[6] -> "ProtocolReady"
                     [] OTHER -> next]

Least(n, m) == IF n < m THEN n ELSE m

\* A transfer that takes the padding of its last word with it.
SentPadded(fifo, size) == fifo

\* The bytes of a bulk transfer that go to the bridge.
Sent(fifo, size) == SubSeq(fifo, 1, Least(Len(fifo), size))

\* complete_in_transfer: a bulk transfer is cut to its size; before the host has
\* configured the device its bytes stay in the FIFO.
CompleteIn(o, e) ==
  LET raised == [o EXCEPT !.inep[e].int = @ \cup {"XFRC"}]
  IN  IF e = 0 THEN Advance([raised EXCEPT !.tx_fifo[0] = <<>>])
      ELSE IF o.step # Steps[6] THEN raised
      ELSE [raised EXCEPT !.tx_fifo[e] = <<>>,
                          !.outbox = @ \o Sent(o.tx_fifo[e], o.inep[e].size)]

-----------------------------------------------------------------------------
(* The poll.                                                                *)

\* refresh_virtual_host_attachment
Refresh(o, irq_enabled) ==
  IF o.present /\ o.gintmsk # {} /\ irq_enabled /\ ~o.attached
  THEN Reset([o EXCEPT !.attached = TRUE])
  ELSE [o EXCEPT !.attached = @ /\ o.present]

\* Forwarding without regard to the endpoint being armed.
CanForwardAnyTime(o) == o.step = Steps[6] /\ o.outep[Bulk].size > 0 /\ o.inbox > 0

\* forward_bulk_out's early returns.
CanForward(o) ==
  o.step = Steps[6] /\ o.outep[Bulk].ena /\ o.outep[Bulk].size > 0 /\ o.inbox > 0

\* forward_bulk_out: one packet for one arming of the endpoint.
ForwardBulkOut(o) ==
  LET n == Least(o.inbox, Least(MaxPacket, o.outep[Bulk].size))
  IN  IF ~CanForward(o) THEN o
      ELSE OutPacket([o EXCEPT !.inbox = @ - n, !.outep[Bulk].ena = FALSE,
                               !.outep[Bulk].size = @ - n], Bulk, "data", n)

\* poll, with a start of frame when its period has passed.
PollOtg(irq_enabled, sof) ==
  LET refreshed == Refresh(otg, irq_enabled)
      framed == IF refreshed.attached /\ sof
                THEN [refreshed EXCEPT !.gintsts = @ \cup {"SOF"}] ELSE refreshed
  IN  /\ otg' = ForwardBulkOut(framed)
      /\ irq' = (irq \/ InterruptPending(otg'))

-----------------------------------------------------------------------------
(* Register accesses.  Each is the controller after it.                     *)

\* A read of a FIFO window: the word takes what bytes there are.
PopWord(o) ==
  [o EXCEPT !.rx_fifo = SubSeq(@, Least(WordBytes, Len(@)) + 1, Len(@))]

\* The endpoint interrupt a read of GRXSTSP raises.
RaisedBy(status) ==
  CASE status.sts = "SETUP_COMP" -> {"STUP"} [] status.sts = "OUT_COMP" -> {"XFRC"}
    [] OTHER -> {}

\* A read of GRXSTSP.
PopStatus(o) ==
  LET status == Head(o.rx_status)
  IN  IF o.rx_status = <<>> THEN o
      ELSE [o EXCEPT !.rx_status = Tail(@),
                     !.outep[status.ep].int = @ \cup RaisedBy(status)]

\* push_tx_fifo_word: a word counts in full.
PushWord(o, e, what) ==
  LET word == [i \in 1..WordBytes |-> <<what, o.inep[e].sent + i>>]
      pushed == [o EXCEPT !.tx_fifo[e] = @ \o word,
                          !.inep[e].sent = @ + WordBytes]
  IN  IF o.inep[e].ena /\ pushed.inep[e].sent >= o.inep[e].size
      THEN CompleteIn([pushed EXCEPT !.inep[e].ena = FALSE], e) ELSE pushed

\* Arming that relies on the write of DIEPEMPMSK to raise TXFE.
TxfeOnArmNever(o, e) == {}

\* TXFE on arming an endpoint whose bit of DIEPEMPMSK is set already.
TxfeOnArm(o, e) == IF e \in o.empmsk THEN {"TXFE"} ELSE {}

\* A write of DIEPCTL.
WriteDiepctl(o, e, ena) ==
  LET written == [o EXCEPT !.inep[e].ena = ena]
      armed == [written EXCEPT !.inep[e].sent = 0]
  IN  IF ~ena \/ o.inep[e].ena THEN written
      ELSE IF o.inep[e].size = 0 THEN CompleteIn([armed EXCEPT !.inep[e].ena = FALSE], e)
      ELSE [armed EXCEPT !.inep[e].int = @ \cup TxfeOnArm(o, e)]

\* A write of DOEPCTL: activating endpoint 0 invites the first request.
WriteDoepctl(o, e, ena, active) ==
  LET written == [o EXCEPT !.outep[e].ena = ena, !.outep[e].active = active]
  IN  IF e = 0 /\ active /\ ~o.outep[0].active /\ o.step = Steps[1]
      THEN Setup(written, "GET_DESCRIPTOR") ELSE written

\* A write of GINTMSK.
WriteGintmsk(o, mask) ==
  [o EXCEPT !.gintmsk = mask,
            !.stage = IF o.gintmsk = {} /\ mask # {} THEN "UsbStarted" ELSE @]

\* A write of DIEPEMPMSK.
WriteDiepempmsk(o, mask) ==
  [o EXCEPT !.empmsk = mask,
            !.inep = [e \in Endpoints |->
                        IF e \in mask \ o.empmsk /\ o.inep[e].ena
                        THEN [o.inep[e] EXCEPT !.int = o.inep[e].int \cup {"TXFE"}]
                        ELSE o.inep[e]]]

\* The other registers of register_write: write-one-to-clear and plain ones.
WriteGintsts(o, bits) == [o EXCEPT !.gintsts = @ \ bits]
WriteDaintmsk(o, mask) == [o EXCEPT !.daintmsk = mask]
WriteDiepint(o, e, bits) == [o EXCEPT !.inep[e].int = @ \ bits]
WriteDiepsiz(o, e, n) == [o EXCEPT !.inep[e].size = n]
WriteDoepint(o, e, bits) == [o EXCEPT !.outep[e].int = @ \ bits]
WriteDoepsiz(o, e, n) == [o EXCEPT !.outep[e].size = n]
=============================================================================
