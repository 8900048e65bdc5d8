------------------------------ MODULE UsbStack ------------------------------
(***************************************************************************)
(* The USB controller under the driver it was made for, with hosts that    *)
(* come and go.                                                            *)
(*                                                                         *)
(* The driver is the firmware's (ChibiOS), known from the traces and the   *)
(* comments of otg_fs.rs.  It is straight-line code of register accesses:  *)
(* `todo' holds the accesses of the handler under way, and the emulator    *)
(* may poll between any two of them.  One entry of the interrupt handler   *)
(* serves one cause; what stays asserted is pended again by the next poll. *)
(***************************************************************************)
EXTENDS OtgFs, FiniteSetsExt

CONSTANTS
  DescriptorBytes,  (* bytes of the device descriptor           (18)       *)
  ReplyBytes,       (* bytes of one bulk IN transfer                       *)
  Chunks,           (* bulk IN transfers of one reply                      *)
  MaxHosts,         (* bound: hosts that connect                           *)
  MaxInbox,         (* bound: bytes all hosts send                         *)
  MaxReplies        (* bound: replies                                     *)

ASSUME UsbAssumption ==
  /\ {DescriptorBytes, ReplyBytes, Chunks} \subseteq Nat \ {0}
  /\ {MaxHosts, MaxInbox, MaxReplies} \subseteq Nat

VARIABLES
  todo,        \* register accesses the firmware is about to make
  irq_enabled, \* interrupt 67 enabled at the NVIC
  setup,       \* the request in the driver's SETUP buffer
  owed,        \* bytes of the packet being read that are still in the FIFO
  ready,       \* a bulk packet has reached the firmware since the driver's last reset
  sending,     \* bulk IN transfers of the reply under way that are to be made
  handled,     \* requests answered since the last bus reset
  torn,        \* the last bus reset came between two accesses of a handler
  hosts, host_bytes, replies

driverVars == <<todo, irq_enabled, setup, owed, ready, sending, handled, torn>>
tallyVars == <<hosts, host_bytes, replies>>
usbVars == <<otg, irq, driverVars, tallyVars>>

Causes == {"USBRST", "SOF", "RXFLVL", "IEPINT", "OEPINT"}
Requests == {"GET_DESCRIPTOR", "SET_ADDRESS", "SET_CONFIGURATION", "SET_LINE_CODING",
             "SET_CONTROL_LINE_STATE"}

Words(n) == (n + WordBytes - 1) \div WordBytes
Repeat(op, n) == [i \in 1..n |-> op]

UsbInit ==
  /\ OtgInit
  /\ todo = << [reg |-> "GINTMSK"], [reg |-> "NVIC"] >>
  /\ irq_enabled = FALSE /\ setup = "none" /\ owed = 0
  /\ ready = FALSE /\ sending = 0 /\ handled = {} /\ torn = FALSE
  /\ hosts = 0 /\ host_bytes = 0 /\ replies = 0

-----------------------------------------------------------------------------
(* The host.                                                                *)

HostConnects ==
  /\ ~otg.present /\ hosts < MaxHosts
  /\ hosts' = hosts + 1
  /\ otg' = [otg EXCEPT !.present = TRUE]
  /\ UNCHANGED <<irq, driverVars, host_bytes, replies>>

HostSends ==
  /\ otg.present /\ host_bytes < MaxInbox
  /\ host_bytes' = host_bytes + 1
  /\ otg' = [otg EXCEPT !.inbox = @ + 1]
  /\ UNCHANGED <<irq, driverVars, hosts, replies>>

\* The bridge drops what is queued with the session.
HostLeaves ==
  /\ otg.present
  /\ otg' = [otg EXCEPT !.present = FALSE, !.inbox = 0, !.outbox = <<>>]
  /\ UNCHANGED <<irq, driverVars, tallyVars>>

\* What the bridge has for the host leaves it.
HostReceives ==
  /\ otg.present /\ otg.outbox # <<>>
  /\ otg' = [otg EXCEPT !.outbox = <<>>]
  /\ UNCHANGED <<irq, driverVars, tallyVars>>

Poll ==
  /\ \E sof \in BOOLEAN : PollOtg(irq_enabled, sof)
  /\ IF otg'.attached /\ ~otg.attached
     THEN handled' = {} /\ torn' = (todo # <<>>)
     ELSE UNCHANGED <<handled, torn>>
  /\ UNCHANGED <<todo, irq_enabled, setup, owed, ready, sending, tallyVars>>

-----------------------------------------------------------------------------
(* The driver.                                                              *)

\* usbStartTransmitI and usbStartReceiveI.
Rearm(e, n) == << [reg |-> "DIEPTSIZ", ep |-> e, n |-> n], [reg |-> "DIEPCTL", ep |-> e] >>
Transmit(e, n) == Rearm(e, n) \o << [reg |-> "DIEPEMPMSK", ep |-> e, on |-> n > 0] >>
Receive(e) == << [reg |-> "DOEPTSIZ", ep |-> e], [reg |-> "DOEPCTL", ep |-> e] >>

\* What the driver does about a request.
Reaction(request) ==
  CASE request = "GET_DESCRIPTOR" -> Transmit(0, DescriptorBytes)
    [] request = "SET_LINE_CODING" -> Receive(0)
    [] request = "SET_CONFIGURATION" ->
         <<[reg |-> "DAINTMSK", ep |-> Bulk]>> \o Receive(Bulk) \o Transmit(0, 0)
    [] request \in {"SET_ADDRESS", "SET_CONTROL_LINE_STATE"} -> Transmit(0, 0)
    [] OTHER -> <<>>

\* One register access.
Access(op) ==
  CASE op.reg = "GINTMSK" -> WriteGintmsk(otg, Causes)
    [] op.reg = "NVIC" -> otg
    [] op.reg = "GINTSTS" -> WriteGintsts(otg, op.bits)
    [] op.reg = "DAINTMSK" ->
         WriteDaintmsk(otg, IF op.ep = 0 THEN {"in", "out"} \X {0} ELSE {"in", "out"} \X Endpoints)
    [] op.reg = "DIEPINT" -> WriteDiepint(otg, op.ep, op.bits)
    [] op.reg = "DOEPINT" -> WriteDoepint(otg, op.ep, op.bits)
    [] op.reg = "DIEPTSIZ" -> WriteDiepsiz(otg, op.ep, op.n)
    [] op.reg = "DIEPCTL" -> WriteDiepctl(otg, op.ep, TRUE)
    [] op.reg = "DOEPTSIZ" -> WriteDoepsiz(otg, op.ep, MaxPacket)
    [] op.reg = "DOEPCTL" -> WriteDoepctl(otg, op.ep, op.ep # 0, TRUE)
    [] op.reg = "DIEPEMPMSK" ->
         WriteDiepempmsk(otg, IF op.on THEN otg.empmsk \cup {op.ep} ELSE otg.empmsk \ {op.ep})
    [] op.reg = "GRXSTSP" -> PopStatus(otg)
    [] op.reg = "RXFIFO" -> PopWord(otg)
    [] op.reg = "TXFIFO" -> PushWord(otg, op.ep, replies)

\* The firmware makes the next access.
Step ==
  /\ todo # <<>>
  /\ LET op == Head(todo)
         pops == op.reg = "GRXSTSP" /\ otg.rx_status # <<>>
         status == Head(otg.rx_status)
     IN /\ otg' = Access(op)
        /\ todo' = (IF pops THEN Repeat([reg |-> "RXFIFO"], Words(status.n)) ELSE <<>>)
                     \o Tail(todo)
        /\ owed' = CASE pops -> status.n
                     [] op.reg = "RXFIFO" -> Max({0, owed - WordBytes})
                     [] OTHER -> owed
        /\ setup' = CASE pops /\ status.sts = "SETUP_DATA" -> "none"
                      [] op.reg = "RXFIFO" /\ otg.rx_fifo # <<>>
                           /\ Head(otg.rx_fifo) \in Requests \X {1} -> Head(otg.rx_fifo)[1]
                      [] OTHER -> setup
        /\ irq_enabled' = (irq_enabled \/ op.reg = "NVIC")
  /\ UNCHANGED <<irq, ready, sending, handled, torn, tallyVars>>

\* The interrupt handler is entered and serves one cause, a reset before others.
Enter(ops) == irq /\ irq_enabled /\ todo = <<>> /\ irq' = FALSE /\ todo' = ops

ServeReset ==
  /\ "USBRST" \in otg.gintsts
  /\ Enter(<< [reg |-> "GINTSTS", bits |-> {"USBRST"}] >>
             \o [i \in 1..2 |-> [reg |-> "DIEPEMPMSK", ep |-> <<0, Bulk>>[i], on |-> FALSE]]
             \o << [reg |-> "DAINTMSK", ep |-> 0], [reg |-> "DOEPCTL", ep |-> 0] >>)
  /\ ready' = FALSE /\ sending' = 0
  /\ UNCHANGED <<otg, irq_enabled, setup, owed, handled, torn, tallyVars>>

ServeFrame ==
  /\ Gintsts(otg) = {"SOF"}
  /\ Enter(<< [reg |-> "GINTSTS", bits |-> {"SOF"}] >>)
  /\ UNCHANGED <<otg, irq_enabled, setup, owed, ready, sending, handled, torn, tallyVars>>

\* Endpoint interrupts are served before the next entry of the receive FIFO.
ServeReceive ==
  /\ Gintsts(otg) \cap {"USBRST", "RXFLVL", "OEPINT"} = {"RXFLVL"}
  /\ Enter(<< [reg |-> "GRXSTSP"] >>)
  /\ UNCHANGED <<otg, irq_enabled, setup, owed, ready, sending, handled, torn, tallyVars>>

ServeIn(e) ==
  /\ "USBRST" \notin otg.gintsts /\ <<"in", e>> \in otg.daintmsk
  /\ \/ /\ "TXFE" \in otg.inep[e].int
        /\ Enter(<< [reg |-> "DIEPINT", ep |-> e, bits |-> {"TXFE"}] >>
                   \o (IF e \in otg.empmsk
                       THEN Repeat([reg |-> "TXFIFO", ep |-> e], Words(otg.inep[e].size))
                              \o << [reg |-> "DIEPEMPMSK", ep |-> e,
                                     on |-> e # 0 /\ sending > 1] >>
                       ELSE <<>>))
        /\ UNCHANGED sending
     \/ /\ "XFRC" \in otg.inep[e].int
        /\ Enter(<< [reg |-> "DIEPINT", ep |-> e, bits |-> {"XFRC"}] >>
                   \o IF e # 0 /\ sending > 1 THEN Rearm(e, ReplyBytes) ELSE <<>>)
        /\ sending' = IF e = 0 THEN sending ELSE sending - 1
  /\ UNCHANGED <<otg, irq_enabled, setup, owed, ready, handled, torn, tallyVars>>

ServeOut(e) ==
  /\ "USBRST" \notin otg.gintsts /\ <<"out", e>> \in otg.daintmsk
  /\ \/ /\ "STUP" \in otg.outep[e].int
        /\ Enter(<< [reg |-> "DOEPINT", ep |-> e, bits |-> {"STUP"}] >> \o Reaction(setup))
        /\ handled' = handled \cup {setup}
        /\ UNCHANGED ready
     \/ /\ otg.outep[e].int = {"XFRC"}
        /\ Enter(<< [reg |-> "DOEPINT", ep |-> e, bits |-> {"XFRC"}] >>
                   \o CASE e # 0 -> Receive(e)
                        [] e = 0 /\ setup = "SET_LINE_CODING" -> Transmit(0, 0)
                        [] OTHER -> <<>>)
        /\ ready' = (ready \/ e # 0)
        /\ UNCHANGED handled
  /\ UNCHANGED <<otg, irq_enabled, setup, owed, sending, torn, tallyVars>>

\* Thread code answers what it received.
Respond ==
  /\ todo = <<>> /\ ready /\ sending = 0 /\ replies < MaxReplies
  /\ todo' = Transmit(Bulk, ReplyBytes)
  /\ sending' = Chunks /\ replies' = replies + 1
  /\ UNCHANGED <<otg, irq, irq_enabled, setup, owed, ready, handled, torn, hosts, host_bytes>>

Serve == ServeReset \/ ServeFrame \/ ServeReceive \/ \E e \in Endpoints : ServeIn(e) \/ ServeOut(e)
Firmware == Step \/ Serve
Host == HostConnects \/ HostSends \/ HostLeaves \/ HostReceives

UsbNext == Poll \/ Firmware \/ Respond \/ Host

UsbSpec == UsbInit /\ [][UsbNext]_usbVars

\* The emulator keeps polling and the firmware keeps running.
UsbFairSpec == UsbSpec /\ WF_usbVars(Poll) /\ WF_usbVars(Firmware)

-----------------------------------------------------------------------------
Queued == MapThenSumSet(LAMBDA i : otg.rx_status[i].n, DOMAIN otg.rx_status)

\* The receive FIFO holds the packets the status queue announces and the rest of the
\* one being read: a packet that is no multiple of a word takes no byte of the one
\* behind it (pop_rx_fifo_word), in a session that did not begin between two accesses
\* of a handler.
Aligned == Len(otg.rx_fifo) = Queued + owed \/ torn

\* One packet for one arming: however much the host sends, the driver never has two
\* bulk packets to take, and the status queue stays bounded (forward_bulk_out).
FlowControlled ==
  /\ Cardinality({i \in DOMAIN otg.rx_status : otg.rx_status[i] = Status("OUT_COMP", 0, Bulk)}) <= 1
  /\ Len(otg.rx_status) <= 6

\* An armed transfer whose FIFO-empty interrupt is unmasked is told to fill the FIFO,
\* or is filling it: no wait for an interrupt that never comes (DIEPCTL, DIEPEMPMSK).
TxfeHeld ==
  \A e \in Endpoints : otg.inep[e].ena /\ e \in otg.empmsk =>
    "TXFE" \in otg.inep[e].int \/ \E i \in DOMAIN todo : todo[i].reg = "TXFIFO"

\* The link is told that the protocol is ready exactly while the virtual host is
\* configured, and it is only configured when the firmware has answered every request of
\* this session, in a session that did not begin inside a handler (advance_virtual_host,
\* virtual_host_reset, set_protocol_stage).
ConfiguredTruly ==
  /\ otg.stage = "ProtocolReady" <=> otg.step = "Configured"
  /\ otg.step = "Configured" => Requests \subseteq handled \/ torn

\* A transfer reaches the bridge as the firmware made it: its bytes, no others, without
\* the padding of the last word (complete_in_transfer).
TransferStep ==
  Len(otg'.outbox) > Len(otg.outbox) =>
    otg'.outbox = otg.outbox \o Packet(replies, ReplyBytes) \/ torn
Transferred == [][TransferStep]_usbVars

\* A host that stays is served, whatever the firmware was doing when it came and whoever was
\* there before: it is enumerated, and what it sends reaches the firmware again and again
\* (refresh_virtual_host_attachment, advance_virtual_host, forward_bulk_out).
HostServed ==
  <>[]otg.present => <>[](otg.step = "Configured") /\ []<>(otg.inbox = 0)
=============================================================================
