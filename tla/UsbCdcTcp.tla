----------------------------- MODULE UsbCdcTcp ------------------------------
(***************************************************************************)
(* The USB serial port over TCP (src/src/ext_devices/usb_cdc_tcp.rs).      *)
(*                                                                         *)
(* A poll of the bridge is three loops of system calls: accept, read,      *)
(* write.  Each call is a step here, so that clients connect, write, close *)
(* and fail between any two of them.  Between polls the USB controller     *)
(* takes bytes for the firmware and pushes the firmware's.  Bytes are      *)
(* chunks: a call that moves several is several steps.                     *)
(*                                                                         *)
(* Chunks from a client carry the client; chunks from the firmware carry   *)
(* the client held when they were pushed.                                  *)
(***************************************************************************)
EXTENDS Integers, Sequences

CONSTANTS
  Clients,      (* connection attempts                                      *)
  NoClient,
  MaxBuffered,  (* max_buffered_bytes                                       *)
  Grace,        (* stale_client_grace_period, in ticks                      *)
  MaxWrites,    (* bound: chunks one connection writes                      *)
  MaxReplies    (* bound: chunks the firmware pushes                        *)

ASSUME TcpAssumption ==
  /\ NoClient \notin Clients
  /\ MaxBuffered \in Nat \ {0}
  /\ Grace \in Nat
  /\ MaxWrites \in Nat
  /\ MaxReplies \in Nat

VARIABLES
  client,       \* the client held, or NoClient
  age,          \* ticks since it connected, up to Grace
  to_device,    \* queue of chunks for the firmware
  from_device,  \* queue of chunks for the client
  pc,           \* the loop the poll is in, or "idle"
  backlog,      \* connections the listener has not accepted yet
  peer,         \* state of each connection as its client and the network left it
  wire,         \* chunks written by each client and not yet read
  written,      \* chunks each client has written
  pushed        \* chunks the firmware has pushed

bridgeVars == <<client, age, to_device, from_device>>
socketVars == <<backlog, peer, wire>>
countVars == <<written, pushed>>
tcpVars == <<bridgeVars, pc, socketVars, countVars>>

Peers == {"new", "open", "fin", "reset", "failed", "gone"}

\* A chunk's data: the client it is from, if any, and its number.
Data == (Clients \cup {NoClient}) \X (1..(MaxWrites + MaxReplies))
Request == [session : Clients, data : Data]
Reply == [session : Clients \cup {NoClient}, data : Data]

\* push_capped
Capped(queue, chunk) ==
  Append(IF Len(queue) = MaxBuffered THEN Tail(queue) ELSE queue, chunk)

BridgeInit ==
  /\ client = NoClient /\ age = 0
  /\ to_device = <<>> /\ from_device = <<>>
  /\ pc = "idle"
  /\ backlog = <<>>
  /\ peer = [c \in Clients |-> "new"]
  /\ wire = [c \in Clients |-> <<>>]
  /\ written = [c \in Clients |-> 0] /\ pushed = 0

-----------------------------------------------------------------------------
(* The clients and the network.                                             *)

ClientConnects(c) ==
  /\ peer[c] \in {"new", "gone"}
  /\ peer' = [peer EXCEPT ![c] = "open"]
  /\ backlog' = Append(backlog, c)
  /\ UNCHANGED <<bridgeVars, pc, wire, countVars>>

Write(c) ==
  /\ peer[c] = "open" /\ written[c] < MaxWrites
  /\ written' = [written EXCEPT ![c] = @ + 1]
  /\ wire' = [wire EXCEPT ![c] = Append(@, [session |-> c,
                                                  data |-> <<c, written[c] + 1>>])]
  /\ UNCHANGED <<bridgeVars, pc, backlog, peer, pushed>>

\* The client closes; a FIN follows what it has written.
Finish(c) ==
  /\ peer[c] = "open"
  /\ peer' = [peer EXCEPT ![c] = "fin"]
  /\ UNCHANGED <<bridgeVars, pc, backlog, wire, countVars>>

\* A reset overtakes what is on the wire; so does any other failure.
Break(c, how) ==
  /\ peer[c] \in {"open", "fin"}
  /\ peer' = [peer EXCEPT ![c] = how]
  /\ wire' = [wire EXCEPT ![c] = <<>>]
  /\ UNCHANGED <<bridgeVars, pc, backlog, countVars>>

Saturated(ticks) == IF ticks < Grace THEN ticks + 1 ELSE Grace

Tick ==
  /\ client # NoClient
  /\ age' = Saturated(age)
  /\ UNCHANGED <<client, to_device, from_device, pc, socketVars, countVars>>

-----------------------------------------------------------------------------
(* The USB controller's calls, between polls.                               *)

\* take_for_device
TakeForDevice ==
  /\ pc = "idle" /\ to_device # <<>>
  /\ to_device' = Tail(to_device)
  /\ UNCHANGED <<client, age, from_device, pc, socketVars, countVars>>

\* push_from_device queues whether or not a client is held.
PushFromDevice ==
  /\ pc = "idle" /\ pushed < MaxReplies
  /\ pushed' = pushed + 1
  /\ from_device' = Capped(from_device, [session |-> client,
                                         data |-> <<NoClient, pushed + 1>>])
  /\ UNCHANGED <<client, age, to_device, pc, socketVars, written>>

-----------------------------------------------------------------------------
(* The poll.                                                                *)

StartPoll ==
  /\ pc = "idle" /\ pc' = "accept"
  /\ UNCHANGED <<bridgeVars, socketVars, countVars>>

\* The bridge lets go of connections; what is on their wires is lost.
LetGo(dropped) ==
  /\ peer' = [c \in Clients |-> IF c \in dropped THEN "gone" ELSE peer[c]]
  /\ wire' = [c \in Clients |-> IF c \in dropped THEN <<>> ELSE wire[c]]

\* mark_disconnected
MarkDisconnected ==
  /\ client' = NoClient /\ age' = 0
  /\ to_device' = <<>> /\ from_device' = <<>>

\* still_within_grace_period
WithinGrace == age < Grace

\* What a rejected attempt leaves of the age if it restarts the grace period.
AgeRestarted == 0

\* What a rejected attempt leaves of the held client's age.
AgeAfterReject == age

\* accept() returned a connection while a client is held and is young.
Reject(c) ==
  /\ client # NoClient /\ WithinGrace
  /\ LetGo({c})
  /\ age' = AgeAfterReject
  /\ UNCHANGED <<client, to_device, from_device>>

\* Queues a replaced client leaves behind if it is not marked disconnected.
QueuesInherited == <<to_device, from_device>>

\* The queues a new client finds: the held one, if any, was marked disconnected.
QueuesOnAccept ==
  IF client = NoClient THEN <<to_device, from_device>> ELSE << <<>>, <<>> >>

\* accept() returned a connection and no client is held, or one old enough.
Hold(c) ==
  /\ client = NoClient \/ ~WithinGrace
  /\ client' = c /\ age' = 0
  /\ to_device' = QueuesOnAccept[1] /\ from_device' = QueuesOnAccept[2]
  /\ LetGo({client})

\* As Hold, but the new connection cannot be made nonblocking: the held client is
\* gone already, the new one is dropped.
HoldFails(c) ==
  /\ client = NoClient \/ ~WithinGrace
  /\ client' = NoClient /\ age' = 0
  /\ to_device' = QueuesOnAccept[1] /\ from_device' = QueuesOnAccept[2]
  /\ LetGo({c, client})

Accept ==
  /\ pc = "accept" /\ backlog # <<>>
  /\ backlog' = Tail(backlog)
  /\ \/ (Reject(Head(backlog)) \/ Hold(Head(backlog))) /\ UNCHANGED pc
     \/ HoldFails(Head(backlog)) /\ pc' = "idle"
  /\ UNCHANGED countVars

AcceptWouldBlock ==
  /\ pc = "accept" /\ backlog = <<>>
  /\ pc' = "receive"
  /\ UNCHANGED <<bridgeVars, socketVars, countVars>>

\* Any other error of accept(), read() or write() ends the poll.
CallFails ==
  /\ \/ pc = "accept"
     \/ pc = "receive" /\ client # NoClient /\ peer[client] = "failed"
     \/ pc = "send" /\ client # NoClient /\ peer[client] = "failed" /\ from_device # <<>>
  /\ pc' = "idle"
  /\ UNCHANGED <<bridgeVars, socketVars, countVars>>

\* read() returned bytes.
ReadChunk ==
  /\ pc = "receive" /\ client # NoClient
  /\ wire[client] # <<>>
  /\ to_device' = Capped(to_device, Head(wire[client]))
  /\ wire' = [wire EXCEPT ![client] = Tail(@)]
  /\ UNCHANGED <<client, age, from_device, pc, backlog, peer, countVars>>

\* read() returned 0, or read() or write() found the connection reset.
ClientGone ==
  /\ client # NoClient
  /\ \/ pc = "receive" /\ wire[client] = <<>> /\ peer[client] \in {"fin", "reset"}
     \/ pc = "send" /\ from_device # <<>> /\ peer[client] = "reset"
  /\ MarkDisconnected
  /\ LetGo({client})
  /\ pc' = IF pc = "receive" THEN "send" ELSE "idle"
  /\ UNCHANGED <<backlog, countVars>>

\* read() would block, or there is no client to read from.
ReceiveDone ==
  /\ pc = "receive"
  /\ client # NoClient => wire[client] = <<>> /\ peer[client] = "open"
  /\ pc' = "send"
  /\ UNCHANGED <<bridgeVars, socketVars, countVars>>

\* write() took bytes.
WriteChunk ==
  /\ pc = "send" /\ client # NoClient
  /\ from_device # <<>> /\ peer[client] \in {"open", "fin"}
  /\ from_device' = Tail(from_device)
  /\ UNCHANGED <<client, age, to_device, pc, backlog, peer, wire, countVars>>

\* write() would block, or there is nothing to send or no client.
SendDone ==
  /\ pc = "send"
  /\ client # NoClient /\ from_device # <<>> => peer[client] \in {"open", "fin"}
  /\ pc' = "idle"
  /\ UNCHANGED <<bridgeVars, socketVars, countVars>>

Poll ==
  \/ StartPoll \/ Accept \/ AcceptWouldBlock \/ CallFails
  \/ ReadChunk \/ ClientGone \/ ReceiveDone \/ WriteChunk \/ SendDone

Peer(c) ==
  \/ ClientConnects(c) \/ Write(c) \/ Finish(c)
  \/ \E how \in {"reset", "failed"} : Break(c, how)

BridgeNext == Poll \/ TakeForDevice \/ PushFromDevice \/ Tick \/ \E c \in Clients : Peer(c)

BridgeSpec == BridgeInit /\ [][BridgeNext]_tcpVars

\* The emulator keeps polling, time passes, accept() does not fail for ever, and
\* clients that are not connected keep trying.
FairBridgeSpec ==
  /\ BridgeSpec
  /\ WF_tcpVars(Poll) /\ SF_tcpVars(Accept) /\ WF_tcpVars(Tick)
  /\ \A c \in Clients : WF_tcpVars(ClientConnects(c))

-----------------------------------------------------------------------------
BridgeTypeOK ==
  /\ client \in Clients \cup {NoClient}
  /\ age \in 0..Grace
  /\ to_device \in Seq(Request) /\ Len(to_device) <= MaxBuffered
  /\ from_device \in Seq(Reply) /\ Len(from_device) <= MaxBuffered
  /\ pc \in {"idle", "accept", "receive", "send"}
  /\ backlog \in Seq(Clients)
  /\ peer \in [Clients -> Peers]
  /\ wire \in [Clients -> Seq(Request)]
  /\ written \in [Clients -> 0..MaxWrites] /\ pushed \in 0..MaxReplies

\* The bridge is a serial port in the sense of CdcSession.
TcpPort == INSTANCE CdcSession WITH
          Capacity <- MaxBuffered,
          Sessions <- Clients, NoSession <- NoClient,
          Payloads <- Data, Bursts <- {<<d>> : d \in Data},
          session <- client, up <- to_device, down <- from_device
BridgeIsPort == TcpPort!Spec

\* A held client that is silent, dead or failing does not wedge the bridge: while
\* others try, it does not stay for ever (accept_clients).
NeverWedged == \A c \in Clients : client = c ~> client # c
=============================================================================
