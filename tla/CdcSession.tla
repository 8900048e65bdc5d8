----------------------------- MODULE CdcSession -----------------------------
(***************************************************************************)
(* What the emulator's USB serial port promises, whatever carries it: a    *)
(* channel with at most one session at a time and a bounded queue in each  *)
(* direction.  A queue that is full loses its oldest entry.  A session that *)
(* ends takes what is queued with it.  UsbCdcTcp (sockets) and EmbeddedCdc *)
(* (a link inside the process) implement it.                               *)
(*                                                                         *)
(* What the host sends is marked with the session that sent it, what the   *)
(* device sends with the session it was sent in.                           *)
(***************************************************************************)
EXTENDS Integers, Sequences

CONSTANTS
  Sessions,   (* the sessions there may be, one after the other   *)
  NoSession,
  Capacity,   (* entries a queue holds                            *)
  Payloads,   (* what an entry carries besides its session        *)
  Bursts      (* the sequences of payloads that are sent at once  *)

\* What is asked of the constants.
SessionAssumption ==
  /\ NoSession \notin Sessions
  /\ Capacity \in Nat \ {0}
  /\ Bursts \subseteq Seq(Payloads)

VARIABLES
  session,  \* the session under way, or NoSession
  up,       \* sent by the host, not yet taken by the device
  down      \* sent by the device, not yet received by the host

vars == <<session, up, down>>

Entry == [session : Sessions \cup {NoSession}, data : Payloads]

\* A queue after a burst was added, at the cost of the oldest entries.
Newest(queue) ==
  IF Len(queue) > Capacity
  THEN SubSeq(queue, Len(queue) - Capacity + 1, Len(queue)) ELSE queue
Marked(burst) == [i \in 1..Len(burst) |-> [session |-> session, data |-> burst[i]]]
Sent(queue, burst) == Newest(queue \o Marked(burst))

\* What is left when some entries, oldest first, were taken.
Rest(queue, n) == SubSeq(queue, n + 1, Len(queue))

Init == session = NoSession /\ up = <<>> /\ down = <<>>

\* A session begins.  It ends the one before it, if any; what the device sent
\* while there was none is kept for it.
Open(s) ==
  /\ session' = s
  /\ up' = <<>>
  /\ down' = IF session = NoSession THEN down ELSE <<>>

Close ==
  /\ session' = NoSession
  /\ up' = <<>>
  /\ down' = <<>>

HostSends(burst) ==
  /\ session # NoSession
  /\ up' = Sent(up, burst)
  /\ UNCHANGED <<session, down>>

DeviceTakes(n) ==
  /\ up' = Rest(up, n)
  /\ UNCHANGED <<session, down>>

DeviceSends(burst) ==
  /\ down' = Sent(down, burst)
  /\ UNCHANGED <<session, up>>

HostReceives(n) ==
  /\ session # NoSession
  /\ down' = Rest(down, n)
  /\ UNCHANGED <<session, up>>

Next ==
  \/ \E s \in Sessions : Open(s)
  \/ Close
  \/ \E burst \in Bursts : HostSends(burst) \/ DeviceSends(burst)
  \/ \E n \in 1..Len(up) : DeviceTakes(n)
  \/ \E n \in 1..Len(down) : HostReceives(n)

Spec == Init /\ [][Next]_vars

-----------------------------------------------------------------------------
TypeOK ==
  /\ session \in Sessions \cup {NoSession}
  /\ up \in Seq(Entry) /\ Len(up) <= Capacity
  /\ down \in Seq(Entry) /\ Len(down) <= Capacity

\* Nothing crosses from one session to another: what the device may take was sent
\* by the session under way, and what the host may receive was sent in it or
\* while there was none.
Isolated ==
  /\ \A i \in 1..Len(up) : up[i].session = session
  /\ \A i \in 1..Len(down) : down[i].session \in {session, NoSession}
=============================================================================
