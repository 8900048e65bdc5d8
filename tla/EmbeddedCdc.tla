---------------------------- MODULE EmbeddedCdc -----------------------------
(***************************************************************************)
(* The USB serial port inside the process                                  *)
(* (src/src/ext_devices/embedded_cdc.rs): threads of the host application   *)
(* and the emulator's thread share a link behind a mutex, with a condition *)
(* variable for readers.                                                   *)
(*                                                                         *)
(* Every method runs under the mutex and is one step, except read_for_host, *)
(* which gives the mutex up while it waits.  The nine stages of the        *)
(* protocol are three: the link only asks whether a stage is Detached or   *)
(* ProtocolReady.                                                          *)
(***************************************************************************)
EXTENDS Integers, Sequences

CONSTANTS
  Readers,      (* host threads that read                            *)
  Capacity,     (* max_buffered_bytes                                *)
  MaxBurst,     (* bound: bytes of one write                         *)
  MaxBytes,     (* bound: bytes written in each direction            *)
  MaxSessions   (* bound: successful calls of connect                *)

ASSUME LinkAssumption ==
  /\ Capacity \in Nat \ {0}
  /\ MaxBurst \in Nat \ {0}
  /\ MaxBytes \in Nat
  /\ MaxSessions \in Nat

VARIABLES
  stage,
  host_connected,
  host_to_device,   \* bytes, each with the session it was written in
  device_to_host,
  reader,           \* where each host thread is in read_for_host
  session,          \* sessions so far
  hostSent, deviceSent

linkVars == <<stage, host_connected, host_to_device, device_to_host>>
tallyVars == <<session, hostSent, deviceSent>>
vars == <<linkVars, reader, tallyVars>>

Stages == {"Detached", "NotReady", "ProtocolReady"}
Byte == [session : 1..MaxSessions, data : 1..MaxBytes]

\* Bytes numbered on from what was written before.
Bytes(sent, n) == [i \in 1..n |-> [session |-> session, data |-> sent + i]]

AtMost(n, limit) == IF n < limit THEN n ELSE limit
AllBut(queue, n) == SubSeq(queue, n + 1, Len(queue))

\* push_capped that makes room by dropping everything queued.
PushCappedFlushing(queue, bytes) ==
  (IF Len(queue) + Len(bytes) > Capacity THEN <<>> ELSE queue)
    \o AllBut(bytes, IF Len(bytes) >= Capacity THEN Len(bytes) - Capacity ELSE 0)

\* push_capped
PushCapped(queue, bytes) ==
  LET excess == Len(queue) + Len(bytes) - Capacity
      overflow == IF excess < 0 THEN 0 ELSE excess
  IN AllBut(queue, AtMost(overflow, Len(queue)))
       \o AllBut(bytes, IF Len(bytes) >= Capacity THEN Len(bytes) - Capacity ELSE 0)

Init ==
  /\ stage = "Detached"
  /\ host_connected = FALSE
  /\ host_to_device = <<>> /\ device_to_host = <<>>
  /\ reader = [t \in Readers |-> "idle"]
  /\ session = 0 /\ hostSent = 0 /\ deviceSent = 0

\* Readers after notify_one.
OneNotified ==
  LET waiting == {t \in Readers : reader[t] = "waiting"}
  IN IF waiting = {} THEN reader
     ELSE [reader EXCEPT ![CHOOSE t \in waiting : TRUE] = "notified"]

\* Readers after notify_all.
Notified == [t \in Readers |-> IF reader[t] = "waiting" THEN "notified" ELSE reader[t]]

Clear == host_to_device' = <<>> /\ device_to_host' = <<>>

-----------------------------------------------------------------------------
(* The host application's threads.                                          *)

Connect ==
  /\ stage = "ProtocolReady" /\ session < MaxSessions
  /\ host_connected' = TRUE
  /\ session' = session + 1
  /\ Clear
  /\ UNCHANGED <<stage, reader, hostSent, deviceSent>>

Disconnect ==
  /\ host_connected' = FALSE
  /\ Clear
  /\ reader' = Notified
  /\ UNCHANGED <<stage, tallyVars>>

WriteFromHost(n) ==
  /\ host_connected /\ stage = "ProtocolReady"
  /\ hostSent + n <= MaxBytes
  /\ hostSent' = hostSent + n
  /\ host_to_device' = PushCapped(host_to_device, Bytes(hostSent, n))
  /\ UNCHANGED <<stage, host_connected, device_to_host, reader, session, deviceSent>>

\* The condition of read_for_host's loop.
NothingToRead ==
  device_to_host = <<>> /\ host_connected /\ stage = "ProtocolReady"

\* The rest of read_for_host: up to a number of bytes, and the call returns.
Return(t, target) ==
  /\ reader' = [reader EXCEPT ![t] = "idle"]
  /\ device_to_host' = AllBut(device_to_host, AtMost(target, Len(device_to_host)))
  /\ UNCHANGED <<stage, host_connected, host_to_device, tallyVars>>

\* A call enters the loop, or a thread that was notified has the mutex again.
ReadForHost(t, target) ==
  /\ reader[t] \in {"idle", "notified"}
  /\ IF NothingToRead
     THEN reader' = [reader EXCEPT ![t] = "waiting"] /\ UNCHANGED <<linkVars, tallyVars>>
     ELSE Return(t, target)

\* The deadline passes; also for a thread that was notified and did not yet run.
ReadTimesOut(t, target) == reader[t] # "idle" /\ Return(t, target)

\* wait_timeout may wake a thread for no reason.
SpuriousWakeup(t) ==
  /\ reader[t] = "waiting"
  /\ reader' = [reader EXCEPT ![t] = "notified"]
  /\ UNCHANGED <<linkVars, tallyVars>>

-----------------------------------------------------------------------------
(* The emulator's thread.                                                   *)

\* Called when the bridge is built; the one before it was dropped.
AttachDevice ==
  /\ stage = "Detached"
  /\ stage' = "NotReady"
  /\ reader' = Notified
  /\ UNCHANGED <<host_connected, host_to_device, device_to_host, tallyVars>>

\* Which stages set_protocol_stage ends a session for.
EndsSession(s) == s # "ProtocolReady"

SetProtocolStage(s) ==
  /\ stage' = IF stage = "Detached" THEN "Detached" ELSE s
  /\ IF EndsSession(stage')
     THEN host_connected' = FALSE /\ Clear
     ELSE UNCHANGED <<host_connected, host_to_device, device_to_host>>
  /\ reader' = Notified
  /\ UNCHANGED tallyVars

DetachDevice ==
  /\ stage # "Detached"
  /\ stage' = "Detached" /\ host_connected' = FALSE
  /\ Clear
  /\ reader' = Notified
  /\ UNCHANGED tallyVars

\* What the device writes while no host is connected is dropped.
WriteFromDevice(n) ==
  /\ stage # "Detached" /\ host_connected
  /\ deviceSent + n <= MaxBytes
  /\ deviceSent' = deviceSent + n
  /\ device_to_host' = PushCapped(device_to_host, Bytes(deviceSent, n))
  /\ reader' = Notified
  /\ UNCHANGED <<stage, host_connected, host_to_device, session, hostSent>>

ReadForDevice(maximum) ==
  /\ stage # "Detached" /\ host_to_device # <<>>
  /\ host_to_device' = AllBut(host_to_device, AtMost(maximum, Len(host_to_device)))
  /\ UNCHANGED <<stage, host_connected, device_to_host, reader, tallyVars>>

Host ==
  \/ Connect \/ Disconnect
  \/ \E n \in 1..MaxBurst : WriteFromHost(n)
  \/ \E t \in Readers : SpuriousWakeup(t)
  \/ \E t \in Readers, n \in 1..MaxBurst : ReadForHost(t, n) \/ ReadTimesOut(t, n)

Device ==
  \/ AttachDevice \/ DetachDevice
  \/ \E s \in {"NotReady", "ProtocolReady"} : SetProtocolStage(s)
  \/ \E n \in 1..MaxBurst : WriteFromDevice(n) \/ ReadForDevice(n)

Next == Host \/ Device

Spec == Init /\ [][Next]_vars

-----------------------------------------------------------------------------
Queue(bytes) == bytes \in Seq(Byte) /\ Len(bytes) <= Capacity

TypeOK ==
  /\ stage \in Stages
  /\ host_connected \in BOOLEAN
  /\ Queue(host_to_device) /\ Queue(device_to_host)
  /\ reader \in [Readers -> {"idle", "waiting", "notified"}]
  /\ session \in 0..MaxSessions
  /\ hostSent \in 0..MaxBytes /\ deviceSent \in 0..MaxBytes

\* A host is connected only while the protocol is ready, so that the checks of
\* one imply the other (is_connected, write_from_device).
ConnectedIsReady == host_connected => stage = "ProtocolReady"

\* A thread that waits has something to wait for: whatever ended the wait's reason
\* has notified it (read_for_host, readable).
NoLostWakeup == \A t \in Readers : reader[t] = "waiting" => NothingToRead

\* What one write may carry.
Bursts == UNION {{[i \in 1..n |-> first + i] : n \in 1..AtMost(MaxBurst, MaxBytes - first)} :
                 first \in 0..MaxBytes-1}

\* The link is a serial port in the sense of CdcSession, one session for each
\* successful connect.
Port == INSTANCE CdcSession WITH
          Sessions <- 1..MaxSessions, NoSession <- 0,
          Payloads <- 1..MaxBytes,
          Bursts <- Bursts,
          session <- IF host_connected THEN session ELSE 0,
          up <- host_to_device, down <- device_to_host
ImplementsPort == Port!Spec

\* No byte is queued for a session other than the one it was written in (connect,
\* disconnect, set_protocol_stage, detach_device).
Isolated == Port!Isolated
=============================================================================
