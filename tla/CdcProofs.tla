------------------------------ MODULE CdcProofs ------------------------------
(***************************************************************************)
(* The two ways out of the emulated serial port, the link inside the       *)
(* process and the bridge to TCP, for any threads, clients, capacity,      *)
(* grace period and bounds: types, no lost wakeup of the link, and that    *)
(* both implement the abstract port of CdcSession, whose isolation they    *)
(* inherit.                                                                *)
(*                                                                         *)
(* The invariant behind both refinements is that a port without a host has *)
(* empty queues towards the firmware, so that a session can only begin     *)
(* with none of what came before.  The link needs besides that a host is   *)
(* connected only while the protocol is ready; the bridge, whose poll is   *)
(* many system calls between which clients come, go and fail, that a wire  *)
(* carries its own client's bytes.                                         *)
(*                                                                         *)
(* The module extends the link and the bridge, whose names differ.         *)
(***************************************************************************)
EXTENDS EmbeddedCdc, UsbCdcTcp, SequenceTheorems, TLAPS

USE LinkAssumption

-----------------------------------------------------------------------------
(* The link: queues.                                                        *)

LEMMA AtMostProperties ==
  ASSUME NEW n \in Nat, NEW limit \in Nat
  PROVE  AtMost(n, limit) \in 0..limit /\ (n # 0 /\ limit # 0 => AtMost(n, limit) # 0)
  BY DEF AtMost

\* Dropping entries from the front of a queue.
LEMMA AllButProperties ==
  ASSUME NEW S, NEW queue \in Seq(S), NEW n \in 0..Len(queue)
  PROVE  /\ AllBut(queue, n) \in Seq(S)
         /\ Len(AllBut(queue, n)) = Len(queue) - n
         /\ \A i \in 1..Len(queue) - n : AllBut(queue, n)[i] = queue[n + i]
         /\ n = 0 => AllBut(queue, n) = queue
         /\ n = Len(queue) => AllBut(queue, n) = <<>>
<1>1. Len(queue) \in Nat /\ \A i \in n + 1..Len(queue) : queue[i] \in S
  BY LenProperties, ElementOfSeq
<1>2. /\ AllBut(queue, n) \in Seq(S)
      /\ Len(AllBut(queue, n)) = Len(queue) - n
      /\ \A i \in 1..Len(queue) - n : AllBut(queue, n)[i] = queue[n + 1 + i - 1]
  BY <1>1, SubSeqProperties DEF AllBut
<1>3. \A i \in 1..Len(queue) - n : n + 1 + i - 1 = n + i
  BY <1>1
<1>4. n = 0 => AllBut(queue, n) = queue
  BY SubSeqFull DEF AllBut
<1>5. n = Len(queue) => AllBut(queue, n) = <<>>
  BY <1>1, SubSeqEmpty DEF AllBut
<1> QED BY <1>2, <1>3, <1>4, <1>5

\* push_capped keeps the newest entries of the queue and the write together.
LEMMA PushCappedIsNewest ==
  ASSUME NEW S, NEW queue \in Seq(S), NEW bytes \in Seq(S)
  PROVE  PushCapped(queue, bytes) = Port!Newest(queue \o bytes)
<1> DEFINE q == Len(queue)
           b == Len(bytes)
           excess == q + b - Capacity
<1>1. q \in Nat /\ b \in Nat /\ excess \in Int
  BY LenProperties
<1>2. /\ queue \o bytes \in Seq(S)
      /\ Len(queue \o bytes) = q + b
      /\ \A i \in 1..q + b : (queue \o bytes)[i] = IF i <= q THEN queue[i] ELSE bytes[i - q]
  BY ConcatProperties
<1>3. CASE excess <= 0
  <2>1. AtMost(IF excess < 0 THEN 0 ELSE excess, q) = 0
    BY <1>1, <1>3 DEF AtMost
  <2>2. (IF b >= Capacity THEN b - Capacity ELSE 0) = 0
    BY <1>1, <1>3
  <2>3. PushCapped(queue, bytes) = AllBut(queue, 0) \o AllBut(bytes, 0)
    BY <2>1, <2>2 DEF PushCapped
  <2>4. AllBut(queue, 0) = queue /\ AllBut(bytes, 0) = bytes
    BY <1>1, AllButProperties
  <2>5. Port!Newest(queue \o bytes) = queue \o bytes
    BY <1>1, <1>2, <1>3 DEF Port!Newest
  <2> QED BY <2>3, <2>4, <2>5
<1>4. CASE excess > 0 /\ b >= Capacity
  <2>1. AtMost(IF excess < 0 THEN 0 ELSE excess, q) = q
    BY <1>1, <1>4 DEF AtMost
  <2>2. PushCapped(queue, bytes) = AllBut(queue, q) \o AllBut(bytes, b - Capacity)
    BY <2>1, <1>4 DEF PushCapped
  <2>3. AllBut(queue, q) = <<>> /\ AllBut(bytes, b - Capacity) \in Seq(S)
    BY <1>1, <1>4, AllButProperties
  <2>4. PushCapped(queue, bytes) = SubSeq(bytes, b - Capacity + 1, b)
    BY <2>2, <2>3, ConcatEmptySeq DEF AllBut
  <2>5. Port!Newest(queue \o bytes) = SubSeq(queue \o bytes, excess + 1, q + b)
    BY SMTT(30), <1>1, <1>2, <1>4 DEF Port!Newest
  <2>6. /\ excess + 1 \in q + 1..q + b /\ q + b \in q + 1..q + b
        /\ excess + 1 - q = b - Capacity + 1 /\ q + b - q = b
    BY <1>1, <1>4
  <2>7. SubSeq(queue \o bytes, excess + 1, q + b) = SubSeq(bytes, b - Capacity + 1, b)
    BY <2>6, <1>1, SubSeqOfConcat2
  <2> QED BY <2>4, <2>5, <2>7
<1>5. CASE excess > 0 /\ b < Capacity
  <2> DEFINE kept == AllBut(queue, excess)
             newest == SubSeq(queue \o bytes, excess + 1, q + b)
  <2>1. excess \in 0..q /\ AtMost(IF excess < 0 THEN 0 ELSE excess, q) = excess
    BY <1>1, <1>5 DEF AtMost
  <2>2. PushCapped(queue, bytes) = kept \o AllBut(bytes, 0)
    BY <2>1, <1>1, <1>5 DEF PushCapped
  <2>3. /\ kept \in Seq(S) /\ Len(kept) = q - excess
        /\ \A i \in 1..q - excess : kept[i] = queue[excess + i]
        /\ AllBut(bytes, 0) = bytes
    BY <2>1, <1>1, AllButProperties
  <2>4. Port!Newest(queue \o bytes) = newest
    <3>1. /\ Len(queue \o bytes) > Capacity
          /\ Len(queue \o bytes) - Capacity + 1 = excess + 1
      BY <1>1, <1>2, <1>5
    <3>2. newest = SubSeq(queue \o bytes, excess + 1, Len(queue \o bytes))
      BY <1>2
    <3> HIDE DEF excess, newest
    <3> QED BY <3>1, <3>2 DEF Port!Newest
  <2>5. /\ newest \in Seq(S) /\ Len(newest) = Capacity
        /\ \A i \in 1..Capacity : newest[i] = (queue \o bytes)[excess + i]
    <3> DEFINE all == queue \o bytes
    <3>1. /\ all \in Seq(S) /\ excess \in 0..Len(all)
          /\ Len(all) = q + b /\ Len(all) - excess = Capacity
      BY <1>1, <1>2, <1>5
    <3>2. newest = AllBut(all, excess)
      BY <3>1 DEF AllBut
    <3> HIDE DEF all, q, b, excess, newest
    <3>3. /\ newest \in Seq(S) /\ Len(newest) = Capacity
          /\ \A i \in 1..Capacity : newest[i] = all[excess + i]
      BY <3>1, <3>2, AllButProperties
    <3> QED BY <3>3 DEF all
  <2> HIDE DEF kept, newest
  <2>6. /\ kept \o bytes \in Seq(S) /\ Len(kept \o bytes) = q - excess + b
        /\ \A i \in 1..q - excess + b :
             (kept \o bytes)[i] = IF i <= q - excess THEN kept[i] ELSE bytes[i - (q - excess)]
    BY <2>3, ConcatProperties
  <2>7. q - excess + b = Capacity
    BY <1>1
  <2>8. ASSUME NEW i \in 1..Capacity PROVE (kept \o bytes)[i] = newest[i]
    <3>1. /\ excess + i \in 1..q + b
          /\ i <= q - excess <=> excess + i <= q
          /\ i - (q - excess) = excess + i - q
      BY <1>1, <1>5
    <3>2. i <= q - excess => kept[i] = queue[excess + i]
      BY <2>3, <1>1
    <3>3. newest[i] = IF excess + i <= q THEN queue[excess + i] ELSE bytes[excess + i - q]
      BY <3>1, <1>2, <2>5
    <3>4. (kept \o bytes)[i] = IF i <= q - excess THEN kept[i] ELSE bytes[i - (q - excess)]
      BY <2>6, <2>7
    <3> HIDE DEF q, b, excess
    <3> QED BY <3>1, <3>2, <3>3, <3>4
  <2> QED BY <2>2, <2>3, <2>4, <2>5, <2>6, <2>7, <2>8, SeqEqual
<1> QED BY <1>1, <1>3, <1>4, <1>5

\* The bytes of a write, as the link and as the port mark them.
LEMMA BytesProperties ==
  ASSUME NEW sent \in Nat, NEW n \in Nat, sent + n <= MaxBytes,
         session \in 1..MaxSessions
  PROVE  Bytes(sent, n) \in Seq(Byte) /\ Len(Bytes(sent, n)) = n
<1>1. \A i \in 1..n : [session |-> session, data |-> sent + i] \in Byte
  BY DEF Byte
<1> QED BY <1>1, IsASeq DEF Bytes

\* A write keeps a queue typed and within its capacity.
LEMMA PushCappedTyped ==
  ASSUME NEW S, NEW queue \in Seq(S), NEW bytes \in Seq(S)
  PROVE  PushCapped(queue, bytes) \in Seq(S) /\ Len(PushCapped(queue, bytes)) <= Capacity
<1> DEFINE all == queue \o bytes
<1>1. all \in Seq(S) /\ Len(all) \in Nat
  BY ConcatProperties, LenProperties
<1>2. PushCapped(queue, bytes) = Port!Newest(all)
  BY PushCappedIsNewest
<1> HIDE DEF all
<1>3. CASE Len(all) <= Capacity
  BY <1>1, <1>2, <1>3 DEF Port!Newest
<1>4. CASE Len(all) > Capacity
  <2>1. Len(all) - Capacity \in 0..Len(all)
    BY <1>1, <1>4
  <2>2. Port!Newest(all) = AllBut(all, Len(all) - Capacity)
    BY <1>4 DEF Port!Newest, AllBut
  <2>3. Len(all) - (Len(all) - Capacity) = Capacity
    BY <1>1
  <2> QED BY <1>1, <1>2, <2>1, <2>2, <2>3, AllButProperties
<1> QED BY <1>1, <1>3, <1>4

\* What a read leaves.
LEMMA TakenProperties ==
  ASSUME NEW S, NEW queue \in Seq(S), NEW n \in Nat \ {0}
  PROVE  /\ AllBut(queue, AtMost(n, Len(queue))) \in Seq(S)
         /\ Len(AllBut(queue, AtMost(n, Len(queue)))) <= Len(queue)
         /\ queue = <<>> => AllBut(queue, AtMost(n, Len(queue))) = queue
         /\ queue # <<>> => AtMost(n, Len(queue)) \in 1..Len(queue)
<1>1. Len(queue) \in Nat /\ (queue = <<>> <=> Len(queue) = 0)
  BY LenProperties, EmptySeq
<1>2. /\ AtMost(n, Len(queue)) \in 0..Len(queue)
      /\ Len(queue) # 0 => AtMost(n, Len(queue)) # 0
  BY <1>1, AtMostProperties
<1> QED BY <1>1, <1>2, AllButProperties

-----------------------------------------------------------------------------
(* The invariants.                                                          *)

\* A link without a host holds nothing.
QuietWhenApart == ~host_connected => host_to_device = <<>> /\ device_to_host = <<>>

\* A host that is connected connected in some session.
Numbered == host_connected => session \in 1..MaxSessions

LinkInv == TypeOK /\ QuietWhenApart /\ Numbered

LEMMA LinkInvInit == Init => LinkInv
<1>1. Queue(<<>>)
  BY EmptySeq DEF Queue
<1> SUFFICES ASSUME Init PROVE LinkInv
  OBVIOUS
<1>2. Queue(host_to_device) /\ Queue(device_to_host)
  BY <1>1 DEF Init
<1>3. reader \in [Readers -> {"idle", "waiting", "notified"}]
  BY DEF Init
<1>4. /\ stage \in Stages /\ host_connected = FALSE /\ session \in 0..MaxSessions
      /\ hostSent \in 0..MaxBytes /\ deviceSent \in 0..MaxBytes
  BY DEF Init, Stages
<1>5. QuietWhenApart
  BY DEF Init, QuietWhenApart
<1> QED BY <1>2, <1>3, <1>4, <1>5 DEF LinkInv, TypeOK, Numbered

LEMMA LinkInvNext == LinkInv /\ [Next]_vars => LinkInv'
<1> SUFFICES ASSUME LinkInv, [Next]_vars PROVE LinkInv'
  OBVIOUS
<1> USE DEF LinkInv, TypeOK, QuietWhenApart, Numbered, Stages
<1> Queue(<<>>)
  BY EmptySeq DEF Queue
<1>0. Notified \in [Readers -> {"idle", "waiting", "notified"}]
  BY DEF Notified
<1>1. CASE Connect
  BY <1>1 DEF Connect, Clear
<1>2. CASE Disconnect
  BY <1>0, <1>2 DEF Disconnect, Clear, tallyVars
<1>3. ASSUME NEW n \in 1..MaxBurst, WriteFromHost(n) PROVE LinkInv'
  <2>1. hostSent + n \in 0..MaxBytes /\ session \in 1..MaxSessions
    BY <1>3 DEF WriteFromHost
  <2>2. Bytes(hostSent, n) \in Seq(Byte)
    BY <1>3, <2>1, BytesProperties DEF WriteFromHost
  <2>3. Queue(host_to_device')
    BY <1>3, <2>2, PushCappedTyped DEF WriteFromHost, Queue
  <2> QED BY <1>3, <2>1, <2>3 DEF WriteFromHost
<1>4. ASSUME NEW t \in Readers, NEW n \in 1..MaxBurst, Return(t, n) PROVE LinkInv'
  <2>1. /\ device_to_host' \in Seq(Byte) /\ Len(device_to_host') <= Len(device_to_host)
        /\ device_to_host = <<>> => device_to_host' = <<>>
    BY <1>4, TakenProperties DEF Return, Queue
  <2>2. Queue(device_to_host')
    BY <2>1, LenProperties DEF Queue
  <2> QED BY <1>4, <2>1, <2>2 DEF Return, tallyVars
<1>5. ASSUME NEW t \in Readers, NEW n \in 1..MaxBurst, ReadForHost(t, n) PROVE LinkInv'
  <2>1. CASE NothingToRead
    BY <1>5, <2>1 DEF ReadForHost, linkVars, tallyVars
  <2>2. CASE ~NothingToRead
    BY <1>4, <1>5, <2>2 DEF ReadForHost
  <2> QED BY <2>1, <2>2
<1>6. ASSUME NEW t \in Readers, NEW n \in 1..MaxBurst, ReadTimesOut(t, n) PROVE LinkInv'
  BY <1>4, <1>6 DEF ReadTimesOut
<1>7. ASSUME NEW t \in Readers, SpuriousWakeup(t) PROVE LinkInv'
  BY <1>7 DEF SpuriousWakeup, linkVars, tallyVars
<1>8. CASE AttachDevice
  BY <1>0, <1>8 DEF AttachDevice, tallyVars
<1>9. CASE DetachDevice
  BY <1>0, <1>9 DEF DetachDevice, Clear, tallyVars
<1>10. ASSUME NEW s \in {"NotReady", "ProtocolReady"}, SetProtocolStage(s) PROVE LinkInv'
  BY <1>0, <1>10 DEF SetProtocolStage, EndsSession, Clear, tallyVars
<1>11. ASSUME NEW n \in 1..MaxBurst, WriteFromDevice(n) PROVE LinkInv'
  <2>1. deviceSent + n \in 0..MaxBytes /\ session \in 1..MaxSessions
    BY <1>11 DEF WriteFromDevice
  <2>2. Bytes(deviceSent, n) \in Seq(Byte)
    BY <1>11, <2>1, BytesProperties DEF WriteFromDevice
  <2>3. Queue(device_to_host')
    BY <1>11, <2>2, PushCappedTyped DEF WriteFromDevice, Queue
  <2> QED BY <1>0, <1>11, <2>1, <2>3 DEF WriteFromDevice
<1>12. ASSUME NEW n \in 1..MaxBurst, ReadForDevice(n) PROVE LinkInv'
  <2>1. /\ host_to_device' \in Seq(Byte) /\ Len(host_to_device') <= Len(host_to_device)
        /\ host_to_device = <<>> => host_to_device' = <<>>
    BY <1>12, TakenProperties DEF ReadForDevice, Queue
  <2>2. Queue(host_to_device')
    BY <2>1, LenProperties DEF Queue
  <2> QED BY <1>12, <2>1, <2>2 DEF ReadForDevice, tallyVars
<1>13. CASE UNCHANGED vars
  BY <1>13 DEF vars, linkVars, tallyVars
<1> QED
  BY <1>1, <1>2, <1>3, <1>5, <1>6, <1>7, <1>8, <1>9, <1>10, <1>11, <1>12, <1>13
  DEF Next, Host, Device

LEMMA LinkInvariant == Spec => []LinkInv
  BY LinkInvInit, LinkInvNext, PTL DEF Spec

\* The type invariant of the link; no queue outgrows max_buffered_bytes, however
\* long a write is (push_capped).
THEOREM LinkTyped == Spec => []TypeOK
<1>1. LinkInv => TypeOK
  BY DEF LinkInv
<1> QED BY <1>1, LinkInvariant, PTL

\* A host is connected only while the protocol is ready (set_protocol_stage,
\* detach_device).
THEOREM ConnectedWhenReady == Spec => []ConnectedIsReady
<1>1. Init => ConnectedIsReady
  BY DEF Init, ConnectedIsReady
<1>2. ConnectedIsReady /\ [Next]_vars => ConnectedIsReady'
  <2> SUFFICES ASSUME ConnectedIsReady, [Next]_vars PROVE ConnectedIsReady'
    OBVIOUS
  <2> QED
    BY DEF ConnectedIsReady, Next, Host, Device, vars, linkVars, tallyVars,
           Connect, Disconnect, WriteFromHost, ReadForHost, Return, ReadTimesOut,
           SpuriousWakeup, AttachDevice, DetachDevice, SetProtocolStage, EndsSession,
           WriteFromDevice, ReadForDevice
<1> QED BY <1>1, <1>2, PTL DEF Spec

LEMMA NoLostWakeupNext == LinkInv /\ NoLostWakeup /\ [Next]_vars => NoLostWakeup'
<1> SUFFICES ASSUME LinkInv, NoLostWakeup, [Next]_vars,
                    NEW t \in Readers, (reader[t] = "waiting")'
             PROVE  NothingToRead'
  BY DEF NoLostWakeup, NothingToRead
<1> USE DEF NothingToRead
<1>0. reader \in [Readers -> {"idle", "waiting", "notified"}] /\ device_to_host \in Seq(Byte)
  BY DEF LinkInv, TypeOK, Queue
<1>1. ASSUME reader[t] = "waiting", device_to_host' = device_to_host,
             UNCHANGED <<stage, host_connected>>
      PROVE  NothingToRead'
  BY <1>1 DEF NoLostWakeup
<1>2. reader' # Notified
  BY <1>0 DEF Notified
<1>3. CASE Connect
  BY <1>3 DEF Connect, Clear, NoLostWakeup
<1>4. ASSUME NEW n \in 1..MaxBurst, WriteFromHost(n) PROVE NothingToRead'
  BY <1>1, <1>4 DEF WriteFromHost
<1>5. ASSUME NEW r \in Readers, NEW n \in 1..MaxBurst, Return(r, n) PROVE NothingToRead'
  <2>1. r # t /\ reader[t] = "waiting"
    BY <1>0, <1>5 DEF Return
  <2>2. device_to_host = <<>>
    BY <2>1 DEF NoLostWakeup
  <2>3. device_to_host' = device_to_host
    <3>1. n \in Nat \ {0}
      OBVIOUS
    <3> DEFINE rest == AllBut(device_to_host, AtMost(n, Len(device_to_host)))
    <3>2. device_to_host = <<>> => rest = device_to_host
      BY <3>1, <1>0, TakenProperties
    <3> QED BY <3>2, <2>2, <1>5 DEF Return
  <2> QED BY <1>1, <1>5, <2>1, <2>3 DEF Return
<1>6. ASSUME NEW r \in Readers, NEW n \in 1..MaxBurst, ReadForHost(r, n) PROVE NothingToRead'
  <2>1. CASE NothingToRead
    BY <1>6, <2>1 DEF ReadForHost, linkVars
  <2>2. CASE ~NothingToRead
    BY <1>5, <1>6, <2>2 DEF ReadForHost
  <2> QED BY <2>1, <2>2
<1>7. ASSUME NEW r \in Readers, NEW n \in 1..MaxBurst, ReadTimesOut(r, n) PROVE NothingToRead'
  BY <1>5, <1>7 DEF ReadTimesOut
<1>8. ASSUME NEW r \in Readers, SpuriousWakeup(r) PROVE NothingToRead'
  <2>1. reader[t] = "waiting"
    BY <1>0, <1>8 DEF SpuriousWakeup
  <2> QED BY <1>1, <1>8, <2>1 DEF SpuriousWakeup, linkVars
<1>9. ASSUME NEW n \in 1..MaxBurst, ReadForDevice(n) PROVE NothingToRead'
  BY <1>1, <1>9 DEF ReadForDevice
<1>10. CASE UNCHANGED vars
  BY <1>1, <1>10 DEF vars, linkVars
<1>11. ~Disconnect /\ ~AttachDevice /\ ~DetachDevice
  BY <1>2 DEF Disconnect, AttachDevice, DetachDevice
<1>12. /\ \A s \in {"NotReady", "ProtocolReady"} : ~SetProtocolStage(s)
       /\ \A n \in 1..MaxBurst : ~WriteFromDevice(n)
  BY <1>2 DEF SetProtocolStage, WriteFromDevice
<1> QED
  BY <1>3, <1>4, <1>6, <1>7, <1>8, <1>9, <1>10, <1>11, <1>12 DEF Next, Host, Device

\* No thread waits for something that has happened already (read_for_host).
THEOREM NoWakeupLost == Spec => []NoLostWakeup
<1>1. Init => NoLostWakeup
  BY DEF Init, NoLostWakeup
<1> QED BY <1>1, LinkInvariant, NoLostWakeupNext, PTL DEF Spec

-----------------------------------------------------------------------------
(* The link implements the port.                                            *)

\* A write of the link is a send of the port.
LEMMA WriteIsSend ==
  ASSUME NEW queue \in Seq(Byte), NEW sent \in 0..MaxBytes, NEW n \in 1..MaxBurst,
         sent + n <= MaxBytes, host_connected, session \in 1..MaxSessions
  PROVE  \E burst \in Bursts :
           PushCapped(queue, Bytes(sent, n)) = Port!Sent(queue, burst)
<1> DEFINE burst == [i \in 1..n |-> sent + i]
<1>1. burst \in Bursts
  <2>1. sent \in 0..MaxBytes - 1 /\ n \in 1..AtMost(MaxBurst, MaxBytes - sent)
    BY DEF AtMost
  <2> QED BY <2>1 DEF Bursts
<1>2. Len(burst) = n
  OBVIOUS
<1>3. Port!Marked(burst) = Bytes(sent, n)
  <2> DEFINE marked == [i \in 1..Len(burst) |-> [session |-> session, data |-> burst[i]]]
  <2>1. Port!Marked(burst) = marked
    BY DEF Port!Marked
  <2>2. \A i \in 1..n : burst[i] = sent + i
    OBVIOUS
  <2> HIDE DEF burst
  <2>3. marked = [i \in 1..n |-> [session |-> session, data |-> sent + i]]
    BY <1>2, <2>2
  <2> QED BY <2>1, <2>3 DEF Bytes
<1>4. Bytes(sent, n) \in Seq(Byte)
  BY BytesProperties
<1> HIDE DEF burst
<1>5. PushCapped(queue, Bytes(sent, n)) = Port!Sent(queue, burst)
  BY <1>3, <1>4, PushCappedIsNewest DEF Port!Sent
<1> QED BY <1>1, <1>5

LEMMA LinkStep == LinkInv /\ [Next]_vars => [Port!Next]_(Port!vars)
<1> SUFFICES ASSUME LinkInv, [Next]_vars PROVE [Port!Next]_(Port!vars)
  OBVIOUS
<1>0. /\ host_to_device \in Seq(Byte) /\ device_to_host \in Seq(Byte)
      /\ host_connected \in BOOLEAN /\ session \in 0..MaxSessions
      /\ hostSent \in 0..MaxBytes /\ deviceSent \in 0..MaxBytes
      /\ host_connected => session \in 1..MaxSessions
      /\ ~host_connected => host_to_device = <<>> /\ device_to_host = <<>>
  BY DEF LinkInv, TypeOK, Queue, QuietWhenApart, Numbered
<1>closed. ASSUME host_connected' = FALSE, Clear PROVE Port!Next
  BY <1>closed DEF Clear, Port!Next, Port!Close
<1>same. ASSUME UNCHANGED <<host_connected, session, host_to_device, device_to_host>>
         PROVE  UNCHANGED Port!vars
  BY <1>same DEF Port!vars
<1>1. CASE Connect
  <2>1. session + 1 \in 1..MaxSessions
    BY <1>0, <1>1 DEF Connect
  <2>2. Port!Open(session + 1)
    BY <1>0, <1>1 DEF Connect, Clear, Port!Open
  <2> QED BY <2>1, <2>2 DEF Port!Next
<1>2. CASE Disconnect
  BY <1>2, <1>closed DEF Disconnect
<1>3. ASSUME NEW n \in 1..MaxBurst, WriteFromHost(n) PROVE Port!Next
  <2>1. PICK burst \in Bursts :
          PushCapped(host_to_device, Bytes(hostSent, n)) = Port!Sent(host_to_device, burst)
    BY <1>0, <1>3, WriteIsSend DEF WriteFromHost
  <2>2. Port!HostSends(burst)
    BY <1>0, <1>3, <2>1 DEF WriteFromHost, Port!HostSends
  <2> QED BY <2>2 DEF Port!Next
<1>4. ASSUME NEW t \in Readers, NEW n \in 1..MaxBurst, Return(t, n)
      PROVE  [Port!Next]_(Port!vars)
  <2> DEFINE k == AtMost(n, Len(device_to_host))
  <2>0. n \in Nat \ {0}
    OBVIOUS
  <2>1. /\ device_to_host = <<>> => AllBut(device_to_host, k) = device_to_host
        /\ device_to_host # <<>> => k \in 1..Len(device_to_host)
    BY <1>0, <2>0, TakenProperties
  <2>2. /\ device_to_host' = AllBut(device_to_host, k)
        /\ UNCHANGED <<host_connected, host_to_device, session>>
    BY <1>4 DEF Return, tallyVars
  <2> HIDE DEF k
  <2>3. CASE device_to_host = <<>>
    BY <2>1, <2>2, <2>3, <1>same
  <2>4. CASE device_to_host # <<>>
    <3>1. Port!HostReceives(k)
      BY <1>0, <2>2, <2>4 DEF Port!HostReceives, Port!Rest, AllBut
    <3> QED BY <2>1, <2>4, <3>1 DEF Port!Next
  <2> QED BY <2>3, <2>4
<1>5. ASSUME NEW t \in Readers, NEW n \in 1..MaxBurst, ReadForHost(t, n)
      PROVE  [Port!Next]_(Port!vars)
  <2>1. CASE NothingToRead
    BY <1>5, <1>same, <2>1 DEF ReadForHost, linkVars, tallyVars
  <2>2. CASE ~NothingToRead
    BY <1>4, <1>5, <2>2 DEF ReadForHost
  <2> QED BY <2>1, <2>2
<1>6. ASSUME NEW t \in Readers, NEW n \in 1..MaxBurst, ReadTimesOut(t, n)
      PROVE  [Port!Next]_(Port!vars)
  BY <1>4, <1>6 DEF ReadTimesOut
<1>7. ASSUME NEW t \in Readers, SpuriousWakeup(t) PROVE UNCHANGED Port!vars
  BY <1>7, <1>same DEF SpuriousWakeup, linkVars, tallyVars
<1>8. CASE AttachDevice
  BY <1>8, <1>same DEF AttachDevice, tallyVars
<1>9. CASE DetachDevice
  BY <1>9, <1>closed DEF DetachDevice
<1>10. ASSUME NEW s \in {"NotReady", "ProtocolReady"}, SetProtocolStage(s)
       PROVE  [Port!Next]_(Port!vars)
  BY <1>10, <1>closed, <1>same DEF SetProtocolStage, tallyVars
<1>11. ASSUME NEW n \in 1..MaxBurst, WriteFromDevice(n) PROVE Port!Next
  <2>1. PICK burst \in Bursts :
          PushCapped(device_to_host, Bytes(deviceSent, n)) = Port!Sent(device_to_host, burst)
    BY <1>0, <1>11, WriteIsSend DEF WriteFromDevice
  <2>2. Port!DeviceSends(burst)
    BY <1>0, <1>11, <2>1 DEF WriteFromDevice, Port!DeviceSends
  <2> QED BY <2>2 DEF Port!Next
<1>12. ASSUME NEW n \in 1..MaxBurst, ReadForDevice(n) PROVE Port!Next
  <2> DEFINE k == AtMost(n, Len(host_to_device))
  <2>0. n \in Nat \ {0}
    OBVIOUS
  <2>1. k \in 1..Len(host_to_device)
    BY <1>0, <1>12, <2>0, TakenProperties DEF ReadForDevice
  <2>2. /\ host_to_device' = AllBut(host_to_device, k)
        /\ UNCHANGED <<host_connected, device_to_host, session>>
    BY <1>12 DEF ReadForDevice, tallyVars
  <2> HIDE DEF k
  <2>3. Port!DeviceTakes(k)
    BY <2>2 DEF Port!DeviceTakes, Port!Rest, AllBut
  <2> QED BY <2>1, <2>3 DEF Port!Next
<1>13. CASE UNCHANGED vars
  BY <1>13, <1>same DEF vars, linkVars, tallyVars
<1> QED
  BY <1>1, <1>2, <1>3, <1>5, <1>6, <1>7, <1>8, <1>9, <1>10, <1>11, <1>12, <1>13
  DEF Next, Host, Device

\* The link is a serial port in the sense of CdcSession: sessions one after the
\* other, first in first out, the oldest bytes lost first, nothing kept from one
\* session to the next.
THEOREM LinkImplementsPort == Spec => ImplementsPort
<1>1. Init => Port!Init
  BY DEF Init, Port!Init
<1> QED BY <1>1, LinkInvariant, LinkStep, PTL DEF Spec, ImplementsPort, Port!Spec

-----------------------------------------------------------------------------
(* The port's isolation, for the link.                                      *)

P == INSTANCE CdcSessionProofs WITH
       Sessions <- 1..MaxSessions, NoSession <- 0,
       Payloads <- 1..MaxBytes,
       Bursts <- Bursts,
       session <- IF host_connected THEN session ELSE 0,
       up <- host_to_device, down <- device_to_host

LEMMA BurstsAreSequences == Bursts \subseteq Seq(1..MaxBytes)
<1> SUFFICES ASSUME NEW burst \in Bursts PROVE burst \in Seq(1..MaxBytes)
  OBVIOUS
<1>1. PICK first \in 0..MaxBytes - 1 :
        \E n \in 1..AtMost(MaxBurst, MaxBytes - first) : burst = [i \in 1..n |-> first + i]
  BY DEF Bursts
<1>2. MaxBytes - first \in Nat /\ AtMost(MaxBurst, MaxBytes - first) \in 0..MaxBytes - first
  BY AtMostProperties
<1>3. PICK n \in 1..AtMost(MaxBurst, MaxBytes - first) : burst = [i \in 1..n |-> first + i]
  BY <1>1
<1>4. n \in Nat /\ \A i \in 1..n : first + i \in 1..MaxBytes
  BY <1>2
<1> QED BY <1>3, <1>4, IsASeq

\* Both instances take the same steps.
LEMMA LinkSameSteps == [Port!Next]_(Port!vars) => [P!Next]_(P!vars)
<1>1. Port!vars = P!vars /\ (Port!vars)' = (P!vars)'
  BY DEF Port!vars, P!vars
<1>2. \A queue, burst : Port!Sent(queue, burst) = P!Sent(queue, burst)
  BY DEF Port!Sent, Port!Newest, Port!Marked, P!Sent, P!Newest, P!Marked
<1>3. \A queue, n : Port!Rest(queue, n) = P!Rest(queue, n)
  BY DEF Port!Rest, P!Rest
<1>4. Port!Next => P!Next
  BY <1>2, <1>3
  DEF Port!Next, Port!Open, Port!Close, Port!HostSends, Port!DeviceTakes,
      Port!DeviceSends, Port!HostReceives,
      P!Next, P!Open, P!Close, P!HostSends, P!DeviceTakes,
      P!DeviceSends, P!HostReceives
<1> QED BY <1>1, <1>4

\* No byte is queued for a session other than the one it was written in.
THEOREM LinkIsolated == Spec => []Isolated
<1>1. P!SessionAssumption
  BY BurstsAreSequences DEF P!SessionAssumption
<1>2. P!Spec => []P!Isolated
  BY <1>1, P!SessionsIsolated
<1>3. Port!Init => P!Init
  BY DEF Port!Init, P!Init
<1>4. P!Isolated => Isolated
  BY DEF Isolated, Port!Isolated, P!Isolated
<1> QED
  BY <1>2, <1>3, <1>4, LinkSameSteps, LinkImplementsPort, PTL DEF ImplementsPort, Port!Spec, P!Spec

-----------------------------------------------------------------------------
(* The bridge to TCP.                                                       *)

USE TcpAssumption

\* A bridge without a client has nothing queued for the firmware.
BridgeQuiet == client = NoClient => to_device = <<>>

\* What is on a connection was written by its client.
OwnWires == \A c \in Clients : \A i \in 1..Len(wire[c]) : wire[c][i].session = c

BridgeInv == BridgeTypeOK /\ BridgeQuiet /\ OwnWires

-----------------------------------------------------------------------------
(* Queues.                                                                  *)

\* A nonempty sequence without its head.
LEMMA TailOf ==
  ASSUME NEW S, NEW queue \in Seq(S), queue # <<>>
  PROVE  /\ Tail(queue) \in Seq(S) /\ Len(queue) \in Nat \ {0}
         /\ Len(Tail(queue)) = Len(queue) - 1
         /\ Head(queue) \in S /\ Head(queue) = queue[1]
         /\ \A i \in 1..Len(Tail(queue)) : Tail(queue)[i] = queue[i + 1]
  BY HeadTailProperties, LenProperties

\* push_capped of one chunk stays typed and within the capacity.
LEMMA CappedTyped ==
  ASSUME NEW S, NEW queue \in Seq(S), Len(queue) <= MaxBuffered, NEW chunk \in S
  PROVE  Capped(queue, chunk) \in Seq(S) /\ Len(Capped(queue, chunk)) <= MaxBuffered
<1>1. CASE Len(queue) = MaxBuffered
  <2>1. queue # <<>>
    BY <1>1, LenProperties
  <2>2. Tail(queue) \in Seq(S) /\ Len(Tail(queue)) = MaxBuffered - 1
    BY <1>1, <2>1, TailOf
  <2> QED BY <1>1, <2>2, AppendProperties DEF Capped
<1>2. CASE Len(queue) # MaxBuffered
  <2>1. Len(queue) \in Nat
    BY LenProperties
  <2> QED BY <1>2, <2>1, AppendProperties DEF Capped
<1> QED BY <1>1, <1>2

\* push_capped of one chunk is a send of the port.
LEMMA CappedIsSent ==
  ASSUME NEW S, NEW queue \in Seq(S), Len(queue) <= MaxBuffered, NEW d \in Data,
         [session |-> client, data |-> d] \in S
  PROVE  Capped(queue, [session |-> client, data |-> d]) = TcpPort!Sent(queue, <<d>>)
<1> DEFINE chunk == [session |-> client, data |-> d]
<1>1. TcpPort!Marked(<<d>>) = <<chunk>>
  <2>1. Len(<<d>>) = 1
    OBVIOUS
  <2>2. <<chunk>> = [i \in 1..1 |-> chunk]
    OBVIOUS
  <2>3. [i \in 1..1 |-> [session |-> client, data |-> <<d>>[i]]] = [i \in 1..1 |-> chunk]
    OBVIOUS
  <2> QED BY <2>1, <2>2, <2>3 DEF TcpPort!Marked
<1> HIDE DEF chunk
<1>c. chunk \in S
  BY DEF chunk
<1> DEFINE all == queue \o <<chunk>>
           n == Len(queue)
<1>2. /\ n \in Nat /\ n <= MaxBuffered
      /\ <<chunk>> \in Seq(S) /\ Len(<<chunk>>) = 1 /\ <<chunk>>[1] = chunk
  BY <1>c, LenProperties
<1>3. /\ all \in Seq(S) /\ Len(all) = n + 1
      /\ \A i \in 1..n + 1 : all[i] = IF i <= n THEN queue[i] ELSE <<chunk>>[i - n]
  BY <1>2, ConcatProperties
<1>4. \A i \in 1..n + 1 : all[i] = IF i <= n THEN queue[i] ELSE chunk
  <2> SUFFICES ASSUME NEW i \in 1..n + 1 PROVE all[i] = IF i <= n THEN queue[i] ELSE chunk
    OBVIOUS
  <2>1. i > n => i - n = 1
    BY <1>2
  <2> QED BY <2>1, <1>2, <1>3
<1>5. TcpPort!Sent(queue, <<d>>) = TcpPort!Newest(all)
  BY <1>1 DEF TcpPort!Sent
<1> HIDE DEF all
<1>6. CASE n < MaxBuffered
  <2>1. TcpPort!Newest(all) = all
    BY <1>2, <1>3, <1>6 DEF TcpPort!Newest
  <2>2. /\ Append(queue, chunk) \in Seq(S) /\ Len(Append(queue, chunk)) = n + 1
        /\ \A i \in 1..n + 1 : Append(queue, chunk)[i] = IF i <= n THEN queue[i] ELSE chunk
    <3>1. /\ Append(queue, chunk) \in Seq(S) /\ Len(Append(queue, chunk)) = n + 1
          /\ \A i \in 1..n : Append(queue, chunk)[i] = queue[i]
          /\ Append(queue, chunk)[n + 1] = chunk
      BY <1>c, AppendProperties
    <3>2. \A i \in 1..n + 1 : (i \in 1..n /\ i <= n) \/ (i = n + 1 /\ ~(i <= n))
      BY <1>2
    <3> QED BY <3>1, <3>2
  <2>3. Append(queue, chunk) = all
    BY <2>2, <1>3, <1>4, SeqEqual
  <2>4. Capped(queue, chunk) = Append(queue, chunk)
    BY <1>2, <1>6 DEF Capped
  <2> QED BY <1>5, <2>1, <2>3, <2>4 DEF chunk
<1>7. CASE n = MaxBuffered
  <2>1. TcpPort!Newest(all) = SubSeq(all, 2, n + 1)
    <3>1. Len(all) > MaxBuffered /\ Len(all) - MaxBuffered + 1 = 2
      BY <1>2, <1>3, <1>7
    <3> QED BY <1>3, <3>1 DEF TcpPort!Newest
  <2>2. /\ SubSeq(all, 2, n + 1) \in Seq(S) /\ Len(SubSeq(all, 2, n + 1)) = n
        /\ \A i \in 1..n : SubSeq(all, 2, n + 1)[i] = all[i + 1]
    <3>1. 2 \in 1..Len(all) + 1 /\ n + 1 \in 0..Len(all) /\ n + 1 - 2 + 1 = n
      BY <1>2, <1>3, <1>7
    <3>2. /\ SubSeq(all, 2, n + 1) \in Seq(S)
          /\ Len(SubSeq(all, 2, n + 1)) = n
          /\ \A i \in 1..n : SubSeq(all, 2, n + 1)[i] = all[2 + i - 1]
      BY <1>3, <3>1, SubSeqProperties
    <3>3. \A i \in 1..n : 2 + i - 1 = i + 1
      BY <1>2
    <3> QED BY <3>2, <3>3
  <2>3. /\ queue # <<>> /\ Tail(queue) \in Seq(S) /\ Len(Tail(queue)) = n - 1
        /\ \A i \in 1..n - 1 : Tail(queue)[i] = queue[i + 1]
    BY <1>2, <1>7, TailOf
  <2> DEFINE new == Append(Tail(queue), chunk)
  <2>4. /\ new \in Seq(S) /\ Len(new) = n
        /\ \A i \in 1..n - 1 : new[i] = queue[i + 1]
        /\ new[n] = chunk
    <3>1. /\ new \in Seq(S) /\ Len(new) = (n - 1) + 1
          /\ \A i \in 1..n - 1 : new[i] = Tail(queue)[i]
          /\ new[(n - 1) + 1] = chunk
      BY <1>c, <2>3, AppendProperties
    <3>2. (n - 1) + 1 = n
      BY <1>2
    <3> QED BY <2>3, <3>1, <3>2
  <2>5. \A i \in 1..n : new[i] = all[i + 1]
    <3> SUFFICES ASSUME NEW i \in 1..n PROVE new[i] = all[i + 1]
      OBVIOUS
    <3>1. CASE i = n
      BY <1>2, <1>4, <2>4, <3>1
    <3>2. CASE i # n
      <4>1. i \in 1..n - 1 /\ i + 1 \in 1..n + 1 /\ i + 1 <= n
        BY <1>2, <3>2
      <4> QED BY <4>1, <1>4, <2>4
    <3> QED BY <3>1, <3>2
  <2> HIDE DEF new
  <2>6. new = SubSeq(all, 2, n + 1)
    BY <2>2, <2>4, <2>5, SeqEqual
  <2>7. Capped(queue, chunk) = new
    BY <1>7 DEF Capped, new
  <2> QED BY <1>5, <2>1, <2>6, <2>7 DEF chunk
<1> QED BY <1>2, <1>6, <1>7

-----------------------------------------------------------------------------
(* The invariant.                                                           *)

LEMMA BridgeInvInit == BridgeInit => BridgeInv
  BY EmptySeq
  DEF TcpAssumption, BridgeInit, BridgeInv, BridgeTypeOK, BridgeQuiet, OwnWires, Peers

\* What letting go of connections leaves of the sockets.
LEMMA LetGoTyped ==
  ASSUME BridgeInv, NEW dropped, LetGo(dropped)
  PROVE  /\ peer' \in [Clients -> Peers] /\ wire' \in [Clients -> Seq(Request)]
         /\ OwnWires'
<1>1. peer' \in [Clients -> Peers]
  BY DEF LetGo, BridgeInv, BridgeTypeOK, Peers
<1>2. \A c \in Clients : wire'[c] = <<>> \/ wire'[c] = wire[c]
  BY DEF LetGo
<1>3. wire' \in [Clients -> Seq(Request)]
  BY EmptySeq DEF LetGo, BridgeInv, BridgeTypeOK
<1>4. OwnWires'
  BY <1>2 DEF OwnWires, BridgeInv
<1> QED BY <1>1, <1>3, <1>4

LEMMA QueuesTyped ==
  ASSUME BridgeInv
  PROVE  /\ QueuesOnAccept[1] = <<>>
         /\ QueuesOnAccept[2] = IF client = NoClient THEN from_device ELSE <<>>
  BY DEF QueuesOnAccept, BridgeInv, BridgeQuiet

LEMMA PeerInv ==
  ASSUME BridgeInv, NEW c \in Clients, Peer(c)
  PROVE  BridgeInv'
<1> USE DEF BridgeInv, BridgeTypeOK, bridgeVars, countVars
<1>1. CASE ClientConnects(c)
  <2>1. Append(backlog, c) \in Seq(Clients)
    BY AppendProperties
  <2> QED BY <1>1, <2>1 DEF ClientConnects, BridgeQuiet, OwnWires, Peers
<1>2. CASE Write(c)
  <2> DEFINE chunk == [session |-> c, data |-> <<c, written[c] + 1>>]
             longer == Append(wire[c], chunk)
  <2>1. written[c] + 1 \in 1..MaxWrites /\ written[c] + 1 \in 1..(MaxWrites + MaxReplies)
    BY <1>2 DEF Write
  <2>2. chunk \in Request /\ chunk.session = c
    BY <2>1 DEF Request, Data
  <2> HIDE DEF chunk
  <2>3. /\ wire[c] \in Seq(Request) /\ longer \in Seq(Request)
        /\ Len(longer) = Len(wire[c]) + 1 /\ Len(wire[c]) \in Nat
        /\ \A i \in 1..Len(wire[c]) : longer[i] = wire[c][i]
        /\ longer[Len(wire[c]) + 1] = chunk
    BY <2>2, AppendProperties, LenProperties
  <2>4. \A i \in 1..Len(longer) : longer[i].session = c
    <3> HIDE DEF longer
    <3> SUFFICES ASSUME NEW i \in 1..Len(longer) PROVE longer[i].session = c
      OBVIOUS
    <3>1. i \in 1..Len(wire[c]) \/ i = Len(wire[c]) + 1
      BY <2>3
    <3> QED BY ZenonT(60), <2>2, <2>3, <3>1 DEF OwnWires
  <2> HIDE DEF longer
  <2>5. wire' = [wire EXCEPT ![c] = longer] /\ written' = [written EXCEPT ![c] = @ + 1]
    BY <1>2 DEF Write, longer, chunk
  <2>6. wire' \in [Clients -> Seq(Request)] /\ written' \in [Clients -> 0..MaxWrites]
    BY <2>1, <2>3, <2>5
  <2>7. OwnWires'
    BY <2>4, <2>5 DEF OwnWires
  <2> QED BY <1>2, <2>6, <2>7 DEF Write, BridgeQuiet
<1>3. CASE Finish(c)
  BY <1>3 DEF Finish, BridgeQuiet, OwnWires, Peers
<1>4. ASSUME NEW how \in {"reset", "failed"}, Break(c, how) PROVE BridgeInv'
  <2>1. \A x \in Clients : wire'[x] = <<>> \/ wire'[x] = wire[x]
    BY <1>4 DEF Break
  <2>2. wire' \in [Clients -> Seq(Request)] /\ peer' \in [Clients -> Peers]
    BY <1>4, EmptySeq DEF Break, Peers
  <2>3. OwnWires'
    BY <2>1 DEF OwnWires
  <2> QED BY <1>4, <2>2, <2>3 DEF Break, BridgeQuiet
<1> QED BY <1>1, <1>2, <1>3, <1>4 DEF Peer

LEMMA AcceptInv == BridgeInv /\ Accept => BridgeInv'
<1> SUFFICES ASSUME BridgeInv, Accept PROVE BridgeInv'
  OBVIOUS
<1> USE DEF BridgeInv, BridgeTypeOK
<1> DEFINE c == Head(backlog)
<1>1. c \in Clients /\ backlog' \in Seq(Clients) /\ pc' \in {"idle", "accept", "receive", "send"}
  BY TailOf DEF Accept
<1>2. UNCHANGED <<written, pushed>>
  BY DEF Accept, countVars
<1> HIDE DEF c
<1>3. CASE Reject(c)
  <2>1. peer' \in [Clients -> Peers] /\ wire' \in [Clients -> Seq(Request)] /\ OwnWires'
    BY <1>3, LetGoTyped DEF Reject
  <2> QED BY <1>1, <1>2, <1>3, <2>1 DEF Reject, AgeAfterReject, BridgeQuiet
<1>4. CASE Hold(c) \/ HoldFails(c)
  <2>1. peer' \in [Clients -> Peers] /\ wire' \in [Clients -> Seq(Request)] /\ OwnWires'
    BY <1>4, LetGoTyped DEF Hold, HoldFails
  <2>2. to_device' = <<>> /\ (from_device' = from_device \/ from_device' = <<>>)
    BY <1>4, QueuesTyped DEF Hold, HoldFails
  <2>3. client' \in Clients \cup {NoClient} /\ age' = 0
    BY <1>1, <1>4 DEF Hold, HoldFails
  <2>4. <<>> \in Seq(Request) /\ <<>> \in Seq(Reply) /\ Len(<<>>) = 0
    BY EmptySeq
  <2>5. to_device' \in Seq(Request) /\ Len(to_device') <= MaxBuffered
    BY <2>2, <2>4
  <2>6. from_device' \in Seq(Reply) /\ Len(from_device') <= MaxBuffered
    <3>1. CASE from_device' = from_device
      BY <3>1
    <3>2. CASE from_device' = <<>>
      BY <2>4, <3>2
    <3> QED BY <2>2, <3>1, <3>2
  <2> QED BY SMTT(30), <1>1, <1>2, <2>1, <2>2, <2>3, <2>5, <2>6 DEF BridgeQuiet
<1> QED BY <1>3, <1>4 DEF Accept, c

LEMMA BridgeInvNext == BridgeInv /\ [BridgeNext]_(tcpVars) => BridgeInv'
<1> SUFFICES ASSUME BridgeInv, [BridgeNext]_(tcpVars) PROVE BridgeInv'
  OBVIOUS
<1> USE DEF BridgeInv, BridgeTypeOK, bridgeVars, socketVars, countVars
<1>1. ASSUME UNCHANGED <<bridgeVars, socketVars, countVars>>,
             pc' \in {"idle", "accept", "receive", "send"}
      PROVE  BridgeInv'
  BY <1>1 DEF BridgeQuiet, OwnWires
<1>2. CASE StartPoll \/ AcceptWouldBlock \/ CallFails \/ ReceiveDone \/ SendDone
  BY <1>1, <1>2 DEF StartPoll, AcceptWouldBlock, CallFails, ReceiveDone, SendDone
<1>3. CASE Accept
  BY <1>3, AcceptInv
<1>4. CASE ReadChunk
  <2> DEFINE w == wire[client]
  <2>0. client \in Clients /\ w \in Seq(Request) /\ w # <<>>
    BY <1>4 DEF ReadChunk
  <2>1. /\ Tail(w) \in Seq(Request) /\ Head(w) \in Request /\ Len(w) \in Nat \ {0}
        /\ Len(Tail(w)) = Len(w) - 1
        /\ \A i \in 1..Len(Tail(w)) : Tail(w)[i] = w[i + 1]
    BY <2>0, TailOf
  <2>2. Capped(to_device, Head(w)) \in Seq(Request) /\ Len(Capped(to_device, Head(w))) <= MaxBuffered
    BY <2>1, CappedTyped
  <2>3. \A i \in 1..Len(Tail(w)) : Tail(w)[i].session = client
    <3>1. \A i \in 1..Len(Tail(w)) : i + 1 \in 1..Len(w)
      BY <2>1
    <3> QED BY <2>0, <2>1, <3>1 DEF OwnWires
  <2>4. wire' = [wire EXCEPT ![client] = Tail(w)]
    BY <1>4 DEF ReadChunk
  <2> HIDE DEF w
  <2>5. wire' \in [Clients -> Seq(Request)] /\ OwnWires'
    BY <2>0, <2>1, <2>3, <2>4 DEF OwnWires
  <2>6. to_device' = Capped(to_device, Head(w)) /\ client' # NoClient
    BY <1>4 DEF ReadChunk, w
  <2> QED BY <1>4, <2>2, <2>5, <2>6 DEF ReadChunk, BridgeQuiet
<1>5. CASE ClientGone
  <2>1. peer' \in [Clients -> Peers] /\ wire' \in [Clients -> Seq(Request)] /\ OwnWires'
    BY <1>5, LetGoTyped DEF ClientGone
  <2>2. <<>> \in Seq(Request) /\ <<>> \in Seq(Reply) /\ Len(<<>>) = 0
    BY EmptySeq
  <2>3. pc' \in {"idle", "accept", "receive", "send"}
    BY <1>5 DEF ClientGone
  <2> QED BY <1>5, <2>1, <2>2, <2>3 DEF ClientGone, MarkDisconnected, BridgeQuiet
<1>6. CASE WriteChunk
  <2>1. Tail(from_device) \in Seq(Reply) /\ Len(Tail(from_device)) <= MaxBuffered
    BY <1>6, TailOf DEF WriteChunk
  <2> QED BY <1>6, <2>1 DEF WriteChunk, BridgeQuiet, OwnWires
<1>7. CASE TakeForDevice
  <2>1. Tail(to_device) \in Seq(Request) /\ Len(Tail(to_device)) <= MaxBuffered
    BY <1>7, TailOf DEF TakeForDevice
  <2>2. client' # NoClient
    BY <1>7 DEF TakeForDevice, BridgeQuiet
  <2> QED BY <1>7, <2>1, <2>2 DEF TakeForDevice, BridgeQuiet, OwnWires
<1>8. CASE PushFromDevice
  <2> DEFINE chunk == [session |-> client, data |-> <<NoClient, pushed + 1>>]
  <2>1. pushed + 1 \in 1..MaxReplies /\ pushed + 1 \in 1..(MaxWrites + MaxReplies)
    BY <1>8 DEF PushFromDevice
  <2>2. chunk \in Reply
    BY <2>1 DEF Reply, Data
  <2>3. Capped(from_device, chunk) \in Seq(Reply) /\ Len(Capped(from_device, chunk)) <= MaxBuffered
    BY <2>2, CappedTyped
  <2> QED BY <1>8, <2>1, <2>3 DEF PushFromDevice, BridgeQuiet, OwnWires
<1>9. CASE Tick
  BY <1>9 DEF Tick, Saturated, BridgeQuiet, OwnWires
<1>10. ASSUME NEW c \in Clients, Peer(c) PROVE BridgeInv'
  BY <1>10, PeerInv
<1>11. CASE UNCHANGED tcpVars
  BY <1>1, <1>11 DEF tcpVars
<1> QED
  BY <1>2, <1>3, <1>4, <1>5, <1>6, <1>7, <1>8, <1>9, <1>10, <1>11 DEF BridgeNext, Poll

LEMMA BridgeInvariant == BridgeSpec => []BridgeInv
  BY BridgeInvInit, BridgeInvNext, PTL DEF BridgeSpec

\* The type invariant of the bridge; no queue outgrows max_buffered_bytes
\* (push_capped).
THEOREM BridgeTyped == BridgeSpec => []BridgeTypeOK
<1>1. BridgeInv => BridgeTypeOK
  BY DEF BridgeInv
<1> QED BY <1>1, BridgeInvariant, PTL

-----------------------------------------------------------------------------
(* The bridge implements the port.                                          *)

LEMMA BridgeStep == BridgeInv /\ [BridgeNext]_(tcpVars) => [TcpPort!Next]_(TcpPort!vars)
<1> SUFFICES ASSUME BridgeInv, [BridgeNext]_(tcpVars) PROVE [TcpPort!Next]_(TcpPort!vars)
  OBVIOUS
<1>0. /\ client \in Clients \cup {NoClient}
      /\ to_device \in Seq(Request) /\ Len(to_device) <= MaxBuffered
      /\ from_device \in Seq(Reply) /\ Len(from_device) <= MaxBuffered
      /\ client = NoClient => to_device = <<>>
  BY DEF BridgeInv, BridgeTypeOK, BridgeQuiet
<1>same. ASSUME UNCHANGED <<client, to_device, from_device>> PROVE UNCHANGED TcpPort!vars
  BY <1>same DEF TcpPort!vars
<1>closed. ASSUME client' = NoClient, to_device' = <<>>, from_device' = <<>> PROVE TcpPort!Next
  BY <1>closed DEF TcpPort!Next, TcpPort!Close
<1>1. CASE StartPoll \/ AcceptWouldBlock \/ CallFails \/ ReceiveDone \/ SendDone \/ Tick
  BY <1>1, <1>same
  DEF StartPoll, AcceptWouldBlock, CallFails, ReceiveDone, SendDone, Tick, bridgeVars
<1>2. CASE Accept
  <2> DEFINE c == Head(backlog)
  <2>1. c \in Clients
    BY <1>2, TailOf DEF Accept, BridgeInv, BridgeTypeOK
  <2> HIDE DEF c
  <2>2. CASE Reject(c)
    BY <2>2, <1>same DEF Reject
  <2>3. CASE Hold(c)
    <3>1. TcpPort!Open(c)
      BY <2>3, QueuesTyped DEF Hold, TcpPort!Open
    <3> QED BY <2>1, <3>1 DEF TcpPort!Next
  <2>4. CASE HoldFails(c)
    <3>1. CASE client = NoClient
      BY <1>0, <1>same, <2>4, <3>1, QueuesTyped DEF HoldFails
    <3>2. CASE client # NoClient
      BY <1>closed, <2>4, <3>2, QueuesTyped DEF HoldFails
    <3> QED BY <3>1, <3>2
  <2> QED BY <1>2, <2>2, <2>3, <2>4 DEF Accept, c
<1>3. CASE ReadChunk
  <2> DEFINE chunk == Head(wire[client])
  <2>0. client \in Clients /\ wire[client] \in Seq(Request) /\ wire[client] # <<>>
    BY <1>0, <1>3 DEF ReadChunk, BridgeInv, BridgeTypeOK
  <2>1. chunk \in Request /\ chunk = wire[client][1] /\ 1 \in 1..Len(wire[client])
    BY <2>0, TailOf
  <2>2. chunk.session = client
    BY <2>0, <2>1 DEF BridgeInv, OwnWires
  <2> HIDE DEF chunk
  <2>3. chunk.data \in Data /\ chunk = [session |-> client, data |-> chunk.data]
    BY <2>1, <2>2 DEF Request
  <2>4. Capped(to_device, chunk) = TcpPort!Sent(to_device, <<chunk.data>>)
    BY <1>0, <2>1, <2>3, CappedIsSent
  <2>5. TcpPort!HostSends(<<chunk.data>>)
    BY <1>3, <2>4 DEF ReadChunk, chunk, TcpPort!HostSends
  <2>6. <<chunk.data>> \in {<<d>> : d \in Data}
    BY <2>3
  <2> QED BY <2>5, <2>6 DEF TcpPort!Next
<1>4. CASE ClientGone
  BY <1>4, <1>closed DEF ClientGone, MarkDisconnected
<1>5. CASE WriteChunk
  <2>1. Len(from_device) \in Nat \ {0} /\ 1 \in 1..Len(from_device)
    BY <1>0, <1>5, TailOf DEF WriteChunk
  <2>2. Tail(from_device) = TcpPort!Rest(from_device, 1)
    BY <2>1 DEF TcpPort!Rest
  <2>3. TcpPort!HostReceives(1)
    BY <1>5, <2>2 DEF WriteChunk, TcpPort!HostReceives
  <2> QED BY <2>1, <2>3 DEF TcpPort!Next
<1>6. CASE TakeForDevice
  <2>1. Len(to_device) \in Nat \ {0} /\ 1 \in 1..Len(to_device)
    BY <1>0, <1>6, TailOf DEF TakeForDevice
  <2>2. Tail(to_device) = TcpPort!Rest(to_device, 1)
    BY <2>1 DEF TcpPort!Rest
  <2>3. TcpPort!DeviceTakes(1)
    BY <1>6, <2>2 DEF TakeForDevice, TcpPort!DeviceTakes
  <2> QED BY <2>1, <2>3 DEF TcpPort!Next
<1>7. CASE PushFromDevice
  <2> DEFINE d == <<NoClient, pushed + 1>>
  <2>1. d \in Data
    BY <1>7 DEF PushFromDevice, BridgeInv, BridgeTypeOK, Data
  <2> HIDE DEF d
  <2>2. [session |-> client, data |-> d] \in Reply
    BY <1>0, <2>1 DEF Reply
  <2>3. Capped(from_device, [session |-> client, data |-> d]) = TcpPort!Sent(from_device, <<d>>)
    BY <1>0, <2>1, <2>2, CappedIsSent
  <2>4. TcpPort!DeviceSends(<<d>>)
    BY <1>7, <2>3 DEF PushFromDevice, d, TcpPort!DeviceSends
  <2>5. <<d>> \in {<<e>> : e \in Data}
    BY <2>1
  <2> QED BY <2>4, <2>5 DEF TcpPort!Next
<1>8. ASSUME NEW c \in Clients, Peer(c) PROVE UNCHANGED TcpPort!vars
  BY <1>8, <1>same DEF Peer, ClientConnects, Write, Finish, Break, bridgeVars
<1>9. CASE UNCHANGED tcpVars
  BY <1>9, <1>same DEF tcpVars, bridgeVars
<1> QED
  BY <1>1, <1>2, <1>3, <1>4, <1>5, <1>6, <1>7, <1>8, <1>9 DEF BridgeNext, Poll

\* The bridge is a serial port in the sense of CdcSession, whatever clients do
\* between two system calls of a poll, and however those fail (accept_clients,
\* receive_from_client, send_to_client).
THEOREM BridgeImplementsPort == BridgeSpec => BridgeIsPort
<1>1. BridgeInit => TcpPort!Init
  BY DEF BridgeInit, TcpPort!Init
<1> QED BY <1>1, BridgeInvariant, BridgeStep, PTL DEF BridgeSpec, BridgeIsPort, TcpPort!Spec

-----------------------------------------------------------------------------
(* The port's isolation, for the bridge.                                    *)

TP == INSTANCE CdcSessionProofs WITH
       Capacity <- MaxBuffered,
       Sessions <- Clients, NoSession <- NoClient,
       Payloads <- Data, Bursts <- {<<d>> : d \in Data},
       session <- client, up <- to_device, down <- from_device

\* Both instances take the same steps.
LEMMA BridgeSameSteps == [TcpPort!Next]_(TcpPort!vars) => [TP!Next]_(TP!vars)
<1>1. TcpPort!vars = TP!vars /\ (TcpPort!vars)' = (TP!vars)'
  BY DEF TcpPort!vars, TP!vars
<1>2. \A queue, burst : TcpPort!Sent(queue, burst) = TP!Sent(queue, burst)
  BY DEF TcpPort!Sent, TcpPort!Newest, TcpPort!Marked, TP!Sent, TP!Newest, TP!Marked
<1>3. \A queue, n : TcpPort!Rest(queue, n) = TP!Rest(queue, n)
  BY DEF TcpPort!Rest, TP!Rest
<1>4. TcpPort!Next => TP!Next
  BY <1>2, <1>3
  DEF TcpPort!Next, TcpPort!Open, TcpPort!Close, TcpPort!HostSends, TcpPort!DeviceTakes,
      TcpPort!DeviceSends, TcpPort!HostReceives,
      TP!Next, TP!Open, TP!Close, TP!HostSends, TP!DeviceTakes,
      TP!DeviceSends, TP!HostReceives
<1> QED BY <1>1, <1>4

\* What the firmware may take was written by the client that is held, and what that
\* client may receive was pushed while it, or nobody, was held: no byte crosses from
\* one connection to the next (mark_disconnected, accept_clients).
THEOREM BridgeIsolated == BridgeSpec => []TcpPort!Isolated
<1>1. TP!SessionAssumption
  <2>1. \A d \in Data : <<d>> \in Seq(Data)
    OBVIOUS
  <2> QED BY <2>1 DEF TP!SessionAssumption, TcpAssumption
<1>2. TP!Spec => []TP!Isolated
  BY <1>1, TP!SessionsIsolated
<1>3. TcpPort!Init => TP!Init
  BY DEF TcpPort!Init, TP!Init
<1>4. TP!Isolated => TcpPort!Isolated
  BY DEF TcpPort!Isolated, TP!Isolated
<1> QED
  BY <1>2, <1>3, <1>4, BridgeSameSteps, BridgeImplementsPort, PTL DEF BridgeIsPort, TcpPort!Spec, TP!Spec
=============================================================================
