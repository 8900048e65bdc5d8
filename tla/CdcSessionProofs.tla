-------------------------- MODULE CdcSessionProofs --------------------------
(***************************************************************************)
(* Type correctness and isolation of CdcSession, for any sessions,         *)
(* payloads, bursts and capacity.  What is queued only ever changes by     *)
(* losing entries and gaining entries marked with the session under way,   *)
(* so both are inductive together.                                         *)
(***************************************************************************)
EXTENDS CdcSession, SequenceTheorems, TLAPS

USE DEF SessionAssumption

\* Taking the last entries of a queue: at most Capacity are left, all from it.
LEMMA NewestProperties ==
  ASSUME SessionAssumption, NEW S, NEW queue \in Seq(S)
  PROVE  /\ Newest(queue) \in Seq(S)
         /\ Len(Newest(queue)) <= Capacity
         /\ \A i \in 1..Len(Newest(queue)) :
              \E j \in 1..Len(queue) : Newest(queue)[i] = queue[j]
<1>1. CASE Len(queue) <= Capacity
  <2>1. Newest(queue) = queue
    BY <1>1 DEF Newest
  <2> QED BY <1>1, <2>1
<1>2. CASE Len(queue) > Capacity
  <2> DEFINE m == Len(queue) - Capacity + 1
  <2>1. Newest(queue) = SubSeq(queue, m, Len(queue))
    BY <1>2 DEF Newest
  <2>2. m \in 1..Len(queue) + 1 /\ Len(queue) \in 1..Len(queue) /\ Len(queue) - m + 1 = Capacity
    BY <1>2
  <2> HIDE DEF m
  <2>3. /\ SubSeq(queue, m, Len(queue)) \in Seq(S)
        /\ Len(SubSeq(queue, m, Len(queue))) = Capacity
        /\ \A i \in 1..Capacity : SubSeq(queue, m, Len(queue))[i] = queue[m + i - 1]
    BY <2>2, SubSeqProperties
  <2>4. \A i \in 1..Capacity : m + i - 1 \in 1..Len(queue)
    BY <2>2
  <2> QED BY <2>1, <2>3, <2>4
<1> QED BY <1>1, <1>2, LenProperties

\* Taking entries from the front leaves entries that were there.
LEMMA RestProperties ==
  ASSUME NEW S, NEW queue \in Seq(S), NEW n \in 1..Len(queue)
  PROVE  /\ Rest(queue, n) \in Seq(S)
         /\ Len(Rest(queue, n)) <= Len(queue)
         /\ \A i \in 1..Len(Rest(queue, n)) :
              \E j \in 1..Len(queue) : Rest(queue, n)[i] = queue[j]
<1>1. n + 1 \in 1..Len(queue) + 1 /\ Len(queue) \in 0..Len(queue)
  BY LenProperties
<1>2. /\ Rest(queue, n) \in Seq(S)
      /\ Len(Rest(queue, n)) = Len(queue) - n
      /\ \A i \in 1..Len(queue) - n : Rest(queue, n)[i] = queue[n + i]
  BY <1>1, SubSeqProperties, LenProperties DEF Rest
<1>3. \A i \in 1..Len(queue) - n : n + i \in 1..Len(queue)
  BY LenProperties
<1> QED BY <1>2, <1>3, LenProperties

\* A queue after a burst: typed, within its capacity, and every entry was there or
\* is marked with the session under way.
LEMMA SentProperties ==
  ASSUME SessionAssumption, NEW queue \in Seq(Entry), NEW burst \in Seq(Payloads),
         session \in Sessions \cup {NoSession}
  PROVE  /\ Sent(queue, burst) \in Seq(Entry)
         /\ Len(Sent(queue, burst)) <= Capacity
         /\ \A i \in 1..Len(Sent(queue, burst)) :
              \/ \E j \in 1..Len(queue) : Sent(queue, burst)[i] = queue[j]
              \/ Sent(queue, burst)[i].session = session
<1> DEFINE all == queue \o Marked(burst)
<1>1. Len(burst) \in Nat /\ \A i \in 1..Len(burst) : burst[i] \in Payloads
  BY LenProperties, ElementOfSeq
<1>2. \A i \in 1..Len(burst) : [session |-> session, data |-> burst[i]] \in Entry
  BY <1>1 DEF Entry
<1>3. Marked(burst) \in Seq(Entry) /\ Len(Marked(burst)) = Len(burst)
  BY <1>1, <1>2, IsASeq, LenProperties DEF Marked
<1>4. \A i \in 1..Len(Marked(burst)) : Marked(burst)[i].session = session
  BY <1>3 DEF Marked
<1> HIDE DEF Marked
<1>5. /\ all \in Seq(Entry)
      /\ Len(all) = Len(queue) + Len(Marked(burst))
      /\ \A i \in 1..Len(all) :
           all[i] = IF i <= Len(queue) THEN queue[i] ELSE Marked(burst)[i - Len(queue)]
  BY <1>3, ConcatProperties
<1>6. \A i \in 1..Len(all) :
         (\E j \in 1..Len(queue) : all[i] = queue[j]) \/ all[i].session = session
  <2> SUFFICES ASSUME NEW i \in 1..Len(all)
               PROVE  (\E j \in 1..Len(queue) : all[i] = queue[j]) \/ all[i].session = session
    OBVIOUS
  <2>1. CASE i <= Len(queue)
    BY <2>1, <1>5, LenProperties
  <2>2. CASE i > Len(queue)
    <3>1. i - Len(queue) \in 1..Len(Marked(burst))
      BY <2>2, <1>5, <1>3, LenProperties
    <3> QED BY <3>1, <2>2, <1>4, <1>5, LenProperties
  <2> QED BY <2>1, <2>2, LenProperties
<1> HIDE DEF all
<1>7. /\ Newest(all) \in Seq(Entry)
      /\ Len(Newest(all)) <= Capacity
      /\ \A i \in 1..Len(Newest(all)) : \E j \in 1..Len(all) : Newest(all)[i] = all[j]
  BY <1>5, NewestProperties
<1>8. Sent(queue, burst) = Newest(all)
  BY DEF Sent, all
<1> QED BY <1>6, <1>7, <1>8

LEMMA TypeOKInit == SessionAssumption /\ Init => TypeOK
  BY EmptySeq DEF Init, TypeOK

LEMMA TypeOKNext == SessionAssumption /\ TypeOK /\ [Next]_vars => TypeOK'
<1> SUFFICES ASSUME SessionAssumption, TypeOK, [Next]_vars PROVE TypeOK'
  OBVIOUS
<1> USE DEF TypeOK
<1>1. ASSUME NEW s \in Sessions, Open(s) PROVE TypeOK'
  BY <1>1, EmptySeq DEF Open
<1>2. CASE Close
  BY <1>2, EmptySeq DEF Close
<1>3. ASSUME NEW burst \in Bursts, HostSends(burst) PROVE TypeOK'
  BY <1>3, SentProperties DEF HostSends
<1>4. ASSUME NEW burst \in Bursts, DeviceSends(burst) PROVE TypeOK'
  BY <1>4, SentProperties DEF DeviceSends
<1>5. ASSUME NEW n \in 1..Len(up), DeviceTakes(n) PROVE TypeOK'
  BY <1>5, RestProperties, LenProperties DEF DeviceTakes
<1>6. ASSUME NEW n \in 1..Len(down), HostReceives(n) PROVE TypeOK'
  BY <1>6, RestProperties, LenProperties DEF HostReceives
<1>7. CASE UNCHANGED vars
  BY <1>7 DEF vars
<1> QED BY <1>1, <1>2, <1>3, <1>4, <1>5, <1>6, <1>7 DEF Next

\* The type invariant, and with it that no queue outgrows max_buffered_bytes.
THEOREM TypeCorrect == SessionAssumption => (Spec => []TypeOK)
<1> SUFFICES ASSUME SessionAssumption PROVE Spec => []TypeOK
  OBVIOUS
<1>1. Init => TypeOK
  BY TypeOKInit
<1>2. TypeOK /\ [Next]_vars => TypeOK'
  BY TypeOKNext
<1> QED BY <1>1, <1>2, PTL DEF Spec

LEMMA IsolatedNext == SessionAssumption /\ TypeOK /\ Isolated /\ [Next]_vars => Isolated'
<1> SUFFICES ASSUME SessionAssumption, TypeOK, Isolated, [Next]_vars PROVE Isolated'
  OBVIOUS
<1> USE DEF TypeOK, Isolated
<1>1. ASSUME NEW s \in Sessions, Open(s) PROVE Isolated'
  BY <1>1 DEF Open
<1>2. CASE Close
  BY <1>2 DEF Close
<1>3. ASSUME NEW burst \in Bursts, HostSends(burst) PROVE Isolated'
  <2>1. \A i \in 1..Len(Sent(up, burst)) : Sent(up, burst)[i].session = session
    <3> SUFFICES ASSUME NEW i \in 1..Len(Sent(up, burst))
                 PROVE  Sent(up, burst)[i].session = session
      OBVIOUS
    <3>1. \/ \E j \in 1..Len(up) : Sent(up, burst)[i] = up[j]
          \/ Sent(up, burst)[i].session = session
      BY SentProperties
    <3> QED BY <3>1
  <2> QED BY <2>1, <1>3 DEF HostSends
<1>4. ASSUME NEW burst \in Bursts, DeviceSends(burst) PROVE Isolated'
  <2>1. \A i \in 1..Len(Sent(down, burst)) :
           Sent(down, burst)[i].session \in {session, NoSession}
    <3> SUFFICES ASSUME NEW i \in 1..Len(Sent(down, burst))
                 PROVE  Sent(down, burst)[i].session \in {session, NoSession}
      OBVIOUS
    <3>1. \/ \E j \in 1..Len(down) : Sent(down, burst)[i] = down[j]
          \/ Sent(down, burst)[i].session = session
      BY SentProperties
    <3> QED BY <3>1
  <2> QED BY <2>1, <1>4 DEF DeviceSends
<1>5. ASSUME NEW n \in 1..Len(up), DeviceTakes(n) PROVE Isolated'
  <2>1. \A i \in 1..Len(Rest(up, n)) : \E j \in 1..Len(up) : Rest(up, n)[i] = up[j]
    BY RestProperties
  <2>2. \A i \in 1..Len(Rest(up, n)) : Rest(up, n)[i].session = session
    BY <2>1
  <2> QED BY <2>2, <1>5 DEF DeviceTakes
<1>6. ASSUME NEW n \in 1..Len(down), HostReceives(n) PROVE Isolated'
  <2>1. \A i \in 1..Len(Rest(down, n)) : \E j \in 1..Len(down) : Rest(down, n)[i] = down[j]
    BY RestProperties
  <2>2. \A i \in 1..Len(Rest(down, n)) : Rest(down, n)[i].session \in {session, NoSession}
    BY <2>1
  <2> QED BY <2>2, <1>6 DEF HostReceives
<1>7. CASE UNCHANGED vars
  BY <1>7 DEF vars
<1> QED BY <1>1, <1>2, <1>3, <1>4, <1>5, <1>6, <1>7 DEF Next

\* No entry crosses from one session to another (connect, disconnect,
\* mark_disconnected).
THEOREM SessionsIsolated == SessionAssumption => (Spec => []Isolated)
<1> SUFFICES ASSUME SessionAssumption PROVE Spec => []Isolated
  OBVIOUS
<1>1. Init => TypeOK /\ Isolated
  BY TypeOKInit DEF Init, Isolated
<1>2. TypeOK /\ Isolated /\ [Next]_vars => (TypeOK /\ Isolated)'
  BY TypeOKNext, IsolatedNext
<1> QED BY <1>1, <1>2, PTL DEF Spec
=============================================================================
