--------------------------- MODULE AuditLogProofs ---------------------------
(* What emit() keeps and what it forgets, for events of any kind. *)
EXTENDS AuditLog, TLAPS

\* emit() keeps the trail a sequence of events no longer than the cap.
LEMMA EmitType ==
    ASSUME NEW E, NEW log \in Seq(E), Len(log) <= AuditCap,
           NEW event \in E
    PROVE  /\ Emit(log, event) \in Seq(E)
           /\ Len(Emit(log, event)) <= AuditCap
  <1> DEFINE grown == <<event>> \o log
  <1>1. grown \in Seq(E) /\ Len(grown) = Len(log) + 1
    OBVIOUS
  <1> HIDE DEF grown
  <1>2. CASE Len(grown) > AuditCap
    <2>1. Emit(log, event) = SubSeq(grown, 1, AuditCap)
      BY <1>2 DEF Emit, grown
    <2>2. AuditCap \in Nat /\ AuditCap <= Len(grown)
      BY <1>1, <1>2, AuditCapAssumption
    <2>3. SubSeq(grown, 1, AuditCap) \in Seq(E)
      BY <1>1, <2>2
    <2>4. Len(SubSeq(grown, 1, AuditCap)) = AuditCap
      BY <1>1, <2>2
    <2> QED
      BY <2>1, <2>2, <2>3, <2>4
  <1>3. CASE ~(Len(grown) > AuditCap)
    <2>1. Emit(log, event) = grown
      BY <1>3 DEF Emit, grown
    <2> QED
      BY <1>1, <1>3, <2>1, AuditCapAssumption
  <1> QED
    BY <1>2, <1>3

\* emit() records its event, and forgets an older one only when it is full.
LEMMA EmitRemembers ==
    ASSUME NEW E, NEW log \in Seq(E), Len(log) <= AuditCap,
           NEW event \in E
    PROVE  /\ Recorded(Emit(log, event), event)
           /\ \/ AtCapacity(Emit(log, event))
              \/ \A old \in E :
                    Recorded(log, old) => Recorded(Emit(log, event), old)
           /\ AtCapacity(log) => AtCapacity(Emit(log, event))
  <1> DEFINE grown == <<event>> \o log
  <1>1. /\ grown \in Seq(E) /\ Len(grown) = Len(log) + 1
        /\ grown[1] = event
        /\ \A i \in 1 .. Len(log) : i + 1 \in 1 .. Len(grown) /\ grown[i + 1] = log[i]
    OBVIOUS
  <1>2. AuditCap \in Nat /\ AuditCap >= 1
    BY AuditCapAssumption
  <1> HIDE DEF grown
  <1>3. CASE Len(grown) > AuditCap
    <2>1. Emit(log, event) = SubSeq(grown, 1, AuditCap)
      BY <1>3 DEF Emit, grown
    <2>2. /\ Len(Emit(log, event)) = AuditCap
          /\ Emit(log, event) \in Seq(E)
          /\ Emit(log, event)[1] = event
      BY <1>1, <1>2, <1>3, <2>1
    <2>3. 1 \in DOMAIN Emit(log, event)
      BY <1>2, <2>2
    <2> QED
      BY <2>2, <2>3 DEF Recorded, AtCapacity
  <1>4. CASE ~(Len(grown) > AuditCap)
    <2>1. Emit(log, event) = grown
      BY <1>4 DEF Emit, grown
    <2>2. Len(log) # AuditCap
      BY <1>1, <1>2, <1>4
    <2>3. 1 \in DOMAIN grown
      BY <1>1
    <2>4. ASSUME NEW old \in E, Recorded(log, old)
          PROVE  Recorded(grown, old)
      <3>1. PICK i \in 1 .. Len(log) : log[i] = old
        BY <2>4 DEF Recorded
      <3>2. i + 1 \in DOMAIN grown /\ grown[i + 1] = old
        BY <1>1, <3>1
      <3> QED
        BY <3>2 DEF Recorded
    <2> QED
      BY <1>1, <2>1, <2>2, <2>3, <2>4 DEF Recorded, AtCapacity
  <1> QED
    BY <1>3, <1>4

\* emit() makes nothing up: the trail holds the event and what it held.
LEMMA EmitAddsOne ==
    ASSUME NEW E, NEW log \in Seq(E), NEW event \in E,
           NEW i \in DOMAIN Emit(log, event)
    PROVE  Emit(log, event)[i] = event \/ Recorded(log, Emit(log, event)[i])
  <1> DEFINE grown == <<event>> \o log
  <1>1. /\ grown \in Seq(E) /\ Len(grown) = Len(log) + 1 /\ DOMAIN grown = 1 .. Len(log) + 1
        /\ grown[1] = event
        /\ \A j \in 2 .. Len(log) + 1 : j - 1 \in DOMAIN log /\ grown[j] = log[j - 1]
    OBVIOUS
  <1>2. \A j \in DOMAIN grown : grown[j] = event \/ Recorded(log, grown[j])
    BY <1>1 DEF Recorded
  <1>3. i \in DOMAIN grown /\ Emit(log, event)[i] = grown[i]
    <2> HIDE DEF grown
    <2>1. CASE Len(grown) > AuditCap
      <3>1. Emit(log, event) = SubSeq(grown, 1, AuditCap)
        BY <2>1 DEF Emit, grown
      <3>2. AuditCap \in Nat
        BY AuditCapAssumption
      <3> QED
        BY <1>1, <2>1, <3>1, <3>2
    <2>2. CASE ~(Len(grown) > AuditCap)
      BY <2>2 DEF Emit, grown
    <2> QED
      BY <2>1, <2>2
  <1> QED
    BY <1>2, <1>3

=============================================================================
