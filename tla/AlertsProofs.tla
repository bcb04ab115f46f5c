----------------------------- MODULE AlertsProofs -----------------------------
(***************************************************************************)
(* Theorems about Alerts, for every value of its constants.                *)
(*                                                                         *)
(* A step changes the alerts, or the incidents and their timeline, so the  *)
(* invariant has two halves.  The half of the alerts is inductive with the *)
(* checked properties alone.  The half of the incidents adds that every    *)
(* event belongs to an incident, and that the incident whose creation is   *)
(* under way has no event yet.                                             *)
(***************************************************************************)
EXTENDS Alerts, TLAPS

AlertsTyped ==
    /\ alerts \in Seq(Alert) /\ Len(alerts) <= MaxAlerts
    /\ \A id \in DOMAIN alerts : alerts[id].incident \in DOMAIN incidents \cup {NoIncident}

DatedIfResolved(row) == row.status = "resolved" => row.resolved

AlertsInv ==
    /\ AlertsTyped
    /\ OneAlertPerSource
    /\ \A id \in DOMAIN alerts : DatedIfResolved(alerts[id])

IncidentsTyped ==
    /\ incidents \in Seq(Incident) /\ Len(incidents) <= MaxIncidents
    /\ timeline \in Seq(Event) /\ Len(timeline) <= MaxEvents
    /\ handler \in Handler
    /\ BeingCreated \subseteq DOMAIN incidents
    /\ lost \subseteq DOMAIN incidents

\* Events belong to incidents whose creation is over, or was cut short.
EventsBelong ==
    \A k \in DOMAIN timeline : timeline[k].incident \in DOMAIN incidents \ BeingCreated

IncidentsInv ==
    /\ IncidentsTyped
    /\ EventsBelong
    /\ \A id \in DOMAIN incidents : DatedIfResolved(incidents[id])
    /\ TimelineTellsHistory

IInv == AlertsInv /\ IncidentsInv

-----------------------------------------------------------------------------
(* Rows and sequences. *)

\* A table is a sequence without gaps.
LEMMA Append1 ==
    ASSUME NEW S, NEW s \in Seq(S), NEW e \in S
    PROVE  /\ Append(s, e) \in Seq(S)
           /\ DOMAIN s = 1 .. Len(s) /\ Len(s) \in Nat
           /\ DOMAIN Append(s, e) = 1 .. Len(s) + 1
           /\ Len(Append(s, e)) = Len(s) + 1
           /\ Append(s, e)[Len(s) + 1] = e
           /\ \A k \in DOMAIN s : Append(s, e)[k] = s[k]
  OBVIOUS

\* A change of the rows of a table, in place.
LEMMA Mapped ==
    ASSUME NEW S, NEW s \in Seq(S), NEW t, t = [k \in DOMAIN s |-> t[k]],
           \A k \in DOMAIN s : t[k] \in S
    PROVE  t \in Seq(S) /\ Len(t) = Len(s) /\ DOMAIN t = DOMAIN s
  OBVIOUS

LEMMA StatusOfAlert ==
    ASSUME NEW row \in Alert, DatedIfResolved(row), NEW status \in Statuses \cup {Keep}
    PROVE  /\ WithStatus(row, status) \in Alert
           /\ WithStatus(row, status).source = row.source
           /\ WithStatus(row, status).incident = row.incident
           /\ DatedIfResolved(WithStatus(row, status))
  BY DEF WithStatus, Alert, DatedIfResolved

LEMMA StatusOfIncident ==
    ASSUME NEW row \in Incident, DatedIfResolved(row), NEW status \in Statuses \cup {Keep}
    PROVE  /\ WithStatus(row, status) \in Incident
           /\ WithStatus(row, status).status = IF status = Keep THEN row.status ELSE status
           /\ DatedIfResolved(WithStatus(row, status))
  BY DEF WithStatus, Incident, DatedIfResolved

\* An alert moves to an incident.
LEMMA LinkOfAlert ==
    ASSUME NEW row \in Alert, DatedIfResolved(row), NEW i \in IncidentIds \cup {NoIncident}
    PROVE  LET moved == [row EXCEPT !.incident = i]
           IN  /\ moved \in Alert
               /\ moved.source = row.source
               /\ moved.incident = i
               /\ DatedIfResolved(moved)
  BY DEF Alert, DatedIfResolved

-----------------------------------------------------------------------------
(* The alerts. *)

\* A report of something new.
Ingests(src) ==
    /\ ~Reported(src)
    /\ Len(alerts) < MaxAlerts
    /\ alerts' = Append(alerts, NewAlert(src))

\* Alerts change their status or their incident, and keep their source.
Triaged ==
    /\ alerts' \in Seq(Alert) /\ Len(alerts') = Len(alerts)
    /\ \A id \in DOMAIN alerts :
        /\ alerts'[id].source = alerts[id].source
        /\ alerts'[id].incident \in DOMAIN incidents \cup {NoIncident}
        /\ DatedIfResolved(alerts'[id])

LEMMA AlertsShape ==
    ASSUME IInv, Next
    PROVE  UNCHANGED alerts \/ Triaged \/ \E src \in Sources : Ingests(src)
  <1>0. /\ alerts \in Seq(Alert) /\ DOMAIN alerts = 1 .. Len(alerts) /\ Len(alerts) \in Nat
        /\ \A id \in DOMAIN alerts :
              /\ alerts[id] \in Alert /\ DatedIfResolved(alerts[id])
              /\ alerts[id].incident \in DOMAIN incidents \cup {NoIncident}
        /\ DOMAIN incidents \subseteq IncidentIds
    BY AlertsAssumption DEF IInv, AlertsInv, AlertsTyped, IncidentsInv, IncidentsTyped, IncidentIds
  <1>1. ASSUME NEW src \in Sources, IngestAlert(src)
        PROVE  UNCHANGED alerts \/ Ingests(src)
    BY <1>0, <1>1, AlertsAssumption DEF IngestAlert, Ingests, AlertIds
  <1>2. ASSUME NEW id \in AlertIds, NEW status \in Statuses \cup {Keep},
               NEW incident \in IncidentIds \cup {Keep}, UpdateAlert(id, status, incident)
        PROVE  Triaged
    <2> DEFINE row == WithStatus(alerts[id], status)
               new == LinkedTo(row, incident)
    <2>1. id \in DOMAIN alerts /\ incident \in DOMAIN incidents \cup {Keep}
          /\ alerts' = [alerts EXCEPT ![id] = new]
      BY <1>2 DEF UpdateAlert
    <2>2. row \in Alert /\ row.source = alerts[id].source /\ DatedIfResolved(row)
          /\ row.incident = alerts[id].incident
      BY <1>0, <2>1, StatusOfAlert
    <2> HIDE DEF row
    <2>3. new \in Alert /\ new.source = row.source /\ DatedIfResolved(new)
          /\ new.incident \in DOMAIN incidents \cup {NoIncident}
      <3>1. CASE incident = Keep
        BY <1>0, <2>1, <2>2, <3>1 DEF LinkedTo
      <3>2. CASE incident # Keep
        <4>1. incident \in DOMAIN incidents /\ incident \in IncidentIds \cup {NoIncident}
          BY <1>0, <2>1, <3>2
        <4> QED
          BY <2>2, <3>2, <4>1, LinkOfAlert DEF LinkedTo
      <3> QED
        BY <3>1, <3>2
    <2> HIDE DEF new
    <2>4. alerts' \in Seq(Alert) /\ Len(alerts') = Len(alerts)
      BY <1>0, <2>1, <2>3
    <2>5. \A k \in DOMAIN alerts : alerts'[k] = IF k = id THEN new ELSE alerts[k]
      BY <1>0, <2>1
    <2> QED
      BY <1>0, <2>2, <2>3, <2>4, <2>5 DEF Triaged
  <1>3. ASSUME NEW id \in AlertIds, ResolveAlert(id) PROVE Triaged
    <2> DEFINE new == WithStatus(alerts[id], "resolved")
    <2>1. id \in DOMAIN alerts /\ alerts' = [alerts EXCEPT ![id] = new]
      BY <1>3 DEF ResolveAlert
    <2>2. "resolved" \in Statuses \cup {Keep}
      BY AlertsAssumption
    <2>3. new \in Alert /\ new.source = alerts[id].source /\ DatedIfResolved(new)
          /\ new.incident = alerts[id].incident
      BY <1>0, <2>1, <2>2, StatusOfAlert
    <2> HIDE DEF new
    <2>4. alerts' \in Seq(Alert) /\ Len(alerts') = Len(alerts)
      BY <1>0, <2>1, <2>3
    <2>5. \A k \in DOMAIN alerts : alerts'[k] = IF k = id THEN new ELSE alerts[k]
      BY <1>0, <2>1
    <2> QED
      BY <1>0, <2>3, <2>4, <2>5 DEF Triaged
  <1>4. CASE LinkAlerts
    <2>1. handler.incident \in DOMAIN incidents /\ handler.incident \in IncidentIds
      <3>1. handler # Idle
        BY <1>4 DEF LinkAlerts, Idle
      <3> QED
        BY <1>0, <3>1 DEF IInv, IncidentsInv, IncidentsTyped, BeingCreated
    <2>2. ASSUME NEW k \in DOMAIN alerts
          PROVE  /\ alerts'[k] \in Alert
                 /\ alerts'[k].source = alerts[k].source
                 /\ alerts'[k].incident \in DOMAIN incidents \cup {NoIncident}
                 /\ DatedIfResolved(alerts'[k])
      <3>1. alerts[k] \in Alert /\ DatedIfResolved(alerts[k])
            /\ alerts[k].incident \in DOMAIN incidents \cup {NoIncident}
        BY <1>0
      <3>2. CASE k \in handler.links
        <4>1. alerts'[k] = [alerts[k] EXCEPT !.incident = handler.incident]
          BY <1>4, <3>2 DEF LinkAlerts
        <4> QED
          BY <2>1, <3>1, <4>1, LinkOfAlert
      <3>3. CASE k \notin handler.links
        BY <1>4, <3>1, <3>3 DEF LinkAlerts
      <3> QED
        BY <3>2, <3>3
    <2>3. alerts' = [k \in DOMAIN alerts |-> alerts'[k]]
      BY <1>4 DEF LinkAlerts
    <2>4. alerts' \in Seq(Alert) /\ Len(alerts') = Len(alerts)
      BY <1>0, <2>2, <2>3, Mapped
    <2> QED
      BY <2>2, <2>4 DEF Triaged
  <1>5. ASSUME \/ \E links \in SUBSET AlertIds : CreateIncident(links)
               \/ ReportDetection
               \/ \E id \in IncidentIds, status \in Statuses \cup {Keep} :
                        UpdateIncident(id, status)
               \/ \E id \in IncidentIds, type \in EventTypes : AddTimelineEvent(id, type)
               \/ CreationStops
        PROVE  UNCHANGED alerts
    BY <1>5 DEF CreateIncident, ReportDetection, UpdateIncident, AddTimelineEvent, CreationStops
  <1> QED
    BY <1>1, <1>2, <1>3, <1>4, <1>5 DEF Next

LEMMA AlertsStep ==
    ASSUME IInv, Next, DOMAIN incidents \subseteq DOMAIN incidents'
    PROVE  AlertsInv'
  <1> USE DEF AlertsInv, AlertsTyped, OneAlertPerSource
  <1>0. AlertsInv /\ DOMAIN alerts = 1 .. Len(alerts) /\ Len(alerts) \in Nat
        /\ MaxAlerts \in Nat
    BY AlertsAssumption DEF IInv
  <1>1. CASE UNCHANGED alerts
    BY <1>0, <1>1
  <1>2. CASE Triaged
    <2>1. DOMAIN alerts' = DOMAIN alerts
      BY <1>0, <1>2 DEF Triaged
    <2> QED
      BY <1>0, <1>2, <2>1 DEF Triaged
  <1>3. ASSUME NEW src \in Sources, Ingests(src) PROVE AlertsInv'
    <2> DEFINE new == NewAlert(src)
    <2>1. new \in Alert /\ new.source = src /\ new.incident = NoIncident
          /\ DatedIfResolved(new)
      BY AlertsAssumption DEF NewAlert, Alert, DatedIfResolved
    <2> HIDE DEF new
    <2>2. /\ alerts' \in Seq(Alert) /\ Len(alerts') = Len(alerts) + 1
          /\ DOMAIN alerts' = 1 .. Len(alerts) + 1
          /\ alerts'[Len(alerts) + 1] = new
          /\ \A k \in DOMAIN alerts : alerts'[k] = alerts[k]
      BY <1>0, <1>3, <2>1, Append1 DEF Ingests, new
    <2>3. \A k \in DOMAIN alerts' : k \in DOMAIN alerts \/ k = Len(alerts) + 1
      BY <1>0, <2>2
    <2>4. \A k \in DOMAIN alerts : alerts[k].source # src
      BY <1>3 DEF Ingests, Reported
    <2>5. OneAlertPerSource'
      BY <1>0, <2>1, <2>2, <2>3, <2>4
    <2>6. AlertsTyped'
      BY <1>0, <1>3, <2>1, <2>2, <2>3 DEF Ingests
    <2> QED
      BY <1>0, <2>1, <2>2, <2>3, <2>5, <2>6
  <1> QED
    BY <1>1, <1>2, <1>3, AlertsShape

-----------------------------------------------------------------------------
(* The incidents and their timeline. *)

\* The history of one incident, apart from the others.
Tells(id, status) ==
    LET changes == ChangesOf(id)
        Follows(j, k) == j < k /\ \A i \in changes : i <= j \/ k <= i
    IN  /\ changes = {} => status = "open"
        /\ \A k \in changes :
            /\ (\A i \in changes : k <= i) => timeline[k].from = "open"
            /\ \A j \in changes : Follows(j, k) => timeline[k].from = timeline[j].to
            /\ (\A i \in changes : i <= k) => timeline[k].to = status

Detected(id) ==
    \E first \in EventsOf(id) :
        \A k \in EventsOf(id) :
            first <= k /\ (ByProgram(timeline[k], "detection") <=> k = first)

LEMMA TellsHistory ==
    TimelineTellsHistory <=>
        /\ \A id \in DOMAIN incidents : Tells(id, incidents[id].status)
        /\ \A id \in DOMAIN incidents \ (lost \cup BeingCreated) : Detected(id)
  BY DEF TimelineTellsHistory, TimelineTellsStatus, DetectionComesFirst, Tells, Detected

\* One more event of the timeline.
Records(event) ==
    /\ event \in Event
    /\ Len(timeline) < MaxEvents
    /\ Record(event)

LEMMA RecordsShape ==
    ASSUME IncidentsInv, NEW event, Records(event)
    PROVE  /\ timeline' \in Seq(Event) /\ Len(timeline') <= MaxEvents
           /\ Len(timeline) \in Nat /\ DOMAIN timeline = 1 .. Len(timeline)
           /\ DOMAIN timeline' = 1 .. Len(timeline) + 1
           /\ timeline'[Len(timeline) + 1] = event
           /\ \A k \in DOMAIN timeline : timeline'[k] = timeline[k]
  <1>1. timeline \in Seq(Event) /\ MaxEvents \in Nat
    BY AlertsAssumption DEF IncidentsInv, IncidentsTyped
  <1> QED
    BY <1>1, Append1 DEF Records, Record

\* The events of an incident after one more event.
LEMMA RecordsEvents ==
    ASSUME IncidentsInv, NEW event, Records(event), NEW id
    PROVE  /\ EventsOf(id)' = IF event.incident = id THEN EventsOf(id) \cup {Len(timeline) + 1}
                              ELSE EventsOf(id)
           /\ ChangesOf(id)' = IF event.incident = id /\ ByProgram(event, "status_change")
                               THEN ChangesOf(id) \cup {Len(timeline) + 1} ELSE ChangesOf(id)
           /\ \A k \in EventsOf(id) : /\ timeline'[k] = timeline[k]
                                       /\ k \in Nat /\ k < Len(timeline) + 1
  <1>1. /\ Len(timeline) \in Nat /\ DOMAIN timeline = 1 .. Len(timeline)
        /\ DOMAIN timeline' = 1 .. Len(timeline) + 1
        /\ timeline'[Len(timeline) + 1] = event
        /\ \A k \in DOMAIN timeline : timeline'[k] = timeline[k]
    BY RecordsShape
  <1>2. DOMAIN timeline' = DOMAIN timeline \cup {Len(timeline) + 1}
    BY <1>1
  <1>3. \A k \in EventsOf(id) : k \in DOMAIN timeline
    BY DEF EventsOf
  <1>4. EventsOf(id)' = IF event.incident = id THEN EventsOf(id) \cup {Len(timeline) + 1}
                       ELSE EventsOf(id)
    BY <1>1, <1>2 DEF EventsOf
  <1>5. ChangesOf(id)' = IF event.incident = id /\ ByProgram(event, "status_change")
                        THEN ChangesOf(id) \cup {Len(timeline) + 1} ELSE ChangesOf(id)
    BY <1>1, <1>3, <1>4 DEF ChangesOf
  <1> QED
    BY <1>1, <1>3, <1>4, <1>5

\* An event that changes no status leaves every story as it was.
LEMMA StoryStays ==
    ASSUME IncidentsInv, NEW event, Records(event), NEW id, NEW status,
           event.incident # id \/ ~ByProgram(event, "status_change"), Tells(id, status)
    PROVE  Tells(id, status)'
  <1>1. ChangesOf(id)' = ChangesOf(id) /\ \A k \in ChangesOf(id) : timeline'[k] = timeline[k]
    BY RecordsEvents DEF ChangesOf
  <1> QED
    BY <1>1 DEF Tells

\* A change goes on from where the story stood.
LEMMA StoryGoesOn ==
    ASSUME IncidentsInv, NEW event, Records(event), NEW id, NEW status, NEW next,
           event.incident = id, ByProgram(event, "status_change"), event.from = status,
           event.to = next, Tells(id, status)
    PROVE  Tells(id, next)'
  <1> DEFINE n == Len(timeline) + 1
             old == ChangesOf(id)
  <1>1. /\ ChangesOf(id)' = old \cup {n}
        /\ \A k \in old : timeline'[k] = timeline[k] /\ k \in Nat /\ k < n
        /\ timeline'[n] = event /\ n \in Nat
    BY RecordsEvents, RecordsShape DEF ChangesOf
  <1> HIDE DEF n, old
  <1>2. /\ old = {} => status = "open"
        /\ \A k \in old :
            /\ (\A i \in old : k <= i) => timeline[k].from = "open"
            /\ \A j \in old : j < k /\ (\A i \in old : i <= j \/ k <= i)
                                => timeline[k].from = timeline[j].to
            /\ (\A i \in old : i <= k) => timeline[k].to = status
    BY DEF Tells, old
  <1>3. ASSUME NEW k \in old \cup {n}, \A i \in old \cup {n} : k <= i
        PROVE  timeline'[k].from = "open"
    <2>1. CASE k = n
      BY <1>1, <1>2, <1>3, <2>1
    <2>2. CASE k \in old
      BY <1>1, <1>2, <1>3, <2>2
    <2> QED
      BY <2>1, <2>2
  <1>4. ASSUME NEW k \in old \cup {n}, NEW j \in old \cup {n}, j < k,
               \A i \in old \cup {n} : i <= j \/ k <= i
        PROVE  timeline'[k].from = timeline'[j].to
    <2>1. j \in old
      BY <1>1, <1>4
    <2>2. CASE k = n
      <3>1. \A i \in old : i <= j
        BY <1>1, <1>4, <2>2
      <3> QED
        BY <1>1, <1>2, <2>1, <2>2, <3>1
    <2>3. CASE k \in old
      BY <1>1, <1>2, <1>4, <2>1, <2>3
    <2> QED
      BY <2>2, <2>3
  <1>5. ASSUME NEW k \in old \cup {n}, \A i \in old \cup {n} : i <= k
        PROVE  timeline'[k].to = next
    <2>1. k = n
      BY <1>1, <1>5
    <2> QED
      BY <1>1, <2>1
  <1> QED
    BY <1>1, <1>3, <1>4, <1>5 DEF Tells

\* Once detected, an incident is not detected again.
LEMMA DetectedStays ==
    ASSUME IncidentsInv, NEW event, Records(event), NEW id, Detected(id),
           event.incident # id \/ ~ByProgram(event, "detection")
    PROVE  Detected(id)'
  <1> DEFINE n == Len(timeline) + 1
  <1>1. PICK first \in EventsOf(id) :
            \A k \in EventsOf(id) :
                first <= k /\ (ByProgram(timeline[k], "detection") <=> k = first)
    BY DEF Detected
  <1>2. /\ EventsOf(id)' \subseteq EventsOf(id) \cup {n}
        /\ n \in EventsOf(id)' => event.incident = id
        /\ first \in EventsOf(id)'
        /\ \A k \in EventsOf(id) : timeline'[k] = timeline[k] /\ k \in Nat /\ k < n
        /\ timeline'[n] = event
    BY RecordsEvents, RecordsShape
  <1> HIDE DEF n
  <1>3. ASSUME NEW k \in EventsOf(id)'
        PROVE  first <= k /\ (ByProgram(timeline'[k], "detection") <=> k = first)
    <2>1. CASE k \in EventsOf(id)
      BY <1>1, <1>2, <2>1
    <2>2. CASE k = n
      <3>1. ~ByProgram(event, "detection")
        BY <1>2, <1>3, <2>2
      <3>2. first < n /\ first \in Nat /\ n \in Nat
        BY <1>1, <1>2, RecordsShape DEF n
      <3> QED
        BY <1>2, <2>2, <3>1, <3>2
    <2> QED
      BY <1>2, <1>3, <2>1, <2>2
  <1> QED
    BY <1>2, <1>3 DEF Detected

\* An event of an incident whose creation is over.
LEMMA RecordsKeep ==
    ASSUME IncidentsInv, NEW event, Records(event), handler = Idle, handler' = handler,
           event.incident \in DOMAIN incidents, ~ByProgram(event, "detection"),
           UNCHANGED <<lost>>,
           incidents' \in Seq(Incident), Len(incidents') = Len(incidents),
           \A id \in DOMAIN incidents :
               /\ DatedIfResolved(incidents'[id])
               /\ Tells(id, incidents[id].status)'
    PROVE  IncidentsInv'
  <1>1. incidents \in Seq(Incident) /\ DOMAIN incidents' = DOMAIN incidents
    BY DEF IncidentsInv, IncidentsTyped
  <1>2. IncidentsTyped'
    BY <1>1, RecordsShape DEF IncidentsInv, IncidentsTyped, BeingCreated
  <1>3. EventsBelong'
    <2>1. ASSUME NEW k \in DOMAIN timeline'
          PROVE  timeline'[k].incident \in DOMAIN incidents
      BY <2>1, RecordsShape DEF IncidentsInv, EventsBelong
    <2> QED
      BY <1>1, <2>1 DEF EventsBelong, BeingCreated
  <1>4. \A id \in DOMAIN incidents' \ (lost' \cup BeingCreated') : Detected(id)'
    BY <1>1, DetectedStays, TellsHistory DEF IncidentsInv, BeingCreated
  <1>5. (\A id \in DOMAIN incidents : Tells(id, incidents[id].status))'
    BY <1>1
  <1>6. TimelineTellsHistory'
    <2>1. TimelineTellsStatus'
      BY <1>5 DEF TimelineTellsStatus, Tells
    <2>2. DetectionComesFirst'
      BY <1>4 DEF DetectionComesFirst, Detected
    <2> QED
      BY <2>1, <2>2 DEF TimelineTellsHistory
  <1> QED
    BY <1>1, <1>2, <1>3, <1>6 DEF IncidentsInv

LEMMA UpdateKeeps ==
    ASSUME IncidentsInv, NEW id \in IncidentIds, NEW status \in Statuses \cup {Keep},
           UpdateIncident(id, status)
    PROVE  IncidentsInv'
  <1> DEFINE new == WithStatus(incidents[id], status)
  <1>0. /\ incidents \in Seq(Incident) /\ incidents[id] \in Incident
        /\ id \in DOMAIN incidents /\ DatedIfResolved(incidents[id])
        /\ Tells(id, incidents[id].status)
        /\ handler = Idle /\ handler' = handler /\ UNCHANGED <<lost>>
        /\ DOMAIN incidents \subseteq IncidentIds
    BY TellsHistory, AlertsAssumption
       DEF UpdateIncident, LoopFree, IncidentsInv, IncidentsTyped, IncidentIds
  <1>1. /\ new \in Incident /\ DatedIfResolved(new)
        /\ new.status = IF status = Keep THEN incidents[id].status ELSE status
    BY <1>0, StatusOfIncident
  <1>2. incidents' = [incidents EXCEPT ![id] = new]
    BY DEF UpdateIncident
  <1> HIDE DEF new
  <1>3. /\ incidents' \in Seq(Incident) /\ Len(incidents') = Len(incidents)
        /\ DOMAIN incidents' = DOMAIN incidents
        /\ \A k \in DOMAIN incidents : incidents'[k] = IF k = id THEN new ELSE incidents[k]
    BY <1>0, <1>1, <1>2
  <1>4. \A k \in DOMAIN incidents : DatedIfResolved(incidents'[k])
    BY <1>1, <1>3 DEF IncidentsInv
  <1>5. CASE status \in {Keep, incidents[id].status}
    <2>1. UNCHANGED timeline
      BY <1>5 DEF UpdateIncident
    <2>2. \A k \in DOMAIN incidents : incidents'[k].status = incidents[k].status
      BY <1>1, <1>3, <1>5
    <2>3. IncidentsTyped' /\ EventsBelong'
      BY <1>0, <1>3, <2>1 DEF IncidentsInv, IncidentsTyped, EventsBelong, BeingCreated
    <2>4. TimelineTellsHistory'
      BY <1>0, <1>3, <2>1, <2>2
         DEF IncidentsInv, TimelineTellsHistory, TimelineTellsStatus, DetectionComesFirst,
             ChangesOf, EventsOf, BeingCreated
    <2> QED
      BY <1>3, <1>4, <2>3, <2>4 DEF IncidentsInv
  <1>6. CASE status \notin {Keep, incidents[id].status}
    <2> DEFINE event == [by |-> "program", incident |-> id, type |-> "status_change",
                         from |-> incidents[id].status, to |-> status]
    <2>1. Records(event)
      <3>1. Len(timeline) < MaxEvents /\ Record(event)
        BY <1>6 DEF UpdateIncident
      <3>2. event \in Event
        BY <1>0, <1>6 DEF Event, Incident
      <3> QED
        BY <3>1, <3>2 DEF Records
    <2>2. /\ event.incident = id /\ event.from = incidents[id].status /\ event.to = status
          /\ ByProgram(event, "status_change") /\ ~ByProgram(event, "detection")
      BY DEF ByProgram
    <2> HIDE DEF event
    <2>3. ASSUME NEW k \in DOMAIN incidents PROVE Tells(k, incidents[k].status)'
      <3>1. CASE k = id
        <4>1. Tells(id, status)'
          BY <1>0, <2>1, <2>2, StoryGoesOn
        <4>2. incidents'[k].status = status
          BY <1>1, <1>3, <1>6, <3>1
        <4> QED
          BY <3>1, <4>1, <4>2 DEF Tells
      <3>2. CASE k # id
        <4>1. PICK s : s = incidents[k].status
          OBVIOUS
        <4>2. Tells(k, s)
          BY <4>1, TellsHistory DEF IncidentsInv
        <4>3. Tells(k, s)'
          BY <2>1, <2>2, <3>2, <4>2, StoryStays
        <4>4. incidents'[k].status = s
          BY <1>3, <3>2, <4>1
        <4> QED
          BY <4>3, <4>4 DEF Tells
      <3> QED
        BY <3>1, <3>2
    <2> QED
      BY <1>0, <1>3, <1>4, <2>1, <2>2, <2>3, RecordsKeep
  <1> QED
    BY <1>5, <1>6

LEMMA NoteKeeps ==
    ASSUME IncidentsInv, NEW id \in IncidentIds, NEW type \in EventTypes,
           AddTimelineEvent(id, type)
    PROVE  IncidentsInv'
  <1> DEFINE event == [by |-> "client", incident |-> id, type |-> type]
  <1>1. /\ id \in DOMAIN incidents /\ handler = Idle
        /\ UNCHANGED <<incidents, handler, lost>>
        /\ Len(timeline) < MaxEvents /\ Record(event)
    BY DEF AddTimelineEvent, LoopFree
  <1>2. Records(event)
    BY <1>1 DEF Records, Event
  <1>3. /\ event.incident = id
        /\ ~ByProgram(event, "status_change") /\ ~ByProgram(event, "detection")
    BY DEF ByProgram
  <1> HIDE DEF event
  <1>4. ASSUME NEW k \in DOMAIN incidents PROVE Tells(k, incidents[k].status)'
    <2>1. PICK s : s = incidents[k].status
      OBVIOUS
    <2>2. Tells(k, s)
      BY <2>1, TellsHistory DEF IncidentsInv
    <2>3. Tells(k, s)'
      BY <1>2, <1>3, <2>2, StoryStays
    <2> QED
      BY <1>1, <2>1, <2>3 DEF Tells
  <1>5. \A k \in DOMAIN incidents : DatedIfResolved(incidents'[k])
    BY <1>1 DEF IncidentsInv
  <1>6. incidents' \in Seq(Incident) /\ Len(incidents') = Len(incidents)
    BY <1>1 DEF IncidentsInv, IncidentsTyped
  <1> QED
    BY <1>1, <1>2, <1>3, <1>4, <1>5, <1>6, RecordsKeep

\* A new incident is open and has no history yet.
LEMMA CreateKeeps ==
    ASSUME IncidentsInv, NEW links \in SUBSET AlertIds, CreateIncident(links)
    PROVE  IncidentsInv'
  <1> DEFINE id  == Len(incidents) + 1
             new == [status |-> "open", resolved |-> FALSE]
  <1>1. /\ incidents \in Seq(Incident) /\ handler = Idle /\ id \in IncidentIds
        /\ incidents' = Append(incidents, new)
        /\ UNCHANGED <<timeline, lost>>
    BY DEF IncidentsInv, IncidentsTyped, CreateIncident, LoopFree
  <1>2. new \in Incident /\ DatedIfResolved(new) /\ new.status = "open"
    BY AlertsAssumption DEF Incident, DatedIfResolved
  <1> HIDE DEF new
  <1>3. /\ incidents' \in Seq(Incident) /\ DOMAIN incidents = 1 .. Len(incidents)
        /\ Len(incidents) \in Nat
        /\ DOMAIN incidents' = 1 .. id /\ Len(incidents') = id /\ incidents'[id] = new
        /\ \A k \in DOMAIN incidents : incidents'[k] = incidents[k]
    BY <1>1, <1>2, Append1
  <1>4. DOMAIN incidents' = DOMAIN incidents \cup {id} /\ id \notin DOMAIN incidents
    BY <1>3
  <1>5. handler' \in Handler /\ handler' # Idle /\ handler'.incident = id
    <2> DEFINE stage == IF links = {} THEN "reporting" ELSE "linking"
    <2>1. handler' = [stage |-> stage, incident |-> id, links |-> links]
      BY DEF CreateIncident
    <2>2. stage \in {"linking", "reporting"}
      OBVIOUS
    <2> HIDE DEF stage, id
    <2>3. handler' \in Handler /\ handler'.stage # "idle" /\ handler'.incident = id
      BY <1>1, <2>1, <2>2 DEF Handler
    <2> QED
      BY <2>3 DEF Idle
  <1> HIDE DEF id
  <1>6. BeingCreated = {} /\ BeingCreated' = {id}
    BY <1>1, <1>5 DEF BeingCreated
  <1>7. IncidentsTyped'
    BY <1>1, <1>3, <1>4, <1>5, <1>6 DEF IncidentsInv, IncidentsTyped, IncidentIds
  <1>8. EventsBelong'
    BY <1>1, <1>4, <1>6 DEF IncidentsInv, EventsBelong
  <1>9. \A k \in DOMAIN incidents' : DatedIfResolved(incidents'[k])
    BY <1>2, <1>3, <1>4 DEF IncidentsInv
  <1>10. TimelineTellsStatus'
    <2>1. ChangesOf(id) = {}
      BY <1>4 DEF IncidentsInv, EventsBelong, ChangesOf, EventsOf
    <2>2. ASSUME NEW k \in DOMAIN incidents' PROVE Tells(k, incidents[k].status)'
      <3>1. CASE k = id
        BY <1>1, <1>2, <1>3, <2>1, <3>1 DEF Tells, ChangesOf, EventsOf
      <3>2. CASE k # id
        <4>1. k \in DOMAIN incidents /\ incidents'[k] = incidents[k]
          BY <1>3, <1>4, <3>2
        <4>2. Tells(k, incidents[k].status)
          BY <4>1, TellsHistory DEF IncidentsInv
        <4> QED
          BY <1>1, <4>1, <4>2 DEF Tells, ChangesOf, EventsOf
      <3> QED
        BY <3>1, <3>2
    <2> QED
      BY <2>2 DEF TimelineTellsStatus, Tells
  <1>11. DetectionComesFirst'
    BY <1>1, <1>4, <1>6
       DEF IncidentsInv, TimelineTellsHistory, DetectionComesFirst, EventsOf
  <1> QED
    BY <1>7, <1>8, <1>9, <1>10, <1>11 DEF IncidentsInv, TimelineTellsHistory

\* The first event of an incident is its detection.
LEMMA ReportKeeps ==
    ASSUME IncidentsInv, ReportDetection
    PROVE  IncidentsInv'
  <1>0. PICK id : id = handler.incident
    OBVIOUS
  <1> DEFINE event == [by |-> "program", incident |-> id, type |-> "detection"]
             n     == Len(timeline) + 1
  <1>1. /\ handler # Idle /\ handler' = Idle
        /\ UNCHANGED <<incidents, lost>>
        /\ Len(timeline) < MaxEvents /\ Record(event)
    BY <1>0 DEF ReportDetection, Idle
  <1>2. BeingCreated = {id} /\ BeingCreated' = {} /\ id \in DOMAIN incidents
    BY <1>0, <1>1 DEF IncidentsInv, IncidentsTyped, BeingCreated
  <1>3. DOMAIN incidents \subseteq IncidentIds
    BY AlertsAssumption DEF IncidentsInv, IncidentsTyped, IncidentIds
  <1>4. Records(event)
    BY <1>1, <1>2, <1>3 DEF Records, Event
  <1>5. /\ event.incident = id
        /\ ByProgram(event, "detection") /\ ~ByProgram(event, "status_change")
    BY DEF ByProgram
  <1> HIDE DEF event
  <1>6. /\ timeline' \in Seq(Event) /\ Len(timeline') <= MaxEvents
        /\ Len(timeline) \in Nat /\ DOMAIN timeline = 1 .. Len(timeline)
        /\ DOMAIN timeline' = 1 .. n /\ timeline'[n] = event
        /\ \A k \in DOMAIN timeline : timeline'[k] = timeline[k]
    BY <1>4, RecordsShape
  <1>7. IncidentsTyped'
    BY <1>1, <1>2, <1>6 DEF IncidentsInv, IncidentsTyped, Handler, Idle
  <1>8. EventsBelong'
    <2>1. ASSUME NEW k \in DOMAIN timeline' PROVE timeline'[k].incident \in DOMAIN incidents
      BY <1>2, <1>5, <1>6, <2>1 DEF IncidentsInv, EventsBelong
    <2> QED
      BY <1>1, <1>2, <2>1 DEF EventsBelong
  <1>9. TimelineTellsStatus'
    <2>1. ASSUME NEW k \in DOMAIN incidents PROVE Tells(k, incidents[k].status)'
      <3>1. PICK s : s = incidents[k].status
        OBVIOUS
      <3>2. Tells(k, s)
        BY <3>1, TellsHistory DEF IncidentsInv
      <3>3. Tells(k, s)'
        BY <1>4, <1>5, <3>2, StoryStays
      <3> QED
        BY <1>1, <3>1, <3>3 DEF Tells
    <2> QED
      BY <1>1, <2>1 DEF TimelineTellsStatus, Tells
  <1>10. DetectionComesFirst'
    <2>1. Detected(id)'
      <3>1. EventsOf(id) = {}
        BY <1>2 DEF IncidentsInv, EventsBelong, EventsOf
      <3>2. EventsOf(id)' = {n}
        BY <1>4, <1>5, <3>1, RecordsEvents
      <3> QED
        BY <1>5, <1>6, <3>2 DEF Detected
    <2>2. ASSUME NEW k \in DOMAIN incidents \ lost, k # id PROVE Detected(k)'
      <3>1. Detected(k)
        BY <1>2, <2>2, TellsHistory DEF IncidentsInv
      <3> QED
        BY <1>4, <1>5, <2>2, <3>1, DetectedStays
    <2> QED
      BY <1>1, <1>2, <2>1, <2>2 DEF DetectionComesFirst, Detected
  <1>11. \A k \in DOMAIN incidents' : DatedIfResolved(incidents'[k])
    BY <1>1 DEF IncidentsInv
  <1> QED
    BY <1>7, <1>8, <1>9, <1>10, <1>11 DEF IncidentsInv, TimelineTellsHistory

LEMMA IncidentsStep ==
    ASSUME IncidentsInv, Next
    PROVE  IncidentsInv' /\ DOMAIN incidents \subseteq DOMAIN incidents'
  <1>0. incidents \in Seq(Incident)
    BY DEF IncidentsInv, IncidentsTyped
  <1>1. ASSUME UNCHANGED <<incidents, timeline, lost>>,
               handler' = handler \/ LinkAlerts
        PROVE  IncidentsInv' /\ DOMAIN incidents \subseteq DOMAIN incidents'
    <2>1. handler' \in Handler /\ BeingCreated' = BeingCreated
      <3>1. CASE handler' = handler
        BY <3>1 DEF IncidentsInv, IncidentsTyped, BeingCreated
      <3>2. CASE LinkAlerts
        <4>1. handler \in Handler /\ handler.stage = "linking"
              /\ handler' = [handler EXCEPT !.stage = "reporting"]
          BY <3>2 DEF LinkAlerts, IncidentsInv, IncidentsTyped
        <4>2. handler \in [stage : {"linking", "reporting"}, incident : IncidentIds,
                           links : SUBSET AlertIds]
          BY <4>1 DEF Handler
        <4>3. /\ handler' \in [stage : {"linking", "reporting"}, incident : IncidentIds,
                               links : SUBSET AlertIds]
              /\ handler'.stage = "reporting" /\ handler'.incident = handler.incident
          BY <4>1, <4>2
        <4> QED
          BY <4>1, <4>3 DEF Handler, BeingCreated, Idle
      <3> QED
        BY <1>1, <3>1, <3>2
    <2>2. IncidentsTyped' /\ EventsBelong'
      BY <1>1, <2>1 DEF IncidentsInv, IncidentsTyped, EventsBelong
    <2>3. TimelineTellsHistory'
      BY <1>1, <2>1 DEF IncidentsInv, TimelineTellsHistory, TimelineTellsStatus,
                        DetectionComesFirst, ChangesOf, EventsOf
    <2> QED
      BY <1>1, <2>2, <2>3 DEF IncidentsInv
  <1>2. ASSUME \/ \E src \in Sources : IngestAlert(src)
               \/ \E id \in AlertIds, status \in Statuses \cup {Keep},
                     incident \in IncidentIds \cup {Keep} : UpdateAlert(id, status, incident)
               \/ \E id \in AlertIds : ResolveAlert(id)
               \/ LinkAlerts
        PROVE  IncidentsInv' /\ DOMAIN incidents \subseteq DOMAIN incidents'
    BY <1>1, <1>2 DEF IngestAlert, UpdateAlert, ResolveAlert, LinkAlerts
  <1>3. ASSUME NEW links \in SUBSET AlertIds, CreateIncident(links)
        PROVE  IncidentsInv' /\ DOMAIN incidents \subseteq DOMAIN incidents'
    <2>1. incidents' = Append(incidents, [status |-> "open", resolved |-> FALSE])
      BY <1>3 DEF CreateIncident
    <2>2. DOMAIN incidents \subseteq DOMAIN incidents'
      BY <1>0, <2>1
    <2> QED
      BY <1>3, <2>2, CreateKeeps
  <1>4. CASE ReportDetection
    BY <1>4, ReportKeeps DEF ReportDetection
  <1>5. ASSUME NEW id \in IncidentIds, NEW status \in Statuses \cup {Keep},
               UpdateIncident(id, status)
        PROVE  IncidentsInv' /\ DOMAIN incidents \subseteq DOMAIN incidents'
    BY <1>5, UpdateKeeps DEF UpdateIncident
  <1>6. ASSUME NEW id \in IncidentIds, NEW type \in EventTypes, AddTimelineEvent(id, type)
        PROVE  IncidentsInv' /\ DOMAIN incidents \subseteq DOMAIN incidents'
    BY <1>6, NoteKeeps DEF AddTimelineEvent
  <1>7. CASE CreationStops
    <2>1. BeingCreated' = {} /\ handler' \in Handler
      BY <1>7 DEF CreationStops, BeingCreated, Handler, Idle
    <2>2. IncidentsTyped' /\ EventsBelong'
      BY <1>7, <2>1 DEF CreationStops, IncidentsInv, IncidentsTyped, EventsBelong
    <2>3. TimelineTellsStatus'
      BY <1>7 DEF CreationStops, IncidentsInv, TimelineTellsHistory, TimelineTellsStatus,
                  ChangesOf, EventsOf
    <2>4. DetectionComesFirst'
      BY <1>7, <2>1 DEF CreationStops, IncidentsInv, TimelineTellsHistory, DetectionComesFirst,
                        EventsOf
    <2> QED
      BY <1>7, <2>2, <2>3, <2>4 DEF CreationStops, IncidentsInv, TimelineTellsHistory
  <1> QED
    BY <1>2, <1>3, <1>4, <1>5, <1>6, <1>7 DEF Next

-----------------------------------------------------------------------------
(* The theorems. *)

LEMMA InitInv == Init => IInv
  <1> SUFFICES ASSUME Init PROVE IInv
    OBVIOUS
  <1>1. AlertsInv
    BY AlertsAssumption DEF Init, AlertsInv, AlertsTyped, OneAlertPerSource
  <1>2. IncidentsInv
    BY AlertsAssumption
       DEF Init, IncidentsInv, IncidentsTyped, EventsBelong, BeingCreated, Handler, Idle,
           TimelineTellsHistory, TimelineTellsStatus, DetectionComesFirst
  <1> QED
    BY <1>1, <1>2 DEF IInv

LEMMA InvStep == IInv /\ [Next]_vars => IInv'
  <1> SUFFICES ASSUME IInv, [Next]_vars PROVE IInv'
    OBVIOUS
  <1>1. CASE Next
    BY <1>1, AlertsStep, IncidentsStep DEF IInv
  <1>2. CASE UNCHANGED vars
    BY <1>2 DEF vars, IInv, AlertsInv, AlertsTyped, OneAlertPerSource, IncidentsInv,
                IncidentsTyped, EventsBelong, BeingCreated, TimelineTellsHistory,
                TimelineTellsStatus, DetectionComesFirst, ChangesOf, EventsOf
  <1> QED
    BY <1>1, <1>2

\* The inductive invariant holds in every reachable state.
THEOREM Invariant == Spec => []IInv
  BY InitInv, InvStep, PTL DEF Spec

\* Every row has its type, and the incident that an alert is linked to exists, also
\* where create_incident stopped between its commits.
THEOREM TypeCorrect == Spec => []TypeOK
  <1>1. IInv => TypeOK
    BY AlertsAssumption
       DEF IInv, AlertsInv, AlertsTyped, IncidentsInv, IncidentsTyped, TypeOK, AlertIds,
           IncidentIds
  <1> QED
    BY <1>1, Invariant, PTL

\* However often a finding is reported, it is one alert.
THEOREM ReportsAreDeduplicated == Spec => []OneAlertPerSource
  <1>1. IInv => OneAlertPerSource
    BY DEF IInv, AlertsInv
  <1> QED
    BY <1>1, Invariant, PTL

\* What is resolved has a time of resolution, whichever handler closed it.
THEOREM ResolutionIsDated == Spec => []ResolvedHasTime
  <1>1. IInv => ResolvedHasTime
    BY DEF IInv, AlertsInv, IncidentsInv, DatedIfResolved, ResolvedHasTime
  <1> QED
    BY <1>1, Invariant, PTL

\* The timeline of an incident accounts for every change up to its present status,
\* and, unless its creation was cut short, starts with its detection.
THEOREM HistoryIsComplete == Spec => []TimelineTellsHistory
  <1>1. IInv => TimelineTellsHistory
    BY DEF IInv, IncidentsInv
  <1> QED
    BY <1>1, Invariant, PTL

\* A repeated report leaves every alert as the analysts left it.
THEOREM TriageSurvivesReports == Spec => RedeliveryKeepsTriage
  <1>1. IInv /\ [Next]_vars =>
            [\A src \in Sources : IngestAlert(src) =>
                \A id \in DOMAIN alerts : alerts'[id] = alerts[id]]_vars
    <2> SUFFICES ASSUME IInv, NEW src \in Sources, IngestAlert(src), NEW id \in DOMAIN alerts
                 PROVE  alerts'[id] = alerts[id]
      OBVIOUS
    <2>1. alerts \in Seq(Alert)
      BY DEF IInv, AlertsInv, AlertsTyped
    <2> QED
      BY <2>1 DEF IngestAlert
  <1> QED
    BY <1>1, Invariant, PTL DEF Spec, RedeliveryKeepsTriage

===============================================================================
