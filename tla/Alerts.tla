------------------------------- MODULE Alerts -------------------------------
(***************************************************************************)
(* The alert correlation service                                           *)
(* (_archive/planned-services/alert-correlation-service): alerts that      *)
(* other services report, and the incidents that group them.               *)
(*                                                                         *)
(* Its handlers are coroutines without an await, so the event loop runs    *)
(* one at a time from its first statement to its last.  But                *)
(* create_incident commits three times, and between two commits it may be  *)
(* cut short, by a statement that raises or by a crash.  A handler with    *)
(* one commit has all of its effect or none.  The answers are left out:    *)
(* every handler fails to build its response (the fields declared str are  *)
(* datetimes) after it has committed.                                      *)
(***************************************************************************)
EXTENDS Integers, Sequences

CONSTANTS
    Sources,        \* (source_service, source_id) of what is reported
    Statuses,       \* the strings clients send as a status
    EventTypes,     \* the types clients send for an event of their own
    Keep,           \* a field that a request leaves out
    NoIncident,     \* NULL
    MaxAlerts, MaxIncidents, MaxEvents      \* bounds: rows of each table

\* The serial columns.
AlertIds    == 1 .. MaxAlerts
IncidentIds == 1 .. MaxIncidents

ASSUME AlertsAssumption ==
    /\ {"open", "resolved"} \subseteq Statuses
    /\ Keep \notin Statuses /\ Keep \notin IncidentIds
    /\ NoIncident \notin IncidentIds
    /\ {MaxAlerts, MaxIncidents, MaxEvents} \subseteq Nat

VARIABLES
    alerts,         \* table alerts, by id
    incidents,      \* table incidents, by id
    timeline,       \* table incident_timeline_events, in the order of its ids
    handler,        \* the create_incident that the event loop runs, if any
    lost            \* history: incidents whose creation was cut short

vars == <<alerts, incidents, timeline, handler, lost>>

\* resolved: resolved_at is not NULL.
Alert    == [source : Sources, status : Statuses, incident : IncidentIds \cup {NoIncident},
             resolved : BOOLEAN]
Incident == [status : Statuses, resolved : BOOLEAN]

\* The program writes events of two types, the second of which names both
\* statuses; a client's may have any type, also one of these.  `by` is a history
\* field: no column tells who wrote an event.
Event ==
    [by : {"program"}, incident : IncidentIds, type : {"detection"}]
    \cup [by : {"program"}, incident : IncidentIds, type : {"status_change"},
          from : Statuses, to : Statuses]
    \cup [by : {"client"}, incident : IncidentIds, type : EventTypes]

Handler ==
    [stage : {"idle"}]
    \cup [stage : {"linking", "reporting"}, incident : IncidentIds, links : SUBSET AlertIds]

Idle == [stage |-> "idle"]

\* Faulty variant: handlers that run in threads.
LoopFreeAlways == TRUE

\* The event loop takes up the next request.
LoopFree == handler = Idle

Init ==
    /\ alerts = <<>>
    /\ incidents = <<>>
    /\ timeline = <<>>
    /\ handler = Idle
    /\ lost = {}

BeingCreated == IF handler = Idle THEN {} ELSE {handler.incident}

Record(event) == timeline' = Append(timeline, event)

(***************************************************************************)
(* Alerts                                                                  *)
(***************************************************************************)
Reported(src) == \E id \in DOMAIN alerts : alerts[id].source = src

NewAlert(src) ==
    [source |-> src, status |-> "open", incident |-> NoIncident, resolved |-> FALSE]

\* Faulty variants: without the look-up and the unique key; a repeated report
\* opens the alert again.
IngestAlertUnchecked(src) ==
    /\ LoopFree
    /\ Len(alerts) + 1 \in AlertIds
    /\ alerts' = Append(alerts, NewAlert(src))
    /\ UNCHANGED <<incidents, timeline, handler, lost>>

IngestAlertReopening(src) ==
    /\ LoopFree
    /\ IF Reported(src)
       THEN alerts' = [id \in DOMAIN alerts |->
                IF alerts[id].source = src THEN NewAlert(src) ELSE alerts[id]]
       ELSE /\ Len(alerts) + 1 \in AlertIds
            /\ alerts' = Append(alerts, NewAlert(src))
    /\ UNCHANGED <<incidents, timeline, handler, lost>>

\* ingest_alert: services report again what they find again.
IngestAlert(src) ==
    /\ LoopFree
    /\ IF Reported(src)
       THEN UNCHANGED alerts
       ELSE /\ Len(alerts) + 1 \in AlertIds
            /\ alerts' = Append(alerts, NewAlert(src))
    /\ UNCHANGED <<incidents, timeline, handler, lost>>

\* Faulty variant: the time is left to resolve_alert.
WithStatusOnly(row, status) ==
    IF status = Keep THEN row ELSE [row EXCEPT !.status = status]

\* A row after a request for a status: resolved_at is set, and never cleared.
WithStatus(row, status) ==
    IF status = Keep THEN row
    ELSE [row EXCEPT !.status = status, !.resolved = @ \/ status = "resolved"]

LinkedTo(row, incident) ==
    IF incident = Keep THEN row ELSE [row EXCEPT !.incident = incident]

\* Faulty variant: no foreign key.
UpdateAlertUnchecked(id, status, incident) ==
    /\ LoopFree
    /\ id \in DOMAIN alerts
    /\ alerts' = [alerts EXCEPT ![id] = LinkedTo(WithStatus(@, status), incident)]
    /\ UNCHANGED <<incidents, timeline, handler, lost>>

\* update_alert: an incident that does not exist fails the whole commit.
UpdateAlert(id, status, incident) ==
    /\ LoopFree
    /\ id \in DOMAIN alerts
    /\ incident \in DOMAIN incidents \cup {Keep}
    /\ alerts' = [alerts EXCEPT ![id] = LinkedTo(WithStatus(@, status), incident)]
    /\ UNCHANGED <<incidents, timeline, handler, lost>>

ResolveAlert(id) ==
    /\ LoopFree
    /\ id \in DOMAIN alerts
    /\ alerts' = [alerts EXCEPT ![id] = WithStatus(@, "resolved")]
    /\ UNCHANGED <<incidents, timeline, handler, lost>>

(***************************************************************************)
(* Incidents                                                               *)
(***************************************************************************)
\* create_incident, to its first commit.
CreateIncident(links) ==
    LET id == Len(incidents) + 1
    IN  /\ LoopFree
        /\ id \in IncidentIds
        /\ incidents' = Append(incidents, [status |-> "open", resolved |-> FALSE])
        /\ handler' = [stage    |-> IF links = {} THEN "reporting" ELSE "linking",
                       incident |-> id, links |-> links]
        /\ UNCHANGED <<alerts, timeline, lost>>

\* To its second commit: alerts that exist move here, from wherever they were.
LinkAlerts ==
    /\ handler.stage = "linking"
    /\ alerts' = [id \in DOMAIN alerts |->
                    IF id \in handler.links
                    THEN [alerts[id] EXCEPT !.incident = handler.incident] ELSE alerts[id]]
    /\ handler' = [handler EXCEPT !.stage = "reporting"]
    /\ UNCHANGED <<incidents, timeline, lost>>

\* To its third.
ReportDetection ==
    /\ handler.stage = "reporting"
    /\ Len(timeline) < MaxEvents
    /\ Record([by |-> "program", incident |-> handler.incident, type |-> "detection"])
    /\ handler' = Idle
    /\ UNCHANGED <<alerts, incidents, lost>>

\* update_incident: row and event in one commit.
UpdateIncident(id, status) ==
    /\ LoopFree
    /\ id \in DOMAIN incidents
    /\ incidents' = [incidents EXCEPT ![id] = WithStatus(@, status)]
    /\ IF status \in {Keep, incidents[id].status}
       THEN UNCHANGED timeline
       ELSE /\ Len(timeline) < MaxEvents
            /\ Record([by |-> "program", incident |-> id, type |-> "status_change",
                       from |-> incidents[id].status, to |-> status])
    /\ UNCHANGED <<alerts, handler, lost>>

\* add_timeline_event stores the type as it is sent.
AddTimelineEvent(id, type) ==
    /\ LoopFree
    /\ id \in DOMAIN incidents
    /\ Len(timeline) < MaxEvents
    /\ Record([by |-> "client", incident |-> id, type |-> type])
    /\ UNCHANGED <<alerts, incidents, handler, lost>>

\* Between the commits of create_incident, or in the second or the third, the
\* process dies or a statement raises: for an alert id that no INTEGER holds, or
\* for a database error.  What is committed stays.
CreationStops ==
    /\ handler # Idle
    /\ lost' = lost \cup BeingCreated
    /\ handler' = Idle
    /\ UNCHANGED <<alerts, incidents, timeline>>

Next ==
    \/ \E src \in Sources : IngestAlert(src)
    \/ \E id \in AlertIds, status \in Statuses \cup {Keep},
          incident \in IncidentIds \cup {Keep} : UpdateAlert(id, status, incident)
    \/ \E id \in AlertIds : ResolveAlert(id)
    \/ \E links \in SUBSET AlertIds : CreateIncident(links)
    \/ LinkAlerts
    \/ ReportDetection
    \/ \E id \in IncidentIds, status \in Statuses \cup {Keep} : UpdateIncident(id, status)
    \/ \E id \in IncidentIds, type \in EventTypes : AddTimelineEvent(id, type)
    \/ CreationStops

Spec == Init /\ [][Next]_vars

(***************************************************************************)
(* Properties                                                              *)
(***************************************************************************)
\* A link always leads to an incident.
TypeOK ==
    /\ DOMAIN alerts \subseteq AlertIds
    /\ \A id \in DOMAIN alerts :
        /\ alerts[id] \in Alert
        /\ alerts[id].incident \in DOMAIN incidents \cup {NoIncident}
    /\ DOMAIN incidents \subseteq IncidentIds
    /\ \A id \in DOMAIN incidents : incidents[id] \in Incident
    /\ timeline \in Seq(Event) /\ Len(timeline) <= MaxEvents
    /\ handler \in Handler
    /\ lost \subseteq DOMAIN incidents

\* However often a service reports a finding, it is one alert.
OneAlertPerSource ==
    \A i, j \in DOMAIN alerts : alerts[i].source = alerts[j].source => i = j

\* A repeated report does not undo what analysts did: it leaves the status, the
\* link and the time of resolution of every alert alone.
RedeliveryKeepsTriage ==
    [][ \A src \in Sources : IngestAlert(src) =>
            \A id \in DOMAIN alerts : alerts'[id] = alerts[id] ]_vars

\* resolve_alert, update_alert and update_incident agree: what is resolved has a
\* time of resolution.
ResolvedHasTime ==
    /\ \A id \in DOMAIN alerts : alerts[id].status = "resolved" => alerts[id].resolved
    /\ \A id \in DOMAIN incidents :
            incidents[id].status = "resolved" => incidents[id].resolved

ByProgram(event, type) == event.by = "program" /\ event.type = type

EventsOf(id)  == {k \in DOMAIN timeline : timeline[k].incident = id}
ChangesOf(id) == {k \in EventsOf(id) : ByProgram(timeline[k], "status_change")}

\* The timeline and the row tell one story: the changes of an incident that the
\* program recorded start at "open", each where the one before it ended, and end
\* at its status.
TimelineTellsStatus ==
    \A id \in DOMAIN incidents :
        LET changes == ChangesOf(id)
            Follows(j, k) == j < k /\ \A i \in changes : i <= j \/ k <= i
        IN  /\ changes = {} => incidents[id].status = "open"
            /\ \A k \in changes :
                /\ (\A i \in changes : k <= i) => timeline[k].from = "open"
                /\ \A j \in changes : Follows(j, k) => timeline[k].from = timeline[j].to
                /\ (\A i \in changes : i <= k) => timeline[k].to = incidents[id].status

\* The history of an incident begins with its detection, before any event of a
\* client, and the program reports it once, unless the creation was cut short.
DetectionComesFirst ==
    \A id \in DOMAIN incidents \ (lost \cup BeingCreated) :
        \E first \in EventsOf(id) :
            \A k \in EventsOf(id) :
                first <= k /\ (ByProgram(timeline[k], "detection") <=> k = first)

\* The timeline is the history of its incident, from the detection to the status
\* of today.
TimelineTellsHistory == TimelineTellsStatus /\ DetectionComesFirst

=============================================================================
