\* Two alerts and two incidents; clients send events of the program's types.
SPECIFICATION Spec
CONSTANTS
    Sources = {s1, s2}
    MaxAlerts = 2
    MaxIncidents = 2
    Statuses = {"open", "contained", "resolved"}
    EventTypes = {"detection", "status_change"}
    Keep = Keep
    NoIncident = NoIncident
    MaxEvents = 4
SYMMETRY SourceSymmetry
INVARIANTS
    TypeOK
    OneAlertPerSource
    ResolvedHasTime
    TimelineTellsHistory
PROPERTIES
    RedeliveryKeepsTriage
CHECK_DEADLOCK FALSE
