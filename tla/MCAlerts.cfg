SPECIFICATION AlertsSpec
CONSTANTS
    Positions = {c1}
    Monitors = {m1}
    NightMonitors = {m1, m2}
    Threats <- MCThreats
    Risks = {"GREEN", "RED", "CRITICAL"}
    ModesInUse = {"ALL", "AFTER_HOURS_CRITICAL"}
    RecipientIsOwner = TRUE
    SnoozeTime = 1
    AlertLimit = 1
    AlertWindow = 1
    MaxMishaps = 1
    MaxNightMishaps = 1
    c1 = c1
INVARIANTS AlertsTypeOK RowRemembersText
PROPERTIES CriticalIsReported
