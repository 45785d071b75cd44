------------------------------ MODULE MCAlerts ------------------------------
(***************************************************************************)
(* The daytime and the overnight monitor on small instances.  They never   *)
(* run in the same session, so each behaviour shows one of them: one       *)
(* daytime monitor (MCServices has two), or two overnight monitors.        *)
(***************************************************************************)
EXTENDS DaytimeAlerts, OvernightAlerts

VARIABLE shift

alertVars == <<shift, dayVars, nightVars>>

MCThreats == {[state |-> "GREEN", side |-> "PUT"], [state |-> "CRITICAL", side |-> "PUT"],
              [state |-> "RED", side |-> "CALL"]}

AlertsInit ==
    \/ /\ shift = "day"
       /\ DaytimeInit /\ OvernightInit /\ night = "OVER"
    \/ /\ shift = "night"
       /\ DaytimeInit /\ threat = [p \in Positions |-> [state |-> "GREEN", side |-> "PUT"]]
       /\ OvernightInit

dayOnly == <<threat, dayRow, dayCheck, deliveries, texted, texts, mishaps>>
nightOnly == <<night, nightRow, nightCheck, nightTold, nightMishaps>>

ByDay(step) == shift = "day" /\ step /\ UNCHANGED <<shift, nightOnly>>

ByNight(step) == shift = "night" /\ step /\ UNCHANGED <<shift, dayOnly>>

AlertsNext == ByDay(DaytimeNext) \/ ByNight(OvernightNext)

(* DaytimeFairness by day and OvernightFairness by night.                  *)
AlertsFairness ==
    /\ WF_alertVars(ByDay(MinutePasses) \/ ByNight(NightPasses))
    /\ \A m \in Monitors : WF_alertVars(ByDay(CheckGoesOn(m))) /\ SF_alertVars(ByDay(TextDelivered(m)))
    /\ \A m \in NightMonitors : WF_alertVars(ByNight(NightGoesOn(m))) /\ SF_alertVars(ByNight(NightTextDelivered(m)))

(* Every variable of both monitors stays in its type.                      *)
AlertsTypeOK == shift \in {"day", "night"} /\ DaytimeTypeOK /\ OvernightTypeOK

(* CRITICAL is reported by either monitor: by day through a snooze and a   *)
(* spent hourly limit, at night after any failure, once the recipient      *)
(* stays reachable.                                                        *)
CriticalIsReported == CriticalGetsThrough /\ CriticalNightReported

AlertsSpec == AlertsInit /\ [][AlertsNext]_alertVars /\ AlertsFairness
=============================================================================
