---------------------------- MODULE AlertPolicy ----------------------------
(***************************************************************************)
(* When a risk state is worth a text message, and when the recipient's     *)
(* preferences let the message out: the rules of position_alert_service,   *)
(* overnight_alert_service and sms_alert_modes, as operators.  A row is    *)
(* what overnight_alert_states keeps for one scope; "NONE" is SQL's NULL.  *)
(***************************************************************************)
EXTENDS Naturals, Sequences

DayStates == {"GREEN", "ORANGE", "RED", "CRITICAL"}
NightStates == DayStates \cup {"YELLOW"}
DayRank == [GREEN |-> 0, ORANGE |-> 1, RED |-> 2, CRITICAL |-> 3]
AlertStates == {"ORANGE", "RED", "CRITICAL"}
Serious == {"RED", "CRITICAL"}
Modes == {"AFTER_HOURS", "AFTER_HOURS_CRITICAL", "ALL", "OFF"}

(* The states a mode lets the daytime monitor alert; an idle mode lets none. *)
AllowedStates(mode) ==
    CASE mode = "ALL" -> AlertStates
      [] mode = "AFTER_HOURS_CRITICAL" -> {"CRITICAL"}
      [] OTHER -> {}

(* Faulty variant: an alert of the same severity is repeated.              *)
DaytimeAlertsAgain(row, threat) ==
    /\ threat.state \in AlertStates
    /\ \/ row.side # "NONE" /\ row.side # threat.side
       \/ row.alerted = "NONE"
       \/ row.alerted # "NONE" /\ DayRank[threat.state] >= DayRank[row.alerted]

(* A position is worth a message when its threatened side flipped, when it *)
(* has never been seen or alerted, or when it is worse than the last       *)
(* alert.                                                                  *)
DaytimeShouldAlert(row, threat) ==
    /\ threat.state \in AlertStates
    /\ \/ row.side # "NONE" /\ row.side # threat.side
       \/ row.state = "NONE"
       \/ row.alerted = "NONE"
       \/ row.alerted # "NONE" /\ DayRank[threat.state] > DayRank[row.alerted]

(* Faulty variants: no limit; no breakthrough.                             *)
DeliveryUnlimited(mode, snoozed, recent, limit, state) ==
    state \in AllowedStates(mode) /\ (state = "CRITICAL" \/ ~snoozed)
NoBreakthrough(mode, snoozed, recent, limit, state) ==
    state \in AllowedStates(mode) /\ ~snoozed /\ Len(recent) < limit

(* Snooze and the hourly limit, with one CRITICAL an hour that passes both. *)
DaytimeDeliveryAllowed(mode, snoozed, recent, limit, state) ==
    LET criticalRecent == \E i \in DOMAIN recent : recent[i].state = "CRITICAL"
        breakthrough == state = "CRITICAL" /\ ~criticalRecent
    IN  /\ state \in AllowedStates(mode)
        /\ \/ breakthrough
           \/ ~snoozed /\ Len(recent) < limit

(* Only RED, a rise to CRITICAL and a full recovery are worth a message at *)
(* night.                                                                  *)
OvernightShouldAlert(row, state) ==
    CASE state = "CRITICAL" -> row.alerted # "CRITICAL"
      [] state = "RED" -> row.alerted \notin Serious
      [] state = "GREEN" -> row.alerted \in Serious
      [] OTHER -> FALSE

OvernightDeliveryAllowed(mode, snoozed) == mode # "OFF" /\ ~snoozed
============================================================================
