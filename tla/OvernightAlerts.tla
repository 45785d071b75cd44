-------------------------- MODULE OvernightAlerts --------------------------
(***************************************************************************)
(* The overnight risk monitor of one recipient.  A poll reads the live     *)
(* risk, locks the stored row, decides, sends and commits; the row keeps   *)
(* the state last seen and the state last texted.  "UNAVAILABLE" is a      *)
(* failed quote or reference, "OVER" the end of the overnight session or   *)
(* of the position.                                                        *)
(***************************************************************************)
EXTENDS AlertPreferences, FiniteSets

CONSTANTS NightMonitors,     \* processes that run the monitor
          Risks,             \* risk states that occur
          MaxNightMishaps    \* bound on failures after a message has left

ASSUME OvernightAssumption == Risks \subseteq NightStates /\ MaxNightMishaps \in Nat \ {0}

VARIABLES
    night,           \* what get_live_overnight_risk would answer now
    nightRow,        \* the row of this recipient's scope
    nightCheck,      \* what each monitor is doing
    nightTold,       \* the state the recipient read last, since the last reset
    nightMishaps     \* failures after a message had left

nightVars == <<night, nightRow, nightCheck, nightTold, nightMishaps, preferences>>

Payloads == Risks \cup {"UNAVAILABLE", "OVER"}
NightMarks == NightStates \cup {"NONE"}
NoNightRow == [exists |-> FALSE, state |-> "NONE", alerted |-> "NONE"]
NightIdle == [pc |-> "idle", seen |-> "NONE", inserts |-> FALSE]

OvernightInit ==
    /\ PreferencesInit
    /\ night \in Payloads
    /\ nightRow = NoNightRow
    /\ nightCheck = [m \in NightMonitors |-> NightIdle]
    /\ nightTold = "NONE"
    /\ nightMishaps = 0

RiskChanges ==
    /\ night' \in Payloads
    /\ UNCHANGED <<nightRow, nightCheck, nightTold, nightMishaps, preferences>>

NightRecipientActs ==
    /\ PreferencesChange
    /\ UNCHANGED <<night, nightRow, nightCheck, nightTold, nightMishaps>>

NightPasses ==
    /\ SnoozeRuns
    /\ UNCHANGED <<night, nightRow, nightCheck, nightTold, nightMishaps>>

(* get_live_overnight_risk answers before the row is locked.               *)
ReadRisk(m) ==
    /\ nightCheck[m].pc = "idle"
    /\ Subscribed
    /\ nightCheck' = [nightCheck EXCEPT ![m] = [NightIdle EXCEPT !.pc = "read", !.seen = night]]
    /\ UNCHANGED <<night, nightRow, nightTold, nightMishaps, preferences>>

NightRowFree == \A m \in NightMonitors : nightCheck[m].pc \notin {"sending", "sent"} \/ nightCheck[m].inserts

WorthAText(row, risk) ==
    /\ risk \in NightStates
    /\ IF row.state = "NONE" THEN risk \in Serious
                             ELSE risk # row.state /\ OvernightShouldAlert(row, risk)

SendsNow(risk) == WorthAText(nightRow, risk) /\ OvernightDeliveryAllowed(alertMode, Snoozed)

(* Faulty variant: a failed quote resets the row.                          *)
StoredForgetful(row, risk) ==
    IF risk \in NightStates THEN [row EXCEPT !.exists = TRUE, !.state = risk]
    ELSE [exists |-> TRUE, state |-> "NONE", alerted |-> "NONE"]

(* The row after a poll that texts nothing.  An unavailable answer keeps   *)
(* the known state, the end of the session forgets it; a state that may    *)
(* not be texted now is stored all the same.                               *)
Stored(row, risk) ==
    CASE risk = "OVER" -> [exists |-> TRUE, state |-> "NONE", alerted |-> "NONE"]
      [] risk = "UNAVAILABLE" -> [row EXCEPT !.exists = TRUE]
      [] OTHER -> [row EXCEPT !.exists = TRUE, !.state = risk]

StoreRisk(m) ==
    LET risk == nightCheck[m].seen
    IN  /\ nightCheck[m].pc = "read" /\ NightRowFree
        /\ ~SendsNow(risk)
        /\ nightRow' = Stored(nightRow, risk)
        /\ nightTold' = IF risk = "OVER" THEN "NONE" ELSE nightTold
        /\ nightCheck' = [nightCheck EXCEPT ![m] = NightIdle]
        /\ UNCHANGED <<night, nightMishaps, preferences>>

DecideToText(m) ==
    /\ nightCheck[m].pc = "read" /\ NightRowFree
    /\ SendsNow(nightCheck[m].seen)
    /\ nightCheck' = [nightCheck EXCEPT ![m] = [@ EXCEPT !.pc = "sending", !.inserts = ~nightRow.exists]]
    /\ UNCHANGED <<night, nightRow, nightTold, nightMishaps, preferences>>

NightTextDelivered(m) ==
    /\ nightCheck[m].pc = "sending"
    /\ smsConsent
    /\ nightTold' = nightCheck[m].seen
    /\ nightCheck' = [nightCheck EXCEPT ![m].pc = "sent"]
    /\ UNCHANGED <<night, nightRow, nightMishaps, preferences>>

CommitRisk(m) ==
    LET c == nightCheck[m]
    IN  /\ c.pc = "sent"
        /\ c.inserts => ~nightRow.exists
        /\ nightRow' = [exists |-> TRUE, state |-> c.seen, alerted |-> c.seen]
        /\ nightCheck' = [nightCheck EXCEPT ![m] = NightIdle]
        /\ UNCHANGED <<night, nightTold, nightMishaps, preferences>>

(* Two first observations insert the same row: the second commit fails.    *)
NightInsertCollides(m) == nightCheck[m].pc = "sent" /\ nightCheck[m].inserts /\ nightRow.exists

(* A failed read, a refused message, a failed commit or a crash: the       *)
(* transaction rolls back and the next poll tries again.                   *)
NightCheckFails(m) ==
    /\ nightCheck[m].pc \in {"sending", "sent"}
    /\ IF nightCheck[m].pc = "sent"
       THEN /\ nightMishaps < MaxNightMishaps \/ NightInsertCollides(m)
            /\ nightMishaps' = IF nightMishaps < MaxNightMishaps THEN nightMishaps + 1 ELSE nightMishaps
       ELSE UNCHANGED nightMishaps
    /\ nightCheck' = [nightCheck EXCEPT ![m] = NightIdle]
    /\ UNCHANGED <<night, nightRow, nightTold, preferences>>

NightStep(m) ==
    \/ ReadRisk(m) \/ StoreRisk(m) \/ DecideToText(m)
    \/ NightTextDelivered(m) \/ CommitRisk(m) \/ NightCheckFails(m)

OvernightNext ==
    \/ \E m \in NightMonitors : NightStep(m)
    \/ RiskChanges \/ NightRecipientActs \/ NightPasses

(* The polling loop goes on; Twilio does not refuse every message.         *)
NightGoesOn(m) ==
    \/ ReadRisk(m) \/ StoreRisk(m) \/ DecideToText(m) \/ CommitRisk(m)
    \/ NightInsertCollides(m) /\ NightCheckFails(m)

OvernightFairness ==
    /\ WF_nightVars(NightPasses)
    /\ \A m \in NightMonitors : WF_nightVars(NightGoesOn(m)) /\ SF_nightVars(NightTextDelivered(m))

OvernightSpec == OvernightInit /\ [][OvernightNext]_nightVars /\ OvernightFairness
-----------------------------------------------------------------------------
(* Every variable stays in its type.                                       *)
OvernightTypeOK ==
    /\ PreferencesTypeOK
    /\ night \in Payloads
    /\ nightRow \in [exists : BOOLEAN, state : NightMarks, alerted : NightMarks]
    /\ nightCheck \in [NightMonitors -> [pc : {"idle", "read", "sending", "sent"},
                                         seen : Payloads \cup {"NONE"}, inserts : BOOLEAN]]
    /\ nightTold \in NightMarks
    /\ nightMishaps \in 0..MaxNightMishaps

(* Between two polls the row knows exactly what the recipient read last in *)
(* this overnight session, through quote failures, suppressed messages,    *)
(* stale reads and a second monitor: only a failure between the message    *)
(* and its commit separates the two.                                       *)
RowRemembersText ==
    (nightMishaps = 0 /\ \A m \in NightMonitors : nightCheck[m].pc # "sent")
        => nightRow.alerted = nightTold

DeliveryOpen == smsConsent /\ OvernightDeliveryAllowed(alertMode, Snoozed)

(* A recipient who never turned the messages off is told of a position     *)
(* that becomes and stays CRITICAL overnight, whatever failed meanwhile.   *)
CriticalNightReported ==
    []DeliveryOpen => (<>[](night = "CRITICAL") => <>[](nightRow.alerted = "CRITICAL"))

-----------------------------------------------------------------------------
(* Inductive strengthenings, for the proofs.                               *)

OnItsWay(m) == nightCheck[m].pc \in {"sending", "sent"}
NightSent(m) == nightCheck[m].pc = "sent"

(* What is on its way is a state; a row that exists is locked by one.      *)
NightLocked ==
    /\ \A m \in NightMonitors : nightCheck[m].pc = "read" => nightCheck[m].seen \in Payloads
    /\ \A m \in NightMonitors : OnItsWay(m) =>
          /\ nightCheck[m].seen \in NightStates
          /\ nightCheck[m].inserts \/ nightRow.exists
    /\ \A m, o \in NightMonitors :
          /\ OnItsWay(m) /\ OnItsWay(o)
          /\ ~nightCheck[m].inserts /\ ~nightCheck[o].inserts
          => m = o

(* Unless an insert is about to collide, the row knows what was read, or   *)
(* the only monitor that has sent is going to write it.                    *)
NightTellInv ==
    nightMishaps = 0 /\ (\A m \in NightMonitors : ~NightInsertCollides(m)) =>
        /\ (\A m \in NightMonitors : ~NightSent(m)) => nightRow.alerted = nightTold
        /\ \A m \in NightMonitors :
              NightSent(m) /\ (\A o \in NightMonitors : NightSent(o) => o = m)
                 => nightTold = nightCheck[m].seen

=============================================================================
