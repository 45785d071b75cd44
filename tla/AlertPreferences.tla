-------------------------- MODULE AlertPreferences --------------------------
(***************************************************************************)
(* The settings of one recipient that both monitors read while they run:   *)
(* the alert mode, the snooze (as the time left of it) and the consent     *)
(* without which no message leaves.  The recipient changes them at any     *)
(* moment through routes/sms_consent.py.                                   *)
(***************************************************************************)
EXTENDS AlertPolicy

CONSTANTS SnoozeTime,       \* how long ONE_HOUR or UNTIL_TOMORROW lasts
          ModesInUse,       \* the modes the recipient chooses from
          RecipientIsOwner  \* the owner is monitored with or without consent

ASSUME PreferencesAssumption == SnoozeTime \in Nat \ {0} /\ ModesInUse \subseteq Modes
                                /\ RecipientIsOwner \in BOOLEAN

VARIABLES alertMode, snoozeLeft, smsConsent

preferences == <<alertMode, snoozeLeft, smsConsent>>

PreferencesInit ==
    /\ alertMode \in ModesInUse
    /\ snoozeLeft = 0
    /\ smsConsent = TRUE

Snoozed == snoozeLeft > 0

(* Whom a check looks after: the owner, or a subscriber with a live        *)
(* consent (list_active_sms_subscriptions).                                *)
Subscribed == smsConsent \/ RecipientIsOwner

SetMode ==
    /\ alertMode' \in ModesInUse
    /\ UNCHANGED <<snoozeLeft, smsConsent>>

SetSnooze ==
    /\ snoozeLeft' \in {0, SnoozeTime}
    /\ UNCHANGED <<alertMode, smsConsent>>

(* Opt-in and opt-out: consent and subscription change in one transaction. *)
SetConsent ==
    /\ smsConsent' \in BOOLEAN
    /\ UNCHANGED <<alertMode, snoozeLeft>>

PreferencesChange == SetMode \/ SetSnooze \/ SetConsent

(* One unit of time passes for the snooze. *)
SnoozeRuns ==
    /\ snoozeLeft' = IF Snoozed THEN snoozeLeft - 1 ELSE 0
    /\ UNCHANGED <<alertMode, smsConsent>>

PreferencesTypeOK ==
    /\ alertMode \in Modes
    /\ snoozeLeft \in 0..SnoozeTime
    /\ smsConsent \in BOOLEAN
=============================================================================
