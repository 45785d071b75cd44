----------------------------- MODULE SmsConsent -----------------------------
(***************************************************************************)
(* Whose phone an alert may reach: the user rows and the consent rows of   *)
(* sms_consent_service, changed by users, by the administrator and by      *)
(* every start of a process, while alert loops work through lists of       *)
(* subscriptions they read before.  A deployment starts the new process    *)
(* while the old one still serves and texts.  A request and an assignment  *)
(* are one transaction each, its reads and its commit one step.            *)
(***************************************************************************)
EXTENDS Naturals

CONSTANTS Subscribers,    \* database-backed users
          Phones,         \* mobile numbers in E.164 form
          Loops,          \* alert loops, of whichever process runs them
          Pending,        \* BXK_SMS_PENDING_ASSIGNMENTS: user to phone
          NoPhone, Nobody

ASSUME ConsentAssumption ==
    /\ NoPhone \notin Phones /\ Nobody \notin Subscribers
    /\ Pending \in [Subscribers -> Phones \cup {NoPhone}]

VARIABLES
    account,     \* users: is_active, sms_phone_e164, sms_alerts_enabled
    consent,     \* sms_consents, by phone
    alert,       \* each loop: the subscription in hand and how far it is
    starting,    \* assignments the process that starts has yet to apply
    optedOut     \* users whose last word was an opt-out

consentVars == <<account, consent, alert, starting, optedOut>>

NoConsent == [user |-> Nobody, active |-> FALSE]
NoAlert == [pc |-> "idle", user |-> Nobody, phone |-> NoPhone, moved |-> FALSE]

ConsentInit ==
    /\ account = [u \in Subscribers |-> [active |-> TRUE, phone |-> NoPhone, enabled |-> FALSE]]
    /\ consent = [p \in Phones |-> NoConsent]
    /\ alert = [l \in Loops |-> NoAlert]
    /\ starting = {} /\ optedOut = {}

Taken(u, p) == \E v \in Subscribers \ {u} : account[v].phone = p

(* Faulty variant: the consent of the phone the user had before stays.     *)
RecordConsentKeepingOld(u, p) ==
    /\ account[u].active
    /\ ~Taken(u, p)
    /\ consent[p].user \in {Nobody, u}
    /\ consent' = [consent EXCEPT ![p] = [user |-> u, active |-> TRUE]]
    /\ account' = [account EXCEPT ![u] = [@ EXCEPT !.phone = p, !.enabled = TRUE]]
    /\ optedOut' = optedOut \ {u}
    /\ UNCHANGED <<alert, starting>>

(* record_sms_consent.  The row of a phone keeps its user for good; the    *)
(* consent of the phone the user had before is revoked.                    *)
RecordConsent(u, p) ==
    /\ account[u].active
    /\ ~Taken(u, p)
    /\ consent[p].user \in {Nobody, u}
    /\ consent' = [q \in Phones |->
                     CASE q = p -> [user |-> u, active |-> TRUE]
                       [] q # p /\ q = account[u].phone -> [consent[q] EXCEPT !.active = FALSE]
                       [] OTHER -> consent[q]]
    /\ account' = [account EXCEPT ![u] = [@ EXCEPT !.phone = p, !.enabled = TRUE]]
    /\ optedOut' = optedOut \ {u}
    /\ UNCHANGED <<alert, starting>>

(* revoke_user_sms_consent, whoever the row of the phone belongs to.       *)
RevokeConsent(u) ==
    /\ consent' = [q \in Phones |-> IF q = account[u].phone THEN [consent[q] EXCEPT !.active = FALSE]
                                                            ELSE consent[q]]
    /\ account' = [account EXCEPT ![u].enabled = FALSE]
    /\ optedOut' = optedOut \cup {u}
    /\ UNCHANGED <<alert, starting>>

SetActive(u) ==
    /\ account' = [account EXCEPT ![u].active = ~@]
    /\ UNCHANGED <<consent, alert, starting, optedOut>>

(* The lifespan of a new process applies the pending assignments first.    *)
(* The old one goes on: its requests are served and its loops run, until   *)
(* they are cut off (AlertEnds).                                           *)
Restart ==
    /\ starting' = {u \in Subscribers : Pending[u] # NoPhone}
    /\ UNCHANGED <<account, consent, alert, optedOut>>

(* moved only remembers, for the property below: the number of the user in *)
(* hand has been taken from under the loop.                                *)
TakenAway(u, c) == c.user = u /\ c.phone # Pending[u]

(* provision_sms_phone: the number is assigned and the alerts are off; no  *)
(* consent row is touched.  A number that is taken ends the assignments.   *)
ProvisionPhone(u) ==
    /\ u \in starting
    /\ IF Taken(u, Pending[u])
       THEN starting' = {} /\ UNCHANGED <<account, alert>>
       ELSE /\ starting' = starting \ {u}
            /\ account' = [account EXCEPT ![u] = [@ EXCEPT !.phone = Pending[u], !.enabled = FALSE]]
            /\ alert' = [l \in Loops |-> [alert[l] EXCEPT !.moved = @ \/ TakenAway(u, alert[l])]]
    /\ UNCHANGED <<consent, optedOut>>

(* list_active_sms_subscriptions; the list is worked through afterwards.   *)
ListSubscription(l, u) ==
    LET p == account[u].phone
    IN  /\ alert[l].pc = "idle"
        /\ account[u].active /\ account[u].enabled
        /\ p # NoPhone /\ consent[p] = [user |-> u, active |-> TRUE]
        /\ alert' = [alert EXCEPT ![l] = [pc |-> "listed", user |-> u, phone |-> p, moved |-> FALSE]]
        /\ UNCHANGED <<account, consent, starting, optedOut>>

(* has_active_sms_consent, asked again by send_bxk_sms by phone alone.     *)
ConsentStillActive(l) ==
    /\ alert[l].pc = "listed"
    /\ consent[alert[l].phone].active
    /\ alert' = [alert EXCEPT ![l].pc = "checked"]
    /\ UNCHANGED <<account, consent, starting, optedOut>>

(* The message leaves, is refused, was not worth sending, or dies with the *)
(* process of the loop.                                                    *)
AlertEnds(l) ==
    /\ alert[l].pc # "idle"
    /\ alert' = [alert EXCEPT ![l] = NoAlert]
    /\ UNCHANGED <<account, consent, starting, optedOut>>

Serving ==
    \E u \in Subscribers : RevokeConsent(u) \/ SetActive(u) \/ \E p \in Phones : RecordConsent(u, p)

Alerting ==
    \E l \in Loops :
        ConsentStillActive(l) \/ AlertEnds(l) \/ \E u \in Subscribers : ListSubscription(l, u)

ConsentNext ==
    \/ Serving
    \/ Alerting
    \/ Restart
    \/ \E u \in Subscribers : ProvisionPhone(u)

ConsentSpec == ConsentInit /\ [][ConsentNext]_consentVars
-----------------------------------------------------------------------------
(* Every variable stays in its type.                                       *)
ConsentTypeOK ==
    /\ account \in [Subscribers -> [active : BOOLEAN, phone : Phones \cup {NoPhone}, enabled : BOOLEAN]]
    /\ consent \in [Phones -> [user : Subscribers \cup {Nobody}, active : BOOLEAN]]
    /\ alert \in [Loops -> [pc : {"idle", "listed", "checked"}, user : Subscribers \cup {Nobody},
                            phone : Phones \cup {NoPhone}, moved : BOOLEAN]]
    /\ starting \subseteq Subscribers /\ optedOut \subseteq Subscribers

(* A message about a user's positions passes its last check only for a     *)
(* phone whose consent that same user gave and has not taken back: the     *)
(* check asks by phone alone, after the loop listed the subscription, and  *)
(* meanwhile the user may have opted out or changed phones, and the number *)
(* may have changed hands.  The one exception is a deployment that assigns *)
(* the user another number while the loop still holds the former one: an   *)
(* opt-out then revokes the new number only (revoke_user_sms_consent).     *)
AlertReachesConsenter ==
    [][\A l \in Loops : alert[l].pc = "listed" /\ alert'[l].pc = "checked" =>
          /\ consent[alert[l].phone].user = alert[l].user
          /\ alert[l].user \notin optedOut \/ alert[l].moved]_consentVars
=============================================================================
