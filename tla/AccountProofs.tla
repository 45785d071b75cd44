--------------------------- MODULE AccountProofs ---------------------------
(***************************************************************************)
(* Proofs about who a text, a password and an answer belong to: the last   *)
(* check before a text lets it out only to the user who consented, no      *)
(* cookie outlives the password it was given for and no stale link sets    *)
(* one, and what a confirmation told its caller stays provable.            *)
(***************************************************************************)
EXTENDS SmsConsent, AccountSetup, StagingConfirmation, TLAPS

-----------------------------------------------------------------------------
(* A text and the number it goes to.                                       *)

Accounts == [active : BOOLEAN, phone : Phones \cup {NoPhone}, enabled : BOOLEAN]
Consents == [user : Subscribers \cup {Nobody}, active : BOOLEAN]

(* An alert in hand was listed from the user's own consent row, which      *)
(* keeps its user for good.  While that consent stands, and as long as no  *)
(* start took the number away, it is the number the user has now, and the  *)
(* user has not opted out.                                                 *)
AlertFits(c) ==
    c.pc # "idle" =>
        /\ c.user \in Subscribers /\ c.phone \in Phones
        /\ consent[c.phone].user = c.user
        /\ ~c.moved /\ consent[c.phone].active =>
              account[c.user].phone = c.phone /\ c.user \notin optedOut

(* Alerts are enabled only for users whose last word was an opt-in.        *)
EnabledMeansOptedIn == \A u \in Subscribers : account[u].enabled => u \notin optedOut

ConsentInv ==
    /\ ConsentTypeOK
    /\ \A l \in Loops : AlertFits(alert[l])
    /\ EnabledMeansOptedIn

(* What a step may never let pass.                                         *)
LetOutStep ==
    \A l \in Loops : alert[l].pc = "listed" /\ alert'[l].pc = "checked" =>
        /\ consent[alert[l].phone].user = alert[l].user
        /\ alert[l].user \notin optedOut \/ alert[l].moved

Alerts == [pc : {"idle", "listed", "checked"}, user : Subscribers \cup {Nobody},
           phone : Phones \cup {NoPhone}, moved : BOOLEAN]

(* The columns of an account, a consent and an alert.                      *)
LEMMA ConsentColumns ==
    ASSUME ConsentTypeOK
    PROVE  /\ \A u \in Subscribers : /\ account[u] \in Accounts
                                     /\ account[u].phone \in Phones \cup {NoPhone}
                                     /\ account[u].active \in BOOLEAN /\ account[u].enabled \in BOOLEAN
           /\ \A p \in Phones : /\ consent[p] \in Consents
                                /\ consent[p].user \in Subscribers \cup {Nobody}
                                /\ consent[p].active \in BOOLEAN
           /\ \A l \in Loops : /\ alert[l] \in Alerts
                               /\ alert[l].pc \in {"idle", "listed", "checked"}
                               /\ alert[l].user \in Subscribers \cup {Nobody}
                               /\ alert[l].phone \in Phones \cup {NoPhone}
                               /\ alert[l].moved \in BOOLEAN
BY DEF ConsentTypeOK, Accounts, Consents, Alerts

(* What an assignment does to the alerts in hand: nothing but the mark.    *)
LEMMA AssignmentMarks ==
    ASSUME ConsentTypeOK, NEW u \in Subscribers, ProvisionPhone(u), NEW l \in Loops
    PROVE  /\ alert'[l] \in Alerts
           /\ alert'[l].pc = alert[l].pc /\ alert'[l].user = alert[l].user /\ alert'[l].phone = alert[l].phone
           /\ ~Taken(u, Pending[u]) => (alert'[l].moved <=> alert[l].moved \/ TakenAway(u, alert[l]))
           /\ Taken(u, Pending[u]) => alert' = alert
<1>0. alert[l] \in Alerts
  BY ConsentColumns
<1>1. CASE Taken(u, Pending[u])
  BY <1>0, <1>1 DEF ProvisionPhone
<1>2. CASE ~Taken(u, Pending[u])
  <2>1. alert'[l] = [alert[l] EXCEPT !.moved = alert[l].moved \/ TakenAway(u, alert[l])]
    BY <1>2, Zenon DEF ProvisionPhone
  <2>2. TakenAway(u, alert[l]) \in BOOLEAN
    BY DEF TakenAway
  <2> HIDE DEF TakenAway
  <2> QED BY <1>0, <1>2, <2>1, <2>2 DEF Alerts
<1> QED BY <1>1, <1>2

(* Types.                                                                  *)
LEMMA ConsentTypesStep ==
    ASSUME ConsentTypeOK, [ConsentNext]_consentVars
    PROVE  ConsentTypeOK'
<1> USE ConsentAssumption DEF ConsentTypeOK
<1>1. CASE UNCHANGED consentVars
  BY <1>1 DEF consentVars
<1>2. ASSUME NEW u \in Subscribers, NEW p \in Phones, RecordConsent(u, p) PROVE ConsentTypeOK'
  <2>1. consent' \in [Phones -> Consents]
    <3>1. [user |-> u, active |-> TRUE] \in Consents
      BY DEF Consents
    <3>2. \A q \in Phones : consent[q] \in Consents /\ [consent[q] EXCEPT !.active = FALSE] \in Consents
      BY ConsentColumns DEF Consents
    <3> QED BY <1>2, <3>1, <3>2 DEF RecordConsent
  <2>2. account' \in [Subscribers -> Accounts]
    <3>1. [account[u] EXCEPT !.phone = p, !.enabled = TRUE] \in Accounts
      BY ConsentColumns DEF Accounts
    <3> QED BY <1>2, <3>1, ConsentColumns DEF RecordConsent, Accounts
  <2> QED BY <1>2, <2>1, <2>2 DEF RecordConsent, Accounts, Consents
<1>3. ASSUME NEW u \in Subscribers, RevokeConsent(u) PROVE ConsentTypeOK'
  <2>1. consent' \in [Phones -> Consents]
    BY <1>3, ConsentColumns DEF RevokeConsent, Consents
  <2>2. account' \in [Subscribers -> Accounts]
    BY <1>3, ConsentColumns DEF RevokeConsent, Accounts
  <2> QED BY <1>3, <2>1, <2>2 DEF RevokeConsent, Accounts, Consents
<1>4. ASSUME NEW u \in Subscribers, SetActive(u) PROVE ConsentTypeOK'
  <2>1. [account[u] EXCEPT !.active = ~account[u].active] \in Accounts
    BY ConsentColumns DEF Accounts
  <2>2. account' = [account EXCEPT ![u] = [account[u] EXCEPT !.active = ~account[u].active]]
    BY <1>4 DEF SetActive
  <2>3. account' \in [Subscribers -> Accounts]
    BY <2>1, <2>2 DEF Accounts
  <2> QED BY <1>4, <2>3 DEF SetActive, Accounts
<1>5. CASE Restart
  BY <1>5 DEF Restart
<1>6. ASSUME NEW u \in Subscribers, ProvisionPhone(u) PROVE ConsentTypeOK'
  <2>1. [account[u] EXCEPT !.phone = Pending[u], !.enabled = FALSE] \in Accounts
    BY ConsentColumns DEF Accounts
  <2>2. CASE Taken(u, Pending[u])
    BY <1>6, <2>2 DEF ProvisionPhone
  <2>3. CASE ~Taken(u, Pending[u])
    <3>1. account' \in [Subscribers -> Accounts]
      BY <1>6, <2>1, <2>3 DEF ProvisionPhone, Accounts
    <3>2. alert' \in [Loops -> Alerts]
      <4>1. \A l \in Loops : alert'[l] \in Alerts
        BY <1>6, AssignmentMarks
      <4>2. alert' = [l \in Loops |-> alert'[l]]
        BY <1>6, <2>3 DEF ProvisionPhone
      <4> QED BY <4>1, <4>2
    <3> QED BY <1>6, <2>3, <3>1, <3>2 DEF ProvisionPhone, Accounts, Alerts
  <2> QED BY <2>2, <2>3
<1>7. ASSUME NEW l \in Loops, NEW u \in Subscribers, ListSubscription(l, u) PROVE ConsentTypeOK'
  BY <1>7, ConsentColumns DEF ListSubscription
<1>8. ASSUME NEW l \in Loops, ConsentStillActive(l) PROVE ConsentTypeOK'
  BY <1>8, ConsentColumns DEF ConsentStillActive
<1>9. ASSUME NEW l \in Loops, AlertEnds(l) PROVE ConsentTypeOK'
  BY <1>9 DEF AlertEnds, NoAlert
<1> QED BY <1>1, <1>2, <1>3, <1>4, <1>5, <1>6, <1>7, <1>8, <1>9 DEF ConsentNext, Serving, Alerting

(* An alert in hand stays justified, whatever step comes.                  *)
LEMMA ConsentInvStep ==
    ASSUME ConsentInv, [ConsentNext]_consentVars
    PROVE  ConsentInv'
<1>0. ConsentTypeOK /\ ConsentTypeOK'
  BY ConsentTypesStep DEF ConsentInv
<1> DEFINE Kept == (\A l \in Loops : AlertFits(alert[l])') /\ EnabledMeansOptedIn'
<1> SUFFICES Kept
  BY <1>0 DEF ConsentInv
<1>a. /\ \A l \in Loops : AlertFits(alert[l])
      /\ EnabledMeansOptedIn
  BY DEF ConsentInv
<1> USE ConsentAssumption
<1>1. CASE UNCHANGED consentVars
  BY <1>1, <1>a DEF consentVars, AlertFits, EnabledMeansOptedIn
<1>2. ASSUME NEW u \in Subscribers, NEW p \in Phones, RecordConsent(u, p) PROVE Kept
  <2>1. /\ alert' = alert /\ optedOut' = optedOut \ {u}
        /\ \A v \in Subscribers : account'[v] = IF v = u THEN [account[u] EXCEPT !.phone = p, !.enabled = TRUE]
                                                         ELSE account[v]
        /\ \A q \in Phones : consent'[q] = CASE q = p -> [user |-> u, active |-> TRUE]
                                 [] q # p /\ q = account[u].phone -> [consent[q] EXCEPT !.active = FALSE]
                                 [] OTHER -> consent[q]
        /\ consent[p].user \in {Nobody, u}
    BY <1>0, <1>2 DEF RecordConsent, ConsentTypeOK
  <2>2. consent'[p].user = u /\ consent'[p].active
    <3>1. consent'[p] = [user |-> u, active |-> TRUE]
      BY <1>2, Zenon DEF RecordConsent
    <3> QED BY <3>1
  <2>3. ASSUME NEW q \in Phones, q # p
        PROVE  /\ consent'[q].user = consent[q].user
               /\ consent'[q].active => consent[q].active /\ q # account[u].phone
    <3>1. CASE q = account[u].phone
      <4>1. consent'[q] = [consent[q] EXCEPT !.active = FALSE]
        BY <2>1, <2>3, <3>1
      <4> QED BY <1>0, <4>1, ConsentColumns DEF Consents
    <3>2. CASE q # account[u].phone
      BY <2>1, <2>3, <3>2
    <3> QED BY <3>1, <3>2
  <2>4. account'[u].phone = p
    <3>1. account'[u] = [account[u] EXCEPT !.phone = p, !.enabled = TRUE]
      BY <2>1
    <3> QED BY <1>0, <3>1, ConsentColumns DEF Accounts
  <2>5. ASSUME NEW l \in Loops PROVE AlertFits(alert[l])'
    <3> DEFINE c == alert[l]
    <3>0. c' = c /\ AlertFits(c)
      BY <1>a, <2>1
    <3> HIDE DEF c
    <3> SUFFICES ASSUME c.pc # "idle"
                 PROVE  /\ c.user \in Subscribers /\ c.phone \in Phones /\ consent'[c.phone].user = c.user
                        /\ ~c.moved /\ consent'[c.phone].active =>
                              account'[c.user].phone = c.phone /\ c.user \notin optedOut'
      BY <3>0 DEF AlertFits, c
    <3>1. /\ c.phone \in Phones /\ c.user \in Subscribers /\ consent[c.phone].user = c.user
          /\ ~c.moved /\ consent[c.phone].active => account[c.user].phone = c.phone /\ c.user \notin optedOut
      BY <3>0 DEF AlertFits
    <3>2. CASE c.phone = p
      <4>1. c.user = u
        BY <2>1, <3>1, <3>2
      <4> QED BY <2>1, <2>2, <2>4, <3>1, <3>2, <4>1
    <3>3. CASE c.phone # p
      <4>1. /\ consent'[c.phone].user = consent[c.phone].user
            /\ consent'[c.phone].active => consent[c.phone].active /\ c.phone # account[u].phone
        BY <2>3, <3>1, <3>3
      <4> QED BY <2>1, <3>1, <4>1
    <3> QED BY <3>2, <3>3
  <2>6. EnabledMeansOptedIn'
    BY <1>a, <2>1 DEF EnabledMeansOptedIn
  <2> QED BY <2>5, <2>6
<1>3. ASSUME NEW u \in Subscribers, RevokeConsent(u) PROVE Kept
  <2>1. /\ alert' = alert /\ optedOut' = optedOut \cup {u}
        /\ \A v \in Subscribers : account'[v] = IF v = u THEN [account[u] EXCEPT !.enabled = FALSE] ELSE account[v]
        /\ \A q \in Phones : consent'[q] = IF q = account[u].phone THEN [consent[q] EXCEPT !.active = FALSE]
                                                                 ELSE consent[q]
    BY <1>0, <1>3 DEF RevokeConsent, ConsentTypeOK
  <2>2. \A v \in Subscribers : account'[v].phone = account[v].phone
    BY <1>0, <2>1, ConsentColumns DEF Accounts
  <2>3. ~account'[u].enabled
    <3>1. account'[u] = [account[u] EXCEPT !.enabled = FALSE]
      BY <2>1
    <3> QED BY <1>0, <3>1, ConsentColumns DEF Accounts
  <2>4. ASSUME NEW q \in Phones
        PROVE  /\ consent'[q].user = consent[q].user
               /\ consent'[q].active => consent[q].active /\ q # account[u].phone
    <3>1. CASE q = account[u].phone
      <4>1. consent'[q] = [consent[q] EXCEPT !.active = FALSE]
        BY <2>1, <3>1
      <4> QED BY <1>0, <4>1, ConsentColumns DEF Consents
    <3>2. CASE q # account[u].phone
      BY <2>1, <3>2
    <3> QED BY <3>1, <3>2
  <2>5. \A l \in Loops : AlertFits(alert[l])'
    BY <1>a, <2>1, <2>2, <2>4 DEF AlertFits
  <2>6. EnabledMeansOptedIn'
    BY <1>a, <2>1, <2>3 DEF EnabledMeansOptedIn
  <2> QED BY <2>5, <2>6
<1>4. ASSUME NEW u \in Subscribers, SetActive(u) PROVE Kept
  <2>1. \A v \in Subscribers : account'[v].phone = account[v].phone /\ account'[v].enabled = account[v].enabled
    BY <1>0, <1>4, ConsentColumns DEF SetActive, ConsentTypeOK, Accounts
  <2> QED BY <1>4, <1>a, <2>1 DEF SetActive, AlertFits, EnabledMeansOptedIn
<1>5. CASE Restart
  BY <1>5, <1>a DEF Restart, AlertFits, EnabledMeansOptedIn
<1>6. ASSUME NEW u \in Subscribers, ProvisionPhone(u) PROVE Kept
  <2>0. consent' = consent /\ optedOut' = optedOut
    BY <1>6 DEF ProvisionPhone
  <2>1. CASE Taken(u, Pending[u])
    BY <1>6, <1>a, <2>0, <2>1 DEF ProvisionPhone, AlertFits, EnabledMeansOptedIn
  <2>2. CASE ~Taken(u, Pending[u])
    <3>1. /\ account'[u].phone = Pending[u] /\ account'[u].enabled = FALSE
          /\ \A v \in Subscribers \ {u} : account'[v] = account[v]
      <4>1. account'[u] = [account[u] EXCEPT !.phone = Pending[u], !.enabled = FALSE]
        BY <1>0, <1>6, <2>2 DEF ProvisionPhone, ConsentTypeOK
      <4>2. \A v \in Subscribers \ {u} : account'[v] = account[v]
        BY <1>0, <1>6, <2>2 DEF ProvisionPhone, ConsentTypeOK
      <4> QED BY <1>0, <4>1, <4>2, ConsentColumns DEF Accounts
    <3>2. ASSUME NEW l \in Loops PROVE AlertFits(alert[l])'
      <4> DEFINE c == alert[l]
                 d == alert'[l]
      <4>1. /\ d.pc = c.pc /\ d.user = c.user /\ d.phone = c.phone
            /\ ~d.moved => ~c.moved /\ (c.user = u => c.phone = Pending[u])
        BY <1>0, <1>6, <2>2, AssignmentMarks DEF TakenAway
      <4>2. AlertFits(c)
        BY <1>a
      <4> HIDE DEF c, d
      <4>3. d.pc # "idle" => /\ d.user \in Subscribers /\ d.phone \in Phones
                             /\ consent'[d.phone].user = d.user
                             /\ ~d.moved /\ consent'[d.phone].active =>
                                   account'[d.user].phone = d.phone /\ d.user \notin optedOut'
        BY <2>0, <3>1, <4>1, <4>2 DEF AlertFits
      <4> QED BY <4>3 DEF AlertFits, d
    <3>3. EnabledMeansOptedIn'
      BY <1>a, <2>0, <3>1 DEF EnabledMeansOptedIn
    <3> QED BY <3>2, <3>3
  <2> QED BY <2>1, <2>2
<1>7. ASSUME NEW l \in Loops, NEW u \in Subscribers, ListSubscription(l, u) PROVE Kept
  <2>1. /\ alert'[l] = [pc |-> "listed", user |-> u, phone |-> account[u].phone, moved |-> FALSE]
        /\ \A k \in Loops \ {l} : alert'[k] = alert[k]
        /\ consent[account[u].phone].user = u /\ account[u].phone \in Phones /\ account[u].enabled
        /\ UNCHANGED <<account, consent, optedOut>>
    BY <1>0, <1>7, ConsentColumns DEF ListSubscription, ConsentTypeOK
  <2>2. u \notin optedOut
    BY <1>a, <2>1 DEF EnabledMeansOptedIn
  <2> QED BY <1>a, <2>1, <2>2 DEF AlertFits, EnabledMeansOptedIn
<1>8. ASSUME NEW l \in Loops, ConsentStillActive(l) PROVE Kept
  <2>1. /\ alert'[l].user = alert[l].user /\ alert'[l].phone = alert[l].phone
        /\ alert'[l].moved = alert[l].moved /\ alert[l].pc # "idle"
        /\ \A k \in Loops \ {l} : alert'[k] = alert[k]
        /\ UNCHANGED <<account, consent, optedOut>>
    BY <1>0, <1>8, ConsentColumns DEF ConsentStillActive, ConsentTypeOK, Alerts
  <2> QED BY <1>a, <2>1 DEF AlertFits, EnabledMeansOptedIn
<1>9. ASSUME NEW l \in Loops, AlertEnds(l) PROVE Kept
  <2>1. /\ alert'[l].pc = "idle" /\ \A k \in Loops \ {l} : alert'[k] = alert[k]
        /\ UNCHANGED <<account, consent, optedOut>>
    BY <1>0, <1>9 DEF AlertEnds, NoAlert, ConsentTypeOK
  <2> QED BY <1>a, <2>1 DEF AlertFits, EnabledMeansOptedIn
<1> HIDE DEF Kept
<1> QED BY <1>1, <1>2, <1>3, <1>4, <1>5, <1>6, <1>7, <1>8, <1>9 DEF ConsentNext, Serving, Alerting

(* The last check lets out what the invariant justifies.                   *)
LEMMA CheckIsJustified ==
    ASSUME ConsentInv, [ConsentNext]_consentVars
    PROVE  LetOutStep
<1>0. ConsentTypeOK
  BY DEF ConsentInv
<1> SUFFICES ASSUME NEW l \in Loops, alert[l].pc = "listed", alert'[l].pc = "checked"
             PROVE  /\ consent[alert[l].phone].user = alert[l].user
                    /\ alert[l].user \notin optedOut \/ alert[l].moved
  BY DEF LetOutStep
<1>1. alert' # alert
  OBVIOUS
<1>2. ConsentStillActive(l)
  <2>1. ASSUME NEW u \in Subscribers, ProvisionPhone(u) PROVE FALSE
    BY <1>0, <2>1, AssignmentMarks
  <2>2. ASSUME NEW u \in Subscribers, NEW p \in Phones, RecordConsent(u, p) PROVE FALSE
    BY <1>1, <2>2 DEF RecordConsent
  <2>3. ASSUME NEW u \in Subscribers, RevokeConsent(u) \/ SetActive(u) PROVE FALSE
    BY <1>1, <2>3 DEF RevokeConsent, SetActive
  <2>4. ~Restart /\ ~UNCHANGED consentVars
    BY <1>1 DEF Restart, consentVars
  <2>5. ASSUME NEW k \in Loops, NEW u \in Subscribers, ListSubscription(k, u) PROVE FALSE
    BY <1>0, <2>5 DEF ListSubscription, ConsentTypeOK
  <2>6. ASSUME NEW k \in Loops, AlertEnds(k) PROVE FALSE
    BY <1>0, <2>6 DEF AlertEnds, NoAlert, ConsentTypeOK
  <2>7. ASSUME NEW k \in Loops, ConsentStillActive(k) PROVE k = l
    BY <1>0, <2>7 DEF ConsentStillActive, ConsentTypeOK
  <2> QED BY <2>1, <2>2, <2>3, <2>4, <2>5, <2>6, <2>7 DEF ConsentNext, Serving, Alerting
<1>3. consent[alert[l].phone].active
  BY <1>2 DEF ConsentStillActive
<1>4. AlertFits(alert[l])
  BY DEF ConsentInv
<1> QED BY <1>3, <1>4 DEF AlertFits

LEMMA ConsentInvBegins ==
    ASSUME ConsentInit
    PROVE  ConsentInv
BY ConsentAssumption DEF ConsentInit, ConsentInv, ConsentTypeOK, AlertFits, EnabledMeansOptedIn, NoAlert, NoConsent

(* The invariant the two results below rest on.                            *)
THEOREM ConsentInvariant == ConsentSpec => []ConsentInv
<1>1. ConsentInit => ConsentInv
  BY ConsentInvBegins
<1>2. ConsentInv /\ [ConsentNext]_consentVars => ConsentInv'
  BY ConsentInvStep
<1> QED BY <1>1, <1>2, PTL DEF ConsentSpec

(* User rows, consent rows and the alerts in hand keep their types         *)
(* (models of users and sms_consents).                                     *)
THEOREM ConsentTypeHolds == ConsentSpec => []ConsentTypeOK
<1>1. ConsentInv => ConsentTypeOK
  BY DEF ConsentInv
<1> QED BY <1>1, ConsentInvariant, PTL

(* A text about a user's positions passes has_active_sms_consent only for  *)
(* a phone whose consent that user gave and has not taken back, whichever  *)
(* processes alert and start; what a start moved meanwhile is exempt.      *)
THEOREM AlertReachesConsenterHolds == ConsentSpec => AlertReachesConsenter
<1>1. ConsentInv /\ [ConsentNext]_consentVars => LetOutStep
  BY CheckIsJustified
<1>2. LetOutStep => [LetOutStep]_consentVars
  OBVIOUS
<1> QED BY <1>1, ConsentInvariant, PTL DEF ConsentSpec, AlertReachesConsenter, LetOutStep
-----------------------------------------------------------------------------
(* The password of an account.                                             *)

Versions == 0..MaxChanges + 1

UserRow == [active : BOOLEAN, mustChange : BOOLEAN, version : Nat, password : Nat]
Statuses == {"NONE", "DISPATCHING", "ACCEPTED", "FAILED", "UNKNOWN"}
InviteRow == [link : Nat, version : Nat, age : Nat, consumed : BOOLEAN, status : Statuses]
RequestRow == [op : {"none", "mail", "redeem", "change", "login"}, version : Nat, password : Nat, link : Nat]

Shapes ==
    /\ user \in UserRow
    /\ invite \in InviteRow
    /\ request \in [Requests -> RequestRow]
    /\ inbox \subseteq Nat /\ linkSet \subseteq Nat
    /\ cookies \subseteq [version : Nat, password : Nat]

(* A password and its revision change together, so whoever knows one knows *)
(* the other: the row, the requests and the cookies.                       *)
VersionNamesPassword ==
    /\ user.version = user.password
    /\ \A r \in Requests : request[r].version = request[r].password
    /\ \A c \in cookies : c.version = c.password

(* As long as the user has to set a password, none was set, by a link or   *)
(* in another way.                                                         *)
FirstPasswordOnly == user.mustChange => user.password = 0 /\ linkSet = {}

(* One request at most mails a link; no later link is known before it is   *)
(* issued, and the status is the outcome of the newest link's e-mail.      *)
MailOfNewestLink ==
    /\ \A r \in Requests : request[r].op = "mail" => request[r].link <= invite.link
    /\ \A r, s \in Requests : r # s /\ request[r].op = "mail" /\ request[s].op = "mail"
                                => request[r].link # request[s].link
    /\ \A l \in inbox : l <= invite.link
    /\ \A r \in Requests : request[r].op = "mail" /\ request[r].link = invite.link
                             => invite.status = "DISPATCHING" /\ invite.link \notin inbox
    /\ HonestDeliveryStatus

SetupInv == Shapes /\ VersionNamesPassword /\ FirstPasswordOnly /\ MailOfNewestLink

(* What a step may do to the password.                                     *)
PasswordStep == NewestLinkOnce /\ LoserRefused

(* The fields of the rows.                                                 *)
LEMMA SetupFields ==
    ASSUME Shapes
    PROVE  /\ user.active \in BOOLEAN /\ user.mustChange \in BOOLEAN
           /\ user.version \in Nat /\ user.password \in Nat
           /\ invite.link \in Nat /\ invite.version \in Nat /\ invite.age \in Nat
           /\ invite.consumed \in BOOLEAN /\ invite.status \in Statuses
           /\ \A r \in Requests : /\ request[r] \in RequestRow
                                  /\ request[r].op \in {"none", "mail", "redeem", "change", "login"}
                                  /\ request[r].version \in Nat /\ request[r].password \in Nat
                                  /\ request[r].link \in Nat
BY DEF Shapes, UserRow, InviteRow, RequestRow

(* New credentials raise revision and password by one.                     *)
LEMMA Renewed ==
    ASSUME Shapes
    PROVE  /\ NewCredentials \in UserRow
           /\ NewCredentials.version = user.version + 1
           /\ NewCredentials.password = user.password + 1
           /\ NewCredentials.mustChange = FALSE
<1>1. NewCredentials \in UserRow
  <2>1. user.version + 1 \in Nat /\ user.password + 1 \in Nat
    BY SetupFields
  <2> QED BY <2>1, ZenonT(30) DEF NewCredentials, Shapes, UserRow
<1>2. NewCredentials.version = user.version + 1
  BY DEF NewCredentials, Shapes, UserRow
<1>3. NewCredentials.password = user.password + 1
  BY DEF NewCredentials, Shapes, UserRow
<1>4. NewCredentials.mustChange = FALSE
  BY DEF NewCredentials, Shapes, UserRow
<1> QED BY <1>1, <1>2, <1>3, <1>4

(* A request that begins notes the credentials of now; one that ends notes *)
(* nothing.                                                                *)
LEMMA Begun ==
    ASSUME Shapes, NEW r \in Requests, NEW link \in Nat,
           NEW op \in {"mail", "redeem", "change", "login"}, Begin(r, op, link)
    PROVE  /\ request' \in [Requests -> RequestRow]
           /\ request'[r].op = op /\ request'[r].link = link
           /\ request'[r].version = user.version /\ request'[r].password = user.password
           /\ \A s \in Requests \ {r} : request'[s] = request[s]
<1> DEFINE begun == [op |-> op, version |-> user.version, password |-> user.password, link |-> link]
<1>1. begun \in RequestRow
  BY SetupFields DEF RequestRow
<1>2. request' = [request EXCEPT ![r] = begun]
  BY DEF Begin
<1>3. request'[r] = begun /\ \A s \in Requests \ {r} : request'[s] = request[s]
  BY <1>2 DEF Shapes
<1> QED BY <1>1, <1>2, <1>3 DEF Shapes

LEMMA Finished ==
    ASSUME Shapes, NEW r \in Requests, Finish(r)
    PROVE  /\ request' \in [Requests -> RequestRow]
           /\ request'[r] = NoRequest
           /\ \A s \in Requests \ {r} : request'[s] = request[s]
<1>1. NoRequest \in RequestRow
  BY DEF NoRequest, RequestRow
<1> QED BY <1>1 DEF Finish, Shapes

(* A step that begins or ends one request, keeps the invitation's link and *)
(* status, the mailbox and the mailing requests, keeps MailOfNewestLink.   *)
LEMMA MailUndisturbed ==
    ASSUME Shapes, MailOfNewestLink, NEW r \in Requests,
           invite'.link = invite.link, invite'.status = invite.status, inbox' = inbox,
           request'[r].op # "mail",
           \A s \in Requests \ {r} : request'[s] = request[s]
    PROVE  MailOfNewestLink'
BY DEF MailOfNewestLink, HonestDeliveryStatus

(* So does renewing the credentials keep what ties them together.          *)
LEMMA RenewalKeeps ==
    ASSUME Shapes, VersionNamesPassword, FirstPasswordOnly, NEW r \in Requests,
           user' = NewCredentials, cookies' = cookies,
           request'[r] = NoRequest, \A s \in Requests \ {r} : request'[s] = request[s]
    PROVE  (VersionNamesPassword /\ FirstPasswordOnly)'
<1>1. user'.version = user'.password /\ user'.mustChange = FALSE
  BY Renewed, SetupFields DEF VersionNamesPassword
<1>2. request'[r].version = request'[r].password
  BY DEF NoRequest
<1> QED BY <1>1, <1>2 DEF VersionNamesPassword, FirstPasswordOnly

(* Every step keeps the invariant.                                         *)
LEMMA SetupInvStep ==
    ASSUME SetupInv, [SetupNext]_setupVars
    PROVE  SetupInv'
<1> USE SetupAssumption DEF SetupInv
<1>1. CASE UNCHANGED setupVars
  BY <1>1 DEF setupVars, Shapes, VersionNamesPassword, FirstPasswordOnly, MailOfNewestLink, HonestDeliveryStatus
<1>2. ASSUME NEW r \in Requests, IssueInvitation(r) PROVE SetupInv'
  <2>1. invite' = [link |-> invite.link + 1, version |-> user.version, age |-> 0,
                   consumed |-> FALSE, status |-> "DISPATCHING"]
        /\ Begin(r, "mail", invite.link + 1) /\ UNCHANGED <<user, inbox, cookies, linkSet>>
        /\ request[r].op = "none"
    BY <1>2 DEF IssueInvitation, Free
  <2>2. invite' \in InviteRow /\ invite'.link = invite.link + 1 /\ invite'.status = "DISPATCHING"
    BY <2>1, SetupFields DEF InviteRow, Statuses
  <2>3. /\ request' \in [Requests -> RequestRow]
        /\ request'[r].op = "mail" /\ request'[r].link = invite.link + 1
        /\ request'[r].version = user.version /\ request'[r].password = user.password
        /\ \A s \in Requests \ {r} : request'[s] = request[s]
    BY <2>1, Begun, SetupFields
  <2>4. Shapes'
    BY <2>1, <2>2, <2>3 DEF Shapes
  <2>5. VersionNamesPassword' /\ FirstPasswordOnly'
    BY <2>1, <2>3 DEF VersionNamesPassword, FirstPasswordOnly
  <2>6. \A l \in Nat : l <= invite.link => l <= invite.link + 1 /\ l # invite.link + 1
    BY SetupFields
  <2>7. MailOfNewestLink'
    BY <2>1, <2>2, <2>3, <2>6, SetupFields DEF MailOfNewestLink, HonestDeliveryStatus, Shapes
  <2> QED BY <2>4, <2>5, <2>7
<1>3. ASSUME NEW r \in Requests, SendEmail(r) PROVE SetupInv'
  <2> DEFINE l == request[r].link
  <2>1. PICK outcome \in {"ACCEPTED", "FAILED", "UNKNOWN"}, arrives \in BOOLEAN :
           /\ outcome = "ACCEPTED" => arrives
           /\ outcome = "FAILED" => ~arrives
           /\ inbox' = IF arrives THEN inbox \cup {l} ELSE inbox
           /\ invite' = IF invite.link = l THEN [invite EXCEPT !.status = outcome] ELSE invite
    BY <1>3 DEF SendEmail
  <2>2. request[r].op = "mail" /\ Finish(r) /\ UNCHANGED <<user, cookies, linkSet>>
    BY <1>3 DEF SendEmail
  <2>3. request' \in [Requests -> RequestRow] /\ request'[r] = NoRequest
        /\ \A s \in Requests \ {r} : request'[s] = request[s]
    BY <2>2, Finished
  <2>4. l \in Nat /\ l <= invite.link
    BY <2>2, SetupFields DEF MailOfNewestLink
  <2>5. invite' \in InviteRow /\ invite'.link = invite.link
        /\ invite'.status = IF invite.link = l THEN outcome ELSE invite.status
    BY <2>1, SetupFields DEF Shapes, InviteRow, Statuses
  <2>6. Shapes'
    BY <2>1, <2>2, <2>3, <2>4, <2>5 DEF Shapes
  <2>7. VersionNamesPassword' /\ FirstPasswordOnly'
    BY <2>2, <2>3 DEF VersionNamesPassword, FirstPasswordOnly, NoRequest
  <2>8. \A s \in Requests : request'[s].op = "mail" => s # r /\ request[s].op = "mail" /\ request'[s] = request[s]
                                                       /\ request[s].link # l
    BY <2>2, <2>3 DEF MailOfNewestLink, NoRequest
  <2>9. HonestDeliveryStatus'
    <3>1. CASE invite.link = l
      <4>1. CASE outcome = "ACCEPTED"
        BY <2>1, <2>5, <3>1, <4>1 DEF HonestDeliveryStatus
      <4>2. CASE outcome # "ACCEPTED"
        <5>1. l \notin inbox
          BY <2>2, <3>1 DEF MailOfNewestLink
        <5> QED BY <2>1, <2>5, <3>1, <4>2, <5>1 DEF HonestDeliveryStatus
      <4> QED BY <4>1, <4>2
    <3>2. CASE invite.link # l
      BY <2>1, <2>5, <3>2 DEF HonestDeliveryStatus, MailOfNewestLink
    <3> QED BY <3>1, <3>2
  <2>10. MailOfNewestLink'
    <3>1. \A k \in inbox' : k <= invite.link
      BY <2>1, <2>4 DEF MailOfNewestLink
    <3>2. ASSUME NEW s \in Requests, request'[s].op = "mail", request'[s].link = invite.link
          PROVE  invite'.status = "DISPATCHING" /\ invite.link \notin inbox'
      <4>1. invite.link # l /\ request[s].op = "mail" /\ request[s].link = invite.link
        BY <2>8, <3>2
      <4> QED BY <2>1, <2>5, <4>1 DEF MailOfNewestLink
    <3> QED BY <2>5, <2>8, <2>9, <3>1, <3>2 DEF MailOfNewestLink
  <2> QED BY <2>6, <2>7, <2>10
<1>4. ASSUME NEW r \in Requests, NEW link \in Links, BeginRedeem(r, link) PROVE SetupInv'
  <2>1. link \in Nat /\ Begin(r, "redeem", link) /\ UNCHANGED <<user, invite, inbox, cookies, linkSet>>
    BY <1>4 DEF BeginRedeem, Links
  <2>2. /\ request' \in [Requests -> RequestRow] /\ request'[r].op = "redeem"
        /\ request'[r].version = user.version /\ request'[r].password = user.password
        /\ \A s \in Requests \ {r} : request'[s] = request[s]
    BY <2>1, Begun
  <2>3. MailOfNewestLink'
    BY <2>1, <2>2, MailUndisturbed
  <2> QED BY <2>1, <2>2, <2>3 DEF Shapes, VersionNamesPassword, FirstPasswordOnly
<1>5. ASSUME NEW r \in Requests, BeginChange(r) PROVE SetupInv'
  <2>1. 0 \in Nat /\ Begin(r, "change", 0) /\ UNCHANGED <<user, invite, inbox, cookies, linkSet>>
    BY <1>5 DEF BeginChange
  <2>2. /\ request' \in [Requests -> RequestRow] /\ request'[r].op = "change"
        /\ request'[r].version = user.version /\ request'[r].password = user.password
        /\ \A s \in Requests \ {r} : request'[s] = request[s]
    BY <2>1, Begun
  <2>3. MailOfNewestLink'
    BY <2>1, <2>2, MailUndisturbed
  <2> QED BY <2>1, <2>2, <2>3 DEF Shapes, VersionNamesPassword, FirstPasswordOnly
<1>6. ASSUME NEW r \in Requests, BeginLogin(r) PROVE SetupInv'
  <2>1. 0 \in Nat /\ Begin(r, "login", 0) /\ UNCHANGED <<user, invite, inbox, cookies, linkSet>>
    BY <1>6 DEF BeginLogin
  <2>2. /\ request' \in [Requests -> RequestRow] /\ request'[r].op = "login"
        /\ request'[r].version = user.version /\ request'[r].password = user.password
        /\ \A s \in Requests \ {r} : request'[s] = request[s]
    BY <2>1, Begun
  <2>3. MailOfNewestLink'
    BY <2>1, <2>2, MailUndisturbed
  <2> QED BY <2>1, <2>2, <2>3 DEF Shapes, VersionNamesPassword, FirstPasswordOnly
<1>7. ASSUME NEW r \in Requests, CommitRedeem(r) PROVE SetupInv'
  <2>1. Finish(r) /\ request[r].op = "redeem" /\ UNCHANGED <<inbox, cookies>>
    BY <1>7 DEF CommitRedeem
  <2>2. request' \in [Requests -> RequestRow] /\ request'[r] = NoRequest /\ request'[r].op # "mail"
        /\ \A s \in Requests \ {r} : request'[s] = request[s]
    BY <2>1, Finished DEF NoRequest
  <2>3. CASE UNCHANGED <<user, invite, linkSet>>
    <3>1. MailOfNewestLink'
      BY <2>1, <2>2, <2>3, MailUndisturbed
    <3> QED BY <2>1, <2>2, <2>3, <3>1 DEF Shapes, VersionNamesPassword, FirstPasswordOnly, NoRequest
  <2>4. CASE user' = NewCredentials /\ invite' = [invite EXCEPT !.consumed = TRUE]
             /\ linkSet' = linkSet \cup {request[r].link}
    <3>1. invite' \in InviteRow /\ invite'.link = invite.link /\ invite'.status = invite.status
      BY <2>4, SetupFields DEF Shapes, InviteRow
    <3>2. MailOfNewestLink'
      BY <2>1, <2>2, <3>1, MailUndisturbed
    <3>3. (VersionNamesPassword /\ FirstPasswordOnly)'
      BY <2>1, <2>2, <2>4, RenewalKeeps
    <3>4. Shapes'
      BY <2>1, <2>2, <2>4, <3>1, Renewed, SetupFields DEF Shapes
    <3> QED BY <3>2, <3>3, <3>4
  <2> QED BY <1>7, <2>3, <2>4 DEF CommitRedeem
<1>8. ASSUME NEW r \in Requests, CommitChange(r) PROVE SetupInv'
  <2>1. Finish(r) /\ UNCHANGED <<invite, inbox, cookies, linkSet>>
    BY <1>8 DEF CommitChange
  <2>2. request' \in [Requests -> RequestRow] /\ request'[r] = NoRequest /\ request'[r].op # "mail"
        /\ \A s \in Requests \ {r} : request'[s] = request[s]
    BY <2>1, Finished DEF NoRequest
  <2>3. MailOfNewestLink'
    BY <2>1, <2>2, MailUndisturbed
  <2>4. CASE user' = user
    BY <2>1, <2>2, <2>3, <2>4 DEF Shapes, VersionNamesPassword, FirstPasswordOnly, NoRequest
  <2>5. CASE user' = NewCredentials
    <3>1. (VersionNamesPassword /\ FirstPasswordOnly)'
      BY <2>1, <2>2, <2>5, RenewalKeeps
    <3> QED BY <2>1, <2>2, <2>3, <2>5, <3>1, Renewed DEF Shapes
  <2> QED BY <1>8, <2>4, <2>5 DEF CommitChange
<1>9. ASSUME NEW r \in Requests, IssueCookie(r) PROVE SetupInv'
  <2>1. Finish(r) /\ UNCHANGED <<user, invite, inbox, linkSet>>
        /\ cookies' \subseteq cookies \cup {[version |-> user.version, password |-> request[r].password]}
        /\ (cookies' # cookies => user.version = request[r].version)
    BY <1>9 DEF IssueCookie
  <2>2. request' \in [Requests -> RequestRow] /\ request'[r] = NoRequest /\ request'[r].op # "mail"
        /\ \A s \in Requests \ {r} : request'[s] = request[s]
    BY <2>1, Finished DEF NoRequest
  <2>3. MailOfNewestLink'
    BY <2>1, <2>2, MailUndisturbed
  <2>4. cookies' \subseteq [version : Nat, password : Nat] /\ \A c \in cookies' : c.version = c.password
    <3>1. [version |-> user.version, password |-> request[r].password] \in [version : Nat, password : Nat]
      BY SetupFields
    <3>2. cookies' # cookies => user.version = request[r].password
      BY <2>1 DEF VersionNamesPassword
    <3> QED BY <2>1, <3>1, <3>2 DEF Shapes, VersionNamesPassword
  <2> QED BY <2>1, <2>2, <2>3, <2>4 DEF Shapes, VersionNamesPassword, FirstPasswordOnly, NoRequest
<1>10. CASE SetUserActive
  <2>1. user' \in UserRow /\ user'.mustChange = user.mustChange /\ user'.version = user.version
        /\ user'.password = user.password
    BY <1>10, SetupFields DEF SetUserActive, Shapes, UserRow
  <2> QED BY <1>10, <2>1 DEF SetUserActive, Shapes, VersionNamesPassword, FirstPasswordOnly, MailOfNewestLink,
                             HonestDeliveryStatus
<1>11. CASE ProcessDies
  <2>1. \A r \in Requests : request'[r] = NoRequest
    BY <1>11 DEF ProcessDies
  <2>2. request' \in [Requests -> RequestRow]
    BY <1>11 DEF ProcessDies, NoRequest, RequestRow
  <2> QED BY <1>11, <2>1, <2>2 DEF ProcessDies, Shapes, VersionNamesPassword, FirstPasswordOnly,
                                   MailOfNewestLink, HonestDeliveryStatus, NoRequest
<1>12. CASE LinkAges
  <2>1. invite' \in InviteRow /\ invite'.link = invite.link /\ invite'.status = invite.status
    BY <1>12, SetupFields DEF LinkAges, Shapes, InviteRow
  <2> QED BY <1>12, <2>1 DEF LinkAges, Shapes, VersionNamesPassword, FirstPasswordOnly, MailOfNewestLink,
                             HonestDeliveryStatus
<1> QED BY <1>1, <1>2, <1>3, <1>4, <1>5, <1>6, <1>7, <1>8, <1>9, <1>10, <1>11, <1>12 DEF SetupNext

(* The first password may come from the newest link; every other is set by *)
(* a request that verified the one it replaces.                            *)
LEMMA PasswordKept ==
    ASSUME SetupInv, [SetupNext]_setupVars
    PROVE  PasswordStep
<1> USE DEF PasswordStep, NewestLinkOnce, LoserRefused
<1>1. ASSUME NEW r \in Requests, CommitRedeem(r) PROVE PasswordStep
  <2>1. CASE UNCHANGED <<user, linkSet>>
    BY <2>1
  <2>2. CASE ~UNCHANGED <<user, linkSet>>
    <3>1. /\ invite.link = request[r].link /\ user.password = request[r].password /\ user.mustChange
          /\ linkSet' = linkSet \cup {request[r].link} /\ request[r].op = "redeem" /\ Finish(r)
      BY <1>1, <2>2 DEF CommitRedeem, InvitationEligible
    <3>2. linkSet = {} /\ user.password = 0
      BY <3>1 DEF SetupInv, FirstPasswordOnly
    <3>3. request'[r] = NoRequest /\ ~Free(r)
      BY <3>1, Finished DEF SetupInv, Free
    <3> QED BY <3>1, <3>2, <3>3
  <2> QED BY <2>1, <2>2
<1>2. ASSUME NEW r \in Requests, CommitChange(r) PROVE PasswordStep
  <2>1. Finish(r) /\ request[r].op = "change" /\ linkSet' = linkSet
        /\ (user' # user => user.password = request[r].password)
    BY <1>2 DEF CommitChange
  <2>2. request'[r] = NoRequest /\ ~Free(r)
    BY <2>1, Finished DEF SetupInv, Free
  <2> QED BY <2>1, <2>2
<1>3. ASSUME NEW r \in Requests,
             IssueInvitation(r) \/ SendEmail(r) \/ BeginChange(r) \/ BeginLogin(r) \/ IssueCookie(r)
      PROVE  PasswordStep
  BY <1>3 DEF IssueInvitation, SendEmail, BeginChange, BeginLogin, IssueCookie
<1>4. ASSUME NEW r \in Requests, NEW link \in Links, BeginRedeem(r, link) PROVE PasswordStep
  BY <1>4 DEF BeginRedeem
<1>5. CASE SetUserActive
  <2>1. user'.password = user.password /\ linkSet' = linkSet
    BY <1>5 DEF SetUserActive, SetupInv, Shapes, UserRow
  <2> QED BY <2>1
<1>6. CASE ProcessDies \/ LinkAges \/ UNCHANGED setupVars
  BY <1>6 DEF ProcessDies, LinkAges, setupVars
<1> QED BY <1>1, <1>2, <1>3, <1>4, <1>5, <1>6 DEF SetupNext

LEMMA SetupInvBegins ==
    ASSUME SetupInit
    PROVE  SetupInv
<1>1. Shapes
  BY DEF SetupInit, Shapes, UserRow, InviteRow, RequestRow, NoInvite, NoRequest, Statuses
<1> QED BY <1>1 DEF SetupInit, SetupInv, VersionNamesPassword, FirstPasswordOnly, MailOfNewestLink,
                    HonestDeliveryStatus, NoRequest, NoInvite

(* The invariant the results below rest on.                                *)
THEOREM SetupInvariant == SetupSpec => []SetupInv
<1>1. SetupInit => SetupInv
  BY SetupInvBegins
<1>2. SetupInv /\ [SetupNext]_setupVars => SetupInv'
  BY SetupInvStep
<1> QED BY <1>1, <1>2, PTL DEF SetupSpec

(* A request that mails or redeems names a link that may exist, and one    *)
(* that changes a password began below the bound on changes; the numbers   *)
(* of a request stay within their bounds.                                  *)
RequestBounds ==
    /\ \A r \in Requests : request[r].op \in {"mail", "redeem"} => request[r].link \in Links
    /\ \A r \in Requests : request[r].op = "change" => request[r].version < MaxChanges

BoundedRequest == [op : {"none", "mail", "redeem", "change", "login"},
                   version : Versions, password : Versions, link : 0..MaxLinks]

SetupBounds == SetupTypeOK /\ RequestBounds

(* The bounds on the fields of the rows.                                   *)
LEMMA BoundedFields ==
    ASSUME SetupTypeOK
    PROVE  /\ user.version \in Versions /\ user.password \in Versions
           /\ user.active \in BOOLEAN /\ user.mustChange \in BOOLEAN
           /\ invite.link \in 0..MaxLinks /\ invite.age \in 0..LinkTTL
           /\ \A r \in Requests : /\ request[r] \in BoundedRequest
                                  /\ request[r].version \in Versions
                                  /\ request[r].password \in Versions
BY DEF SetupTypeOK, Versions, BoundedRequest

(* Beginning and ending a request keeps the requests within their bounds.  *)
LEMMA BeginBounded ==
    ASSUME SetupBounds, NEW r \in Requests, NEW link \in 0..MaxLinks,
           NEW op \in {"mail", "redeem", "change", "login"}, Begin(r, op, link),
           op \in {"mail", "redeem"} => link \in Links,
           op = "change" => user.version < MaxChanges
    PROVE  request' \in [Requests -> BoundedRequest] /\ RequestBounds'
<1> DEFINE begun == [op |-> op, version |-> user.version, password |-> user.password, link |-> link]
<1>1. begun \in BoundedRequest
  BY BoundedFields DEF BoundedRequest, SetupBounds
<1>2. request \in [Requests -> BoundedRequest]
  BY DEF SetupBounds, SetupTypeOK, BoundedRequest, Versions
<1>3. request' = [request EXCEPT ![r] = begun]
  BY DEF Begin
<1>4. request'[r] = begun /\ \A s \in Requests \ {r} : request'[s] = request[s]
  BY <1>2, <1>3
<1>5. request' \in [Requests -> BoundedRequest]
  BY <1>1, <1>2, <1>3
<1>6. RequestBounds'
  BY <1>4 DEF SetupBounds, RequestBounds, Links
<1> QED BY <1>5, <1>6

LEMMA FinishBounded ==
    ASSUME SetupBounds, NEW r \in Requests, Finish(r)
    PROVE  request' \in [Requests -> BoundedRequest] /\ RequestBounds'
<1>1. NoRequest \in BoundedRequest
  BY SetupAssumption DEF NoRequest, BoundedRequest, Versions
<1>2. request \in [Requests -> BoundedRequest]
  BY DEF SetupBounds, SetupTypeOK, BoundedRequest, Versions
<1>3. request'[r] = NoRequest /\ \A s \in Requests \ {r} : request'[s] = request[s]
  BY <1>2 DEF Finish
<1>4. RequestBounds'
  BY <1>3 DEF SetupBounds, RequestBounds, NoRequest, Links
<1> QED BY <1>1, <1>2, <1>4 DEF Finish

(* New credentials are within the bound: the first password is number one, *)
(* and a later one replaces a password below the bound on changes.         *)
LEMMA RenewedBounded ==
    ASSUME SetupBounds, user.version = user.password,
           user.version = 0 \/ user.version < MaxChanges
    PROVE  NewCredentials \in [active : BOOLEAN, mustChange : BOOLEAN,
                               version : Versions, password : Versions]
<1>1. user.version + 1 \in Versions /\ user.password + 1 \in Versions
  BY SetupAssumption, BoundedFields DEF SetupBounds, Versions
<1> QED BY <1>1, ZenonT(30) DEF NewCredentials, SetupBounds, SetupTypeOK, Versions

(* Every step keeps the bounds.                                            *)
LEMMA SetupBoundsStep ==
    ASSUME SetupInv, SetupBounds, [SetupNext]_setupVars
    PROVE  SetupBounds'
<1> USE SetupAssumption
<1>t. SetupTypeOK /\ RequestBounds
  BY DEF SetupBounds
<1>s. ASSUME request' \in [Requests -> BoundedRequest] /\ RequestBounds',
             UNCHANGED <<user, invite, inbox, cookies, linkSet>>
      PROVE  SetupBounds'
  BY <1>t, <1>s DEF SetupBounds, SetupTypeOK, BoundedRequest, Versions
<1>1. ASSUME NEW r \in Requests, IssueInvitation(r) PROVE SetupBounds'
  <2>1. invite.link + 1 \in Links /\ invite.link + 1 \in 0..MaxLinks
    BY <1>1, <1>t, BoundedFields DEF IssueInvitation, Links
  <2>2. request' \in [Requests -> BoundedRequest] /\ RequestBounds'
    BY <1>1, <2>1, BeginBounded DEF IssueInvitation
  <2>3. invite' \in [link : 0..MaxLinks, version : Versions, age : 0..LinkTTL, consumed : BOOLEAN,
                     status : {"NONE", "DISPATCHING", "ACCEPTED", "FAILED", "UNKNOWN"}]
    BY <1>1, <1>t, <2>1, BoundedFields DEF IssueInvitation
  <2> QED BY <1>1, <1>t, <2>2, <2>3 DEF IssueInvitation, SetupBounds, SetupTypeOK, BoundedRequest, Versions
<1>2. ASSUME NEW r \in Requests, SendEmail(r) PROVE SetupBounds'
  <2>1. request' \in [Requests -> BoundedRequest] /\ RequestBounds'
    BY <1>2, FinishBounded DEF SendEmail
  <2>2. request[r].link \in Links
    BY <1>2, <1>t DEF SendEmail, RequestBounds
  <2>3. inbox' \subseteq Links
    BY <1>2, <1>t, <2>2 DEF SendEmail, SetupTypeOK
  <2>4. invite' \in [link : 0..MaxLinks, version : Versions, age : 0..LinkTTL, consumed : BOOLEAN,
                     status : {"NONE", "DISPATCHING", "ACCEPTED", "FAILED", "UNKNOWN"}]
    BY <1>2, <1>t DEF SendEmail, SetupTypeOK, Versions
  <2> QED BY <1>2, <1>t, <2>1, <2>3, <2>4 DEF SendEmail, SetupBounds, SetupTypeOK, BoundedRequest, Versions
<1>3. ASSUME NEW r \in Requests, NEW link \in Links, BeginRedeem(r, link) PROVE SetupBounds'
  <2>1. request' \in [Requests -> BoundedRequest] /\ RequestBounds'
    BY <1>3, BeginBounded DEF BeginRedeem, Links
  <2> QED BY <1>3, <1>s, <2>1 DEF BeginRedeem
<1>4. ASSUME NEW r \in Requests, CommitRedeem(r) PROVE SetupBounds'
  <2>1. request' \in [Requests -> BoundedRequest] /\ RequestBounds'
    BY <1>4, FinishBounded DEF CommitRedeem
  <2>2. CASE UNCHANGED <<user, invite, linkSet>>
    BY <1>4, <1>s, <2>1, <2>2 DEF CommitRedeem
  <2>3. CASE /\ user' = NewCredentials /\ InvitationEligible
             /\ invite' = [invite EXCEPT !.consumed = TRUE]
             /\ linkSet' = linkSet \cup {request[r].link}
    <3>1. user.version = user.password /\ user.password = 0
      BY <2>3 DEF SetupInv, VersionNamesPassword, FirstPasswordOnly, InvitationEligible
    <3>2. user' \in [active : BOOLEAN, mustChange : BOOLEAN, version : Versions, password : Versions]
      BY <2>3, <3>1, RenewedBounded
    <3>3. request[r].link \in Links
      BY <1>4, <1>t DEF CommitRedeem, RequestBounds
    <3>4. invite' \in [link : 0..MaxLinks, version : Versions, age : 0..LinkTTL, consumed : BOOLEAN,
                       status : {"NONE", "DISPATCHING", "ACCEPTED", "FAILED", "UNKNOWN"}]
      BY <1>t, <2>3 DEF SetupTypeOK, Versions
    <3> QED BY <1>4, <1>t, <2>1, <2>3, <3>2, <3>3, <3>4
            DEF CommitRedeem, SetupBounds, SetupTypeOK, BoundedRequest, Versions
  <2> QED BY <1>4, <2>2, <2>3 DEF CommitRedeem
<1>5. ASSUME NEW r \in Requests, BeginChange(r) PROVE SetupBounds'
  <2>1. request' \in [Requests -> BoundedRequest] /\ RequestBounds'
    BY <1>5, BeginBounded DEF BeginChange
  <2> QED BY <1>5, <1>s, <2>1 DEF BeginChange
<1>6. ASSUME NEW r \in Requests, CommitChange(r) PROVE SetupBounds'
  <2>1. request' \in [Requests -> BoundedRequest] /\ RequestBounds'
    BY <1>6, FinishBounded DEF CommitChange
  <2>2. CASE user' = user
    BY <1>6, <1>s, <2>1, <2>2 DEF CommitChange
  <2>3. CASE user' = NewCredentials /\ user.version = request[r].version
    <3>1. user.version = user.password /\ user.version < MaxChanges
      BY <1>6, <1>t, <2>3 DEF SetupInv, VersionNamesPassword, CommitChange, RequestBounds
    <3>2. user' \in [active : BOOLEAN, mustChange : BOOLEAN, version : Versions, password : Versions]
      BY <2>3, <3>1, RenewedBounded
    <3> QED BY <1>6, <1>t, <2>1, <3>2
            DEF CommitChange, SetupBounds, SetupTypeOK, BoundedRequest, Versions
  <2> QED BY <1>6, <2>2, <2>3 DEF CommitChange
<1>7. ASSUME NEW r \in Requests, BeginLogin(r) PROVE SetupBounds'
  <2>1. request' \in [Requests -> BoundedRequest] /\ RequestBounds'
    BY <1>7, BeginBounded DEF BeginLogin
  <2> QED BY <1>7, <1>s, <2>1 DEF BeginLogin
<1>8. ASSUME NEW r \in Requests, IssueCookie(r) PROVE SetupBounds'
  <2>1. request' \in [Requests -> BoundedRequest] /\ RequestBounds'
    BY <1>8, FinishBounded DEF IssueCookie
  <2>2. cookies' \subseteq [version : Versions, password : Versions]
    BY <1>8, <1>t, BoundedFields DEF IssueCookie, SetupTypeOK, Versions
  <2> QED BY <1>8, <1>t, <2>1, <2>2 DEF IssueCookie, SetupBounds, SetupTypeOK, BoundedRequest, Versions
<1>9. CASE SetUserActive
  <2>1. user' \in [active : BOOLEAN, mustChange : BOOLEAN, version : Versions, password : Versions]
    BY <1>9, <1>t DEF SetUserActive, SetupTypeOK, Versions
  <2> QED BY <1>9, <1>t, <2>1 DEF SetUserActive, SetupBounds, SetupTypeOK, RequestBounds, Versions
<1>10. CASE ProcessDies
  <2>1. NoRequest \in BoundedRequest /\ NoRequest.op = "none"
    BY DEF NoRequest, BoundedRequest, Versions
  <2>2. request' \in [Requests -> BoundedRequest] /\ RequestBounds'
    BY <1>10, <2>1 DEF ProcessDies, RequestBounds
  <2> QED BY <1>10, <1>s, <2>2 DEF ProcessDies
<1>11. CASE LinkAges
  <2>1. invite.age + 1 \in 0..LinkTTL
    BY <1>11, <1>t, BoundedFields DEF LinkAges, Expired
  <2>2. invite' \in [link : 0..MaxLinks, version : Versions, age : 0..LinkTTL, consumed : BOOLEAN,
                     status : {"NONE", "DISPATCHING", "ACCEPTED", "FAILED", "UNKNOWN"}]
    BY <1>11, <1>t, <2>1 DEF LinkAges, SetupTypeOK, Versions
  <2> QED BY <1>11, <1>t, <2>2 DEF LinkAges, SetupBounds, SetupTypeOK, RequestBounds, Versions
<1>12. CASE UNCHANGED setupVars
  BY <1>12, <1>t DEF setupVars, SetupBounds, SetupTypeOK, RequestBounds
<1> QED BY <1>1, <1>2, <1>3, <1>4, <1>5, <1>6, <1>7, <1>8, <1>9, <1>10, <1>11, <1>12 DEF SetupNext

(* The row, the invitation, the requests and the cookies keep their types  *)
(* and bounds: revisions are at most one more than the password changes.   *)
THEOREM SetupTypeHolds == SetupSpec => []SetupTypeOK
<1>1. SetupInit => SetupBounds
  BY SetupAssumption DEF SetupInit, SetupBounds, SetupTypeOK, RequestBounds, NoInvite, NoRequest
<1>2. SetupInv /\ SetupBounds /\ [SetupNext]_setupVars => SetupBounds'
  BY SetupBoundsStep
<1>3. SetupBounds => SetupTypeOK
  BY DEF SetupBounds
<1> QED BY <1>1, <1>2, <1>3, SetupInvariant, PTL DEF SetupSpec

(* create_database_session_token: no cookie that the session check still   *)
(* accepts was given for another password than the one that is set.        *)
THEOREM OldCookiesRefusedHolds == SetupSpec => []OldCookiesRefused
<1>1. SetupInv => OldCookiesRefused
  BY DEF SetupInv, VersionNamesPassword, OldCookiesRefused, Accepted
<1> QED BY <1>1, SetupInvariant, PTL

(* redeem_setup_invitation and change_user_password: no password is set by *)
(* a stale or used link, nor over one that its request did not verify.     *)
THEOREM PasswordChangesHoldProved == SetupSpec => PasswordChangesHold
<1>1. SetupInv /\ [SetupNext]_setupVars => PasswordStep
  BY PasswordKept
<1> QED BY <1>1, SetupInvariant, PTL DEF SetupSpec, PasswordChangesHold, PasswordStep

(* issue_setup_invitation: ACCEPTED and FAILED are said of the newest      *)
(* link's own e-mail, whichever answer comes last.                         *)
THEOREM HonestDeliveryStatusHolds == SetupSpec => []HonestDeliveryStatus
<1>1. SetupInv => HonestDeliveryStatus
  BY DEF SetupInv, MailOfNewestLink
<1> QED BY <1>1, SetupInvariant, PTL
-----------------------------------------------------------------------------
(* The ledger of confirmations.                                            *)

Confirmations == [order : Previews \cup {NoOrder}, consumedAt : 0..PruneAge, consumed : BOOLEAN]
ConsumerRows == [token : Tokens \cup {"none"}, order : Previews \cup {NoOrder}, stamp : 0..PruneAge]

(* A token that is spent was issued, and is not pruned.                    *)
SpentIsIssued == \A t \in Tokens : confirmations[t].consumed => Issued(t)

(* A request that took its time before the expiry has not waited longer    *)
(* than busy_timeout.                                                      *)
WaitIsBounded ==
    \A c \in Consumers : Waiting(c) /\ consumer[c].stamp < TokenTTL
                            => tokenAge[consumer[c].token] <= consumer[c].stamp + BusyTimeout

ConfirmationInv == ConfirmationTypeOK /\ SpentIsIssued /\ WaitIsBounded /\ TokenPromisesKept

(* The columns of a confirmation and of a waiting request.                 *)
LEMMA ConfirmationColumns ==
    ASSUME ConfirmationTypeOK
    PROVE  /\ \A t \in Tokens : /\ confirmations[t] \in Confirmations
                                /\ confirmations[t].order \in Previews \cup {NoOrder}
                                /\ confirmations[t].consumedAt \in 0..PruneAge
                                /\ confirmations[t].consumed \in BOOLEAN
                                /\ tokenAge[t] \in 0..PruneAge
           /\ \A c \in Consumers : /\ consumer[c] \in ConsumerRows
                                   /\ consumer[c].token \in Tokens \cup {"none"}
                                   /\ consumer[c].order \in Previews \cup {NoOrder}
                                   /\ consumer[c].stamp \in 0..PruneAge
BY DEF ConfirmationTypeOK, Confirmations, ConsumerRows

(* Types.                                                                  *)
LEMMA ConfirmationTypesStep ==
    ASSUME ConfirmationTypeOK, [ConfirmationNext]_confirmVars
    PROVE  ConfirmationTypeOK'
<1> USE ConfirmationAssumption
<1>0. NoConfirmation \in Confirmations /\ NoConsumer \in ConsumerRows
  BY DEF NoConfirmation, NoConsumer, Confirmations, ConsumerRows
<1>1. CASE UNCHANGED confirmVars
  BY <1>1 DEF confirmVars, ConfirmationTypeOK
<1>2. ASSUME NEW t \in Tokens, NEW o \in Previews, Issue(t, o) PROVE ConfirmationTypeOK'
  <2>1. [NoConfirmation EXCEPT !.order = o] \in Confirmations
    <3>1. 0 \in 0..PruneAge
      BY SMT
    <3> QED BY <3>1, ZenonT(30) DEF Confirmations, NoConfirmation
  <2>2. confirmations' \in [Tokens -> Confirmations]
    BY <1>0, <1>2, <2>1, ConfirmationColumns DEF Issue
  <2> QED BY <1>2, <2>2 DEF Issue, ConfirmationTypeOK, Confirmations
<1>3. ASSUME NEW t \in Tokens, NEW o \in Previews, ReserveIntent(t, o) PROVE ConfirmationTypeOK'
  BY <1>3 DEF ReserveIntent, ConfirmationTypeOK
<1>4. ASSUME NEW c \in Consumers, NEW t \in Tokens, NEW o \in Previews, BeginConsume(c, t, o)
      PROVE  ConfirmationTypeOK'
  <2>1. [token |-> t, order |-> o, stamp |-> tokenAge[t]] \in ConsumerRows
    BY ConfirmationColumns DEF ConsumerRows
  <2> QED BY <1>4, <2>1 DEF BeginConsume, ConfirmationTypeOK, ConsumerRows
<1>5. ASSUME NEW c \in Consumers, CommitConsume(c) PROVE ConfirmationTypeOK'
  <2> DEFINE t == consumer[c].token
  <2>1. t \in Tokens
    BY <1>5, ConfirmationColumns DEF CommitConsume, Waiting
  <2>2. [confirmations[t] EXCEPT !.consumed = TRUE, !.consumedAt = tokenAge[t]] \in Confirmations
    BY <2>1, ConfirmationColumns DEF Confirmations
  <2>3. confirmations' \in [Tokens -> Confirmations]
    BY <1>5, <2>1, <2>2 DEF CommitConsume, ConfirmationTypeOK, Confirmations
  <2>4. consumer' \in [Consumers -> ConsumerRows]
    BY <1>0, <1>5 DEF CommitConsume, Gone, ConfirmationTypeOK, ConsumerRows
  <2>5. intents' \in [Tokens -> Previews \cup {NoOrder}]
    BY <1>5, <2>1, ConfirmationColumns DEF CommitConsume, ConfirmationTypeOK
  <2>6. acknowledged' \subseteq Tokens /\ tokenAge' = tokenAge
    BY <1>5, <2>1 DEF CommitConsume, ConfirmationTypeOK
  <2> QED BY <2>3, <2>4, <2>5, <2>6 DEF ConfirmationTypeOK, Confirmations, ConsumerRows
<1>6. ASSUME NEW c \in Consumers, LeaveConsume(c) PROVE ConfirmationTypeOK'
  BY <1>0, <1>6 DEF LeaveConsume, Gone, ConfirmationTypeOK, ConsumerRows
<1>7. CASE SecondPasses
  <2>1. tokenAge' \in [Tokens -> 0..PruneAge]
    BY <1>7, ConfirmationColumns DEF SecondPasses
  <2> QED BY <1>7, <2>1 DEF SecondPasses, ConfirmationTypeOK
<1> QED BY <1>1, <1>2, <1>3, <1>4, <1>5, <1>6, <1>7 DEF ConfirmationNext

(* The commit of a token: what it writes.                                  *)
LEMMA Spent ==
    ASSUME ConfirmationTypeOK, NEW c \in Consumers, CommitConsume(c)
    PROVE  /\ consumer[c].token \in Tokens
           /\ Issued(consumer[c].token) /\ ~confirmations[consumer[c].token].consumed
           /\ consumer[c].stamp < TokenTTL /\ Waiting(c)
           /\ confirmations'[consumer[c].token].consumed
           /\ confirmations'[consumer[c].token].order = confirmations[consumer[c].token].order
           /\ confirmations'[consumer[c].token].consumedAt = tokenAge[consumer[c].token]
           /\ \A u \in Tokens \ {consumer[c].token} :
                 confirmations'[u] = confirmations[u] /\ intents'[u] = intents[u]
           /\ acknowledged' \subseteq acknowledged \cup {consumer[c].token}
           /\ consumer[c].token \in acknowledged' \ acknowledged
                 => intents'[consumer[c].token] = confirmations[consumer[c].token].order
<1> DEFINE t == consumer[c].token
<1>1. t \in Tokens /\ Waiting(c)
  BY ConfirmationColumns DEF CommitConsume, Waiting
<1>2. Consumable(t, consumer[c].stamp)
  BY DEF CommitConsume
<1>3. confirmations' = [confirmations EXCEPT ![t] = [@ EXCEPT !.consumed = TRUE, !.consumedAt = tokenAge[t]]]
  BY DEF CommitConsume
<1>4. confirmations'[t] = [confirmations[t] EXCEPT !.consumed = TRUE, !.consumedAt = tokenAge[t]]
  BY <1>1, <1>3 DEF ConfirmationTypeOK
<1>5. /\ confirmations'[t].consumed
      /\ confirmations'[t].order = confirmations[t].order
      /\ confirmations'[t].consumedAt = tokenAge[t]
  BY <1>1, <1>4, ConfirmationColumns DEF Confirmations
<1>6. \A u \in Tokens \ {t} : confirmations'[u] = confirmations[u] /\ intents'[u] = intents[u]
  BY <1>1, <1>3 DEF CommitConsume, ConfirmationTypeOK
<1>7. acknowledged' \subseteq acknowledged \cup {t}
      /\ (t \in acknowledged' \ acknowledged => intents'[t] = confirmations[t].order)
  BY <1>1 DEF CommitConsume, ConfirmationTypeOK
<1> QED BY <1>1, <1>2, <1>5, <1>6, <1>7 DEF Consumable

(* Every step keeps what was told, and the bound on the time of use.       *)
LEMMA ConfirmationInvStep ==
    ASSUME ConfirmationInv, [ConfirmationNext]_confirmVars
    PROVE  ConfirmationInv'
<1>0. ConfirmationTypeOK /\ ConfirmationTypeOK'
  BY ConfirmationTypesStep DEF ConfirmationInv
<1> SUFFICES (SpentIsIssued /\ WaitIsBounded /\ TokenPromisesKept)'
  BY <1>0 DEF ConfirmationInv
<1> USE ConfirmationAssumption, <1>0 DEF ConfirmationInv
<1>1. CASE UNCHANGED confirmVars
  BY <1>1 DEF confirmVars, SpentIsIssued, WaitIsBounded, TokenPromisesKept, Issued, Waiting, ReceiptVerified
<1>2. ASSUME NEW t \in Tokens, NEW o \in Previews, Issue(t, o)
      PROVE  (SpentIsIssued /\ WaitIsBounded /\ TokenPromisesKept)'
  <2>1. confirmations'[t] = [NoConfirmation EXCEPT !.order = o]
    BY <1>2 DEF Issue
  <2>2. \A u \in Tokens \ {t} : confirmations'[u] = confirmations[u]
                                 \/ (~confirmations[u].consumed /\ confirmations'[u] = NoConfirmation)
    <3> SUFFICES ASSUME NEW u \in Tokens \ {t}
                 PROVE  confirmations'[u] = confirmations[u]
                        \/ (~confirmations[u].consumed /\ confirmations'[u] = NoConfirmation)
      OBVIOUS
    <3>1. CASE Prunable(u)
      <4>1. confirmations'[u] = NoConfirmation
        BY <1>2, <3>1 DEF Issue
      <4> QED BY <3>1, <4>1 DEF Prunable
    <3>2. CASE ~Prunable(u)
      <4>1. u \in Tokens /\ u # t
        OBVIOUS
      <4>2. confirmations'[u] = CASE u = t -> [NoConfirmation EXCEPT !.order = o]
                                  [] u # t /\ Prunable(u) -> NoConfirmation
                                  [] OTHER -> confirmations[u]
        BY <1>2, <4>1 DEF Issue
      <4>3. confirmations'[u] = confirmations[u]
        BY <3>2, <4>1, <4>2
      <4> QED BY <4>3
    <3> QED BY <3>1, <3>2
  <2>3. ~confirmations'[t].consumed /\ confirmations'[t].order = o /\ confirmations'[t].consumedAt = 0
    BY <2>1 DEF NoConfirmation
  <2>4. ~confirmations[t].consumed /\ t \notin acknowledged
    BY <1>2 DEF Issue, SpentIsIssued, TokenPromisesKept, ReceiptVerified
  <2>5. SpentIsIssued'
    BY <2>2, <2>3 DEF SpentIsIssued, Issued, NoConfirmation
  <2>6. WaitIsBounded'
    BY <1>2 DEF Issue, WaitIsBounded, Waiting
  <2>7. TokenPromisesKept'
    <3>1. ASSUME NEW u \in acknowledged' PROVE ReceiptVerified(u)'
      <4>1. u \in acknowledged /\ u # t /\ u \in Tokens /\ intents' = intents
        BY <1>2, <2>4, <3>1 DEF Issue, ConfirmationTypeOK
      <4> QED BY <2>2, <4>1 DEF TokenPromisesKept, ReceiptVerified
    <3>2. ASSUME NEW u \in Tokens, confirmations'[u].consumed
          PROVE  confirmations'[u].consumedAt < TokenTTL + BusyTimeout
      BY <2>2, <2>3, <3>2 DEF TokenPromisesKept, NoConfirmation
    <3> QED BY <3>1, <3>2 DEF TokenPromisesKept
  <2> QED BY <2>5, <2>6, <2>7
<1>3. ASSUME NEW t \in Tokens, NEW o \in Previews, ReserveIntent(t, o)
      PROVE  (SpentIsIssued /\ WaitIsBounded /\ TokenPromisesKept)'
  <2>1. t \notin acknowledged /\ \A u \in Tokens \ {t} : intents'[u] = intents[u]
    BY <1>3 DEF ReserveIntent, SpentIsIssued, TokenPromisesKept, ReceiptVerified, ConfirmationTypeOK, Issued
  <2> QED BY <1>3, <2>1 DEF ReserveIntent, SpentIsIssued, WaitIsBounded, TokenPromisesKept, Issued, Waiting,
                            ReceiptVerified, ConfirmationTypeOK
<1>4. ASSUME NEW c \in Consumers, NEW t \in Tokens, NEW o \in Previews, BeginConsume(c, t, o)
      PROVE  (SpentIsIssued /\ WaitIsBounded /\ TokenPromisesKept)'
  <2>1. consumer' = [consumer EXCEPT ![c] = [token |-> t, order |-> o, stamp |-> tokenAge[t]]]
        /\ UNCHANGED <<confirmations, intents, tokenAge, acknowledged>>
    BY <1>4 DEF BeginConsume
  <2>2. consumer'[c].token = t /\ consumer'[c].stamp = tokenAge[t] /\ tokenAge[t] \in Nat
        /\ \A d \in Consumers \ {c} : consumer'[d] = consumer[d]
    BY <2>1, ConfirmationColumns DEF ConfirmationTypeOK
  <2>3. WaitIsBounded'
    BY <2>1, <2>2 DEF WaitIsBounded, Waiting
  <2> QED BY <2>1, <2>3 DEF SpentIsIssued, TokenPromisesKept, Issued, ReceiptVerified
<1>5. ASSUME NEW c \in Consumers, CommitConsume(c)
      PROVE  (SpentIsIssued /\ WaitIsBounded /\ TokenPromisesKept)'
  <2> DEFINE t == consumer[c].token
  <2>1. tokenAge' = tokenAge /\ consumer' = [consumer EXCEPT ![c] = NoConsumer]
    BY <1>5 DEF CommitConsume, Gone
  <2>2. SpentIsIssued'
    BY <1>5, Spent DEF SpentIsIssued, Issued
  <2>3. WaitIsBounded'
    BY <2>1 DEF WaitIsBounded, Waiting, NoConsumer, ConfirmationTypeOK
  <2>4. t \notin acknowledged
    BY <1>5, Spent DEF TokenPromisesKept, ReceiptVerified
  <2>5. ASSUME NEW u \in acknowledged' PROVE ReceiptVerified(u)'
    <3>1. CASE u = t
      BY <1>5, <2>4, <2>5, <3>1, Spent DEF ReceiptVerified
    <3>2. CASE u # t
      BY <1>5, <2>5, <3>2, Spent DEF ReceiptVerified, TokenPromisesKept, ConfirmationTypeOK
    <3> QED BY <3>1, <3>2
  <2>6. ASSUME NEW u \in Tokens, confirmations'[u].consumed
        PROVE  confirmations'[u].consumedAt < TokenTTL + BusyTimeout
    <3>1. CASE u = t
      <4>1. tokenAge[t] <= consumer[c].stamp + BusyTimeout /\ consumer[c].stamp < TokenTTL /\ t \in Tokens
        BY <1>5, Spent DEF WaitIsBounded
      <4>2. tokenAge[t] \in Nat /\ consumer[c].stamp \in Nat
        BY <4>1, ConfirmationColumns
      <4> QED BY <1>5, <3>1, <4>1, <4>2, Spent
    <3>2. CASE u # t
      BY <1>5, <2>6, <3>2, Spent DEF TokenPromisesKept
    <3> QED BY <3>1, <3>2
  <2> QED BY <2>2, <2>3, <2>5, <2>6 DEF TokenPromisesKept
<1>6. ASSUME NEW c \in Consumers, LeaveConsume(c)
      PROVE  (SpentIsIssued /\ WaitIsBounded /\ TokenPromisesKept)'
  BY <1>6 DEF LeaveConsume, Gone, NoConsumer, SpentIsIssued, WaitIsBounded, TokenPromisesKept, Issued, Waiting,
              ReceiptVerified, ConfirmationTypeOK
<1>7. CASE SecondPasses
  <2>1. WaitIsBounded'
    <3> SUFFICES ASSUME NEW c \in Consumers, Waiting(c), consumer[c].stamp < TokenTTL
                 PROVE  tokenAge'[consumer[c].token] <= consumer[c].stamp + BusyTimeout
      BY <1>7 DEF SecondPasses, WaitIsBounded, Waiting
    <3> DEFINE t == consumer[c].token
    <3>1. t \in Tokens /\ tokenAge[t] \in Nat /\ consumer[c].stamp \in Nat
      BY ConfirmationColumns DEF Waiting
    <3>2. tokenAge[t] <= consumer[c].stamp + BusyTimeout
      BY DEF WaitIsBounded
    <3>3. tokenAge[t] # PruneAge
      BY <3>1, <3>2
    <3>4. tokenAge[t] < consumer[c].stamp + BusyTimeout
      BY <1>7, <3>3 DEF SecondPasses
    <3>5. tokenAge'[t] \in {tokenAge[t], tokenAge[t] + 1}
      BY <1>7, <3>1 DEF SecondPasses
    <3> QED BY <3>1, <3>4, <3>5
  <2> QED BY <1>7, <2>1 DEF SecondPasses, SpentIsIssued, TokenPromisesKept, Issued, ReceiptVerified
<1> QED BY <1>1, <1>2, <1>3, <1>4, <1>5, <1>6, <1>7 DEF ConfirmationNext

LEMMA ConfirmationInvBegins ==
    ASSUME ConfirmationInit
    PROVE  ConfirmationInv
<1>1. ConfirmationTypeOK
  BY ConfirmationAssumption DEF ConfirmationInit, ConfirmationTypeOK, NoConfirmation, NoConsumer
<1>2. TokenPromisesKept /\ SpentIsIssued /\ WaitIsBounded
  BY DEF ConfirmationInit, TokenPromisesKept, SpentIsIssued, WaitIsBounded, Waiting, NoConfirmation, NoConsumer
<1> QED BY <1>1, <1>2 DEF ConfirmationInv

(* The invariant the two results below rest on.                            *)
THEOREM ConfirmationInvariant == ConfirmationSpec => []ConfirmationInv
<1>1. ConfirmationInit => ConfirmationInv
  BY ConfirmationInvBegins
<1>2. ConfirmationInv /\ [ConfirmationNext]_confirmVars => ConfirmationInv'
  BY ConfirmationInvStep
<1> QED BY <1>1, <1>2, PTL DEF ConfirmationSpec

(* The tables of the confirmation ledger keep their types.                 *)
THEOREM ConfirmationTypeHolds == ConfirmationSpec => []ConfirmationTypeOK
<1>1. ConfirmationInv => ConfirmationTypeOK
  BY DEF ConfirmationInv
<1> QED BY <1>1, ConfirmationInvariant, PTL

(* consume and receipt: a caller who was told of a recorded intent can     *)
(* always prove it, and no token is spent later than its life and one wait *)
(* for the write lock.                                                     *)
THEOREM TokenPromisesKeptHolds == ConfirmationSpec => []TokenPromisesKept
<1>1. ConfirmationInv => TokenPromisesKept
  BY DEF ConfirmationInv
<1> QED BY <1>1, ConfirmationInvariant, PTL
=============================================================================
