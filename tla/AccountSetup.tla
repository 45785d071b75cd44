---------------------------- MODULE AccountSetup ----------------------------
(***************************************************************************)
(* The credentials of one BETA or VIEWER account: the owner's setup        *)
(* invitations (setup_invitation_service), password changes (user_service) *)
(* and sign-in (auth_service), each a request of several steps.  The       *)
(* conditional updates have to keep them apart, since SQLite has no row    *)
(* locks; so none is modelled.                                             *)
(***************************************************************************)
EXTENDS Naturals, FiniteSets

CONSTANTS Requests,      \* concurrent requests
          LinkTTL,       \* INVITATION_TTL
          Cooldown,      \* RESEND_COOLDOWN
          MaxChanges,    \* bound on password changes
          MaxLinks       \* bound on invitations

ASSUME SetupAssumption ==
    /\ LinkTTL \in Nat \ {0} /\ Cooldown \in 0..LinkTTL
    /\ MaxChanges \in Nat /\ MaxLinks \in Nat

VARIABLES
    user,       \* the users row
    invite,     \* the setup_invitations row, with its age
    inbox,      \* links that reached the user's mailbox
    cookies,    \* session cookies issued, with the password they were given for
    request,    \* the requests in progress
    linkSet     \* links that have set a password

setupVars == <<user, invite, inbox, cookies, request, linkSet>>

Links == 1..MaxLinks
NoInvite == [link |-> 0, version |-> 0, age |-> 0, consumed |-> FALSE, status |-> "NONE"]
NoRequest == [op |-> "none", version |-> 0, password |-> 0, link |-> 0]

SetupInit ==
    /\ user = [active |-> TRUE, mustChange |-> TRUE, version |-> 0, password |-> 0]
    /\ invite = NoInvite
    /\ inbox = {} /\ cookies = {} /\ linkSet = {}
    /\ request = [r \in Requests |-> NoRequest]

Free(r) == request[r].op = "none"
Begin(r, op, link) ==
    request' = [request EXCEPT ![r] = [op |-> op, version |-> user.version,
                                         password |-> user.password, link |-> link]]
Finish(r) == request' = [request EXCEPT ![r] = NoRequest]

Accepted(c) == user.active /\ c.version = user.version
SignedIn == \E c \in cookies : Accepted(c)
InvitationEligible == user.active /\ user.mustChange
Expired == invite.age >= LinkTTL

(* issue_setup_invitation up to its commit: the new link replaces the old  *)
(* one, whatever became of it.                                             *)
IssueInvitation(r) ==
    /\ Free(r)
    /\ InvitationEligible
    /\ invite.link # 0 => invite.age >= Cooldown
    /\ invite.link < MaxLinks
    /\ invite' = [link |-> invite.link + 1, version |-> user.version, age |-> 0,
                  consumed |-> FALSE, status |-> "DISPATCHING"]
    /\ Begin(r, "mail", invite.link + 1)
    /\ UNCHANGED <<user, inbox, cookies, linkSet>>

(* Faulty variant: the answer is stored in whatever invitation is there.   *)
SendEmailForAnyLink(r) ==
    /\ request[r].op = "mail"
    /\ \E outcome \in {"ACCEPTED", "FAILED", "UNKNOWN"} :
         /\ inbox' = IF outcome = "ACCEPTED" THEN inbox \cup {request[r].link} ELSE inbox
         /\ invite' = [invite EXCEPT !.status = outcome]
    /\ Finish(r)
    /\ UNCHANGED <<user, cookies, linkSet>>

(* The provider takes the e-mail, refuses it, or does not answer; the      *)
(* status is kept only while the row still holds this link.                *)
SendEmail(r) ==
    /\ request[r].op = "mail"
    /\ \E outcome \in {"ACCEPTED", "FAILED", "UNKNOWN"}, arrives \in BOOLEAN :
         /\ outcome = "ACCEPTED" => arrives
         /\ outcome = "FAILED" => ~arrives
         /\ inbox' = IF arrives THEN inbox \cup {request[r].link} ELSE inbox
         /\ invite' = IF invite.link = request[r].link THEN [invite EXCEPT !.status = outcome] ELSE invite
    /\ Finish(r)
    /\ UNCHANGED <<user, cookies, linkSet>>

(* redeem_setup_invitation: the checks, then a slow password hash.         *)
BeginRedeem(r, link) ==
    /\ Free(r)
    /\ link \in inbox /\ invite.link = link
    /\ InvitationEligible
    /\ ~invite.consumed /\ ~Expired
    /\ invite.version = user.version
    /\ invite.status # "FAILED"
    /\ Begin(r, "redeem", link)
    /\ UNCHANGED <<user, invite, inbox, cookies, linkSet>>

NewCredentials == [user EXCEPT !.mustChange = FALSE, !.version = @ + 1, !.password = @ + 1]

(* Both conditional writes or neither.                                     *)
CommitRedeem(r) ==
    LET q == request[r]
    IN  /\ q.op = "redeem"
        /\ IF /\ invite.link = q.link /\ ~invite.consumed /\ ~Expired
              /\ user.version = q.version /\ user.password = q.password /\ InvitationEligible
           THEN /\ user' = NewCredentials
                /\ invite' = [invite EXCEPT !.consumed = TRUE]
                /\ linkSet' = linkSet \cup {q.link}
           ELSE UNCHANGED <<user, invite, linkSet>>
        /\ Finish(r)
        /\ UNCHANGED <<inbox, cookies>>

(* change_user_password behind the session check of the middleware: the    *)
(* current password is verified, then compared again by the update.        *)
BeginChange(r) ==
    /\ Free(r)
    /\ user.version < MaxChanges
    /\ SignedIn
    /\ Begin(r, "change", 0)
    /\ UNCHANGED <<user, invite, inbox, cookies, linkSet>>

(* Faulty variant: the update does not compare the password verified.      *)
CommitChangeUnchecked(r) ==
    /\ request[r].op = "change"
    /\ user' = IF user.active THEN NewCredentials ELSE user
    /\ Finish(r)
    /\ UNCHANGED <<invite, inbox, cookies, linkSet>>

CommitChange(r) ==
    LET q == request[r]
    IN  /\ q.op = "change"
        /\ user' = IF user.active /\ user.password = q.password /\ user.version = q.version
                   THEN NewCredentials ELSE user
        /\ Finish(r)
        /\ UNCHANGED <<invite, inbox, cookies, linkSet>>

(* login: authenticate_database_credentials, then                          *)
(* create_database_session_token for the version that was verified.        *)
BeginLogin(r) ==
    /\ Free(r)
    /\ user.active
    /\ Begin(r, "login", 0)
    /\ UNCHANGED <<user, invite, inbox, cookies, linkSet>>

(* Faulty variant: the cookie is bound to the revision of now.             *)
IssueCookieUnbound(r) ==
    /\ request[r].op = "login"
    /\ cookies' = IF user.active THEN cookies \cup {[version |-> user.version, password |-> request[r].password]}
                                 ELSE cookies
    /\ Finish(r)
    /\ UNCHANGED <<user, invite, inbox, linkSet>>

IssueCookie(r) ==
    LET q == request[r]
    IN  /\ q.op = "login"
        /\ cookies' = IF user.active /\ user.version = q.version
                      THEN cookies \cup {[version |-> user.version, password |-> q.password]}
                      ELSE cookies
        /\ Finish(r)
        /\ UNCHANGED <<user, invite, inbox, linkSet>>

(* The owner disables and enables the account.                             *)
SetUserActive ==
    /\ user' = [user EXCEPT !.active = ~@]
    /\ UNCHANGED <<invite, inbox, cookies, request, linkSet>>

(* The process dies: what was committed stays, the e-mail may be lost.     *)
ProcessDies ==
    /\ \E r \in Requests : ~Free(r)
    /\ request' = [r \in Requests |-> NoRequest]
    /\ UNCHANGED <<user, invite, inbox, cookies, linkSet>>

LinkAges ==
    /\ invite.link # 0 /\ ~Expired
    /\ invite' = [invite EXCEPT !.age = @ + 1]
    /\ UNCHANGED <<user, inbox, cookies, request, linkSet>>

SetupNext ==
    \/ \E r \in Requests :
         \/ IssueInvitation(r) \/ SendEmail(r)
         \/ \E link \in Links : BeginRedeem(r, link)
         \/ CommitRedeem(r)
         \/ BeginChange(r) \/ CommitChange(r)
         \/ BeginLogin(r) \/ IssueCookie(r)
    \/ SetUserActive \/ ProcessDies \/ LinkAges

SetupSpec == SetupInit /\ [][SetupNext]_setupVars
-----------------------------------------------------------------------------
(* Every variable stays in its type.                                       *)
SetupTypeOK ==
    /\ user \in [active : BOOLEAN, mustChange : BOOLEAN,
                 version : 0..MaxChanges + 1, password : 0..MaxChanges + 1]
    /\ invite \in [link : 0..MaxLinks, version : 0..MaxChanges + 1, age : 0..LinkTTL, consumed : BOOLEAN,
                   status : {"NONE", "DISPATCHING", "ACCEPTED", "FAILED", "UNKNOWN"}]
    /\ inbox \subseteq Links /\ linkSet \subseteq Links
    /\ cookies \subseteq [version : 0..MaxChanges + 1, password : 0..MaxChanges + 1]
    /\ request \in [Requests -> [op : {"none", "mail", "redeem", "change", "login"},
                                 version : 0..MaxChanges + 1, password : 0..MaxChanges + 1, link : 0..MaxLinks]]

(* No cookie works that was given for a password since replaced: not even  *)
(* one whose login verified the old password while the change committed    *)
(* (create_database_session_token binds it to the verified revision).      *)
OldCookiesRefused == \A c \in cookies : Accepted(c) => c.password = user.password

(* "Only the latest setup link works" and it works once: a password set    *)
(* through a link uses the newest link, for the first time, before any     *)
(* other password was set, while resends and other redeems go on.          *)
NewestLinkOnce ==
    linkSet' # linkSet => linkSet = {} /\ linkSet' = {invite.link} /\ user.password = 0

(* Of two requests that checked the same password at most one replaces it. *)
LoserRefused ==
    user'.password # user.password =>
        \E r \in Requests : request[r].password = user.password /\ ~Free(r) /\ request'[r] = NoRequest

(* However link redemptions, password changes, resends and crashes         *)
(* interleave, no password is set by a stale link or over a newer one      *)
(* (redeem_setup_invitation, change_user_password).                        *)
PasswordChangesHold == [][NewestLinkOnce /\ LoserRefused]_setupVars

(* The status the owner reads is about the link the user has to open: the  *)
(* provider's answer for an older link, arriving after a resend, is not    *)
(* taken for the new one, and an e-mail lost in a crash never counts as    *)
(* sent (DISPATCHING is shown as UNKNOWN).                                 *)
HonestDeliveryStatus ==
    /\ invite.status = "ACCEPTED" => invite.link \in inbox
    /\ invite.status = "FAILED" => invite.link \notin inbox
=============================================================================
