---------------------------- MODULE StripeBilling ----------------------------
(***************************************************************************)
(* Subscription billing: Stripe, its webhook deliveries, and the one       *)
(* subscription row per user that src/bxk_app/services/                    *)
(* stripe_billing_service.py keeps and subscription_service.py decides     *)
(* access by.                                                              *)
(*                                                                         *)
(* Stripe delivers every event at least once, in any order and however     *)
(* late.  The webhook handler runs on the event loop without awaiting      *)
(* after it has the body, so the processing of one event is one step; when *)
(* it fails, nothing is committed and Stripe delivers the event again.     *)
(* The owner's override runs in a thread of its own.  Both write only the  *)
(* columns they changed.                                                   *)
(***************************************************************************)
EXTENDS Integers, FiniteSets

CONSTANTS
    Users,      \* BETA accounts
    Subs,       \* Stripe subscriptions, one per checkout session
    GraceTTL,   \* BXK_STRIPE_PAST_DUE_GRACE_DAYS, in ticks
    MaxClock,   \* the last second (a bound for TLC)
    Faults,     \* what the environment may do, out of FaultKinds
    None        \* no user, no subscription

FaultKinds == {
    "overlap",       \* a user subscribes again while a subscription lives
    "sameSecond"}    \* several changes of Stripe in one second

ASSUME BillingAssumptions ==
    /\ GraceTTL \in Nat
    /\ MaxClock \in Nat
    /\ Faults \subseteq FaultKinds
    /\ None \notin Users \cup Subs

VARIABLES
    stripe,     \* Stripe's view of each subscription
    events,     \* the events Stripe has emitted
    ledger,     \* billing_webhook_events: those processed
    rows,       \* user_subscriptions, by user
    override,   \* set_manual_subscription_access in progress
    clock

vars == <<stripe, events, ledger, rows, override, clock>>

-----------------------------------------------------------------------------
(* CANCELED stands for canceled, unpaid and paused, ACTIVE for active and  *)
(* trialing.                                                               *)
Statuses == {"INCOMPLETE", "ACTIVE", "PAST_DUE", "CANCELED"}
Live == {"ACTIVE", "PAST_DUE"}

(* A checkout session is open until it is completed.  A new Stripe         *)
(* customer is named after the subscription it came with.                  *)
StripeSubs == [status: Statuses \cup {"none", "open"},
               user: Users \cup {None}, customer: Subs \cup {None}]

(* customer.subscription.*, checkout.session.completed,                    *)
(* invoice.payment_failed and invoice.paid.  Only the first tells a status. *)
EventKinds == {"subscription", "checkout", "failed", "paid"}
EventRecords ==
    {e \in [kind: EventKinds, sub: Subs, status: Statuses \cup {"none"},
            created: 0..MaxClock] :
        e.kind = "subscription" => e.status \in Statuses}

(* grace_period_ends_at as ticks that remain; event_at is                  *)
(* provider_event_created_at.                                              *)
NoGrace == -1
NoEvent == -1
Rows == [exists: BOOLEAN, stripe: BOOLEAN, sub: Subs \cup {None},
         customer: Subs \cup {None}, status: Statuses,
         grace: NoGrace..GraceTTL, event_at: NoEvent..MaxClock,
         manual: {"unset", "granted", "denied"}]

NoRow == [exists |-> FALSE, stripe |-> FALSE, sub |-> None,
          customer |-> None, status |-> "INCOMPLETE", grace |-> NoGrace,
          event_at |-> NoEvent, manual |-> "unset"]

Overrides == [user: Users \cup {None}, found: BOOLEAN,
              value: {"unset", "granted", "denied"}]
NoOverride == [user |-> None, found |-> FALSE, value |-> "unset"]

TypeOK ==
    /\ stripe \in [Subs -> StripeSubs]
    /\ events \subseteq EventRecords
    /\ ledger \subseteq events
    /\ rows \in [Users -> Rows]
    /\ override \in Overrides
    /\ clock \in 0..MaxClock

Init ==
    /\ stripe = [s \in Subs |-> [status |-> "none", user |-> None,
                                 customer |-> None]]
    /\ events = {}
    /\ ledger = {}
    /\ rows = [u \in Users |-> NoRow]
    /\ override = NoOverride
    /\ clock = 0

-----------------------------------------------------------------------------
(* Stripe.                                                                 *)

Event(kind, s, status) ==
    [kind |-> kind, sub |-> s, status |-> status, created |-> clock]

(* Unless seconds may coincide, one change of Stripe a second.             *)
Emit(batch) ==
    /\ "sameSecond" \in Faults \/ \A e \in events : e.created < clock
    /\ events' = events \cup batch
    /\ UNCHANGED <<ledger, rows, override, clock>>

LivesOf(u) == {s \in Subs : stripe[s].user = u /\ stripe[s].status \in Live}

(* The customer pays and the subscription begins.                          *)
CompleteCheckout(s) ==
    /\ stripe[s].status = "open"
    /\ "overlap" \in Faults \/ LivesOf(stripe[s].user) = {}
    /\ stripe' = [stripe EXCEPT ![s].status = "ACTIVE"]
    /\ Emit({Event("checkout", s, "none"), Event("subscription", s, "ACTIVE")})

(* A renewal, or a retry of one, fails.                                    *)
PaymentFails(s) ==
    /\ stripe[s].status \in Live
    /\ stripe' = [stripe EXCEPT ![s].status = "PAST_DUE"]
    /\ Emit({Event("failed", s, "none")} \cup
            IF stripe[s].status = "PAST_DUE" THEN {}
            ELSE {Event("subscription", s, "PAST_DUE")})

PaymentSucceeds(s) ==
    /\ stripe[s].status = "PAST_DUE"
    /\ stripe' = [stripe EXCEPT ![s].status = "ACTIVE"]
    /\ Emit({Event("paid", s, "none"), Event("subscription", s, "ACTIVE")})

(* Cancelled by its owner, or by Stripe when it gives up on the payment.   *)
Cancels(s) ==
    /\ stripe[s].status \in Live
    /\ stripe' = [stripe EXCEPT ![s].status = "CANCELED"]
    /\ Emit({Event("subscription", s, "CANCELED")})

-----------------------------------------------------------------------------
(* create_checkout_session: refused while the row shows an accessible      *)
(* Stripe subscription; a known customer is kept.                          *)
CreateCheckout(u, s) ==
    /\ stripe[s].status = "none"
    /\ ~ (rows[u].stripe /\ rows[u].status = "ACTIVE")
    /\ stripe' = [stripe EXCEPT ![s] =
                    [status |-> "open", user |-> u,
                     customer |-> IF rows[u].customer # None
                                  THEN rows[u].customer ELSE s]]
    /\ UNCHANGED <<events, ledger, rows, override, clock>>

-----------------------------------------------------------------------------
(* process_stripe_webhook.                                                 *)

UserOf(e) == stripe[e.sub].user
CustomerOf(e) == stripe[e.sub].customer

(* Another user's row has the event's identifiers:                         *)
(* _find_subscription_record, _assert_identifiers_available.               *)
Conflicts(e) ==
    \E v \in Users \ {UserOf(e)} :
        rows[v].sub = e.sub \/ rows[v].customer = CustomerOf(e)

(* The user's row, inserted if there is none.                              *)
RowFor(u) ==
    IF rows[u].exists THEN rows[u]
    ELSE [NoRow EXCEPT !.exists = TRUE, !.stripe = TRUE]

(* Faulty variant: any event overwrites the row.                           *)
NeverStale(row, e) == FALSE

Stale(row, e) == row.event_at # NoEvent /\ e.created < row.event_at

Linked(row, e) ==
    [row EXCEPT !.stripe = TRUE, !.customer = CustomerOf(e), !.sub = e.sub]

(* _upsert_checkout_completed                                              *)
CheckoutCompleted(e) ==
    /\ e.kind = "checkout"
    /\ ~ Conflicts(e)
    /\ rows' = [rows EXCEPT ![UserOf(e)] = Linked(RowFor(UserOf(e)), e)]

(* Faulty variant: a past due event adds a whole grace period.             *)
GraceExtended(row) ==
    IF row.grace # NoGrace THEN row.grace + GraceTTL ELSE GraceTTL

(* The grace that a row which is now past due has.                         *)
GraceOf(row) ==
    IF row.status = "PAST_DUE" /\ row.grace # NoGrace
    THEN row.grace ELSE GraceTTL

(* _upsert_subscription_event                                              *)
SubscriptionChanged(e) ==
    /\ e.kind = "subscription"
    /\ ~ Conflicts(e)
    /\ LET row == RowFor(UserOf(e)) IN
       rows' = [rows EXCEPT ![UserOf(e)] =
                  IF Stale(row, e) THEN row
                  ELSE [Linked(row, e) EXCEPT
                          !.status = e.status,
                          !.grace = IF e.status = "PAST_DUE"
                                    THEN GraceOf(row) ELSE NoGrace,
                          !.event_at = e.created]]

(* Faulty variant: every failed payment begins a new grace period.         *)
PastDueAnew(row, e) ==
    [row EXCEPT !.status = "PAST_DUE", !.grace = GraceTTL,
                !.event_at = e.created]

PastDue(row, e) ==
    [row EXCEPT !.status = "PAST_DUE",
                !.grace = IF row.status = "PAST_DUE" THEN @ ELSE GraceTTL,
                !.event_at = e.created]

(* _process_invoice_event: the row is found by subscription alone; a       *)
(* payment that succeeded changes nothing.                                 *)
InvoiceSettled(e) ==
    /\ e.kind \in {"failed", "paid"}
    /\ rows' = [u \in Users |->
                  IF /\ e.kind = "failed"
                     /\ rows[u].sub = e.sub
                     /\ ~ Stale(rows[u], e)
                  THEN PastDue(rows[u], e)
                  ELSE rows[u]]

(* A delivery.  One already in the ledger is a DUPLICATE_EVENT.            *)
ProcessWebhook(e) ==
    /\ e \notin ledger
    /\ CheckoutCompleted(e) \/ SubscriptionChanged(e) \/ InvoiceSettled(e)
    /\ ledger' = ledger \cup {e}
    /\ UNCHANGED <<stripe, events, override, clock>>

-----------------------------------------------------------------------------
(* set_manual_subscription_access: read the row, then write or insert.     *)
LoadOverride(u, value) ==
    /\ override.user = None
    /\ override' = [user |-> u, found |-> rows[u].exists, value |-> value]
    /\ UNCHANGED <<stripe, events, ledger, rows, clock>>

(* An insert fails on the unique user_id when a webhook was faster.        *)
CommitOverride ==
    /\ override.user # None
    /\ LET u == override.user IN
       rows' = IF override.found \/ ~ rows[u].exists
               THEN [rows EXCEPT ![u].exists = TRUE,
                                 ![u].manual = override.value]
               ELSE rows
    /\ override' = NoOverride
    /\ UNCHANGED <<stripe, events, ledger, clock>>

Tick ==
    /\ clock < MaxClock
    /\ clock' = clock + 1
    /\ rows' = [u \in Users |->
                  [rows[u] EXCEPT !.grace = IF @ > 0 THEN @ - 1 ELSE @]]
    /\ UNCHANGED <<stripe, events, ledger, override>>

Next ==
    \/ \E s \in Subs : \/ \E u \in Users : CreateCheckout(u, s)
                       \/ CompleteCheckout(s) \/ PaymentFails(s)
                       \/ PaymentSucceeds(s) \/ Cancels(s)
    \/ \E e \in events : ProcessWebhook(e)
    \/ \E u \in Users, v \in {"unset", "granted", "denied"} :
         LoadOverride(u, v)
    \/ CommitOverride
    \/ Tick

Spec == Init /\ [][Next]_vars

-----------------------------------------------------------------------------
(* Properties.                                                             *)

(* evaluate_subscription_access, with enforcement on and configured prices. *)
Access(row) ==
    /\ row.exists
    /\ row.manual # "denied"
    /\ \/ row.manual = "granted"
       \/ row.status = "ACTIVE"
       \/ row.status = "PAST_DUE" /\ row.grace > 0

Standing(u, status) ==
    \E s \in Subs : stripe[s].user = u /\ stripe[s].status = status

(* docs/stripe-billing.md, "the database status follows Stripe": once      *)
(* every event was processed, in whatever order they came, the row shows   *)
(* the status of the user's one living subscription; without an override   *)
(* they have access if one is active, and none if all are cancelled.       *)
AccessFollowsStripe ==
    ledger = events =>
        \A u \in Users :
            /\ \A s \in Subs :
                 LivesOf(u) = {s} => rows[u].status = stripe[s].status
            /\ rows[u].manual = "unset" =>
                 /\ Standing(u, "ACTIVE") => Access(rows[u])
                 /\ LivesOf(u) = {} => ~ Access(rows[u])

(* Neither a retry that fails, nor its subscription event, nor an event    *)
(* that is late or repeated lengthens the grace period of a row that is    *)
(* past due.                                                               *)
GraceNotRestarted ==
    [][\A u \in Users :
         (rows[u].status = "PAST_DUE" /\ rows'[u].status = "PAST_DUE")
            => rows'[u].grace <= rows[u].grace]_vars

-----------------------------------------------------------------------------
(* Inductive strengthenings, for the proofs.                               *)

(* The events a row takes its status from, and the status each tells.      *)
Telling(e) == e.kind \in {"subscription", "failed"}
Told(e) == IF e.kind = "failed" THEN "PAST_DUE" ELSE e.status

(* Subscriptions have users, and one lives at a time.                      *)
SubsInv ==
    /\ \A s \in Subs : /\ stripe[s].status = "none" => stripe[s].user = None
                       /\ stripe[s].status # "none" => stripe[s].user \in Users
    /\ \A u \in Users : \A s, t \in LivesOf(u) : s = t

(* Every change of a subscription is told by an event; what the newest ones *)
(* tell is so.                                                             *)
EventsInv ==
    /\ \A e \in events : /\ stripe[e.sub].status \notin {"none", "open"}
                         /\ e.created <= clock
    /\ \A s \in Subs : stripe[s].status \notin {"none", "open"} =>
          \E e \in events : e.kind = "subscription" /\ e.sub = s
    /\ \A e \in events :
          /\ Telling(e)
          /\ \A f \in events : f.kind = "subscription" /\ UserOf(f) = UserOf(e)
                                  => f.created <= e.created
          => /\ Told(e) = stripe[e.sub].status
             /\ LivesOf(UserOf(e)) \subseteq {e.sub}

(* A row says what some event of its user told, which is no older than any *)
(* subscription event that was processed for them.                         *)
RowTold(u) ==
    /\ rows[u].sub # None => stripe[rows[u].sub].user = u
    /\ \A f \in ledger : f.kind = "subscription" /\ UserOf(f) = u =>
          rows[u].exists /\ f.created <= rows[u].event_at
    /\ rows[u].event_at # NoEvent =>
          \E e \in events : /\ Telling(e) /\ UserOf(e) = u
                            /\ e.created = rows[u].event_at
                            /\ Told(e) = rows[u].status
    /\ rows[u].event_at = NoEvent => rows[u].status = "INCOMPLETE"

FollowInv == SubsInv /\ EventsInv /\ \A u \in Users : RowTold(u)

=============================================================================
