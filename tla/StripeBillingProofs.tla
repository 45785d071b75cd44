------------------------- MODULE StripeBillingProofs -------------------------
(***************************************************************************)
(* The state of the billing module keeps its types, a grace period is      *)
(* never lengthened while the row is past due, and a user's row follows    *)
(* Stripe, for any users, subscriptions, grace period and order of         *)
(* deliveries.                                                             *)
(***************************************************************************)
EXTENDS StripeBilling, TLAPS

(* A row that is past due has a grace period; one that does not exist has  *)
(* no columns.                                                             *)
PastDueHasGrace ==
    \A u \in Users :
        /\ rows[u].status = "PAST_DUE" => rows[u].grace # NoGrace
        /\ rows[u].exists \/ rows[u] = NoRow

BillingInv == TypeOK /\ PastDueHasGrace

(* What a step may make of one user's row.                                 *)
RowStep(old, new) ==
    /\ new \in Rows
    /\ new.status = "PAST_DUE" => new.grace # NoGrace
    /\ new.exists \/ new = NoRow
    /\ old.status = "PAST_DUE" /\ new.status = "PAST_DUE"
          => new.grace <= old.grace

(* The columns of a row are what Rows says they are.                       *)
LEMMA RowFields ==
    ASSUME NEW r \in Rows
    PROVE  /\ r.exists \in BOOLEAN
           /\ r.stripe \in BOOLEAN
           /\ r.sub \in Subs \cup {None}
           /\ r.customer \in Subs \cup {None}
           /\ r.status \in Statuses
           /\ r.grace \in NoGrace..GraceTTL
           /\ r.event_at \in NoEvent..MaxClock
           /\ r.manual \in {"unset", "granted", "denied"}
BY DEF Rows

(* The row a webhook works on: the user's own, or a fresh one.             *)
LEMMA RowForFits ==
    ASSUME BillingInv, NEW u \in Users
    PROVE  /\ RowFor(u) \in Rows
           /\ RowFor(u).exists
           /\ RowFor(u).status = rows[u].status
           /\ rows[u].status = "PAST_DUE" => RowFor(u) = rows[u]
           /\ RowFor(u).status = "PAST_DUE" => RowFor(u).grace # NoGrace
<1>0. rows[u] \in Rows /\ PastDueHasGrace
  BY DEF BillingInv, TypeOK
<1>1. CASE rows[u].exists
  BY <1>0, <1>1 DEF RowFor, PastDueHasGrace
<1>2. CASE ~ rows[u].exists
  <2>1. rows[u].status = "INCOMPLETE"
    BY <1>0, <1>2 DEF PastDueHasGrace, NoRow
  <2>2. RowFor(u) = [exists |-> TRUE, stripe |-> TRUE, sub |-> None,
                     customer |-> None, status |-> "INCOMPLETE",
                     grace |-> NoGrace, event_at |-> NoEvent,
                     manual |-> "unset"]
    BY <1>2 DEF RowFor, NoRow
  <2>3. RowFor(u) \in Rows
    BY <2>2, BillingAssumptions DEF Rows, Statuses, NoGrace, NoEvent
  <2> QED BY <2>1, <2>2, <2>3
<1> QED BY <1>1, <1>2

(* A row keeps everything when it is linked to a subscription.             *)
LEMMA LinkedFits ==
    ASSUME NEW r \in Rows, NEW e, e.sub \in Subs,
           stripe \in [Subs -> StripeSubs]
    PROVE  /\ Linked(r, e) \in Rows
           /\ Linked(r, e).exists = r.exists
           /\ Linked(r, e).status = r.status
           /\ Linked(r, e).grace = r.grace
<1>1. CustomerOf(e) \in Subs \cup {None}
  BY DEF CustomerOf, StripeSubs
<1>2. Linked(r, e) \in Rows
  BY <1>1, ZenonT(30) DEF Linked, Rows
<1> QED BY <1>2 DEF Linked, Rows

-----------------------------------------------------------------------------
(* checkout.session.completed touches neither status nor grace.            *)
LEMMA CheckoutRow ==
    ASSUME BillingInv, NEW e \in events, CheckoutCompleted(e), NEW u \in Users
    PROVE  RowStep(rows[u], rows'[u])
<1>0. /\ rows \in [Users -> Rows]
      /\ stripe \in [Subs -> StripeSubs]
      /\ e.sub \in Subs
      /\ PastDueHasGrace
  BY DEF BillingInv, TypeOK, EventRecords
<1>1. rows[u] \in Rows
  BY <1>0
<1>2. CASE u = UserOf(e)
  <2>1. rows'[u] = Linked(RowFor(u), e)
    BY <1>0, <1>2 DEF CheckoutCompleted
  <2>2. RowFor(u) \in Rows /\ RowFor(u).exists
    BY RowForFits
  <2>3. /\ rows'[u] \in Rows
        /\ rows'[u].exists
        /\ rows'[u].status = RowFor(u).status
        /\ rows'[u].grace = RowFor(u).grace
    BY <1>0, <2>1, <2>2, LinkedFits
  <2>4. rows[u].status = "PAST_DUE" => rows'[u].grace = rows[u].grace
    BY <2>3, RowForFits
  <2>5. rows[u].grace \in Int
    BY <1>1, BillingAssumptions DEF Rows, NoGrace
  <2> QED BY <2>2, <2>3, <2>4, <2>5, RowForFits DEF RowStep
<1>3. CASE u # UserOf(e)
  <2>1. rows'[u] = rows[u]
    BY <1>0, <1>3 DEF CheckoutCompleted
  <2>2. rows[u].grace \in Int
    BY <1>1, BillingAssumptions DEF Rows, NoGrace
  <2> QED BY <1>0, <1>1, <2>1, <2>2 DEF RowStep, PastDueHasGrace
<1> QED BY <1>2, <1>3

(* A subscription event begins a grace period only on a row that had none. *)
LEMMA SubscriptionRow ==
    ASSUME BillingInv, NEW e \in events, SubscriptionChanged(e), NEW u \in Users
    PROVE  RowStep(rows[u], rows'[u])
<1>0. /\ rows \in [Users -> Rows]
      /\ stripe \in [Subs -> StripeSubs]
      /\ e \in EventRecords
      /\ e.sub \in Subs
      /\ PastDueHasGrace
  BY DEF BillingInv, TypeOK, EventRecords
<1>1. rows[u] \in Rows /\ rows[u].grace \in Int
  BY <1>0, BillingAssumptions DEF Rows, NoGrace
<1>2. CASE u = UserOf(e)
  <2> DEFINE row == RowFor(u)
  <2>1. /\ row \in Rows
        /\ row.exists
        /\ row.status = rows[u].status
        /\ rows[u].status = "PAST_DUE" => row = rows[u]
        /\ row.status = "PAST_DUE" => row.grace # NoGrace
    BY RowForFits
  <2>2. CASE Stale(row, e)
    <3>1. rows'[u] = row
      BY <1>0, <1>2, <2>2 DEF SubscriptionChanged
    <3> QED BY <1>1, <2>1, <3>1 DEF RowStep
  <2>3. CASE ~ Stale(row, e)
    <3> DEFINE linked == Linked(row, e)
               grace == IF e.status = "PAST_DUE" THEN GraceOf(row) ELSE NoGrace
    <3>1. linked \in Rows /\ linked.exists
      BY <1>0, <2>1, LinkedFits
    <3>2. rows'[u] = [linked EXCEPT !.status = e.status, !.grace = grace,
                                    !.event_at = e.created]
      BY <1>0, <1>2, <2>3 DEF SubscriptionChanged
    <3>3. e.status \in Statuses
      BY <1>0 DEF SubscriptionChanged, EventRecords
    <3>4. grace \in NoGrace..GraceTTL
      BY <2>1, RowFields, BillingAssumptions DEF GraceOf, NoGrace
    <3>5. e.created \in NoEvent..MaxClock
      BY <1>0, BillingAssumptions DEF EventRecords, NoEvent
    <3>6. rows'[u] \in Rows
      BY <3>1, <3>2, <3>3, <3>4, <3>5, ZenonT(30) DEF Rows
    <3>7. /\ rows'[u].exists
          /\ rows'[u].status = e.status
          /\ rows'[u].grace = grace
      BY <3>1, <3>2 DEF Rows
    <3>8. e.status = "PAST_DUE" => grace # NoGrace
      BY BillingAssumptions DEF GraceOf, NoGrace
    <3>9. rows[u].status = "PAST_DUE" /\ e.status = "PAST_DUE"
            => grace = rows[u].grace
      BY <2>1 DEF GraceOf
    <3> HIDE DEF grace, linked
    <3> QED BY <1>1, <3>6, <3>7, <3>8, <3>9 DEF RowStep
  <2> QED BY <2>2, <2>3
<1>3. CASE u # UserOf(e)
  <2>1. rows'[u] = rows[u]
    BY <1>0, <1>3 DEF SubscriptionChanged
  <2> QED BY <1>0, <1>1, <2>1 DEF RowStep, PastDueHasGrace
<1> QED BY <1>2, <1>3

(* invoice.payment_failed begins a grace period only on a row that is not  *)
(* past due yet.                                                           *)
LEMMA InvoiceRow ==
    ASSUME BillingInv, NEW e \in events, InvoiceSettled(e), NEW u \in Users
    PROVE  RowStep(rows[u], rows'[u])
<1>0. /\ rows[u] \in Rows
      /\ e \in EventRecords
      /\ PastDueHasGrace
  BY DEF BillingInv, TypeOK
<1>1. rows[u].grace \in Int
  BY <1>0, BillingAssumptions DEF Rows, NoGrace
<1>2. CASE rows'[u] = rows[u]
  BY <1>0, <1>1, <1>2 DEF RowStep, PastDueHasGrace
<1>3. CASE rows'[u] = PastDue(rows[u], e) /\ rows[u].sub = e.sub
  <2> DEFINE grace == IF rows[u].status = "PAST_DUE" THEN rows[u].grace
                      ELSE GraceTTL
  <2>1. rows'[u] = [rows[u] EXCEPT !.status = "PAST_DUE", !.grace = grace,
                                   !.event_at = e.created]
    BY <1>0, <1>3 DEF PastDue, Rows
  <2>2. grace \in NoGrace..GraceTTL
    BY <1>0, RowFields, BillingAssumptions DEF NoGrace
  <2>3. grace # NoGrace
    BY <1>0, BillingAssumptions DEF PastDueHasGrace, NoGrace
  <2>4. e.created \in NoEvent..MaxClock
    BY <1>0, BillingAssumptions DEF EventRecords, NoEvent
  <2>5. "PAST_DUE" \in Statuses
    BY DEF Statuses
  <2>6. rows'[u].grace = grace
    BY <1>0, <2>1 DEF Rows
  <2>7. rows'[u].status = "PAST_DUE"
    BY <1>0, <2>1 DEF Rows
  <2>8. rows'[u].exists = rows[u].exists
    BY <1>0, <2>1 DEF Rows
  <2>9. rows[u].status = "PAST_DUE" => grace = rows[u].grace
    OBVIOUS
  <2> HIDE DEF grace
  <2>10. rows'[u] \in Rows
    BY <1>0, <2>1, <2>2, <2>4, <2>5, ZenonT(30) DEF Rows
  <2>11. rows'[u].exists
    <3>1. rows[u].sub # None
      BY <1>0, <1>3, BillingAssumptions DEF EventRecords
    <3> QED BY <1>0, <2>8, <3>1 DEF PastDueHasGrace, NoRow
  <2> QED BY <1>1, <2>3, <2>6, <2>7, <2>9, <2>10, <2>11 DEF RowStep
<1> QED BY <1>2, <1>3 DEF InvoiceSettled

-----------------------------------------------------------------------------
(* A row that a step leaves alone, or changes outside status and grace.    *)
LEMMA SameRow ==
    ASSUME BillingInv, NEW u \in Users, rows'[u] = rows[u]
    PROVE  RowStep(rows[u], rows'[u])
<1>1. rows[u] \in Rows /\ PastDueHasGrace
  BY DEF BillingInv, TypeOK
<1>2. rows[u].grace \in Int
  BY <1>1, BillingAssumptions DEF Rows, NoGrace
<1> QED BY <1>1, <1>2 DEF RowStep, PastDueHasGrace

(* The owner's override writes neither status nor grace.                   *)
LEMMA OverrideRow ==
    ASSUME BillingInv, CommitOverride, NEW u \in Users
    PROVE  RowStep(rows[u], rows'[u])
<1>0. /\ rows \in [Users -> Rows]
      /\ PastDueHasGrace
      /\ override.value \in {"unset", "granted", "denied"}
  BY DEF BillingInv, TypeOK, Overrides
<1>1. CASE rows'[u] = rows[u]
  BY <1>1, SameRow
<1>2. CASE rows'[u] = [rows[u] EXCEPT !.exists = TRUE,
                                      !.manual = override.value]
  <2>0. rows[u] \in Rows /\ rows[u].grace \in Int
    BY <1>0, BillingAssumptions DEF Rows, NoGrace
  <2>1. rows'[u] \in Rows
    BY <1>0, <1>2, <2>0, ZenonT(30) DEF Rows
  <2>2. /\ rows'[u].exists
        /\ rows'[u].status = rows[u].status
        /\ rows'[u].grace = rows[u].grace
    BY <1>2, <2>0 DEF Rows
  <2> QED BY <1>0, <2>0, <2>1, <2>2 DEF RowStep, PastDueHasGrace
<1>3. \/ rows'[u] = rows[u]
      \/ rows'[u] = [rows[u] EXCEPT !.exists = TRUE,
                                    !.manual = override.value]
  <2>1. CASE u = override.user
    BY <1>0, <2>1 DEF CommitOverride
  <2>2. CASE u # override.user
    BY <1>0, <2>2 DEF CommitOverride
  <2> QED BY <2>1, <2>2
<1> QED BY <1>1, <1>2, <1>3

(* Time takes from a grace period and never ends it below zero.            *)
LEMMA TickRow ==
    ASSUME BillingInv, Tick, NEW u \in Users
    PROVE  RowStep(rows[u], rows'[u])
<1>0. rows[u] \in Rows /\ PastDueHasGrace
  BY DEF BillingInv, TypeOK
<1> DEFINE grace == IF rows[u].grace > 0 THEN rows[u].grace - 1
                                         ELSE rows[u].grace
<1>1. rows'[u] = [rows[u] EXCEPT !.grace = grace]
  BY DEF Tick
<1>2. /\ grace \in NoGrace..GraceTTL
      /\ grace <= rows[u].grace
      /\ grace = NoGrace => rows[u].grace = NoGrace
  BY <1>0, RowFields, BillingAssumptions DEF NoGrace
<1>3. CASE rows[u].exists
  <2>1. /\ rows'[u].grace = grace
        /\ rows'[u].status = rows[u].status
        /\ rows'[u].exists
    BY <1>0, <1>1, <1>3 DEF Rows
  <2> HIDE DEF grace
  <2>2. rows'[u] \in Rows
    BY <1>0, <1>1, <1>2, ZenonT(30) DEF Rows
  <2> QED BY <1>0, <1>2, <2>1, <2>2 DEF RowStep, PastDueHasGrace
<1>4. CASE ~ rows[u].exists
  <2>1. rows[u] = NoRow
    BY <1>0, <1>4 DEF PastDueHasGrace
  <2>2. rows[u].grace = NoGrace
    BY <2>1 DEF NoRow
  <2>3. rows'[u] = rows[u]
    <3>1. grace = rows[u].grace
      BY <2>2 DEF NoGrace
    <3> QED BY <1>0, <1>1, <3>1 DEF Rows
  <2> QED BY <2>3, SameRow
<1> QED BY <1>3, <1>4

(* No step lengthens the grace period of a row that is past due, and none  *)
(* leaves such a row without one.                                          *)
LEMMA EveryRowStep ==
    ASSUME BillingInv, Next, NEW u \in Users
    PROVE  RowStep(rows[u], rows'[u])
<1>1. ASSUME NEW s \in Subs, NEW v \in Users, CreateCheckout(v, s)
      PROVE  RowStep(rows[u], rows'[u])
  BY <1>1, SameRow DEF CreateCheckout
<1>2. ASSUME NEW s \in Subs,
             \/ CompleteCheckout(s) \/ PaymentFails(s)
             \/ PaymentSucceeds(s) \/ Cancels(s)
      PROVE  RowStep(rows[u], rows'[u])
  BY <1>2, SameRow
     DEF CompleteCheckout, PaymentFails, PaymentSucceeds, Cancels, Emit
<1>3. ASSUME NEW e \in events, ProcessWebhook(e)
      PROVE  RowStep(rows[u], rows'[u])
  BY <1>3, CheckoutRow, SubscriptionRow, InvoiceRow DEF ProcessWebhook
<1>4. ASSUME NEW v \in Users, NEW w \in {"unset", "granted", "denied"},
             LoadOverride(v, w)
      PROVE  RowStep(rows[u], rows'[u])
  BY <1>4, SameRow DEF LoadOverride
<1> QED BY <1>1, <1>2, <1>3, <1>4, OverrideRow, TickRow DEF Next

-----------------------------------------------------------------------------
(* What Stripe emits is an event.                                          *)
LEMMA EmitFits ==
    ASSUME TypeOK, NEW batch, Emit(batch), batch \subseteq EventRecords
    PROVE  /\ events' \subseteq EventRecords
           /\ ledger' \subseteq events'
           /\ UNCHANGED <<rows, override, clock>>
BY DEF TypeOK, Emit

LEMMA EventFits ==
    ASSUME TypeOK, NEW s \in Subs, NEW kind \in EventKinds,
           NEW status \in Statuses \cup {"none"},
           kind = "subscription" => status \in Statuses
    PROVE  Event(kind, s, status) \in EventRecords
BY DEF TypeOK, Event, EventRecords

LEMMA StripeFits ==
    ASSUME TypeOK, NEW s \in Subs, NEW status \in Statuses,
           stripe' = [stripe EXCEPT ![s].status = status]
    PROVE  stripe' \in [Subs -> StripeSubs]
<1>1. stripe[s] \in StripeSubs
  BY DEF TypeOK
<1>2. [stripe[s] EXCEPT !.status = status] \in StripeSubs
  BY <1>1, ZenonT(30) DEF StripeSubs
<1>3. stripe' = [stripe EXCEPT ![s] = [stripe[s] EXCEPT !.status = status]]
  OBVIOUS
<1> QED BY <1>2, <1>3 DEF TypeOK

(* The changes at Stripe keep the types.                                   *)
LEMMA StripeStepTypes ==
    ASSUME TypeOK, NEW s \in Subs,
           \/ CompleteCheckout(s) \/ PaymentFails(s)
           \/ PaymentSucceeds(s) \/ Cancels(s)
    PROVE  TypeOK'
<1>1. CASE CompleteCheckout(s)
  <2>1. {Event("checkout", s, "none"), Event("subscription", s, "ACTIVE")}
          \subseteq EventRecords
    BY EventFits DEF EventKinds, Statuses
  <2>2. stripe' \in [Subs -> StripeSubs]
    BY <1>1, StripeFits DEF CompleteCheckout, Statuses
  <2> QED BY <1>1, <2>1, <2>2, EmitFits DEF CompleteCheckout, TypeOK
<1>2. CASE PaymentFails(s)
  <2>1. {Event("failed", s, "none")} \cup
            (IF stripe[s].status = "PAST_DUE" THEN {}
             ELSE {Event("subscription", s, "PAST_DUE")}) \subseteq EventRecords
    BY EventFits DEF EventKinds, Statuses
  <2>2. stripe' \in [Subs -> StripeSubs]
    BY <1>2, StripeFits DEF PaymentFails, Statuses
  <2> QED BY <1>2, <2>1, <2>2, EmitFits DEF PaymentFails, TypeOK
<1>3. CASE PaymentSucceeds(s)
  <2>1. {Event("paid", s, "none"), Event("subscription", s, "ACTIVE")}
          \subseteq EventRecords
    BY EventFits DEF EventKinds, Statuses
  <2>2. stripe' \in [Subs -> StripeSubs]
    BY <1>3, StripeFits DEF PaymentSucceeds, Statuses
  <2> QED BY <1>3, <2>1, <2>2, EmitFits DEF PaymentSucceeds, TypeOK
<1>4. CASE Cancels(s)
  <2>1. {Event("subscription", s, "CANCELED")} \subseteq EventRecords
    BY EventFits DEF EventKinds, Statuses
  <2>2. stripe' \in [Subs -> StripeSubs]
    BY <1>4, StripeFits DEF Cancels, Statuses
  <2> QED BY <1>4, <2>1, <2>2, EmitFits DEF Cancels, TypeOK
<1> QED BY <1>1, <1>2, <1>3, <1>4

(* Every step keeps one row per user.                                      *)
LEMMA OneRowPerUser ==
    ASSUME BillingInv, Next
    PROVE  rows' = [u \in Users |-> rows'[u]]
<1>0. rows = [u \in Users |-> rows[u]]
  BY DEF BillingInv, TypeOK
<1>1. ASSUME NEW e \in events, ProcessWebhook(e)
      PROVE  rows' = [u \in Users |-> rows'[u]]
  BY <1>0, <1>1 DEF ProcessWebhook, CheckoutCompleted, SubscriptionChanged,
                    InvoiceSettled
<1>2. CASE CommitOverride
  BY <1>0, <1>2 DEF CommitOverride
<1>3. CASE Tick
  BY <1>3 DEF Tick
<1>4. CASE rows' = rows
  BY <1>0, <1>4
<1> QED
  BY <1>1, <1>2, <1>3, <1>4
     DEF Next, CreateCheckout, CompleteCheckout, PaymentFails,
         PaymentSucceeds, Cancels, Emit, LoadOverride

(* The invariant is inductive.                                             *)
LEMMA BillingInvStep ==
    ASSUME BillingInv, [Next]_vars
    PROVE  BillingInv'
<1>1. CASE Next
  <2>1. \A u \in Users : RowStep(rows[u], rows'[u])
    BY <1>1, EveryRowStep
  <2>2. PastDueHasGrace'
    BY <2>1 DEF RowStep, PastDueHasGrace
  <2>3. rows' \in [Users -> Rows]
    BY <1>1, <2>1, OneRowPerUser DEF RowStep
  <2>4. ASSUME NEW s \in Subs, NEW u \in Users, CreateCheckout(u, s)
        PROVE  TypeOK'
    <3>1. rows[u].customer \in Subs \cup {None}
      BY RowFields DEF BillingInv, TypeOK
    <3>2. stripe' \in [Subs -> StripeSubs]
      BY <2>4, <3>1 DEF BillingInv, TypeOK, CreateCheckout, StripeSubs
    <3> QED BY <2>4, <3>2 DEF BillingInv, TypeOK, CreateCheckout
  <2>5. ASSUME NEW s \in Subs,
               \/ CompleteCheckout(s) \/ PaymentFails(s)
               \/ PaymentSucceeds(s) \/ Cancels(s)
        PROVE  TypeOK'
    BY <2>5, StripeStepTypes DEF BillingInv
  <2>6. ASSUME NEW e \in events, ProcessWebhook(e)
        PROVE  TypeOK'
    BY <2>3, <2>6 DEF ProcessWebhook, BillingInv, TypeOK
  <2>7. ASSUME NEW u \in Users, NEW v \in {"unset", "granted", "denied"},
               LoadOverride(u, v)
        PROVE  TypeOK'
    <3>1. rows[u].exists \in BOOLEAN
      BY RowFields DEF BillingInv, TypeOK
    <3> QED BY <2>3, <2>7, <3>1 DEF LoadOverride, BillingInv, TypeOK, Overrides
  <2>8. ASSUME CommitOverride
        PROVE  TypeOK'
    <3>1. UNCHANGED <<stripe, events, ledger, clock>>
      BY <2>8 DEF CommitOverride
    <3>2. override' \in Overrides
      BY <2>8 DEF CommitOverride, Overrides, NoOverride
    <3> QED BY <2>3, <3>1, <3>2 DEF BillingInv, TypeOK
  <2>9. ASSUME Tick
        PROVE  TypeOK'
    <3>1. UNCHANGED <<stripe, events, ledger, override>>
      BY <2>9 DEF Tick
    <3>2. clock' \in 0..MaxClock
      BY <2>9, BillingAssumptions DEF Tick, BillingInv, TypeOK
    <3> QED BY <2>3, <3>1, <3>2 DEF BillingInv, TypeOK
  <2>10. TypeOK'
    BY <1>1, <2>4, <2>5, <2>6, <2>7, <2>8, <2>9 DEF Next
  <2> QED BY <2>2, <2>10 DEF BillingInv
<1>2. CASE UNCHANGED vars
  BY <1>2 DEF vars, BillingInv, TypeOK, PastDueHasGrace
<1> QED BY <1>1, <1>2

LEMMA BillingInvInit == Init => BillingInv
<1> SUFFICES ASSUME Init PROVE BillingInv
  OBVIOUS
<1>1. NoRow \in Rows
  BY BillingAssumptions DEF NoRow, Rows, Statuses, NoGrace, NoEvent
<1>2. rows \in [Users -> Rows] /\ PastDueHasGrace
  BY <1>1 DEF Init, PastDueHasGrace, NoRow
<1>3. stripe \in [Subs -> StripeSubs]
  BY DEF Init, StripeSubs
<1>4. override \in Overrides
  BY DEF Init, Overrides, NoOverride
<1>5. events \subseteq EventRecords /\ ledger \subseteq events
  BY DEF Init
<1>6. clock \in 0..MaxClock
  BY BillingAssumptions DEF Init
<1> QED BY <1>2, <1>3, <1>4, <1>5, <1>6 DEF BillingInv, TypeOK

(* The rows of user_subscriptions, Stripe's events and the ledger of       *)
(* process_stripe_webhook keep their types; what is processed was emitted. *)
THEOREM TypeCorrect == Spec => []TypeOK
<1>1. BillingInv => TypeOK
  BY DEF BillingInv
<1> QED BY <1>1, BillingInvInit, BillingInvStep, PTL DEF Spec

(* However events are repeated, delayed or reordered, and whatever the     *)
(* owner does meanwhile, the grace period of a row that is past due is     *)
(* never lengthened.                                                       *)
THEOREM GraceNotRestartedHolds == Spec => GraceNotRestarted
<1>1. ASSUME BillingInv, [Next]_vars
      PROVE  [\A u \in Users :
                (rows[u].status = "PAST_DUE" /\ rows'[u].status = "PAST_DUE")
                   => rows'[u].grace <= rows[u].grace]_vars
  <2>1. CASE Next
    BY <1>1, <2>1, EveryRowStep DEF RowStep
  <2>2. CASE UNCHANGED vars
    BY <2>2
  <2> QED BY <1>1, <2>1, <2>2
<1> QED BY <1>1, BillingInvInit, BillingInvStep, PTL DEF Spec, GraceNotRestarted

-----------------------------------------------------------------------------
(* Without overlapping subscriptions, and with one change of Stripe a      *)
(* second, the row of a user follows Stripe.                               *)

Separate == "overlap" \notin Faults /\ "sameSecond" \notin Faults

(* What a change at Stripe of one living subscription does to the          *)
(* invariant: its events are the newest, and tell its status.              *)
LEMMA ChangeFollows ==
    ASSUME Separate, TypeOK, SubsInv, EventsInv,
           NEW s \in Subs, stripe[s].status # "none", LivesOf(stripe[s].user) \subseteq {s},
           NEW status \in Statuses, stripe' = [stripe EXCEPT ![s].status = status],
           NEW batch, Emit(batch),
           \A e \in batch : /\ e.sub = s /\ e.created = clock
                            /\ Telling(e) => Told(e) = status,
           \/ \E e \in batch : e.kind = "subscription"
           \/ status = stripe[s].status
    PROVE  SubsInv' /\ EventsInv'
<1>t. /\ stripe \in [Subs -> StripeSubs] /\ \A r \in Subs : stripe[r] \in StripeSubs
      /\ events \subseteq EventRecords /\ clock \in Nat
      /\ \A e \in events : e.sub \in Subs /\ e.created \in Nat
  BY BillingAssumptions DEF TypeOK, EventRecords
<1>1. /\ events' = events \cup batch /\ UNCHANGED <<ledger, rows, clock>>
      /\ \A e \in events : e.created < clock
  BY DEF Emit, Separate
<1>2. /\ \A r \in Subs : stripe'[r].user = stripe[r].user
      /\ \A r \in Subs \ {s} : stripe'[r].status = stripe[r].status
      /\ stripe'[s].status = status
  BY <1>t DEF StripeSubs
<1>u. stripe[s].user \in Users
  BY DEF SubsInv
<1>3. ASSUME NEW v \in Users
      PROVE  /\ v # stripe[s].user => LivesOf(v)' = LivesOf(v)
             /\ v = stripe[s].user => LivesOf(v)' \subseteq {s}
             /\ status = stripe[s].status => LivesOf(v)' = LivesOf(v)
  <2>1. LivesOf(v)' = {r \in Subs : stripe'[r].user = v /\ stripe'[r].status \in Live}
    BY DEF LivesOf
  <2>2. LivesOf(v) = {r \in Subs : stripe[r].user = v /\ stripe[r].status \in Live}
    BY DEF LivesOf
  <2>3. v # stripe[s].user => LivesOf(v)' = LivesOf(v)
    BY <1>2, <2>1, <2>2
  <2>4. v = stripe[s].user => LivesOf(v)' \subseteq {s}
    BY <1>2, <2>1, <2>2
  <2>5. status = stripe[s].status => LivesOf(v)' = LivesOf(v)
    BY <1>2, <2>1, <2>2
  <2>. QED
    BY <2>3, <2>4, <2>5
<1>4. status \notin {"none", "open"}
  BY DEF Statuses
<1>5. SubsInv'
  <2>1. \A r \in Subs : /\ stripe'[r].status = "none" => stripe'[r].user = None
                        /\ stripe'[r].status # "none" => stripe'[r].user \in Users
    BY <1>2, <1>4 DEF SubsInv
  <2>2. ASSUME NEW v \in Users, NEW a \in LivesOf(v)', NEW b \in LivesOf(v)'
        PROVE  a = b
    <3>1. CASE v = stripe[s].user
      BY <1>3, <2>2, <3>1
    <3>2. CASE v # stripe[s].user
      BY <1>3, <2>2, <3>2 DEF SubsInv
    <3>. QED
      BY <3>1, <3>2
  <2>. QED
    BY <2>1, <2>2 DEF SubsInv
<1>6. \A e \in events' : stripe'[e.sub].status \notin {"none", "open"} /\ e.created <= clock'
  BY <1>t, <1>1, <1>2, <1>4 DEF EventsInv
<1>7. \A r \in Subs : stripe'[r].status \notin {"none", "open"} =>
         \E e \in events' : e.kind = "subscription" /\ e.sub = r
  BY <1>1, <1>2, <1>4 DEF EventsInv
<1>8. ASSUME NEW e \in events', Telling(e),
             \A f \in events' : f.kind = "subscription" /\ UserOf(f)' = UserOf(e)'
                                   => f.created <= e.created
      PROVE  Told(e) = stripe'[e.sub].status /\ LivesOf(UserOf(e))' \subseteq {e.sub}
  <2>1. CASE e \in batch
    <3>1. e.sub = s /\ Told(e) = status
      BY <1>8, <2>1
    <3>2. LivesOf(UserOf(e))' \subseteq {s}
      BY <1>3, <3>1 DEF UserOf, LivesOf
    <3>. QED
      BY <1>2, <3>1, <3>2
  <2>2. CASE e \in events
    <3>u. /\ UserOf(e)' = UserOf(e) /\ UserOf(e) \in Users
          /\ LivesOf(UserOf(e))' = {r \in Subs : stripe'[r].user = UserOf(e)
                                                /\ stripe'[r].status \in Live}
      BY <1>t, <1>2, <2>2 DEF UserOf, EventsInv, SubsInv, LivesOf
    <3>1. \A f \in events : f.kind = "subscription" /\ UserOf(f) = UserOf(e)
                               => f.created <= e.created
      BY <1>t, <1>1, <1>2, <1>8, <3>u DEF UserOf
    <3>2. Told(e) = stripe[e.sub].status /\ LivesOf(UserOf(e)) \subseteq {e.sub}
      BY <1>8, <2>2, <3>1 DEF EventsInv
    <3>3. CASE UserOf(e) # stripe[s].user
      <4>1. e.sub # s
        BY <3>3 DEF UserOf
      <4>. QED
        BY <1>t, <1>2, <2>2, <3>2, <3>3, <3>u, <4>1 DEF LivesOf
    <3>4. CASE UserOf(e) = stripe[s].user /\ status = stripe[s].status
      <4>1. stripe'[e.sub].status = stripe[e.sub].status
        BY <1>t, <1>2, <2>2, <3>4
      <4>2. LivesOf(UserOf(e))' = LivesOf(UserOf(e))
        BY <1>2, <3>4, <3>u DEF LivesOf
      <4>. QED
        BY <3>2, <4>1, <4>2
    <3>5. CASE UserOf(e) = stripe[s].user /\ \E f \in batch : f.kind = "subscription"
      <4>1. PICK f \in batch : f.kind = "subscription"
        BY <3>5
      <4>2. UserOf(f)' = UserOf(e)' /\ f.created = clock /\ f \in events'
        BY <1>1, <1>2, <3>5, <3>u, <4>1 DEF UserOf
      <4>3. clock <= e.created /\ e.created < clock
        BY <1>1, <1>8, <2>2, <4>1, <4>2
      <4>. QED
        BY <1>t, <2>2, <4>3
    <3>. QED
      BY <3>3, <3>4, <3>5
  <2>. QED
    BY <1>1, <2>1, <2>2
<1>. QED
  BY <1>5, <1>6, <1>7, <1>8 DEF EventsInv

(* The changes of a subscription that is completed or lives.               *)
LEMMA StripeFollows ==
    ASSUME Separate, TypeOK, SubsInv, EventsInv, NEW s \in Subs,
           \/ CompleteCheckout(s) \/ PaymentFails(s)
           \/ PaymentSucceeds(s) \/ Cancels(s)
    PROVE  /\ SubsInv' /\ EventsInv'
           /\ UNCHANGED <<ledger, rows, override, clock>>
           /\ events \subseteq events'
           /\ \A r \in Subs : stripe'[r].user = stripe[r].user
<1>t. /\ stripe \in [Subs -> StripeSubs]
      /\ \A status \in Statuses : stripe' = [stripe EXCEPT ![s].status = status]
            => \A r \in Subs : stripe'[r].user = stripe[r].user
  BY DEF TypeOK, StripeSubs
<1>l. stripe[s].status \in Live => LivesOf(stripe[s].user) \subseteq {s}
  <2>1. stripe[s].status \in Live => stripe[s].user \in Users /\ s \in LivesOf(stripe[s].user)
    BY DEF SubsInv, LivesOf, Live
  <2>. QED
    BY <2>1 DEF SubsInv
<1>e. \A k, w : /\ Event(k, s, w).sub = s /\ Event(k, s, w).created = clock
                /\ Event(k, s, w).kind = k /\ Event(k, s, w).status = w
  BY DEF Event
<1>1. CASE CompleteCheckout(s)
  <2>. DEFINE batch == {Event("checkout", s, "none"), Event("subscription", s, "ACTIVE")}
  <2>1. /\ stripe' = [stripe EXCEPT ![s].status = "ACTIVE"] /\ Emit(batch)
        /\ stripe[s].status # "none" /\ LivesOf(stripe[s].user) \subseteq {s}
        /\ "ACTIVE" \in Statuses
    BY <1>1 DEF CompleteCheckout, Separate, Statuses
  <2>2. /\ \A e \in batch : /\ e.sub = s /\ e.created = clock
                            /\ Telling(e) => Told(e) = "ACTIVE"
        /\ \E e \in batch : e.kind = "subscription"
    BY <1>e DEF Telling, Told
  <2>. HIDE DEF batch
  <2>3. SubsInv' /\ EventsInv'
    BY <2>1, <2>2, ChangeFollows
  <2>. QED
    BY <1>t, <2>1, <2>3 DEF Emit
<1>2. CASE PaymentFails(s)
  <2>. DEFINE batch == {Event("failed", s, "none")} \cup
                         IF stripe[s].status = "PAST_DUE" THEN {}
                         ELSE {Event("subscription", s, "PAST_DUE")}
  <2>1. /\ stripe' = [stripe EXCEPT ![s].status = "PAST_DUE"] /\ Emit(batch)
        /\ stripe[s].status # "none" /\ LivesOf(stripe[s].user) \subseteq {s}
        /\ "PAST_DUE" \in Statuses
    BY <1>2, <1>l DEF PaymentFails, Live, Statuses
  <2>2. /\ \A e \in batch : /\ e.sub = s /\ e.created = clock
                            /\ Telling(e) => Told(e) = "PAST_DUE"
        /\ \/ \E e \in batch : e.kind = "subscription"
           \/ stripe[s].status = "PAST_DUE"
    BY <1>e DEF Telling, Told
  <2>. HIDE DEF batch
  <2>3. SubsInv' /\ EventsInv'
    BY <2>1, <2>2, ChangeFollows
  <2>. QED
    BY <1>t, <2>1, <2>3 DEF Emit
<1>3. CASE PaymentSucceeds(s)
  <2>. DEFINE batch == {Event("paid", s, "none"), Event("subscription", s, "ACTIVE")}
  <2>1. /\ stripe' = [stripe EXCEPT ![s].status = "ACTIVE"] /\ Emit(batch)
        /\ stripe[s].status # "none" /\ LivesOf(stripe[s].user) \subseteq {s}
        /\ "ACTIVE" \in Statuses
    BY <1>3, <1>l DEF PaymentSucceeds, Live, Statuses
  <2>2. /\ \A e \in batch : /\ e.sub = s /\ e.created = clock
                            /\ Telling(e) => Told(e) = "ACTIVE"
        /\ \E e \in batch : e.kind = "subscription"
    BY <1>e DEF Telling, Told
  <2>. HIDE DEF batch
  <2>3. SubsInv' /\ EventsInv'
    BY <2>1, <2>2, ChangeFollows
  <2>. QED
    BY <1>t, <2>1, <2>3 DEF Emit
<1>4. CASE Cancels(s)
  <2>. DEFINE batch == {Event("subscription", s, "CANCELED")}
  <2>1. /\ stripe' = [stripe EXCEPT ![s].status = "CANCELED"] /\ Emit(batch)
        /\ stripe[s].status # "none" /\ LivesOf(stripe[s].user) \subseteq {s}
        /\ "CANCELED" \in Statuses
    BY <1>4, <1>l DEF Cancels, Live, Statuses
  <2>2. /\ \A e \in batch : /\ e.sub = s /\ e.created = clock
                            /\ Telling(e) => Told(e) = "CANCELED"
        /\ \E e \in batch : e.kind = "subscription"
    BY <1>e DEF Telling, Told
  <2>. HIDE DEF batch
  <2>3. SubsInv' /\ EventsInv'
    BY <2>1, <2>2, ChangeFollows
  <2>. QED
    BY <1>t, <2>1, <2>3 DEF Emit
<1>. QED
  BY <1>1, <1>2, <1>3, <1>4

(* A session that opens begins a subscription no event is about.           *)
LEMMA CheckoutFollows ==
    ASSUME TypeOK, FollowInv, NEW u \in Users, NEW s \in Subs, CreateCheckout(u, s)
    PROVE  FollowInv'
<1>t. /\ stripe \in [Subs -> StripeSubs] /\ rows \in [Users -> Rows]
      /\ events \subseteq EventRecords /\ ledger \subseteq events
      /\ \A e \in events : e.sub \in Subs
  BY DEF TypeOK, EventRecords
<1>1. /\ stripe[s].status = "none" /\ stripe[s].user = None
      /\ UNCHANGED <<events, ledger, rows, clock>>
      /\ stripe'[s].status = "open" /\ stripe'[s].user = u
      /\ \A r \in Subs \ {s} : stripe'[r] = stripe[r]
  BY <1>t DEF CreateCheckout, FollowInv, SubsInv
<1>2. ASSUME NEW v \in Users PROVE LivesOf(v)' = LivesOf(v)
  <2>1. LivesOf(v)' = {r \in Subs : stripe'[r].user = v /\ stripe'[r].status \in Live}
    BY DEF LivesOf
  <2>2. "open" \notin Live /\ "none" \notin Live
    BY DEF Live
  <2>. QED
    BY <1>1, <2>1, <2>2 DEF LivesOf
<1>3. SubsInv'
  <2>1. \A r \in Subs : /\ stripe'[r].status = "none" => stripe'[r].user = None
                        /\ stripe'[r].status # "none" => stripe'[r].user \in Users
    BY <1>1 DEF FollowInv, SubsInv
  <2>2. \A v \in Users : \A a, b \in LivesOf(v)' : a = b
    BY <1>2 DEF FollowInv, SubsInv
  <2>. QED
    BY <2>1, <2>2 DEF SubsInv
<1>4. \A e \in events : /\ e.sub # s /\ stripe'[e.sub] = stripe[e.sub]
                        /\ UserOf(e)' = UserOf(e) /\ UserOf(e) \in Users
  BY <1>t, <1>1 DEF FollowInv, EventsInv, SubsInv, UserOf
<1>5. EventsInv'
  <2>1. \A e \in events' : /\ stripe'[e.sub].status \notin {"none", "open"}
                           /\ e.created <= clock'
    BY <1>1, <1>4 DEF FollowInv, EventsInv
  <2>2. \A r \in Subs : stripe'[r].status \notin {"none", "open"} =>
           \E e \in events' : e.kind = "subscription" /\ e.sub = r
    BY <1>1 DEF FollowInv, EventsInv
  <2>3. ASSUME NEW e \in events', Telling(e),
               \A f \in events' : f.kind = "subscription" /\ UserOf(f)' = UserOf(e)'
                                     => f.created <= e.created
        PROVE  Told(e) = stripe'[e.sub].status /\ LivesOf(UserOf(e))' \subseteq {e.sub}
    <3>0. e \in events /\ UserOf(e)' = UserOf(e) /\ UserOf(e) \in Users
      BY <1>1, <1>4
    <3>1. \A f \in events : f.kind = "subscription" /\ UserOf(f) = UserOf(e)
                               => f.created <= e.created
      BY <1>1, <1>4, <2>3, <3>0
    <3>2. Told(e) = stripe[e.sub].status /\ LivesOf(UserOf(e)) \subseteq {e.sub}
      BY <2>3, <3>0, <3>1 DEF FollowInv, EventsInv
    <3>3. LivesOf(UserOf(e))' = {r \in Subs : stripe'[r].user = UserOf(e)
                                                /\ stripe'[r].status \in Live}
      BY <3>0 DEF LivesOf
    <3>4. LivesOf(UserOf(e))' \subseteq LivesOf(UserOf(e))
      <4>1. "open" \notin Live
        BY DEF Live
      <4>. QED
        BY <1>1, <3>3, <4>1 DEF LivesOf
    <3>. QED
      BY <1>4, <3>0, <3>2, <3>4
  <2>. QED
    BY <2>1, <2>2, <2>3 DEF EventsInv
<1>6. ASSUME NEW v \in Users PROVE RowTold(v)'
  <2>1. rows'[v].sub # None => stripe'[rows'[v].sub].user = v
    <3>1. rows[v].sub \in Subs \cup {None}
      BY <1>t, RowFields
    <3>2. rows[v].sub # None => rows[v].sub # s
      BY <1>1, BillingAssumptions DEF FollowInv, RowTold
    <3>. QED
      BY <1>1, <3>1, <3>2 DEF FollowInv, RowTold
  <2>2. \A f \in ledger' : f.kind = "subscription" /\ UserOf(f)' = v =>
           rows'[v].exists /\ f.created <= rows'[v].event_at
    BY <1>t, <1>1, <1>4 DEF FollowInv, RowTold
  <2>3. rows'[v].event_at # NoEvent =>
          \E e \in events' : /\ Telling(e) /\ UserOf(e)' = v
                             /\ e.created = rows'[v].event_at
                             /\ Told(e) = rows'[v].status
    BY <1>1, <1>4 DEF FollowInv, RowTold
  <2>4. rows'[v].event_at = NoEvent => rows'[v].status = "INCOMPLETE"
    BY <1>1 DEF FollowInv, RowTold
  <2>. QED
    BY <2>1, <2>2, <2>3, <2>4 DEF RowTold
<1>. QED
  BY <1>3, <1>5, <1>6 DEF FollowInv

(* What a row was told outlives events that are not about it.              *)
LEMMA SameRowTold ==
    ASSUME TypeOK, NEW u \in Users, RowTold(u), ledger' = ledger,
           events \subseteq events',
           \A r \in Subs : stripe'[r].user = stripe[r].user,
           rows[u].exists => rows'[u].exists,
           rows'[u].sub = rows[u].sub, rows'[u].status = rows[u].status,
           rows'[u].event_at = rows[u].event_at
    PROVE  RowTold(u)'
<1>t. /\ ledger \subseteq events /\ events \subseteq EventRecords
      /\ \A e \in events : e.sub \in Subs
      /\ rows[u].sub \in Subs \cup {None}
  BY RowFields DEF TypeOK, EventRecords
<1>1. \A e \in events : UserOf(e)' = UserOf(e)
  BY <1>t DEF UserOf
<1>2. rows'[u].sub # None => stripe'[rows'[u].sub].user = u
  BY <1>t DEF RowTold
<1>3. \A f \in ledger' : f.kind = "subscription" /\ UserOf(f)' = u =>
         rows'[u].exists /\ f.created <= rows'[u].event_at
  BY <1>t, <1>1 DEF RowTold
<1>4. rows'[u].event_at # NoEvent =>
        \E e \in events' : /\ Telling(e) /\ UserOf(e)' = u
                           /\ e.created = rows'[u].event_at
                           /\ Told(e) = rows'[u].status
  BY <1>1 DEF RowTold
<1>5. rows'[u].event_at = NoEvent => rows'[u].status = "INCOMPLETE"
  BY DEF RowTold
<1>. QED
  BY <1>2, <1>3, <1>4, <1>5 DEF RowTold

(* The row a webhook works on has been told what the user's row was.       *)
LEMMA RowForTold ==
    ASSUME BillingInv, NEW u \in Users
    PROVE  /\ RowFor(u) \in Rows /\ RowFor(u).exists
           /\ RowFor(u).sub = rows[u].sub
           /\ RowFor(u).status = rows[u].status
           /\ RowFor(u).event_at = rows[u].event_at
<1>1. CASE rows[u].exists
  BY <1>1, RowForFits DEF RowFor
<1>2. CASE ~ rows[u].exists
  <2>1. rows[u] = NoRow
    BY <1>2 DEF BillingInv, PastDueHasGrace
  <2>2. RowFor(u) = [NoRow EXCEPT !.exists = TRUE, !.stripe = TRUE]
    BY <1>2 DEF RowFor
  <2>. QED
    BY <2>1, <2>2, RowForFits DEF NoRow
<1>. QED
  BY <1>1, <1>2

(* A row that says what an event tells, having been told nothing newer.    *)
LEMMA NewlyTold ==
    ASSUME TypeOK, NEW u \in Users, RowTold(u), NEW e \in events, Telling(e),
           UserOf(e) = u, rows[u].event_at = NoEvent \/ rows[u].event_at <= e.created,
           UNCHANGED <<stripe, events>>, ledger' = ledger \cup {e},
           rows'[u].exists, rows'[u].sub = e.sub,
           rows'[u].status = Told(e), rows'[u].event_at = e.created
    PROVE  RowTold(u)'
<1>t. /\ ledger \subseteq events /\ events \subseteq EventRecords
      /\ \A f \in events : f.sub \in Subs /\ f.created \in Nat
      /\ rows[u].event_at \in Int
  BY RowFields, BillingAssumptions DEF TypeOK, EventRecords, NoEvent
<1>1. \A f : UserOf(f)' = UserOf(f)
  BY DEF UserOf
<1>2. rows'[u].sub # None => stripe'[rows'[u].sub].user = u
  BY DEF UserOf
<1>3. \A f \in ledger' : f.kind = "subscription" /\ UserOf(f)' = u =>
         rows'[u].exists /\ f.created <= rows'[u].event_at
  BY <1>t, <1>1 DEF RowTold, NoEvent
<1>4. \E f \in events' : /\ Telling(f) /\ UserOf(f)' = u
                         /\ f.created = rows'[u].event_at
                         /\ Told(f) = rows'[u].status
  BY <1>1
<1>5. rows'[u].event_at # NoEvent
  BY <1>t DEF NoEvent
<1>. QED
  BY <1>2, <1>3, <1>4, <1>5 DEF RowTold

(* A row that keeps what it was told, while an event joins the ledger that *)
(* is not a newer subscription event.                                      *)
LEMMA StillTold ==
    ASSUME TypeOK, NEW u \in Users, RowTold(u), NEW e \in events,
           UNCHANGED <<stripe, events>>, ledger' = ledger \cup {e},
           e.kind = "subscription" /\ UserOf(e) = u =>
              rows'[u].exists /\ e.created <= rows[u].event_at,
           rows[u].exists => rows'[u].exists,
           rows'[u].sub = rows[u].sub \/ (rows'[u].sub = e.sub /\ UserOf(e) = u),
           rows'[u].status = rows[u].status, rows'[u].event_at = rows[u].event_at
    PROVE  RowTold(u)'
<1>1. \A f : UserOf(f)' = UserOf(f)
  BY DEF UserOf
<1>2. rows'[u].sub # None => stripe'[rows'[u].sub].user = u
  BY DEF UserOf, RowTold
<1>3. \A f \in ledger' : f.kind = "subscription" /\ UserOf(f)' = u =>
         rows'[u].exists /\ f.created <= rows'[u].event_at
  BY <1>1 DEF RowTold
<1>4. rows'[u].event_at # NoEvent =>
        \E f \in events' : /\ Telling(f) /\ UserOf(f)' = u
                           /\ f.created = rows'[u].event_at
                           /\ Told(f) = rows'[u].status
  BY <1>1 DEF RowTold
<1>5. rows'[u].event_at = NoEvent => rows'[u].status = "INCOMPLETE"
  BY DEF RowTold
<1>. QED
  BY <1>2, <1>3, <1>4, <1>5 DEF RowTold

(* Processing an event tells its user's row what it tells, unless that row *)
(* was told something newer.                                               *)
LEMMA WebhookTold ==
    ASSUME BillingInv, FollowInv, NEW e \in events, ProcessWebhook(e),
           NEW u \in Users
    PROVE  RowTold(u)'
<1>t. /\ rows \in [Users -> Rows] /\ rows[u] \in Rows
      /\ stripe \in [Subs -> StripeSubs] /\ TypeOK
      /\ e \in EventRecords /\ e.sub \in Subs /\ e.created \in Nat
      /\ rows[u].event_at \in Int /\ RowTold(u)
  BY RowFields, BillingAssumptions
     DEF BillingInv, TypeOK, EventRecords, NoEvent, FollowInv
<1>1. /\ UNCHANGED <<stripe, events>> /\ ledger' = ledger \cup {e}
      /\ UserOf(e) \in Users
  BY <1>t DEF ProcessWebhook, FollowInv, EventsInv, SubsInv, UserOf
<1>2. CASE CheckoutCompleted(e)
  <2>1. CASE u = UserOf(e)
    <3>1. rows'[u] = Linked(RowFor(u), e)
      BY <1>t, <1>2, <2>1 DEF CheckoutCompleted
    <3>2. /\ rows'[u].exists /\ rows'[u].sub = e.sub
          /\ rows'[u].status = rows[u].status
          /\ rows'[u].event_at = rows[u].event_at
      BY <1>t, <3>1, RowForTold DEF Linked, Rows
    <3>3. e.kind # "subscription"
      BY <1>2 DEF CheckoutCompleted
    <3>. QED
      BY <1>t, <1>1, <2>1, <3>2, <3>3, StillTold
  <2>2. CASE u # UserOf(e)
    <3>1. rows'[u] = rows[u]
      BY <1>t, <1>2, <2>2 DEF CheckoutCompleted
    <3>. QED
      BY <1>t, <1>1, <2>2, <3>1, StillTold
  <2>. QED
    BY <2>1, <2>2
<1>3. CASE SubscriptionChanged(e)
  <2>0. e.kind = "subscription" /\ Telling(e) /\ Told(e) = e.status
    BY <1>3 DEF SubscriptionChanged, Telling, Told
  <2>1. CASE u = UserOf(e) /\ Stale(RowFor(u), e)
    <3>1. rows'[u] = RowFor(u)
      BY <1>t, <1>3, <2>1 DEF SubscriptionChanged
    <3>2. e.created < rows[u].event_at
      BY <2>1, RowForTold DEF Stale
    <3>. QED
      BY <1>t, <1>1, <3>1, <3>2, RowForTold, StillTold
  <2>2. CASE u = UserOf(e) /\ ~ Stale(RowFor(u), e)
    <3>. DEFINE grace == IF e.status = "PAST_DUE" THEN GraceOf(RowFor(u)) ELSE NoGrace
    <3>1. rows'[u] = [Linked(RowFor(u), e) EXCEPT !.status = e.status,
                         !.grace = grace, !.event_at = e.created]
      BY <1>t, <1>3, <2>2 DEF SubscriptionChanged
    <3>. HIDE DEF grace
    <3>l. Linked(RowFor(u), e) \in Rows /\ Linked(RowFor(u), e).exists
      BY <1>t, RowForTold, LinkedFits
    <3>2. Linked(RowFor(u), e).sub = e.sub
      BY <1>t, RowForTold DEF Linked, Rows
    <3>3. /\ rows'[u].exists /\ rows'[u].sub = e.sub
          /\ rows'[u].status = e.status /\ rows'[u].event_at = e.created
      BY <3>1, <3>l, <3>2 DEF Rows
    <3>4. rows[u].event_at = NoEvent \/ rows[u].event_at <= e.created
      BY <1>t, <2>2, RowForTold DEF Stale
    <3>. QED
      BY <1>t, <1>1, <2>0, <2>2, <3>3, <3>4, NewlyTold
  <2>3. CASE u # UserOf(e)
    <3>1. rows'[u] = rows[u]
      BY <1>t, <1>3, <2>3 DEF SubscriptionChanged
    <3>. QED
      BY <1>t, <1>1, <2>3, <3>1, StillTold
  <2>. QED
    BY <2>1, <2>2, <2>3
<1>4. CASE InvoiceSettled(e)
  <2>0. e.kind # "subscription"
    BY <1>4 DEF InvoiceSettled
  <2>1. CASE e.kind = "failed" /\ rows[u].sub = e.sub /\ ~ Stale(rows[u], e)
    <3>1. rows'[u] = PastDue(rows[u], e)
      BY <1>4, <2>1 DEF InvoiceSettled
    <3>2. /\ rows'[u].exists = rows[u].exists /\ rows'[u].sub = e.sub
          /\ rows'[u].status = "PAST_DUE" /\ rows'[u].event_at = e.created
      BY <1>t, <2>1, <3>1 DEF PastDue, Rows
    <3>3. rows[u].sub # None
      BY <1>t, <2>1, BillingAssumptions
    <3>4. rows[u].exists
      BY <3>3 DEF BillingInv, PastDueHasGrace, NoRow
    <3>5. rows[u].event_at = NoEvent \/ rows[u].event_at <= e.created
      BY <1>t, <2>1 DEF Stale
    <3>6. UserOf(e) = u /\ Telling(e) /\ Told(e) = "PAST_DUE"
      BY <1>t, <2>1, <3>3 DEF RowTold, UserOf, Telling, Told
    <3>. QED
      BY <1>t, <1>1, <3>2, <3>4, <3>5, <3>6, NewlyTold
  <2>2. CASE ~ (e.kind = "failed" /\ rows[u].sub = e.sub /\ ~ Stale(rows[u], e))
    <3>1. rows'[u] = rows[u]
      BY <1>4, <2>2 DEF InvoiceSettled
    <3>. QED
      BY <1>t, <1>1, <2>0, <3>1, StillTold
  <2>. QED
    BY <2>1, <2>2
<1>. QED
  BY <1>2, <1>3, <1>4 DEF ProcessWebhook

(* With Stripe's view untouched, what holds of it stays so.                *)
LEMMA SameStripe ==
    ASSUME SubsInv, EventsInv, UNCHANGED <<stripe, events>>, TypeOK,
           clock' = clock \/ clock' = clock + 1
    PROVE  SubsInv' /\ EventsInv'
<1>t. /\ clock \in Nat /\ \A e \in events : e.created \in Nat
  BY BillingAssumptions DEF TypeOK, EventRecords
<1>1. (\A v : LivesOf(v)' = LivesOf(v)) /\ \A f : UserOf(f)' = UserOf(f)
  BY DEF LivesOf, UserOf
<1>2. SubsInv'
  BY <1>1 DEF SubsInv
<1>3. \A e \in events' : /\ stripe'[e.sub].status \notin {"none", "open"}
                         /\ e.created <= clock'
  BY <1>t DEF EventsInv
<1>4. EventsInv'
  BY <1>1, <1>3 DEF EventsInv
<1>. QED
  BY <1>2, <1>4

(* The invariant is inductive.                                             *)
LEMMA FollowInvStep ==
    ASSUME Separate, BillingInv, FollowInv, [Next]_vars
    PROVE  FollowInv'
<1>t. /\ TypeOK /\ SubsInv /\ EventsInv /\ rows \in [Users -> Rows]
      /\ \A u \in Users : RowTold(u) /\ rows[u] \in Rows
  BY DEF BillingInv, TypeOK, FollowInv
<1>1. ASSUME NEW s \in Subs, NEW u \in Users, CreateCheckout(u, s)
      PROVE  FollowInv'
  BY <1>t, <1>1, CheckoutFollows
<1>2. ASSUME NEW s \in Subs,
             \/ CompleteCheckout(s) \/ PaymentFails(s)
             \/ PaymentSucceeds(s) \/ Cancels(s)
      PROVE  FollowInv'
  <2>1. /\ SubsInv' /\ EventsInv'
        /\ UNCHANGED <<ledger, rows, override, clock>>
        /\ events \subseteq events'
        /\ \A r \in Subs : stripe'[r].user = stripe[r].user
    BY <1>t, <1>2, StripeFollows
  <2>2. \A u \in Users : RowTold(u)'
    BY <1>t, <2>1, SameRowTold
  <2>. QED
    BY <2>1, <2>2 DEF FollowInv
<1>3. ASSUME NEW e \in events, ProcessWebhook(e) PROVE FollowInv'
  <2>1. SubsInv' /\ EventsInv'
    BY <1>t, <1>3, SameStripe DEF ProcessWebhook
  <2>2. \A u \in Users : RowTold(u)'
    BY <1>3, WebhookTold
  <2>. QED
    BY <2>1, <2>2 DEF FollowInv
<1>4. ASSUME UNCHANGED <<stripe, events, ledger>>,
             clock' = clock \/ clock' = clock + 1,
             \A u \in Users : /\ rows[u].exists => rows'[u].exists
                              /\ rows'[u].sub = rows[u].sub
                              /\ rows'[u].status = rows[u].status
                              /\ rows'[u].event_at = rows[u].event_at
      PROVE  FollowInv'
  <2>1. SubsInv' /\ EventsInv'
    BY <1>t, <1>4, SameStripe
  <2>2. \A u \in Users : RowTold(u)'
    BY <1>t, <1>4, SameRowTold
  <2>. QED
    BY <2>1, <2>2 DEF FollowInv
<1>5. CASE CommitOverride
  <2>1. UNCHANGED <<stripe, events, ledger, clock>>
    BY <1>5 DEF CommitOverride
  <2>2. ASSUME NEW u \in Users
        PROVE  /\ rows[u].exists => rows'[u].exists
               /\ rows'[u].sub = rows[u].sub
               /\ rows'[u].status = rows[u].status
               /\ rows'[u].event_at = rows[u].event_at
    <3>1. \/ rows'[u] = rows[u]
          \/ rows'[u] = [rows[u] EXCEPT !.exists = TRUE, !.manual = override.value]
      BY <1>t, <1>5 DEF CommitOverride
    <3>. QED
      BY <1>t, <3>1 DEF Rows
  <2>. QED
    BY <1>4, <2>1, <2>2
<1>6. CASE Tick
  <2>1. ASSUME NEW u \in Users
        PROVE  /\ rows[u].exists => rows'[u].exists
               /\ rows'[u].sub = rows[u].sub
               /\ rows'[u].status = rows[u].status
               /\ rows'[u].event_at = rows[u].event_at
    BY <1>t, <1>6 DEF Tick, Rows
  <2>. QED
    BY <1>4, <1>6, <2>1 DEF Tick
<1>7. ASSUME NEW u \in Users, NEW v \in {"unset", "granted", "denied"},
             LoadOverride(u, v)
      PROVE  FollowInv'
  BY <1>4, <1>7 DEF LoadOverride
<1>8. CASE UNCHANGED vars
  BY <1>4, <1>8 DEF vars
<1>. QED
  BY <1>1, <1>2, <1>3, <1>5, <1>6, <1>7, <1>8 DEF Next

LEMMA FollowInvInit ==
    ASSUME Init PROVE FollowInv
<1>1. SubsInv
  BY DEF Init, SubsInv, LivesOf, Live
<1>2. EventsInv
  BY DEF Init, EventsInv
<1>3. \A u \in Users : RowTold(u)
  BY DEF Init, RowTold, NoRow, NoEvent
<1>. QED
  BY <1>1, <1>2, <1>3 DEF FollowInv

(* Once every event was processed, the row of a user was told what the     *)
(* newest of their subscription events tells.                              *)
LEMMA FollowImplies ==
    ASSUME BillingInv, FollowInv PROVE AccessFollowsStripe
<1>. SUFFICES ASSUME ledger = events, NEW u \in Users
              PROVE  /\ \A s \in Subs : LivesOf(u) = {s} => rows[u].status = stripe[s].status
                     /\ rows[u].manual = "unset" =>
                          /\ Standing(u, "ACTIVE") => Access(rows[u])
                          /\ LivesOf(u) = {} => ~ Access(rows[u])
  BY DEF AccessFollowsStripe
<1>t. /\ TypeOK /\ RowTold(u) /\ rows[u] \in Rows /\ stripe \in [Subs -> StripeSubs]
      /\ events \subseteq EventRecords
      /\ \A e \in events : e.sub \in Subs /\ e.created \in Nat
  BY BillingAssumptions DEF BillingInv, TypeOK, FollowInv, EventRecords
<1>1. CASE rows[u].event_at = NoEvent
  <2>1. \A f \in events : f.kind = "subscription" => UserOf(f) # u
    BY <1>t, <1>1 DEF RowTold, NoEvent
  <2>2. \A s \in Subs : stripe[s].user = u => stripe[s].status \in {"none", "open"}
    BY <2>1 DEF FollowInv, EventsInv, UserOf
  <2>3. LivesOf(u) = {} /\ ~ Standing(u, "ACTIVE")
    BY <2>2 DEF LivesOf, Standing, Live
  <2>4. rows[u].status = "INCOMPLETE"
    BY <1>t, <1>1 DEF RowTold
  <2>. QED
    BY <2>3, <2>4 DEF Access
<1>2. CASE rows[u].event_at # NoEvent
  <2>1. PICK e \in events : /\ Telling(e) /\ UserOf(e) = u
                            /\ e.created = rows[u].event_at
                            /\ Told(e) = rows[u].status
    BY <1>t, <1>2 DEF RowTold
  <2>2. \A f \in events : f.kind = "subscription" /\ UserOf(f) = UserOf(e)
                             => f.created <= e.created
    BY <1>t, <2>1 DEF RowTold
  <2>3. rows[u].status = stripe[e.sub].status /\ LivesOf(u) \subseteq {e.sub}
    BY <2>1, <2>2 DEF FollowInv, EventsInv
  <2>4. stripe[e.sub].user = u /\ e.sub \in Subs
    BY <1>t, <2>1 DEF UserOf
  <2>5. rows[u].exists
    BY <1>2 DEF BillingInv, PastDueHasGrace, NoRow
  <2>6. ASSUME NEW s \in Subs, LivesOf(u) = {s}
        PROVE  rows[u].status = stripe[s].status
    BY <2>3, <2>6
  <2>7. ASSUME Standing(u, "ACTIVE") PROVE rows[u].status = "ACTIVE"
    <3>1. PICK s \in Subs : stripe[s].user = u /\ stripe[s].status = "ACTIVE"
      BY <2>7 DEF Standing
    <3>2. s \in LivesOf(u)
      BY <3>1 DEF LivesOf, Live
    <3>. QED
      BY <2>3, <3>1, <3>2
  <2>8. ASSUME LivesOf(u) = {} PROVE rows[u].status \notin Live
    BY <2>3, <2>4, <2>8 DEF LivesOf
  <2>. QED
    BY <2>5, <2>6, <2>7, <2>8 DEF Access, Live
<1>. QED
  BY <1>1, <1>2

(* While a user has one living subscription at a time and Stripe stamps no *)
(* two changes with the same second, the row follows Stripe whatever order *)
(* the webhooks are processed in, however often and however late, and      *)
(* whatever the owner overrides meanwhile.                                 *)
THEOREM AccessFollowsHolds ==
    ASSUME Separate
    PROVE  Spec => []AccessFollowsStripe
<1>1. Init => BillingInv /\ FollowInv
  BY BillingInvInit, FollowInvInit
<1>2. BillingInv /\ FollowInv /\ [Next]_vars => (BillingInv /\ FollowInv)'
  BY BillingInvStep, FollowInvStep
<1>3. BillingInv /\ FollowInv => AccessFollowsStripe
  BY FollowImplies
<1>. QED
  BY <1>1, <1>2, <1>3, PTL DEF Spec

=============================================================================
