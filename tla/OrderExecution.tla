--------------------------- MODULE OrderExecution ---------------------------
(***************************************************************************)
(* Live order execution of src/bxk_app/routes/order.py: the review locks   *)
(* created by order_preview, the requests that run order_submit in the     *)
(* threads of the web server, the submission reservations they share, and  *)
(* the broker account they trade in.                                       *)
(*                                                                         *)
(* A request is one call of order_submit.  Each of its steps is one call   *)
(* that another thread, the clock, the broker or a restart can come        *)
(* between: a critical section under a mutex, an HTTP call, an audit       *)
(* write.  Expiry times are kept as the ticks that remain of them, so the  *)
(* clock needs no bound.                                                   *)
(***************************************************************************)
EXTENDS Naturals, FiniteSets

CONSTANTS
    Requests,     \* the order_submit calls of a behaviour
    Reviews,      \* the review ids order_preview hands out, each used once
    Scopes,       \* values of _execution_scope_key
    Owners,       \* the scopes whose user has the OWNER role
    Accounts,     \* broker accounts
    AccountOf,    \* the account each scope trades in
    Orders,       \* orders, identified by _order_fingerprint
    Symbols,      \* option symbols
    Legs,         \* the symbols of each order's legs
    ReviewTTL,    \* _ORDER_REVIEW_TTL_SECONDS, in ticks
    ReserveTTL,   \* _ORDER_SUBMISSION_RESERVATION_SECONDS, in ticks
    MaxInFlight,  \* how many requests may be in progress at once
    MaxRestarts,  \* how often the process may die (a bound for TLC)
    Faults,       \* what the environment may do, out of FaultKinds
    None          \* no order, no scope, no review

FaultKinds == {
    "sharedClient",      \* requests use the one owner_broker object
    "malformedBody",     \* a 200 answer whose body is not JSON
    "slowAudit",         \* an audit write that outlasts the reservation
    "marketMoves",       \* fills while some request is checking
    "lateAccept"}        \* the broker accepts after the client gave up

ASSUME OrderAssumptions ==
    /\ Owners \subseteq Scopes
    /\ AccountOf \in [Scopes -> Accounts]
    /\ Legs \in [Orders -> SUBSET Symbols]
    /\ ReviewTTL \in Nat \ {0}
    /\ ReserveTTL \in Nat \ {0}
    /\ MaxInFlight \in Nat \ {0}
    /\ MaxRestarts \in Nat
    /\ Faults \subseteq FaultKinds
    /\ None \notin Orders \cup Scopes \cup Reviews

VARIABLES
    reviews,       \* _ORDER_REVIEW_LOCKS
    reservations,  \* _ORDER_SUBMISSION_RESERVATIONS: ticks left, 0 = absent
    pc,            \* where each request is in order_submit
    job,           \* its scope, its review id and the order it trades
    seen,          \* symbols the last broker read returned to it
    lastError,     \* is last_error set on the broker client it uses
    market,        \* what became at the broker of the order it sent
    audit,         \* the durable execution audit
    reply,         \* the answer it returned
    restarts,
    granted,       \* history: ticks its reservation was granted for
    failed,        \* history: a broker read of it failed, and did it show
    unseen         \* history: orders its two reads of the account miss

vars == <<reviews, reservations, pc, job, seen, lastError, market, audit,
          reply, restarts, granted, failed, unseen>>

-----------------------------------------------------------------------------
ReviewStates == {"unborn", "open", "consumed", "gone"}
InFlight == {"dryPositions", "dryVerify", "positions", "verifyPositions",
             "orders", "verifyOrders", "consume", "reserve", "audit",
             "send", "await"}
PCs == InFlight \cup {"idle", "done", "crashed"}
MarketStates == {"none", "sent", "refused", "working", "cancelled", "filled",
                 "closed"}
Replies == {"none", "BLOCKED", "UNCONFIRMED", "SUBMITTED"}
Events == {"PREFLIGHT_PASSED", "SUBMISSION_ATTEMPT",
           "SUBMISSION_UNCONFIRMED", "SUBMITTED"}

Keys == Scopes \X Accounts \X Orders

(* _submission_reservation_key: scope, account and fingerprint. *)
KeyOf(scope, order) == <<scope, AccountOf[scope], order>>
Key(q) == KeyOf(job[q].scope, job[q].order)

Account(q) == AccountOf[job[q].scope]

ReviewRecords == [state: ReviewStates, scope: Scopes \cup {None},
                  order: Orders \cup {None}, left: 0..ReviewTTL]

TypeOK ==
    /\ reviews \in [Reviews -> ReviewRecords]
    /\ reservations \in [Keys -> 0..ReserveTTL]
    /\ pc \in [Requests -> PCs]
    /\ job \in [Requests -> [scope: Scopes \cup {None},
                             review: Reviews \cup {None},
                             order: Orders \cup {None}]]
    /\ seen \in [Requests -> SUBSET Symbols]
    /\ lastError \in [Requests -> BOOLEAN]
    /\ market \in [Requests -> MarketStates]
    /\ audit \subseteq Events \X Requests
    /\ reply \in [Requests -> Replies]
    /\ restarts \in 0..MaxRestarts
    /\ granted \in [Requests -> 0..ReserveTTL]
    /\ failed \in [Requests -> {"no", "flagged", "hidden"}]
    /\ unseen \in [Requests -> SUBSET Requests]

Init ==
    /\ reviews = [r \in Reviews |-> [state |-> "unborn", scope |-> None,
                                     order |-> None, left |-> 0]]
    /\ reservations = [k \in Keys |-> 0]
    /\ pc = [q \in Requests |-> "idle"]
    /\ job = [q \in Requests |-> [scope |-> None, review |-> None,
                                  order |-> None]]
    /\ seen = [q \in Requests |-> {}]
    /\ lastError = [q \in Requests |-> FALSE]
    /\ market = [q \in Requests |-> "none"]
    /\ audit = {}
    /\ reply = [q \in Requests |-> "none"]
    /\ restarts = 0
    /\ granted = [q \in Requests |-> 0]
    /\ failed = [q \in Requests |-> "no"]
    /\ unseen = [q \in Requests |-> {}]

-----------------------------------------------------------------------------
(* Helpers: control flow of a request, and what the broker would report.   *)

Goto(q, step) ==
    /\ pc' = [pc EXCEPT ![q] = step]
    /\ UNCHANGED reply

Return(q, answer) ==
    /\ pc' = [pc EXCEPT ![q] = "done"]
    /\ reply' = [reply EXCEPT ![q] = answer]

Busy == {q \in Requests : pc[q] \in InFlight}

LegsOf(q) == {x \in Symbols : job[q].order \in Orders
                             /\ x \in Legs[job[q].order]}

(* The legs, in account a, of the orders that are in one of these states.  *)
SymbolsAt(a, states) ==
    UNION {LegsOf(q) : q \in {p \in Requests : /\ market[p] \in states
                                               /\ Account(p) = a}}

Held(a) == SymbolsAt(a, {"filled"})
Working(a) == SymbolsAt(a, {"working"})

-----------------------------------------------------------------------------
(* Review locks.                                                           *)

(* _prune_order_review_locks_locked: drop every expired lock.              *)
Pruned ==
    [r \in Reviews |->
        IF reviews[r].state # "unborn" /\ reviews[r].left = 0
        THEN [reviews[r] EXCEPT !.state = "gone"]
        ELSE reviews[r]]

(* order_preview: freeze the order under a fresh review id.                *)
OrderPreview(r, s, o) ==
    /\ reviews[r].state = "unborn"
    /\ reviews' = [Pruned EXCEPT ![r] = [state |-> "open", scope |-> s,
                                         order |-> o, left |-> ReviewTTL]]
    /\ UNCHANGED <<reservations, pc, job, seen, lastError, market, audit,
                   reply, restarts, granted, failed, unseen>>

(* Faulty variants: a consumed lock serves again; it serves any scope.     *)
UsableTwice(r, s) ==
    /\ reviews[r].state \in {"open", "consumed"}
    /\ reviews[r].scope = s
    /\ reviews[r].left > 0

UsableByAnyone(r, s) == reviews[r].state = "open" /\ reviews[r].left > 0

(* The checks that _get_ and _consume_order_review_lock have in common.    *)
Usable(r, s) ==
    /\ reviews[r].state = "open"
    /\ reviews[r].scope = s
    /\ reviews[r].left > 0

(* Faulty variant: the entry is cleared instead of popped.                 *)
PopExpiredToNone(r, s) ==
    IF reviews[r].state = "open" /\ reviews[r].scope = s
       /\ reviews[r].left = 0
    THEN [reviews EXCEPT ![r] = None]
    ELSE reviews

(* Both pop the caller's lock when they find it expired.                   *)
PopExpired(r, s) ==
    IF reviews[r].state = "open" /\ reviews[r].scope = s
       /\ reviews[r].left = 0
    THEN [reviews EXCEPT ![r].state = "gone"]
    ELSE reviews

(* The call arrives.  Preview mode, role, the user's live-trading flag and *)
(* confirm_live are looked at first; then order_dry_run reads the review   *)
(* lock, whose frozen order is the one traded, and validates it.           *)
OrderSubmit(q, s, r) ==
    /\ pc[q] = "idle"
    /\ Cardinality(Busy) < MaxInFlight
    /\ \/ /\ Usable(r, s)
          /\ job' = [job EXCEPT ![q] = [scope |-> s, review |-> r,
                                        order |-> reviews[r].order]]
          /\ Goto(q, "dryPositions")
          /\ UNCHANGED reviews
       \/ /\ ~ Usable(r, s)
          /\ reviews' = PopExpired(r, s)
          /\ Return(q, "BLOCKED")
          /\ UNCHANGED job
       \/ /\ Return(q, "BLOCKED")
          /\ UNCHANGED <<reviews, job>>
    /\ UNCHANGED <<reservations, seen, lastError, market, audit, restarts,
                   granted, failed, unseen>>

-----------------------------------------------------------------------------
(* Broker reads.  get_positions and get_live_orders answer an empty list   *)
(* when they fail; only last_error of the client tells the two apart.      *)

ReadSucceeds(q, symbols) ==
    /\ seen' = [seen EXCEPT ![q] = symbols]
    /\ lastError' = [lastError EXCEPT ![q] = FALSE]

ReadFails(q, flagged) ==
    /\ seen' = [seen EXCEPT ![q] = {}]
    /\ lastError' = [lastError EXCEPT ![q] = flagged]
    /\ failed' = [failed EXCEPT ![q] = IF flagged THEN "flagged" ELSE "hidden"]

(* get_positions, before the broker dry run and again before submission.   *)
(* An account that cannot be verified first ends the request.  A failure   *)
(* of the first read no longer matters once the second has succeeded.      *)
ReadPositions(q) ==
    /\ pc[q] \in {"dryPositions", "positions"}
    /\ \/ /\ \/ /\ ReadSucceeds(q, Held(Account(q)))
                /\ failed' = [failed EXCEPT ![q] = "no"]
             \/ ReadFails(q, TRUE)
             \/ "malformedBody" \in Faults /\ ReadFails(q, FALSE)
          /\ Goto(q, IF pc[q] = "positions" THEN "verifyPositions"
                                            ELSE "dryVerify")
       \/ /\ Return(q, "BLOCKED")
          /\ UNCHANGED <<seen, lastError, failed>>
    /\ UNCHANGED <<reviews, reservations, job, market, audit, restarts,
                   granted, unseen>>

(* unseen only remembers, for the properties: orders the broker has not    *)
(* accepted when the working orders are read.                              *)
NotAccepted == {p \in Requests : market[p] \in {"none", "sent"}}

(* get_live_orders: every failure of it sets last_error.                   *)
ReadLiveOrders(q) ==
    /\ pc[q] = "orders"
    /\ \/ /\ ReadSucceeds(q, Working(Account(q)))
          /\ unseen' = [unseen EXCEPT ![q] = @ \cup (NotAccepted \ {q})]
          /\ UNCHANGED failed
       \/ ReadFails(q, TRUE) /\ UNCHANGED unseen
    /\ Goto(q, "verifyOrders")
    /\ UNCHANGED <<reviews, reservations, job, market, audit, restarts,
                   granted>>

(* Faulty variants: an empty answer is taken for an empty account; only    *)
(* the answer's error is looked at.                                        *)
NoConflictSeen(q) == LegsOf(q) \cap seen[q] = {}
NoConflictUnflagged(q) == ~ lastError[q]

(* last_error is looked at only now, then the overlap of the legs.         *)
NoConflict(q) ==
    /\ ~ lastError[q]
    /\ LegsOf(q) \cap seen[q] = {}

(* The answer of the read is used up.                                      *)
Forget(q) ==
    /\ seen' = [seen EXCEPT ![q] = {}]
    /\ lastError' = [lastError EXCEPT ![q] = FALSE]

(* The rest of order_dry_run: the overlap, the broker dry run and its      *)
(* evaluation, for an owner the PREFLIGHT_PASSED event, which must be      *)
(* written; and then the master switch.                                    *)
DryRunVerdict(q) ==
    /\ pc[q] = "dryVerify"
    /\ \/ /\ NoConflict(q)
          /\ Goto(q, "positions")
          /\ audit' = IF job[q].scope \in Owners
                      THEN audit \cup {<<"PREFLIGHT_PASSED", q>>}
                      ELSE audit
       \/ /\ Return(q, "BLOCKED")
          /\ UNCHANGED audit
    /\ Forget(q)
    /\ UNCHANGED <<reviews, reservations, job, market, restarts, granted,
                   failed, unseen>>

(* Positions again, immediately before submission.                         *)
PositionsVerdict(q) ==
    /\ pc[q] = "verifyPositions"
    /\ IF NoConflict(q) THEN Goto(q, "orders") ELSE Return(q, "BLOCKED")
    /\ Forget(q)
    /\ UNCHANGED <<reviews, reservations, job, market, audit, restarts,
                   granted, failed, unseen>>

(* Working orders, and _execution_session_gate at this instant.            *)
OrdersVerdict(q) ==
    /\ pc[q] = "verifyOrders"
    /\ \/ NoConflict(q) /\ Goto(q, "consume")
       \/ Return(q, "BLOCKED")
    /\ Forget(q)
    /\ UNCHANGED <<reviews, reservations, job, market, audit, restarts,
                   granted, failed, unseen>>

(* Another thread finishes a call on the shared client: last_error is its, *)
(* and hides the failure of this request's read.                           *)
OtherCallerWrites(q) ==
    /\ "sharedClient" \in Faults
    /\ pc[q] \in {"dryVerify", "verifyPositions", "verifyOrders"}
    /\ lastError' = [lastError EXCEPT ![q] = ~ @]
    /\ failed' = [failed EXCEPT ![q] = IF @ = "flagged" THEN "hidden" ELSE @]
    /\ UNCHANGED <<reviews, reservations, pc, job, seen, market, audit,
                   reply, restarts, granted, unseen>>

-----------------------------------------------------------------------------
(* Consuming the review and reserving the submission.                      *)

(* _consume_order_review_lock, and the order in it must be the one checked. *)
ConsumeReviewLock(q) ==
    /\ pc[q] = "consume"
    /\ IF Usable(job[q].review, job[q].scope)
       THEN /\ reviews' = [reviews EXCEPT ![job[q].review].state =
                                              "consumed"]
            /\ IF reviews[job[q].review].order = job[q].order
               THEN Goto(q, "reserve")
               ELSE Return(q, "BLOCKED")
       ELSE /\ reviews' = PopExpired(job[q].review, job[q].scope)
            /\ Return(q, "BLOCKED")
    /\ UNCHANGED <<reservations, job, seen, lastError, market, audit,
                   restarts, granted, failed, unseen>>

(* Faulty variant: an active reservation is overwritten.                   *)
ReserveSubmissionAlways(q) ==
    /\ pc[q] = "reserve"
    /\ reservations' = [reservations EXCEPT ![Key(q)] = ReserveTTL]
    /\ granted' = [granted EXCEPT ![q] = ReserveTTL]
    /\ Goto(q, "audit")
    /\ UNCHANGED <<reviews, job, seen, lastError, market, audit, restarts,
                   failed, unseen>>

(* _reserve_order_submission.  An entry without ticks left is pruned by    *)
(* the code before it looks its key up: here it is the absent entry.       *)
ReserveSubmission(q) ==
    /\ pc[q] = "reserve"
    /\ IF reservations[Key(q)] = 0
       THEN /\ reservations' = [reservations EXCEPT ![Key(q)] = ReserveTTL]
            /\ granted' = [granted EXCEPT ![q] = ReserveTTL]
            /\ Goto(q, "audit")
       ELSE /\ Return(q, "BLOCKED")
            /\ UNCHANGED <<reservations, granted>>
    /\ UNCHANGED <<reviews, job, seen, lastError, market, audit, restarts,
                   failed, unseen>>

(* _release_order_submission pops whatever reservation the key has.        *)
ReleaseSubmission(q) ==
    /\ reservations' = [reservations EXCEPT ![Key(q)] = 0]
    /\ granted' = [granted EXCEPT ![q] = 0]

(* Faulty variant: the order is sent although the audit write failed.      *)
AuditAttemptOpen(q) ==
    /\ pc[q] = "audit"
    /\ audit' \in {audit, audit \cup {<<"SUBMISSION_ATTEMPT", q>>}}
    /\ Goto(q, "send")
    /\ UNCHANGED <<reviews, reservations, granted, job, seen, lastError,
                   market, restarts, failed, unseen>>

(* SUBMISSION_ATTEMPT must be durable before the broker is called.         *)
AuditAttempt(q) ==
    /\ pc[q] = "audit"
    /\ \/ /\ audit' = audit \cup {<<"SUBMISSION_ATTEMPT", q>>}
          /\ Goto(q, "send")
          /\ UNCHANGED <<reservations, granted>>
       \/ /\ ReleaseSubmission(q)
          /\ Return(q, "BLOCKED")
          /\ UNCHANGED audit
    /\ UNCHANGED <<reviews, job, seen, lastError, market, restarts, failed, unseen>>

-----------------------------------------------------------------------------
(* The submission and its answer.                                          *)

(* The result event is written if it can be; nothing depends on it.        *)
AuditResult(q, event) == audit' \in {audit, audit \cup {<<event, q>>}}

(* submit_order: the POST leaves, or its payload cannot be built, which    *)
(* order_submit cannot tell from a lost answer.                            *)
SendOrder(q) ==
    /\ pc[q] = "send"
    /\ \/ /\ market' = [market EXCEPT ![q] = "sent"]
          /\ Goto(q, "await")
          /\ UNCHANGED audit
       \/ /\ AuditResult(q, "SUBMISSION_UNCONFIRMED")
          /\ Return(q, "UNCONFIRMED")
          /\ UNCHANGED market
    /\ UNCHANGED <<reviews, reservations, job, seen, lastError, restarts,
                   granted, failed, unseen>>

(* Faulty variant: an answer without an order id counts as a confirmation. *)
ConfirmedAnyway(q) ==
    /\ pc[q] = "await"
    /\ AuditResult(q, "SUBMITTED")
    /\ Return(q, "SUBMITTED")
    /\ UNCHANGED <<reviews, reservations, job, seen, lastError, market,
                   restarts, granted, failed, unseen>>

(* An order id with one of accepted_statuses came back.                    *)
Confirmed(q) ==
    /\ pc[q] = "await"
    /\ market[q] \notin {"none", "sent", "refused"}
    /\ AuditResult(q, "SUBMITTED")
    /\ Return(q, "SUBMITTED")
    /\ UNCHANGED <<reviews, reservations, job, seen, lastError, market,
                   restarts, granted, failed, unseen>>

(* Timeout, error status or an answer without a recognised status: the     *)
(* order may or may not stand.  The reservation is kept.                   *)
Unconfirmed(q) ==
    /\ pc[q] = "await"
    /\ market[q] = "sent" => "lateAccept" \in Faults
    /\ AuditResult(q, "SUBMISSION_UNCONFIRMED")
    /\ Return(q, "UNCONFIRMED")
    /\ UNCHANGED <<reviews, reservations, job, seen, lastError, market,
                   restarts, granted, failed, unseen>>

RequestStep(q) ==
    \/ \E s \in Scopes, r \in Reviews : OrderSubmit(q, s, r)
    \/ ReadPositions(q) \/ DryRunVerdict(q) \/ PositionsVerdict(q)
    \/ ReadLiveOrders(q) \/ OrdersVerdict(q)
    \/ ConsumeReviewLock(q) \/ ReserveSubmission(q) \/ AuditAttempt(q)
    \/ SendOrder(q) \/ Confirmed(q) \/ Unconfirmed(q)

-----------------------------------------------------------------------------
(* The broker, the clock and the process.                                  *)

Checking == {"positions", "verifyPositions", "orders", "verifyOrders",
             "consume", "reserve", "audit", "send"}

MarketMoves == [sent |-> {"working", "refused"},
                working |-> {"filled", "cancelled"},
                filled |-> {"closed"}]

(* Requests that have read the positions and not yet the working orders: a *)
(* fill in between is in neither.                                          *)
BetweenReads == {p \in Requests : pc[p] \in {"verifyPositions", "orders"}}

(* The broker accepts or refuses an order, it fills or is cancelled, and   *)
(* the position it opened is closed.                                       *)
MarketStep(q) ==
    /\ market[q] \in DOMAIN MarketMoves
    /\ \E m \in MarketMoves[market[q]] :
         /\ market' = [market EXCEPT ![q] = m]
         /\ unseen' = [p \in Requests |-> IF m = "filled" /\ p \in BetweenReads
                                          THEN unseen[p] \cup {q} ELSE unseen[p]]
    /\ \/ "marketMoves" \in Faults
       \/ \A p \in Requests : pc[p] \notin Checking
    /\ UNCHANGED <<reviews, reservations, pc, job, seen, lastError, audit,
                   reply, restarts, granted, failed>>

(* Without "slowAudit" an audit write ends before its reservation does.    *)
Tick ==
    /\ "slowAudit" \notin Faults =>
          \A q \in Requests : pc[q] = "audit" => granted[q] > 1
    /\ reviews' = [r \in Reviews |->
                     [reviews[r] EXCEPT !.left = IF @ > 0 THEN @ - 1 ELSE 0]]
    /\ reservations' = [k \in Keys |-> IF reservations[k] > 0
                                       THEN reservations[k] - 1 ELSE 0]
    /\ granted' = [q \in Requests |-> IF granted[q] > 0
                                      THEN granted[q] - 1 ELSE 0]
    /\ UNCHANGED <<pc, job, seen, lastError, market, audit, reply, restarts,
                   failed, unseen>>

(* The process dies and starts again: the dictionaries and the requests in *)
(* progress are lost, the audit and the broker's orders are not.           *)
Restart ==
    /\ restarts < MaxRestarts
    /\ \A q \in Requests : market[q] = "sent" => "lateAccept" \in Faults
    /\ restarts' = restarts + 1
    /\ reviews' = [r \in Reviews |-> IF reviews[r].state = "unborn"
                                     THEN reviews[r]
                                     ELSE [reviews[r] EXCEPT !.state = "gone"]]
    /\ reservations' = [k \in Keys |-> 0]
    /\ granted' = [q \in Requests |-> 0]
    /\ pc' = [q \in Requests |-> IF pc[q] \in InFlight THEN "crashed"
                                                       ELSE pc[q]]
    /\ seen' = [q \in Requests |-> {}]
    /\ lastError' = [q \in Requests |-> FALSE]
    /\ UNCHANGED <<job, market, audit, reply, failed, unseen>>

Next ==
    \/ \E r \in Reviews, s \in Scopes, o \in Orders : OrderPreview(r, s, o)
    \/ \E q \in Requests : \/ RequestStep(q)
                           \/ OtherCallerWrites(q)
                           \/ MarketStep(q)
    \/ Tick
    \/ Restart

Spec == Init /\ [][Next]_vars

-----------------------------------------------------------------------------
(* Properties.                                                             *)

Sent(q) == market[q] # "none"

(* However many threads present the same review id, and whatever expires   *)
(* or restarts meanwhile, at most one order leaves for it: consuming the   *)
(* lock under its mutex decides the race that reading it in order_dry_run  *)
(* leaves open.                                                            *)
OneOrderPerReview ==
    \A p, q \in Requests :
        (Sent(p) /\ Sent(q) /\ job[p].review = job[q].review) => p = q

(* What is sent is the order that was frozen under the review id, and the  *)
(* review belongs to the caller's scope.                                   *)
SentIsReviewed ==
    \A q \in Requests : Sent(q) =>
        /\ reviews[job[q].review].scope = job[q].scope
        /\ reviews[job[q].review].order = job[q].order

(* An order can only be at the broker if its SUBMISSION_ATTEMPT is in the  *)
(* audit: the failed audit write stops the request, also after a restart.  *)
AttemptAudited ==
    \A q \in Requests : Sent(q) => <<"SUBMISSION_ATTEMPT", q>> \in audit

(* A BLOCKED answer means that nothing was sent, a SUBMITTED one that the  *)
(* broker did take the order; only UNCONFIRMED leaves the outcome open.    *)
HonestReply ==
    \A q \in Requests :
        /\ reply[q] = "BLOCKED" => ~ Sent(q)
        /\ reply[q] = "SUBMITTED" =>
              market[q] \notin {"none", "sent", "refused"}

(* For ReserveTTL ticks after a reservation is granted, whatever becomes   *)
(* of the submission, no other request is granted the same key: "An        *)
(* identical order was submitted or is still being reconciled."            *)
ReservationExclusive ==
    \A p, q \in Requests :
        (p # q /\ granted[p] > 0 /\ granted[q] > 0) => Key(p) # Key(q)

(* A request one of whose broker reads failed never sends its order, as    *)
(* long as the failure showed in last_error until it was looked at: the    *)
(* two ways it may not are the shared client and a body that is not JSON.  *)
LookupFailureBlocks == \A q \in Requests : failed[q] = "flagged" => ~ Sent(q)

Standing(q) == market[q] \in {"sent", "working", "filled"}
Apart(p, q) == LegsOf(p) \cap LegsOf(q) = {}
CouldNotSee(q, p) == p \in unseen[q] \/ failed[q] = "hidden"

(* However many requests check and send at once, while orders fill or are  *)
(* accepted late and whatever reads fail, two standing orders of an        *)
(* account share a leg only if each was out of the other request's sight:  *)
(* not accepted yet when that request read the working orders, or filled   *)
(* between its two reads, or a read of the account failed and looked like  *)
(* an empty one.  Of two requests one after the other, the later sees.     *)
OverlapOnlyUnseen ==
    \A p, q \in Requests :
        (p # q /\ Standing(p) /\ Standing(q) /\ Account(p) = Account(q)) =>
            Apart(p, q) \/ (CouldNotSee(p, q) /\ CouldNotSee(q, p))

(* No opening order leaves while the account holds one of its legs: the    *)
(* docstring of _check_existing_position_overlap, "Fail closed when a      *)
(* proposed BXK opening leg uses an option symbol already held".           *)
NeverOpensHeldLeg ==
    [][\A q \in Requests : (~ Sent(q) /\ Sent(q)') =>
           LegsOf(q) \cap Held(Account(q)) = {}]_vars

-----------------------------------------------------------------------------
(* Inductive strengthenings, for the proofs.                               *)

(* Requests that consumed their review lock.                               *)
Past(q) ==
    \/ pc[q] \in {"reserve", "audit", "send", "await"}
    \/ Sent(q)

(* A lock is born with scope and order and keeps them; a request past it   *)
(* is the only one, and found there what it trades.                        *)
ReviewInv ==
    /\ \A r \in Reviews : reviews[r].state # "unborn" =>
          reviews[r].scope \in Scopes /\ reviews[r].order \in Orders
    /\ \A q \in Requests : pc[q] \in InFlight =>
          /\ job[q].review \in Reviews
          /\ job[q].scope \in Scopes
          /\ job[q].order \in Orders
    /\ \A q \in Requests : Past(q) =>
          /\ job[q].review \in Reviews
          /\ reviews[job[q].review].state \in {"consumed", "gone"}
          /\ reviews[job[q].review].scope = job[q].scope
          /\ reviews[job[q].review].order = job[q].order
    /\ \A p, q \in Requests :
          (Past(p) /\ Past(q) /\ job[p].review = job[q].review) => p = q

(* Where a request stands, what it sent, audited and answered agree.       *)
ReplyInv ==
    \A q \in Requests :
        /\ pc[q] \notin {"await", "done", "crashed"} => ~ Sent(q)
        /\ pc[q] = "await" => Sent(q)
        /\ (pc[q] \in {"send", "await"} \/ Sent(q)) =>
              <<"SUBMISSION_ATTEMPT", q>> \in audit
        /\ reply[q] # "none" => pc[q] = "done"
        /\ reply[q] = "BLOCKED" => ~ Sent(q)
        /\ reply[q] = "SUBMITTED" =>
              market[q] \notin {"none", "sent", "refused"}

(* A grant is covered by the entry of its key until it runs out, and a     *)
(* request that may still release one holds it.                            *)
GrantInv ==
    /\ \A q \in Requests : granted[q] > 0 =>
          /\ pc[q] # "idle"
          /\ Key(q) \in Keys
          /\ granted[q] <= reservations[Key(q)]
    /\ \A q \in Requests : pc[q] = "audit" => granted[q] > 0
    /\ ReservationExclusive

(* A failed read is remembered by last_error until it is looked at, and    *)
(* then the request ends.                                                  *)
Verifying == {"dryVerify", "verifyPositions", "verifyOrders"}

FailInv ==
    \A q \in Requests : failed[q] = "flagged" =>
        /\ pc[q] # "idle"
        /\ pc[q] \in InFlight => pc[q] \in Verifying /\ lastError[q]
        /\ ~ Sent(q)

(* What a request that could see its account knows of another's order: one *)
(* it has not compared its own legs with is in the answer it holds.        *)
OrdersChecked == {"consume", "reserve", "audit", "send"}

Compared(q, p) == Apart(p, q) \/ CouldNotSee(q, p)
Listed(q, p) == LegsOf(p) \subseteq seen[q]

Checked(q, p) ==
    /\ pc[q] = "verifyPositions" /\ market[p] = "filled" =>
          Listed(q, p) \/ CouldNotSee(q, p)
    /\ pc[q] = "orders" /\ market[p] = "filled" => Compared(q, p)
    /\ pc[q] = "verifyOrders" /\ Standing(p) => Listed(q, p) \/ Compared(q, p)
    /\ pc[q] \in OrdersChecked /\ Standing(p) => Compared(q, p)

Knows(q, p) ==
    pc[q] \in InFlight /\ failed[q] # "flagged" =>
        /\ Standing(p) /\ Account(p) = Account(q) => Checked(q, p)
        /\ ~ Sent(p) /\ pc[q] \in {"verifyOrders"} \cup OrdersChecked =>
              CouldNotSee(q, p)

CheckInv == \A p, q \in Requests : p # q => Knows(q, p)

(* And what it knew when it sent stays so.                                 *)
Knew(q, p) ==
    Sent(q) => /\ ~ Sent(p) => CouldNotSee(q, p)
               /\ Standing(p) /\ Account(p) = Account(q) => Compared(q, p)

SentInv == \A p, q \in Requests : p # q => Knew(q, p)

=============================================================================
