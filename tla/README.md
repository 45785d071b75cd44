# BXK Trader Pro: a TLA+ model

TLA+ specifications of the parts of BXK Trader Pro in which order, timing and
failure decide what happens to somebody's money: the building and the path of a
live order, the recovery of an order whose outcome is unknown, the journal of
trades, the alerts that tell of a trade in danger, the connection to the broker
and who may use it, and the billing webhooks that decide who may trade. TLC
checks small instances of each; TLAPS proves every safety property they check
for every value of the constants.

Paths below are relative to the repository (`src/`).

## 1. The system

BXK is a FastAPI application (`bxk_app/`) with a static JavaScript front end.
Owners and beta users look at option data, get iron-condor proposals, preview
and submit orders through Tastytrade, and watch positions. A second, separate
application (`staging_*.py`) rehearses what live trading still lacks: durable
confirmations, a durable ledger of order attempts, and a worker that finds out
from the broker what became of an attempt whose answer was lost.

| Component | State | Operations | Hard part |
|---|---|---|---|
| **Live order execution** `bxk_app/routes/order.py` | `_ORDER_REVIEW_LOCKS`, `_ORDER_SUBMISSION_RESERVATIONS` (dictionaries in memory, under mutexes), durable execution audit | `order_preview`, `order_dry_run`, `order_submit`, `order_submit_api` | requests run in threads; two looks at the broker, then a send; expiry; lost answers; restart |
| **Tastytrade client** `bxk_app/brokers/tastytrade.py` | token, `last_error` of a client object shared by all owner requests | `get_positions`, `get_live_orders`, `submit_live_order` | failures answer an empty list and only set `last_error` |
| **Reconciliation ledger** `staging_reconciliation.py` | SQLite rows: state, version, lease, reads, bound broker order, fills | `create`, `begin_attempt`, `mark_unknown`, `recover_inflight`, `reconcile` | lease and compare-and-set around a slow broker read; crash between the halves |
| **Order reader** `staging_reconciliation_reader.py` | none | direct read, paged history, today's orders | several reads of a moving broker make one snapshot |
| **Recovery worker** `staging_certification_worker.py` | durable account cooldown and failure count | `tick`, `provider_failure`, `provider_success` | outages, Retry-After, restart, starvation |
| **Owner review** `staging_owner_review.py` | evidence records, resolutions, proofs | `refresh`, `resolve`, `register_guarded_test_proof` | deciding on evidence that is no longer the newest |
| **Staging startup** `staging_preview.py` | `reconciliation_ready` | `reconciliation_lifespan` | recovery may fail at startup |
| **Stripe billing** `bxk_app/services/stripe_billing_service.py` | one subscription row per user, ledger of event ids | `process_stripe_webhook` | events late, twice, out of order, at the same time |
| **Staging confirmations** `staging_confirmation.py`, `staging_order_ledger.py` | one-time tokens, order intents | `issue`, `consume`, `receipt`, `reserve_intent` | expiry measured before a lock is waited for; a lost answer |
| **Order construction** `trade_builder.py`, `order_builder.py`, `debit_strategies.py`, `services/live_option_engine.py`, `option_scanner.py`, the checks of `routes/order.py` | none | candidates, prices, limit, risk, validation, dry-run evaluation | sparse chains, unequal wings, rounding |
| **Position summaries** `position_monitor.py` | none | `build_position_summaries` | the broker nets legs that trades share |
| **Daytime alerts** `services/position_alert_service.py`, `sms_alert_modes.py` | one row per position, deliveries of the last hour | `process_position_threat` every minute | the SMS leaves before the commit; snooze, modes and limit |
| **Overnight alerts** `services/overnight_alert_service.py` | one row per user | `process_overnight_alert` | failed quotes, restarts, two monitors |
| **SMS consent** `services/sms_consent_service.py`, `user_service.py` | user rows, consent rows by phone | opt-in, opt-out, pending assignments, `list_active_sms_subscriptions` | a number changes hands while a loop is at work |
| **Accounts and setup** `services/setup_invitation_service.py`, `user_service.py`, `auth_service.py` | credentials and their version, one invitation per user, cookies | issue, redeem, change, sign in, disable | resend racing redeem, sign-in racing a change |
| **Broker connections** `services/broker_connection_service.py`, `tastytrade_connection_service.py`, `schwab_connection_service.py` | connection row, account rows, preferred broker | OAuth, connect, refresh, select, disconnect | a row held in memory over a call to the broker |
| **Trade journal** `services/trade_journal_service.py`, `position_service.py`, `trade_journal_backfill_service.py` | one row per opening order | record, link, observe, reconcile, finalize, import | reads of different instants, failed reads that look empty |
| **Overnight learning** `services/overnight_baseline_service.py`, `overnight_risk_service.py`, `market_engine.py` | baseline files, carry and next-open columns | heartbeat, carry snapshot | days are told by the clock alone |
| **Stop audit** `services/stop_audit_service.py` | audit row, one sample per minute | enrol, sample | overlapping samples commit out of order |
| Trading session `bxk_app/trading_session.py` | none | pure functions of the clock | boundaries |
| Tastytrade quotes and balances, Schwab client, market data, rankings, coaching, chat, messages, settings, UI | caches, database rows | data pipelines, CRUD in short transactions | no protocol |

How they interact: a request of the front end calls `order_preview`, which
freezes an order under a review id; `order_submit` reads that lock, runs the
broker dry run, reads positions and working orders, consumes the lock, takes
the reservation, writes the attempt to the audit and only then calls the
broker. In staging, the operator's harness reserves an attempt in the ledger
and reports an unclear answer; the worker polls the broker through the reader
and stores verdicts in the ledger; what it cannot settle goes to the owner, who
refreshes the evidence through the same reader and resolves it. Before all that
the order is built: a chain gives candidates, quotes give prices, the builder
gives a limit and a risk, and `_validate_order` and `_evaluate_broker_dry_run`
decide whether limit, risk, margin and buying power agree. After it the
submission records a journal row, and every look at the positions links the
broker's positions to rows and finalizes the rows that have none. The two alert
monitors read the same positions and text whoever has consented; at night the
overnight monitor also freezes what is learned of the trade. Which client a
request trades through is what the connection row says at that moment. Stripe calls
the webhook whenever it likes; the subscription row it leaves is what the
access check of every request reads.

What makes each correct is stated as the properties of section 3;
`PROJECT.json` lists every hazard at its line with the properties that would
notice it going wrong.

## 2. The modules

| Module | What it is |
|---|---|
| `OrderExecution` | the order path: review locks, requests, reservations, audit, broker account |
| `OrderExecutionProofs` | its theorems |
| `BrokerEvidence` | `Ledger._decide` as an operator: what one snapshot of the broker's orders means for a row |
| `ReconciliationLedger` | the ledger's transactions, one action each (extends `BrokerEvidence`) |
| `CertificationRecovery` | worker, reader, owner, broker, crashes and clock around the ledger (extends `ReconciliationLedger`) |
| `AttemptOutcome` | what the ledger promises about an attempt, with no word of how |
| `CertificationRecoveryProofs` | theorems of the recovery, with the refinement of `AttemptOutcome` |
| `StripeBilling` | Stripe, its webhook deliveries, the subscription row, the owner's override |
| `StripeBillingProofs` | its theorems |
| `AlertPolicy`, `AlertPreferences` | when a state is worth a text and when a recipient's settings let it out; the settings themselves |
| `DaytimeAlerts`, `OvernightAlerts` | the two monitors (extend `AlertPreferences`) |
| `AlertsProofs` | theorems of both, over `MCAlerts`' specification that runs one of them |
| `SmsConsent` | phones, consents and the last check before a text |
| `AccountSetup` | invitations, password changes, sign-in |
| `StagingConfirmation` | confirmation tokens and simulated intents |
| `AccountProofs` | theorems of `SmsConsent`, `AccountSetup` and `StagingConfirmation` |
| `TradeJournal` | the journal, the position monitor and the import, over an external broker |
| `StopAudit` | enrolment and samples |
| `BrokerConnections` | the connection of a user to a broker |
| `OrderConstruction` | from a chain to an order that passed its checks |
| `PositionSummaries` | from netted legs to the trades shown (extends `OrderConstruction`) |
| `PositionSummariesProofs` | its theorems |
| `OvernightLearning` | baselines, carry decisions, next opens |
| `ServicesProofs` | theorems of `BrokerConnections`, `OvernightLearning`, `StopAudit`, `TradeJournal` and `OrderConstruction` |
| `MCServicesProofs` | that services side by side are what each is alone, over `MCServices`' specification |
| `MC*` | instances and symmetry for TLC; `MCAlerts` and `MCServices` put modules side by side in one run |

A module's last section, *Inductive strengthenings*, holds the parts of its
inductive invariant, so that TLC can check them where the proofs use them.

Recovery is composed of its modules by `EXTENDS`; the alert monitors share
policy and settings; the position summaries share the strategies' patterns and
price tests with the builder. The other services share nothing but the database
they keep their own tables in, so their modules do not refer to each other.

### OrderExecution

A *request* is one call of `order_submit`. `pc[q]` is where it stands; each
action is one step that other threads, the clock, the broker or a restart can
come between.

| Action | Code |
|---|---|
| `OrderPreview` | `order_preview`, `_create_order_review_lock`, the pruning of expired locks |
| `OrderSubmit` | the gates of `order_submit_api`/`order_submit`, and `order_dry_run` up to its read of the review lock |
| `ReadPositions`, `DryRunVerdict` | the positions read in `order_dry_run`, `_check_existing_position_overlap`, the broker dry run, the `PREFLIGHT_PASSED` audit record |
| `ReadPositions`, `PositionsVerdict` | the second positions read, just before the submission |
| `ReadLiveOrders`, `OrdersVerdict` | `get_live_orders`, the working-order overlap, the session gate |
| `ConsumeReviewLock` | `_consume_order_review_lock` and the fingerprint comparison |
| `ReserveSubmission`, `AuditAttempt` | `_reserve_order_submission`; the durable `SUBMISSION_ATTEMPT`, or the release of the reservation |
| `SendOrder`, `Confirmed`, `Unconfirmed` | `submit_live_order` and what `order_submit` makes of its answer |
| `OtherCallerWrites` | another request finishing a call on the shared `owner_broker` |
| `MarketStep`, `Tick`, `Restart` | the broker, the clock, a death of the process |

A read and the look at `last_error` are two steps, because the code returns
from the client between them. `seen[q]` is what the read returned. Expiry times
are kept as ticks that remain, so the clock needs no bound. `granted`, `failed`
and `unseen` are history variables: for how long a request's reservation was
promised; whether a broker read of it failed, and whether that showed in
`last_error` when it was looked at (`"flagged"`) or not (`"hidden"`); and the
orders that neither of its two last reads could show: those not accepted yet
when it read the working orders, and those that filled between the two reads.

Left to chance: whether validation, the buying-power and dry-run evaluation and
the session gate let an order pass (the model allows either verdict), and
everything that only formats an answer. Left out: the trade-journal record and
the look at the order after the submission, whose failures the code ignores
(`TradeJournal` has both), and the `SUBMISSION_BLOCKED` audit records.

### CertificationRecovery

`rows` is the ledger; a *job* is a check one process is running: `phase` says
which read comes next and `snap` what it has seen so far. `broker[i]` are the
orders that carry intent `i`'s correlation id.

| Action | Code |
|---|---|
| `Create`, `BeginAttempt`, `MarkUnknown` | the methods of `Ledger`, one `BEGIN IMMEDIATE` transaction each |
| `StartPoll` | `CertificationWorker.tick`: cooldown, choice of a due row, the first half of `Ledger.reconcile` (lease) |
| `ReadHistory`, `ReadToday`, `ReadDirect`, `ReadFails` | the GETs of `CertificationOrderReader.read`, each at its own instant |
| `Observed`, `ProviderFailure` | `provider_success`, `provider_failure` |
| `StoreResult` | the second half of `reconcile`: decision, read limit, compare-and-set |
| `StartRefresh`, `StoreEvidence` | `OwnerReview.refresh` before and after its reads |
| `Resolve`, `RegisterProof` | `OwnerReview.resolve`; `register_guarded_test_proof` |
| `ResultLost` | SQLite unavailable for the second transaction |
| `Restart` | a crash and `reconciliation_lifespan` |
| `BrokerAccepts`, `BrokerMoves`, `Tick` | the broker and the clock |

Abstractions: statuses stand for the classes `_decide` tells apart; an item
whose payload, account or fill arithmetic is wrong is one bit (`sound`), for
`_decide` treats all of those alike; paging is one bit (`complete`). The
worker's in-memory copy of the cooldown and the 30-second pause after an
unforeseen exception are left out: they only delay. `tick` selects a row and
claims it in two transactions; they are one action here, since `reconcile`
checks everything again when it claims. Failures of the write in
`provider_failure` are left out. An attestation (`RegisterProof`) is taken to
be true: it is made outside the program. A 503 from the storage before any read
started is the step not being taken.

`NewestEvidenceDecides` and `CooldownRespected` are checked, and proved, for one
process, which is what `railway.staging.toml` and
`docs/certification-recovery-worker.md` deploy: `OwnerReview.refresh` supersedes
older evidence, and looks at the cooldown, in a transaction before its reads, so
a second process whose reads overlap makes both false. The lease and
compare-and-set, and everything else, are for any number.

### StripeBilling

`stripe[s]` is Stripe's own view of a subscription, `events` what it has
emitted, `ledger` what was processed, `rows[u]` the row of a user. An event
stays deliverable for ever, so "late", "repeated" and "in another order" need
no action of their own: `ProcessWebhook` takes any event that is not in the
ledger yet, and one that is there is a `DUPLICATE_EVENT`.

| Action | Code |
|---|---|
| `CreateCheckout` | `create_checkout_session` |
| `ProcessWebhook` | `process_stripe_webhook` with `CheckoutCompleted` (`_upsert_checkout_completed`), `SubscriptionChanged` (`_upsert_subscription_event`), `InvoiceSettled` (`_process_invoice_event`) |
| `LoadOverride`, `CommitOverride` | `set_manual_subscription_access` before and after its read of the row |
| `CompleteCheckout`, `PaymentFails`, `PaymentSucceeds`, `Cancels` | Stripe and its customer |
| `Tick` | the clock, in which a second and a day are the same unit |

The webhook is one action because its route is `async`, awaits only the body
and runs in one `uvicorn` process, so nothing on the event loop comes between
its read and its commit; the override is a plain `def` route in a thread, hence
two actions. SQLAlchemy writes only the columns a session changed, so an
override never undoes what a webhook wrote to other columns; only the two
inserts collide, on the unique `user_id`. `Access` is
`evaluate_subscription_access` with enforcement on, for a beta user with a
configured price. Left out: price ids, period and trial dates, the expiry of a
manual grant, an event id reused with another payload, statuses Stripe does not
document, and the read of the row before the call to Stripe in
`create_checkout_session` being a step of its own (its answer may be stale
here too, since the row lags behind Stripe).

### AlertPolicy, AlertPreferences, DaytimeAlerts, OvernightAlerts

`AlertPolicy` holds the decisions as operators: `DaytimeShouldAlert`
(`_should_alert`), `DaytimeDeliveryAllowed` (`daytime_delivery_decision`),
`OvernightShouldAlert`, `OvernightDeliveryAllowed`. A *check* is one poll of one
process; it is cut where it calls the outside world.

| Action | Code |
|---|---|
| `SetMode`, `SetSnooze`, `SetConsent` | the preference routes of `routes/sms_consent.py` |
| `StartCheck`, `EndCheck` | `_process_daytime_monitor`: mode, subscription, positions |
| `StoreOnly`, `DecideToSend` | `process_position_threat` up to the send, under its row lock |
| `TextDelivered`, `RecordDelivery`, `CommitRow` | `send_bxk_sms`, `_record_daytime_delivery` (a transaction of its own), the commit |
| `CheckFails` | no consent, a refused message, a failed write, a collision of two inserts, a crash |
| `ReadRisk`, `StoreRisk`, `DecideToText`, `NightTextDelivered`, `CommitRisk`, `NightCheckFails` | the same cuts of `process_overnight_alert` |
| `MarketTurns`, `RiskChanges`, `MinutePasses`, `NightPasses` | the market and the clock |

An existing row is locked (`with_for_update`); a row that does not exist cannot
be, so two first observations may collide. `texted`, `texts`, `nightTold` and
the mishap counters are history: what the recipient really got. How a position
is classified is the environment's choice; the wording and manual tests are
left out.

### SmsConsent

| Action | Code |
|---|---|
| `RecordConsent`, `RevokeConsent` | `record_sms_consent`, `revoke_user_sms_consent` |
| `SetActive` | `set_user_active` of the administration |
| `Restart`, `ProvisionPhone` | `lifespan` of a new process: `BXK_SMS_PENDING_ASSIGNMENTS`, one `provision_sms_phone` at a time |
| `ListSubscription`, `ConsentStillActive`, `AlertEnds` | a loop lists its subscriptions, `send_bxk_sms` asks once more by phone number alone, the message leaves or does not |

A deployment starts the new process while the old one still serves and texts:
`Restart` ends nothing, every loop goes on between the assignments, and
`AlertEnds` may cut it off at any moment. A request, and the assignment of one
number, is a transaction of its own and one step here. `moved` remembers that an
assignment has changed the number of the user a loop has in hand.

### AccountSetup

One account. A request loads the row (`Begin`), hashes or calls the e-mail
provider, and commits conditionally.

| Action | Code |
|---|---|
| `IssueInvitation`, `SendEmail` | `issue_setup_invitation` before and after the provider |
| `BeginRedeem`, `CommitRedeem` | `redeem_setup_invitation` around the hash |
| `BeginChange`, `CommitChange` | `change_user_password` behind the session check |
| `BeginLogin`, `IssueCookie` | `authenticate_database_credentials`, `create_database_session_token` |
| `SetUserActive`, `ProcessDies`, `LinkAges` | administration, a crash, the clock |

No row lock is modelled: SQLite has none, and the conditional updates must do
without.

### StagingConfirmation

`Issue` (with its pruning), `BeginConsume`/`CommitConsume`/`LeaveConsume` and
`ReserveIntent`, which `reserve_intent` lets anybody do for any key, with or
without a token of it; `consume` then meets the intent that is there. `consume` takes the time before it waits for the write lock,
hence the stamp; the answer may be lost after the commit, and `ReceiptVerified`
is what a caller can then read back. Hashes and fingerprints are equality of
model values.

### TradeJournal

One row per opening order of one user; four legs, quantity one; prices are
reduced to "the entry fill is known" and "there is a result". Entries in `Ours`
are sent by the application, the others by the user at the broker's own terminal.

| Action | Code |
|---|---|
| `SubmitEntry`, `SubmitClose`, `OrderFills`, `OrderCancelled`, `Expiration` | the broker (external), as `get_orders`, `get_transactions` and `get_positions` show it |
| `AuditSubmitted`, `ReconcileOrder`, `RecordLoads`, `RecordCommits` | `order_submit` after the broker took the order: the SUBMITTED audit, the one read of the order (which may fail, or come before the fill), and `record_submitted_trade` before and after its read of the row |
| `ReadHeld`, `Observe`, `ReadCandidates`, `ReadHistory`, `FinalizeOne` | `get_position_monitor`: `link_positions_to_submissions`, `link_positions_to_journals`, `observe_open_trade`, `reconcile_missing_trade_journals` with `finalize_closed_trade` and `finalize_expired_trade` |
| `ReadForImport`, `PlanImport`, `ImportLoads`, `ImportCommits`, `NormalizeImportedRow`, `FinalizeImport`, `ImportEnds` | `backfill_trade_journal`; `record_submitted_trade` again, `_normalize_imported_row` and `finalize_*` are a transaction each |

`record_submitted_trade` reads the row without a lock and commits the columns it
changed, so `read` keeps the status it saw: `Recorded` ranks the new status
against that one and writes it over whatever the row has become. A row inserted
in between collides with the unique index of order ids (`Collides`). The
finalizers and `observe_open_position` lock their row and are one step each. A
closing order that another row names violates the unique index: that ends the
reconciliation of this poll, or the import.
Every read may fail and look empty (`losses`). Settlements are posted hours
after trading ended, so `SettlementsPosted` is `expired`.

### StopAudit

`BeginEnroll`/`CommitEnroll` (the confirmation at the broker lies between),
`BeginSample` (the committed attempt), `ReceiveQuotes`, `CommitSample`,
`AuditExpires`. Profits are small integers, a minute is one tick.

### BrokerConnections

One user and one broker, Tastytrade or Schwab.

| Action | Code |
|---|---|
| `BeginOAuth`, `CancelOAuth`, `BeginCallback`, `CompleteCallback` | `begin_*_oauth`, `cancel_*`, `complete_*_oauth` before and after the broker, with `sync_tastytrade_accounts`/`_sync_accounts` |
| `BeginConnect`, `CommitConnect` | `connect_tastytrade_account` |
| `BeginRefresh`, `CommitRefresh` | `resolve_schwab_broker` with a stale token |
| `SelectAccount`, `SetLiveTrading`, `Prefer`, `Disconnect` | the short transactions |

A call keeps the row it loaded over its call to the broker and writes only the
columns it changed. `crossed` remembers that another request wrote the row
meanwhile; `DefaultIsTraded` does not hold after that (an account selected while
a callback is away is overwritten in one of its two columns).

### OrderConstruction, PositionSummaries

`AskForTrade`, `Preview`, `QuotesAge`, `Validate`, `DryRun` follow one order
from the chain to the broker's dry run. Strikes are points and money is ticks
for one contract; the scores, deltas and probabilities that choose among
candidates are nondeterministic; a quote that is missing, one-sided or crossed
ends the preview. `WorstLoss` settles the order at every index value and is what
`max_risk` is compared with.

`PositionSummaries` opens trades whose legs the broker nets (`OpenTrade`) and
defines `Summaries` as `build_position_summaries` does: debit combinations,
condors, verticals, single legs. All legs are priced by one coherent curve
(`BookAssumption`): calls fall and puts rise with the strike, strictly, and never
by more than the strikes are apart.

The dry run compares two sums of money to one cent and to five cents
(`routes/order.py:2057`, `2117`); that is less than a tick, and the model asks
for equality. `Preview` needs a listed chain: an expiration without strikes gives no
candidates (`option_scanner.py:178`), and strikes are positive there.

### OvernightLearning

`Heartbeat` is `MarketEngine.update` (serialized by its lock) with
`maybe_capture_overnight_baseline` and `record_next_open_outcomes`;
`BeginWatch`, `LoadRow`, `CommitCarry` are a request of the overnight monitor up
to `record_overnight_carry_snapshot`, which takes no lock. Prices are the
trading day they are of. Exchange holidays are unknown to the program; the
property says what holds without one.

## 3. What the runs show

| Run | Properties | Instance |
|---|---|---|
| `order_safety` | `TypeOK`, `OneOrderPerReview`, `SentIsReviewed`, `AttemptAudited`, `HonestReply`, `ReservationExclusive`, `LookupFailureBlocks`, `OverlapOnlyUnseen` | two concurrent requests, two users of one account, two orders that share a leg, shared client, malformed answers, moving market, late acceptance, one restart (6.0 million states) |
| `order_fill_in_between` | `NeverOpensHeldLeg` violated | a fill between two reads |
| `recovery_account` | `OneOrderPerIntent`, `ExposureAccounted`, `ClosedIsAbsent` | two intents of one account, lagging lists, one mishap (1.5 million) |
| `recovery_evidence` | `TypeOK`, `NewestEvidenceDecides`, `CooldownRespected` | one intent, two evidence records, every fault of the broker (1.9 million) |
| `recovery_promise` | `KeepsPromise` (refinement) | two processes with leases that run out, two contracts, one mishap (2.8 million) |
| `recovery_liveness` | `UnknownIsResolved`, `BoundOrderIsReal` | outages, partial and lagging lists, repeated submissions (1.4 million) |
| `billing_delivery` | `TypeOK`, `AccessFollowsStripe`, `GraceNotRestarted` | one user, two subscriptions one after the other, five changes at Stripe, overrides (1.2 million) |
| `billing_overlap` | `AccessFollowsStripe` violated | two subscriptions at a time |
| `alerts` | `AlertsTypeOK`, `RowRemembersText`, `CriticalIsReported` | one position; one daytime monitor, or two overnight monitors; an hour's limit of one text, a snooze, two modes, one mishap (0.4 million) |
| `services` | the type invariant and `AlertReachesConsenter`, `OldCookiesRefused`, `PasswordChangesHold`, `HonestDeliveryStatus`, `TokenPromisesKept`, `AuditSummarizesSamples`, `DefaultIsTraded`, `DisconnectHolds`, `ValidatedRiskIsWorstCase`, `BookShownWhole`, `LearnedOfItsNight`, `TextsAnHourBounded`, `NoNeedlessRepeat` | nine services one at a time, bounds below (2.1 million) |
| `journal` | `JournalTypeOK`, `EndedRowsTrue`, `ClosedIsFinal` | an entry of the application and one of the user's own, two closes, one monitor, the import, one lost answer (6.1 million) |
| `journal_close` | `ClosedByOwnClose` violated | two entries on the same legs |

The bounds. Two requests are enough for every pairwise race of the order path;
the violation under slow audit writes needs a third (below), and the theorems
cover any number. One or two ticks of life are enough for every order of expiry
against any other step. Two intents are what the account-wide block is about;
two processes what a lease is about; two evidence records what superseding is
about; a version bound of 6 or 7 lets a row be read, handed over, resolved and
read again. `MaxVersion` and `MaxMishaps` bound TLC only: the proofs hold for
every value. One user is enough for billing, whose handlers touch one row each;
four ticks (five changes at Stripe) let a subscription begin, fall past due, recover or end, and another
one begin, with each event delivered at any later point.

`alerts` lets the recipient act at any moment while one daytime monitor or two
overnight monitors run; in `services` two daytime monitors run over two
positions, with a limit of two and one mishap, while settings and clock stand
still, since a deployment overlaps them for a minute; exchanging the monitors or
the positions changes nothing (`SYMMETRY`, sound because the run has safety
properties only). Two of each are what the bound on an hour's texts needs: both
monitors may decide below the limit, and both then break through it for a second
position that is CRITICAL, so that with one lost answer the bound is reached.
Three classifications are the least that have a rise, a change of side and a
return to GREEN; in `alerts` a limit and a window of one are spent by the first
text; in `services` a limit of two leaves room for a repetition that nothing but
the row prevents. The theorems cover any number of monitors and positions with
minutes passing.

`services` explores nine services that share no state. Its variable `mover` names
the one that moves; the others stay in their first state, so that the state
space is the sum of the nine and not their product, and a property of one is
checked against all of its own interleavings. Its bounds: two users and three
phones (a number changes hands, a user changes numbers, one is assigned by each
start) with the loops of the old process and of the new one; two requests on one
account, two invitations, a link of two ticks; two tokens of one tick and two
consumers with a wait for the lock of one; two samplers over three minutes; two
accounts, two calls, two OAuth round trips, two authorizations; dense and sparse
chains and an expiration that is not listed, widths and quantities one and two;
two trades over six strikes; one row, two monitor requests that race for it and
three days with or without a holiday. `CHECK_DEADLOCK FALSE` there and in
`journal_close`: orders end, days run out, trades are all opened.

`journal` has a run of its own, since its steps are many: one entry whose
recording the application does and one that only the import knows, on the same
legs or on different ones, and a close for each; every read of a row without a
lock can then be overtaken by the monitor, the other recorder and the import.

### What the violated properties mean

* **`order_fill_in_between`.** Positions are read before working orders. An
  order that fills between the two is in neither list, and the request opens a
  leg that is already held, which `_check_existing_position_overlap` says it
  prevents. Reading the working orders first would close this window.
* **`billing_overlap`.** The guard of `create_checkout_session` looks at a row
  that lags behind Stripe and only refuses when it says active or trialing. A
  second checkout opened before the first webhook, in another tab, or while
  past due gives the user two subscriptions and one row; ending the first takes
  away the access the second still pays for, until an event of the second
  arrives.
  `AccessFollowsStripe` is also violated, without a second subscription, when
  Stripe makes two changes in one second (the fault `sameSecond`, which no run
  switches on): equal timestamps are not stale, so an `invoice.payment_failed`
  processed after the `customer.subscription.deleted` of its second makes a
  cancelled row past due with a fresh grace period.

* **`journal_close`.** A closing order matches a row by legs, actions and
  quantity; nothing asks whether it filled after the entry. A condor closed and
  entered again on the same legs has its second row, still SUBMITTED, closed by
  the first one's closing order. The import compares the times
  (`_close_matches`); the reconciliation does not. `EndedRowsTrue` says what
  does hold: with different legs every closed row names its own close.

What else is weak needs no run of its own; the instances show it when a fault
is switched on, or the property that holds names it as its exception:

* `_release_order_submission` removes whatever reservation its key has. No run
  switches `"slowAudit"` on: with it and a third request in `order_safety`, an audit write that takes
  longer than the 60 seconds of the reservation and then fails removes the
  reservation of a *later* identical submission, and `ReservationExclusive` is
  violated. The theorem carries the assumption that this does not happen.
* `last_error` belongs to the client object all owner requests share, so a call
  that succeeds in between (`"sharedClient"`) hides a failed lookup; a 200 answer
  that is not JSON is an empty list and sets no error (`"malformedBody"`). Both
  are on in `order_safety`. What holds is that a failure which still shows when
  `last_error` is looked at blocks (`LookupFailureBlocks`), and that two orders
  share a leg only when each was out of the other request's sight: a failure was
  hidden, or the order was not accepted yet when the working orders were read, or
  it filled between the two reads (`OverlapOnlyUnseen`). These are all the ways
  round `_check_existing_position_overlap`; of two requests one after the other,
  the later sees.
* A deployment that assigns a user another number (`main.py:56`) while the old
  process's loop still holds the former one leaves the former consent active:
  `revoke_user_sms_consent` then revokes the new number only, and the loop's
  check by phone lets a text to the former number through although its user has
  opted out. `static/privacy.html:112` says users may opt out at any time.
  `AlertReachesConsenter` excepts this case by `moved` and no other.
* `record_submitted_trade` reads its row without a lock
  (`trade_journal_service.py:562`). If the reconciliation closes the row before
  the commit, the status goes back to OPEN over CLOSED. `ClosedIsFinal` says how
  far this goes: closing order and result stay, and only a write whose read came
  before the close does it. The next reconciliation finds the row unfinished and
  closes it again.
* `reconciliation_ready` is set by the lifespan and never read, so the worker
  polls after a recovery that failed at startup
  (`docs/reconciliation-implementation.md:75` says otherwise). The fault
  `"startup"` in `recovery_evidence` includes it; the properties hold all the
  same.

Under every one of these faults what is sent is what was reviewed, once, with an
audit record.

### Fairness

`recovery_liveness` and `alerts` assume fairness. In the recovery, `WF(Tick)`:
time passes. `WF(CheckStep(p))`: a check that has started goes on, as its reads
have timeouts and the coroutine that calls `tick` every five seconds awaits it.
`SF(StartPoll(p, i))`: a row that is due again and again is eventually chosen,
because `tick` takes the one with the oldest `next_read`; weak fairness would
not do, as a lease or a cooldown makes it wait from time to time. Nothing is
assumed of the owner, the operator or the broker.

In the alerts, time passes (`WF` of `MinutePasses`, `NightPasses`), the loops
come round and their steps end (`WF` of `CheckGoesOn`, `NightGoesOn`: calls have
timeouts and the loops catch every exception), and Twilio does not refuse every
message for ever (`SF` of `TextDelivered`, `NightTextDelivered`: an attempt is
made again and again, not continuously). Nothing is assumed of the recipient or
the market; `CriticalIsReported` itself asks that the position stays CRITICAL
and the recipient stays reachable.

## 4. What is proved

`tlapm` checks every proof to its last leaf. Nothing is assumed besides the
`ASSUME`s on the constants, which TLC evaluates in every run.

| Theorem | Statement |
|---|---|
| `OrderExecutionProofs!TypeCorrect` | `Spec => []TypeOK` |
| `OneOrderPerReviewHolds`, `SentIsReviewedHolds` | a review sends one order at most, and it is the frozen one |
| `AttemptAuditedHolds`, `HonestReplyHolds` | no send without its audit record; answers are honest |
| `ReservationExclusiveHolds` | reservations exclude, if `"slowAudit" \notin Faults` |
| `LookupFailureHolds` | `Spec => []LookupFailureBlocks` |
| `OverlapOnlyUnseenHolds` | `Spec => []OverlapOnlyUnseen`, for any number of concurrent requests and every fault |
| `CertificationRecoveryProofs!TypeCorrect` | types, and `JobInv` |
| `LeaseProtects` | `Spec => []LeaseInv` |
| `PromiseKept` | `Spec => KeepsPromise`: the recovery implements `AttemptOutcome` |
| `ExposureHolds` | `Spec => [](SnapshotInv /\ ExposureInv)` |
| `OneOrderHolds`, `ClosedAbsentHolds`, `ExposureAccountedHolds`, `BoundRealHolds` | `OneOrderPerIntent`, `ClosedIsAbsent`, `ExposureAccounted`, `BoundOrderIsReal` |
| `NewestEvidenceHolds`, `CooldownHolds` | `NewestEvidenceDecides`, `CooldownRespected`, for one process |
| `StripeBillingProofs!TypeCorrect` | `Spec => []TypeOK` |
| `GraceNotRestartedHolds` | `Spec => GraceNotRestarted`: no event lengthens a grace period |
| `AccessFollowsHolds` | `Spec => []AccessFollowsStripe`, without overlapping subscriptions or two changes in a second |
| `AccountProofs!ConsentTypeHolds`, `SetupTypeHolds`, `ConfirmationTypeHolds` | types of the three |
| `AlertReachesConsenterHolds` | `ConsentSpec => AlertReachesConsenter`, deployments included |
| `OldCookiesRefusedHolds`, `HonestDeliveryStatusHolds` | `SetupSpec => []OldCookiesRefused`, `[]HonestDeliveryStatus` |
| `PasswordChangesHoldProved` | `SetupSpec => PasswordChangesHold`: no stale link and no loser of a race sets a password |
| `TokenPromisesKeptHolds` | `ConfirmationSpec => []TokenPromisesKept` |
| `AlertsProofs!AlertsTypeHolds` | types of both monitors |
| `RowRemembersHolds` | `OvernightSpec => []RowRemembersText` |
| `TextsBoundedHolds`, `NoNeedlessRepeatHolds` | `DaytimeSpec => []TextsAnHourBounded`, `DaytimeSpec => NoNeedlessRepeat` |
| `ServicesProofs!ConnectionsTypeHolds`, `LearningTypeHolds`, `StopAuditTypeHolds`, `JournalTypeHolds`, `ConstructionTypeHolds` | types of the five services |
| `DefaultIsTradedHolds`, `DisconnectHoldsProved` | `ConnectionsSpec => []DefaultIsTraded`, `[]IdsAreNew /\ DisconnectHolds` |
| `LearnedOfItsNightHolds` | `LearningSpec => []LearnedOfItsNight` |
| `AuditSummarizesHolds` | `StopAuditSpec => []AuditSummarizesSamples` |
| `JournalInvHolds`, `EndedRowsTrueHolds`, `ClosedIsFinalHolds` | `JournalSpec => []JournalInv`, `[]EndedRowsTrue`, `ClosedIsFinal` |
| `ValidatedRiskHolds` | `ConstructionSpec => []ValidatedRiskIsWorstCase` |
| `PositionSummariesProofs!BookTypeHolds`, `BookShownHolds` | `BookSpec => []BookTypeOK`, `[]BookShownWhole` |
| `MCServicesProofs!EachBehaves` | `ServicesSpec` implies the specification of each service |
| `ServicesTypeHolds`, `ServicesKeepPromises` | `ServicesSpec => []ServicesTypeOK`; what is proved of each service holds of all together |

**Order path.** `OneOrderPerReview` is not inductive: between reading a lock in
`order_dry_run` and consuming it, two requests may hold the same review.
`ReviewInv` adds what decides the race: a request past `ConsumeReviewLock` has
left its review consumed or gone, found its own scope and order there, and is
the only one past it. `ReplyInv` ties `pc`, the broker, the audit and the reply
together. `GrantInv` says a promise is covered by the table's entry for at least
as long, which is what makes a refused reservation mean something, and that a
request that may still release one holds it; that last part is what a slow
audit write destroys, so the theorem carries the assumption that it does not
happen.

Both properties about what the broker showed are proved without conditions on the
faults. `FailInv`: a request whose failure showed is about to look at
`last_error`, with the failure still in it, or has ended without sending.
`CheckInv` says of each pair of requests what the one knows of the other's order
(`Knows`): past both checks, every standing order of its account is apart from
its own, or was out of its sight; between a read and its comparison, the order is
in the answer it holds. The steps that matter are those of the other request and
of the broker: an order that is sent after the working orders were read, accepted
late, or filled between the two reads enters `unseen`, and a fill before the
positions are read is in them. `SentInv` keeps what a request knew when it sent:
an order that was not sent by then it cannot have seen, and one that stood it has
compared. The first part, when the other sends later, gives the second.

**Recovery.** The refinement needs the compare-and-set to be sound. `LeaseInv`
says so: as long as a poll's lease and version stand, the row has the state and
the fills the poll started from, and that state is one that is still polled.
Every change of a row raises its version, so whoever was overtaken fails the
test. With it each step maps to one of `AttemptOutcome` or to a stutter:
`StoreResult` and `Resolve` to `Learn` or `Escalate`, because a verdict below
the fills of the row is ignored (`STALE_FILL_IGNORED`).

The facts about orders rest on `ExposureInv`, which relates the ledger to the
broker: an intent has no more orders than attempts and repeated requests
(`PlacedInv`), at most one attempt (`AttemptInv`), a row bound to an order while
it says so (`BindingInv`), and one intent of the account at most is uncertain
(`UncertainInv`). `SnapshotInv` says that what any snapshot shows has happened,
and stays so as long as orders only gain fills and never come back from their
end; that is what lets a verdict be stored long after its reads.
`EvidenceInv` and `CooldownInv` are about one process (`OneProcess`), as deployed.

**Billing.** `GraceNotRestarted` is an action property, and a step keeps it only
from states in which a past-due row has a grace period at all
(`_upsert_subscription_event` begins one when there is none) and a row that does
not exist has no columns (`_process_invoice_event` matches by subscription id
alone). `PastDueHasGrace` says both; `RowStep` is what one step may make of one
row, proved handler by handler.

`AccessFollowsStripe` rests on `FollowInv`: one subscription of a user lives at a
time (`SubsInv`); the newest events about a user tell the status Stripe has
(`EventsInv`); and a row says what some event told that is no older than any
subscription event processed (`RowTold`), since `_is_stale` drops only older
ones. When all events are processed these meet. Both hypotheses are needed:
`billing_overlap` shows the first, section 3 the second.

**Consent.** The check in `send_bxk_sms` asks by phone alone, so nothing in it
says whose consent it finds. `ConsentInv` does: a consent row's user is never
changed, so the row of the alert in hand is still the user's for whom it was
listed; and as long as it is active, that user has this phone and has not opted
out, or an assignment has changed the phone since (`moved`).

**Accounts.** The proof rests on revision and password changing together
(`VersionNamesPassword`): then a cookie or a request with the current revision
was made for the current password, which is all the conditional updates compare.
`FirstPasswordOnly` says that a user who still has to set a password has set none
by any link. `MailOfNewestLink` gives each link one request that mails it; its
answer is stored only for the newest link, so the status is about that link.

**Confirmations.** A spent token was issued (`SpentIsIssued`) and is never
pruned, so what its caller was told stays readable. `WaitIsBounded` holds only
for requests that took their time before the expiry; it is the bound on the
moment of use.

**Alerts.** By night the row knows what was read last unless a monitor has sent
and not committed; then that monitor is the only one and is going to write it,
for an existing row is locked, or else its insert is going to collide
(`NightLocked`, `NightTellInv`). By day the same holds position by position
(`DayLocked`, `DayTellInv`). The bound on the texts of an hour counts what is
under way: a decision to send is made on the deliveries recorded so far, so with
n monitors n decisions may be made below the limit and n more as CRITICAL
(`LimitInv`), and a text is older than the delivery that records it, so those
recorded leave the hour no later (`RecordedInv`). With two monitors and two
positions the limit is exceeded by three, not by one: the bound says so.

**Connections.** `IdsAreNew`: a request that loaded a row has an id below the
next one, so a row that comes later never has it; the compare on the id is then
enough. `AccountKnown`: while nothing crossed, a callback carries its row's
account.

**Overnight learning.** `DaysPassed` and `WatchersAgree` say that nothing is of a
day to come and that no request lasts into a session, so that all requests of a
night hold the same baseline; `AwaitsTheNext` that a decision still waiting for
its outcome is of the last night, if no holiday and no missed heartbeat came
between.

**Stop audit.** Samplers have a minute each (`SamplersApart`), so that each sample
is counted once; `FirstsKept` states the first break-even by comparison of times
instead of the choice the property makes.

**Journal.** `JournalInv` says that a row fits what happened (`RowFits`), that a
closing order fills after an entry it closes (`ClosesFollow`), and that whatever
a monitor or the import has read is a prefix of the broker's history, complete
once the settlements are posted and nothing was lost (`PollFits`,
`ImportBehind`). A closing order that is in a prefix has its entry there too,
which is what decides the race between a stale read and a later fill. Records and
imports write a status they ranked against a stale one, which is why `RowFits`
says of SUBMITTED and OPEN nothing about the broker (a filled order may be
recorded SUBMITTED, a closed row be open again), and of CLOSED and EXPIRED only
what the finalizers leave there, under their lock; a price that a recorder read
is that of a fill (`RecordingFits`). The hypothesis of `EndedRowsTrue` about equal legs is in the property itself and
`journal_close` shows why.

**Order construction.** The payoff of each strategy is bounded from its shape
alone (`WorstPayoff`): the validation orders the strikes and compares both
wings with the width, so the most that a credit order can pay is the width, a
debit order never pays less than nothing, and some settlement up to the highest
strike reaches it. Rounding the limit down moves the risk by what it costs
(`CreditRisk`), and `PricedInv` and `CheckedInv` carry risk, limit and width from
the preview to the dry run. Candidates have listed strikes because a chain that
is finite and not empty has a nearest one (`NearestListed`).

**Positions.** `BookTypeOK` is inductive: netting one leg into a list keeps it a
list of well-formed legs, one of a contract (`NettedFits`), and a trade is at
most four of them. Everything else is about one list of legs.
The summaries are built by functions over how many short legs have been treated.
That such a function exists and is what its defining equation says (`Recursion`)
is proved here, from induction over finite sets by the well-foundedness of their
subsets (`Steps`), as the library's induction theorems cannot be used; `Ranks`
and `Listing` then say that numbering the elements of a finite set by rank lists
each of them once. From these:

* *once and only once*: the debit combinations of one expiration take legs from
  nobody (`DebitsApart`), the condors of a group cut it in fours (`FoursApart`),
  the nearest long leg is a free one (`NearestIsFree`), so verticals are apart
  (`VerticalsApart`); legs of no pair are shown alone (`GroupCovered`), and
  groups of different expirations or quantities share nothing (`SummariesCover`);
* *the risk*: a summary has one of few forms (`IsShape`: a single leg, a put or
  call vertical bought or sold, a condor, a butterfly, a reverse condor). For
  each, what one unit pays at a settlement is bounded from the strikes alone
  and the bound is reached at one of the settlements looked at
  (`UnitPayoff`, `RiskIsWorst`, then `SingleRisk`, `PairRisk`, `CondorRisk`,
  `ButterflyRisk`, `ReverseCondorRisk`); the number of units multiplies both.

`BookAssumption` is about prices: a call is strictly cheaper the higher its
strike, a put the lower, by no more than the strikes are apart, as quotes of one
moment are. It is needed: section 6 says what a spread opened for nothing shows.

**Services side by side.** A step of `ServicesNext` is a step of one service and
leaves the others (`EachMoves`), so each behaviour of the run is one of every
service's own specification, fairness apart (`DeploymentHolds` repeats for
daytime monitors the two bounds that need none). What was proved of a service
is therefore true in the run that checks them together.

Every strengthening was checked by TLC as an invariant before it was proved. Two
attempts showed the model or a property wrong: the hourly bound, and a preview
of an expiration that is not listed.

**Only model-checked.** Liveness (`UnknownIsResolved`, `CriticalIsReported`):
the prover treats neither fairness nor ENABLED. The violated properties of
`order_fill_in_between`, `billing_overlap` and `journal_close` are TLC's.

## 5. Plan

Done: all of the modules above, with their runs, and the proofs of every safety
property a run checks, `PromiseKept` among them.

What would come next:

1. Opening prices per leg and per trade in `PositionSummaries` instead of one
   curve, with the risk of a summary stated for what the code can know.
2. The repair in `list_or_sync_tastytrade_accounts` and the import of the legacy
   owner connection in `BrokerConnections`.

## 6. Not modelled

The Schwab client (read-only HTTP calls; live orders are refused through it),
quotes, balances and metrics of the Tastytrade client, market data streams and
caches, scores, rankings, recommendations and coaching (floating-point functions
without state), messages, support forms and settings (single transactions), the
chatbot, the browser front end, migrations, developer tools and archived code,
and the synthetic rehearsals around the staging ledger. The calendar of half days
and holidays is a table; its verdict is a free choice in the order path.
`PROJECT.json` gives the reason for each.

Observations met on the way that no property states, because nothing in the
repository says what should happen:

* A dangerous state first seen while the recipient has snoozed is stored as the
  baseline (`overnight_alert_service.py:546`), and is not texted when the snooze
  ends unless a later change is worth a text.
* A restart applies `BXK_SMS_PENDING_ASSIGNMENTS` again and switches off the
  alerts of a user who has consented since.
* EXPIRED has no rank in `_STATUS_RANK`, so a late submission record can put an
  expired row back to OPEN; the next reconciliation expires it again.
* A row whose only matching closing order is named by another row ends every
  reconciliation at the unique index (`trade_journal_service.py:2276`), and the
  candidates after it stay unfinished.
* A failed `get_orders` answers an empty list and `reconcile_missing_trade_journals`
  does not look at `last_error`; `_JOURNAL_RECONCILE_NEXT_AT` is one for all users.
* `live_trading_enabled` survives an OAuth reconnection that selects another
  account (a manual connection clears it), and a token refresh in flight may
  overwrite the tokens of a reconnection with those of the grant before.
* The block on opening next to a closing order stands in the preview only
  (`routes/order.py:1225`).
* An exchange holiday makes the heartbeat record the last session's open as the
  next open (`LearnedOfItsNight` excludes holidays).
* A vertical is a credit spread when `opening_net_credit >= 0`
  (`position_monitor.py:1044`). A long spread whose legs were opened at different
  times may have cost nothing or brought money in, and is then shown with the
  whole width as its risk, though it cannot lose any (`BookAssumption` excludes
  it; under it the clamp of the risk at 0 is never active).
