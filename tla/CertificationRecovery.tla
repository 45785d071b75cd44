------------------------ MODULE CertificationRecovery ------------------------
(***************************************************************************)
(* Recovery of order attempts whose outcome is uncertain: the worker that  *)
(* polls the broker (staging_certification_worker.py), the owner who       *)
(* reviews what it cannot settle (staging_owner_review.py), the reader     *)
(* they share (staging_reconciliation_reader.py), the ledger they change   *)
(* and the broker they watch.                                              *)
(*                                                                         *)
(* A process runs one broker check at a time, under the lock of its        *)
(* worker.  The steps of a check are its transactions and GETs; between    *)
(* them orders move, the owner decides, other processes write, time        *)
(* passes, and the process may die and start again.                        *)
(***************************************************************************)
EXTENDS ReconciliationLedger

CONSTANTS
    Reviews,       \* review ids, one per evidence record
    ReviewTTL,     \* REVIEW_TTL, in ticks
    MaxFailures,   \* where the failure count stops; its delay in ticks
    MaxMishaps,    \* crashes and lost writes (a bound for TLC)
    Faults         \* what the environment may do, out of FaultKinds

FaultKinds == {
    "lag",          \* the broker's lists omit orders or show them as they were
    "partial",      \* the broker's lists come back incomplete
    "unsound",      \* an item contradicts the row
    "outage",       \* a GET or the token exchange fails
    "duplicate",    \* the transport repeats the submission
    "startup"}      \* recover_inflight fails when a process starts

ASSUME RecoveryAssumptions ==
    /\ ReviewTTL \in Nat \ {0}
    /\ MaxFailures \in Nat \ {0}
    /\ MaxMishaps \in Nat
    /\ Faults \subseteq FaultKinds
    /\ None \notin Reviews

VARIABLES
    broker,      \* the orders that carry each intent's correlation
    job,         \* the check each process is running
    ready,       \* reconciliation_ready of each process
    cooldown,    \* certification_worker_state: ticks left of blocked_until
    failures,    \* certification_provider_failures
    evidence,    \* certification_review_evidence, with its resolution
    proofs,      \* certification_no_submission_proofs
    mishaps,
    owed         \* history: delay asked by failures since the last success

vars == <<rows, broker, job, ready, cooldown, failures, evidence, proofs,
          mishaps, owed>>

-----------------------------------------------------------------------------
OrderStates == [status: Statuses \cup {"none"}, filled: 0..Quantity]
NoOrder == [status |-> "none", filled |-> 0]

(* One check: what for, how far, the row it started from, what it saw.     *)
Reading == {"history", "today", "direct"}
Phases == Reading \cup {"none", "observed", "failed", "apply"}
Jobs == [kind: {"idle", "poll", "refresh"}, intent: Intents \cup {None},
         phase: Phases, row: Rows, snap: Snapshots]

NothingSeen == [items |-> {}, sound |-> TRUE, complete |-> FALSE]
Idle == [kind |-> "idle", intent |-> None, phase |-> "none",
         row |-> NoRow, snap |-> NothingSeen]

EvidenceRecords == [intent: Intents \cup {None}, version: Nat,
                    snap: Snapshots, left: 0..ReviewTTL, used: BOOLEAN]
NoEvidence == [intent |-> None, version |-> 0, snap |-> NothingSeen,
               left |-> 0, used |-> FALSE]

TypeOK ==
    /\ rows \in [Intents -> Rows]
    /\ broker \in [Intents -> [BrokerIds -> OrderStates]]
    /\ job \in [Processes -> Jobs]
    /\ ready \in [Processes -> BOOLEAN]
    /\ cooldown \in 0..MaxFailures
    /\ failures \in 0..MaxFailures
    /\ evidence \in [Reviews -> EvidenceRecords]
    /\ proofs \subseteq Intents
    /\ mishaps \in 0..MaxMishaps
    /\ owed \in 0..MaxFailures

Init ==
    /\ InitRows
    /\ broker = [i \in Intents |-> [b \in BrokerIds |-> NoOrder]]
    /\ job = [p \in Processes |-> Idle]
    /\ ready = [p \in Processes |-> TRUE]
    /\ cooldown = 0
    /\ failures = 0
    /\ evidence = [e \in Reviews |-> NoEvidence]
    /\ proofs = {}
    /\ mishaps = 0
    /\ owed = 0

-----------------------------------------------------------------------------
(* The operator's harness and the broker.                                  *)

Create(i) ==
    /\ create(i)
    /\ UNCHANGED <<broker, job, ready, cooldown, failures, evidence, proofs,
                   mishaps, owed>>

BeginAttempt(i) ==
    /\ begin_attempt(i)
    /\ UNCHANGED <<broker, job, ready, cooldown, failures, evidence, proofs,
                   mishaps, owed>>

MarkUnknown(i) ==
    /\ mark_unknown(i)
    /\ UNCHANGED <<broker, job, ready, cooldown, failures, evidence, proofs,
                   mishaps, owed>>

Placed(i) == {b \in BrokerIds : broker[i][b].status # "none"}

(* Each attempt is one submission, which may arrive however late.  None    *)
(* was made for an intent the operator attested a proof for.               *)
BrokerAccepts(i, b) ==
    /\ broker[i][b].status = "none"
    /\ Cardinality(Placed(i)) <
         rows[i].attempt + (IF "duplicate" \in Faults /\ rows[i].attempt > 0
                            THEN 1 ELSE 0)
    /\ i \notin proofs
    /\ broker' = [broker EXCEPT ![i][b] = [status |-> "Live", filled |-> 0]]
    /\ UNCHANGED <<rows, job, ready, cooldown, failures, evidence, proofs,
                   mishaps, owed>>

(* A contract is filled, or what is left of the order is cancelled.        *)
BrokerMoves(i, b) ==
    /\ broker[i][b].status = "Live"
    /\ \/ /\ broker[i][b].filled < Quantity
          /\ LET n == broker[i][b].filled + 1 IN
             broker' = [broker EXCEPT ![i][b] =
                          [status |-> IF n = Quantity THEN "Filled"
                                                      ELSE "Live",
                           filled |-> n]]
       \/ broker' = [broker EXCEPT ![i][b].status = "Cancelled"]
    /\ UNCHANGED <<rows, job, ready, cooldown, failures, evidence, proofs,
                   mishaps, owed>>

-----------------------------------------------------------------------------
(* A broker check, of the worker or of the owner.                          *)

Check(kind, i) ==
    [kind |-> kind, intent |-> i, phase |-> "history", row |-> rows[i],
     snap |-> [NothingSeen EXCEPT !.complete = TRUE]]

(* Faulty variant: the cooldown is not looked at.                          *)
MayCheckAnytime(p) == job[p].kind = "idle"

(* The lock of the process and the cooldown of the account.                *)
MayCheck(p) == job[p].kind = "idle" /\ cooldown = 0

(* CertificationWorker.tick up to the read of a due row (of several the    *)
(* code takes the longest due).                                            *)
StartPoll(p, i) ==
    /\ MayCheck(p)
    /\ TakeLease(i, p)
    /\ job' = [job EXCEPT ![p] = Check("poll", i)]
    /\ UNCHANGED <<broker, ready, cooldown, failures, evidence, proofs,
                   mishaps, owed>>

(* Faulty variant: earlier evidence stays in force.                        *)
SupersededNever(i) == evidence

(* Every earlier evidence of the intent expires now.                       *)
Superseded(i) ==
    [e \in Reviews |-> IF evidence[e].intent = i
                       THEN [evidence[e] EXCEPT !.left = 0]
                       ELSE evidence[e]]

(* OwnerReview.refresh up to the read.                                     *)
StartRefresh(p, i) ==
    /\ MayCheck(p)
    /\ rows[i].state = "MANUAL_REVIEW"
    /\ evidence' = Superseded(i)
    /\ job' = [job EXCEPT ![p] = Check("refresh", i)]
    /\ UNCHANGED <<rows, broker, ready, cooldown, failures, proofs, mishaps,
                   owed>>

(* How an order of intent i may be listed at this instant.                 *)
Listings(i, b) ==
    {[id |-> b, status |-> broker[i][b].status,
      filled |-> broker[i][b].filled]}
    \cup IF "lag" \in Faults
         THEN {[id |-> b, status |-> "Live", filled |-> n] :
                 n \in 0..broker[i][b].filled} \ {[id |-> b,
                 status |-> "Live", filled |-> Quantity]}
         ELSE {}

(* A list of the orders of i: one listing of each, or of some of them.     *)
Lists(i) ==
    {items \in SUBSET UNION {Listings(i, b) : b \in Placed(i)} :
        /\ \A x, y \in items : x.id = y.id => x = y
        /\ "lag" \in Faults \/ \A b \in Placed(i) : \E x \in items : x.id = b}

See(p, items, next) ==
    \E sound \in {TRUE} \cup (IF "unsound" \in Faults THEN {FALSE} ELSE {}),
       complete \in {TRUE} \cup (IF "partial" \in Faults THEN {FALSE} ELSE {}) :
        job' = [job EXCEPT ![p].phase = next,
                           ![p].snap = [items |-> @.items \cup items,
                                        sound |-> @.sound /\ sound,
                                        complete |-> @.complete /\ complete]]

(* The paginated history, and today's orders.                              *)
ReadHistory(p) ==
    /\ job[p].phase = "history"
    /\ \E items \in Lists(job[p].intent) : See(p, items, "today")
    /\ UNCHANGED <<rows, broker, ready, cooldown, failures, evidence, proofs,
                   mishaps, owed>>

ReadToday(p) ==
    /\ job[p].phase = "today"
    /\ \E items \in Lists(job[p].intent) :
         See(p, items, IF job[p].row.brokerId # None THEN "direct"
                                                     ELSE "observed")
    /\ UNCHANGED <<rows, broker, ready, cooldown, failures, evidence, proofs,
                   mishaps, owed>>

(* The order the row is bound to, by its id, if the broker has it.         *)
ReadDirect(p) ==
    /\ job[p].phase = "direct"
    /\ job[p].row.brokerId \in Placed(job[p].intent)
    /\ \E x \in Listings(job[p].intent, job[p].row.brokerId) :
         job' = [job EXCEPT ![p].phase = "observed",
                            ![p].snap.items = @ \cup {x}]
    /\ UNCHANGED <<rows, broker, ready, cooldown, failures, evidence, proofs,
                   mishaps, owed>>

(* An HTTP error, a timeout or a body the reader cannot take apart.        *)
ReadFails(p) ==
    /\ "outage" \in Faults
    /\ job[p].phase \in Reading
    /\ job' = [job EXCEPT ![p].phase = "failed", ![p].snap = NothingSeen]
    /\ UNCHANGED <<rows, broker, ready, cooldown, failures, evidence, proofs,
                   mishaps, owed>>

Capped(n) == IF n < MaxFailures THEN n ELSE MaxFailures

(* Faulty variant: the count is not capped.                                *)
NextFailuresUncapped == failures + 1

NextFailures == Capped(failures + 1)

(* provider_failure: the count and the delay of the whole account, longer  *)
(* when the answer had a Retry-After.  A refresh ends here; a poll goes on *)
(* to store READ_UNAVAILABLE.                                              *)
ProviderFailure(p) ==
    /\ job[p].phase = "failed"
    /\ failures' = NextFailures
    /\ \E delay \in Capped(NextFailures)..MaxFailures :
         /\ cooldown' = IF delay > cooldown THEN delay ELSE cooldown
         /\ owed' = IF delay > owed THEN delay ELSE owed
    /\ job' = [job EXCEPT ![p] = IF @.kind = "poll"
                                 THEN [@ EXCEPT !.phase = "apply"]
                                 ELSE Idle]
    /\ UNCHANGED <<rows, broker, ready, evidence, proofs, mishaps>>

(* provider_success, when nothing was missing.                             *)
Observed(p) ==
    /\ job[p].phase = "observed"
    /\ job' = [job EXCEPT ![p].phase = "apply"]
    /\ IF job[p].snap.complete
       THEN cooldown' = 0 /\ failures' = 0 /\ owed' = 0
       ELSE UNCHANGED <<cooldown, failures, owed>>
    /\ UNCHANGED <<rows, broker, ready, evidence, proofs, mishaps>>

(* The second transaction of reconcile.                                    *)
StoreResult(p) ==
    /\ job[p].kind = "poll"
    /\ job[p].phase = "apply"
    /\ StoreRead(job[p].intent, p, job[p].row, job[p].snap)
    /\ job' = [job EXCEPT ![p] = Idle]
    /\ UNCHANGED <<broker, ready, cooldown, failures, evidence, proofs,
                   mishaps, owed>>

(* The second transaction of refresh: the row must be the one it read for. *)
StoreEvidence(p, e) ==
    /\ job[p].kind = "refresh"
    /\ job[p].phase = "apply"
    /\ evidence[e].intent = None
    /\ LET i == job[p].intent IN
       IF /\ rows[i].version = job[p].row.version
          /\ rows[i].state = "MANUAL_REVIEW"
       THEN evidence' = [evidence EXCEPT ![e] =
                           [intent |-> i, version |-> rows[i].version,
                            snap |-> job[p].snap, left |-> ReviewTTL,
                            used |-> FALSE]]
       ELSE UNCHANGED evidence
    /\ job' = [job EXCEPT ![p] = Idle]
    /\ UNCHANGED <<rows, broker, ready, cooldown, failures, proofs, mishaps,
                   owed>>

(* Storage is unavailable for the second transaction: nothing is written.  *)
ResultLost(p) ==
    /\ job[p].phase = "apply"
    /\ mishaps < MaxMishaps
    /\ mishaps' = mishaps + 1
    /\ job' = [job EXCEPT ![p] = Idle]
    /\ UNCHANGED <<rows, broker, ready, cooldown, failures, evidence, proofs,
                   owed>>

-----------------------------------------------------------------------------
(* The operator and the owner.                                             *)

(* register_guarded_test_proof.  The attestation is external: the model    *)
(* takes it to be true.                                                    *)
RegisterProof(i) ==
    /\ rows[i].state = "MANUAL_REVIEW"
    /\ rows[i].brokerId = None
    /\ rows[i].filled = 0
    /\ rows[i].attempt > 0
    /\ i \notin proofs
    /\ Placed(i) = {}
    /\ proofs' = proofs \cup {i}
    /\ UNCHANGED <<rows, broker, job, ready, cooldown, failures, evidence,
                   mishaps, owed>>

(* _options: what a snapshot lets the owner decide.                        *)
MayBind(row, snap) == Verdict(row, snap) = "BROKER_ORDER_MATCHED"

(* Faulty variant: an empty history is enough.                             *)
MayCloseUnproved(i, snap) ==
    /\ snap.complete
    /\ snap.items = {} /\ snap.sound
    /\ rows[i].brokerId = None

MayClose(i, snap) ==
    /\ snap.complete
    /\ snap.items = {} /\ snap.sound
    /\ i \in proofs
    /\ rows[i].brokerId = None
    /\ rows[i].filled = 0

(* The evidence a resolution accepts: fresh, unused, of this version.      *)
Supports(e, i) ==
    /\ evidence[e].intent = i
    /\ evidence[e].left > 0
    /\ evidence[e].version = rows[i].version
    /\ ~ evidence[e].used

(* resolve: keep the block, bind the order found, or close.                *)
Resolve(i, e) ==
    /\ rows[i].state = "MANUAL_REVIEW"
    /\ Supports(e, i)
    /\ LET snap == evidence[e].snap
           resolved(row) == [row EXCEPT !.version = @ + 1, !.nextRead = 0]
       IN  \/ /\ rows[i].version < MaxVersion
              /\ rows' = [rows EXCEPT ![i] = resolved(@)]
           \/ /\ MayBind(rows[i], snap)
              /\ rows' = [rows EXCEPT ![i] = resolved(Decide(@, snap))]
           \/ /\ MayClose(i, snap)
              /\ rows' = [rows EXCEPT ![i] = resolved(
                            [@ EXCEPT !.state = "RESOLVED_NO_SUBMISSION"])]
    /\ evidence' = [evidence EXCEPT ![e].used = TRUE]
    /\ UNCHANGED <<broker, job, ready, cooldown, failures, proofs, mishaps,
                   owed>>

-----------------------------------------------------------------------------
(* A process dies and starts again: its check is lost, recover_inflight    *)
(* runs.  When that fails the worker is started all the same.              *)
Restart(p) ==
    /\ mishaps < MaxMishaps
    /\ mishaps' = mishaps + 1
    /\ job' = [job EXCEPT ![p] = Idle]
    /\ \/ /\ recover_inflight
          /\ ready' = [ready EXCEPT ![p] = TRUE]
       \/ /\ "startup" \in Faults
          /\ ready' = [ready EXCEPT ![p] = FALSE]
          /\ UNCHANGED rows
    /\ UNCHANGED <<broker, cooldown, failures, evidence, proofs, owed>>

Tick ==
    /\ AgeRows
    /\ cooldown' = IF cooldown > 0 THEN cooldown - 1 ELSE 0
    /\ owed' = IF owed > 0 THEN owed - 1 ELSE 0
    /\ evidence' = [e \in Reviews |->
                      [evidence[e] EXCEPT !.left = IF @ > 0 THEN @ - 1
                                                            ELSE 0]]
    /\ UNCHANGED <<broker, job, ready, failures, proofs, mishaps>>

(* The steps of a check that has started.                                  *)
CheckStep(p) ==
    \/ ReadHistory(p) \/ ReadToday(p) \/ ReadDirect(p) \/ ReadFails(p)
    \/ ProviderFailure(p) \/ Observed(p) \/ StoreResult(p) \/ ResultLost(p)
    \/ \E e \in Reviews : StoreEvidence(p, e)

Next ==
    \/ \E i \in Intents :
         \/ Create(i) \/ BeginAttempt(i) \/ MarkUnknown(i)
         \/ RegisterProof(i)
         \/ \E b \in BrokerIds : BrokerAccepts(i, b) \/ BrokerMoves(i, b)
         \/ \E e \in Reviews : Resolve(i, e)
    \/ \E p \in Processes :
         \/ \E i \in Intents : StartPoll(p, i) \/ StartRefresh(p, i)
         \/ CheckStep(p)
         \/ Restart(p)
    \/ Tick

Spec == Init /\ [][Next]_vars

-----------------------------------------------------------------------------
(* Properties.                                                             *)

(* Without a transport that repeats requests, no intent ever has two       *)
(* orders at the broker: whatever is lost, late, retried or restarted, a   *)
(* second attempt is never reserved under the same receipt.                *)
OneOrderPerIntent ==
    "duplicate" \notin Faults =>
        \A i \in Intents : Cardinality(Placed(i)) <= 1

(* At most one intent of the account has an order at the broker that the   *)
(* ledger has not bound: "Uncertain account outcome blocks replacement     *)
(* intents", also when the order arrives after its outcome was given up.   *)
Unbound(i) == Placed(i) # {} /\ rows[i].brokerId = None

ExposureAccounted ==
    \A i, j \in Intents : Unbound(i) /\ Unbound(j) => i = j

(* A bound order exists at the broker and filled at least what the row     *)
(* says; a TERMINAL row says exactly how it ended.                         *)
BoundOrderIsReal ==
    \A i \in Intents : rows[i].brokerId # None =>
        LET order == broker[i][rows[i].brokerId] IN
        /\ order.status # "none"
        /\ rows[i].filled <= order.filled
        /\ rows[i].state = "TERMINAL" =>
              order.status \in Terminal /\ rows[i].filled = order.filled

(* "Empty broker history alone cannot authorize closure": a receipt that   *)
(* the owner closed has no order, however the broker's lists lagged.       *)
ClosedIsAbsent ==
    \A i \in Intents :
        rows[i].state = "RESOLVED_NO_SUBMISSION" => Placed(i) = {}

(* The owner can only decide on the newest broker check: one evidence at   *)
(* most supports a resolution, and none while the next check is running.   *)
NewestEvidenceDecides ==
    \A i \in Intents :
        /\ \A e, f \in Reviews : Supports(e, i) /\ Supports(f, i) => e = f
        /\ \A p \in Processes : (job[p].kind = "refresh" /\ job[p].intent = i)
              => \A e \in Reviews : ~ Supports(e, i)

(* No GET is made while the delay asked for by an earlier failure lasts,   *)
(* by worker or owner, before or after a restart.                          *)
CooldownRespected == owed > 0 => \A p \in Processes : job[p].phase \notin Reading

(* What the ledger promises: AttemptOutcome under this mapping.            *)
OutcomeOf(i) ==
    CASE rows[i].state = "absent" -> "absent"
      [] rows[i].state = "READY" -> "ready"
      [] rows[i].state \in {"SUBMITTING", "UNKNOWN"} -> "outstanding"
      [] rows[i].state = "MANUAL_REVIEW" -> "review"
      [] rows[i].state = "ACKNOWLEDGED" -> "known"
      [] OTHER -> "settled"

Promise == INSTANCE AttemptOutcome
    WITH outcome <- [i \in Intents |-> OutcomeOf(i)],
         exposure <- [i \in Intents |-> rows[i].filled]

(* Every step of the recovery is a step of AttemptOutcome or leaves it as  *)
(* it is: stale workers, lost results and restarts included.               *)
KeepsPromise == Promise!OutcomeSpec

-----------------------------------------------------------------------------
(* Liveness.  The event loop calls tick every five seconds and a call that *)
(* started runs to its end, so a process keeps taking its steps, and time  *)
(* passes.  Polling is strongly fair to each intent because tick takes the *)
(* row that has been due longest.                                          *)
Fairness ==
    /\ WF_vars(Tick)
    /\ \A p \in Processes :
         /\ WF_vars(CheckStep(p))
         /\ \A i \in Intents : SF_vars(StartPoll(p, i))

FairSpec == Spec /\ Fairness

(* No outcome stays unknown for ever: the broker's answer, or the limit on *)
(* reads, which hands the receipt to the owner.                            *)
UnknownIsResolved ==
    \A i \in Intents :
        rows[i].state = "UNKNOWN" ~> rows[i].state # "UNKNOWN"

-----------------------------------------------------------------------------
(* Inductive strengthenings, for the proofs.                               *)

(* A check that runs is about some intent.                                 *)
JobInv ==
    \A p \in Processes :
        /\ job[p].phase = "none" <=> job[p].kind = "idle"
        /\ job[p].kind # "idle" => job[p].intent \in Intents

(* As long as its lease and version stand, nobody has changed the row that *)
(* a poll started from.                                                    *)
LeaseStands(p) ==
    LET i == job[p].intent
        row == job[p].row
    IN  /\ row.version < rows[i].version
        /\ StillLeased(i, p, row) =>
              /\ rows[i].state = row.state
              /\ rows[i].filled = row.filled
              /\ rows[i].attempt = row.attempt
              /\ rows[i].brokerId = row.brokerId
              /\ row.state \in {"UNKNOWN", "ACKNOWLEDGED"}

LeaseInv == \A p \in Processes : job[p].kind = "poll" => LeaseStands(p)

(* A row has the attempt its state tells of, and one at most.              *)
AttemptInv ==
    \A i \in Intents :
        /\ rows[i].attempt <= 1
        /\ rows[i].state \in {"absent", "READY"} => rows[i].attempt = 0

(* Whether a row is bound to an order follows from its state, except for   *)
(* one in review; only a proved intent is closed without an order.         *)
BindingInv ==
    \A i \in Intents :
        /\ rows[i].state \notin {"ACKNOWLEDGED", "TERMINAL", "MANUAL_REVIEW"} =>
              rows[i].brokerId = None
        /\ rows[i].state \in {"ACKNOWLEDGED", "TERMINAL"} => rows[i].brokerId # None
        /\ rows[i].state = "RESOLVED_NO_SUBMISSION" => i \in proofs

(* One intent at most has an uncertain outcome and no order bound to it.   *)
UncertainInv ==
    \A i, j \in Intents :
        /\ rows[i].state \in UNCERTAIN /\ rows[i].brokerId = None
        /\ rows[j].state \in UNCERTAIN /\ rows[j].brokerId = None
        => i = j

(* Orders come from attempts, and none from an intent with a proof.        *)
PlacedInv ==
    \A i \in Intents :
        /\ IsFiniteSet(Placed(i))
        /\ Cardinality(Placed(i)) <=
              rows[i].attempt + (IF "duplicate" \in Faults /\ rows[i].attempt > 0
                                 THEN 1 ELSE 0)
        /\ i \in proofs => Placed(i) = {}

ExposureInv == AttemptInv /\ BindingInv /\ UncertainInv /\ PlacedInv

(* What was listed has happened: fills only grow, and an order that ended  *)
(* stays as it ended.                                                      *)
Shown(i, x) ==
    /\ broker[i][x.id].status # "none"
    /\ x.filled <= broker[i][x.id].filled
    /\ x.status \in Terminal =>
          broker[i][x.id] = [status |-> x.status, filled |-> x.filled]

Truthful(i, snap) == \A x \in snap.items : Shown(i, x)

SnapshotInv ==
    /\ \A p \in Processes : job[p].kind # "idle" => Truthful(job[p].intent, job[p].snap)
    /\ \A e \in Reviews : evidence[e].intent # None =>
                             Truthful(evidence[e].intent, evidence[e].snap)

(* The evidence in force is that of the newest check, and a running one    *)
(* has superseded it.                                                      *)
EvidenceInv ==
    /\ \A e, f \in Reviews :
          /\ evidence[e].intent = evidence[f].intent
          /\ evidence[e].left > 0 /\ evidence[f].left > 0
          => e = f
    /\ \A p \in Processes, e \in Reviews :
          job[p].kind = "refresh" /\ evidence[e].intent = job[p].intent =>
              evidence[e].left = 0

(* The cooldown covers what is owed, and a check that reads began after it. *)
CooldownInv ==
    /\ owed <= cooldown
    /\ \A p \in Processes : job[p].phase \in Reading => owed = 0

=============================================================================
