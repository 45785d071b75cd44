----------------------------- MODULE StopAudit -----------------------------
(***************************************************************************)
(* The stop audit of one closed trade (stop_audit_service): an owner       *)
(* enrols the trade, and pollers sample once a minute what it would be     *)
(* worth had it been kept.  An attempt is committed before the quotes are  *)
(* asked for; the answer of one minute may come after that of the next,    *)
(* or never.  Profits are small integers; quotes are good or not.          *)
(***************************************************************************)
EXTENDS Integers, FiniteSets

CONSTANTS Samplers,       \* pollers: overlapping checks, or two processes
          Enrollers,      \* enrolment requests
          Profits,        \* hypothetical_net_pnl of a valid sample
          TicksPerMinute,
          Expiry,         \* expires_at, in ticks
          LastTick        \* bound on the time shown

ASSUME StopAuditAssumption ==
    /\ Profits \subseteq Int /\ TicksPerMinute \in Nat \ {0}
    /\ Expiry \in Nat /\ LastTick \in Nat /\ Expiry <= LastTick

VARIABLES
    tick,       \* the time
    audit,      \* the stop_audits row
    samples,    \* stop_audit_samples, by minute
    sampler,    \* samples in progress
    enroller    \* enrolments in progress: when each began

auditVars == <<tick, audit, samples, sampler, enroller>>

Minute == tick \div TicksPerMinute
Minutes == 0..(LastTick \div TicksPerMinute)

NoSample == [status |-> "none", pnl |-> 0, at |-> -1]
Attempt == [NoSample EXCEPT !.status = "INTERRUPTED"]
IdleSampler == [pc |-> "idle", minute |-> 0, result |-> NoSample]
Unseen == [value |-> 0, at |-> -1]
NotEnrolled == [status |-> "none", since |-> 0, attempted |-> 0, valid |-> 0,
                best |-> Unseen, worst |-> Unseen, latest |-> Unseen,
                breakevenAt |-> -1, profitAt |-> -1]

StopAuditInit ==
    /\ tick = 0
    /\ audit = NotEnrolled
    /\ samples = [m \in Minutes |-> NoSample]
    /\ sampler = [s \in Samplers |-> IdleSampler]
    /\ enroller = [r \in Enrollers |-> -1]

-----------------------------------------------------------------------------
(* enroll_stop_audit: the stop-out is confirmed against the broker's two   *)
(* orders, which takes time; one row per trade, whoever commits first.     *)
BeginEnroll(r) ==
    /\ enroller[r] = -1 /\ audit.status = "none" /\ tick < Expiry
    /\ enroller' = [enroller EXCEPT ![r] = tick]
    /\ UNCHANGED <<tick, audit, samples, sampler>>

CommitEnroll(r) ==
    /\ enroller[r] # -1
    /\ audit' = IF audit.status = "none"
                THEN [NotEnrolled EXCEPT !.status = "TRACKING", !.since = enroller[r]] ELSE audit
    /\ enroller' = [enroller EXCEPT ![r] = -1]
    /\ UNCHANGED <<tick, samples, sampler>>

RefuseEnroll(r) ==
    /\ enroller[r] # -1
    /\ enroller' = [enroller EXCEPT ![r] = -1]
    /\ UNCHANGED <<tick, audit, samples, sampler>>

-----------------------------------------------------------------------------
(* sample_stop_audit.                                                      *)

At(s, pc) == sampler[s].pc = pc
Tracking == audit.status = "TRACKING"

AuditExpires(s) ==
    /\ At(s, "idle") /\ Tracking /\ tick >= Expiry
    /\ audit' = [audit EXCEPT !.status = "AWAITING_SETTLEMENT"]
    /\ UNCHANGED <<tick, samples, sampler, enroller>>

(* The unique (audit, minute) row: at most one attempt a minute.           *)
BeginSample(s) ==
    /\ At(s, "idle") /\ Tracking /\ tick < Expiry
    /\ samples[Minute].status = "none"
    /\ samples' = [samples EXCEPT ![Minute] = Attempt]
    /\ audit' = [audit EXCEPT !.attempted = @ + 1]
    /\ sampler' = [sampler EXCEPT ![s] = [IdleSampler EXCEPT !.pc = "asked", !.minute = Minute]]
    /\ UNCHANGED <<tick, enroller>>

(* evaluate_quotes at the time the answer came: a valid mark, or not.      *)
ReceiveQuotes(s) ==
    /\ At(s, "asked")
    /\ \E result \in {[status |-> "UNAVAILABLE", pnl |-> 0, at |-> tick]}
                     \cup {[status |-> "VALID", pnl |-> v, at |-> tick] : v \in Profits} :
          /\ result.status = "VALID" => tick < Expiry
          /\ sampler' = [sampler EXCEPT ![s] = [@ EXCEPT !.pc = "answered", !.result = result]]
    /\ UNCHANGED <<tick, audit, samples, enroller>>

Newer(old, new, better) == IF old.at = -1 \/ better THEN new ELSE old

(* Faulty variant: the first to be committed counts as the first.          *)
FirstCommitted(old, at) == IF old = -1 THEN at ELSE old
Sooner(old, at) == IF old = -1 \/ old > at THEN at ELSE old

Counted(a, r) ==
    LET mark == [value |-> r.pnl, at |-> r.at]
    IN  [a EXCEPT !.valid = @ + 1,
                  !.best = Newer(@, mark, @.value < r.pnl),
                  !.worst = Newer(@, mark, @.value > r.pnl),
                  !.latest = Newer(@, mark, @.at < r.at),
                  !.breakevenAt = IF r.pnl >= 0 THEN Sooner(@, r.at) ELSE @,
                  !.profitAt = IF r.pnl > 0 THEN Sooner(@, r.at) ELSE @]

CommitSample(s) ==
    LET r == sampler[s].result
        counted == IF r.status = "VALID" THEN Counted(audit, r) ELSE audit
    IN  /\ At(s, "answered")
        /\ samples' = [samples EXCEPT ![sampler[s].minute] = r]
        /\ audit' = IF r.at >= Expiry THEN [counted EXCEPT !.status = "AWAITING_SETTLEMENT"] ELSE counted
        /\ sampler' = [sampler EXCEPT ![s] = IdleSampler]
        /\ UNCHANGED <<tick, enroller>>

SamplerDies(s) ==
    /\ sampler[s].pc # "idle"
    /\ sampler' = [sampler EXCEPT ![s] = IdleSampler]
    /\ UNCHANGED <<tick, audit, samples, enroller>>

TimePasses ==
    /\ tick < LastTick
    /\ tick' = tick + 1
    /\ UNCHANGED <<audit, samples, sampler, enroller>>

StopAuditNext ==
    \/ \E r \in Enrollers : BeginEnroll(r) \/ CommitEnroll(r) \/ RefuseEnroll(r)
    \/ \E s \in Samplers : \/ AuditExpires(s) \/ BeginSample(s) \/ ReceiveQuotes(s)
                           \/ CommitSample(s) \/ SamplerDies(s)
    \/ TimePasses

StopAuditSpec == StopAuditInit /\ [][StopAuditNext]_auditVars

-----------------------------------------------------------------------------
Times == -1..LastTick
Marks == [value : Profits \cup {0}, at : Times]

(* What each variable holds.                                               *)
StopAuditTypeOK ==
    /\ tick \in 0..LastTick
    /\ audit \in [status : {"none", "TRACKING", "AWAITING_SETTLEMENT"}, since : 0..LastTick,
                  attempted : Nat, valid : Nat, best : Marks, worst : Marks, latest : Marks,
                  breakevenAt : Times, profitAt : Times]
    /\ samples \in [Minutes -> [status : {"none", "INTERRUPTED", "VALID", "UNAVAILABLE"},
                                pnl : Profits \cup {0}, at : Times]]
    /\ enroller \in [Enrollers -> Times]

ValidMinutes == {m \in Minutes : samples[m].status = "VALID"}
EarliestWhere(P(_)) ==
    LET times == {samples[m].at : m \in {n \in ValidMinutes : P(samples[n].pnl)}}
    IN  IF times = {} THEN -1 ELSE CHOOSE t \in times : \A u \in times : t <= u

(* The audit row says what its samples say, in whatever order the answers  *)
(* of overlapping minutes were committed and whichever never came: the     *)
(* counts, the extremes, the newest mark and the first break-even and      *)
(* profit ("overlapping different-minute samples must not lose             *)
(* counters/extrema or rewind the latest mark").                           *)
AuditSummarizesSamples ==
    /\ audit.attempted = Cardinality({m \in Minutes : samples[m].status # "none"})
    /\ audit.valid = Cardinality(ValidMinutes)
    /\ audit.breakevenAt = EarliestWhere(LAMBDA v : v >= 0)
    /\ audit.profitAt = EarliestWhere(LAMBDA v : v > 0)
    /\ ValidMinutes # {} =>
          /\ \A m \in ValidMinutes : /\ audit.worst.value <= samples[m].pnl
                                     /\ samples[m].pnl <= audit.best.value
                                     /\ samples[m].at <= audit.latest.at
          /\ \A mark \in {audit.best, audit.worst, audit.latest} :
                \E m \in ValidMinutes : samples[m].pnl = mark.value /\ samples[m].at = mark.at

-----------------------------------------------------------------------------
(* Inductive strengthenings, for the proofs.                               *)

Busy(s) == sampler[s].pc # "idle"

(* Each sampler has a minute to itself, and an answer that fits.           *)
SamplersApart ==
    /\ sampler \in [Samplers -> [pc : {"idle", "asked", "answered"}, minute : Minutes,
                                 result : [status : {"none", "INTERRUPTED", "VALID", "UNAVAILABLE"},
                                           pnl : Profits \cup {0}, at : Times]]]
    /\ \A s \in Samplers : Busy(s) => samples[sampler[s].minute].status = "INTERRUPTED"
    /\ \A s, o \in Samplers : Busy(s) /\ Busy(o) /\ sampler[s].minute = sampler[o].minute => s = o
    /\ \A s \in Samplers : At(s, "answered") =>
          sampler[s].result.status \in {"VALID", "UNAVAILABLE"} /\ sampler[s].result.at >= 0

(* An empty audit, and an audit whose samples are all invalid.             *)
AuditBegins ==
    /\ audit.status = "none" =>
          audit = NotEnrolled /\ \A m \in Minutes : samples[m].status = "none"
    /\ \A m \in ValidMinutes : samples[m].at >= 0
    /\ ValidMinutes = {} => \A mark \in {audit.best, audit.worst, audit.latest} : mark = Unseen

(* The first of some times, if there are any.                              *)
IsFirst(at, times) == IF times = {} THEN at = -1 ELSE at \in times /\ \A u \in times : at <= u
TimesAbove(least) == {samples[m].at : m \in {n \in ValidMinutes : samples[n].pnl >= least}}
FirstsKept ==
    IsFirst(audit.breakevenAt, TimesAbove(0)) /\ IsFirst(audit.profitAt, TimesAbove(1))

=============================================================================
