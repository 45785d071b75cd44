------------------------- MODULE ReconciliationLedger -------------------------
(***************************************************************************)
(* The durable ledger of order attempts, class Ledger of                   *)
(* staging_reconciliation.py: one row per intent of an account scope, and  *)
(* the SQLite transactions on it.  BEGIN IMMEDIATE makes every method, or  *)
(* each half of reconcile, one atomic step.  Nothing in the code relates   *)
(* rows of two scopes, so the rows here are those of one.                  *)
(*                                                                         *)
(* lease_until and next_read are kept as the ticks that remain of them.    *)
(***************************************************************************)
EXTENDS BrokerEvidence

CONSTANTS
    Intents,      \* the receipts, each created once under its own key
    Processes,    \* whoever calls reconcile: the holder of a lease
    LeaseTTL,     \* the 60 seconds of a lease, in ticks
    MaxBackoff,   \* the longest delay before the next read, in ticks
    MaxReads,     \* max_reads
    MaxVersion    \* no read is claimed at this version (a bound for TLC)

ASSUME LedgerAssumptions ==
    /\ LeaseTTL \in Nat \ {0}
    /\ MaxBackoff \in Nat \ {0}
    /\ MaxReads \in Nat \ {0}
    /\ MaxVersion \in Nat
    /\ None \notin Processes \cup Intents

VARIABLES rows    \* the table rehearsal_reconciliation

RowStates == {"absent", "READY", "SUBMITTING", "UNKNOWN", "ACKNOWLEDGED",
              "MANUAL_REVIEW", "TERMINAL", "RESOLVED_NO_SUBMISSION"}

UNCERTAIN == {"SUBMITTING", "UNKNOWN", "MANUAL_REVIEW"}

(* attempt counts the attempt ids a row was given; reads saturates at      *)
(* max_reads, all that is ever asked of it.                                *)
Rows == [state: RowStates, version: Nat, attempt: Nat,
         lease: Processes \cup {None}, leaseLeft: 0..LeaseTTL,
         reads: 0..MaxReads, nextRead: 0..MaxBackoff,
         brokerId: BrokerIds \cup {None}, filled: 0..Quantity]

NoRow == [state |-> "absent", version |-> 0, attempt |-> 0,
          lease |-> None, leaseLeft |-> 0, reads |-> 0, nextRead |-> 0,
          brokerId |-> None, filled |-> 0]

InitRows == rows = [i \in Intents |-> NoRow]

(* No other intent of the account has an uncertain outcome.                *)
AccountClear(i) ==
    \A j \in Intents \ {i} : rows[j].state \notin UNCERTAIN

-----------------------------------------------------------------------------
create(i) ==
    /\ rows[i].state = "absent"
    /\ AccountClear(i)
    /\ rows' = [rows EXCEPT ![i].state = "READY"]

(* Faulty variants: an attempt is repeated once its answer was lost; the   *)
(* account is not looked at.                                               *)
MayAttemptAgain(i) == rows[i].state \in {"READY", "UNKNOWN"} /\ AccountClear(i)
MayAttemptAnyway(i) == rows[i].state = "READY"

(* Only a READY row gets an attempt, and only in a clear account.          *)
MayAttempt(i) ==
    /\ rows[i].state = "READY"
    /\ AccountClear(i)

begin_attempt(i) ==
    /\ MayAttempt(i)
    /\ rows' = [rows EXCEPT ![i].state = "SUBMITTING",
                            ![i].attempt = @ + 1,
                            ![i].version = @ + 1]

(* The answer to the submission was lost or unclear.                       *)
mark_unknown(i) ==
    /\ rows[i].state = "SUBMITTING"
    /\ rows' = [rows EXCEPT ![i].state = "UNKNOWN",
                            ![i].version = @ + 1]

(* Startup: interrupted attempts become UNKNOWN, leases are dropped.       *)
recover_inflight ==
    rows' = [i \in Intents |->
               IF rows[i].state = "SUBMITTING" \/ rows[i].lease # None
               THEN [rows[i] EXCEPT
                        !.state = IF @ = "SUBMITTING" THEN "UNKNOWN" ELSE @,
                        !.lease = None, !.leaseLeft = 0, !.nextRead = 0,
                        !.version = @ + 1]
               ELSE rows[i]]

-----------------------------------------------------------------------------
(* reconcile, before and after its broker read.                            *)

Due(i) ==
    /\ rows[i].state \in {"UNKNOWN", "ACKNOWLEDGED"}
    /\ rows[i].nextRead = 0
    /\ rows[i].leaseLeft = 0

TakeLease(i, p) ==
    /\ Due(i)
    /\ rows[i].version < MaxVersion
    /\ rows' = [rows EXCEPT ![i].lease = p,
                            ![i].leaseLeft = LeaseTTL,
                            ![i].version = @ + 1]

(* Faulty variant: a result is stored whatever happened since.             *)
StillLeasedAnyway(i, p, row) == TRUE

(* The compare-and-set that admits a result: row is what the lease was     *)
(* taken on.                                                               *)
StillLeased(i, p, row) ==
    /\ rows[i].version = row.version + 1
    /\ rows[i].lease = p

(* Faulty variant: an UNKNOWN row is read for ever.                        *)
OutcomeUnlimited(row, snap) == Decide(row, snap)

(* The decision, and the limit on reads of an UNKNOWN row.                 *)
Outcome(row, snap) ==
    LET decided == Decide(row, snap)
        reads == IF row.reads < MaxReads THEN row.reads + 1 ELSE MaxReads
    IN  [decided EXCEPT
            !.reads = reads,
            !.state = IF @ = "UNKNOWN" /\ reads >= MaxReads
                      THEN "MANUAL_REVIEW" ELSE @]

StoreRead(i, p, row, snap) ==
    IF StillLeased(i, p, row)
    THEN \E delay \in 1..MaxBackoff :
           rows' = [rows EXCEPT ![i] =
                      [Outcome(row, snap) EXCEPT
                         !.lease = None, !.leaseLeft = 0,
                         !.nextRead = delay, !.version = row.version + 2]]
    ELSE UNCHANGED rows

-----------------------------------------------------------------------------
AgeRows ==
    rows' = [i \in Intents |->
               [rows[i] EXCEPT
                  !.leaseLeft = IF @ > 0 THEN @ - 1 ELSE 0,
                  !.nextRead = IF @ > 0 THEN @ - 1 ELSE 0]]

=============================================================================
