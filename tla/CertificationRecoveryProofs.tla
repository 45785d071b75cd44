--------------------- MODULE CertificationRecoveryProofs ---------------------
(***************************************************************************)
(* Proofs about CertificationRecovery, for any number of intents,          *)
(* processes, reviews and order ids: its variables keep their types, a     *)
(* poll's compare-and-set is sound, it implements AttemptOutcome, and the  *)
(* ledger accounts for every order at the broker.  With one process, the   *)
(* newest evidence decides and the cooldown is respected.                  *)
(***************************************************************************)
EXTENDS CertificationRecovery, FiniteSetTheorems, TLAPS

-----------------------------------------------------------------------------
(* What _decide can do to a row.                                           *)

LEMMA MatchedVerdict ==
    ASSUME NEW row, NEW snap, snap.complete \in BOOLEAN,
           Verdict(row, snap) = "BROKER_ORDER_MATCHED"
    PROVE  /\ snap.complete
           /\ ~ Conflicting(row, snap)
           /\ snap.items # {}
           /\ \A x \in snap.items : ~ (x.filled < row.filled)
BY DEF Verdict

LEMMA DecideCases ==
    ASSUME NEW row \in Rows, NEW snap \in Snapshots
    PROVE  \/ /\ Verdict(row, snap) # "BROKER_ORDER_MATCHED"
              /\ \/ Decide(row, snap) = row
                 \/ Decide(row, snap) = [row EXCEPT !.state =
                                                      "MANUAL_REVIEW"]
           \/ /\ Verdict(row, snap) = "BROKER_ORDER_MATCHED"
              /\ \E s \in {"TERMINAL", "ACKNOWLEDGED"}, x \in snap.items :
                   /\ s = "TERMINAL" <=> x.status \in Terminal
                   /\ Decide(row, snap) = [row EXCEPT !.state = s,
                                                      !.brokerId = x.id,
                                                      !.filled = x.filled]
                   /\ row.filled <= x.filled
                   /\ row.brokerId # None => x.id = row.brokerId
<1>1. snap.complete \in BOOLEAN /\ snap.items \subseteq Items
  BY DEF Snapshots
<1>2. CASE Verdict(row, snap) = "CONFLICTING_BROKER_EVIDENCE"
  BY <1>2 DEF Decide
<1>3. CASE Verdict(row, snap) = "BROKER_ORDER_MATCHED"
  <2>. DEFINE match == CHOOSE x \in snap.items : TRUE
  <2>1. /\ snap.items # {}
        /\ ~ Conflicting(row, snap)
        /\ \A x \in snap.items : ~ (x.filled < row.filled)
    BY <1>1, <1>3, MatchedVerdict
  <2>2. match \in snap.items
    BY <2>1
  <2>3. Decide(row, snap) = [row EXCEPT
                               !.state = IF match.status \in Terminal
                                         THEN "TERMINAL" ELSE "ACKNOWLEDGED",
                               !.brokerId = match.id,
                               !.filled = match.filled]
    BY <1>3 DEF Decide
  <2>4. row.filled <= match.filled
    <3>1. match.filled \in Nat /\ row.filled \in Nat
      BY <1>1, <2>2, EvidenceAssumptions DEF Items, Rows
    <3>. QED
      BY <3>1, <2>1, <2>2
  <2>5. row.brokerId # None => match.id = row.brokerId
    BY <2>1, <2>2 DEF Conflicting
  <2>. HIDE DEF match
  <2>6. CASE match.status \in Terminal
    BY <1>3, <2>2, <2>3, <2>4, <2>5, <2>6
  <2>7. CASE match.status \notin Terminal
    BY <1>3, <2>2, <2>3, <2>4, <2>5, <2>7
  <2>. QED
    BY <2>6, <2>7
<1>4. CASE Verdict(row, snap) \notin {"CONFLICTING_BROKER_EVIDENCE",
                                      "BROKER_ORDER_MATCHED"}
  BY <1>4 DEF Decide
<1>. QED
  BY <1>2, <1>3, <1>4

(* A decided row is a row; only state, order id and fill may have changed. *)
LEMMA DecideType ==
    ASSUME NEW row \in Rows, NEW snap \in Snapshots
    PROVE  /\ Decide(row, snap) \in Rows
           /\ Decide(row, snap).state \in
                 {row.state, "MANUAL_REVIEW", "TERMINAL", "ACKNOWLEDGED"}
           /\ Decide(row, snap).attempt = row.attempt
           /\ Decide(row, snap).version = row.version
           /\ row.filled <= Decide(row, snap).filled
           /\ Decide(row, snap).state \in {row.state, "MANUAL_REVIEW"} =>
                 \/ Decide(row, snap).filled = row.filled
                 \/ Verdict(row, snap) = "BROKER_ORDER_MATCHED"
<1>1. row.filled \in Nat /\ row.filled <= row.filled
  BY EvidenceAssumptions DEF Rows
<1>2. CASE Decide(row, snap) = row
  BY <1>1, <1>2
<1>3. CASE Decide(row, snap) = [row EXCEPT !.state = "MANUAL_REVIEW"]
  BY <1>1, <1>3 DEF Rows, RowStates
<1>4. ASSUME NEW s \in {"TERMINAL", "ACKNOWLEDGED"}, NEW x \in snap.items,
             Verdict(row, snap) = "BROKER_ORDER_MATCHED",
             Decide(row, snap) = [row EXCEPT !.state = s,
                                             !.brokerId = x.id,
                                             !.filled = x.filled],
             row.filled <= x.filled
      PROVE  /\ Decide(row, snap) \in Rows
             /\ Decide(row, snap).state = s
             /\ Decide(row, snap).attempt = row.attempt
             /\ Decide(row, snap).version = row.version
             /\ row.filled <= Decide(row, snap).filled
  <2>1. x.id \in BrokerIds /\ x.filled \in 0..Quantity
    BY DEF Snapshots, Items
  <2>. QED
    BY <1>4, <2>1 DEF Rows, RowStates
<1>. QED
  BY <1>2, <1>3, <1>4, DecideCases

(* Where the state, the order id and the fill of a decided row come from.  *)
LEMMA DecideFields ==
    ASSUME NEW row \in Rows, NEW snap \in Snapshots
    PROVE  LET d == Decide(row, snap) IN
           \/ /\ Verdict(row, snap) # "BROKER_ORDER_MATCHED"
              /\ d.state \in {row.state, "MANUAL_REVIEW"}
              /\ d.filled = row.filled /\ d.brokerId = row.brokerId
           \/ /\ Verdict(row, snap) = "BROKER_ORDER_MATCHED"
              /\ d.state \in {"ACKNOWLEDGED", "TERMINAL"}
              /\ \E x \in snap.items :
                   /\ d.state = "TERMINAL" <=> x.status \in Terminal
                   /\ d.filled = x.filled /\ d.brokerId = x.id
<1>. DEFINE d == Decide(row, snap)
<1>1. CASE Verdict(row, snap) # "BROKER_ORDER_MATCHED"
  <2>1. d = row \/ d = [row EXCEPT !.state = "MANUAL_REVIEW"]
    BY <1>1, DecideCases
  <2>. HIDE DEF d
  <2>2. /\ d.state \in {row.state, "MANUAL_REVIEW"}
        /\ d.filled = row.filled /\ d.brokerId = row.brokerId
    BY <2>1 DEF Rows
  <2>. QED
    BY <1>1, <2>2 DEF d
<1>2. CASE Verdict(row, snap) = "BROKER_ORDER_MATCHED"
  <2>0. \E s \in {"TERMINAL", "ACKNOWLEDGED"}, x \in snap.items :
          /\ s = "TERMINAL" <=> x.status \in Terminal
          /\ Decide(row, snap) = [row EXCEPT !.state = s,
                                             !.brokerId = x.id,
                                             !.filled = x.filled]
          /\ row.filled <= x.filled
          /\ row.brokerId # None => x.id = row.brokerId
    BY <1>2, DecideCases
  <2>1. PICK s \in {"TERMINAL", "ACKNOWLEDGED"}, x \in snap.items :
          /\ s = "TERMINAL" <=> x.status \in Terminal
          /\ d = [row EXCEPT !.state = s, !.brokerId = x.id, !.filled = x.filled]
    BY <2>0
  <2>. HIDE DEF d
  <2>2. d.state = s /\ d.filled = x.filled /\ d.brokerId = x.id
    BY <2>1 DEF Rows
  <2>3. /\ d.state \in {"ACKNOWLEDGED", "TERMINAL"}
        /\ d.state = "TERMINAL" <=> x.status \in Terminal
    BY <2>1, <2>2
  <2>. QED
    BY <1>2, <2>2, <2>3 DEF d
<1>. QED
  BY <1>1, <1>2

-----------------------------------------------------------------------------
(* The ledger's transactions, each as a change of one row.                 *)

LEMMA SetRow ==
    ASSUME rows \in [Intents -> Rows], NEW i \in Intents, NEW r \in Rows,
           rows' = [rows EXCEPT ![i] = r]
    PROVE  /\ rows' \in [Intents -> Rows]
           /\ rows'[i] = r
           /\ \A j \in Intents \ {i} : rows'[j] = rows[j]
OBVIOUS

LEMMA CreateRow ==
    ASSUME rows \in [Intents -> Rows], NEW i \in Intents, create(i)
    PROVE  \E r \in Rows :
             /\ rows' = [rows EXCEPT ![i] = r]
             /\ rows[i].state = "absent" /\ r.state = "READY"
             /\ r.version = rows[i].version /\ r.filled = rows[i].filled
             /\ r.lease = rows[i].lease
             /\ r.attempt = rows[i].attempt /\ r.brokerId = rows[i].brokerId
<1>. DEFINE r == [rows[i] EXCEPT !.state = "READY"]
<1>1. rows[i] \in Rows
  OBVIOUS
<1>2. r \in Rows /\ r.state = "READY" /\ r.version = rows[i].version
        /\ r.filled = rows[i].filled /\ r.lease = rows[i].lease
        /\ r.attempt = rows[i].attempt /\ r.brokerId = rows[i].brokerId
  BY <1>1 DEF Rows, RowStates
<1>3. rows' = [rows EXCEPT ![i] = r] /\ rows[i].state = "absent"
  BY DEF create
<1>. QED
  BY <1>2, <1>3

LEMMA BeginRow ==
    ASSUME rows \in [Intents -> Rows], NEW i \in Intents, begin_attempt(i)
    PROVE  \E r \in Rows :
             /\ rows' = [rows EXCEPT ![i] = r]
             /\ rows[i].state = "READY" /\ r.state = "SUBMITTING"
             /\ r.version = rows[i].version + 1 /\ r.filled = rows[i].filled
             /\ r.attempt = rows[i].attempt + 1 /\ r.brokerId = rows[i].brokerId
<1>. DEFINE r == [rows[i] EXCEPT !.state = "SUBMITTING",
                                 !.attempt = rows[i].attempt + 1,
                                 !.version = rows[i].version + 1]
<1>1. rows[i] \in Rows
  OBVIOUS
<1>1a. rows[i].version + 1 \in Nat /\ rows[i].attempt + 1 \in Nat
  BY <1>1, LedgerAssumptions DEF Rows
<1>2. r \in Rows /\ r.state = "SUBMITTING"
        /\ r.version = rows[i].version + 1 /\ r.filled = rows[i].filled
        /\ r.attempt = rows[i].attempt + 1 /\ r.brokerId = rows[i].brokerId
  BY <1>1, <1>1a DEF Rows, RowStates
<1>3. rows' = [rows EXCEPT ![i] = r] /\ rows[i].state = "READY"
  BY DEF begin_attempt, MayAttempt
<1>. QED
  BY <1>2, <1>3

LEMMA MarkRow ==
    ASSUME rows \in [Intents -> Rows], NEW i \in Intents, mark_unknown(i)
    PROVE  \E r \in Rows :
             /\ rows' = [rows EXCEPT ![i] = r]
             /\ rows[i].state = "SUBMITTING" /\ r.state = "UNKNOWN"
             /\ r.version = rows[i].version + 1 /\ r.filled = rows[i].filled
             /\ r.attempt = rows[i].attempt /\ r.brokerId = rows[i].brokerId
<1>. DEFINE r == [rows[i] EXCEPT !.state = "UNKNOWN",
                                 !.version = rows[i].version + 1]
<1>1. rows[i] \in Rows
  OBVIOUS
<1>1a. rows[i].version + 1 \in Nat
  BY <1>1, LedgerAssumptions DEF Rows
<1>2. r \in Rows /\ r.state = "UNKNOWN"
        /\ r.version = rows[i].version + 1 /\ r.filled = rows[i].filled
        /\ r.attempt = rows[i].attempt /\ r.brokerId = rows[i].brokerId
  BY <1>1, <1>1a DEF Rows, RowStates
<1>3. rows' = [rows EXCEPT ![i] = r] /\ rows[i].state = "SUBMITTING"
  BY DEF mark_unknown
<1>. QED
  BY <1>2, <1>3

LEMMA LeaseRow ==
    ASSUME rows \in [Intents -> Rows], NEW i \in Intents,
           NEW p \in Processes, TakeLease(i, p)
    PROVE  \E r \in Rows :
             /\ rows' = [rows EXCEPT ![i] = r]
             /\ r.state = rows[i].state /\ r.lease = p
             /\ r.version = rows[i].version + 1 /\ r.filled = rows[i].filled
             /\ r.attempt = rows[i].attempt /\ r.brokerId = rows[i].brokerId
             /\ rows[i].state \in {"UNKNOWN", "ACKNOWLEDGED"}
<1>. DEFINE r == [rows[i] EXCEPT !.lease = p, !.leaseLeft = LeaseTTL,
                                 !.version = rows[i].version + 1]
<1>1. rows[i] \in Rows
  OBVIOUS
<1>1a. rows[i].version + 1 \in Nat /\ LeaseTTL \in 0..LeaseTTL
  BY <1>1, LedgerAssumptions DEF Rows
<1>2. /\ r \in Rows /\ r.state = rows[i].state
      /\ r.lease = p
      /\ r.version = rows[i].version + 1 /\ r.filled = rows[i].filled
      /\ r.attempt = rows[i].attempt /\ r.brokerId = rows[i].brokerId
  BY <1>1, <1>1a DEF Rows
<1>3. /\ rows' = [rows EXCEPT ![i] = r]
      /\ rows[i].state \in {"UNKNOWN", "ACKNOWLEDGED"}
  BY DEF TakeLease, Due
<1>. QED
  BY <1>2, <1>3

LEMMA StoreRow ==
    ASSUME rows \in [Intents -> Rows], NEW i \in Intents,
           NEW p \in Processes, NEW row \in Rows, NEW snap \in Snapshots,
           StoreRead(i, p, row, snap)
    PROVE  \/ UNCHANGED rows
           \/ /\ StillLeased(i, p, row)
              /\ \E r \in Rows :
                   /\ rows' = [rows EXCEPT ![i] = r]
                   /\ r.version = rows[i].version + 1
                   /\ r.attempt = row.attempt
                   /\ row.filled <= r.filled
                   /\ \/ /\ r.state \in {row.state, "MANUAL_REVIEW"}
                         /\ r.filled = row.filled /\ r.brokerId = row.brokerId
                      \/ /\ r.state \in {"ACKNOWLEDGED", "TERMINAL"}
                         /\ \E x \in snap.items :
                              /\ r.state = "TERMINAL" <=> x.status \in Terminal
                              /\ r.filled = x.filled /\ r.brokerId = x.id
<1>1. CASE ~ StillLeased(i, p, row)
  BY <1>1 DEF StoreRead
<1>2. CASE StillLeased(i, p, row)
  <2>1. PICK delay \in 1..MaxBackoff :
          rows' = [rows EXCEPT ![i] =
                     [Outcome(row, snap) EXCEPT
                        !.lease = None, !.leaseLeft = 0,
                        !.nextRead = delay, !.version = row.version + 2]]
    BY <1>2 DEF StoreRead
  <2>. DEFINE d == Decide(row, snap)
              n == IF row.reads < MaxReads THEN row.reads + 1 ELSE MaxReads
              s == IF d.state = "UNKNOWN" /\ n >= MaxReads
                   THEN "MANUAL_REVIEW" ELSE d.state
              o == [d EXCEPT !.reads = n, !.state = s]
              r == [o EXCEPT !.lease = None, !.leaseLeft = 0,
                             !.nextRead = delay,
                             !.version = row.version + 2]
  <2>2. Outcome(row, snap) = o
    <3>1. d \in Rows
      BY DecideType
    <3>. QED
      BY <3>1 DEF Outcome, Rows
  <2>3. n \in 0..MaxReads
    BY LedgerAssumptions DEF Rows
  <2>4. d \in Rows /\ s \in RowStates
    BY DecideType DEF Rows, RowStates
  <2>5. /\ o \in Rows /\ o.state = s /\ o.filled = d.filled
        /\ o.attempt = d.attempt /\ o.brokerId = d.brokerId
    BY <2>3, <2>4 DEF Rows
  <2>6. /\ r \in Rows /\ r.state = s /\ r.filled = d.filled
        /\ r.attempt = d.attempt /\ r.brokerId = d.brokerId
        /\ r.version = row.version + 2
    <3>1. /\ None \in Processes \cup {None} /\ 0 \in 0..LeaseTTL
          /\ delay \in 0..MaxBackoff /\ row.version + 2 \in Nat
      BY LedgerAssumptions DEF Rows
    <3>. HIDE DEF o, d, s
    <3>. QED
      BY <2>5, <3>1 DEF Rows
  <2>7. rows' = [rows EXCEPT ![i] = r]
    BY <2>1, <2>2
  <2>8. row.version + 2 = rows[i].version + 1
    BY <1>2 DEF StillLeased, Rows
  <2>9. row.filled <= d.filled /\ d.attempt = row.attempt
    BY DecideType
  <2>10. \/ /\ d.state \in {row.state, "MANUAL_REVIEW"}
            /\ d.filled = row.filled /\ d.brokerId = row.brokerId
         \/ /\ d.state \in {"ACKNOWLEDGED", "TERMINAL"}
            /\ \E x \in snap.items : /\ d.state = "TERMINAL" <=> x.status \in Terminal
                                     /\ d.filled = x.filled /\ d.brokerId = x.id
    BY DecideFields
  <2>. HIDE DEF d, n, o, r
  <2>11. s = d.state \/ (s = "MANUAL_REVIEW" /\ d.state = "UNKNOWN")
    OBVIOUS
  <2>. HIDE DEF s
  <2>12. \/ /\ s \in {row.state, "MANUAL_REVIEW"}
            /\ d.filled = row.filled /\ d.brokerId = row.brokerId
         \/ /\ s \in {"ACKNOWLEDGED", "TERMINAL"}
            /\ \E x \in snap.items : /\ s = "TERMINAL" <=> x.status \in Terminal
                                     /\ d.filled = x.filled /\ d.brokerId = x.id
    BY <2>10, <2>11
  <2>. QED
    BY <1>2, <2>6, <2>7, <2>8, <2>9, <2>12
<1>. QED
  BY <1>1, <1>2

LEMMA RecoverRows ==
    ASSUME rows \in [Intents -> Rows], recover_inflight
    PROVE  /\ rows' \in [Intents -> Rows]
           /\ \A i \in Intents :
                \/ rows'[i] = rows[i] /\ rows[i].lease = None
                \/ /\ rows'[i].version = rows[i].version + 1
                   /\ rows'[i].filled = rows[i].filled
                   /\ rows'[i].attempt = rows[i].attempt
                   /\ rows'[i].brokerId = rows[i].brokerId
                   /\ rows'[i].state = IF rows[i].state = "SUBMITTING"
                                       THEN "UNKNOWN" ELSE rows[i].state
<1>1. ASSUME NEW i \in Intents
      PROVE  /\ rows'[i] \in Rows
             /\ \/ rows'[i] = rows[i] /\ rows[i].lease = None
                \/ /\ rows'[i].version = rows[i].version + 1
                   /\ rows'[i].filled = rows[i].filled
                   /\ rows'[i].attempt = rows[i].attempt
                   /\ rows'[i].brokerId = rows[i].brokerId
                   /\ rows'[i].state = IF rows[i].state = "SUBMITTING"
                                       THEN "UNKNOWN" ELSE rows[i].state
  <2>1. rows[i] \in Rows
    OBVIOUS
  <2>2. CASE rows[i].state = "SUBMITTING" \/ rows[i].lease # None
    <3>. DEFINE s == IF rows[i].state = "SUBMITTING" THEN "UNKNOWN"
                                                    ELSE rows[i].state
    <3>1. rows'[i] = [rows[i] EXCEPT
                        !.state = s,
                        !.lease = None, !.leaseLeft = 0, !.nextRead = 0,
                        !.version = rows[i].version + 1]
      BY <2>2 DEF recover_inflight
    <3>2. /\ s \in RowStates /\ 0 \in 0..LeaseTTL /\ 0 \in 0..MaxBackoff
          /\ rows[i].version + 1 \in Nat
      BY <2>1, LedgerAssumptions DEF Rows, RowStates
    <3>. HIDE DEF s
    <3>3. /\ rows'[i] \in Rows /\ rows'[i].state = s
          /\ rows'[i].version = rows[i].version + 1
          /\ rows'[i].filled = rows[i].filled
          /\ rows'[i].attempt = rows[i].attempt
          /\ rows'[i].brokerId = rows[i].brokerId
      BY <2>1, <3>1, <3>2 DEF Rows
    <3>. QED
      BY <3>3 DEF s
  <2>3. CASE ~ (rows[i].state = "SUBMITTING" \/ rows[i].lease # None)
    BY <2>1, <2>3 DEF recover_inflight
  <2>. QED
    BY <2>2, <2>3
<1>2. rows' = [i \in Intents |-> rows'[i]]
  BY DEF recover_inflight
<1>. QED
  BY <1>1, <1>2

LEMMA AgedRows ==
    ASSUME rows \in [Intents -> Rows], AgeRows
    PROVE  /\ rows' \in [Intents -> Rows]
           /\ \A i \in Intents :
                /\ rows'[i].state = rows[i].state
                /\ rows'[i].version = rows[i].version
                /\ rows'[i].lease = rows[i].lease
                /\ rows'[i].attempt = rows[i].attempt
                /\ rows'[i].brokerId = rows[i].brokerId
                /\ rows'[i].filled = rows[i].filled
<1>1. ASSUME NEW i \in Intents
      PROVE  /\ rows'[i] \in Rows
             /\ rows'[i].state = rows[i].state
             /\ rows'[i].version = rows[i].version
             /\ rows'[i].lease = rows[i].lease
             /\ rows'[i].attempt = rows[i].attempt
             /\ rows'[i].brokerId = rows[i].brokerId
             /\ rows'[i].filled = rows[i].filled
  <2>1. rows[i] \in Rows
    OBVIOUS
  <2>. DEFINE l == IF rows[i].leaseLeft > 0 THEN rows[i].leaseLeft - 1 ELSE 0
              n == IF rows[i].nextRead > 0 THEN rows[i].nextRead - 1 ELSE 0
  <2>2. rows'[i] = [rows[i] EXCEPT !.leaseLeft = l, !.nextRead = n]
    BY DEF AgeRows
  <2>3. l \in 0..LeaseTTL /\ n \in 0..MaxBackoff
    BY <2>1, LedgerAssumptions DEF Rows
  <2>. HIDE DEF l, n
  <2>. QED
    BY <2>1, <2>2, <2>3 DEF Rows
<1>2. rows' = [i \in Intents |-> rows'[i]]
  BY DEF AgeRows
<1>. QED
  BY <1>1, <1>2

LEMMA ResolveRow ==
    ASSUME TypeOK, NEW i \in Intents, NEW e \in Reviews, Resolve(i, e)
    PROVE  /\ rows[i].state = "MANUAL_REVIEW"
           /\ \E r \in Rows :
                /\ rows' = [rows EXCEPT ![i] = r]
                /\ r.version = rows[i].version + 1
                /\ r.attempt = rows[i].attempt
                /\ rows[i].filled <= r.filled
                /\ \/ /\ r.state = "MANUAL_REVIEW" /\ r.filled = rows[i].filled
                      /\ r.brokerId = rows[i].brokerId
                   \/ /\ r.state \in {"ACKNOWLEDGED", "TERMINAL"}
                      /\ \E x \in evidence[e].snap.items :
                           /\ r.state = "TERMINAL" <=> x.status \in Terminal
                           /\ r.filled = x.filled /\ r.brokerId = x.id
                   \/ /\ r.state = "RESOLVED_NO_SUBMISSION" /\ i \in proofs
                      /\ rows[i].filled = 0 /\ r.filled = 0
                      /\ rows[i].brokerId = None /\ r.brokerId = None
<1>. DEFINE snap == evidence[e].snap
            resolved(row) == [row EXCEPT !.version = row.version + 1,
                                         !.nextRead = 0]
<1>1. rows[i] \in Rows /\ snap \in Snapshots
  BY DEF TypeOK, EvidenceRecords
<1>2. ASSUME NEW row \in Rows
      PROVE  /\ resolved(row) \in Rows
             /\ resolved(row).version = row.version + 1
             /\ resolved(row).state = row.state
             /\ resolved(row).filled = row.filled
             /\ resolved(row).attempt = row.attempt
             /\ resolved(row).brokerId = row.brokerId
  <2>1. row.version + 1 \in Nat /\ 0 \in 0..MaxBackoff
    BY LedgerAssumptions DEF Rows
  <2>. QED
    BY <2>1 DEF Rows
<1>3. /\ rows[i].state = "MANUAL_REVIEW"
      /\ \/ rows' = [rows EXCEPT ![i] = resolved(rows[i])]
         \/ /\ MayBind(rows[i], snap)
            /\ rows' = [rows EXCEPT ![i] = resolved(Decide(rows[i], snap))]
         \/ /\ MayClose(i, snap)
            /\ rows' = [rows EXCEPT ![i] = resolved(
                 [rows[i] EXCEPT !.state = "RESOLVED_NO_SUBMISSION"])]
  BY DEF Resolve
<1>4. rows[i].filled \in Nat
  BY <1>1, EvidenceAssumptions DEF Rows
<1>. HIDE DEF resolved, snap
<1>5. CASE rows' = [rows EXCEPT ![i] = resolved(rows[i])]
  <2>. DEFINE r == resolved(rows[i])
  <2>1. /\ r \in Rows /\ r.version = rows[i].version + 1
        /\ r.state = "MANUAL_REVIEW" /\ r.filled = rows[i].filled
        /\ r.attempt = rows[i].attempt /\ r.brokerId = rows[i].brokerId
        /\ rows[i].filled <= r.filled
    BY <1>1, <1>2, <1>3, <1>4
  <2>2. rows' = [rows EXCEPT ![i] = r]
    BY <1>5
  <2>. HIDE DEF r
  <2>. QED
    BY <1>3, <2>1, <2>2
<1>6. CASE /\ MayBind(rows[i], snap)
           /\ rows' = [rows EXCEPT ![i] = resolved(Decide(rows[i], snap))]
  <2>. DEFINE d == Decide(rows[i], snap)
  <2>1. Verdict(rows[i], snap) = "BROKER_ORDER_MATCHED"
    BY <1>6 DEF MayBind
  <2>2. /\ d \in Rows /\ d.version = rows[i].version /\ rows[i].filled <= d.filled
        /\ d.attempt = rows[i].attempt
    BY <1>1, DecideType
  <2>3. /\ d.state \in {"ACKNOWLEDGED", "TERMINAL"}
        /\ \E x \in snap.items : /\ d.state = "TERMINAL" <=> x.status \in Terminal
                                 /\ d.filled = x.filled /\ d.brokerId = x.id
    BY <1>1, <2>1, DecideFields
  <2>. HIDE DEF d
  <2>4. rows' = [rows EXCEPT ![i] = resolved(d)]
    BY <1>6 DEF d
  <2>5. /\ resolved(d) \in Rows /\ resolved(d).version = rows[i].version + 1
        /\ resolved(d).state = d.state /\ resolved(d).filled = d.filled
        /\ resolved(d).attempt = rows[i].attempt /\ resolved(d).brokerId = d.brokerId
    BY <1>2, <2>2
  <2>. QED
    BY <1>3, <2>2, <2>3, <2>4, <2>5 DEF snap
<1>7. CASE /\ MayClose(i, snap)
           /\ rows' = [rows EXCEPT ![i] = resolved(
                [rows[i] EXCEPT !.state = "RESOLVED_NO_SUBMISSION"])]
  <2>. DEFINE d == [rows[i] EXCEPT !.state = "RESOLVED_NO_SUBMISSION"]
  <2>1. /\ d \in Rows /\ d.version = rows[i].version
        /\ d.filled = rows[i].filled /\ d.state = "RESOLVED_NO_SUBMISSION"
        /\ d.attempt = rows[i].attempt /\ d.brokerId = rows[i].brokerId
    BY <1>1 DEF Rows, RowStates
  <2>2. rows[i].filled = 0 /\ i \in proofs /\ rows[i].brokerId = None
    BY <1>7 DEF MayClose
  <2>. HIDE DEF d
  <2>3. rows' = [rows EXCEPT ![i] = resolved(d)]
    BY <1>7 DEF d
  <2>4. /\ resolved(d) \in Rows
        /\ resolved(d).version = rows[i].version + 1
        /\ resolved(d).state = "RESOLVED_NO_SUBMISSION"
        /\ resolved(d).filled = 0
        /\ resolved(d).attempt = rows[i].attempt /\ resolved(d).brokerId = None
    BY <1>2, <2>1, <2>2
  <2>5. rows[i].filled <= resolved(d).filled
    BY <2>2, <2>4
  <2>. QED
    BY <1>3, <2>2, <2>3, <2>4, <2>5
<1>. QED
  BY <1>3, <1>5, <1>6, <1>7

-----------------------------------------------------------------------------
(* Type correctness.                                                       *)

LEMMA ListingsType ==
    ASSUME TypeOK, NEW i \in Intents, NEW b \in Placed(i)
    PROVE  Listings(i, b) \subseteq Items
<1>1. b \in BrokerIds /\ broker[i][b].status # "none"
  BY DEF Placed
<1>2. broker[i][b] \in OrderStates
  BY <1>1 DEF TypeOK
<1>3. broker[i][b].status \in Statuses /\ broker[i][b].filled \in 0..Quantity
  BY <1>1, <1>2 DEF OrderStates
<1>4. [id |-> b, status |-> broker[i][b].status,
       filled |-> broker[i][b].filled] \in Items
  BY <1>1, <1>3 DEF Items
<1>5. \A n \in 0..broker[i][b].filled :
        [id |-> b, status |-> "Live", filled |-> n] \in Items
  <2>1. \A n \in 0..broker[i][b].filled : n \in 0..Quantity
    BY <1>3, EvidenceAssumptions
  <2>. QED
    BY <1>1, <2>1 DEF Items, Statuses
<1>. QED
  BY <1>4, <1>5 DEF Listings

LEMMA ListsType ==
    ASSUME TypeOK, NEW i \in Intents, NEW items \in Lists(i)
    PROVE  items \subseteq Items
<1>1. items \subseteq UNION {Listings(i, b) : b \in Placed(i)}
  BY DEF Lists
<1>. QED
  BY <1>1, ListingsType

LEMMA SetJob ==
    ASSUME job \in [Processes -> Jobs], JobInv,
           NEW p \in Processes, NEW j \in Jobs,
           j.phase = "none" <=> j.kind = "idle",
           j.kind # "idle" => j.intent \in Intents,
           job' = [job EXCEPT ![p] = j]
    PROVE  job' \in [Processes -> Jobs] /\ JobInv'
BY DEF JobInv

LEMMA ConstantTypes ==
    /\ NoRow \in Rows
    /\ NothingSeen \in Snapshots
    /\ Idle \in Jobs /\ Idle.phase = "none" /\ Idle.kind = "idle"
    /\ NoEvidence \in EvidenceRecords
<1>1. /\ 0 \in 0..LeaseTTL /\ 0 \in 0..MaxReads /\ 0 \in 0..MaxBackoff
      /\ 0 \in 0..Quantity /\ 0 \in 0..ReviewTTL
  BY LedgerAssumptions, EvidenceAssumptions, RecoveryAssumptions
<1>2. NoRow \in Rows
  BY <1>1 DEF NoRow, Rows, RowStates
<1>3. NothingSeen \in Snapshots
  BY DEF NothingSeen, Snapshots
<1>4. Idle \in Jobs /\ Idle.phase = "none" /\ Idle.kind = "idle"
  BY <1>2, <1>3 DEF Idle, Jobs, Phases, Reading
<1>5. NoEvidence \in EvidenceRecords
  BY <1>1, <1>3 DEF NoEvidence, EvidenceRecords
<1>. QED
  BY <1>2, <1>3, <1>4, <1>5

LEMMA IdleJob ==
    ASSUME job \in [Processes -> Jobs], JobInv, NEW p \in Processes,
           job' = [job EXCEPT ![p] = Idle]
    PROVE  job' \in [Processes -> Jobs] /\ JobInv'
BY SetJob, ConstantTypes

(* A check moves to another phase, with another snapshot.                  *)
LEMMA PhaseJob ==
    ASSUME job \in [Processes -> Jobs], JobInv, NEW p \in Processes,
           job[p].phase # "none",
           NEW next \in Phases \ {"none"}, NEW snap \in Snapshots,
           job' = [job EXCEPT ![p] = [job[p] EXCEPT !.phase = next,
                                                   !.snap = snap]]
    PROVE  job' \in [Processes -> Jobs] /\ JobInv'
<1>. DEFINE j == [job[p] EXCEPT !.phase = next, !.snap = snap]
<1>1. job[p] \in Jobs
  OBVIOUS
<1>2. j \in Jobs /\ j.phase = next /\ j.kind = job[p].kind
        /\ j.intent = job[p].intent
  BY <1>1 DEF Jobs
<1>3. job[p].kind # "idle" /\ job[p].intent \in Intents
  BY DEF JobInv
<1>. HIDE DEF j
<1>4. job' = [job EXCEPT ![p] = j]
  BY DEF j
<1>. QED
  BY <1>2, <1>3, <1>4, SetJob

LEMMA SeeJob ==
    ASSUME TypeOK, JobInv, NEW p \in Processes, job[p].phase # "none",
           NEW items \in Lists(job[p].intent), NEW next \in Phases \ {"none"},
           See(p, items, next)
    PROVE  job' \in [Processes -> Jobs] /\ JobInv'
<1>1. job \in [Processes -> Jobs] /\ job[p].snap \in Snapshots
  BY DEF TypeOK, Jobs
<1>2. job[p].intent \in Intents
  BY DEF JobInv
<1>3. items \subseteq Items
  BY <1>2, ListsType
<1>4. PICK sound \in BOOLEAN, complete \in BOOLEAN :
        job' = [job EXCEPT ![p].phase = next,
                           ![p].snap = [items |-> @.items \cup items,
                                        sound |-> @.sound /\ sound,
                                        complete |-> @.complete /\ complete]]
  BY DEF See
<1>. DEFINE snap == [items |-> job[p].snap.items \cup items,
                     sound |-> job[p].snap.sound /\ sound,
                     complete |-> job[p].snap.complete /\ complete]
<1>5. snap \in Snapshots
  BY <1>1, <1>3 DEF Snapshots
<1>6. job' = [job EXCEPT ![p] = [job[p] EXCEPT !.phase = next,
                                              !.snap = snap]]
  BY <1>1, <1>4
<1>. HIDE DEF snap
<1>. QED
  BY <1>1, <1>5, <1>6, PhaseJob

LEMMA BrokerType ==
    ASSUME broker \in [Intents -> [BrokerIds -> OrderStates]],
           NEW i \in Intents, NEW b \in BrokerIds,
           BrokerAccepts(i, b) \/ BrokerMoves(i, b)
    PROVE  broker' \in [Intents -> [BrokerIds -> OrderStates]]
<1>. DEFINE o == broker[i][b]
<1>1. o \in OrderStates /\ o.filled \in 0..Quantity
  BY DEF OrderStates
<1>2. ASSUME NEW s \in Statuses, NEW n \in 0..Quantity
      PROVE  /\ [status |-> s, filled |-> n] \in OrderStates
             /\ [o EXCEPT !.status = s] \in OrderStates
  BY <1>1 DEF OrderStates
<1>3. ASSUME NEW x \in OrderStates,
             broker' = [broker EXCEPT ![i] = [broker[i] EXCEPT ![b] = x]]
      PROVE  broker' \in [Intents -> [BrokerIds -> OrderStates]]
  BY <1>3
<1>4. CASE BrokerAccepts(i, b)
  <2>. DEFINE x == [status |-> "Live", filled |-> 0]
  <2>1. broker' = [broker EXCEPT ![i] = [broker[i] EXCEPT ![b] = x]]
    BY <1>4 DEF BrokerAccepts
  <2>2. x \in OrderStates
    BY EvidenceAssumptions DEF OrderStates, Statuses
  <2>. HIDE DEF x
  <2>. QED
    BY <1>3, <2>1, <2>2
<1>5. CASE BrokerMoves(i, b)
  <2>. DEFINE n == o.filled + 1
              x == [status |-> IF n = Quantity THEN "Filled" ELSE "Live",
                    filled |-> n]
              y == [o EXCEPT !.status = "Cancelled"]
  <2>1. \/ /\ o.filled < Quantity
           /\ broker' = [broker EXCEPT ![i] = [broker[i] EXCEPT ![b] = x]]
        \/ broker' = [broker EXCEPT ![i] = [broker[i] EXCEPT ![b] = y]]
    BY <1>5 DEF BrokerMoves
  <2>2. y \in OrderStates
    BY <1>1, <1>2 DEF Statuses
  <2>3. o.filled < Quantity => x \in OrderStates
    <3>1. o.filled < Quantity => n \in 0..Quantity
      BY <1>1, EvidenceAssumptions
    <3>. QED
      BY <3>1 DEF OrderStates, Statuses
  <2>. HIDE DEF x, y, o
  <2>. QED
    BY <1>3, <2>1, <2>2, <2>3
<1>. QED
  BY <1>4, <1>5

(* The harness, the broker and the owner leave the running checks alone.   *)
LEMMA TypeStepIntent ==
    ASSUME TypeOK, JobInv, NEW i \in Intents,
           \/ Create(i) \/ BeginAttempt(i) \/ MarkUnknown(i)
           \/ RegisterProof(i)
           \/ \E b \in BrokerIds : BrokerAccepts(i, b) \/ BrokerMoves(i, b)
           \/ \E e \in Reviews : Resolve(i, e)
    PROVE  TypeOK' /\ JobInv'
<1>t. /\ rows \in [Intents -> Rows]
      /\ broker \in [Intents -> [BrokerIds -> OrderStates]]
      /\ evidence \in [Reviews -> EvidenceRecords]
  BY DEF TypeOK
<1>0. ASSUME job' = job PROVE JobInv'
  BY <1>0 DEF JobInv
<1>1. CASE Create(i)
  <2>1. rows' \in [Intents -> Rows]
    BY <1>1, <1>t, CreateRow, SetRow DEF Create
  <2>. QED
    BY <1>0, <1>1, <2>1 DEF Create, TypeOK
<1>2. CASE BeginAttempt(i)
  <2>1. rows' \in [Intents -> Rows]
    BY <1>2, <1>t, BeginRow, SetRow DEF BeginAttempt
  <2>. QED
    BY <1>0, <1>2, <2>1 DEF BeginAttempt, TypeOK
<1>3. CASE MarkUnknown(i)
  <2>1. rows' \in [Intents -> Rows]
    BY <1>3, <1>t, MarkRow, SetRow DEF MarkUnknown
  <2>. QED
    BY <1>0, <1>3, <2>1 DEF MarkUnknown, TypeOK
<1>4. CASE RegisterProof(i)
  BY <1>0, <1>4 DEF RegisterProof, TypeOK
<1>5. ASSUME NEW b \in BrokerIds, BrokerAccepts(i, b) \/ BrokerMoves(i, b)
      PROVE  TypeOK' /\ JobInv'
  <2>1. broker' \in [Intents -> [BrokerIds -> OrderStates]]
    BY <1>5, <1>t, BrokerType
  <2>. QED
    BY <1>0, <1>5, <2>1 DEF BrokerAccepts, BrokerMoves, TypeOK
<1>6. ASSUME NEW e \in Reviews, Resolve(i, e)
      PROVE  TypeOK' /\ JobInv'
  <2>1. rows' \in [Intents -> Rows]
    BY <1>6, <1>t, ResolveRow, SetRow
  <2>2. evidence' \in [Reviews -> EvidenceRecords]
    <3>1. evidence' = [evidence EXCEPT ![e] = [evidence[e] EXCEPT
                                                 !.used = TRUE]]
      BY <1>6 DEF Resolve
    <3>2. [evidence[e] EXCEPT !.used = TRUE] \in EvidenceRecords
      BY <1>t DEF EvidenceRecords
    <3>. QED
      BY <1>t, <3>1, <3>2
  <2>. QED
    BY <1>0, <1>6, <2>1, <2>2 DEF Resolve, TypeOK
<1>. QED
  BY <1>1, <1>2, <1>3, <1>4, <1>5, <1>6

LEMMA TypeStepStart ==
    ASSUME TypeOK, JobInv, NEW p \in Processes, NEW i \in Intents,
           StartPoll(p, i) \/ StartRefresh(p, i)
    PROVE  TypeOK' /\ JobInv'
<1>t. /\ rows \in [Intents -> Rows]
      /\ job \in [Processes -> Jobs]
      /\ evidence \in [Reviews -> EvidenceRecords]
  BY DEF TypeOK
<1>1. ASSUME NEW kind \in {"poll", "refresh"},
             job' = [job EXCEPT ![p] = Check(kind, i)]
      PROVE  job' \in [Processes -> Jobs] /\ JobInv'
  <2>. DEFINE snap == [NothingSeen EXCEPT !.complete = TRUE]
              j == Check(kind, i)
  <2>1. snap \in Snapshots
    BY DEF NothingSeen, Snapshots
  <2>2. j = [kind |-> kind, intent |-> i, phase |-> "history",
             row |-> rows[i], snap |-> snap]
    BY DEF Check
  <2>. HIDE DEF snap, j
  <2>3. /\ j \in Jobs /\ j.phase = "history" /\ j.kind = kind
        /\ j.intent = i
    BY <1>t, <2>1, <2>2 DEF Jobs, Phases, Reading
  <2>4. job' = [job EXCEPT ![p] = j]
    BY <1>1 DEF j
  <2>. QED
    BY <1>t, <2>3, <2>4, SetJob
<1>2. CASE StartPoll(p, i)
  <2>1. rows' \in [Intents -> Rows]
    BY <1>2, <1>t, LeaseRow, SetRow DEF StartPoll
  <2>2. job' \in [Processes -> Jobs] /\ JobInv'
    BY <1>1, <1>2 DEF StartPoll
  <2>. QED
    BY <1>2, <2>1, <2>2 DEF StartPoll, TypeOK
<1>3. CASE StartRefresh(p, i)
  <2>1. evidence' \in [Reviews -> EvidenceRecords]
    <3>1. \A e \in Reviews : [evidence[e] EXCEPT !.left = 0]
                                \in EvidenceRecords
      BY <1>t, RecoveryAssumptions DEF EvidenceRecords
    <3>2. \A e \in Reviews : evidence[e] \in EvidenceRecords
      BY <1>t
    <3>. QED
      BY <1>3, <3>1, <3>2 DEF StartRefresh, Superseded
  <2>2. job' \in [Processes -> Jobs] /\ JobInv'
    BY <1>1, <1>3 DEF StartRefresh
  <2>. QED
    BY <1>3, <2>1, <2>2 DEF StartRefresh, TypeOK
<1>. QED
  BY <1>2, <1>3

(* The reads of a check and how they end.                                  *)
LEMMA TypeStepRead ==
    ASSUME TypeOK, JobInv, NEW p \in Processes,
           \/ ReadHistory(p) \/ ReadToday(p) \/ ReadDirect(p)
           \/ ReadFails(p) \/ Observed(p)
    PROVE  TypeOK' /\ JobInv'
<1>t. job \in [Processes -> Jobs] /\ job[p] \in Jobs
  BY DEF TypeOK
<1>s. job[p].snap \in Snapshots
  BY <1>t DEF Jobs
<1>1. CASE ReadHistory(p)
  <2>1. PICK items \in Lists(job[p].intent) : See(p, items, "today")
    BY <1>1 DEF ReadHistory
  <2>2. job[p].phase # "none" /\ "today" \in Phases \ {"none"}
    BY <1>1 DEF ReadHistory, Phases, Reading
  <2>3. job' \in [Processes -> Jobs] /\ JobInv'
    BY <2>1, <2>2, SeeJob
  <2>. QED
    BY <1>1, <2>3 DEF ReadHistory, TypeOK
<1>2. CASE ReadToday(p)
  <2>. DEFINE next == IF job[p].row.brokerId # None THEN "direct"
                                                   ELSE "observed"
  <2>1. PICK items \in Lists(job[p].intent) : See(p, items, next)
    BY <1>2 DEF ReadToday
  <2>2. job[p].phase # "none" /\ next \in Phases \ {"none"}
    BY <1>2 DEF ReadToday, Phases, Reading
  <2>. HIDE DEF next
  <2>3. job' \in [Processes -> Jobs] /\ JobInv'
    BY <2>1, <2>2, SeeJob
  <2>. QED
    BY <1>2, <2>3 DEF ReadToday, TypeOK
<1>3. CASE ReadDirect(p)
  <2>1. /\ job[p].phase = "direct"
        /\ job[p].row.brokerId \in Placed(job[p].intent)
    BY <1>3 DEF ReadDirect
  <2>2. job[p].intent \in Intents
    BY <1>3, <2>1 DEF JobInv
  <2>3. ASSUME NEW x \in Listings(job[p].intent, job[p].row.brokerId),
               job' = [job EXCEPT ![p].phase = "observed",
                                  ![p].snap.items = @ \cup {x}]
        PROVE  job' \in [Processes -> Jobs] /\ JobInv'
    <3>. DEFINE snap == [job[p].snap EXCEPT
                           !.items = job[p].snap.items \cup {x}]
    <3>1. x \in Items
      BY <2>1, <2>2, ListingsType
    <3>2. snap \in Snapshots
      BY <1>s, <3>1 DEF Snapshots
    <3>3. job' = [job EXCEPT ![p] = [job[p] EXCEPT !.phase = "observed",
                                                   !.snap = snap]]
      BY <1>t, <2>3
    <3>. HIDE DEF snap
    <3>4. "observed" \in Phases \ {"none"} /\ job[p].phase # "none"
      BY <2>1 DEF Phases
    <3>. QED
      BY <1>t, <3>2, <3>3, <3>4, PhaseJob
  <2>4. job' \in [Processes -> Jobs] /\ JobInv'
    BY <1>3, <2>3 DEF ReadDirect
  <2>. QED
    BY <1>3, <2>4 DEF ReadDirect, TypeOK
<1>4. CASE ReadFails(p)
  <2>1. job[p].phase # "none" /\ "failed" \in Phases \ {"none"}
    BY <1>4 DEF ReadFails, Phases, Reading
  <2>2. job' = [job EXCEPT ![p] = [job[p] EXCEPT !.phase = "failed",
                                                 !.snap = NothingSeen]]
    BY <1>t, <1>4 DEF ReadFails
  <2>3. job' \in [Processes -> Jobs] /\ JobInv'
    BY <1>t, <2>1, <2>2, ConstantTypes, PhaseJob
  <2>. QED
    BY <1>4, <2>3 DEF ReadFails, TypeOK
<1>5. CASE Observed(p)
  <2>1. job[p].phase # "none" /\ "apply" \in Phases \ {"none"}
    BY <1>5 DEF Observed, Phases
  <2>2. job' = [job EXCEPT ![p] = [job[p] EXCEPT !.phase = "apply",
                                                 !.snap = job[p].snap]]
    BY <1>t, <1>5 DEF Observed, Jobs
  <2>3. job' \in [Processes -> Jobs] /\ JobInv'
    BY <1>t, <1>s, <2>1, <2>2, PhaseJob
  <2>4. cooldown' \in 0..MaxFailures /\ failures' \in 0..MaxFailures
          /\ owed' \in 0..MaxFailures
    BY <1>5, RecoveryAssumptions DEF Observed, TypeOK
  <2>. QED
    BY <1>5, <2>3, <2>4 DEF Observed, TypeOK
<1>. QED
  BY <1>1, <1>2, <1>3, <1>4, <1>5

(* What a check writes at its end.                                         *)
LEMMA TypeStepWrite ==
    ASSUME TypeOK, JobInv, NEW p \in Processes,
           \/ ProviderFailure(p) \/ StoreResult(p) \/ ResultLost(p)
           \/ \E e \in Reviews : StoreEvidence(p, e)
    PROVE  TypeOK' /\ JobInv'
<1>t. job \in [Processes -> Jobs] /\ job[p] \in Jobs
        /\ rows \in [Intents -> Rows]
  BY DEF TypeOK
<1>s. job[p].snap \in Snapshots /\ job[p].row \in Rows
  BY <1>t DEF Jobs
<1>1. CASE ProviderFailure(p)
  <2>1. job' \in [Processes -> Jobs] /\ JobInv'
    <3>1. CASE job[p].kind = "poll"
      <4>1. job' = [job EXCEPT ![p] = [job[p] EXCEPT !.phase = "apply",
                                                     !.snap = job[p].snap]]
        BY <1>t, <1>1, <3>1 DEF ProviderFailure, Jobs
      <4>2. job[p].phase # "none" /\ "apply" \in Phases \ {"none"}
        BY <1>1 DEF ProviderFailure, Phases
      <4>. QED
        BY <1>t, <1>s, <4>1, <4>2, PhaseJob
    <3>2. CASE job[p].kind # "poll"
      <4>1. job' = [job EXCEPT ![p] = Idle]
        BY <1>t, <1>1, <3>2 DEF ProviderFailure
      <4>. QED
        BY <1>t, <4>1, IdleJob
    <3>. QED
      BY <3>1, <3>2
  <2>2. failures' \in 0..MaxFailures /\ cooldown' \in 0..MaxFailures
          /\ owed' \in 0..MaxFailures
    BY <1>1, RecoveryAssumptions
    DEF ProviderFailure, NextFailures, Capped, TypeOK
  <2>. QED
    BY <1>1, <2>1, <2>2 DEF ProviderFailure, TypeOK
<1>2. CASE StoreResult(p)
  <2>1. job[p].intent \in Intents
    BY <1>2 DEF StoreResult, JobInv
  <2>2. StoreRead(job[p].intent, p, job[p].row, job[p].snap)
    BY <1>2 DEF StoreResult
  <2>3. rows' \in [Intents -> Rows]
    BY <1>t, <1>s, <2>1, <2>2, StoreRow, SetRow
  <2>4. job' \in [Processes -> Jobs] /\ JobInv'
    BY <1>t, <1>2, IdleJob DEF StoreResult
  <2>. QED
    BY <1>2, <2>3, <2>4 DEF StoreResult, TypeOK
<1>3. CASE ResultLost(p)
  <2>1. job' \in [Processes -> Jobs] /\ JobInv'
    BY <1>t, <1>3, IdleJob DEF ResultLost
  <2>2. mishaps' \in 0..MaxMishaps
    BY <1>3, RecoveryAssumptions DEF ResultLost, TypeOK
  <2>. QED
    BY <1>3, <2>1, <2>2 DEF ResultLost, TypeOK
<1>4. ASSUME NEW e \in Reviews, StoreEvidence(p, e)
      PROVE  TypeOK' /\ JobInv'
  <2>1. job' \in [Processes -> Jobs] /\ JobInv'
    BY <1>t, <1>4, IdleJob DEF StoreEvidence
  <2>2. evidence' \in [Reviews -> EvidenceRecords]
    <3>. DEFINE i == job[p].intent
                x == [intent |-> i, version |-> rows[i].version,
                      snap |-> job[p].snap, left |-> ReviewTTL,
                      used |-> FALSE]
    <3>1. i \in Intents
      BY <1>4 DEF StoreEvidence, JobInv
    <3>2. rows[i].version \in Nat
      BY <1>t, <3>1 DEF Rows
    <3>3. x \in EvidenceRecords
      BY <1>s, <3>1, <3>2, RecoveryAssumptions DEF EvidenceRecords
    <3>4. evidence' = evidence \/ evidence' = [evidence EXCEPT ![e] = x]
      BY <1>4 DEF StoreEvidence
    <3>. HIDE DEF x
    <3>. QED
      BY <3>3, <3>4 DEF TypeOK
  <2>. QED
    BY <1>4, <2>1, <2>2 DEF StoreEvidence, TypeOK
<1>. QED
  BY <1>1, <1>2, <1>3, <1>4

LEMMA TypeStepRestart ==
    ASSUME TypeOK, JobInv, NEW p \in Processes, Restart(p)
    PROVE  TypeOK' /\ JobInv'
<1>t. job \in [Processes -> Jobs] /\ rows \in [Intents -> Rows]
  BY DEF TypeOK
<1>1. job' \in [Processes -> Jobs] /\ JobInv'
  BY <1>t, IdleJob DEF Restart
<1>2. rows' \in [Intents -> Rows]
  BY <1>t, RecoverRows DEF Restart
<1>3. mishaps' \in 0..MaxMishaps
  BY RecoveryAssumptions DEF Restart, TypeOK
<1>4. ready' \in [Processes -> BOOLEAN]
  <2>1. ready \in [Processes -> BOOLEAN]
    BY DEF TypeOK
  <2>2. \/ ready' = [ready EXCEPT ![p] = TRUE]
        \/ ready' = [ready EXCEPT ![p] = FALSE]
    BY DEF Restart
  <2>. QED
    BY <2>1, <2>2
<1>. QED
  BY <1>1, <1>2, <1>3, <1>4 DEF Restart, TypeOK

LEMMA TypeStepTick ==
    ASSUME TypeOK, JobInv, Tick
    PROVE  TypeOK' /\ JobInv'
<1>1. rows' \in [Intents -> Rows]
  BY AgedRows DEF Tick, TypeOK
<1>2. cooldown' \in 0..MaxFailures /\ owed' \in 0..MaxFailures
  BY RecoveryAssumptions DEF Tick, TypeOK
<1>3. evidence' \in [Reviews -> EvidenceRecords]
  <2>1. ASSUME NEW e \in Reviews
        PROVE  [evidence[e] EXCEPT
                  !.left = IF evidence[e].left > 0
                           THEN evidence[e].left - 1 ELSE 0]
                 \in EvidenceRecords
    <3>1. evidence[e] \in EvidenceRecords
      BY DEF TypeOK
    <3>2. (IF evidence[e].left > 0 THEN evidence[e].left - 1 ELSE 0)
             \in 0..ReviewTTL
      BY <3>1, RecoveryAssumptions DEF EvidenceRecords
    <3>. QED
      BY <3>1, <3>2 DEF EvidenceRecords
  <2>. QED
    BY <2>1 DEF Tick
<1>4. JobInv'
  BY DEF Tick, JobInv
<1>. QED
  BY <1>1, <1>2, <1>3, <1>4 DEF Tick, TypeOK

LEMMA TypeStep ==
    ASSUME TypeOK, JobInv, [Next]_vars
    PROVE  TypeOK' /\ JobInv'
<1>1. CASE UNCHANGED vars
  BY <1>1 DEF vars, TypeOK, JobInv
<1>2. CASE Next
  BY <1>2, TypeStepIntent, TypeStepStart, TypeStepRead, TypeStepWrite,
     TypeStepRestart, TypeStepTick
  DEF Next, CheckStep
<1>. QED
  BY <1>1, <1>2

LEMMA TypeInit ==
    ASSUME Init
    PROVE  TypeOK /\ JobInv
<1>1. /\ 0 \in 0..MaxFailures /\ 0 \in 0..MaxMishaps
      /\ NoOrder \in OrderStates
  BY RecoveryAssumptions, EvidenceAssumptions DEF NoOrder, OrderStates
<1>2. TypeOK
  BY <1>1, ConstantTypes DEF Init, InitRows, TypeOK
<1>3. JobInv
  BY ConstantTypes DEF Init, JobInv
<1>. QED
  BY <1>2, <1>3

(* Every variable of the recovery keeps its type, and a running check is   *)
(* about an intent of the account.                                         *)
THEOREM TypeCorrect == Spec => [](TypeOK /\ JobInv)
<1>1. Init => TypeOK /\ JobInv
  BY TypeInit
<1>2. (TypeOK /\ JobInv) /\ [Next]_vars => (TypeOK /\ JobInv)'
  BY TypeStep
<1>. QED
  BY <1>1, <1>2, PTL DEF Spec

-----------------------------------------------------------------------------
(* The lease: what a poll stores still is about the row it started from.   *)

(* A change of a row that a lease could be on shows in its version.        *)
Newer(i) == rows'[i].version = rows[i].version + 1

Same(i) == /\ rows'[i].version = rows[i].version
           /\ rows'[i].lease = rows[i].lease
           /\ rows'[i].filled = rows[i].filled
           /\ rows'[i].attempt = rows[i].attempt
           /\ rows'[i].brokerId = rows[i].brokerId
           /\ rows[i].state # "absent" => rows'[i].state = rows[i].state

LEMMA RowSteps ==
    ASSUME TypeOK, JobInv, Next, NEW k \in Intents
    PROVE  Newer(k) \/ Same(k)
<1>t. /\ rows \in [Intents -> Rows]
      /\ job \in [Processes -> Jobs]
  BY DEF TypeOK
<1>0. ASSUME rows' = rows PROVE Same(k)
  BY <1>0 DEF Same
<1>1. ASSUME NEW i \in Intents, NEW r \in Rows,
             rows' = [rows EXCEPT ![i] = r],
             \/ r.version = rows[i].version + 1
             \/ /\ r.version = rows[i].version /\ r.lease = rows[i].lease
                /\ r.filled = rows[i].filled /\ rows[i].state = "absent"
                /\ r.attempt = rows[i].attempt /\ r.brokerId = rows[i].brokerId
      PROVE  Newer(k) \/ Same(k)
  <2>1. rows'[i] = r /\ \A j \in Intents \ {i} : rows'[j] = rows[j]
    BY <1>t, <1>1
  <2>. QED
    BY <1>1, <2>1 DEF Newer, Same
<1>2. ASSUME NEW i \in Intents, Create(i) PROVE Newer(k) \/ Same(k)
  BY <1>t, <1>1, <1>2, CreateRow DEF Create
<1>3. ASSUME NEW i \in Intents, BeginAttempt(i) PROVE Newer(k) \/ Same(k)
  BY <1>t, <1>1, <1>3, BeginRow DEF BeginAttempt
<1>4. ASSUME NEW i \in Intents, MarkUnknown(i) PROVE Newer(k) \/ Same(k)
  BY <1>t, <1>1, <1>4, MarkRow DEF MarkUnknown
<1>5. ASSUME NEW i \in Intents, NEW e \in Reviews, Resolve(i, e)
      PROVE  Newer(k) \/ Same(k)
  BY <1>1, <1>5, ResolveRow
<1>6. ASSUME NEW i \in Intents, NEW p \in Processes, StartPoll(p, i)
      PROVE  Newer(k) \/ Same(k)
  BY <1>t, <1>1, <1>6, LeaseRow DEF StartPoll
<1>7. ASSUME NEW p \in Processes, StoreResult(p)
      PROVE  Newer(k) \/ Same(k)
  <2>1. /\ StoreRead(job[p].intent, p, job[p].row, job[p].snap)
        /\ job[p].intent \in Intents
    BY <1>7 DEF StoreResult, JobInv
  <2>2. job[p].row \in Rows /\ job[p].snap \in Snapshots
    BY <1>t DEF Jobs
  <2>. QED
    BY <1>t, <1>0, <1>1, <2>1, <2>2, StoreRow
<1>8. ASSUME NEW p \in Processes, Restart(p)
      PROVE  Newer(k) \/ Same(k)
  BY <1>t, <1>0, <1>8, RecoverRows DEF Restart, Newer, Same
<1>9. CASE Tick
  BY <1>t, <1>9, AgedRows DEF Tick, Same
<1>10. ASSUME NEW i \in Intents,
              \/ RegisterProof(i)
              \/ \E b \in BrokerIds : BrokerAccepts(i, b) \/ BrokerMoves(i, b)
              \/ \E p \in Processes : StartRefresh(p, i)
       PROVE  rows' = rows
  BY <1>10 DEF RegisterProof, BrokerAccepts, BrokerMoves, StartRefresh
<1>11. ASSUME NEW p \in Processes,
              \/ ReadHistory(p) \/ ReadToday(p) \/ ReadDirect(p)
              \/ ReadFails(p) \/ ProviderFailure(p) \/ Observed(p)
              \/ ResultLost(p)
              \/ \E e \in Reviews : StoreEvidence(p, e)
       PROVE  rows' = rows
  BY <1>11 DEF ReadHistory, ReadToday, ReadDirect, ReadFails,
               ProviderFailure, Observed, ResultLost, StoreEvidence
<1>. QED
  BY <1>0, <1>2, <1>3, <1>4, <1>5, <1>6, <1>7, <1>8, <1>9, <1>10, <1>11
  DEF Next, CheckStep

(* The checks of the processes that a step does not concern are untouched; *)
(* a step of a process starts a poll, ends its check or takes it further.  *)
LEMMA JobSteps ==
    ASSUME TypeOK, JobInv, Next, NEW q \in Processes
    PROVE  \/ \E i \in Intents : StartPoll(q, i)
           \/ job'[q].kind # "poll"
           \/ /\ job'[q].kind = job[q].kind
              /\ job'[q].intent = job[q].intent
              /\ job'[q].row = job[q].row
<1>. DEFINE Kept == /\ job'[q].kind = job[q].kind
                    /\ job'[q].intent = job[q].intent
                    /\ job'[q].row = job[q].row
<1>t. job \in [Processes -> Jobs]
  BY DEF TypeOK
<1>1. ASSUME NEW p \in Processes, NEW j, job' = [job EXCEPT ![p] = j],
             \/ j.kind # "poll"
             \/ j.kind = job[p].kind /\ j.intent = job[p].intent
                /\ j.row = job[p].row
      PROVE  job'[q].kind # "poll" \/ Kept
  BY <1>t, <1>1
<1>2. ASSUME NEW p \in Processes, job' = [job EXCEPT ![p] = Idle]
      PROVE  job'[q].kind # "poll" \/ Kept
  BY <1>1, <1>2, ConstantTypes
<1>3. ASSUME NEW p \in Processes, NEW next, NEW snap,
             job' = [job EXCEPT ![p] = [job[p] EXCEPT !.phase = next,
                                                     !.snap = snap]]
      PROVE  job'[q].kind # "poll" \/ Kept
  <2>. DEFINE j == [job[p] EXCEPT !.phase = next, !.snap = snap]
  <2>1. job[p] \in Jobs
    BY <1>t
  <2>2. j.kind = job[p].kind /\ j.intent = job[p].intent
          /\ j.row = job[p].row
    BY <2>1 DEF Jobs
  <2>3. job' = [job EXCEPT ![p] = j]
    BY <1>3
  <2>. HIDE DEF j, Kept
  <2>. QED
    BY <1>1, <2>2, <2>3
<1>4. ASSUME NEW i \in Intents, NEW p \in Processes, StartPoll(p, i)
      PROVE  Kept \/ p = q
  BY <1>t, <1>4 DEF StartPoll
<1>5. ASSUME NEW i \in Intents, NEW p \in Processes, StartRefresh(p, i)
      PROVE  job'[q].kind # "poll" \/ Kept
  <2>1. Check("refresh", i).kind # "poll"
    BY DEF Check
  <2>. QED
    BY <1>1, <1>5, <2>1 DEF StartRefresh
<1>6. ASSUME NEW p \in Processes, ReadHistory(p) \/ ReadToday(p)
      PROVE  job'[q].kind # "poll" \/ Kept
  <2>1. ASSUME NEW items, NEW next, See(p, items, next)
        PROVE  job'[q].kind # "poll" \/ Kept
    <3>1. ASSUME NEW sound, NEW complete,
                 job' = [job EXCEPT
                   ![p].phase = next,
                   ![p].snap = [items |-> @.items \cup items,
                                sound |-> @.sound /\ sound,
                                complete |-> @.complete /\ complete]]
          PROVE  job'[q].kind # "poll" \/ Kept
      BY <1>t, <3>1 DEF Jobs
    <3>. QED
      BY <2>1, <3>1 DEF See
  <2>. QED
    BY <1>6, <2>1 DEF ReadHistory, ReadToday
<1>7. ASSUME NEW p \in Processes, ReadDirect(p)
      PROVE  job'[q].kind # "poll" \/ Kept
  BY <1>t, <1>7 DEF ReadDirect, Jobs
<1>8. ASSUME NEW p \in Processes, ReadFails(p)
      PROVE  job'[q].kind # "poll" \/ Kept
  BY <1>t, <1>8 DEF ReadFails, Jobs
<1>9. ASSUME NEW p \in Processes, ProviderFailure(p) \/ Observed(p)
      PROVE  job'[q].kind # "poll" \/ Kept
  <2>1. CASE job' = [job EXCEPT ![p] = Idle]
    BY <1>2, <2>1
  <2>2. CASE job' = [job EXCEPT ![p].phase = "apply"]
    BY <1>t, <2>2 DEF Jobs
  <2>. QED
    BY <1>t, <1>9, <2>1, <2>2 DEF ProviderFailure, Observed
<1>10. ASSUME NEW p \in Processes,
              \/ StoreResult(p) \/ ResultLost(p) \/ Restart(p)
              \/ \E e \in Reviews : StoreEvidence(p, e)
       PROVE  job'[q].kind # "poll" \/ Kept
  <2>1. job' = [job EXCEPT ![p] = Idle]
    BY <1>10 DEF StoreResult, ResultLost, Restart, StoreEvidence
  <2>. QED
    BY <1>2, <2>1
<1>11. ASSUME \/ Tick
              \/ \E i \in Intents :
                   \/ Create(i) \/ BeginAttempt(i) \/ MarkUnknown(i)
                   \/ RegisterProof(i)
                   \/ \E b \in BrokerIds :
                        BrokerAccepts(i, b) \/ BrokerMoves(i, b)
                   \/ \E e \in Reviews : Resolve(i, e)
       PROVE  Kept
  BY <1>11 DEF Tick, Create, BeginAttempt, MarkUnknown, RegisterProof,
               BrokerAccepts, BrokerMoves, Resolve
<1>. HIDE DEF Kept
<1>12. \/ \E i \in Intents : StartPoll(q, i)
      \/ job'[q].kind # "poll"
      \/ Kept
  BY <1>4, <1>5, <1>6, <1>7, <1>8, <1>9, <1>10, <1>11 DEF Next, CheckStep
<1>. QED
  BY <1>12 DEF Kept

LEMMA LeaseStep ==
    ASSUME TypeOK, JobInv, LeaseInv, [Next]_vars
    PROVE  LeaseInv'
<1>1. CASE UNCHANGED vars
  BY <1>1 DEF vars, LeaseInv, LeaseStands, StillLeased
<1>2. CASE Next
  <2>. SUFFICES ASSUME NEW q \in Processes, job'[q].kind = "poll"
                PROVE  LeaseStands(q)'
    BY DEF LeaseInv
  <2>t. /\ rows \in [Intents -> Rows]
        /\ job \in [Processes -> Jobs]
    BY DEF TypeOK
  <2>1. ASSUME NEW i \in Intents, StartPoll(q, i)
        PROVE  LeaseStands(q)'
    <3>1. job'[q] = Check("poll", i)
      BY <2>t, <2>1 DEF StartPoll
    <3>2. job'[q].intent = i /\ job'[q].row = rows[i]
      BY <3>1 DEF Check
    <3>3. PICK r \in Rows :
            /\ rows' = [rows EXCEPT ![i] = r]
            /\ r.state = rows[i].state /\ r.lease = q
            /\ r.version = rows[i].version + 1
            /\ r.filled = rows[i].filled
            /\ r.attempt = rows[i].attempt /\ r.brokerId = rows[i].brokerId
            /\ rows[i].state \in {"UNKNOWN", "ACKNOWLEDGED"}
      BY <2>t, <2>1, LeaseRow DEF StartPoll
    <3>4. rows'[i] = r /\ rows[i].version \in Nat
      BY <2>t, <3>3 DEF Rows
    <3>5. rows[i].version < rows[i].version + 1
      BY <3>4
    <3>. QED
      BY <3>2, <3>3, <3>4, <3>5 DEF LeaseStands, StillLeased
  <2>2. ASSUME job'[q].kind = job[q].kind, job'[q].intent = job[q].intent,
               job'[q].row = job[q].row
        PROVE  LeaseStands(q)'
    <3>. DEFINE i == job[q].intent
                v == job[q].row.version
    <3>1. i \in Intents /\ LeaseStands(q)
      BY <2>2 DEF JobInv, LeaseInv
    <3>2. v \in Nat /\ rows[i].version \in Nat /\ v < rows[i].version
      BY <2>t, <3>1 DEF LeaseStands, Jobs, Rows
    <3>3. CASE Newer(i)
      <4>1. rows'[i].version = rows[i].version + 1
        BY <3>3 DEF Newer
      <4>2. v < rows'[i].version /\ rows'[i].version # v + 1
        BY <3>2, <4>1
      <4>. QED
        BY <2>2, <4>2 DEF LeaseStands, StillLeased
    <3>4. CASE Same(i)
      BY <2>2, <3>1, <3>4 DEF LeaseStands, StillLeased, Same
    <3>. QED
      BY <1>2, <3>1, <3>3, <3>4, RowSteps
  <2>. QED
    BY <1>2, <2>1, <2>2, JobSteps
<1>. QED
  BY <1>1, <1>2

(* The compare-and-set of reconcile is sound: whoever still holds the      *)
(* lease, and at that version, decides on the row that is stored.          *)
THEOREM LeaseProtects == Spec => []LeaseInv
<1>1. Init => LeaseInv
  BY ConstantTypes DEF Init, LeaseInv
<1>2. TypeOK /\ JobInv /\ LeaseInv /\ [Next]_vars => LeaseInv'
  BY LeaseStep
<1>. QED
  BY <1>1, <1>2, TypeCorrect, PTL DEF Spec

-----------------------------------------------------------------------------
(* The recovery implements AttemptOutcome.                                 *)

(* One changed row changes the outcome and the exposure of its intent.     *)
LEMMA MapRow ==
    ASSUME TypeOK, NEW i \in Intents, NEW r \in Rows, NEW o,
           rows' = [rows EXCEPT ![i] = r],
           OutcomeOf(i)' = o
    PROVE  /\ [k \in Intents |-> OutcomeOf(k)]' =
                 [[k \in Intents |-> OutcomeOf(k)] EXCEPT ![i] = o]
           /\ [k \in Intents |-> rows[k].filled]' =
                 [[k \in Intents |-> rows[k].filled] EXCEPT ![i] = r.filled]
<1>1. rows'[i] = r /\ \A j \in Intents \ {i} : rows'[j] = rows[j]
  BY DEF TypeOK
<1>2. \A j \in Intents \ {i} : OutcomeOf(j)' = OutcomeOf(j)
  BY <1>1 DEF OutcomeOf
<1>3. [k \in Intents |-> OutcomeOf(k)]' =
         [[k \in Intents |-> OutcomeOf(k)] EXCEPT ![i] = o]
  BY <1>2
<1>4. [k \in Intents |-> rows[k].filled]' =
         [[k \in Intents |-> rows[k].filled] EXCEPT ![i] = r.filled]
  <2>1. \A k \in Intents : rows'[k].filled = IF k = i THEN r.filled
                                             ELSE rows[k].filled
    BY <1>1
  <2>2. [k \in Intents |-> rows'[k].filled] =
          [k \in Intents |-> IF k = i THEN r.filled ELSE rows[k].filled]
    BY <2>1
  <2>. QED
    BY <2>2
<1>. QED
  BY <1>3, <1>4

(* Rows that differ in nothing the mapping shows.                          *)
LEMMA MapSame ==
    ASSUME NEW K, K = Intents,
           \A k \in K : /\ rows'[k].filled = rows[k].filled
                       /\ OutcomeOf(k)' = OutcomeOf(k)
    PROVE  UNCHANGED Promise!outcomeVars
BY DEF Promise!outcomeVars

LEMMA MapClear ==
    ASSUME NEW i \in Intents, AccountClear(i)
    PROVE  Promise!Clear(i)
BY DEF AccountClear, UNCERTAIN, OutcomeOf, Promise!Clear, Promise!Uncertain

LEMMA MapLearn ==
    ASSUME TypeOK, NEW i \in Intents, NEW r \in Rows,
           rows' = [rows EXCEPT ![i] = r],
           OutcomeOf(i) \in {"outstanding", "review", "known"},
           r.state \in {"ACKNOWLEDGED", "TERMINAL"},
           rows[i].filled <= r.filled
    PROVE  Promise!Learn(i)
<1>1. rows'[i] = r /\ rows[i] \in Rows
  BY DEF TypeOK
<1>2. OutcomeOf(i)' \in {"known", "settled"}
  BY <1>1 DEF OutcomeOf
<1>3. r.filled \in rows[i].filled..Quantity
  BY <1>1, EvidenceAssumptions DEF Rows
<1>. QED
  BY <1>2, <1>3, MapRow DEF Promise!Learn

LEMMA MapEscalate ==
    ASSUME TypeOK, NEW i \in Intents, NEW r \in Rows,
           rows' = [rows EXCEPT ![i] = r],
           OutcomeOf(i) \in {"outstanding", "known"},
           r.state = "MANUAL_REVIEW", r.filled = rows[i].filled
    PROVE  Promise!Escalate(i)
<1>1. rows'[i] = r
  BY DEF TypeOK
<1>2. OutcomeOf(i)' = "review"
  BY <1>1 DEF OutcomeOf
<1>3. \A k \in Intents : rows'[k].filled = rows[k].filled
  BY <1>1 DEF TypeOK
<1>. QED
  BY <1>2, <1>3, MapRow DEF Promise!Escalate

LEMMA OutcomeInitial ==
    ASSUME Init
    PROVE  Promise!OutcomeInit
BY DEF Init, InitRows, NoRow, OutcomeOf, Promise!OutcomeInit

LEMMA OutcomeStep ==
    ASSUME TypeOK, JobInv, LeaseInv, [Next]_vars
    PROVE  [Promise!OutcomeNext]_(Promise!outcomeVars)
<1>. DEFINE Goal == Promise!OutcomeNext \/ UNCHANGED Promise!outcomeVars
<1>. SUFFICES Goal
  OBVIOUS
<1>t. /\ rows \in [Intents -> Rows]
      /\ job \in [Processes -> Jobs]
  BY DEF TypeOK
<1>0. ASSUME rows' = rows PROVE Goal
  BY <1>0, MapSame DEF OutcomeOf
<1>00. ASSUME NEW i \in Intents, NEW r \in Rows,
              rows' = [rows EXCEPT ![i] = r],
              OutcomeOf(i)' = OutcomeOf(i), r.filled = rows[i].filled
       PROVE  Goal
  <2>1. rows'[i] = r /\ \A j \in Intents \ {i} : rows'[j] = rows[j]
    BY <1>t, <1>00
  <2>2. \A k \in Intents : /\ rows'[k].filled = rows[k].filled
                           /\ OutcomeOf(k)' = OutcomeOf(k)
    BY <1>00, <2>1 DEF OutcomeOf
  <2>. QED
    BY <2>2, MapSame
<1>1. ASSUME NEW i \in Intents, Create(i) PROVE Goal
  <2>1. create(i)
    BY <1>1 DEF Create
  <2>2. PICK r \in Rows :
          /\ rows' = [rows EXCEPT ![i] = r]
          /\ rows[i].state = "absent" /\ r.state = "READY"
          /\ r.filled = rows[i].filled
    BY <1>t, <2>1, CreateRow
  <2>3. rows'[i] = r /\ \A k \in Intents : rows'[k].filled = rows[k].filled
    BY <1>t, <2>2
  <2>4. OutcomeOf(i) = "absent" /\ OutcomeOf(i)' = "ready"
    BY <2>2, <2>3 DEF OutcomeOf
  <2>5. Promise!Clear(i)
    BY <2>1, MapClear DEF create
  <2>6. Promise!Prepare(i)
    BY <2>2, <2>3, <2>4, <2>5, MapRow DEF Promise!Prepare
  <2>. QED
    BY <2>6 DEF Promise!OutcomeNext
<1>2. ASSUME NEW i \in Intents, BeginAttempt(i) PROVE Goal
  <2>1. begin_attempt(i)
    BY <1>2 DEF BeginAttempt
  <2>2. PICK r \in Rows :
          /\ rows' = [rows EXCEPT ![i] = r]
          /\ rows[i].state = "READY" /\ r.state = "SUBMITTING"
          /\ r.filled = rows[i].filled
    BY <1>t, <2>1, BeginRow
  <2>3. rows'[i] = r /\ \A k \in Intents : rows'[k].filled = rows[k].filled
    BY <1>t, <2>2
  <2>4. OutcomeOf(i) = "ready" /\ OutcomeOf(i)' = "outstanding"
    BY <2>2, <2>3 DEF OutcomeOf
  <2>5. Promise!Clear(i)
    BY <2>1, MapClear DEF begin_attempt, MayAttempt
  <2>6. Promise!Attempt(i)
    BY <2>2, <2>3, <2>4, <2>5, MapRow DEF Promise!Attempt
  <2>. QED
    BY <2>6 DEF Promise!OutcomeNext
<1>3. ASSUME NEW i \in Intents, MarkUnknown(i) PROVE Goal
  <2>1. ASSUME NEW r \in Rows, rows' = [rows EXCEPT ![i] = r],
               rows[i].state = "SUBMITTING", r.state = "UNKNOWN",
               r.filled = rows[i].filled
        PROVE  Goal
    <3>1. OutcomeOf(i)' = OutcomeOf(i)
      BY <1>t, <2>1 DEF OutcomeOf
    <3>. QED
      BY <1>00, <2>1, <3>1
  <2>. QED
    BY <1>t, <1>3, <2>1, MarkRow DEF MarkUnknown
<1>4. ASSUME NEW i \in Intents, NEW e \in Reviews, Resolve(i, e)
      PROVE  Goal
  <2>1. PICK r \in Rows :
          /\ rows' = [rows EXCEPT ![i] = r]
          /\ rows[i].filled <= r.filled
          /\ \/ r.state = "MANUAL_REVIEW" /\ r.filled = rows[i].filled
             \/ r.state \in {"ACKNOWLEDGED", "TERMINAL"}
             \/ /\ r.state = "RESOLVED_NO_SUBMISSION"
                /\ rows[i].filled = 0 /\ r.filled = 0
    BY <1>4, ResolveRow
  <2>2. OutcomeOf(i) = "review" /\ rows'[i] = r
    BY <1>t, <1>4, <2>1 DEF Resolve, OutcomeOf
  <2>3. CASE r.state = "MANUAL_REVIEW" /\ r.filled = rows[i].filled
    BY <1>00, <2>1, <2>2, <2>3 DEF OutcomeOf
  <2>4. CASE r.state \in {"ACKNOWLEDGED", "TERMINAL"}
    <3>1. Promise!Learn(i)
      BY <2>1, <2>2, <2>4, MapLearn
    <3>. QED
      BY <3>1 DEF Promise!OutcomeNext
  <2>5. CASE /\ r.state = "RESOLVED_NO_SUBMISSION"
             /\ rows[i].filled = 0 /\ r.filled = 0
    <3>1. OutcomeOf(i)' = "settled"
      BY <2>2, <2>5 DEF OutcomeOf
    <3>2. \A k \in Intents : rows'[k].filled = rows[k].filled
      BY <1>t, <2>1, <2>5
    <3>3. Promise!Close(i)
      <4>1. OutcomeOf(i) = "review" /\ rows[i].filled = 0
        BY <2>2, <2>5
      <4>2. [k \in Intents |-> OutcomeOf(k)]' = [[k \in Intents |-> OutcomeOf(k)] EXCEPT ![i] = "settled"]
        BY <2>1, <3>1, MapRow
      <4>3. [k \in Intents |-> rows[k].filled]' = [k \in Intents |-> rows[k].filled]
        BY <3>2
      <4>. QED
        BY <4>1, <4>2, <4>3 DEF Promise!Close
    <3>. QED
      BY <3>3 DEF Promise!OutcomeNext
  <2>. QED
    BY <2>1, <2>3, <2>4, <2>5
<1>5. ASSUME NEW i \in Intents, NEW p \in Processes, StartPoll(p, i)
      PROVE  Goal
  <2>1. ASSUME NEW r \in Rows, rows' = [rows EXCEPT ![i] = r],
               r.state = rows[i].state, r.filled = rows[i].filled
        PROVE  Goal
    <3>1. OutcomeOf(i)' = OutcomeOf(i)
      BY <1>t, <2>1 DEF OutcomeOf
    <3>. QED
      BY <1>00, <2>1, <3>1
  <2>. QED
    BY <1>t, <1>5, <2>1, LeaseRow DEF StartPoll
<1>6. ASSUME NEW p \in Processes, StoreResult(p) PROVE Goal
  <2>1. ASSUME NEW i \in Intents, NEW row \in Rows, NEW r \in Rows,
               i = job[p].intent, row = job[p].row,
               rows' = [rows EXCEPT ![i] = r],
               StillLeased(i, p, row), row.filled <= r.filled,
               \/ r.state = row.state /\ row.state # "UNKNOWN"
               \/ r.state = row.state /\ r.filled = row.filled
               \/ r.state = "MANUAL_REVIEW" /\ r.filled = row.filled
               \/ r.state \in {"ACKNOWLEDGED", "TERMINAL"}
        PROVE  Goal
    <3>1. LeaseStands(p)
      BY <1>6 DEF StoreResult, LeaseInv
    <3>2. /\ rows[i].state = row.state /\ rows[i].filled = row.filled
          /\ row.state \in {"UNKNOWN", "ACKNOWLEDGED"}
      BY <2>1, <3>1 DEF LeaseStands
    <3>3. OutcomeOf(i) \in {"outstanding", "known"} /\ rows'[i] = r
      BY <1>t, <2>1, <3>2 DEF OutcomeOf
    <3>4. CASE r.state \in {"ACKNOWLEDGED", "TERMINAL"}
      <4>1. Promise!Learn(i)
        BY <2>1, <3>2, <3>3, <3>4, MapLearn
      <4>. QED
        BY <4>1 DEF Promise!OutcomeNext
    <3>5. CASE r.state = "MANUAL_REVIEW" /\ r.filled = row.filled
      <4>1. Promise!Escalate(i)
        BY <2>1, <3>2, <3>3, <3>5, MapEscalate
      <4>. QED
        BY <4>1 DEF Promise!OutcomeNext
    <3>6. CASE r.state = row.state /\ r.filled = row.filled
      <4>1. OutcomeOf(i)' = OutcomeOf(i)
        BY <3>2, <3>3, <3>6 DEF OutcomeOf
      <4>. QED
        BY <1>00, <2>1, <3>2, <3>6, <4>1
    <3>. QED
      BY <2>1, <3>2, <3>4, <3>5, <3>6
  <2>2. StoreRead(job[p].intent, p, job[p].row, job[p].snap)
    BY <1>6 DEF StoreResult
  <2>3. /\ job[p].intent \in Intents
        /\ job[p].row \in Rows /\ job[p].snap \in Snapshots
    BY <1>6, <1>t DEF StoreResult, JobInv, Jobs
  <2>4. CASE rows' = rows
    BY <1>0, <2>4
  <2>. QED
    BY <1>t, <2>1, <2>2, <2>3, <2>4, StoreRow
<1>7. ASSUME NEW p \in Processes, Restart(p) PROVE Goal
  <2>1. CASE rows' = rows
    BY <1>0, <2>1
  <2>2. CASE recover_inflight
    <3>1. ASSUME NEW k \in Intents
          PROVE  /\ rows'[k].filled = rows[k].filled
                 /\ \/ rows'[k].state = rows[k].state
                    \/ /\ rows[k].state = "SUBMITTING"
                       /\ rows'[k].state = "UNKNOWN"
      BY <1>t, <2>2, RecoverRows
    <3>2. \A k \in Intents : OutcomeOf(k)' = OutcomeOf(k)
      BY <3>1 DEF OutcomeOf
    <3>. QED
      BY <3>1, <3>2, MapSame
  <2>. QED
    BY <1>7, <2>1, <2>2 DEF Restart
<1>8. CASE Tick
  <2>1. \A k \in Intents : /\ rows'[k].filled = rows[k].filled
                           /\ rows'[k].state = rows[k].state
    BY <1>t, <1>8, AgedRows DEF Tick
  <2>2. \A k \in Intents : OutcomeOf(k)' = OutcomeOf(k)
    BY <2>1 DEF OutcomeOf
  <2>. QED
    BY <2>1, <2>2, MapSame
<1>9. ASSUME NEW i \in Intents,
             \/ RegisterProof(i)
             \/ \E b \in BrokerIds : BrokerAccepts(i, b) \/ BrokerMoves(i, b)
             \/ \E p \in Processes : StartRefresh(p, i)
      PROVE  rows' = rows
  BY <1>9 DEF RegisterProof, BrokerAccepts, BrokerMoves, StartRefresh
<1>10. ASSUME NEW p \in Processes,
              \/ ReadHistory(p) \/ ReadToday(p) \/ ReadDirect(p)
              \/ ReadFails(p) \/ ProviderFailure(p) \/ Observed(p)
              \/ ResultLost(p)
              \/ \E e \in Reviews : StoreEvidence(p, e)
       PROVE  rows' = rows
  BY <1>10 DEF ReadHistory, ReadToday, ReadDirect, ReadFails,
               ProviderFailure, Observed, ResultLost, StoreEvidence
<1>. HIDE DEF Goal
<1>11. CASE UNCHANGED vars
  BY <1>0, <1>11 DEF vars
<1>12. CASE Next
  BY <1>0, <1>1, <1>2, <1>3, <1>4, <1>5, <1>6, <1>7, <1>8, <1>9, <1>10, <1>12
  DEF Next, CheckStep
<1>. QED
  BY <1>11, <1>12

(* The recovery keeps the promise of AttemptOutcome: one attempt of an     *)
(* intent, none while an outcome of the account is uncertain, an exposure  *)
(* that never shrinks and settled intents that stay settled, for any       *)
(* number of processes whose reads and writes interleave.                  *)
THEOREM PromiseKept == Spec => KeepsPromise
<1>1. Init => Promise!OutcomeInit
  BY OutcomeInitial
<1>2. TypeOK /\ JobInv /\ LeaseInv /\ [Next]_vars
        => [Promise!OutcomeNext]_(Promise!outcomeVars)
  BY OutcomeStep
<1>. QED
  BY <1>1, <1>2, TypeCorrect, LeaseProtects, PTL
  DEF Spec, KeepsPromise, Promise!OutcomeSpec

-----------------------------------------------------------------------------
(* What one step may make of one row: it keeps what the properties speak   *)
(* of, or is one of the six ways a receipt moves.                          *)

Kept(k) ==
    /\ rows'[k].state = rows[k].state
    /\ rows'[k].attempt = rows[k].attempt
    /\ rows'[k].brokerId = rows[k].brokerId
    /\ rows'[k].filled = rows[k].filled

Moved(k, before, after) ==
    /\ rows[k].state \in before /\ rows'[k].state = after
    /\ rows'[k].attempt = rows[k].attempt
    /\ rows'[k].brokerId = rows[k].brokerId
    /\ rows'[k].filled = rows[k].filled

Opened(k) == Moved(k, {"absent"}, "READY")
Doubted(k) == Moved(k, {"SUBMITTING"}, "UNKNOWN")
Escalated(k) == Moved(k, {"UNKNOWN", "ACKNOWLEDGED"}, "MANUAL_REVIEW")

(* The attempt is reserved in a clear account, and no other row changes.   *)
Begun(k) ==
    /\ rows[k].state = "READY" /\ rows'[k].state = "SUBMITTING"
    /\ rows'[k].attempt = rows[k].attempt + 1
    /\ rows'[k].brokerId = rows[k].brokerId
    /\ AccountClear(k)
    /\ \A j \in Intents \ {k} : rows'[j] = rows[j]

(* Bound to an order that was listed as the row now says.                  *)
Bound(k) ==
    /\ rows[k].state \in {"UNKNOWN", "ACKNOWLEDGED", "MANUAL_REVIEW"}
    /\ rows'[k].state \in {"ACKNOWLEDGED", "TERMINAL"}
    /\ rows'[k].attempt = rows[k].attempt
    /\ \E x \in Items : /\ Shown(k, x)
                        /\ rows'[k].state = "TERMINAL" <=> x.status \in Terminal
                        /\ rows'[k].brokerId = x.id /\ rows'[k].filled = x.filled

Closed(k) ==
    /\ Moved(k, {"MANUAL_REVIEW"}, "RESOLVED_NO_SUBMISSION")
    /\ k \in proofs /\ rows[k].brokerId = None

Moves(k) == Kept(k) \/ Opened(k) \/ Begun(k) \/ Doubted(k) \/ Escalated(k) \/ Bound(k) \/ Closed(k)

(* A poll that still holds its lease keeps, escalates or binds its row.    *)
LEMMA StoreMoves ==
    ASSUME TypeOK, JobInv, LeaseInv, SnapshotInv, NEW p \in Processes, StoreResult(p),
           NEW k \in Intents
    PROVE  Moves(k)
<1>. DEFINE i == job[p].intent
            row == job[p].row
            snap == job[p].snap
<1>t. rows \in [Intents -> Rows] /\ job[p] \in Jobs
  BY DEF TypeOK
<1>1. /\ i \in Intents /\ row \in Rows /\ snap \in Snapshots
      /\ StoreRead(i, p, row, snap) /\ job[p].kind = "poll"
  BY <1>t DEF StoreResult, JobInv, Jobs
<1>2. Truthful(i, snap) /\ LeaseStands(p)
  BY <1>1 DEF SnapshotInv, LeaseInv
<1>. HIDE DEF i, row, snap
<1>3. CASE UNCHANGED rows
  BY <1>3 DEF Moves, Kept
<1>4. ASSUME StillLeased(i, p, row),
             NEW r \in Rows, rows' = [rows EXCEPT ![i] = r],
             r.attempt = row.attempt,
             \/ /\ r.state \in {row.state, "MANUAL_REVIEW"}
                /\ r.filled = row.filled /\ r.brokerId = row.brokerId
             \/ /\ r.state \in {"ACKNOWLEDGED", "TERMINAL"}
                /\ \E x \in snap.items :
                     /\ r.state = "TERMINAL" <=> x.status \in Terminal
                     /\ r.filled = x.filled /\ r.brokerId = x.id
      PROVE  Moves(k)
  <2>1. /\ rows[i].state = row.state /\ rows[i].filled = row.filled
        /\ rows[i].attempt = row.attempt /\ rows[i].brokerId = row.brokerId
        /\ row.state \in {"UNKNOWN", "ACKNOWLEDGED"}
    BY <1>2, <1>4 DEF LeaseStands, i, row
  <2>2. rows'[i] = r /\ \A j \in Intents \ {i} : rows'[j] = rows[j]
    BY <1>t, <1>1, <1>4
  <2>3. CASE k # i
    BY <2>2, <2>3 DEF Moves, Kept
  <2>4. CASE /\ k = i /\ r.state \in {row.state, "MANUAL_REVIEW"}
             /\ r.filled = row.filled /\ r.brokerId = row.brokerId
    BY <1>4, <2>1, <2>2, <2>4 DEF Moves, Kept, Escalated, Moved
  <2>5. ASSUME k = i, r.state \in {"ACKNOWLEDGED", "TERMINAL"},
               NEW x \in snap.items,
               r.state = "TERMINAL" <=> x.status \in Terminal,
               r.filled = x.filled, r.brokerId = x.id
        PROVE  Moves(k)
    <3>1. x \in Items /\ Shown(k, x)
      BY <1>1, <1>2, <2>5 DEF Truthful, Snapshots
    <3>2. Bound(k)
      BY <1>4, <2>1, <2>2, <2>5, <3>1 DEF Bound
    <3>. QED
      BY <3>2 DEF Moves
  <2>. QED
    BY <1>4, <2>3, <2>4, <2>5
<1>. QED
  BY <1>t, <1>1, <1>3, <1>4, StoreRow

LEMMA ResolveMoves ==
    ASSUME TypeOK, SnapshotInv, NEW i \in Intents, NEW e \in Reviews, Resolve(i, e),
           NEW k \in Intents
    PROVE  Moves(k)
<1>t. rows \in [Intents -> Rows] /\ evidence[e] \in EvidenceRecords
  BY DEF TypeOK
<1>1. /\ rows[i].state = "MANUAL_REVIEW" /\ evidence[e].intent = i
      /\ evidence[e].snap \in Snapshots
  BY <1>t DEF Resolve, Supports, EvidenceRecords
<1>2. Truthful(i, evidence[e].snap)
  BY <1>1, LedgerAssumptions DEF SnapshotInv
<1>3. ASSUME NEW r \in Rows, rows' = [rows EXCEPT ![i] = r],
             r.attempt = rows[i].attempt,
             \/ /\ r.state = "MANUAL_REVIEW" /\ r.filled = rows[i].filled
                /\ r.brokerId = rows[i].brokerId
             \/ /\ r.state \in {"ACKNOWLEDGED", "TERMINAL"}
                /\ \E x \in evidence[e].snap.items :
                     /\ r.state = "TERMINAL" <=> x.status \in Terminal
                     /\ r.filled = x.filled /\ r.brokerId = x.id
             \/ /\ r.state = "RESOLVED_NO_SUBMISSION" /\ i \in proofs
                /\ rows[i].filled = 0 /\ r.filled = 0
                /\ rows[i].brokerId = None /\ r.brokerId = None
      PROVE  Moves(k)
  <2>1. rows'[i] = r /\ \A j \in Intents \ {i} : rows'[j] = rows[j]
    BY <1>t, <1>3
  <2>2. CASE k # i
    BY <2>1, <2>2 DEF Moves, Kept
  <2>3. CASE /\ k = i /\ r.state = "MANUAL_REVIEW" /\ r.filled = rows[i].filled
             /\ r.brokerId = rows[i].brokerId
    BY <1>1, <1>3, <2>1, <2>3 DEF Moves, Kept
  <2>4. ASSUME k = i, r.state \in {"ACKNOWLEDGED", "TERMINAL"},
               NEW x \in evidence[e].snap.items,
               r.state = "TERMINAL" <=> x.status \in Terminal,
               r.filled = x.filled, r.brokerId = x.id
        PROVE  Moves(k)
    <3>1. x \in Items /\ Shown(k, x)
      BY <1>1, <1>2, <2>4 DEF Truthful, Snapshots
    <3>2. Bound(k)
      BY <1>1, <1>3, <2>1, <2>4, <3>1 DEF Bound
    <3>. QED
      BY <3>2 DEF Moves
  <2>5. CASE /\ k = i /\ r.state = "RESOLVED_NO_SUBMISSION" /\ i \in proofs
             /\ rows[i].filled = 0 /\ r.filled = 0
             /\ rows[i].brokerId = None /\ r.brokerId = None
    BY <1>1, <1>3, <2>1, <2>5 DEF Moves, Closed, Moved
  <2>. QED
    BY <1>3, <2>2, <2>3, <2>4, <2>5
<1>. QED
  BY <1>3, ResolveRow

LEMMA RowMoves ==
    ASSUME TypeOK, JobInv, LeaseInv, SnapshotInv, Next, NEW k \in Intents
    PROVE  Moves(k)
<1>t. rows \in [Intents -> Rows]
  BY DEF TypeOK
<1>0. ASSUME rows' = rows PROVE Moves(k)
  BY <1>0 DEF Moves, Kept
<1>1. ASSUME NEW i \in Intents, NEW r \in Rows, rows' = [rows EXCEPT ![i] = r]
      PROVE  /\ rows'[i] = r
             /\ \A j \in Intents \ {i} : rows'[j] = rows[j]
             /\ k # i => Moves(k)
  BY <1>t, <1>1 DEF Moves, Kept
<1>2. ASSUME NEW i \in Intents, Create(i) PROVE Moves(k)
  <2>1. PICK r \in Rows :
          /\ rows' = [rows EXCEPT ![i] = r]
          /\ rows[i].state = "absent" /\ r.state = "READY"
          /\ r.filled = rows[i].filled
          /\ r.attempt = rows[i].attempt /\ r.brokerId = rows[i].brokerId
    BY <1>t, <1>2, CreateRow DEF Create
  <2>2. Opened(i)
    BY <1>1, <2>1 DEF Opened, Moved
  <2>. QED
    BY <1>1, <2>1, <2>2 DEF Moves
<1>3. ASSUME NEW i \in Intents, BeginAttempt(i) PROVE Moves(k)
  <2>1. PICK r \in Rows :
          /\ rows' = [rows EXCEPT ![i] = r]
          /\ rows[i].state = "READY" /\ r.state = "SUBMITTING"
          /\ r.attempt = rows[i].attempt + 1 /\ r.brokerId = rows[i].brokerId
    BY <1>t, <1>3, BeginRow DEF BeginAttempt
  <2>2. AccountClear(i)
    BY <1>3 DEF BeginAttempt, begin_attempt, MayAttempt
  <2>3. Begun(i)
    BY <1>1, <2>1, <2>2 DEF Begun
  <2>. QED
    BY <1>1, <2>1, <2>3 DEF Moves
<1>4. ASSUME NEW i \in Intents, MarkUnknown(i) PROVE Moves(k)
  <2>1. PICK r \in Rows :
          /\ rows' = [rows EXCEPT ![i] = r]
          /\ rows[i].state = "SUBMITTING" /\ r.state = "UNKNOWN"
          /\ r.filled = rows[i].filled
          /\ r.attempt = rows[i].attempt /\ r.brokerId = rows[i].brokerId
    BY <1>t, <1>4, MarkRow DEF MarkUnknown
  <2>2. Doubted(i)
    BY <1>1, <2>1 DEF Doubted, Moved
  <2>. QED
    BY <1>1, <2>1, <2>2 DEF Moves
<1>5. ASSUME NEW i \in Intents, NEW p \in Processes, StartPoll(p, i) PROVE Moves(k)
  <2>1. PICK r \in Rows :
          /\ rows' = [rows EXCEPT ![i] = r]
          /\ r.state = rows[i].state /\ r.filled = rows[i].filled
          /\ r.attempt = rows[i].attempt /\ r.brokerId = rows[i].brokerId
    BY <1>t, <1>5, LeaseRow DEF StartPoll
  <2>2. Kept(i)
    BY <1>1, <2>1 DEF Kept
  <2>. QED
    BY <1>1, <2>1, <2>2 DEF Moves
<1>6. ASSUME NEW p \in Processes, Restart(p) PROVE Moves(k)
  <2>1. CASE recover_inflight
    <3>1. \/ rows'[k] = rows[k]
          \/ /\ rows'[k].filled = rows[k].filled
             /\ rows'[k].attempt = rows[k].attempt
             /\ rows'[k].brokerId = rows[k].brokerId
             /\ rows'[k].state = IF rows[k].state = "SUBMITTING"
                                 THEN "UNKNOWN" ELSE rows[k].state
      BY <1>t, <2>1, RecoverRows
    <3>. QED
      BY <3>1 DEF Moves, Kept, Doubted, Moved
  <2>. QED
    BY <1>0, <1>6, <2>1 DEF Restart
<1>7. CASE Tick
  BY <1>t, <1>7, AgedRows DEF Tick, Moves, Kept
<1>8. ASSUME NEW i \in Intents,
             \/ RegisterProof(i)
             \/ \E b \in BrokerIds : BrokerAccepts(i, b) \/ BrokerMoves(i, b)
             \/ \E p \in Processes : StartRefresh(p, i)
      PROVE  rows' = rows
  BY <1>8 DEF RegisterProof, BrokerAccepts, BrokerMoves, StartRefresh
<1>9. ASSUME NEW p \in Processes,
             \/ ReadHistory(p) \/ ReadToday(p) \/ ReadDirect(p)
             \/ ReadFails(p) \/ ProviderFailure(p) \/ Observed(p)
             \/ ResultLost(p)
             \/ \E e \in Reviews : StoreEvidence(p, e)
      PROVE  rows' = rows
  BY <1>9 DEF ReadHistory, ReadToday, ReadDirect, ReadFails,
              ProviderFailure, Observed, ResultLost, StoreEvidence
<1>. QED
  BY <1>0, <1>2, <1>3, <1>4, <1>5, <1>6, <1>7, <1>8, <1>9, StoreMoves, ResolveMoves
  DEF Next, CheckStep

-----------------------------------------------------------------------------
(* What the broker listed has happened, and stays so.                      *)

LEMMA ListingShown ==
    ASSUME TypeOK, NEW i \in Intents, NEW b \in Placed(i), NEW x \in Listings(i, b)
    PROVE  Shown(i, x)
<1>1. b \in BrokerIds /\ broker[i][b].status # "none"
  BY DEF Placed
<1>2. broker[i][b] \in OrderStates
  BY <1>1 DEF TypeOK
<1>3. broker[i][b].filled \in Nat
  BY <1>2, EvidenceAssumptions DEF OrderStates
<1>4. CASE x = [id |-> b, status |-> broker[i][b].status,
                filled |-> broker[i][b].filled]
  <2>1. x.id = b /\ x.status = broker[i][b].status /\ x.filled = broker[i][b].filled
    BY <1>4
  <2>2. broker[i][b] = [status |-> x.status, filled |-> x.filled]
    BY <1>2, <2>1 DEF OrderStates
  <2>. QED
    BY <1>1, <1>3, <2>1, <2>2 DEF Shown
<1>5. ASSUME NEW n \in 0..broker[i][b].filled,
             x = [id |-> b, status |-> "Live", filled |-> n]
      PROVE  Shown(i, x)
  BY <1>1, <1>3, <1>5 DEF Shown, Terminal
<1>. QED
  BY <1>4, <1>5 DEF Listings

LEMMA ListShown ==
    ASSUME TypeOK, NEW i \in Intents, NEW items \in Lists(i), NEW x \in items
    PROVE  Shown(i, x)
<1>1. PICK b \in Placed(i) : x \in Listings(i, b)
  BY DEF Lists
<1>. QED
  BY <1>1, ListingShown

LEMMA BrokerGrows ==
    ASSUME TypeOK, [Next]_vars, NEW i \in Intents, NEW x \in Items, Shown(i, x)
    PROVE  Shown(i, x)'
<1>. DEFINE o == broker[i][x.id]
<1>t. /\ broker \in [Intents -> [BrokerIds -> OrderStates]]
      /\ x.id \in BrokerIds /\ x.filled \in Nat
  BY EvidenceAssumptions DEF TypeOK, Items
<1>1. o \in OrderStates /\ o.filled \in Nat /\ o.status # "none" /\ x.filled <= o.filled
  BY <1>t, EvidenceAssumptions DEF OrderStates, Shown
<1>2. CASE UNCHANGED broker
  BY <1>2 DEF Shown
<1>3. ASSUME NEW k \in Intents, NEW b \in BrokerIds, BrokerAccepts(k, b)
      PROVE  Shown(i, x)'
  <2>1. ~ (k = i /\ b = x.id)
    BY <1>1, <1>3 DEF BrokerAccepts
  <2>2. broker'[i][x.id] = broker[i][x.id]
    BY <1>t, <1>3, <2>1 DEF BrokerAccepts
  <2>. QED
    BY <2>2 DEF Shown
<1>4. ASSUME NEW k \in Intents, NEW b \in BrokerIds, BrokerMoves(k, b)
      PROVE  Shown(i, x)'
  <2>1. CASE ~ (k = i /\ b = x.id)
    <3>1. broker'[i][x.id] = broker[i][x.id]
      BY <1>t, <1>4, <2>1 DEF BrokerMoves
    <3>. QED
      BY <3>1 DEF Shown
  <2>2. CASE k = i /\ b = x.id
    <3>1. o.status = "Live" /\ x.status \notin Terminal
      BY <1>4, <2>2 DEF BrokerMoves, Shown, Terminal
    <3>2. \/ /\ broker'[i][x.id].status \in {"Filled", "Live"}
             /\ broker'[i][x.id].filled = o.filled + 1
          \/ /\ broker'[i][x.id].status = "Cancelled"
             /\ broker'[i][x.id].filled = o.filled
      BY <1>t, <1>1, <1>4, <2>2 DEF BrokerMoves, OrderStates
    <3>3. broker'[i][x.id].status # "none" /\ x.filled <= broker'[i][x.id].filled
      BY <1>t, <1>1, <3>2
    <3>. QED
      BY <3>1, <3>3 DEF Shown
  <2>. QED
    BY <2>1, <2>2
<1>5. CASE UNCHANGED vars
  BY <1>2, <1>5 DEF vars
<1>6. ASSUME NEW k \in Intents,
             \/ Create(k) \/ BeginAttempt(k) \/ MarkUnknown(k) \/ RegisterProof(k)
             \/ \E e \in Reviews : Resolve(k, e)
             \/ \E p \in Processes : StartPoll(p, k) \/ StartRefresh(p, k)
      PROVE  UNCHANGED broker
  BY <1>6 DEF Create, BeginAttempt, MarkUnknown, RegisterProof, Resolve, StartPoll, StartRefresh
<1>7. ASSUME NEW p \in Processes, CheckStep(p) \/ Restart(p)
      PROVE  UNCHANGED broker
  BY <1>7 DEF CheckStep, Restart, ReadHistory, ReadToday, ReadDirect, ReadFails,
              ProviderFailure, Observed, StoreResult, ResultLost, StoreEvidence
<1>8. CASE Tick
  BY <1>2, <1>8 DEF Tick
<1>. QED
  BY <1>2, <1>3, <1>4, <1>5, <1>6, <1>7, <1>8 DEF Next

(* A check sees what there is to see, adds it to what it saw, or forgets it. *)
LEMMA JobTruth ==
    ASSUME TypeOK, JobInv, SnapshotInv, Next,
           NEW q \in Processes, job'[q].kind # "idle"
    PROVE  Truthful(job'[q].intent, job'[q].snap)
<1>t. job \in [Processes -> Jobs] /\ job[q] \in Jobs
  BY DEF TypeOK
<1>0. ASSUME job'[q] = job[q] PROVE Truthful(job'[q].intent, job'[q].snap)
  BY <1>0 DEF SnapshotInv
<1>1. ASSUME NEW p \in Processes, NEW j, job' = [job EXCEPT ![p] = j],
             j.kind = "idle" \/ j.snap.items = {} \/ p # q
      PROVE  Truthful(job'[q].intent, job'[q].snap)
  <2>1. CASE p # q
    BY <1>t, <1>0, <1>1, <2>1
  <2>2. CASE p = q
    <3>1. job'[q] = j
      BY <1>t, <1>1, <2>2
    <3>2. j.snap.items = {}
      BY <1>1, <2>2, <3>1
    <3>. QED
      BY <3>1, <3>2 DEF Truthful
  <2>. QED
    BY <2>1, <2>2
<1>2. ASSUME NEW p \in Processes, job' = [job EXCEPT ![p] = Idle]
      PROVE  Truthful(job'[q].intent, job'[q].snap)
  BY <1>1, <1>2, ConstantTypes
<1>3. ASSUME NEW p \in Processes, NEW i \in Intents, StartPoll(p, i) \/ StartRefresh(p, i)
      PROVE  Truthful(job'[q].intent, job'[q].snap)
  <2>1. \A kind : Check(kind, i).snap.items = {}
    BY DEF Check, NothingSeen
  <2>. QED
    BY <1>1, <1>3, <2>1 DEF StartPoll, StartRefresh
<1>4. ASSUME NEW p \in Processes, job[p].phase # "none",
             job'[p].kind = job[p].kind, job'[p].intent = job[p].intent,
             \A x \in job'[p].snap.items : x \in job[p].snap.items \/ Shown(job[p].intent, x),
             p # q => job'[q] = job[q]
      PROVE  Truthful(job'[q].intent, job'[q].snap)
  <2>1. CASE p # q
    BY <1>0, <1>4, <2>1
  <2>2. CASE p = q
    BY <1>4, <2>2 DEF SnapshotInv, Truthful
  <2>. QED
    BY <2>1, <2>2
<1>5. ASSUME NEW p \in Processes, ReadHistory(p) \/ ReadToday(p)
      PROVE  Truthful(job'[q].intent, job'[q].snap)
  <2>1. job[p].phase # "none" /\ job[p].intent \in Intents /\ job[p] \in Jobs
    BY <1>t, <1>5 DEF ReadHistory, ReadToday, JobInv
  <2>2. PICK items \in Lists(job[p].intent), next \in Phases : See(p, items, next)
    BY <1>5 DEF ReadHistory, ReadToday, Phases, Reading
  <2>3. PICK sound \in BOOLEAN, complete \in BOOLEAN :
          job' = [job EXCEPT ![p].phase = next,
                             ![p].snap = [items |-> @.items \cup items,
                                          sound |-> @.sound /\ sound,
                                          complete |-> @.complete /\ complete]]
    BY <2>2 DEF See
  <2>4. /\ job'[p].kind = job[p].kind /\ job'[p].intent = job[p].intent
        /\ job'[p].snap.items = job[p].snap.items \cup items
        /\ p # q => job'[q] = job[q]
    BY <1>t, <2>1, <2>3 DEF Jobs
  <2>5. \A x \in items : Shown(job[p].intent, x)
    BY <2>1, ListShown
  <2>. QED
    BY <1>4, <2>1, <2>4, <2>5
<1>6. ASSUME NEW p \in Processes, ReadDirect(p)
      PROVE  Truthful(job'[q].intent, job'[q].snap)
  <2>1. job[p].phase # "none" /\ job[p].intent \in Intents /\ job[p] \in Jobs
    BY <1>t, <1>6 DEF ReadDirect, JobInv
  <2>2. PICK x \in Listings(job[p].intent, job[p].row.brokerId) :
          job' = [job EXCEPT ![p].phase = "observed", ![p].snap.items = @ \cup {x}]
    BY <1>6 DEF ReadDirect
  <2>3. /\ job'[p].kind = job[p].kind /\ job'[p].intent = job[p].intent
        /\ job'[p].snap.items = job[p].snap.items \cup {x}
        /\ p # q => job'[q] = job[q]
    BY <1>t, <2>1, <2>2 DEF Jobs, Snapshots
  <2>4. Shown(job[p].intent, x)
    BY <1>6, <2>1, ListingShown DEF ReadDirect
  <2>. QED
    BY <1>4, <2>1, <2>3, <2>4
<1>7. ASSUME NEW p \in Processes, ReadFails(p)
      PROVE  Truthful(job'[q].intent, job'[q].snap)
  <2>1. job[p].phase # "none" /\ job[p].intent \in Intents /\ job[p] \in Jobs
    BY <1>t, <1>7 DEF ReadFails, JobInv, Reading
  <2>2. /\ job'[p].kind = job[p].kind /\ job'[p].intent = job[p].intent
        /\ job'[p].snap = NothingSeen
        /\ p # q => job'[q] = job[q]
    BY <1>t, <1>7, <2>1 DEF ReadFails, Jobs
  <2>. QED
    BY <1>4, <2>1, <2>2 DEF NothingSeen
<1>8. ASSUME NEW p \in Processes, job[p].phase # "none",
             job' = [job EXCEPT ![p].phase = "apply"]
      PROVE  Truthful(job'[q].intent, job'[q].snap)
  <2>1. /\ job'[p].kind = job[p].kind /\ job'[p].intent = job[p].intent
        /\ job'[p].snap = job[p].snap
        /\ p # q => job'[q] = job[q]
    BY <1>t, <1>8 DEF Jobs
  <2>. QED
    BY <1>4, <1>8, <2>1
<1>9. ASSUME NEW p \in Processes, ProviderFailure(p) \/ Observed(p)
      PROVE  Truthful(job'[q].intent, job'[q].snap)
  <2>1. job[p].phase # "none"
    BY <1>9 DEF ProviderFailure, Observed
  <2>2. \/ job' = [job EXCEPT ![p] = Idle]
        \/ job' = [job EXCEPT ![p].phase = "apply"]
    BY <1>t, <1>9 DEF ProviderFailure, Observed
  <2>. QED
    BY <1>2, <1>8, <2>1, <2>2
<1>10. ASSUME NEW p \in Processes,
              \/ StoreResult(p) \/ ResultLost(p) \/ Restart(p)
              \/ \E e \in Reviews : StoreEvidence(p, e)
       PROVE  Truthful(job'[q].intent, job'[q].snap)
  <2>1. job' = [job EXCEPT ![p] = Idle]
    BY <1>10 DEF StoreResult, ResultLost, Restart, StoreEvidence
  <2>. QED
    BY <1>2, <2>1
<1>11. ASSUME \/ Tick
              \/ \E i \in Intents :
                   \/ Create(i) \/ BeginAttempt(i) \/ MarkUnknown(i)
                   \/ RegisterProof(i)
                   \/ \E b \in BrokerIds :
                        BrokerAccepts(i, b) \/ BrokerMoves(i, b)
                   \/ \E e \in Reviews : Resolve(i, e)
       PROVE  job'[q] = job[q]
  BY <1>11 DEF Tick, Create, BeginAttempt, MarkUnknown, RegisterProof,
               BrokerAccepts, BrokerMoves, Resolve
<1>. QED
  BY <1>0, <1>3, <1>5, <1>6, <1>7, <1>9, <1>10, <1>11 DEF Next, CheckStep

(* Evidence keeps what it was stored with: what one check saw.             *)
LEMMA EvidenceTruth ==
    ASSUME TypeOK, JobInv, SnapshotInv, Next,
           NEW e \in Reviews, evidence'[e].intent # None
    PROVE  Truthful(evidence'[e].intent, evidence'[e].snap)
<1>t. evidence \in [Reviews -> EvidenceRecords] /\ evidence[e] \in EvidenceRecords
  BY DEF TypeOK
<1>0. ASSUME evidence'[e].intent = evidence[e].intent, evidence'[e].snap = evidence[e].snap
      PROVE  Truthful(evidence'[e].intent, evidence'[e].snap)
  BY <1>0 DEF SnapshotInv
<1>1. ASSUME NEW p \in Processes, NEW f \in Reviews, StoreEvidence(p, f)
      PROVE  Truthful(evidence'[e].intent, evidence'[e].snap)
  <2>1. CASE UNCHANGED evidence
    BY <1>0, <2>1
  <2>2. ASSUME NEW v, evidence' = [evidence EXCEPT ![f] =
                                     [intent |-> job[p].intent, version |-> v,
                                      snap |-> job[p].snap, left |-> ReviewTTL,
                                      used |-> FALSE]]
        PROVE  Truthful(evidence'[e].intent, evidence'[e].snap)
    <3>1. CASE e # f
      BY <1>t, <1>0, <2>2, <3>1
    <3>2. CASE e = f
      <4>1. evidence'[e].intent = job[p].intent /\ evidence'[e].snap = job[p].snap
        BY <1>t, <2>2, <3>2
      <4>2. Truthful(job[p].intent, job[p].snap)
        BY <1>1 DEF StoreEvidence, SnapshotInv
      <4>. QED
        BY <4>1, <4>2
    <3>. QED
      BY <3>1, <3>2
  <2>. QED
    BY <1>1, <2>1, <2>2 DEF StoreEvidence
<1>2. ASSUME NEW p \in Processes, NEW i \in Intents, StartRefresh(p, i)
      PROVE  Truthful(evidence'[e].intent, evidence'[e].snap)
  <2>1. evidence'[e] = IF evidence[e].intent = i THEN [evidence[e] EXCEPT !.left = 0]
                                                 ELSE evidence[e]
    BY <1>2 DEF StartRefresh, Superseded
  <2>. QED
    BY <1>t, <1>0, <2>1 DEF EvidenceRecords
<1>3. ASSUME NEW i \in Intents, NEW f \in Reviews, Resolve(i, f)
      PROVE  Truthful(evidence'[e].intent, evidence'[e].snap)
  <2>1. evidence' = [evidence EXCEPT ![f].used = TRUE]
    BY <1>3 DEF Resolve
  <2>. QED
    BY <1>t, <1>0, <2>1 DEF EvidenceRecords
<1>4. ASSUME Tick
      PROVE  Truthful(evidence'[e].intent, evidence'[e].snap)
  <2>1. evidence'[e] = [evidence[e] EXCEPT !.left = IF @ > 0 THEN @ - 1 ELSE 0]
    BY <1>4 DEF Tick
  <2>2. evidence'[e].intent = evidence[e].intent /\ evidence'[e].snap = evidence[e].snap
    BY <1>t, <2>1, ZenonT(30) DEF EvidenceRecords
  <2>. QED
    BY <1>0, <2>2
<1>5. ASSUME \/ \E i \in Intents :
                   \/ Create(i) \/ BeginAttempt(i) \/ MarkUnknown(i)
                   \/ RegisterProof(i)
                   \/ \E b \in BrokerIds :
                        BrokerAccepts(i, b) \/ BrokerMoves(i, b)
                   \/ \E p \in Processes : StartPoll(p, i)
             \/ \E p \in Processes :
                   \/ ReadHistory(p) \/ ReadToday(p) \/ ReadDirect(p)
                   \/ ReadFails(p) \/ ProviderFailure(p) \/ Observed(p)
                   \/ StoreResult(p) \/ ResultLost(p) \/ Restart(p)
      PROVE  UNCHANGED evidence
  BY <1>5 DEF Create, BeginAttempt, MarkUnknown, RegisterProof, BrokerAccepts,
              BrokerMoves, StartPoll, ReadHistory, ReadToday, ReadDirect, ReadFails,
              ProviderFailure, Observed, StoreResult, ResultLost, Restart
<1>. QED
  BY <1>0, <1>1, <1>2, <1>3, <1>4, <1>5 DEF Next, CheckStep

LEMMA SnapshotStep ==
    ASSUME TypeOK, JobInv, SnapshotInv, [Next]_vars, TypeOK', JobInv'
    PROVE  SnapshotInv'
<1>1. CASE UNCHANGED vars
  BY <1>1 DEF vars, SnapshotInv, Truthful, Shown
<1>2. ASSUME NEW i \in Intents, NEW snap \in Snapshots, Truthful(i, snap), NEW x \in snap.items
      PROVE  /\ broker'[i][x.id].status # "none"
             /\ x.filled <= broker'[i][x.id].filled
             /\ x.status \in Terminal =>
                   broker'[i][x.id] = [status |-> x.status, filled |-> x.filled]
  <2>1. x \in Items /\ Shown(i, x)
    BY <1>2 DEF Truthful, Snapshots
  <2>2. Shown(i, x)'
    BY <2>1, BrokerGrows
  <2>. QED
    BY <2>2 DEF Shown
<1>3. CASE Next
  <2>1. ASSUME NEW q \in Processes, job'[q].kind # "idle"
        PROVE  Truthful(job[q].intent, job[q].snap)'
    <3>1. job'[q].intent \in Intents /\ job'[q].snap \in Snapshots
      BY <2>1 DEF TypeOK, Jobs, JobInv
    <3>2. Truthful(job'[q].intent, job'[q].snap)
      BY <1>3, <2>1, JobTruth
    <3>. QED
      BY <1>2, <3>1, <3>2 DEF Truthful, Shown
  <2>2. ASSUME NEW e \in Reviews, evidence'[e].intent # None
        PROVE  Truthful(evidence[e].intent, evidence[e].snap)'
    <3>1. evidence'[e].intent \in Intents /\ evidence'[e].snap \in Snapshots
      BY <2>2 DEF TypeOK, EvidenceRecords
    <3>2. Truthful(evidence'[e].intent, evidence'[e].snap)
      BY <1>3, <2>2, EvidenceTruth
    <3>. QED
      BY <1>2, <3>1, <3>2 DEF Truthful, Shown
  <2>. QED
    BY <2>1, <2>2 DEF SnapshotInv
<1>. QED
  BY <1>1, <1>3

-----------------------------------------------------------------------------
(* The exposure of the account.                                            *)

(* Orders appear one at a time, each accepted for an intent without proof. *)
LEMMA PlacedSteps ==
    ASSUME TypeOK, Next, NEW i \in Intents
    PROVE  \/ Placed(i)' = Placed(i)
           \/ \E b \in BrokerIds : /\ BrokerAccepts(i, b)
                                   /\ Placed(i)' = Placed(i) \cup {b}
<1>t. broker \in [Intents -> [BrokerIds -> OrderStates]]
  BY DEF TypeOK
<1>0. ASSUME UNCHANGED broker PROVE Placed(i)' = Placed(i)
  BY <1>0 DEF Placed
<1>1. ASSUME NEW k \in Intents, NEW b \in BrokerIds, BrokerAccepts(k, b)
      PROVE  Placed(i)' = IF k = i THEN Placed(i) \cup {b} ELSE Placed(i)
  <2>1. \A c \in BrokerIds : broker'[i][c] = IF k = i /\ c = b
                                             THEN [status |-> "Live", filled |-> 0]
                                             ELSE broker[i][c]
    BY <1>t, <1>1 DEF BrokerAccepts
  <2>. QED
    BY <2>1 DEF Placed
<1>2. ASSUME NEW k \in Intents, NEW b \in BrokerIds, BrokerMoves(k, b)
      PROVE  Placed(i)' = Placed(i)
  <2>1. \A c \in BrokerIds : ~ (k = i /\ c = b) => broker'[i][c] = broker[i][c]
    BY <1>t, <1>2 DEF BrokerMoves
  <2>2. k = i => broker[i][b].status # "none" /\ broker'[i][b].status # "none"
    BY <1>t, <1>2 DEF BrokerMoves, OrderStates
  <2>. QED
    BY <2>1, <2>2 DEF Placed
<1>3. ASSUME NEW k \in Intents,
             \/ Create(k) \/ BeginAttempt(k) \/ MarkUnknown(k) \/ RegisterProof(k)
             \/ \E e \in Reviews : Resolve(k, e)
             \/ \E p \in Processes : StartPoll(p, k) \/ StartRefresh(p, k)
      PROVE  UNCHANGED broker
  BY <1>3 DEF Create, BeginAttempt, MarkUnknown, RegisterProof, Resolve, StartPoll, StartRefresh
<1>4. ASSUME NEW p \in Processes, CheckStep(p) \/ Restart(p)
      PROVE  UNCHANGED broker
  BY <1>4 DEF CheckStep, Restart, ReadHistory, ReadToday, ReadDirect, ReadFails,
              ProviderFailure, Observed, StoreResult, ResultLost, StoreEvidence
<1>5. CASE Tick
  BY <1>0, <1>5 DEF Tick
<1>. QED
  BY <1>0, <1>1, <1>2, <1>3, <1>4, <1>5 DEF Next

(* Proofs stay, and are registered only for an intent without orders.      *)
LEMMA ProofSteps ==
    ASSUME Next, NEW k \in Intents
    PROVE  /\ k \in proofs => k \in proofs'
           /\ k \in proofs' => \/ k \in proofs
                               \/ Placed(k) = {} /\ UNCHANGED broker
<1>1. ASSUME NEW i \in Intents, RegisterProof(i)
      PROVE  proofs' = proofs \cup {i} /\ Placed(i) = {} /\ UNCHANGED broker
  BY <1>1 DEF RegisterProof
<1>2. ASSUME NEW i \in Intents,
             \/ Create(i) \/ BeginAttempt(i) \/ MarkUnknown(i)
             \/ \E b \in BrokerIds : BrokerAccepts(i, b) \/ BrokerMoves(i, b)
             \/ \E e \in Reviews : Resolve(i, e)
             \/ \E p \in Processes : StartPoll(p, i) \/ StartRefresh(p, i)
      PROVE  UNCHANGED proofs
  BY <1>2 DEF Create, BeginAttempt, MarkUnknown, BrokerAccepts, BrokerMoves, Resolve,
              StartPoll, StartRefresh
<1>3. ASSUME NEW p \in Processes, CheckStep(p) \/ Restart(p)
      PROVE  UNCHANGED proofs
  BY <1>3 DEF CheckStep, Restart, ReadHistory, ReadToday, ReadDirect, ReadFails,
              ProviderFailure, Observed, StoreResult, ResultLost, StoreEvidence
<1>4. CASE Tick
  BY <1>4 DEF Tick
<1>. QED
  BY <1>1, <1>2, <1>3, <1>4 DEF Next

Uncertain(i) == rows[i].state \in UNCERTAIN /\ rows[i].brokerId = None

(* An uncertain outcome without order was one before, or is an attempt     *)
(* that a clear account allowed.                                           *)
LEMMA BecomesUncertain ==
    ASSUME BindingInv, NEW k \in Intents, Moves(k), Uncertain(k)'
    PROVE  Uncertain(k) \/ Begun(k)
<1>1. CASE Kept(k)
  BY <1>1 DEF Uncertain, Kept
<1>2. CASE Opened(k)
  BY <1>2 DEF Uncertain, Opened, Moved, UNCERTAIN
<1>3. CASE Doubted(k)
  BY <1>3 DEF Uncertain, Doubted, Moved, UNCERTAIN
<1>4. CASE Escalated(k)
  BY <1>4 DEF Uncertain, Escalated, Moved, UNCERTAIN, BindingInv
<1>5. CASE Bound(k)
  BY <1>5 DEF Uncertain, Bound, UNCERTAIN
<1>6. CASE Closed(k)
  BY <1>6 DEF Uncertain, Closed, Moved, UNCERTAIN
<1>. QED
  BY <1>1, <1>2, <1>3, <1>4, <1>5, <1>6 DEF Moves

LEMMA ExposureStep ==
    ASSUME TypeOK, JobInv, LeaseInv, SnapshotInv, ExposureInv, [Next]_vars
    PROVE  ExposureInv'
<1>1. CASE UNCHANGED vars
  BY <1>1 DEF vars, ExposureInv, AttemptInv, BindingInv, UncertainInv, PlacedInv, Placed
<1>2. CASE Next
  <2>t. rows \in [Intents -> Rows]
    BY DEF TypeOK
  <2>i. AttemptInv /\ BindingInv /\ UncertainInv /\ PlacedInv
    BY DEF ExposureInv
  <2>m. \A k \in Intents : Moves(k)
    BY <1>2, RowMoves
  <2>a. \A k \in Intents : rows[k].attempt \in Nat
    BY <2>t DEF Rows
  <2>1. ASSUME NEW k \in Intents
        PROVE  /\ rows'[k].attempt \in Nat /\ rows[k].attempt <= rows'[k].attempt
               /\ rows'[k].attempt <= 1
               /\ rows'[k].state \in {"absent", "READY"} => rows'[k].attempt = 0
    <3>1. CASE rows'[k].attempt = rows[k].attempt
      BY <2>a, <2>i, <2>m, <3>1
      DEF AttemptInv, Moves, Kept, Opened, Begun, Doubted, Escalated, Bound, Closed, Moved
    <3>2. CASE Begun(k)
      BY <2>a, <2>i, <3>2 DEF AttemptInv, Begun
    <3>. QED
      BY <2>m, <3>1, <3>2 DEF Moves, Kept, Opened, Doubted, Escalated, Bound, Closed, Moved
  <2>2. AttemptInv'
    BY <2>1 DEF AttemptInv
  <2>3. BindingInv'
    <3>. SUFFICES ASSUME NEW k \in Intents
                  PROVE  /\ rows'[k].state \notin {"ACKNOWLEDGED", "TERMINAL", "MANUAL_REVIEW"}
                               => rows'[k].brokerId = None
                         /\ rows'[k].state \in {"ACKNOWLEDGED", "TERMINAL"}
                               => rows'[k].brokerId # None
                         /\ rows'[k].state = "RESOLVED_NO_SUBMISSION" => k \in proofs'
      BY DEF BindingInv
    <3>p. k \in proofs => k \in proofs'
      BY <1>2, ProofSteps
    <3>1. CASE Kept(k)
      BY <2>i, <3>1, <3>p DEF BindingInv, Kept
    <3>2. CASE Opened(k) \/ Doubted(k) \/ Begun(k)
      BY <2>i, <3>2 DEF BindingInv, Opened, Doubted, Begun, Moved
    <3>3. CASE Escalated(k)
      BY <3>3 DEF Escalated, Moved
    <3>4. CASE Bound(k)
      BY <3>4, EvidenceAssumptions DEF Bound, Items
    <3>5. CASE Closed(k)
      BY <3>5, <3>p DEF Closed, Moved
    <3>. QED
      BY <2>m, <3>1, <3>2, <3>3, <3>4, <3>5 DEF Moves
  <2>4. UncertainInv'
    <3>. SUFFICES ASSUME NEW i \in Intents, NEW j \in Intents,
                         Uncertain(i)', Uncertain(j)', i # j
                  PROVE  FALSE
      BY DEF UncertainInv, Uncertain
    <3>1. (Uncertain(i) \/ Begun(i)) /\ (Uncertain(j) \/ Begun(j))
      BY <2>i, <2>m, BecomesUncertain
    <3>2. ASSUME NEW k \in Intents, NEW l \in Intents, k # l, Begun(k), Uncertain(l)'
          PROVE  FALSE
      BY <3>2 DEF Begun, AccountClear, Uncertain
    <3>3. ~ (Uncertain(i) /\ Uncertain(j))
      BY <2>i DEF UncertainInv, Uncertain
    <3>. QED
      BY <3>1, <3>2, <3>3
  <2>5. PlacedInv'
    <3>. DEFINE extra(n) == IF "duplicate" \in Faults /\ n > 0 THEN 1 ELSE 0
    <3>. SUFFICES ASSUME NEW i \in Intents
                  PROVE  /\ IsFiniteSet(Placed(i)')
                         /\ Cardinality(Placed(i)') <= rows'[i].attempt + extra(rows'[i].attempt)
                         /\ i \in proofs' => Placed(i)' = {}
      BY DEF PlacedInv, Placed
    <3>1. /\ IsFiniteSet(Placed(i))
          /\ Cardinality(Placed(i)) <= rows[i].attempt + extra(rows[i].attempt)
          /\ i \in proofs => Placed(i) = {}
      BY <2>i DEF PlacedInv
    <3>2. Cardinality(Placed(i)) \in Nat
      BY <3>1, FS_CardinalityType
    <3>3. CASE Placed(i)' = Placed(i)
      <4>1. Cardinality(Placed(i)) <= rows'[i].attempt + extra(rows'[i].attempt)
        BY <2>1, <2>a, <3>1, <3>2
      <4>2. i \in proofs' => Placed(i) = {}
        BY <1>2, <3>1, ProofSteps
      <4>. QED
        BY <3>1, <3>3, <4>1, <4>2
    <3>4. ASSUME NEW b \in BrokerIds, BrokerAccepts(i, b), Placed(i)' = Placed(i) \cup {b}
          PROVE  /\ IsFiniteSet(Placed(i)')
                 /\ Cardinality(Placed(i)') <= rows'[i].attempt + extra(rows'[i].attempt)
                 /\ i \in proofs' => Placed(i)' = {}
      <4>1. /\ b \notin Placed(i) /\ i \notin proofs /\ proofs' = proofs /\ rows' = rows
            /\ Cardinality(Placed(i)) < rows[i].attempt + extra(rows[i].attempt)
        BY <3>4 DEF BrokerAccepts, Placed
      <4>2. /\ IsFiniteSet(Placed(i) \cup {b})
            /\ Cardinality(Placed(i) \cup {b}) = Cardinality(Placed(i)) + 1
        BY <3>1, <4>1, FS_AddElement
      <4>. QED
        BY <2>a, <3>2, <3>4, <4>1, <4>2
    <3>. HIDE DEF extra
    <3>. QED
      BY <1>2, <3>3, <3>4, PlacedSteps
  <2>. QED
    BY <2>2, <2>3, <2>4, <2>5 DEF ExposureInv
<1>. QED
  BY <1>1, <1>2

LEMMA ExposureInit ==
    ASSUME Init
    PROVE  ExposureInv /\ SnapshotInv /\ LeaseInv
<1>1. \A i \in Intents : /\ rows[i].state = "absent" /\ rows[i].attempt = 0
                         /\ rows[i].brokerId = None
  BY DEF Init, InitRows, NoRow
<1>2. \A i \in Intents : Placed(i) = {}
  BY DEF Init, Placed, NoOrder
<1>3. PlacedInv
  BY <1>1, <1>2, FS_EmptySet DEF PlacedInv
<1>4. AttemptInv /\ BindingInv /\ UncertainInv
  BY <1>1 DEF AttemptInv, BindingInv, UncertainInv, UNCERTAIN
<1>5. SnapshotInv /\ LeaseInv
  BY ConstantTypes DEF Init, SnapshotInv, LeaseInv, NoEvidence
<1>. QED
  BY <1>3, <1>4, <1>5 DEF ExposureInv

(* The inductive invariant behind the account's exposure.                  *)
THEOREM ExposureHolds == Spec => [](SnapshotInv /\ ExposureInv)
<1>1. Init => SnapshotInv /\ ExposureInv
  BY ExposureInit
<1>2. /\ TypeOK /\ JobInv /\ (TypeOK /\ JobInv)' /\ LeaseInv
      /\ SnapshotInv /\ ExposureInv /\ [Next]_vars
      => (SnapshotInv /\ ExposureInv)'
  BY SnapshotStep, ExposureStep
<1>. QED
  BY <1>1, <1>2, TypeCorrect, LeaseProtects, PTL DEF Spec

(* Whatever is lost, late, retried or restarted, an intent has one order   *)
(* at most, unless the transport itself repeats the request.               *)
THEOREM OneOrderHolds == Spec => []OneOrderPerIntent
<1>1. TypeOK /\ ExposureInv => OneOrderPerIntent
  <2>. SUFFICES ASSUME TypeOK, ExposureInv, "duplicate" \notin Faults, NEW i \in Intents
                PROVE  Cardinality(Placed(i)) <= 1
    BY DEF OneOrderPerIntent
  <2>1. rows[i].attempt \in Nat /\ rows[i].attempt <= 1
    BY DEF TypeOK, Rows, ExposureInv, AttemptInv
  <2>2. Cardinality(Placed(i)) \in Nat /\ Cardinality(Placed(i)) <= rows[i].attempt + 0
    BY FS_CardinalityType DEF ExposureInv, PlacedInv
  <2>. QED
    BY <2>1, <2>2
<1>. QED
  BY <1>1, ExposureHolds, TypeCorrect, PTL

(* A receipt that the owner closed has no order and never gets one.        *)
THEOREM ClosedAbsentHolds == Spec => []ClosedIsAbsent
<1>1. ExposureInv => ClosedIsAbsent
  BY DEF ExposureInv, BindingInv, PlacedInv, ClosedIsAbsent
<1>. QED
  BY <1>1, ExposureHolds, PTL

(* One intent at most has an order at the broker that no row is bound to.  *)
THEOREM ExposureAccountedHolds == Spec => []ExposureAccounted
<1>1. TypeOK /\ ExposureInv => ExposureAccounted
  <2>. SUFFICES ASSUME TypeOK, ExposureInv
                PROVE  ExposureAccounted
    OBVIOUS
  <2>1. ASSUME NEW i \in Intents, Unbound(i) PROVE Uncertain(i)
    <3>1. rows[i].state \notin {"absent", "READY"}
      <4>1. CASE rows[i].attempt = 0
        <5>1. Cardinality(Placed(i)) <= 0 /\ IsFiniteSet(Placed(i))
          BY <4>1 DEF ExposureInv, PlacedInv
        <5>2. Placed(i) = {}
          BY <5>1, FS_CardinalityType, FS_EmptySet
        <5>. QED
          BY <2>1, <5>2 DEF Unbound
      <4>. QED
        BY <4>1 DEF ExposureInv, AttemptInv
    <3>2. rows[i].state \notin {"ACKNOWLEDGED", "TERMINAL", "RESOLVED_NO_SUBMISSION"}
      BY <2>1 DEF ExposureInv, BindingInv, PlacedInv, Unbound
    <3>3. rows[i].state \in RowStates
      BY DEF TypeOK, Rows
    <3>. QED
      BY <2>1, <3>1, <3>2, <3>3 DEF Unbound, Uncertain, UNCERTAIN, RowStates
  <2>. QED
    BY <2>1 DEF ExposureAccounted, ExposureInv, UncertainInv, Uncertain
<1>. QED
  BY <1>1, ExposureHolds, TypeCorrect, PTL

LEMMA BoundStep ==
    ASSUME TypeOK, JobInv, LeaseInv, SnapshotInv, BindingInv, BoundOrderIsReal, [Next]_vars
    PROVE  BoundOrderIsReal'
<1>t. rows \in [Intents -> Rows] /\ broker \in [Intents -> [BrokerIds -> OrderStates]]
  BY DEF TypeOK
<1>1. CASE UNCHANGED vars
  BY <1>1 DEF vars, BoundOrderIsReal
<1>2. CASE Next
  <2>. SUFFICES ASSUME NEW k \in Intents, rows'[k].brokerId # None
                PROVE  LET order == broker'[k][rows'[k].brokerId] IN
                       /\ order.status # "none"
                       /\ rows'[k].filled <= order.filled
                       /\ rows'[k].state = "TERMINAL" =>
                            order.status \in Terminal /\ rows'[k].filled = order.filled
    BY DEF BoundOrderIsReal
  <2>0. ASSUME NEW x \in Items, Shown(k, x),
               rows'[k].brokerId = x.id, rows'[k].filled = x.filled,
               rows'[k].state = "TERMINAL" => x.status \in Terminal
        PROVE  LET order == broker'[k][rows'[k].brokerId] IN
               /\ order.status # "none"
               /\ rows'[k].filled <= order.filled
               /\ rows'[k].state = "TERMINAL" =>
                    order.status \in Terminal /\ rows'[k].filled = order.filled
    <3>1. Shown(k, x)'
      BY <1>2, <2>0, BrokerGrows
    <3>. QED
      BY <2>0, <3>1 DEF Shown
  <2>1. ASSUME rows'[k].brokerId = rows[k].brokerId, rows'[k].filled = rows[k].filled,
               rows'[k].state = "TERMINAL" => rows[k].state = "TERMINAL"
        PROVE  LET order == broker'[k][rows'[k].brokerId] IN
               /\ order.status # "none"
               /\ rows'[k].filled <= order.filled
               /\ rows'[k].state = "TERMINAL" =>
                    order.status \in Terminal /\ rows'[k].filled = order.filled
    <3>. DEFINE b == rows[k].brokerId
                x == [id |-> b, filled |-> rows[k].filled,
                      status |-> IF rows[k].state = "TERMINAL" THEN broker[k][b].status
                                                               ELSE "Live"]
    <3>1. b \in BrokerIds /\ rows[k].filled \in 0..Quantity
      BY <1>t, <2>1 DEF Rows
    <3>2. /\ broker[k][b].status # "none" /\ rows[k].filled <= broker[k][b].filled
          /\ rows[k].state = "TERMINAL" =>
               broker[k][b].status \in Terminal /\ rows[k].filled = broker[k][b].filled
          /\ broker[k][b] \in OrderStates
      BY <1>t, <2>1, <3>1 DEF BoundOrderIsReal
    <3>3. x \in Items
      BY <3>1, <3>2 DEF Items, Statuses, Terminal
    <3>4. Shown(k, x)
      BY <3>1, <3>2 DEF Shown, Terminal, OrderStates
    <3>5. /\ rows'[k].brokerId = x.id /\ rows'[k].filled = x.filled
          /\ rows'[k].state = "TERMINAL" => x.status \in Terminal
      BY <2>1, <3>2
    <3>. HIDE DEF x
    <3>. QED
      BY <2>0, <3>3, <3>4, <3>5
  <2>m. Moves(k)
    BY <1>2, RowMoves
  <2>2. CASE Bound(k)
    BY <2>0, <2>2 DEF Bound
  <2>3. CASE Begun(k)
    BY <2>3 DEF Begun, BindingInv
  <2>. QED
    BY <2>1, <2>2, <2>3, <2>m DEF Moves, Kept, Opened, Doubted, Escalated, Closed, Moved
<1>. QED
  BY <1>1, <1>2

(* A bound order exists at the broker and filled what the row says: no     *)
(* listing, however late, makes the ledger say what never happened.        *)
THEOREM BoundRealHolds == Spec => []BoundOrderIsReal
<1>1. Init => BoundOrderIsReal
  BY DEF Init, InitRows, NoRow, BoundOrderIsReal
<1>2. /\ TypeOK /\ JobInv /\ LeaseInv /\ SnapshotInv /\ ExposureInv
      /\ BoundOrderIsReal /\ [Next]_vars
      => BoundOrderIsReal'
  BY BoundStep DEF ExposureInv
<1>. QED
  BY <1>1, <1>2, TypeCorrect, LeaseProtects, ExposureHolds, PTL DEF Spec

-----------------------------------------------------------------------------
(* What one worker process adds: the deployment starts one uvicorn         *)
(* process, and its lock admits one check at a time.                       *)

OneProcess == \A p, q \in Processes : p = q

(* Evidence comes into force by the check that superseded the earlier one; *)
(* it goes out of force with time and with the next check.                 *)
LEMMA EvidenceStep ==
    ASSUME OneProcess, TypeOK, JobInv, EvidenceInv, [Next]_vars
    PROVE  EvidenceInv'
<1>t. /\ evidence \in [Reviews -> EvidenceRecords] /\ job \in [Processes -> Jobs]
      /\ \A e \in Reviews : evidence[e] \in EvidenceRecords /\ evidence[e].left \in Nat
  BY RecoveryAssumptions DEF TypeOK, EvidenceRecords
<1>1. ASSUME \A e \in Reviews : /\ evidence'[e].intent = evidence[e].intent
                                /\ evidence'[e].left > 0 => evidence[e].left > 0
                                /\ evidence'[e].left \in Nat,
             \A q \in Processes : job'[q].kind = "refresh" =>
                job[q].kind = "refresh" /\ job'[q].intent = job[q].intent
      PROVE  EvidenceInv'
  <2>1. \A e, f \in Reviews :
          /\ evidence'[e].intent = evidence'[f].intent
          /\ evidence'[e].left > 0 /\ evidence'[f].left > 0
          => e = f
    BY <1>1 DEF EvidenceInv
  <2>2. ASSUME NEW q \in Processes, NEW e \in Reviews,
               job'[q].kind = "refresh", evidence'[e].intent = job'[q].intent
        PROVE  evidence'[e].left = 0
    <3>1. evidence[e].left = 0
      BY <1>1, <2>2 DEF EvidenceInv
    <3>. QED
      BY <1>1, <3>1
  <2>. QED
    BY <2>1, <2>2 DEF EvidenceInv
<1>e. ASSUME NEW p \in Processes, NEW j, job' = [job EXCEPT ![p] = j],
             j.kind # "refresh"
      PROVE  \A q \in Processes : job'[q].kind = "refresh" =>
                job[q].kind = "refresh" /\ job'[q].intent = job[q].intent
  BY <1>t, <1>e
<1>i. ASSUME NEW p \in Processes, job' = [job EXCEPT ![p] = Idle]
      PROVE  \A q \in Processes : job'[q].kind = "refresh" =>
                job[q].kind = "refresh" /\ job'[q].intent = job[q].intent
  BY <1>e, <1>i, ConstantTypes
<1>u. UNCHANGED evidence => \A e \in Reviews :
                                /\ evidence'[e].intent = evidence[e].intent
                                /\ evidence'[e].left > 0 => evidence[e].left > 0
                                /\ evidence'[e].left \in Nat
  BY <1>t
<1>2. ASSUME NEW p \in Processes, NEW i \in Intents, StartPoll(p, i) PROVE EvidenceInv'
  <2>1. Check("poll", i).kind # "refresh"
    BY DEF Check
  <2>. QED
    BY <1>1, <1>2, <1>e, <1>u, <2>1 DEF StartPoll
<1>3. ASSUME NEW p \in Processes, NEW i \in Intents, StartRefresh(p, i) PROVE EvidenceInv'
  <2>1. /\ job'[p].kind = "refresh" /\ job'[p].intent = i
    BY <1>t, <1>3 DEF StartRefresh, Check
  <2>2. \A e \in Reviews : evidence'[e] = IF evidence[e].intent = i
                                          THEN [evidence[e] EXCEPT !.left = 0]
                                          ELSE evidence[e]
    BY <1>3 DEF StartRefresh, Superseded
  <2>3. \A e \in Reviews : /\ evidence'[e].intent = evidence[e].intent
                           /\ evidence'[e].left = IF evidence[e].intent = i THEN 0
                                                  ELSE evidence[e].left
    BY <1>t, <2>2 DEF EvidenceRecords
  <2>4. \A q \in Processes : q = p
    BY DEF OneProcess
  <2>5. \A e, f \in Reviews :
          /\ evidence'[e].intent = evidence'[f].intent
          /\ evidence'[e].left > 0 /\ evidence'[f].left > 0
          => e = f
    BY <2>3 DEF EvidenceInv
  <2>6. \A q \in Processes, e \in Reviews :
          job'[q].kind = "refresh" /\ evidence'[e].intent = job'[q].intent =>
              evidence'[e].left = 0
    BY <2>1, <2>3, <2>4
  <2>. QED
    BY <2>5, <2>6 DEF EvidenceInv
<1>4. ASSUME NEW p \in Processes, NEW f \in Reviews, StoreEvidence(p, f) PROVE EvidenceInv'
  <2>1. job[p].kind = "refresh" /\ job' = [job EXCEPT ![p] = Idle]
    BY <1>4 DEF StoreEvidence
  <2>2. CASE UNCHANGED evidence
    BY <1>1, <1>i, <1>u, <2>1, <2>2
  <2>3. ASSUME NEW v, evidence' = [evidence EXCEPT ![f] =
                                     [intent |-> job[p].intent, version |-> v,
                                      snap |-> job[p].snap, left |-> ReviewTTL,
                                      used |-> FALSE]]
        PROVE  EvidenceInv'
    <3>1. /\ evidence'[f].intent = job[p].intent
          /\ \A e \in Reviews \ {f} : evidence'[e] = evidence[e]
      BY <1>t, <2>3
    <3>2. \A e \in Reviews : evidence[e].intent = job[p].intent => evidence[e].left = 0
      BY <2>1 DEF EvidenceInv
    <3>3. \A q \in Processes : job'[q].kind # "refresh"
      BY <1>t, <2>1, ConstantTypes DEF OneProcess
    <3>4. ASSUME NEW e \in Reviews, NEW g \in Reviews,
                 evidence'[e].intent = evidence'[g].intent,
                 evidence'[e].left > 0, evidence'[g].left > 0
          PROVE  e = g
      <4>1. CASE e # f /\ g # f
        BY <3>1, <3>4, <4>1 DEF EvidenceInv
      <4>2. ASSUME e = f, g # f PROVE FALSE
        BY <3>1, <3>2, <3>4, <4>2
      <4>3. ASSUME g = f, e # f PROVE FALSE
        BY <3>1, <3>2, <3>4, <4>3
      <4>. QED
        BY <4>1, <4>2, <4>3
    <3>. QED
      BY <3>3, <3>4 DEF EvidenceInv
  <2>. QED
    BY <1>4, <2>2, <2>3 DEF StoreEvidence
<1>5. ASSUME NEW i \in Intents, NEW f \in Reviews, Resolve(i, f) PROVE EvidenceInv'
  <2>1. evidence' = [evidence EXCEPT ![f].used = TRUE] /\ UNCHANGED job
    BY <1>5 DEF Resolve
  <2>2. \A e \in Reviews : evidence'[e].intent = evidence[e].intent
                           /\ evidence'[e].left = evidence[e].left
    BY <1>t, <2>1 DEF EvidenceRecords
  <2>. QED
    BY <1>1, <1>t, <2>1, <2>2
<1>6. ASSUME Tick PROVE EvidenceInv'
  <2>1. \A e \in Reviews : evidence'[e] = [evidence[e] EXCEPT !.left = IF @ > 0 THEN @ - 1 ELSE 0]
    BY <1>6 DEF Tick
  <2>2. \A e \in Reviews : /\ evidence'[e].intent = evidence[e].intent
                           /\ evidence'[e].left = IF evidence[e].left > 0
                                                  THEN evidence[e].left - 1 ELSE 0
    BY <1>t, <2>1, ZenonT(30) DEF EvidenceRecords
  <2>3. \A e \in Reviews : /\ evidence'[e].left > 0 => evidence[e].left > 0
                           /\ evidence'[e].left \in Nat
    BY <1>t, <2>2
  <2>4. UNCHANGED job
    BY <1>6 DEF Tick
  <2>. QED
    BY <1>1, <2>2, <2>3, <2>4
<1>7. ASSUME NEW p \in Processes,
             ReadHistory(p) \/ ReadToday(p) \/ ReadDirect(p) \/ ReadFails(p)
             \/ ProviderFailure(p) \/ Observed(p)
      PROVE  EvidenceInv'
  <2>1. UNCHANGED evidence
    BY <1>7 DEF ReadHistory, ReadToday, ReadDirect, ReadFails, ProviderFailure, Observed
  <2>2. CASE job' = [job EXCEPT ![p] = Idle]
    BY <1>1, <1>i, <1>u, <2>1, <2>2
  <2>3. CASE \A q \in Processes : job'[q].kind = job[q].kind /\ job'[q].intent = job[q].intent
    BY <1>1, <1>u, <2>1, <2>3
  <2>4. ASSUME ReadHistory(p) \/ ReadToday(p)
        PROVE  \A q \in Processes : job'[q].kind = job[q].kind /\ job'[q].intent = job[q].intent
    <3>1. ASSUME NEW items, NEW next, See(p, items, next)
          PROVE  \A q \in Processes : job'[q].kind = job[q].kind /\ job'[q].intent = job[q].intent
      BY <1>t, <3>1 DEF See, Jobs
    <3>. QED
      BY <2>4, <3>1 DEF ReadHistory, ReadToday
  <2>5. ASSUME ReadDirect(p) \/ ReadFails(p) \/ Observed(p)
        PROVE  \A q \in Processes : job'[q].kind = job[q].kind /\ job'[q].intent = job[q].intent
    BY <1>t, <2>5 DEF ReadDirect, ReadFails, Observed, Jobs
  <2>6. ASSUME ProviderFailure(p)
        PROVE  \/ job' = [job EXCEPT ![p] = Idle]
               \/ \A q \in Processes : job'[q].kind = job[q].kind /\ job'[q].intent = job[q].intent
    BY <1>t, <2>6 DEF ProviderFailure, Jobs
  <2>. QED
    BY <1>7, <2>2, <2>3, <2>4, <2>5, <2>6
<1>8. ASSUME NEW p \in Processes, StoreResult(p) \/ ResultLost(p) \/ Restart(p)
      PROVE  EvidenceInv'
  <2>1. job' = [job EXCEPT ![p] = Idle] /\ UNCHANGED evidence
    BY <1>8 DEF StoreResult, ResultLost, Restart
  <2>. QED
    BY <1>1, <1>i, <1>u, <2>1
<1>9. ASSUME \/ UNCHANGED vars
             \/ \E i \in Intents :
                   \/ Create(i) \/ BeginAttempt(i) \/ MarkUnknown(i)
                   \/ RegisterProof(i)
                   \/ \E b \in BrokerIds : BrokerAccepts(i, b) \/ BrokerMoves(i, b)
      PROVE  EvidenceInv'
  <2>1. UNCHANGED <<job, evidence>>
    BY <1>9 DEF vars, Create, BeginAttempt, MarkUnknown, RegisterProof, BrokerAccepts,
                BrokerMoves
  <2>. QED
    BY <1>1, <1>u, <2>1
<1>. QED
  BY <1>2, <1>3, <1>4, <1>5, <1>6, <1>7, <1>8, <1>9 DEF Next, CheckStep

(* The owner decides on the newest check only.                             *)
THEOREM NewestEvidenceHolds ==
    ASSUME OneProcess
    PROVE  Spec => []NewestEvidenceDecides
<1>1. Init => EvidenceInv
  BY ConstantTypes DEF Init, EvidenceInv, NoEvidence
<1>2. TypeOK /\ JobInv /\ EvidenceInv /\ [Next]_vars => EvidenceInv'
  BY EvidenceStep
<1>3. EvidenceInv => NewestEvidenceDecides
  BY DEF EvidenceInv, NewestEvidenceDecides, Supports
<1>. QED
  BY <1>1, <1>2, <1>3, TypeCorrect, PTL DEF Spec

LEMMA CooldownStep ==
    ASSUME OneProcess, TypeOK, JobInv, CooldownInv, [Next]_vars
    PROVE  CooldownInv'
<1>t. job \in [Processes -> Jobs] /\ cooldown \in Nat /\ owed \in Nat
  BY RecoveryAssumptions DEF TypeOK
<1>i. ASSUME NEW p \in Processes,
             job' = [job EXCEPT ![p] = Idle] \/ job'[p].phase \notin Reading
      PROVE  \A q \in Processes : job'[q].phase \notin Reading
  <2>1. Idle.phase \notin Reading
    BY DEF Idle, Reading
  <2>. QED
    BY <1>t, <1>i, <2>1 DEF OneProcess
<1>1. ASSUME UNCHANGED <<cooldown, owed>>,
             \A q \in Processes : job'[q].phase \in Reading => job[q].phase \in Reading
      PROVE  CooldownInv'
  BY <1>1 DEF CooldownInv
<1>2. ASSUME NEW p \in Processes, NEW i \in Intents, StartPoll(p, i) \/ StartRefresh(p, i)
      PROVE  CooldownInv'
  <2>1. cooldown = 0 /\ UNCHANGED <<cooldown, owed>>
    BY <1>2 DEF StartPoll, StartRefresh, MayCheck
  <2>2. owed = 0
    BY <1>t, <2>1 DEF CooldownInv
  <2>. QED
    BY <2>1, <2>2 DEF CooldownInv
<1>3. ASSUME NEW p \in Processes, ReadHistory(p) \/ ReadToday(p) \/ ReadDirect(p)
      PROVE  CooldownInv'
  <2>1. job[p].phase \in Reading /\ UNCHANGED <<cooldown, owed>>
    BY <1>3 DEF ReadHistory, ReadToday, ReadDirect, Reading
  <2>. QED
    BY <2>1 DEF CooldownInv, OneProcess
<1>4. ASSUME NEW p \in Processes, ReadFails(p) PROVE CooldownInv'
  <2>1. job'[p].phase = "failed" /\ UNCHANGED <<cooldown, owed>>
    BY <1>t, <1>4 DEF ReadFails, Jobs
  <2>. QED
    BY <1>1, <1>i, <2>1 DEF Reading
<1>5. ASSUME NEW p \in Processes, ProviderFailure(p) PROVE CooldownInv'
  <2>1. job' = [job EXCEPT ![p] = Idle] \/ job'[p].phase = "apply"
    BY <1>t, <1>5 DEF ProviderFailure, Jobs
  <2>2. \A q \in Processes : job'[q].phase \notin Reading
    BY <1>i, <2>1 DEF Reading
  <2>3. PICK delay \in Capped(NextFailures)..MaxFailures :
          /\ cooldown' = IF delay > cooldown THEN delay ELSE cooldown
          /\ owed' = IF delay > owed THEN delay ELSE owed
    BY <1>5 DEF ProviderFailure
  <2>4. Capped(NextFailures) \in Nat
    BY RecoveryAssumptions DEF Capped, NextFailures, TypeOK
  <2>5. delay \in Nat
    BY <2>4, RecoveryAssumptions
  <2>6. owed' <= cooldown'
    BY <1>t, <2>3, <2>5 DEF CooldownInv
  <2>. QED
    BY <2>2, <2>6 DEF CooldownInv
<1>6. ASSUME NEW p \in Processes, Observed(p) PROVE CooldownInv'
  <2>1. job'[p].phase = "apply"
    BY <1>t, <1>6 DEF Observed, Jobs
  <2>2. \A q \in Processes : job'[q].phase \notin Reading
    BY <1>i, <2>1 DEF Reading
  <2>3. \/ cooldown' = 0 /\ owed' = 0
        \/ UNCHANGED <<cooldown, owed>>
    BY <1>6 DEF Observed
  <2>. QED
    BY <2>2, <2>3 DEF CooldownInv
<1>7. ASSUME NEW p \in Processes,
             \/ StoreResult(p) \/ ResultLost(p) \/ Restart(p)
             \/ \E e \in Reviews : StoreEvidence(p, e)
      PROVE  CooldownInv'
  <2>1. job' = [job EXCEPT ![p] = Idle] /\ UNCHANGED <<cooldown, owed>>
    BY <1>7 DEF StoreResult, ResultLost, Restart, StoreEvidence
  <2>. QED
    BY <1>1, <1>i, <2>1
<1>8. ASSUME Tick PROVE CooldownInv'
  <2>1. /\ cooldown' = IF cooldown > 0 THEN cooldown - 1 ELSE 0
        /\ owed' = IF owed > 0 THEN owed - 1 ELSE 0
        /\ UNCHANGED job
    BY <1>8 DEF Tick
  <2>2. owed' <= cooldown' /\ (owed = 0 => owed' = 0)
    BY <1>t, <2>1 DEF CooldownInv
  <2>. QED
    BY <2>1, <2>2 DEF CooldownInv
<1>9. ASSUME \/ UNCHANGED vars
             \/ \E i \in Intents :
                   \/ Create(i) \/ BeginAttempt(i) \/ MarkUnknown(i)
                   \/ RegisterProof(i)
                   \/ \E b \in BrokerIds : BrokerAccepts(i, b) \/ BrokerMoves(i, b)
                   \/ \E e \in Reviews : Resolve(i, e)
      PROVE  CooldownInv'
  <2>1. UNCHANGED <<job, cooldown, owed>>
    BY <1>9 DEF vars, Create, BeginAttempt, MarkUnknown, RegisterProof, BrokerAccepts,
                BrokerMoves, Resolve
  <2>. QED
    BY <1>1, <2>1
<1>. QED
  BY <1>2, <1>3, <1>4, <1>5, <1>6, <1>7, <1>8, <1>9 DEF Next, CheckStep

(* No GET while the delay that an earlier failure asked for lasts.         *)
THEOREM CooldownHolds ==
    ASSUME OneProcess
    PROVE  Spec => []CooldownRespected
<1>1. Init => CooldownInv
  BY DEF Init, CooldownInv
<1>2. TypeOK /\ JobInv /\ CooldownInv /\ [Next]_vars => CooldownInv'
  BY CooldownStep
<1>3. CooldownInv => CooldownRespected
  BY DEF CooldownInv, CooldownRespected
<1>. QED
  BY <1>1, <1>2, <1>3, TypeCorrect, PTL DEF Spec

=============================================================================
