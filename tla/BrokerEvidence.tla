---------------------------- MODULE BrokerEvidence ----------------------------
(***************************************************************************)
(* What staging_reconciliation.py concludes from one search of the         *)
(* broker's orders: Ledger._decide, a pure function of the ledger row and  *)
(* the snapshot that the certification reader returned.                    *)
(*                                                                         *)
(* Statuses stand for the classes _decide tells apart: "Live" for every    *)
(* member of ACTIVE, "Filled", and "Cancelled" for the other members of    *)
(* TERMINAL.  A snapshot holds the matching orders; "sound" is FALSE when  *)
(* one of its items has another payload, account or order id than the row, *)
(* or fills that do not add up, all of which _decide treats alike.         *)
(***************************************************************************)
EXTENDS Naturals, FiniteSets

CONSTANTS
    BrokerIds,   \* order ids the broker may assign
    Quantity,    \* contracts of an order
    None         \* no order id, no lease, no intent

ASSUME EvidenceAssumptions ==
    /\ Quantity \in Nat \ {0}
    /\ None \notin BrokerIds

Statuses == {"Live", "Filled", "Cancelled"}
Terminal == {"Filled", "Cancelled"}

Items == [id: BrokerIds, status: Statuses, filled: 0..Quantity]
Snapshots == [items: SUBSET Items, sound: BOOLEAN, complete: BOOLEAN]

(* Two orders, one order in two conditions, or not the order the row knows. *)
Conflicting(row, snap) ==
    \/ ~ snap.sound
    \/ \E x, y \in snap.items : x # y
    \/ row.brokerId # None /\ \E x \in snap.items : x.id # row.brokerId

(* The reason _decide returns.                                             *)
Verdict(row, snap) ==
    CASE ~ snap.complete -> "INCOMPLETE_HISTORY"
      [] snap.complete /\ Conflicting(row, snap) ->
            "CONFLICTING_BROKER_EVIDENCE"
      [] snap.complete /\ ~ Conflicting(row, snap) /\ snap.items = {} ->
            "NO_MATCH_YET"
      [] OTHER ->
            IF \E x \in snap.items : x.filled < row.filled
            THEN "STALE_FILL_IGNORED"
            ELSE "BROKER_ORDER_MATCHED"

(* Faulty variant: cumulative fills are taken for increments.              *)
DecideAddsFills(row, snap) ==
    LET match == CHOOSE x \in snap.items : TRUE IN
    IF Verdict(row, snap) = "BROKER_ORDER_MATCHED"
    THEN [row EXCEPT !.state = "ACKNOWLEDGED", !.brokerId = match.id,
                     !.filled = @ + match.filled]
    ELSE row

(* The row it leaves: matched, sent to the owner, or as it was.            *)
Decide(row, snap) ==
    LET match == CHOOSE x \in snap.items : TRUE IN
    CASE Verdict(row, snap) = "CONFLICTING_BROKER_EVIDENCE" ->
            [row EXCEPT !.state = "MANUAL_REVIEW"]
      [] Verdict(row, snap) = "BROKER_ORDER_MATCHED" ->
            [row EXCEPT !.state = IF match.status \in Terminal
                                  THEN "TERMINAL" ELSE "ACKNOWLEDGED",
                        !.brokerId = match.id,
                        !.filled = match.filled]
      [] OTHER -> row

=============================================================================
