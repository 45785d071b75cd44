--------------------------- MODULE MCTradeJournal ---------------------------
(* Small instances of TradeJournal: identical condors, or two of them. *)
EXTENDS TradeJournal

CONSTANTS ic1, ic2, e1, x1

SameLegs == [o \in Entries \cup Closes |-> ic1]
MCLegs == {SameLegs, [o \in Entries \cup Closes |-> IF o \in {e1, x1} THEN ic1 ELSE ic2]}
=============================================================================
