------------------------- MODULE OrderConstruction -------------------------
(***************************************************************************)
(* How an opening order comes to its numbers: the candidates of the chain  *)
(* (option_scanner), their prices (live_option_engine, debit_strategies),  *)
(* the trade and its risk (trade_builder), the broker-independent order    *)
(* (order_builder), and the checks between it and the broker (routes/      *)
(* order.py).  Strikes are points, money is in ticks for one contract of   *)
(* one point; scores and deltas only narrow the choice of a candidate.     *)
(***************************************************************************)
EXTENDS Integers, Sequences, FiniteSets, FiniteSetsExt

CONSTANTS Chains,           \* listed strikes of the expiration asked for
          Spot, Move,       \* spot price and expected move, in points
          Offsets,          \* the search grid around the expected move
          Widths,           \* wing widths a request may ask for
          Contracts,        \* quantities a request may ask for
          Mids,             \* prices one option may have
          TicksPerPoint,
          Increment,        \* CREDIT_INCREMENT
          MinCredit,        \* min_credit and BXK_MIN_ORDER_CREDIT
          MaxRisk,          \* BXK_MAX_ORDER_RISK
          Reserve,          \* the buying power that has to remain
          BuyingPower,      \* buying power of the account
          Fees,             \* fees the broker may charge
          MaxQuoteAge       \* the age from which a quote is stale

ASSUME ConstructionAssumption ==
    /\ Increment \in Nat \ {0} /\ TicksPerPoint \in Nat \ {0} /\ MinCredit \in Nat \ {0}
    /\ Mids \subseteq Nat /\ Fees \subseteq Nat /\ Contracts \subseteq 1..10
    /\ MaxQuoteAge \in Nat \ {0}
    /\ UNION Chains \subseteq Nat \ {0} /\ IsFiniteSet(UNION Chains)
    /\ Widths \subseteq Int /\ IsFiniteSet(Widths)
    /\ Spot \in Int /\ Move \in Int /\ Offsets \subseteq Int
    /\ BuyingPower \in Nat

VARIABLES
    ticket,      \* what the user asked for, and how far it is
    listed,      \* the chain when it was asked for
    order,       \* the order built, with the legs' quotes it was priced by
    quoteAge,    \* the age of the oldest of those quotes
    preflight    \* the broker's answer to the dry run

constructionVars == <<ticket, listed, order, quoteAge, preflight>>

Leg(action, kind, ratio) == [action |-> action, kind |-> kind, ratio |-> ratio]

(* The legs of each strategy, in the order both the builder and the        *)
(* validation expect.                                                      *)
Pattern == [
    iron_condor |-> <<Leg("SELL", "PUT", 1), Leg("BUY", "PUT", 1), Leg("SELL", "CALL", 1), Leg("BUY", "CALL", 1)>>,
    bull_put |-> <<Leg("SELL", "PUT", 1), Leg("BUY", "PUT", 1)>>,
    bear_call |-> <<Leg("SELL", "CALL", 1), Leg("BUY", "CALL", 1)>>,
    reverse_iron_condor |->
        <<Leg("SELL", "PUT", 1), Leg("BUY", "PUT", 1), Leg("BUY", "CALL", 1), Leg("SELL", "CALL", 1)>>,
    butterfly |-> <<Leg("BUY", "CALL", 1), Leg("SELL", "CALL", 2), Leg("BUY", "CALL", 1)>>,
    debit_call |-> <<Leg("BUY", "CALL", 1), Leg("SELL", "CALL", 1)>>,
    debit_put |-> <<Leg("BUY", "PUT", 1), Leg("SELL", "PUT", 1)>>]

Strategies == DOMAIN Pattern
Debits == {"reverse_iron_condor", "butterfly", "debit_call", "debit_put"}
Sign(leg) == leg.ratio * (IF leg.action = "BUY" THEN 1 ELSE -1)
Distance(a, b) == IF a > b THEN a - b ELSE b - a

-----------------------------------------------------------------------------
(* The candidates.                                                         *)

(* find_nearest_strike: the lower one of two at the same distance.         *)
Nearest(target, strikes) ==
    CHOOSE s \in strikes : \A r \in strikes :
        \/ Distance(s, target) < Distance(r, target)
        \/ Distance(s, target) = Distance(r, target) /\ s <= r

(* generate_candidate_condors: wings are the listed strikes next to the    *)
(* width, whatever width that gives.                                       *)
Condor(offset, width, strikes) ==
    LET sp == Nearest(Spot - Move + offset, strikes)
        sc == Nearest(Spot + Move - offset, strikes)
    IN  <<sp, Nearest(sp - width, strikes), sc, Nearest(sc + width, strikes)>>

(* generate_bull_put_candidates, generate_bear_call_candidates.            *)
BullPuts(width, strikes) ==
    {v \in {<<s, Nearest(s - width, strikes)>> : s \in strikes} : v[1] > v[2]}
BearCalls(width, strikes) ==
    {v \in {<<s, Nearest(s + width, strikes)>> : s \in strikes} : v[2] > v[1]}

(* debit_risk's own tests, for strikes in the order of the pattern.        *)
Ascending(strikes) == \A i \in 1..Len(strikes) - 1 : strikes[i] < strikes[i + 1]
WellShaped(strategy, strikes) ==
    /\ Len(strikes) = Len(Pattern[strategy])
    /\ IF strategy = "debit_put" THEN strikes[2] < strikes[1] ELSE Ascending(strikes)
    /\ strategy \in {"reverse_iron_condor", "butterfly"} =>
         strikes[2] - strikes[1] = strikes[Len(strikes)] - strikes[Len(strikes) - 1]

(* The wing width the trade is priced by: a condor's put wing.             *)
TradeWidth(strikes) == Distance(strikes[1], strikes[2])

(* selected_debit_legs: the exact contracts the user chose, and among them *)
(* all that construct_legs would choose for him.                           *)
DebitSelections(strategy, width, strikes) ==
    {d \in [1..Len(Pattern[strategy]) -> strikes] : WellShaped(strategy, d) /\ TradeWidth(d) = width}

Candidates(strategy, width, strikes) ==
    CASE strategy = "iron_condor" -> {Condor(o, width, strikes) : o \in Offsets}
      [] strategy = "bull_put" -> BullPuts(width, strikes)
      [] strategy = "bear_call" -> BearCalls(width, strikes)
      [] OTHER -> DebitSelections(strategy, width, strikes)

-----------------------------------------------------------------------------
(* The prices.                                                             *)

(* A value of each leg, weighed by its direction and ratio.                *)
Weighed(legs, value) ==
    LET part(i) == IF i <= Len(legs) THEN Sign(legs[i]) * value[i] ELSE 0
    IN  part(1) + part(2) + part(3) + part(4)

(* The mids of the legs: what is paid for them.                            *)
Cost(strategy, mids) == Weighed(Pattern[strategy], mids)

Positive(credit) == IF credit > 0 THEN credit ELSE 0

CondorCredit(mids) == Positive((mids[1] - mids[2]) + (mids[3] - mids[4]))
BullPutCredit(mids) == Positive(mids[1] - mids[2])
BearCallCredit(mids) == Positive(mids[1] - mids[2])

LiveCredit(strategy, mids) ==
    CASE strategy = "iron_condor" -> CondorCredit(mids)
      [] strategy = "bull_put" -> BullPutCredit(mids)
      [] strategy = "bear_call" -> BearCallCredit(mids)

(* Faulty variant: the credit is not compared with the width.              *)
CondorSuffices(strikes, mids) == CondorCredit(mids) >= MinCredit

(* The tests of build_best_trade, build_best_bull_put and                  *)
(* build_best_bear_call on a candidate and its prices.                     *)
WorthItsRisk(credit, width) == MinCredit <= credit /\ credit < width * TicksPerPoint
CondorQualifies(strikes, mids) == WorthItsRisk(CondorCredit(mids), strikes[1] - strikes[2])
BullPutQualifies(strikes, mids) ==
    strikes[1] < Spot /\ WorthItsRisk(BullPutCredit(mids), strikes[1] - strikes[2])
BearCallQualifies(strikes, mids) == WorthItsRisk(BearCallCredit(mids), strikes[2] - strikes[1])

CreditQualifies(strategy, strikes, mids) ==
    CASE strategy = "iron_condor" -> CondorQualifies(strikes, mids)
      [] strategy = "bull_put" -> BullPutQualifies(strikes, mids)
      [] strategy = "bear_call" -> BearCallQualifies(strikes, mids)

(* debit_risk's test of the price, before and after rounding.              *)
DebitQualifies(strategy, strikes, mids) ==
    Cost(strategy, mids) \in 1..TradeWidth(strikes) * TicksPerPoint - 1

Floor(price) == (price \div Increment) * Increment

-----------------------------------------------------------------------------
(* build_order: the limit is rounded down to the increment; a credit trade *)
(* takes the dollars lost by that into its risk.                           *)
CreditOrder(strategy, strikes, quantity, mids) ==
    LET credit == LiveCredit(strategy, mids)
        raw == TradeWidth(strikes) * TicksPerPoint - credit
        adjustment == (credit - Floor(credit)) * quantity
    IN  [strategy |-> strategy, strikes |-> strikes, quantity |-> quantity, limit |-> Floor(credit),
         maxRisk |-> raw * quantity + adjustment]

DebitOrder(strategy, strikes, quantity, mids) ==
    [strategy |-> strategy, strikes |-> strikes, quantity |-> quantity,
     limit |-> Floor(Cost(strategy, mids)),
     maxRisk |-> Floor(Cost(strategy, mids)) * quantity]

NoOrderYet == [strategy |-> "none", strikes |-> <<>>, quantity |-> 0, limit |-> 0, maxRisk |-> 0]
NoPreflight == [echoed |-> FALSE, impact |-> 0, remaining |-> 0, fees |-> 0]

ConstructionInit ==
    /\ ticket = [strategy |-> "none", width |-> 0, contracts |-> 0, stage |-> "idle"]
    /\ listed = {} /\ order = NoOrderYet /\ quoteAge = 0 /\ preflight = NoPreflight

AskForTrade ==
    /\ ticket.stage = "idle"
    /\ \E s \in Strategies, w \in Widths, n \in Contracts :
         ticket' = [strategy |-> s, width |-> w, contracts |-> n, stage |-> "asked"]
    /\ listed' \in Chains
    /\ UNCHANGED <<order, quoteAge, preflight>>

(* order_preview: the trade is priced and frozen.  An expiration that is   *)
(* not listed has no strikes, and so no trade.  A leg whose quote is       *)
(* missing, one-sided, crossed or without a time raises in                 *)
(* price_debit_legs, and in credit_preview_metadata leaves the order       *)
(* without a quote_timestamp: there is no review of it.                    *)
Preview ==
    LET s == ticket.strategy
        legs == 1..Len(Pattern[s])
    IN  /\ ticket.stage = "asked" /\ listed # {}
        /\ \E strikes \in Candidates(s, ticket.width, listed), mids \in [legs -> Mids] :
             /\ order' = IF s \in Debits
                         THEN DebitOrder(s, strikes, ticket.contracts, mids)
                         ELSE CreditOrder(s, strikes, ticket.contracts, mids)
             /\ IF s \in Debits THEN DebitQualifies(s, strikes, mids)
                                ELSE CreditQualifies(s, strikes, mids)
        /\ order'.limit > 0
        /\ ticket' = [ticket EXCEPT !.stage = "previewed"]
        /\ quoteAge' = 0
        /\ UNCHANGED <<listed, preflight>>

QuotesAge ==
    /\ ticket.stage \in {"previewed", "validated"} /\ quoteAge < MaxQuoteAge
    /\ quoteAge' = quoteAge + 1
    /\ UNCHANGED <<ticket, listed, order, preflight>>

(* _validate_order                                                         *)
StrikesOrdered(o) ==
    CASE o.strategy = "iron_condor" -> o.strikes[2] < o.strikes[1] /\ o.strikes[1] < o.strikes[3]
                                       /\ o.strikes[3] < o.strikes[4]
      [] o.strategy = "bull_put" -> o.strikes[2] < o.strikes[1]
      [] o.strategy = "bear_call" -> o.strikes[1] < o.strikes[2]
      [] OTHER -> WellShaped(o.strategy, o.strikes)

(* Faulty variant: only the wing the trade was priced by is compared.      *)
PutWingMatches(o, width) == TradeWidth(o.strikes) = width

WidthMatches(o, width) ==
    /\ TradeWidth(o.strikes) = width
    /\ o.strategy = "iron_condor" => o.strikes[4] - o.strikes[3] = width

Fresh == quoteAge < MaxQuoteAge

(* The checks of the premium and of the risk.                              *)
PremiumValid(o) ==
    /\ o.limit > 0
    /\ IF o.strategy \in Debits THEN o.limit < ticket.width * TicksPerPoint ELSE o.limit >= MinCredit
RiskValid(o) ==
    /\ o.strategy \in Debits => o.maxRisk = o.limit * o.quantity
    /\ o.maxRisk \in 1..MaxRisk

Valid(o) ==
    /\ o.quantity = ticket.contracts
    /\ StrikesOrdered(o) /\ WidthMatches(o, ticket.width)
    /\ Fresh
    /\ PremiumValid(o) /\ RiskValid(o)

Validate ==
    /\ ticket.stage = "previewed"
    /\ ticket' = [ticket EXCEPT !.stage = IF Valid(order) THEN "validated" ELSE "blocked"]
    /\ UNCHANGED <<listed, order, quoteAge, preflight>>

(* _evaluate_broker_dry_run, of whatever the broker answers: its own order *)
(* and its own arithmetic.  Two sums are compared to the cent and to five  *)
(* cents; that is less than a tick, so the sides are equal here.           *)
EchoesOrder(answer) == answer.echoed
BuyingPowerAddsUp(answer) ==
    /\ answer.impact > 0 /\ answer.remaining >= 0
    /\ answer.remaining >= Reserve
    /\ BuyingPower - answer.remaining = answer.impact
ImpactIsRisk(answer) == order.maxRisk > 0 /\ answer.impact = order.maxRisk + answer.fees

DryRunPasses(answer) == EchoesOrder(answer) /\ BuyingPowerAddsUp(answer) /\ ImpactIsRisk(answer)

DryRun ==
    /\ ticket.stage = "validated"
    /\ \E echoed \in BOOLEAN, impact \in 0..BuyingPower, remaining \in 0..BuyingPower, fees \in Fees :
         preflight' = [echoed |-> echoed, impact |-> impact, remaining |-> remaining, fees |-> fees]
    /\ ticket' = [ticket EXCEPT !.stage = IF DryRunPasses(preflight') THEN "accepted" ELSE "blocked"]
    /\ UNCHANGED <<listed, order, quoteAge>>

ConstructionNext == AskForTrade \/ Preview \/ QuotesAge \/ Validate \/ DryRun

ConstructionSpec == ConstructionInit /\ [][ConstructionNext]_constructionVars
-----------------------------------------------------------------------------
(* Every variable stays in its type.                                       *)
ConstructionTypeOK ==
    /\ ticket.stage \in {"idle", "asked", "previewed", "validated", "accepted", "blocked"}
    /\ ticket.strategy \in Strategies \cup {"none"}
    /\ listed \subseteq UNION Chains
    /\ order.maxRisk \in Nat /\ order.limit \in Nat
    /\ quoteAge \in 0..MaxQuoteAge
    /\ preflight \in [echoed : BOOLEAN, impact : 0..BuyingPower, remaining : 0..BuyingPower,
                      fees : Fees \cup {0}]

(* What the order pays back when the index settles at s, in ticks.         *)
Intrinsic(kind, strike, s) ==
    IF kind = "CALL" THEN (IF s > strike THEN s - strike ELSE 0)
                     ELSE (IF strike > s THEN strike - s ELSE 0)
SettlesAt(o, s) ==
    LET legs == Pattern[o.strategy]
    IN  Weighed(legs, [i \in DOMAIN legs |-> Intrinsic(legs[i].kind, o.strikes[i], s)]) * TicksPerPoint
Settlements == 0..(Max(UNION Chains) + Max(Widths))
PaidIn(o) == IF o.strategy \in Debits THEN -o.limit ELSE o.limit
WorstLoss(o) == Max({-(PaidIn(o) + SettlesAt(o, s)) : s \in Settlements}) * o.quantity

(* The risk that the limit, the broker's margin and the reserve are        *)
(* compared with is the real one: no settlement of the index can make an   *)
(* order that passed its checks lose more than max_risk, and none that     *)
(* passed the dry run more than the broker holds for it, whatever strikes  *)
(* the chain lists, whatever wing the trade was priced by and however far  *)
(* its limit was rounded.                                                  *)
ValidatedRiskIsWorstCase ==
    /\ ticket.stage \in {"validated", "accepted"} =>
         WorstLoss(order) = order.maxRisk /\ order.maxRisk <= MaxRisk
    /\ ticket.stage = "accepted" =>
         WorstLoss(order) + preflight.fees = BuyingPower - preflight.remaining
-----------------------------------------------------------------------------
(* Inductive strengthenings, for the proofs.                               *)

Built == {"previewed", "validated", "accepted"}

(* What was asked for.                                                     *)
TicketFits ==
    /\ ticket \in [strategy : Strategies \cup {"none"}, width : Widths \cup {0},
                   contracts : Contracts \cup {0},
                   stage : {"idle", "asked", "previewed", "validated", "accepted", "blocked"}]
    /\ ticket.stage # "idle" =>
         /\ ticket.strategy \in Strategies /\ ticket.width \in Widths
         /\ ticket.contracts \in Contracts /\ listed \in Chains

(* The order as built: the credit lost by rounding is in its risk.         *)
PricedInv ==
    ticket.stage \in Built =>
        /\ order.strategy \in Strategies /\ order.quantity \in Contracts /\ order.limit \in Nat
        /\ order.strikes \in [1..Len(Pattern[order.strategy]) -> UNION Chains]
        /\ order.maxRisk = order.quantity *
              IF order.strategy \in Debits THEN order.limit
              ELSE TradeWidth(order.strikes) * TicksPerPoint - order.limit

(* What the checks looked at is what is sent.                              *)
CheckedInv ==
    /\ ticket.stage \in {"validated", "accepted"} =>
         StrikesOrdered(order) /\ WidthMatches(order, ticket.width) /\ RiskValid(order)
    /\ ticket.stage = "accepted" => DryRunPasses(preflight)

ConstructionInv == ConstructionTypeOK /\ TicketFits /\ PricedInv /\ CheckedInv
=============================================================================
