------------------------- MODULE PositionSummaries -------------------------
(***************************************************************************)
(* How the legs an account holds are shown as trades (position_monitor.py, *)
(* build_position_summaries): the broker nets the trades into legs, and    *)
(* the monitor puts the legs back together, debit combinations first, then *)
(* condors, then verticals, and shows the rest one by one.  A summary is   *)
(* the set of the places of its legs in the broker's list.                 *)
(***************************************************************************)
EXTENDS OrderConstruction, SequencesExt

CONSTANTS Deals,      \* the trades that may be opened, as sequences of legs
          MaxDeals,   \* bound on the trades opened
          Premium     \* the price of a contract, by kind and strike, in ticks

(* The legs of a trade, one to four of them.                               *)
Lots == [action : {"BUY", "SELL"}, kind : {"CALL", "PUT"}, strike : Nat, quantity : Nat \ {0}, expiry : Nat]
StrikesTraded == UNION {{trade[n].strike : n \in DOMAIN trade} : trade \in Deals}

(* A call is cheaper the higher its strike, a put the lower, and neither   *)
(* by more than the strikes are apart.                                     *)
ASSUME BookAssumption ==
    /\ MaxDeals \in Nat
    /\ \A trade \in Deals : trade \in Seq(Lots) /\ Len(trade) \in 1..4
    /\ \A k \in StrikesTraded : Premium["CALL", k] \in Nat /\ Premium["PUT", k] \in Nat
    /\ \A a, b \in StrikesTraded : a < b =>
          /\ Premium["CALL", a] - Premium["CALL", b] \in 1..(b - a) * TicksPerPoint
          /\ Premium["PUT", b] - Premium["PUT", a] \in 1..(b - a) * TicksPerPoint

VARIABLES
    held,       \* the broker's list of the account's legs
    opened      \* how many trades were opened

bookVars == <<held, opened>>

Signed(leg) == IF leg.action = "BUY" THEN leg.quantity ELSE -leg.quantity
SameContract(a, b) == a.kind = b.kind /\ a.strike = b.strike /\ a.expiry = b.expiry

(* The broker keeps one position per contract, closed when it is at zero.  *)
Resized(leg, net) ==
    [leg EXCEPT !.quantity = IF net > 0 THEN net ELSE -net,
                !.action = IF net > 0 THEN "BUY" ELSE "SELL"]
Netted(legs, leg) ==
    LET same == {i \in DOMAIN legs : SameContract(legs[i], leg)}
        i == CHOOSE i \in same : TRUE
        net == Signed(legs[i]) + Signed(leg)
    IN  IF same = {} THEN Append(legs, leg)
        ELSE IF net = 0 THEN RemoveAt(legs, i)
        ELSE [legs EXCEPT ![i] = Resized(legs[i], net)]

Booked(legs, trade) ==
    LET book(b, n) == IF n <= Len(trade) THEN Netted(b, trade[n]) ELSE b
    IN  book(book(book(book(legs, 1), 2), 3), 4)

BookInit == held = <<>> /\ opened = 0

OpenTrade ==
    /\ opened < MaxDeals
    /\ \E trade \in Deals : held' = Booked(held, trade)
    /\ opened' = opened + 1

BookNext == OpenTrade

BookSpec == BookInit /\ [][BookNext]_bookVars
-----------------------------------------------------------------------------
Ranked(S, before(_, _)) ==
    [n \in 1..Cardinality(S) |-> CHOOSE i \in S : Cardinality({j \in S : before(j, i)}) = n - 1]
InOrder(S) == Ranked(S, LAMBDA i, j : i < j)
ByStrike(S) == Ranked(S, LAMBDA i, j : held[i].strike < held[j].strike
                                       \/ (held[i].strike = held[j].strike /\ i < j))
Fewest(S) == Min({held[i].quantity : i \in S})
Sorted(S) == [n \in 1..Cardinality(S) |-> held[ByStrike(S)[n]]]
Legs(S, kind, action) == {i \in S : held[i].kind = kind /\ held[i].action = action}

(* build_debit_combo_summary, with the tests of debit_risk.                *)
IsDebit(strategy, S) ==
    /\ Cardinality(S) = Len(Pattern[strategy])
    /\ LET legs == Sorted(S)
           strikes == [n \in DOMAIN legs |-> legs[n].strike]
           mids == [n \in DOMAIN legs |-> Premium[legs[n].kind, legs[n].strike]]
       IN  /\ \A n \in DOMAIN legs :
                 /\ legs[n].action = Pattern[strategy][n].action
                 /\ legs[n].kind = Pattern[strategy][n].kind
                 /\ legs[n].quantity = Pattern[strategy][n].ratio * Fewest(S)
           /\ WellShaped(strategy, strikes)
           /\ DebitQualifies(strategy, strikes, mids)

IsCombination(S) == IsDebit("butterfly", S) \/ IsDebit("reverse_iron_condor", S)

(* Faulty variant: a leg may serve two butterflies.                        *)
ButterfliesOfAny(m, S, taken) ==
    {B \in {{l, m, u} : l \in Legs(S, "CALL", "BUY"), u \in Legs(S, "CALL", "BUY")} :
        IsDebit("butterfly", B)}

(* A butterfly around this short call, of legs not yet shown.              *)
ButterfliesAround(m, S, taken) ==
    {B \in {{l, m, u} : l \in Legs(S, "CALL", "BUY"), u \in Legs(S, "CALL", "BUY")} :
        IsDebit("butterfly", B) /\ B \cap UNION taken = {}}

(* The debit combinations of one expiration: all of its legs, or else the  *)
(* butterflies that have only one way to be put together.                  *)
WithButterfly(taken, m, S) ==
    LET around == ButterfliesAround(m, S, taken)
    IN  IF Cardinality(around) = 1 THEN taken \cup around ELSE taken
DebitSummaries(S) ==
    LET shorts == Legs(S, "CALL", "SELL")
        taken[n \in 0..Cardinality(shorts)] ==
            IF n = 0 THEN {} ELSE WithButterfly(taken[n - 1], InOrder(shorts)[n], S)
    IN  IF IsCombination(S) THEN {S} ELSE taken[Cardinality(shorts)]

(* build_iron_condor_summary                                               *)
IsCondor(S) ==
    /\ Cardinality(S) = 4
    /\ \E lp \in Legs(S, "PUT", "BUY"), sp \in Legs(S, "PUT", "SELL"),
          sc \in Legs(S, "CALL", "SELL"), lc \in Legs(S, "CALL", "BUY") :
         /\ held[lp].strike < held[sp].strike /\ held[sp].strike < held[sc].strike
         /\ held[sc].strike < held[lc].strike

(* The legs of equal expiration and quantity, four by four as listed.      *)
Fours(S) == {{InOrder(S)[4 * b + n] : n \in 1..4} : b \in 0..(Cardinality(S) \div 4) - 1}
WholeCondors(S) ==
    /\ Cardinality(S) > 0 /\ Cardinality(S) % 4 = 0
    /\ \A F \in Fours(S) : IsDebit("reverse_iron_condor", F) \/ IsCondor(F)

(* Each short leg, from the lowest strike, with the nearest long leg of    *)
(* its kind that is still free; the first listed of two equally near.      *)
NearestLong(s, longs) ==
    CHOOSE l \in longs : \A k \in longs :
        LET near(i) == Distance(held[i].strike, held[s].strike)
        IN  near(l) < near(k) \/ (near(l) = near(k) /\ l <= k)
WithVertical(taken, s, S, kind) ==
    LET longs == Legs(S, kind, "BUY") \ UNION taken
    IN  IF longs = {} THEN taken ELSE taken \cup {{s, NearestLong(s, longs)}}
VerticalSummaries(S, kind) ==
    LET shorts == Legs(S, kind, "SELL")
        taken[n \in 0..Cardinality(shorts)] ==
            IF n = 0 THEN {} ELSE WithVertical(taken[n - 1], ByStrike(shorts)[n], S, kind)
    IN  taken[Cardinality(shorts)]

GroupSummaries(S) ==
    IF WholeCondors(S) THEN Fours(S)
    ELSE LET pairs == VerticalSummaries(S, "PUT") \cup VerticalSummaries(S, "CALL")
         IN  pairs \cup {{i} : i \in S \ UNION pairs}

Summaries ==
    LET debits == UNION {DebitSummaries({i \in DOMAIN held : held[i].expiry = e}) :
                             e \in {held[i].expiry : i \in DOMAIN held}}
        rest == DOMAIN held \ UNION debits
        Group(e, q) == {i \in rest : held[i].expiry = e /\ held[i].quantity = q}
    IN  debits \cup UNION {GroupSummaries(Group(held[i].expiry, held[i].quantity)) : i \in rest}

-----------------------------------------------------------------------------
Price(leg) == Premium[leg.kind, leg.strike]

(* What the legs of a summary add up to: one, two, three or four.          *)
Added(parts) ==
    LET part(n) == IF n <= Len(parts) THEN parts[n] ELSE 0
    IN  part(1) + part(2) + part(3) + part(4)

(* What was received for one unit of the summary, in ticks.                *)
Received(S) ==
    Added([n \in 1..Cardinality(S) |-> -(Signed(Sorted(S)[n]) \div Fewest(S)) * Price(Sorted(S)[n])])
WingOf(S, kind) == Max({Distance(held[i].strike, held[j].strike) :
                           i \in Legs(S, kind, "BUY"), j \in Legs(S, kind, "SELL")})

(* max_risk, where the summary shows one: a short option alone has none.   *)
RiskShown(S) == \A i \in S : Cardinality(S) = 1 => held[i].action = "BUY"
Risk(S) ==
    LET width == Max({Distance(held[i].strike, held[j].strike) : i, j \in S}) * TicksPerPoint
        wings == Max({WingOf(S, "PUT"), WingOf(S, "CALL")}) * TicksPerPoint
    IN  Fewest(S) * (CASE IsCondor(S) -> wings - Received(S)
                       [] ~IsCondor(S) /\ Received(S) < 0 -> -Received(S)
                       [] OTHER -> Positive(width - Received(S)))

(* The result of the legs of the summary when the index settles at x.      *)
Result(leg, x) == Signed(leg) * (Intrinsic(leg.kind, leg.strike, x) * TicksPerPoint - Price(leg))
Outcome(S, x) == Added([n \in 1..Cardinality(S) |-> Result(Sorted(S)[n], x)])
BookSettlements == {0} \cup {held[i].strike : i \in DOMAIN held}
                       \cup {2 * held[i].strike : i \in DOMAIN held}

(* Every variable stays in its type.                                       *)
BookTypeOK ==
    /\ opened \in 0..MaxDeals
    /\ held \in Seq(Lots)
    /\ \A i \in DOMAIN held : /\ held[i].strike \in StrikesTraded
                              /\ \A j \in DOMAIN held : SameContract(held[i], held[j]) => i = j

(* However the trades of an account overlap, every open leg is shown in    *)
(* one summary and only one ("An open parseable SPX option position should *)
(* never disappear"), and the risk a summary shows is the most its legs    *)
(* can lose at expiration, so that the user acts on the real exposure.     *)
BookShownWhole ==
    /\ UNION Summaries = DOMAIN held
    /\ \A A, B \in Summaries : A \cap B # {} => A = B
    /\ \A A \in Summaries :
         RiskShown(A) => Risk(A) = Max({-Outcome(A, x) : x \in BookSettlements})
=============================================================================
