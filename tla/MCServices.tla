----------------------------- MODULE MCServices -----------------------------
(***************************************************************************)
(* The services that share no state with each other, on small instances:   *)
(* in each behaviour one of them moves and the others stay as they began.  *)
(***************************************************************************)
EXTENDS TLC, SmsConsent, AccountSetup, StagingConfirmation, StopAudit, BrokerConnections,
        PositionSummaries, OvernightLearning, DaytimeAlerts

VARIABLE mover    \* the service that moves

serviceVars == <<mover, consentVars, setupVars, confirmVars, auditVars, connVars, constructionVars,
                  bookVars, learningVars, dayVars>>

CONSTANTS u1, p1

MCPending == [u \in Subscribers |-> IF u = u1 THEN p1 ELSE NoPhone]
MCProfits == -1..1
MCOffsets == -1..1
MCClosures == {{}, {2}}
MCChains == {{}, 1..6, {1, 2, 4, 6}, {1, 3, 5, 8}}    \* none, a dense one, sparse ones

(* Trades over six strikes: spreads, condors and debit combinations, with  *)
(* ratio spreads and single options that the broker nets with them.        *)
BookStrikes == {4, 8, 12, 16, 20, 24}
Shorts == {<<4, 12>>, <<12, 20>>, <<8, 16>>}    \* lower strikes of two wings
MCPremium == [k \in {"CALL", "PUT"}, s \in BookStrikes |->
                 <<27, 20, 14, 9, 5, 2>>[IF k = "CALL" THEN s \div 4 ELSE 7 - s \div 4]]
Lot(a, k, s, q, e) == [action |-> a, kind |-> k, strike |-> s, quantity |-> q, expiry |-> e]
Pair(k, s, q, b, r, e) == <<Lot("SELL", k, s, q, e), Lot("BUY", k, b, r, e)>>
Wings == {w \in BookStrikes \X {4, 12, 20} : w[1] # w[2]}
MCDeals == UNION {
    {Pair(k, w[1], q, w[2], q, 0) : k \in {"CALL", "PUT"}, w \in Wings}
    \cup {Pair("CALL", s, 2 * q, b, q, 0) : s \in {8, 16}, b \in {4, 20}}
    \cup {Pair("PUT", w[1] + 4, q, w[1], q, 0) \o Pair("CALL", w[2], q, w[2] + 4, q, 0) : w \in Shorts}
    \cup {Pair("PUT", w[1], q, w[1] + 4, q, 0) \o Pair("CALL", w[2] + 4, q, w[2], q, 0) : w \in Shorts}
    \cup {Pair("CALL", a + 4, 2 * q, a, q, e) \o <<Lot("BUY", "CALL", a + 8, q, e)>> : a \in {4, 8, 12}, e \in {0, 1}}
    \cup {<<Lot(d, k, s, q, 0)>> : d \in {"BUY", "SELL"}, k \in {"CALL", "PUT"}, s \in {4, 12}} : q \in {1, 2}}

Services == {"consent", "setup", "confirmation", "audit", "connections", "construction",
              "positions", "learning", "deployment"}

(* A deployment: two processes run the daytime monitor at once, on two     *)
(* positions, within a minute in which the settings stay as they are.      *)
MCPairedThreats == {[state |-> "CRITICAL", side |-> "PUT"], [state |-> "RED", side |-> "CALL"]}
Alike == Permutations(Monitors) \cup Permutations(Positions)

DeploymentNext ==
    \/ \E m \in Monitors : CheckStep(m)
    \/ \E p \in Positions : MarketTurns(p)

ServicesInit ==
    /\ mover \in Services
    /\ ConsentInit /\ SetupInit /\ ConfirmationInit /\ StopAuditInit /\ ConnectionsInit
    /\ ConstructionInit /\ BookInit /\ LearningInit /\ DaytimeInit
    /\ mover # "connections" => brokerName = "schwab"
    /\ mover # "learning" => holidays = {}
    /\ mover # "deployment" => threat = [p \in Positions |-> [state |-> "RED", side |-> "CALL"]]

ServicesNext ==
    /\ UNCHANGED mover
    /\ \/ mover = "consent" /\ ConsentNext
       \/ mover # "consent" /\ UNCHANGED consentVars
    /\ \/ mover = "setup" /\ SetupNext
       \/ mover # "setup" /\ UNCHANGED setupVars
    /\ \/ mover = "confirmation" /\ ConfirmationNext
       \/ mover # "confirmation" /\ UNCHANGED confirmVars
    /\ \/ mover = "audit" /\ StopAuditNext
       \/ mover # "audit" /\ UNCHANGED auditVars
    /\ \/ mover = "connections" /\ ConnectionsNext
       \/ mover # "connections" /\ UNCHANGED connVars
    /\ \/ mover = "construction" /\ ConstructionNext
       \/ mover # "construction" /\ UNCHANGED constructionVars
    /\ \/ mover = "positions" /\ BookNext
       \/ mover # "positions" /\ UNCHANGED bookVars
    /\ \/ mover = "learning" /\ LearningNext
       \/ mover # "learning" /\ UNCHANGED learningVars
    /\ \/ mover = "deployment" /\ DeploymentNext
       \/ mover # "deployment" /\ UNCHANGED dayVars

ServicesSpec == ServicesInit /\ [][ServicesNext]_serviceVars

(* Every variable of every service stays in its type.                      *)
ServicesTypeOK ==
    /\ mover \in Services
    /\ ConsentTypeOK /\ SetupTypeOK /\ ConfirmationTypeOK /\ StopAuditTypeOK
    /\ ConnectionsTypeOK /\ ConstructionTypeOK /\ BookTypeOK
    /\ LearningTypeOK /\ DaytimeTypeOK
=============================================================================
