--------------------------- MODULE ServicesProofs ---------------------------
(***************************************************************************)
(* Proofs about five of the services that share no state: the broker       *)
(* connection trades the account it shows, what is learned of a night is   *)
(* of that night, the row of a stop audit says what its samples say, a row *)
(* of the journal ended as the trade did, and the risk of an order is the  *)
(* most it can lose.                                                       *)
(***************************************************************************)
EXTENDS BrokerConnections, OvernightLearning, StopAudit, TradeJournal, OrderConstruction,
        FiniteSetTheorems, TLAPS

(* A finite set of numbers that is not empty has a greatest one.           *)
LEMMA Greatest ==
    ASSUME NEW S, S \subseteq Int, IsFiniteSet(S), S # {}
    PROVE  Max(S) \in S /\ \A d \in S : d <= Max(S)
<1>. DEFINE After(d) == {x \in S : x > d}
            Rest == {After(d) : d \in S}
<1>2. Rest \in SUBSET FiniteSubsetsOf(S)
  <2>1. ASSUME NEW d \in S PROVE After(d) \in FiniteSubsetsOf(S)
    <3>1. After(d) \in SUBSET S
      OBVIOUS
    <3>2. IsFiniteSet(After(d))
      BY <3>1, FS_Subset
    <3>. QED
      BY <3>1, <3>2 DEF FiniteSubsetsOf
  <2>. QED
    BY <2>1
<1>3. Rest # {}
  OBVIOUS
<1>4. IsWellFoundedOn(StrictSubsetOrdering(S), FiniteSubsetsOf(S))
  BY FS_StrictSubsetOrderingWellFounded
<1>5. \E x \in Rest : \A y \in Rest : ~(<<y, x>> \in StrictSubsetOrdering(S))
  <2>. HIDE DEF Rest
  <2>. QED
    BY <1>2, <1>3, <1>4, WFMin
<1>6. PICK m \in S : \A y \in Rest : ~(<<y, After(m)>> \in StrictSubsetOrdering(S))
  BY <1>5
<1>7. ASSUME NEW d \in S, d > m PROVE FALSE
  <2>1. After(d) \in Rest
    OBVIOUS
  <2>0. \A x \in S : x \in Int
    OBVIOUS
  <2>4. \A x \in S : x > d => x > m
    BY <1>7, <2>0
  <2>5. ~(d > d)
    BY <2>0
  <2>2. After(d) \subseteq After(m) /\ d \in After(m) /\ d \notin After(d)
    BY <1>7, <2>4, <2>5
  <2>3. After(d) \in SUBSET S /\ After(m) \in SUBSET S /\ After(d) # After(m)
    BY <2>2
  <2>. HIDE DEF After, Rest
  <2>6. <<After(d), After(m)>> \in StrictSubsetOrdering(S)
    BY <2>2, <2>3 DEF StrictSubsetOrdering
  <2>. QED
    BY <1>6, <2>1, <2>6
<1>8. \A d \in S : m >= d
  BY <1>7
<1>9. Max(S) \in S /\ \A d \in S : Max(S) >= d
  BY <1>8 DEF Max
<1>. QED
  BY <1>9

-----------------------------------------------------------------------------
(* The connection to a broker.                                             *)

(* The account chosen from those found is one of them, or none.            *)
LEMMA OnlyOfFound ==
    ASSUME NEW found
    PROVE  OnlyOf(found) \in found \cup {NoAccount}
<1>1. Cardinality({}) = 0
  BY FS_EmptySet
<1>2. ASSUME Cardinality(found) = 1 PROVE found # {}
  BY <1>1, <1>2
<1>3. ASSUME Cardinality(found) = 1 PROVE OnlyOf(found) \in found
  BY <1>2, <1>3 DEF OnlyOf
<1>. QED
  BY <1>3 DEF OnlyOf

LEMMA SelectedFound ==
    ASSUME NEW before, NEW found
    PROVE  Selected(before, found) \in found \cup {NoAccount}
<1>1. OnlyOf(found) \in found \cup {NoAccount}
  BY OnlyOfFound
<1>2. OnlyOf(accounts.default \cap found) \in (accounts.default \cap found) \cup {NoAccount}
  BY OnlyOfFound
<1>3. SchwabSelected(before, found) \in found \cup {NoAccount}
  BY <1>1, <1>2 DEF SchwabSelected
<1>4. TastytradeSelected(before, found) \in found \cup {NoAccount}
  BY <1>1 DEF TastytradeSelected
<1>. QED
  BY <1>3, <1>4 DEF Selected

LEMMA SynchronizedFits ==
    ASSUME NEW before, NEW found \in SUBSET BrokerAccounts
    PROVE  /\ Synchronized(before, found) \in [active : SUBSET BrokerAccounts, default : SUBSET BrokerAccounts]
           /\ Synchronized(before, found).active = found
           /\ Synchronized(before, found).default = {Selected(before, found)} \ {NoAccount}
           /\ Synchronized(before, found).default \subseteq found
<1>1. Selected(before, found) \in found \cup {NoAccount}
  BY SelectedFound
<1>. QED
  BY <1>1 DEF Synchronized

LEMMA NewIdNatural ==
    ASSUME ConnectionState
    PROVE  NewId \in Nat \ {0}
<1>1. Cardinality(usedStates) \in Nat
  BY FS_CardinalityType DEF ConnectionState
<1>. QED
  BY <1>1 DEF NewId, ConnectionState

(* What every step does to the identifiers: those used up count.           *)
LEMMA ConnectionTypes ==
    ASSUME ConnectionState, ConnectionsNext
    PROVE  ConnectionState'
<1>. USE ConnectionAssumption
<1>n. NewId \in Nat
  BY NewIdNatural
<1>c. NoCall \in ConnectionCalls
  BY DEF NoCall, ConnectionCalls
<1>r. NoConnection \in ConnectionRows
  BY DEF NoConnection, ConnectionRows
<1>e. \A c \in Calls : CallEnds(c) => call' \in [Calls -> ConnectionCalls]
  BY <1>c DEF CallEnds, ConnectionState
<1>1. ASSUME NEW s \in OAuthStates, BeginOAuth(s) PROVE ConnectionState'
  <2>1. IsFiniteSet(usedStates')
    BY <1>1, FS_AddElement DEF BeginOAuth, ConnectionState
  <2>2. connection' \in ConnectionRows
    BY <1>1, <1>n, <1>r DEF BeginOAuth, ConnectionState, ConnectionRows
  <2>. QED
    BY <1>1, <2>1, <2>2 DEF BeginOAuth, ConnectionState
<1>2. ASSUME NEW s \in OAuthStates, CancelOAuth(s) PROVE ConnectionState'
  <2>1. connection' \in ConnectionRows
    BY <1>2 DEF CancelOAuth, ConnectionState, ConnectionRows
  <2>. QED
    BY <1>2, <2>1 DEF CancelOAuth, ConnectionState
<1>3. ASSUME NEW c \in Calls, NEW s \in OAuthStates, BeginCallback(c, s) PROVE ConnectionState'
  <2>1. connection' \in ConnectionRows
    BY <1>3 DEF BeginCallback, ConnectionState, ConnectionRows
  <2>2. grants' \in 0..MaxGrants /\ grants + 1 \in 0..MaxGrants
    BY <1>3 DEF BeginCallback, ConnectionState
  <2>3. [op |-> "callback", id |-> connection.id, account |-> connection.account,
         grant |-> grants + 1] \in ConnectionCalls
    BY <2>2 DEF ConnectionState, ConnectionRows, ConnectionCalls
  <2>4. call' \in [Calls -> ConnectionCalls]
    BY <1>3, <2>3 DEF BeginCallback, ConnectionState
  <2>. QED
    BY <1>3, <2>1, <2>2, <2>4 DEF BeginCallback, ConnectionState
<1>4. ASSUME NEW c \in Calls, CompleteCallback(c) PROVE ConnectionState'
  <2>1. PICK found \in (SUBSET BrokerAccounts) \ {{}} :
           /\ connection' = [connection EXCEPT !.verified = TRUE, !.grant = call[c].grant,
                                !.period = call[c].grant,
                                !.account = IF Selected(call[c].account, found) = call[c].account
                                            THEN @ ELSE Selected(call[c].account, found)]
           /\ accounts' = Synchronized(call[c].account, found)
           /\ CallEnds(c) /\ Crossing(Calls \ {c})
           /\ UNCHANGED <<brokerName, preferred, grants, usedStates>>
    BY <1>4 DEF CompleteCallback
  <2>2. Selected(call[c].account, found) \in BrokerAccounts \cup {NoAccount}
    BY SelectedFound
  <2>3. call[c] \in ConnectionCalls
    BY DEF ConnectionState
  <2>4. connection' \in ConnectionRows
    <3>. DEFINE chosen == IF Selected(call[c].account, found) = call[c].account
                          THEN connection.account ELSE Selected(call[c].account, found)
    <3>1. chosen \in BrokerAccounts \cup {NoAccount}
      BY <2>2 DEF ConnectionState, ConnectionRows
    <3>2. call[c].grant \in 0..MaxGrants
      BY <2>3 DEF ConnectionCalls
    <3>3. connection' = [connection EXCEPT !.verified = TRUE, !.grant = call[c].grant,
                            !.period = call[c].grant, !.account = chosen]
      BY <2>1
    <3>. HIDE DEF chosen
    <3>. QED
      BY <3>1, <3>2, <3>3, ZenonT(30) DEF ConnectionState, ConnectionRows
  <2>5. accounts' \in [active : SUBSET BrokerAccounts, default : SUBSET BrokerAccounts]
    BY <2>1, SynchronizedFits
  <2>6. crossed' \in BOOLEAN
    BY <2>1 DEF Crossing, ConnectionState
  <2>. QED
    BY <1>e, <2>1, <2>4, <2>5, <2>6 DEF ConnectionState
<1>5. ASSUME NEW c \in Calls, CallFails(c) PROVE ConnectionState'
  BY <1>e, <1>5 DEF CallFails, ConnectionState
<1>6. ASSUME NEW c \in Calls, BeginConnect(c) PROVE ConnectionState'
  <2>1. grants' \in 0..MaxGrants /\ grants + 1 \in 0..MaxGrants
    BY <1>6 DEF BeginConnect, ConnectionState
  <2>2. [NoCall EXCEPT !.op = "connect", !.grant = grants + 1] \in ConnectionCalls
    BY <1>c, <2>1 DEF ConnectionCalls
  <2>3. call' \in [Calls -> ConnectionCalls]
    BY <1>6, <2>2 DEF BeginConnect, ConnectionState
  <2>. QED
    BY <1>6, <2>1, <2>3 DEF BeginConnect, ConnectionState
<1>7. ASSUME NEW c \in Calls, CommitConnect(c) PROVE ConnectionState'
  <2>0. PICK found \in (SUBSET BrokerAccounts) \ {{}} : \E requested \in found :
           /\ connection' = [connection EXCEPT !.id = IF Connected THEN @ ELSE NewId,
                                !.verified = TRUE, !.account = requested, !.live = FALSE,
                                !.grant = call[c].grant, !.period = call[c].grant]
           /\ accounts' = Synchronized(requested, found)
           /\ CallEnds(c) /\ Crossing(Calls \ {c})
           /\ UNCHANGED <<brokerName, preferred, grants, usedStates>>
    BY <1>7 DEF CommitConnect
  <2>1. PICK requested \in found :
           /\ connection' = [connection EXCEPT !.id = IF Connected THEN @ ELSE NewId,
                                !.verified = TRUE, !.account = requested, !.live = FALSE,
                                !.grant = call[c].grant, !.period = call[c].grant]
           /\ accounts' = Synchronized(requested, found)
           /\ CallEnds(c) /\ Crossing(Calls \ {c})
           /\ UNCHANGED <<brokerName, preferred, grants, usedStates>>
    BY <2>0
  <2>2. call[c].grant \in 0..MaxGrants
    BY DEF ConnectionState, ConnectionCalls
  <2>3. connection' \in ConnectionRows
    <3>. DEFINE chosen == IF Connected THEN connection.id ELSE NewId
    <3>1. chosen \in Nat /\ requested \in BrokerAccounts
      BY <1>n, <2>1 DEF ConnectionState, ConnectionRows
    <3>2. connection' = [connection EXCEPT !.id = chosen,
                            !.verified = TRUE, !.account = requested, !.live = FALSE,
                            !.grant = call[c].grant, !.period = call[c].grant]
      BY <2>1
    <3>. HIDE DEF chosen
    <3>. QED
      BY <2>2, <3>1, <3>2, ZenonT(30) DEF ConnectionState, ConnectionRows
  <2>4. accounts' \in [active : SUBSET BrokerAccounts, default : SUBSET BrokerAccounts]
    BY <2>1, SynchronizedFits
  <2>5. crossed' \in BOOLEAN
    BY <2>1 DEF Crossing, ConnectionState
  <2>. QED
    BY <1>e, <2>1, <2>3, <2>4, <2>5 DEF ConnectionState
<1>8. ASSUME NEW c \in Calls, BeginRefresh(c) PROVE ConnectionState'
  <2>1. [NoCall EXCEPT !.op = "refresh", !.id = connection.id,
                       !.grant = connection.grant] \in ConnectionCalls
    BY <1>c DEF ConnectionCalls, ConnectionState, ConnectionRows
  <2>2. call' \in [Calls -> ConnectionCalls]
    BY <1>8, <2>1 DEF BeginRefresh, ConnectionState
  <2>. QED
    BY <1>8, <2>2 DEF BeginRefresh, ConnectionState
<1>9. ASSUME NEW c \in Calls, CommitRefresh(c) PROVE ConnectionState'
  <2>1. call[c].grant \in 0..MaxGrants
    BY DEF ConnectionState, ConnectionCalls
  <2>2. connection' \in ConnectionRows
    BY <1>9, <2>1 DEF CommitRefresh, ConnectionState, ConnectionRows
  <2>. QED
    BY <1>e, <1>9, <2>2 DEF CommitRefresh, ConnectionState
<1>10. ASSUME NEW a \in BrokerAccounts, SelectAccount(a) PROVE ConnectionState'
  <2>1. connection' \in ConnectionRows
    BY <1>10 DEF SelectAccount, ConnectionState, ConnectionRows
  <2>2. accounts' \in [active : SUBSET BrokerAccounts, default : SUBSET BrokerAccounts]
    BY <1>10 DEF SelectAccount, ConnectionState
  <2>. QED
    BY <1>10, <2>1, <2>2 DEF SelectAccount, ConnectionState, Crossing
<1>11. ASSUME NEW enabled \in BOOLEAN, SetLiveTrading(enabled) PROVE ConnectionState'
  <2>1. connection' \in ConnectionRows
    BY <1>11 DEF SetLiveTrading, ConnectionState, ConnectionRows
  <2>. QED
    BY <1>11, <2>1 DEF SetLiveTrading, ConnectionState
<1>12. ASSUME Prefer PROVE ConnectionState'
  BY <1>12 DEF Prefer, ConnectionState
<1>13. ASSUME Disconnect PROVE ConnectionState'
  BY <1>13, <1>r DEF Disconnect, ConnectionState, NoAccounts
<1>. QED
  BY <1>1, <1>2, <1>3, <1>4, <1>5, <1>6, <1>7, <1>8, <1>9, <1>10, <1>11, <1>12, <1>13
     DEF ConnectionsNext

(* The identifiers used up: no step takes one back.                        *)
LEMMA NewIdUnchanged ==
    ASSUME UNCHANGED <<grants, usedStates>> PROVE NewId' = NewId
BY DEF NewId

LEMMA NewIdByGrant ==
    ASSUME ConnectionState, grants' = grants + 1, UNCHANGED usedStates
    PROVE  NewId' = NewId + 1
<1>1. Cardinality(usedStates) \in Nat /\ grants \in Nat
  BY FS_CardinalityType DEF ConnectionState
<1>. QED
  BY <1>1 DEF NewId

LEMMA NewIdByState ==
    ASSUME ConnectionState, NEW s, s \notin usedStates,
           usedStates' = usedStates \cup {s}, UNCHANGED grants
    PROVE  NewId' = NewId + 1
<1>1. Cardinality(usedStates) \in Nat /\ grants \in Nat
  BY FS_CardinalityType DEF ConnectionState
<1>2. Cardinality(usedStates') = Cardinality(usedStates) + 1
  BY FS_AddElement DEF ConnectionState
<1>. QED
  BY <1>1, <1>2 DEF NewId

(* A new request, a request that ends, and a row that keeps its id.        *)
LEMMA IdsStep ==
    ASSUME ConnectionState, IdsAreNew, AccountKnown, ConnectionsNext
    PROVE  IdsAreNew'
<1>n. NewId \in Nat \ {0} /\ connection.id \in Nat /\ call \in [Calls -> ConnectionCalls]
  BY NewIdNatural DEF ConnectionState, ConnectionRows
<1>f. \A c \in Calls : call[c].id \in Nat
  BY <1>n DEF ConnectionCalls
<1>i. /\ connection.id <= NewId
      /\ brokerName = "schwab" => connection.id < NewId
      /\ brokerName = "schwab" => \A c \in Calls : call[c].op # "connect"
      /\ \A c \in Calls : Loaded(c) => call[c].id \in 1..NewId - 1
  BY DEF IdsAreNew
(* The requests after the step were there, ended, or carry this row's id.  *)
<1>o. ASSUME NewId' \in {NewId, NewId + 1}, UNCHANGED brokerName,
             connection'.id <= NewId', brokerName = "schwab" => connection'.id < NewId',
             \A c \in Calls : \/ call'[c] = call[c]
                              \/ call'[c] = NoCall
                              \/ call'[c].op = "connect" /\ brokerName # "schwab"
                              \/ Loaded(c)' /\ call'[c].id = connection.id
                                   /\ connection.id # 0 /\ connection.id < NewId'
      PROVE  IdsAreNew'
  <2>1. NewId' \in Nat /\ NewId <= NewId'
    BY <1>n, <1>o
  <2>2. ASSUME NEW c \in Calls, Loaded(c)' PROVE call'[c].id \in 1..NewId' - 1
    <3>1. CASE call'[c] = call[c]
      <4>1. call[c].id \in 1..NewId - 1
        BY <1>i, <2>2, <3>1 DEF Loaded
      <4>. DEFINE m == NewId'
      <4>2. m \in Nat /\ NewId <= m
        BY <2>1
      <4>. HIDE DEF m
      <4>3. call[c].id \in 1..m - 1
        BY <1>n, <4>1, <4>2
      <4>. QED
        BY <3>1, <4>3 DEF m
    <3>2. CASE call'[c] = NoCall
      BY <2>2, <3>2 DEF Loaded, NoCall
    <3>3. CASE call'[c].op = "connect"
      BY <2>2, <3>3 DEF Loaded
    <3>4. CASE call'[c].id = connection.id /\ connection.id # 0 /\ connection.id < NewId'
      <4>. DEFINE m == NewId'
      <4>2. m \in Nat /\ connection.id < m /\ connection.id # 0
        BY <2>1, <3>4
      <4>. HIDE DEF m
      <4>3. connection.id \in 1..m - 1
        BY <1>n, <4>2
      <4>. QED
        BY <3>4, <4>3 DEF m
    <3>. QED
      BY <1>o, <3>1, <3>2, <3>3, <3>4
  <2>3. ASSUME brokerName = "schwab", NEW c \in Calls PROVE call'[c].op # "connect"
    BY <1>i, <1>o, <2>3 DEF Loaded, NoCall
  <2>. QED
    BY <1>o, <2>2, <2>3 DEF IdsAreNew
<1>e. ASSUME NEW c \in Calls, CallEnds(c)
      PROVE  \A d \in Calls : call'[d] = call[d] \/ call'[d] = NoCall
  BY <1>n, <1>e DEF CallEnds
(* Most steps leave the identifiers and the requests.                      *)
<1>k. ASSUME UNCHANGED <<brokerName, grants, usedStates>>, connection'.id = connection.id,
             \A d \in Calls : call'[d] = call[d] \/ call'[d] = NoCall
      PROVE  IdsAreNew'
  <2>1. NewId' = NewId
    BY <1>k, NewIdUnchanged
  <2>. QED
    BY <1>i, <1>k, <1>o, <2>1
<1>1. ASSUME NEW s \in OAuthStates, BeginOAuth(s) PROVE IdsAreNew'
  <2>1. NewId' = NewId + 1
    BY <1>1, NewIdByState DEF BeginOAuth
  <2>2. connection'.id = IF Connected THEN connection.id ELSE NewId
    BY <1>1 DEF BeginOAuth, NoConnection, ConnectionState, ConnectionRows
  <2>3. connection'.id <= NewId /\ NewId < NewId + 1
    BY <1>i, <1>n, <2>2
  <2>4. connection'.id <= NewId' /\ connection'.id < NewId'
    BY <1>i, <1>n, <2>1, <2>2
  <2>. QED
    BY <1>1, <1>o, <2>1, <2>4 DEF BeginOAuth
<1>2. ASSUME NEW s \in OAuthStates, CancelOAuth(s) PROVE IdsAreNew'
  BY <1>2, <1>k DEF CancelOAuth, ConnectionState, ConnectionRows
<1>3. ASSUME NEW c \in Calls, NEW s \in OAuthStates, BeginCallback(c, s) PROVE IdsAreNew'
  <2>1. NewId' = NewId + 1
    BY <1>3, NewIdByGrant DEF BeginCallback
  <2>2. connection'.id = connection.id /\ connection.id # 0
    BY <1>3 DEF BeginCallback, ConnectionState, ConnectionRows, Connected
  <2>3. connection.id <= NewId' /\ connection.id < NewId'
    BY <1>i, <1>n, <2>1
  <2>5. /\ call'[c] = [op |-> "callback", id |-> connection.id, account |-> connection.account,
                       grant |-> grants + 1]
        /\ \A d \in Calls \ {c} : call'[d] = call[d]
    BY <1>3, <1>n DEF BeginCallback
  <2>6. Loaded(c)' /\ call'[c].id = connection.id
    BY <2>5 DEF Loaded
  <2>4. \A d \in Calls : call'[d] = call[d] \/ (Loaded(d)' /\ call'[d].id = connection.id)
    <3>1. ASSUME NEW d \in Calls, d = c PROVE Loaded(d)' /\ call'[d].id = connection.id
      BY <2>6, <3>1
    <3>. QED
      BY <2>5, <3>1
  <2>. QED
    BY <1>3, <1>o, <2>1, <2>2, <2>3, <2>4 DEF BeginCallback
<1>4. ASSUME NEW c \in Calls, CompleteCallback(c) PROVE IdsAreNew'
  BY <1>4, <1>e, <1>k DEF CompleteCallback, ConnectionState, ConnectionRows
<1>5. ASSUME NEW c \in Calls, CallFails(c) PROVE IdsAreNew'
  BY <1>5, <1>e, <1>k DEF CallFails
<1>6. ASSUME NEW c \in Calls, BeginConnect(c) PROVE IdsAreNew'
  <2>1. NewId' = NewId + 1
    BY <1>6, NewIdByGrant DEF BeginConnect
  <2>2. connection.id <= NewId' /\ connection.id < NewId'
    BY <1>i, <1>n, <2>1
  <2>3. \A d \in Calls : call'[d] = call[d] \/ call'[d].op = "connect"
    BY <1>6, <1>n DEF BeginConnect, NoCall
  <2>. QED
    BY <1>6, <1>o, <2>1, <2>2, <2>3 DEF BeginConnect
<1>7. ASSUME NEW c \in Calls, CommitConnect(c) PROVE IdsAreNew'
  <2>1. UNCHANGED <<brokerName, grants, usedStates>> /\ CallEnds(c)
        /\ connection'.id = IF Connected THEN connection.id ELSE NewId
    BY <1>7 DEF CommitConnect, ConnectionState, ConnectionRows
  <2>2. NewId' = NewId
    BY <2>1, NewIdUnchanged
  <2>3. brokerName # "schwab"
    BY <1>7, <1>i DEF CommitConnect
  <2>4. connection'.id <= NewId'
    BY <1>i, <1>n, <2>1, <2>2
  <2>. QED
    BY <1>e, <1>o, <2>1, <2>2, <2>3, <2>4
<1>8. ASSUME NEW c \in Calls, BeginRefresh(c) PROVE IdsAreNew'
  <2>1. NewId' = NewId
    BY <1>8, NewIdUnchanged DEF BeginRefresh
  <2>2. connection' = connection /\ connection.id # 0 /\ connection.id < NewId
    BY <1>8, <1>i DEF BeginRefresh, Connected
  <2>4. /\ call'[c] = [NoCall EXCEPT !.op = "refresh", !.id = connection.id,
                                     !.grant = connection.grant]
        /\ \A d \in Calls \ {c} : call'[d] = call[d]
    BY <1>8, <1>n DEF BeginRefresh
  <2>5. Loaded(c)' /\ call'[c].id = connection.id
    BY <2>4 DEF Loaded, NoCall
  <2>3. \A d \in Calls : call'[d] = call[d] \/ (Loaded(d)' /\ call'[d].id = connection.id)
    <3>1. ASSUME NEW d \in Calls, d = c PROVE Loaded(d)' /\ call'[d].id = connection.id
      BY <2>5, <3>1
    <3>. QED
      BY <2>4, <3>1
  <2>. QED
    BY <1>8, <1>i, <1>o, <2>1, <2>2, <2>3 DEF BeginRefresh
<1>9. ASSUME NEW c \in Calls, CommitRefresh(c) PROVE IdsAreNew'
  BY <1>9, <1>e, <1>k DEF CommitRefresh, ConnectionState, ConnectionRows
<1>10. ASSUME NEW a \in BrokerAccounts, SelectAccount(a) PROVE IdsAreNew'
  BY <1>10, <1>k DEF SelectAccount, ConnectionState, ConnectionRows
<1>11. ASSUME NEW enabled \in BOOLEAN, SetLiveTrading(enabled) PROVE IdsAreNew'
  BY <1>11, <1>k DEF SetLiveTrading, ConnectionState, ConnectionRows
<1>12. ASSUME Prefer PROVE IdsAreNew'
  BY <1>12, <1>k DEF Prefer
<1>13. ASSUME Disconnect PROVE IdsAreNew'
  <2>1. NewId' = NewId
    BY <1>13, NewIdUnchanged DEF Disconnect
  <2>2. connection'.id = 0 /\ connection'.id <= NewId' /\ connection'.id < NewId'
    BY <1>13, <1>n, <2>1 DEF Disconnect, NoConnection
  <2>. QED
    BY <1>13, <1>o, <2>1, <2>2 DEF Disconnect
<1>. QED
  BY <1>1, <1>2, <1>3, <1>4, <1>5, <1>6, <1>7, <1>8, <1>9, <1>10, <1>11, <1>12, <1>13
     DEF ConnectionsNext

(* While no request crosses another: the row and its callbacks agree on    *)
(* the account, and the default is the account traded.                     *)
LEMMA KnownStep ==
    ASSUME ConnectionState, IdsAreNew, AccountKnown, DefaultIsTraded, ConnectionsNext
    PROVE  AccountKnown' /\ DefaultIsTraded'
<1>n. /\ NewId \in Nat \ {0} /\ connection.id \in Nat /\ call \in [Calls -> ConnectionCalls]
      /\ crossed \in BOOLEAN
      /\ connection \in ConnectionRows
      /\ accounts \in [active : SUBSET BrokerAccounts, default : SUBSET BrokerAccounts]
  BY NewIdNatural DEF ConnectionState, ConnectionRows
<1>k. /\ ~Connected => connection = NoConnection /\ accounts = NoAccounts
      /\ \A c \in Calls : ~crossed /\ call[c].op = "callback" /\ connection.id = call[c].id
                             => connection.account = call[c].account
  BY DEF AccountKnown
<1>i. \A c \in Calls : call[c].op = "callback" => call[c].id \in 1..NewId - 1
  BY DEF IdsAreNew, Loaded
<1>d. ~crossed => /\ accounts.default = {connection.account} \ {NoAccount}
                  /\ accounts.default \subseteq accounts.active
  BY DEF DefaultIsTraded, Traded
<1>0. NoConnection.id = 0 /\ NoConnection.account = NoAccount
      /\ NoAccounts.default = {} /\ NoAccounts.active = {} /\ NoCall.op = "none"
  BY DEF NoConnection, NoAccounts, NoCall
<1>e. ASSUME NEW c \in Calls, CallEnds(c)
      PROVE  call'[c] = NoCall /\ \A d \in Calls \ {c} : call'[d] = call[d]
  BY <1>n, <1>e DEF CallEnds
(* Steps that keep the row, its account and its accounts.                  *)
<1>s. ASSUME connection'.id = connection.id, connection'.account = connection.account,
             ~Connected => connection' = connection, UNCHANGED <<accounts, crossed>>,
             \A d \in Calls : \/ call'[d] = call[d]
                              \/ call'[d].op # "callback"
                              \/ call'[d].account = connection.account
      PROVE  AccountKnown' /\ DefaultIsTraded'
  <2>1. AccountKnown'
    BY <1>s, <1>k DEF AccountKnown, Connected
  <2>. QED
    BY <1>s, <1>d, <2>1 DEF DefaultIsTraded, Traded
(* Steps that write the account: no other request may be away.             *)
<1>w. ASSUME NEW others \in SUBSET Calls, Crossing(others), Connected',
             \A d \in Calls : d \in others => call'[d] = call[d],
             \A d \in Calls : d \notin others => call'[d] = NoCall,
             accounts'.default = {connection'.account} \ {NoAccount},
             accounts'.default \subseteq accounts'.active
      PROVE  AccountKnown' /\ DefaultIsTraded'
  <2>1. ASSUME ~crossed', NEW d \in Calls PROVE call'[d].op # "callback"
    BY <1>w, <1>0, <2>1 DEF Crossing, Away
  <2>2. AccountKnown'
    BY <1>w, <2>1 DEF AccountKnown
  <2>. QED
    BY <1>w, <2>2 DEF DefaultIsTraded, Traded
<1>1. ASSUME NEW s \in OAuthStates, BeginOAuth(s) PROVE AccountKnown' /\ DefaultIsTraded'
  <2>1. CASE Connected
    <3>1. connection'.id = connection.id /\ connection'.account = connection.account
      BY <1>1, <1>n, <2>1 DEF BeginOAuth, ConnectionRows
    <3>. QED
      BY <1>1, <1>s, <2>1, <3>1 DEF BeginOAuth
  <2>2. CASE ~Connected
    <3>1. connection'.id = NewId /\ connection'.account = NoAccount
      BY <1>1, <2>2 DEF BeginOAuth, NoConnection
    <3>2. accounts' = NoAccounts /\ call' = call /\ Connected'
      BY <1>1, <1>k, <1>n, <2>2, <3>1 DEF BeginOAuth, Connected
    <3>3. \A d \in Calls : call'[d].op = "callback" => connection'.id # call'[d].id
      BY <1>i, <1>n, <3>1, <3>2
    <3>4. AccountKnown'
      BY <3>2, <3>3 DEF AccountKnown
    <3>. QED
      BY <1>0, <3>1, <3>2, <3>4 DEF DefaultIsTraded, Traded
  <2>. QED
    BY <2>1, <2>2
<1>2. ASSUME NEW s \in OAuthStates, CancelOAuth(s) PROVE AccountKnown' /\ DefaultIsTraded'
  <2>1. connection'.id = connection.id /\ connection'.account = connection.account
    BY <1>2, <1>n DEF CancelOAuth, ConnectionRows
  <2>. QED
    BY <1>2, <1>s, <2>1 DEF CancelOAuth
<1>3. ASSUME NEW c \in Calls, NEW s \in OAuthStates, BeginCallback(c, s)
      PROVE  AccountKnown' /\ DefaultIsTraded'
  <2>1. connection'.id = connection.id /\ connection'.account = connection.account
    BY <1>3, <1>n DEF BeginCallback, ConnectionRows
  <2>2. \A d \in Calls : call'[d] = call[d] \/ call'[d].account = connection.account
    BY <1>3, <1>n DEF BeginCallback
  <2>. QED
    BY <1>3, <1>s, <2>1, <2>2 DEF BeginCallback
<1>4. ASSUME NEW c \in Calls, CompleteCallback(c) PROVE AccountKnown' /\ DefaultIsTraded'
  <2>1. PICK found \in (SUBSET BrokerAccounts) \ {{}} :
           /\ connection' = [connection EXCEPT !.verified = TRUE, !.grant = call[c].grant,
                                !.period = call[c].grant,
                                !.account = IF Selected(call[c].account, found) = call[c].account
                                            THEN @ ELSE Selected(call[c].account, found)]
           /\ accounts' = Synchronized(call[c].account, found)
           /\ CallEnds(c) /\ Crossing(Calls \ {c})
    BY <1>4 DEF CompleteCallback
  <2>2. call[c].op = "callback" /\ connection.id = call[c].id
    BY <1>4 DEF CompleteCallback
  <2>3. connection'.id = connection.id /\ connection'.account =
           IF Selected(call[c].account, found) = call[c].account
           THEN connection.account ELSE Selected(call[c].account, found)
    BY <1>n, <2>1 DEF ConnectionRows
  <2>4. Connected'
    BY <1>i, <1>n, <2>2, <2>3 DEF Connected
  <2>5. CASE crossed'
    BY <2>4, <2>5 DEF AccountKnown, DefaultIsTraded
  <2>6. CASE ~crossed'
    <3>1. ~crossed /\ connection.account = call[c].account
      BY <1>k, <1>n, <2>1, <2>2, <2>6 DEF Crossing
    <3>2. connection'.account = Selected(call[c].account, found)
      BY <2>3, <3>1
    <3>3. /\ accounts'.default = {connection'.account} \ {NoAccount}
          /\ accounts'.default \subseteq accounts'.active
      BY <2>1, <3>2, SynchronizedFits
    <3>4. /\ \A d \in Calls : d \in Calls \ {c} => call'[d] = call[d]
          /\ \A d \in Calls : d \notin Calls \ {c} => call'[d] = NoCall
      BY <1>e, <2>1
    <3>5. Calls \ {c} \in SUBSET Calls
      OBVIOUS
    <3>. QED
      BY <1>w, <2>1, <2>4, <3>3, <3>4, <3>5
  <2>. QED
    BY <2>5, <2>6 DEF Loaded
<1>5. ASSUME NEW c \in Calls, CallFails(c) PROVE AccountKnown' /\ DefaultIsTraded'
  BY <1>0, <1>5, <1>e, <1>s DEF CallFails
<1>6. ASSUME NEW c \in Calls, BeginConnect(c) PROVE AccountKnown' /\ DefaultIsTraded'
  <2>1. \A d \in Calls : call'[d] = call[d] \/ call'[d].op # "callback"
    BY <1>6, <1>n DEF BeginConnect, NoCall
  <2>. QED
    BY <1>6, <1>s, <2>1 DEF BeginConnect
<1>7. ASSUME NEW c \in Calls, CommitConnect(c) PROVE AccountKnown' /\ DefaultIsTraded'
  <2>1. PICK found \in (SUBSET BrokerAccounts) \ {{}} : \E requested \in found :
           /\ connection' = [connection EXCEPT !.id = IF Connected THEN @ ELSE NewId,
                                !.verified = TRUE, !.account = requested, !.live = FALSE,
                                !.grant = call[c].grant, !.period = call[c].grant]
           /\ accounts' = Synchronized(requested, found)
           /\ CallEnds(c) /\ Crossing(Calls \ {c})
    BY <1>7 DEF CommitConnect
  <2>2. PICK requested \in found :
           /\ connection' = [connection EXCEPT !.id = IF Connected THEN @ ELSE NewId,
                                !.verified = TRUE, !.account = requested, !.live = FALSE,
                                !.grant = call[c].grant, !.period = call[c].grant]
           /\ accounts' = Synchronized(requested, found)
           /\ CallEnds(c) /\ Crossing(Calls \ {c})
    BY <2>1
  <2>3. /\ connection'.id = IF Connected THEN connection.id ELSE NewId
        /\ connection'.account = requested
    BY <1>n, <2>2 DEF ConnectionRows
  <2>4. Connected'
    BY <1>n, <2>3 DEF Connected
  <2>5. brokerName = "tastytrade" \/ brokerName = "schwab"
    BY DEF ConnectionState
  <2>6. Selected(requested, found) = requested
    BY DEF Selected, TastytradeSelected, SchwabSelected
  <2>7. /\ accounts'.default = {connection'.account} \ {NoAccount}
        /\ accounts'.default \subseteq accounts'.active
    BY <2>2, <2>3, <2>6, SynchronizedFits
  <2>8. /\ \A d \in Calls : d \in Calls \ {c} => call'[d] = call[d]
        /\ \A d \in Calls : d \notin Calls \ {c} => call'[d] = NoCall
    BY <1>e, <2>2
  <2>9. Calls \ {c} \in SUBSET Calls
    OBVIOUS
  <2>. QED
    BY <1>w, <2>2, <2>4, <2>7, <2>8, <2>9
<1>8. ASSUME NEW c \in Calls, BeginRefresh(c) PROVE AccountKnown' /\ DefaultIsTraded'
  <2>1. \A d \in Calls : call'[d] = call[d] \/ call'[d].op # "callback"
    BY <1>8, <1>n DEF BeginRefresh, NoCall
  <2>. QED
    BY <1>8, <1>s, <2>1 DEF BeginRefresh
<1>9. ASSUME NEW c \in Calls, CommitRefresh(c) PROVE AccountKnown' /\ DefaultIsTraded'
  <2>1. connection'.id = connection.id /\ connection'.account = connection.account /\ Connected
    BY <1>9, <1>n DEF CommitRefresh, ConnectionRows, Connected, IdsAreNew, Loaded
  <2>. QED
    BY <1>0, <1>9, <1>e, <1>s, <2>1 DEF CommitRefresh
<1>10. ASSUME NEW a \in BrokerAccounts, SelectAccount(a) PROVE AccountKnown' /\ DefaultIsTraded'
  <2>1. connection'.id = connection.id /\ connection'.account = a
    BY <1>10, <1>n DEF SelectAccount, ConnectionRows
  <2>2. Connected'
    BY <1>10, <2>1 DEF SelectAccount, Connected
  <2>3. accounts'.default = {a} /\ accounts'.active = accounts.active /\ a \in accounts.active
    BY <1>10, <1>n DEF SelectAccount
  <2>4. a # NoAccount
    BY ConnectionAssumption
  <2>. QED
    BY <1>10, <1>w, <2>1, <2>2, <2>3, <2>4 DEF SelectAccount
<1>11. ASSUME NEW enabled \in BOOLEAN, SetLiveTrading(enabled)
       PROVE  AccountKnown' /\ DefaultIsTraded'
  <2>1. connection'.id = connection.id /\ connection'.account = connection.account
    BY <1>11, <1>n DEF SetLiveTrading, ConnectionRows
  <2>. QED
    BY <1>11, <1>s, <2>1 DEF SetLiveTrading
<1>12. ASSUME Prefer PROVE AccountKnown' /\ DefaultIsTraded'
  BY <1>12, <1>s DEF Prefer
<1>13. ASSUME Disconnect PROVE AccountKnown' /\ DefaultIsTraded'
  <2>1. connection' = NoConnection /\ accounts' = NoAccounts /\ call' = call
    BY <1>13 DEF Disconnect
  <2>2. \A d \in Calls : call'[d].op = "callback" => connection'.id # call'[d].id
    BY <1>0, <1>i, <1>n, <2>1
  <2>3. AccountKnown'
    BY <1>0, <2>1, <2>2 DEF AccountKnown
  <2>. QED
    BY <1>0, <2>1, <2>3 DEF DefaultIsTraded, Traded
<1>. QED
  BY <1>1, <1>2, <1>3, <1>4, <1>5, <1>6, <1>7, <1>8, <1>9, <1>10, <1>11, <1>12, <1>13
     DEF ConnectionsNext

ConnectionInv == ConnectionState /\ IdsAreNew /\ AccountKnown /\ DefaultIsTraded

LEMMA ConnectionInvBegins == ASSUME ConnectionsInit PROVE ConnectionInv
<1>. USE ConnectionAssumption DEF ConnectionsInit
<1>1. NoConnection \in ConnectionRows /\ NoCall \in ConnectionCalls
  BY DEF NoConnection, ConnectionRows, NoCall, ConnectionCalls
<1>2. ConnectionState
  <2>1. IsFiniteSet(usedStates)
    BY FS_EmptySet
  <2>2. NoAccounts \in [active : SUBSET BrokerAccounts, default : SUBSET BrokerAccounts]
    BY DEF NoAccounts
  <2>3. grants \in 0..MaxGrants
    OBVIOUS
  <2>. QED
    BY <1>1, <2>1, <2>2, <2>3 DEF ConnectionState
<1>3. NewId = 1
  BY FS_EmptySet DEF NewId
<1>4. IdsAreNew
  BY <1>3 DEF IdsAreNew, NoConnection, NoCall, Loaded
<1>5. AccountKnown
  BY DEF AccountKnown, NoCall
<1>6. DefaultIsTraded
  BY DEF DefaultIsTraded, Traded, NoConnection, NoAccounts
<1>. QED
  BY <1>2, <1>4, <1>5, <1>6 DEF ConnectionInv

LEMMA ConnectionInvStep ==
    ASSUME ConnectionInv, [ConnectionsNext]_connVars PROVE ConnectionInv'
<1>1. CASE ConnectionsNext
  BY <1>1, ConnectionTypes, IdsStep, KnownStep DEF ConnectionInv
<1>2. CASE UNCHANGED connVars
  <2>1. NewId' = NewId
    BY <1>2, NewIdUnchanged DEF connVars
  <2>. QED
    BY <1>2, <2>1 DEF ConnectionInv, connVars, ConnectionState, IdsAreNew, AccountKnown,
       DefaultIsTraded, Traded, Loaded, Connected
<1>. QED
  BY <1>1, <1>2

(* The account orders go to is the one the user is shown as the default.   *)
THEOREM DefaultIsTradedHolds == ConnectionsSpec => []DefaultIsTraded
<1>1. ConnectionInv => DefaultIsTraded
  BY DEF ConnectionInv
<1>. QED
  BY <1>1, ConnectionInvBegins, ConnectionInvStep, PTL DEF ConnectionsSpec

(* Every variable of a connection stays in its type.                       *)
THEOREM ConnectionsTypeHolds == ConnectionsSpec => []ConnectionsTypeOK
<1>1. ConnectionInv => ConnectionsTypeOK
  BY DEF ConnectionInv, ConnectionState, ConnectionsTypeOK, ConnectionRows, ConnectionCalls
<1>. QED
  BY <1>1, ConnectionInvBegins, ConnectionInvStep, PTL DEF ConnectionsSpec

(* A request only ever writes the row it loaded.                           *)
LEMMA DisconnectStep ==
    ASSUME ConnectionInv, [ConnectionsNext]_connVars, NEW c \in Calls,
           Away(c), call[c].op # "connect", call'[c] = NoCall, connection' # connection
    PROVE  connection.id = call[c].id /\ connection'.id = call[c].id
<1>n. /\ connection \in ConnectionRows /\ call \in [Calls -> ConnectionCalls]
      /\ NoCall.op = "none"
  BY DEF ConnectionInv, ConnectionState, NoCall
<1>a. call'[c] # call[c]
  BY <1>n DEF Away
<1>1. ASSUME NEW d \in Calls, CallEnds(d) PROVE d = c
  BY <1>1, <1>a, <1>n DEF CallEnds
<1>2. ASSUME NEW d \in Calls, CompleteCallback(d) PROVE connection.id = call[c].id /\ connection'.id = call[c].id
  <2>1. d = c
    BY <1>1, <1>2 DEF CompleteCallback
  <2>. QED
    BY <1>2, <1>n, <2>1 DEF CompleteCallback, ConnectionRows
<1>3. ASSUME NEW d \in Calls, CommitConnect(d) PROVE FALSE
  <2>1. d = c
    BY <1>1, <1>3 DEF CommitConnect
  <2>. QED
    BY <1>3, <2>1 DEF CommitConnect
<1>4. ASSUME NEW d \in Calls, CommitRefresh(d) PROVE connection.id = call[c].id /\ connection'.id = call[c].id
  <2>1. d = c
    BY <1>1, <1>4 DEF CommitRefresh
  <2>. QED
    BY <1>4, <1>n, <2>1 DEF CommitRefresh, ConnectionRows
<1>5. ASSUME NEW d \in Calls, NEW s \in OAuthStates, BeginCallback(d, s) PROVE FALSE
  BY <1>5, <1>a, <1>n DEF BeginCallback, CallIdle, Away
<1>6. ASSUME NEW d \in Calls, CallFails(d) \/ BeginConnect(d) \/ BeginRefresh(d) PROVE FALSE
  BY <1>6 DEF CallFails, BeginConnect, BeginRefresh
<1>7. ASSUME NEW s \in OAuthStates, BeginOAuth(s) \/ CancelOAuth(s) PROVE FALSE
  BY <1>7, <1>a DEF BeginOAuth, CancelOAuth
<1>8. ASSUME NEW a \in BrokerAccounts, SelectAccount(a) PROVE FALSE
  BY <1>8, <1>a DEF SelectAccount
<1>9. ASSUME NEW enabled \in BOOLEAN, SetLiveTrading(enabled) PROVE FALSE
  BY <1>9, <1>a DEF SetLiveTrading
<1>10. ASSUME Prefer \/ Disconnect \/ UNCHANGED connVars PROVE FALSE
  BY <1>10, <1>a DEF Prefer, Disconnect, connVars
<1>. QED
  BY <1>2, <1>3, <1>4, <1>5, <1>6, <1>7, <1>8, <1>9, <1>10 DEF ConnectionsNext

(* A disconnected broker stays disconnected: a request writes only the row *)
(* whose id it loaded, and no later row is given that id.                  *)
THEOREM DisconnectHoldsProved == ConnectionsSpec => []IdsAreNew /\ DisconnectHolds
<1>1. ConnectionInv /\ [ConnectionsNext]_connVars =>
        [\A c \in Calls :
           Away(c) /\ call[c].op # "connect" /\ call'[c] = NoCall /\ connection' # connection
              => connection.id = call[c].id /\ connection'.id = call[c].id]_connVars
  BY DisconnectStep
<1>2. ConnectionInv => IdsAreNew
  BY DEF ConnectionInv
<1>. QED
  BY <1>1, <1>2, ConnectionInvBegins, ConnectionInvStep, PTL DEF ConnectionsSpec, DisconnectHolds

-----------------------------------------------------------------------------
(* What is learned of a night.                                             *)

(* A set of days that is not empty has a last one.                         *)
LEMMA LastOfDays ==
    ASSUME NEW n \in Nat, NEW S \in SUBSET (1..n), S # {}
    PROVE  Max(S) \in S /\ \A d \in S : d <= Max(S)
<1>1. IsFiniteSet(1..n) /\ S \subseteq Int
  BY FS_Interval
<1>2. IsFiniteSet(S)
  BY <1>1, FS_Subset
<1>. QED
  BY <1>1, <1>2, Greatest

LEMMA OpenIsShown ==
    ASSUME LearningTypeOK
    PROVE  /\ OpenShown \in 0..LastDay
           /\ holidays = {} => OpenShown = clock.day
<1>. DEFINE open == (1..clock.day) \ holidays
<1>0. clock.day \in 1..LastDay /\ LastDay \in Nat
  BY LearningAssumption DEF LearningTypeOK
<1>1. open \in SUBSET (1..clock.day) /\ clock.day \in Nat
  BY <1>0
<1>2. CASE open = {}
  BY <1>0, <1>2 DEF OpenShown
<1>3. CASE open # {}
  <2>1. Max(open) \in open /\ \A d \in open : d <= Max(open)
    BY <1>1, <1>3, LastOfDays
  <2>2. OpenShown = Max(open)
    BY <1>3 DEF OpenShown
  <2>. QED
    BY <1>0, <2>1, <2>2
<1>. QED
  BY <1>2, <1>3

LearningInv ==
    LearningTypeOK /\ DaysPassed /\ WatchersAgree /\ AwaitsTheNext /\ LearnedOfItsNight

CarryRows == [opened : 0..LastDay, live : BOOLEAN, carry : 0..LastDay, openOf : 0..LastDay]
Watches == [pc : {"idle", "read", "loaded"}, baseline : 0..LastDay,
            trade : Carried \cup {"none"}, frozen : BOOLEAN]

LEMMA OpeningsFit ==
    ASSUME LearningTypeOK, NEW e \in Carried
    PROVE  /\ OpeningsRecorded \in [Carried -> CarryRows]
           /\ OpeningsRecorded[e].opened = carryRow[e].opened
           /\ OpeningsRecorded[e].carry = carryRow[e].carry
           /\ OpeningsRecorded[e].openOf =
                IF Awaiting(carryRow[e]) THEN OpenShown ELSE carryRow[e].openOf
<1>1. carryRow \in [Carried -> CarryRows]
  BY DEF LearningTypeOK, CarryRows
<1>2. OpenShown \in 0..LastDay
  BY OpenIsShown
<1>3. \A f \in Carried : [carryRow[f] EXCEPT !.openOf = OpenShown] \in CarryRows
  BY <1>1, <1>2 DEF CarryRows
<1>4. \A f \in Carried : OpeningsRecorded[f] =
         IF Awaiting(carryRow[f]) THEN [carryRow[f] EXCEPT !.openOf = OpenShown] ELSE carryRow[f]
  BY DEF OpeningsRecorded
<1>5. OpeningsRecorded \in [Carried -> CarryRows]
  BY <1>1, <1>3 DEF OpeningsRecorded
<1>6. carryRow[e] \in CarryRows
  BY <1>1
<1>. QED
  BY <1>4, <1>5, <1>6 DEF CarryRows

LEMMA LearningTypes ==
    ASSUME LearningInv, LearningNext PROVE LearningTypeOK'
<1>. USE LearningAssumption
<1>t. /\ clock \in [day : 1..LastDay, part : DOMAIN PartAfter]
      /\ baselines \subseteq 1..LastDay /\ beats \subseteq 1..LastDay
      /\ carryRow \in [Carried -> CarryRows]
      /\ watch \in [Watchers -> Watches]
  BY DEF LearningInv, LearningTypeOK, CarryRows, Watches
<1>o. ASSUME clock' \in [day : 1..LastDay, part : DOMAIN PartAfter],
             baselines' \subseteq 1..LastDay, beats' \subseteq 1..LastDay,
             carryRow' \in [Carried -> CarryRows], watch' \in [Watchers -> Watches]
      PROVE  LearningTypeOK'
  BY <1>o DEF LearningTypeOK, CarryRows, Watches
<1>w. NoWatch \in Watches /\ NotOpened \in CarryRows
  BY DEF NoWatch, Watches, NotOpened, CarryRows
<1>d. clock.day \in 1..LastDay
  BY <1>t
<1>1. ASSUME TimeGoesOn PROVE LearningTypeOK'
  <2>1. PartAfter[clock.part] \in DOMAIN PartAfter
    BY <1>t DEF PartAfter
  <2>2. clock'.day \in 1..LastDay
    BY <1>1, <1>d DEF TimeGoesOn
  <2>3. clock' \in [day : 1..LastDay, part : DOMAIN PartAfter]
    BY <1>1, <2>1, <2>2 DEF TimeGoesOn
  <2>. QED
    BY <1>1, <1>o, <1>t, <2>3 DEF TimeGoesOn
<1>2. ASSUME Heartbeat PROVE LearningTypeOK'
  <2>1. OpeningsRecorded \in [Carried -> CarryRows]
    <3>1. CASE Carried = {}
      BY <3>1 DEF OpeningsRecorded
    <3>2. CASE Carried # {}
      BY <3>2, OpeningsFit DEF LearningInv
    <3>. QED
      BY <3>1, <3>2
  <2>. QED
    BY <1>2, <1>d, <1>o, <1>t, <2>1 DEF Heartbeat
<1>3. ASSUME NEW e \in Carried, OpenCondor(e) PROVE LearningTypeOK'
  <2>0. clock.day \in 0..LastDay
    BY <1>d
  <2>1. [NotOpened EXCEPT !.opened = clock.day, !.live = TRUE] \in CarryRows
    BY <1>w, <2>0, ZenonT(30) DEF CarryRows
  <2>2. carryRow' \in [Carried -> CarryRows]
    BY <1>3, <1>t, <2>1 DEF OpenCondor
  <2>. QED
    BY <1>3, <1>o, <1>t, <2>2 DEF OpenCondor
<1>4. ASSUME NEW e \in Carried, CondorEnds(e) PROVE LearningTypeOK'
  <2>1. [carryRow[e] EXCEPT !.live = FALSE] \in CarryRows
    BY <1>t DEF CarryRows
  <2>2. carryRow' = [carryRow EXCEPT ![e] = [carryRow[e] EXCEPT !.live = FALSE]]
    BY <1>4 DEF CondorEnds
  <2>3. carryRow' \in [Carried -> CarryRows]
    BY <1>t, <2>1, <2>2
  <2>. QED
    BY <1>4, <1>o, <1>t, <2>3 DEF CondorEnds
<1>5. ASSUME NEW w \in Watchers, BeginWatch(w) PROVE LearningTypeOK'
  <2>1. Newest(baselines) \in 0..LastDay
    BY <1>5, <1>t, LastOfDays DEF BeginWatch, Newest
  <2>2. [NoWatch EXCEPT !.pc = "read", !.baseline = Newest(baselines)] \in Watches
    BY <2>1 DEF NoWatch, Watches
  <2>3. watch' \in [Watchers -> Watches]
    BY <1>5, <1>t, <2>2 DEF BeginWatch
  <2>. QED
    BY <1>5, <1>o, <1>t, <2>3 DEF BeginWatch
<1>6. ASSUME NEW w \in Watchers, NEW e \in Carried, LoadRow(w, e) PROVE LearningTypeOK'
  <2>1. [watch[w] EXCEPT !.pc = "loaded", !.trade = e, !.frozen = carryRow[e].carry # 0] \in Watches
    <3>. DEFINE b == carryRow[e].carry # 0
    <3>1. b \in BOOLEAN
      OBVIOUS
    <3>. HIDE DEF b
    <3>2. [watch[w] EXCEPT !.pc = "loaded", !.trade = e, !.frozen = b] \in Watches
      BY <1>t, <3>1, ZenonT(30) DEF Watches
    <3>. QED
      BY <3>2 DEF b
  <2>2. watch' \in [Watchers -> Watches]
    BY <1>6, <1>t, <2>1 DEF LoadRow
  <2>. QED
    BY <1>6, <1>o, <1>t, <2>2 DEF LoadRow
<1>7. ASSUME NEW w \in Watchers, CommitCarry(w) PROVE LearningTypeOK'
  <2>1. [NoWatch EXCEPT !.pc = "read", !.baseline = watch[w].baseline] \in Watches
    BY <1>t DEF NoWatch, Watches
  <2>2. watch' \in [Watchers -> Watches]
    BY <1>7, <1>t, <2>1 DEF CommitCarry
  <2>3. ASSUME ~watch[w].frozen
        PROVE  [carryRow EXCEPT ![watch[w].trade].carry = watch[w].baseline] \in [Carried -> CarryRows]
    <3>1. watch[w].trade \in Carried
      BY <1>7 DEF CommitCarry, LearningInv, WatchersAgree
    <3>2. [carryRow[watch[w].trade] EXCEPT !.carry = watch[w].baseline] \in CarryRows
      BY <1>t, <3>1 DEF CarryRows, Watches
    <3>3. [carryRow EXCEPT ![watch[w].trade].carry = watch[w].baseline]
             = [carryRow EXCEPT ![watch[w].trade] =
                  [carryRow[watch[w].trade] EXCEPT !.carry = watch[w].baseline]]
      OBVIOUS
    <3>. QED
      BY <1>t, <3>2, <3>3
  <2>4. carryRow' \in [Carried -> CarryRows]
    BY <1>7, <1>t, <2>3 DEF CommitCarry
  <2>. QED
    BY <1>7, <1>o, <1>t, <2>2, <2>4 DEF CommitCarry
<1>8. ASSUME NEW w \in Watchers, WatchEnds(w) PROVE LearningTypeOK'
  <2>1. watch' \in [Watchers -> Watches]
    BY <1>8, <1>t, <1>w DEF WatchEnds
  <2>. QED
    BY <1>8, <1>o, <1>t, <2>1 DEF WatchEnds
<1>. QED
  BY <1>1, <1>2, <1>3, <1>4, <1>5, <1>6, <1>7, <1>8 DEF LearningNext

LEMMA LearningFields ==
    ASSUME LearningTypeOK
    PROVE  /\ clock.day \in 1..LastDay /\ clock.day \in Nat
           /\ clock.part \in {"morning", "session", "close", "evening"}
           /\ \A b \in baselines : b \in Nat
           /\ \A e \in Carried : /\ carryRow[e].opened \in Nat /\ carryRow[e].carry \in Nat
                                 /\ carryRow[e].openOf \in Nat
           /\ \A w \in Watchers : watch[w].baseline \in Nat
           /\ carryRow \in [Carried -> CarryRows] /\ watch \in [Watchers -> Watches]
<1>0. LastDay \in Nat
  BY LearningAssumption
<1>1. carryRow \in [Carried -> CarryRows] /\ watch \in [Watchers -> Watches]
  BY DEF LearningTypeOK, CarryRows, Watches
<1>2. clock.day \in 1..LastDay /\ clock.part \in {"morning", "session", "close", "evening"}
  BY DEF LearningTypeOK, PartAfter
<1>3. \A b \in baselines : b \in Nat
  BY <1>0 DEF LearningTypeOK
<1>. QED
  BY <1>0, <1>1, <1>2, <1>3 DEF CarryRows, Watches

(* What the steps of the day before a night and after one do to the rows:  *)
(* a condor is opened, or none of what is learned changes.                 *)
LEMMA RowsStay ==
    ASSUME LearningInv, UNCHANGED <<clock, holidays, baselines, beats>>,
           \A e \in Carried :
              \/ /\ carryRow'[e].opened = carryRow[e].opened
                 /\ carryRow'[e].carry = carryRow[e].carry
                 /\ carryRow'[e].openOf = carryRow[e].openOf
              \/ /\ InSession /\ carryRow'[e].opened = clock.day
                 /\ carryRow'[e].carry = 0 /\ carryRow'[e].openOf = 0
    PROVE  DaysPassed' /\ AwaitsTheNext' /\ LearnedOfItsNight'
<1>t. clock.day \in Nat /\ \A e \in Carried : carryRow[e].opened \in Nat
  BY LearningFields DEF LearningInv
<1>1. DaysPassed'
  <2>1. ASSUME NEW e \in Carried
        PROVE  /\ carryRow'[e].opened <= clock.day
               /\ clock.part = "morning" => carryRow'[e].opened < clock.day
               /\ carryRow'[e].carry \in baselines \cup {0}
               /\ carryRow'[e].openOf # 0 => carryRow'[e].carry # 0
               /\ InSession /\ carryRow'[e].carry # 0 =>
                     carryRow'[e].opened < clock.day /\ carryRow'[e].carry < clock.day
    BY <1>t DEF LearningInv, DaysPassed, InSession
  <2>. QED
    BY <2>1 DEF LearningInv, DaysPassed, InSession
<1>2. AwaitsTheNext'
  BY DEF LearningInv, AwaitsTheNext, NoneMissed, InSession
<1>3. LearnedOfItsNight'
  BY DEF LearningInv, LearnedOfItsNight
<1>. QED
  BY <1>1, <1>2, <1>3

(* The watchers see nothing of a session.                                  *)
LEMMA WatchersStay ==
    ASSUME LearningInv, InSession, InSession', UNCHANGED watch PROVE WatchersAgree'
<1>1. \A w \in Watchers : watch[w] = NoWatch
  BY DEF LearningInv, WatchersAgree
<1>2. NoWatch.pc = "idle"
  BY DEF NoWatch
<1>. QED
  BY <1>1, <1>2 DEF WatchersAgree

LEMMA TimeKeeps ==
    ASSUME LearningInv, TimeGoesOn
    PROVE  DaysPassed' /\ WatchersAgree' /\ AwaitsTheNext' /\ LearnedOfItsNight'
<1>t. /\ clock.day \in Nat /\ clock.part \in {"morning", "session", "close", "evening"}
      /\ \A b \in baselines : b \in Nat
      /\ \A e \in Carried : /\ carryRow[e].opened \in Nat /\ carryRow[e].carry \in Nat
                            /\ carryRow[e].openOf \in Nat
  BY LearningFields DEF LearningInv
<1>u. UNCHANGED <<holidays, baselines, beats, carryRow, watch>>
  BY DEF TimeGoesOn
<1>i. LearningInv
  OBVIOUS
<1>. USE DEF LearningInv
(* Within a day: the part goes on.                                         *)
<1>1. CASE clock.part # "evening"
  <2>1. clock'.day = clock.day
    BY <1>1 DEF TimeGoesOn
  <2>2. \/ clock.part = "morning" /\ clock'.part = "session"
        \/ clock.part = "session" /\ clock'.part = "close"
        \/ clock.part = "close" /\ clock'.part = "evening"
    BY <1>1, <1>t DEF TimeGoesOn, PartAfter
  <2>3. DaysPassed'
    <3>1. clock.day \in baselines => clock'.part \in {"close", "evening"}
      BY <2>2 DEF DaysPassed
    <3>2. ASSUME NEW e \in Carried, clock'.part \in {"session", "close"}, carryRow[e].carry # 0
          PROVE  carryRow[e].opened < clock.day /\ carryRow[e].carry < clock.day
      <4>1. CASE clock.part = "morning"
        <5>1. clock.day \notin baselines /\ carryRow[e].carry \in baselines
          BY <3>2, <4>1 DEF DaysPassed
        <5>2. carryRow[e].carry \in 1..clock.day
          BY <5>1 DEF DaysPassed
        <5>. QED
          BY <1>t, <4>1, <5>1, <5>2 DEF DaysPassed
      <4>2. CASE clock.part # "morning"
        BY <2>2, <3>2, <4>2 DEF DaysPassed, InSession
      <4>. QED
        BY <4>1, <4>2
    <3>. QED
      BY <1>u, <2>1, <2>2, <3>1, <3>2 DEF DaysPassed, InSession
  <2>4. WatchersAgree'
    <3>1. \A w \in Watchers : watch[w] = NoWatch
      BY <2>2 DEF TimeGoesOn, WatchersAgree, InSession
    <3>2. NoWatch.pc = "idle"
      BY DEF NoWatch
    <3>. QED
      BY <1>u, <3>1, <3>2 DEF WatchersAgree
  <2>5. AwaitsTheNext'
    <3>1. ASSUME NEW e \in Carried, carryRow[e].carry # 0, carryRow[e].openOf = 0
          PROVE  /\ NoneMissed(clock.day - 1) => carryRow[e].carry >= clock.day - 1
                 /\ clock'.part = "evening" /\ NoneMissed(clock.day) => carryRow[e].carry >= clock.day
                 /\ clock'.part \in {"session", "close"} /\ holidays = {} => clock.day \notin beats
      <4>1. NoneMissed(clock.day - 1) => carryRow[e].carry >= clock.day - 1
        BY <3>1 DEF AwaitsTheNext
      <4>2. ASSUME clock'.part = "evening", NoneMissed(clock.day) PROVE FALSE
        <5>1. clock.part = "close" /\ holidays = {}
          BY <2>2, <4>2 DEF NoneMissed
        <5>2. clock.day \notin beats
          BY <3>1, <5>1 DEF AwaitsTheNext, InSession
        <5>3. clock.day \in 1..clock.day
          BY <1>t DEF LearningTypeOK
        <5>. QED
          BY <4>2, <5>2, <5>3 DEF NoneMissed
      <4>3. ASSUME clock'.part \in {"session", "close"}, holidays = {} PROVE clock.day \notin beats
        <5>1. CASE clock.part = "morning"
          BY <5>1 DEF DaysPassed
        <5>2. CASE clock.part # "morning"
          BY <2>2, <3>1, <4>3, <5>2 DEF AwaitsTheNext, InSession
        <5>. QED
          BY <5>1, <5>2
      <4>. QED
        BY <4>1, <4>2, <4>3
    <3>. QED
      BY <1>u, <2>1, <2>2, <3>1 DEF AwaitsTheNext, NoneMissed, InSession
  <2>6. LearnedOfItsNight'
    BY <1>u, <2>1 DEF LearnedOfItsNight
  <2>. QED
    BY <2>3, <2>4, <2>5, <2>6
(* Over midnight and into the next morning.                                *)
<1>2. CASE clock.part = "evening"
  <2>. DEFINE n == clock.day + 1
  <2>1. clock'.day = n /\ clock'.part = "morning"
    BY <1>2 DEF TimeGoesOn, PartAfter
  <2>2. n \in Nat /\ clock.day < n /\ n - 1 = clock.day /\ 1..clock.day \subseteq 1..n
        /\ n \notin 1..clock.day
    BY <1>t
  <2>3. ~InSession' /\ ~InSession
    BY <1>2, <2>1 DEF InSession
  <2>4. DaysPassed'
    <3>1. baselines \cup beats \subseteq 1..n /\ n \notin baselines /\ n \notin beats
      BY <2>2 DEF DaysPassed
    <3>2. \A e \in Carried : carryRow[e].opened < n /\ carryRow[e].opened <= n
      BY <1>t DEF DaysPassed
    <3>. HIDE DEF n
    <3>. QED
      BY <1>u, <2>1, <2>3, <3>1, <3>2 DEF DaysPassed
  <2>5. WatchersAgree'
    BY <1>u, <2>3 DEF WatchersAgree
  <2>6. AwaitsTheNext'
    <3>1. ASSUME NEW e \in Carried, carryRow[e].carry # 0, carryRow[e].openOf = 0,
                 NoneMissed(clock.day)
          PROVE  carryRow[e].carry >= clock.day
      BY <1>2, <3>1 DEF AwaitsTheNext
    <3>2. ASSUME NEW e \in Carried, carryRow[e].carry # 0, carryRow[e].openOf = 0,
                 holidays = {}, 1..n - 1 \subseteq baselines \cap beats
          PROVE  carryRow[e].carry >= n - 1
      BY <2>2, <3>1, <3>2 DEF NoneMissed
    <3>. HIDE DEF n
    <3>. QED
      BY <1>u, <2>1, <2>3, <3>2 DEF AwaitsTheNext, NoneMissed
  <2>7. LearnedOfItsNight'
    <3>1. \A x : x \in 1..clock.day - 1 => x \in 1..n - 1
      BY <1>t
    <3>. HIDE DEF n
    <3>. QED
      BY <1>u, <2>1, <3>1 DEF LearnedOfItsNight
  <2>. QED
    BY <2>4, <2>5, <2>6, <2>7
<1>. QED
  BY <1>1, <1>2

LEMMA HeartbeatKeeps ==
    ASSUME LearningInv, Heartbeat
    PROVE  DaysPassed' /\ WatchersAgree' /\ AwaitsTheNext' /\ LearnedOfItsNight'
<1>t. /\ clock.day \in Nat /\ clock.day \in 1..clock.day
      /\ \A e \in Carried : /\ carryRow[e].opened \in Nat /\ carryRow[e].carry \in Nat
                            /\ carryRow[e].openOf \in Nat
  BY LearningFields DEF LearningInv
<1>s. InSession /\ UNCHANGED <<clock, holidays, watch>>
  BY DEF Heartbeat
<1>. USE DEF LearningInv
<1>1. PICK captures, records \in BOOLEAN :
         /\ captures => MayCapture
         /\ baselines' = IF captures THEN baselines \cup {clock.day} ELSE baselines
         /\ beats' = IF records THEN beats \cup {clock.day} ELSE beats
         /\ carryRow' = IF records THEN OpeningsRecorded ELSE carryRow
  BY DEF Heartbeat
<1>2. /\ baselines \subseteq baselines' /\ baselines' \subseteq baselines \cup {clock.day}
      /\ beats \subseteq beats' /\ beats' \subseteq beats \cup {clock.day}
      /\ clock.day \in baselines' => clock.day \in baselines \/ clock.part = "close"
      /\ clock.day \in beats' => clock.day \in beats \/ records
  BY <1>1 DEF MayCapture
(* In a session, only the last days' captures count for the next opening.  *)
<1>3. ASSUME 1..clock.day - 1 \subseteq baselines' \cap beats'
      PROVE  1..clock.day - 1 \subseteq baselines \cap beats
  <2>1. clock.day \notin 1..clock.day - 1
    BY <1>t
  <2>. QED
    BY <1>2, <1>3, <2>1
<1>4. ASSUME NEW e \in Carried
      PROVE  /\ carryRow'[e].opened = carryRow[e].opened
             /\ carryRow'[e].carry = carryRow[e].carry
             /\ carryRow'[e].openOf = IF records /\ Awaiting(carryRow[e]) THEN OpenShown
                                      ELSE carryRow[e].openOf
  BY <1>1, OpeningsFit
<1>5. ASSUME NEW e \in Carried, carryRow[e].carry # 0
      PROVE  carryRow[e].opened < clock.day /\ carryRow[e].carry < clock.day
  BY <1>5, <1>s DEF DaysPassed
<1>6. DaysPassed'
  <2>1. baselines' \cup beats' \subseteq 1..clock.day
    BY <1>2, <1>t DEF DaysPassed
  <2>2. clock.day \in baselines' => clock.part \in {"close", "evening"}
    BY <1>2 DEF DaysPassed
  <2>3. clock.part # "morning"
    BY <1>s DEF InSession
  <2>4. ASSUME NEW e \in Carried
        PROVE  /\ carryRow'[e].opened <= clock.day
               /\ carryRow'[e].carry \in baselines' \cup {0}
               /\ carryRow'[e].openOf # 0 => carryRow'[e].carry # 0
               /\ carryRow'[e].carry # 0 =>
                     carryRow'[e].opened < clock.day /\ carryRow'[e].carry < clock.day
    BY <1>2, <1>4, <1>5 DEF DaysPassed, Awaiting
  <2>. QED
    BY <1>s, <2>1, <2>2, <2>3, <2>4 DEF DaysPassed, InSession
<1>7. WatchersAgree'
  BY <1>s, WatchersStay DEF InSession
<1>8. AwaitsTheNext'
  <2>1. ASSUME NEW e \in Carried, carryRow'[e].carry # 0, carryRow'[e].openOf = 0
        PROVE  /\ holidays = {} /\ 1..clock.day - 1 \subseteq baselines' \cap beats'
                    => carryRow'[e].carry >= clock.day - 1
               /\ holidays = {} => clock.day \notin beats'
    <3>1. carryRow[e].carry # 0 /\ carryRow[e].carry < clock.day
      BY <1>4, <1>5, <2>1
    <3>2. ASSUME holidays = {}, records PROVE FALSE
      <4>1. OpenShown = clock.day /\ clock.day # 0
        BY <1>t, <3>2, OpenIsShown
      <4>. QED
        BY <1>4, <2>1, <3>1, <3>2, <4>1 DEF Awaiting
    <3>3. ASSUME holidays = {} PROVE carryRow[e].openOf = 0 /\ ~records
      BY <1>4, <2>1, <3>2, <3>3
    <3>4. holidays = {} => clock.day \notin beats'
      BY <1>2, <1>s, <3>1, <3>3 DEF AwaitsTheNext
    <3>5. ASSUME holidays = {}, 1..clock.day - 1 \subseteq baselines' \cap beats'
          PROVE  carryRow[e].carry >= clock.day - 1
      BY <1>3, <3>1, <3>3, <3>5 DEF AwaitsTheNext, NoneMissed
    <3>. QED
      BY <1>4, <3>4, <3>5
  <2>. QED
    BY <1>s, <2>1 DEF AwaitsTheNext, NoneMissed, InSession
<1>9. LearnedOfItsNight'
  <2>1. ASSUME NEW e \in Carried
        PROVE  /\ carryRow'[e].carry # 0 /\ carryRow'[e].opened \in baselines'
                     => carryRow'[e].carry >= carryRow'[e].opened
               /\ carryRow'[e].openOf # 0 /\ holidays = {} => carryRow'[e].openOf > carryRow'[e].carry
               /\ carryRow'[e].openOf # 0 /\ holidays = {}
                     /\ 1..clock.day - 1 \subseteq baselines' \cap beats'
                     => carryRow'[e].openOf = carryRow'[e].carry + 1
    <3>1. ASSUME carryRow[e].carry # 0, carryRow[e].opened \in baselines'
          PROVE  carryRow[e].carry >= carryRow[e].opened
      <4>1. carryRow[e].opened # clock.day
        BY <1>5, <1>t, <3>1
      <4>. QED
        BY <1>2, <3>1, <4>1 DEF LearnedOfItsNight
    <3>2. CASE ~(records /\ Awaiting(carryRow[e]))
      BY <1>3, <1>4, <3>1, <3>2 DEF LearnedOfItsNight
    <3>3. CASE records /\ Awaiting(carryRow[e])
      <4>1. carryRow[e].carry # 0 /\ carryRow[e].openOf = 0 /\ carryRow[e].carry < clock.day
        BY <3>3 DEF Awaiting
      <4>2. holidays = {} => carryRow'[e].openOf = clock.day
        BY <1>4, <3>3, OpenIsShown
      <4>3. ASSUME holidays = {}, 1..clock.day - 1 \subseteq baselines' \cap beats'
            PROVE  clock.day = carryRow[e].carry + 1
        <5>1. carryRow[e].carry >= clock.day - 1
          BY <1>3, <4>1, <4>3 DEF AwaitsTheNext, NoneMissed
        <5>. QED
          BY <1>t, <4>1, <5>1
      <4>. QED
        BY <1>4, <1>t, <3>1, <4>1, <4>2, <4>3
    <3>. QED
      BY <3>2, <3>3
  <2>. QED
    BY <1>s, <2>1 DEF LearnedOfItsNight
<1>. QED
  BY <1>6, <1>7, <1>8, <1>9

LEMMA WatchKeeps ==
    ASSUME LearningInv, NEW w \in Watchers,
           BeginWatch(w) \/ WatchEnds(w) \/ \E e \in Carried : LoadRow(w, e)
    PROVE  DaysPassed' /\ WatchersAgree' /\ AwaitsTheNext' /\ LearnedOfItsNight'
<1>t. /\ watch \in [Watchers -> Watches] /\ clock.day \in Nat
      /\ carryRow \in [Carried -> CarryRows]
  BY LearningFields DEF LearningInv
<1>u. UNCHANGED <<clock, holidays, baselines, beats, carryRow>>
  BY DEF BeginWatch, WatchEnds, LoadRow
<1>1. DaysPassed' /\ AwaitsTheNext' /\ LearnedOfItsNight'
  BY <1>u, RowsStay
<1>2. ~InSession
  <2>1. InSession => watch[w] = NoWatch /\ ~Monitoring
    BY DEF LearningInv, WatchersAgree, InSession, Monitoring
  <2>2. NoWatch.pc # "read"
    BY DEF NoWatch
  <2>. QED
    BY <2>1, <2>2 DEF BeginWatch, WatchEnds, LoadRow
<1>3. \A v \in Watchers \ {w} : watch'[v] = watch[v]
  BY <1>t DEF BeginWatch, WatchEnds, LoadRow
<1>4. ASSUME watch'[w].pc # "idle" => /\ watch'[w].baseline \in baselines
                                      /\ \A b \in baselines : b <= watch'[w].baseline,
             watch'[w].pc = "loaded" =>
                /\ watch'[w].trade \in Carried
                /\ ~watch'[w].frozen => /\ carryRow[watch'[w].trade].carry \in {0, watch'[w].baseline}
                                        /\ carryRow[watch'[w].trade].openOf = 0
      PROVE  WatchersAgree'
  <2>1. ASSUME NEW v \in Watchers
        PROVE  /\ watch'[v].pc # "idle" => /\ watch'[v].baseline \in baselines
                                           /\ \A b \in baselines : b <= watch'[v].baseline
               /\ watch'[v].pc = "loaded" =>
                    /\ watch'[v].trade \in Carried
                    /\ ~watch'[v].frozen => /\ carryRow[watch'[v].trade].carry \in {0, watch'[v].baseline}
                                            /\ carryRow[watch'[v].trade].openOf = 0
    <3>1. CASE v = w
      BY <1>4, <3>1
    <3>2. CASE v # w
      BY <1>3, <3>2 DEF LearningInv, WatchersAgree
    <3>. QED
      BY <3>1, <3>2
  <2>. QED
    BY <1>2, <1>u, <2>1 DEF WatchersAgree, InSession
<1>5. CASE BeginWatch(w)
  <2>1. watch'[w] = [NoWatch EXCEPT !.pc = "read", !.baseline = Newest(baselines)]
    BY <1>5, <1>t DEF BeginWatch
  <2>2. watch'[w].pc = "read" /\ watch'[w].baseline = Max(baselines)
    BY <2>1 DEF NoWatch, Newest
  <2>3. baselines \in SUBSET (1..clock.day) /\ baselines # {}
    BY <1>5 DEF BeginWatch, LearningInv, DaysPassed
  <2>4. Max(baselines) \in baselines /\ \A b \in baselines : b <= Max(baselines)
    BY <1>t, <2>3, LastOfDays
  <2>. QED
    BY <1>1, <1>4, <2>2, <2>4
<1>6. CASE WatchEnds(w)
  <2>1. watch'[w].pc = "idle"
    BY <1>6, <1>t DEF WatchEnds, NoWatch
  <2>. QED
    BY <1>1, <1>4, <2>1
<1>7. ASSUME NEW e \in Carried, LoadRow(w, e) PROVE WatchersAgree'
  <2>1. watch'[w] = [watch[w] EXCEPT !.pc = "loaded", !.trade = e, !.frozen = carryRow[e].carry # 0]
    BY <1>7, <1>t DEF LoadRow
  <2>2. /\ watch'[w].pc = "loaded" /\ watch'[w].trade = e
        /\ watch'[w].frozen = (carryRow[e].carry # 0)
        /\ watch'[w].baseline = watch[w].baseline
    BY <1>t, <2>1 DEF Watches
  <2>3. watch[w].baseline \in baselines /\ \A b \in baselines : b <= watch[w].baseline
    BY <1>7 DEF LoadRow, LearningInv, WatchersAgree
  <2>4. carryRow[e].carry = 0 => carryRow[e].openOf = 0
    BY DEF LearningInv, DaysPassed
  <2>. QED
    BY <1>4, <2>2, <2>3, <2>4
<1>. QED
  BY <1>1, <1>5, <1>6, <1>7

LEMMA CommitKeeps ==
    ASSUME LearningInv, NEW w \in Watchers, CommitCarry(w)
    PROVE  DaysPassed' /\ WatchersAgree' /\ AwaitsTheNext' /\ LearnedOfItsNight'
<1>t. /\ watch \in [Watchers -> Watches] /\ clock.day \in Nat
      /\ carryRow \in [Carried -> CarryRows]
      /\ \A b \in baselines : b \in Nat
      /\ \A e \in Carried : carryRow[e].opened \in Nat /\ carryRow[e].carry \in Nat
                            /\ carryRow[e].openOf \in Nat
      /\ clock.part \in {"morning", "session", "close", "evening"}
  BY LearningFields DEF LearningInv
<1>u. UNCHANGED <<clock, holidays, baselines, beats>> /\ watch[w].pc = "loaded"
  BY DEF CommitCarry
<1>2. ~InSession
  BY <1>u DEF LearningInv, WatchersAgree, InSession, NoWatch
<1>. DEFINE new == watch[w].baseline
            trade == watch[w].trade
<1>3. new \in baselines /\ (\A b \in baselines : b <= new) /\ trade \in Carried
      /\ (~watch[w].frozen => carryRow[trade].carry \in {0, new} /\ carryRow[trade].openOf = 0)
  BY <1>u DEF LearningInv, WatchersAgree
<1>4. new \in 1..clock.day /\ new # 0
  BY <1>3, <1>t DEF LearningInv, DaysPassed
<1>5. /\ watch'[w].pc = "read" /\ watch'[w].baseline = new
      /\ \A v \in Watchers \ {w} : watch'[v] = watch[v]
  BY <1>t DEF CommitCarry, NoWatch
<1>6. ASSUME NEW e \in Carried
      PROVE  /\ carryRow'[e].opened = carryRow[e].opened
             /\ carryRow'[e].openOf = carryRow[e].openOf
             /\ \/ carryRow'[e].carry = carryRow[e].carry
                \/ /\ carryRow'[e].carry = new /\ carryRow[e].carry \in {0, new}
                   /\ carryRow[e].openOf = 0
  <2>1. CASE watch[w].frozen \/ e # trade
    BY <1>t, <2>1 DEF CommitCarry
  <2>2. CASE ~watch[w].frozen /\ e = trade
    <3>1. carryRow'[e] = [carryRow[e] EXCEPT !.carry = new]
      BY <1>t, <2>2 DEF CommitCarry
    <3>2. carryRow[e] \in CarryRows
      BY <1>t
    <3>. HIDE DEF new, trade
    <3>3. /\ carryRow'[e].opened = carryRow[e].opened
          /\ carryRow'[e].openOf = carryRow[e].openOf
          /\ carryRow'[e].carry = new
      BY <3>1, <3>2 DEF CarryRows
    <3>. QED
      BY <1>3, <2>2, <3>3
  <2>. QED
    BY <2>1, <2>2
<1>. HIDE DEF new, trade
<1>7. DaysPassed'
  <2>1. ASSUME NEW e \in Carried
        PROVE  /\ carryRow'[e].opened <= clock.day
               /\ clock.part = "morning" => carryRow'[e].opened < clock.day
               /\ carryRow'[e].carry \in baselines \cup {0}
               /\ carryRow'[e].openOf # 0 => carryRow'[e].carry # 0
    BY <1>3, <1>4, <1>6 DEF LearningInv, DaysPassed
  <2>. QED
    BY <1>2, <1>u, <2>1 DEF LearningInv, DaysPassed, InSession
<1>8. WatchersAgree'
  <2>1. ASSUME NEW v \in Watchers
        PROVE  /\ watch'[v].pc # "idle" => /\ watch'[v].baseline \in baselines
                                           /\ \A b \in baselines : b <= watch'[v].baseline
               /\ watch'[v].pc = "loaded" =>
                    /\ watch'[v].trade \in Carried
                    /\ ~watch'[v].frozen => /\ carryRow'[watch'[v].trade].carry \in {0, watch'[v].baseline}
                                            /\ carryRow'[watch'[v].trade].openOf = 0
    <3>1. CASE v = w
      BY <1>3, <1>5, <3>1
    <3>2. CASE v # w
      <4>1. watch'[v] = watch[v]
        BY <1>5, <3>2
      <4>2. watch[v].pc # "idle" => /\ watch[v].baseline \in baselines
                                    /\ \A b \in baselines : b <= watch[v].baseline
        BY DEF LearningInv, WatchersAgree
      <4>3. ASSUME watch[v].pc = "loaded"
            PROVE  /\ watch[v].trade \in Carried
                   /\ ~watch[v].frozen => /\ carryRow'[watch[v].trade].carry \in {0, watch[v].baseline}
                                          /\ carryRow'[watch[v].trade].openOf = 0
        <5>1. /\ watch[v].trade \in Carried
              /\ ~watch[v].frozen => /\ carryRow[watch[v].trade].carry \in {0, watch[v].baseline}
                                     /\ carryRow[watch[v].trade].openOf = 0
          BY <4>3 DEF LearningInv, WatchersAgree
        <5>2. watch[v].baseline = new
          BY <1>3, <1>t, <4>2, <4>3
        <5>. QED
          BY <1>6, <5>1, <5>2
      <4>. QED
        BY <4>1, <4>2, <4>3
    <3>. QED
      BY <3>1, <3>2
  <2>. QED
    BY <1>2, <1>u, <2>1 DEF WatchersAgree, InSession
<1>9. AwaitsTheNext'
  <2>1. ASSUME NEW e \in Carried, carryRow'[e].carry # 0, carryRow'[e].openOf = 0
        PROVE  /\ NoneMissed(clock.day - 1) => carryRow'[e].carry >= clock.day - 1
               /\ clock.part = "evening" /\ NoneMissed(clock.day) => carryRow'[e].carry >= clock.day
    <3>1. CASE carryRow'[e].carry = carryRow[e].carry
      BY <1>6, <2>1, <3>1 DEF LearningInv, AwaitsTheNext
    <3>2. CASE carryRow'[e].carry = new
      <4>1. ASSUME NEW n \in Nat, NoneMissed(n) PROVE new >= n
        <5>1. CASE n = 0
          BY <1>4, <5>1, <1>t
        <5>2. CASE n # 0
          <6>1. n \in baselines
            BY <4>1, <5>2 DEF NoneMissed
          <6>. QED
            BY <1>3, <1>t, <6>1
        <5>. QED
          BY <5>1, <5>2
      <4>2. clock.day - 1 \in Nat
        BY <1>4, <1>t
      <4>. QED
        BY <1>t, <3>2, <4>1, <4>2
    <3>. QED
      BY <1>6, <3>1, <3>2
  <2>. QED
    BY <1>2, <1>u, <2>1 DEF AwaitsTheNext, NoneMissed, InSession
<1>10. LearnedOfItsNight'
  <2>1. ASSUME NEW e \in Carried
        PROVE  /\ carryRow'[e].carry # 0 /\ carryRow'[e].opened \in baselines
                     => carryRow'[e].carry >= carryRow'[e].opened
               /\ carryRow'[e].openOf # 0 => carryRow'[e].carry = carryRow[e].carry
    <3>1. CASE carryRow'[e].carry = carryRow[e].carry
      BY <1>6, <3>1 DEF LearningInv, LearnedOfItsNight
    <3>2. CASE carryRow'[e].carry = new /\ carryRow[e].openOf = 0
      BY <1>3, <1>6, <1>t, <3>2
    <3>. QED
      BY <1>6, <3>1, <3>2
  <2>. QED
    BY <1>6, <1>u, <2>1 DEF LearningInv, LearnedOfItsNight
<1>. QED
  BY <1>7, <1>8, <1>9, <1>10

LEMMA LearningInvStep ==
    ASSUME LearningInv, [LearningNext]_learningVars PROVE LearningInv'
<1>1. CASE LearningNext
  <2>0. LearningTypeOK'
    BY <1>1, LearningTypes
  <2>. SUFFICES DaysPassed' /\ WatchersAgree' /\ AwaitsTheNext' /\ LearnedOfItsNight'
    BY <2>0 DEF LearningInv
  <2>t. carryRow \in [Carried -> CarryRows] /\ clock.day \in Nat
    BY LearningFields DEF LearningInv
  <2>1. ASSUME NEW e \in Carried, OpenCondor(e)
        PROVE  DaysPassed' /\ WatchersAgree' /\ AwaitsTheNext' /\ LearnedOfItsNight'
    <3>1. /\ carryRow'[e] = [NotOpened EXCEPT !.opened = clock.day, !.live = TRUE]
          /\ \A f \in Carried \ {e} : carryRow'[f] = carryRow[f]
      BY <2>1, <2>t DEF OpenCondor
    <3>2. carryRow'[e].opened = clock.day /\ carryRow'[e].carry = 0 /\ carryRow'[e].openOf = 0
      BY <3>1 DEF NotOpened
    <3>3. DaysPassed' /\ AwaitsTheNext' /\ LearnedOfItsNight'
      BY <2>1, <3>1, <3>2, RowsStay DEF OpenCondor
    <3>. QED
      BY <2>1, <3>3, WatchersStay DEF OpenCondor, InSession
  <2>2. ASSUME NEW e \in Carried, CondorEnds(e)
        PROVE  DaysPassed' /\ WatchersAgree' /\ AwaitsTheNext' /\ LearnedOfItsNight'
    <3>1. carryRow' = [carryRow EXCEPT ![e] = [carryRow[e] EXCEPT !.live = FALSE]]
      BY <2>2 DEF CondorEnds
    <3>2. \A f \in Carried : /\ carryRow'[f].opened = carryRow[f].opened
                             /\ carryRow'[f].carry = carryRow[f].carry
                             /\ carryRow'[f].openOf = carryRow[f].openOf
      BY <2>t, <3>1 DEF CarryRows
    <3>3. DaysPassed' /\ AwaitsTheNext' /\ LearnedOfItsNight'
      BY <2>2, <3>2, RowsStay DEF CondorEnds
    <3>4. WatchersAgree'
      BY <2>2, <3>2 DEF CondorEnds, LearningInv, WatchersAgree, InSession
    <3>. QED
      BY <3>3, <3>4
  <2>. QED
    BY <1>1, <2>1, <2>2, TimeKeeps, HeartbeatKeeps, WatchKeeps, CommitKeeps DEF LearningNext
<1>2. CASE UNCHANGED learningVars
  BY <1>2 DEF learningVars, LearningInv, LearningTypeOK, DaysPassed, WatchersAgree, AwaitsTheNext,
     LearnedOfItsNight, NoneMissed, InSession
<1>. QED
  BY <1>1, <1>2

LEMMA LearningInvBegins == ASSUME LearningInit PROVE LearningInv
<1>. USE LearningAssumption DEF LearningInit
<1>1. \A e \in Carried : carryRow[e] = NotOpened
  OBVIOUS
<1>2. \A w \in Watchers : watch[w] = NoWatch
  OBVIOUS
<1>3. NotOpened \in CarryRows /\ NoWatch \in Watches
  BY DEF NotOpened, CarryRows, NoWatch, Watches
<1>4. LearningTypeOK
  <2>1. clock \in [day : 1..LastDay, part : DOMAIN PartAfter]
    BY DEF PartAfter
  <2>. QED
    BY <1>3, <2>1 DEF LearningTypeOK, CarryRows, Watches
<1>5. DaysPassed
  BY <1>1 DEF DaysPassed, NotOpened
<1>6. WatchersAgree
  BY <1>2 DEF WatchersAgree, NoWatch
<1>7. AwaitsTheNext /\ LearnedOfItsNight
  BY <1>1 DEF AwaitsTheNext, LearnedOfItsNight, NotOpened
<1>. QED
  BY <1>4, <1>5, <1>6, <1>7 DEF LearningInv

(* However requests race for the rows and whichever heartbeats are missed, *)
(* what is learned of a trade is of one night it was held.                 *)
THEOREM LearnedOfItsNightHolds == LearningSpec => []LearnedOfItsNight
<1>1. LearningInv => LearnedOfItsNight
  BY DEF LearningInv
<1>. QED
  BY <1>1, LearningInvBegins, LearningInvStep, PTL DEF LearningSpec

(* Baselines, rows and requests stay in their types.                       *)
THEOREM LearningTypeHolds == LearningSpec => []LearningTypeOK
<1>1. LearningInv => LearningTypeOK
  BY DEF LearningInv
<1>. QED
  BY <1>1, LearningInvBegins, LearningInvStep, PTL DEF LearningSpec

-----------------------------------------------------------------------------
(* The stop audit.                                                         *)

LEMMA DivMonotone ==
    ASSUME NEW t \in Nat, NEW a \in Nat, NEW b \in Nat, t # 0, a <= b
    PROVE  a \div t \in 0..(b \div t)
<1>. DEFINE q == a \div t
            p == b \div t
<1>1. q \in Nat /\ p \in Nat
  OBVIOUS
<1>2. t * q <= a /\ b < t * p + t
  OBVIOUS
<1>. HIDE DEF q, p
<1>3. ASSUME p + 1 <= q PROVE FALSE
  <2>1. PICK d \in Nat : q = p + 1 + d
    <3>1. q - (p + 1) \in Nat /\ q = p + 1 + (q - (p + 1))
      BY <1>1, <1>3
    <3>. QED
      BY <3>1
  <2>2. t * q = t * p + t + t * d
    BY <1>1, <2>1
  <2>3. t * d \in Nat /\ t * p \in Nat
    BY <1>1
  <2>4. t * p + t <= t * q
    BY <1>1, <2>2, <2>3
  <2>. QED
    BY <1>1, <1>2, <2>3, <2>4
<1>4. q <= p
  BY <1>1, <1>3
<1>. QED
  BY <1>1, <1>4 DEF q, p

LEMMA MinuteShown ==
    ASSUME tick \in 0..LastTick
    PROVE  Minute \in Minutes
BY StopAuditAssumption, DivMonotone DEF Minute, Minutes

LEMMA MinutesFinite == IsFiniteSet(Minutes)
<1>1. LastTick \div TicksPerMinute \in Int
  BY StopAuditAssumption
<1>. QED
  BY <1>1, FS_Interval DEF Minutes

SampleRows == [status : {"none", "INTERRUPTED", "VALID", "UNAVAILABLE"}, pnl : Profits \cup {0}, at : Times]
AuditRows == [status : {"none", "TRACKING", "AWAITING_SETTLEMENT"}, since : 0..LastTick,
              attempted : Nat, valid : Nat, best : Marks, worst : Marks, latest : Marks,
              breakevenAt : Times, profitAt : Times]
SamplerRows == [pc : {"idle", "asked", "answered"}, minute : Minutes, result : SampleRows]
Attempted == {m \in Minutes : samples[m].status # "none"}

(* What the summary of valid samples says, apart from the first times.     *)
Summarized ==
    /\ audit.attempted = Cardinality(Attempted)
    /\ audit.valid = Cardinality(ValidMinutes)
    /\ ValidMinutes # {} =>
          /\ \A m \in ValidMinutes : /\ audit.worst.value <= samples[m].pnl
                                     /\ samples[m].pnl <= audit.best.value
                                     /\ samples[m].at <= audit.latest.at
          /\ \A mark \in {audit.best, audit.worst, audit.latest} :
                \E m \in ValidMinutes : samples[m].pnl = mark.value /\ samples[m].at = mark.at

AuditInv == StopAuditTypeOK /\ SamplersApart /\ AuditBegins /\ FirstsKept /\ Summarized

LEMMA AuditFields ==
    ASSUME StopAuditTypeOK, SamplersApart
    PROVE  /\ tick \in 0..LastTick /\ LastTick \in Nat /\ Expiry \in Nat
           /\ audit \in AuditRows /\ samples \in [Minutes -> SampleRows]
           /\ sampler \in [Samplers -> SamplerRows] /\ enroller \in [Enrollers -> Times]
           /\ \A t \in Times : t \in Int
           /\ \A v \in Profits \cup {0} : v \in Int
BY StopAuditAssumption
   DEF StopAuditTypeOK, SamplersApart, AuditRows, SampleRows, SamplerRows, Times

LEMMA ConstantRows ==
    /\ NoSample \in SampleRows /\ Attempt \in SampleRows /\ Unseen \in Marks /\ NotEnrolled \in AuditRows
    /\ Attempt.status = "INTERRUPTED" /\ Attempt.at = -1
    /\ NoSample.status = "none" /\ IdleSampler.pc = "idle" /\ IdleSampler \in SamplerRows
<1>0. -1 \in Times /\ 0 \in 0..LastTick /\ 0 \in Minutes
  <2>2. 0 \div TicksPerMinute \in 0..(LastTick \div TicksPerMinute)
    BY StopAuditAssumption, DivMonotone
  <2>3. LastTick \div TicksPerMinute \in Nat
    BY StopAuditAssumption
  <2>. QED
    BY <2>3, StopAuditAssumption DEF Times, Minutes
<1>1. NoSample \in SampleRows /\ NoSample.status = "none" /\ NoSample.at = -1
  BY <1>0 DEF NoSample, SampleRows
<1>2. Attempt \in SampleRows /\ Attempt.status = "INTERRUPTED" /\ Attempt.at = -1
  BY <1>1 DEF Attempt, SampleRows
<1>3. Unseen \in Marks
  BY <1>0 DEF Unseen, Marks
<1>4. NotEnrolled \in AuditRows
  BY <1>0, <1>3 DEF NotEnrolled, AuditRows
<1>5. IdleSampler.pc = "idle" /\ IdleSampler \in SamplerRows
  BY <1>0, <1>1 DEF IdleSampler, SamplerRows
<1>. QED
  BY <1>1, <1>2, <1>3, <1>4, <1>5

(* The first of some times, when another comes.                            *)
LEMMA SoonerFirst ==
    ASSUME NEW times, \A u \in times : u \in Int /\ u >= 0, NEW at \in Nat,
           NEW old, IsFirst(old, times)
    PROVE  IsFirst(Sooner(old, at), times \cup {at})
<1>1. CASE times = {}
  <2>1. Sooner(old, at) = at /\ times \cup {at} = {at}
    BY <1>1 DEF IsFirst, Sooner
  <2>. QED
    BY <2>1 DEF IsFirst
<1>2. CASE times # {}
  <2>1. old \in times /\ \A u \in times : old <= u
    BY <1>2 DEF IsFirst
  <2>2. old \in Int /\ old # -1
    BY <2>1
  <2>3. Sooner(old, at) \in times \cup {at} /\ \A u \in times \cup {at} : Sooner(old, at) <= u
    BY <2>1, <2>2 DEF Sooner
  <2>. QED
    BY <2>3 DEF IsFirst
<1>. QED
  BY <1>1, <1>2

LEMMA FirstIsChosen ==
    ASSUME NEW times, \A u \in times : u \in Int, NEW at, IsFirst(at, times)
    PROVE  at = IF times = {} THEN -1 ELSE CHOOSE t \in times : \A u \in times : t <= u
<1>1. CASE times = {}
  BY <1>1 DEF IsFirst
<1>2. CASE times # {}
  <2>1. at \in times /\ \A u \in times : at <= u
    BY <1>2 DEF IsFirst
  <2>2. \A t \in times : (\A u \in times : t <= u) => t = at
    BY <2>1
  <2>. QED
    BY <1>2, <2>1, <2>2
<1>. QED
  BY <1>1, <1>2

LEMMA SummaryHolds == ASSUME AuditInv PROVE AuditSummarizesSamples
<1>t. \A t \in Times : t \in Int
  BY AuditFields DEF AuditInv
<1>s. samples \in [Minutes -> SampleRows]
  BY AuditFields DEF AuditInv
<1>0. \A m \in Minutes : samples[m].at \in Int /\ samples[m].pnl \in Int
  BY <1>s, <1>t, AuditFields DEF AuditInv, SampleRows
<1>1. audit.breakevenAt = EarliestWhere(LAMBDA v : v >= 0)
  <2>1. \A u \in TimesAbove(0) : u \in Int
    BY <1>0 DEF TimesAbove, ValidMinutes
  <2>2. audit.breakevenAt = IF TimesAbove(0) = {} THEN -1
                            ELSE CHOOSE t \in TimesAbove(0) : \A u \in TimesAbove(0) : t <= u
    BY <2>1, FirstIsChosen DEF AuditInv, FirstsKept
  <2>. QED
    BY <2>2 DEF EarliestWhere, TimesAbove
<1>2. audit.profitAt = EarliestWhere(LAMBDA v : v > 0)
  <2>1. \A u \in TimesAbove(1) : u \in Int
    BY <1>0 DEF TimesAbove, ValidMinutes
  <2>2. audit.profitAt = IF TimesAbove(1) = {} THEN -1
                         ELSE CHOOSE t \in TimesAbove(1) : \A u \in TimesAbove(1) : t <= u
    BY <2>1, FirstIsChosen DEF AuditInv, FirstsKept
  <2>3. {n \in ValidMinutes : samples[n].pnl >= 1} = {n \in ValidMinutes : samples[n].pnl > 0}
    BY <1>0 DEF ValidMinutes
  <2>. QED
    BY <2>2, <2>3 DEF EarliestWhere, TimesAbove
<1>. QED
  BY <1>1, <1>2 DEF AuditInv, Summarized, AuditSummarizesSamples, Attempted

LEMMA CountedFields ==
    ASSUME NEW a \in AuditRows, NEW r \in SampleRows, r.status = "VALID"
    PROVE  LET mark == [value |-> r.pnl, at |-> r.at]
           IN  /\ Counted(a, r) \in AuditRows
               /\ Counted(a, r).status = a.status /\ Counted(a, r).attempted = a.attempted
               /\ Counted(a, r).valid = a.valid + 1
               /\ Counted(a, r).best = Newer(a.best, mark, a.best.value < r.pnl)
               /\ Counted(a, r).worst = Newer(a.worst, mark, a.worst.value > r.pnl)
               /\ Counted(a, r).latest = Newer(a.latest, mark, a.latest.at < r.at)
               /\ Counted(a, r).breakevenAt = IF r.pnl >= 0 THEN Sooner(a.breakevenAt, r.at) ELSE a.breakevenAt
               /\ Counted(a, r).profitAt = IF r.pnl > 0 THEN Sooner(a.profitAt, r.at) ELSE a.profitAt
<1>. DEFINE mark == [value |-> r.pnl, at |-> r.at]
            best == Newer(a.best, mark, a.best.value < r.pnl)
            worst == Newer(a.worst, mark, a.worst.value > r.pnl)
            latest == Newer(a.latest, mark, a.latest.at < r.at)
            breakeven == IF r.pnl >= 0 THEN Sooner(a.breakevenAt, r.at) ELSE a.breakevenAt
            profit == IF r.pnl > 0 THEN Sooner(a.profitAt, r.at) ELSE a.profitAt
            valid == a.valid + 1
<1>1. mark \in Marks
  BY DEF SampleRows, Marks
<1>2. best \in Marks /\ worst \in Marks /\ latest \in Marks
  BY <1>1 DEF Newer, AuditRows
<1>3. breakeven \in Times /\ profit \in Times
  BY DEF Sooner, AuditRows, SampleRows
<1>4. valid \in Nat
  BY DEF AuditRows
<1>5. Counted(a, r) = [a EXCEPT !.valid = valid, !.best = best, !.worst = worst, !.latest = latest,
                                !.breakevenAt = breakeven, !.profitAt = profit]
  BY DEF Counted
<1>. HIDE DEF best, worst, latest, breakeven, profit, valid
<1>6. Counted(a, r) \in AuditRows
  BY <1>2, <1>3, <1>4, <1>5, ZenonT(60) DEF AuditRows
<1>7. /\ Counted(a, r).status = a.status /\ Counted(a, r).attempted = a.attempted
      /\ Counted(a, r).valid = valid /\ Counted(a, r).best = best /\ Counted(a, r).worst = worst
      /\ Counted(a, r).latest = latest /\ Counted(a, r).breakevenAt = breakeven
      /\ Counted(a, r).profitAt = profit
  BY <1>5 DEF AuditRows
<1>. QED
  BY <1>6, <1>7 DEF best, worst, latest, breakeven, profit, valid

(* Only the summary of the valid samples.                                  *)
MarksKept ==
    /\ audit.valid = Cardinality(ValidMinutes)
    /\ ValidMinutes # {} =>
          /\ \A m \in ValidMinutes : /\ audit.worst.value <= samples[m].pnl
                                     /\ samples[m].pnl <= audit.best.value
                                     /\ samples[m].at <= audit.latest.at
          /\ \A mark \in {audit.best, audit.worst, audit.latest} :
                \E m \in ValidMinutes : samples[m].pnl = mark.value /\ samples[m].at = mark.at
    /\ \A m \in ValidMinutes : samples[m].at >= 0
    /\ ValidMinutes = {} => \A mark \in {audit.best, audit.worst, audit.latest} : mark = Unseen

LEMMA KeptMarks == ASSUME AuditInv PROVE MarksKept
BY DEF AuditInv, Summarized, AuditBegins, MarksKept

(* A step that leaves the valid samples, and what the row says of them.    *)
LEMMA MarksStay ==
    ASSUME MarksKept, FirstsKept, ValidMinutes' = ValidMinutes,
           \A m \in ValidMinutes : samples'[m] = samples[m],
           audit'.valid = audit.valid, audit'.best = audit.best, audit'.worst = audit.worst,
           audit'.latest = audit.latest, audit'.breakevenAt = audit.breakevenAt,
           audit'.profitAt = audit.profitAt
    PROVE  MarksKept' /\ FirstsKept'
<1>1. MarksKept'
  BY DEF MarksKept
<1>2. TimesAbove(0)' = TimesAbove(0) /\ TimesAbove(1)' = TimesAbove(1)
  BY DEF TimesAbove
<1>3. FirstsKept'
  BY <1>2 DEF FirstsKept
<1>. QED
  BY <1>1, <1>3

(* Another valid sample, counted.                                          *)
LEMMA MarksCounted ==
    ASSUME AuditInv, NEW m \in Minutes, m \notin ValidMinutes,
           NEW r \in SampleRows, r.status = "VALID", r.at >= 0,
           samples' = [samples EXCEPT ![m] = r],
           audit'.valid = Counted(audit, r).valid, audit'.best = Counted(audit, r).best,
           audit'.worst = Counted(audit, r).worst, audit'.latest = Counted(audit, r).latest,
           audit'.breakevenAt = Counted(audit, r).breakevenAt,
           audit'.profitAt = Counted(audit, r).profitAt
    PROVE  MarksKept' /\ FirstsKept'
<1>. DEFINE mark == [value |-> r.pnl, at |-> r.at]
<1>t. /\ audit \in AuditRows /\ samples \in [Minutes -> SampleRows]
      /\ \A t \in Times : t \in Int
      /\ \A v \in Profits \cup {0} : v \in Int
  BY AuditFields DEF AuditInv
<1>k. MarksKept
  BY KeptMarks
<1>r. r.pnl \in Int /\ r.at \in Nat
  BY <1>t DEF SampleRows
<1>n. \A n \in Minutes : samples[n].pnl \in Int /\ samples[n].at \in Int
  BY <1>t DEF SampleRows
<1>i. /\ audit.best.value \in Int /\ audit.worst.value \in Int /\ audit.latest.value \in Int
      /\ audit.best.at \in Int /\ audit.worst.at \in Int /\ audit.latest.at \in Int
  BY <1>t DEF AuditRows, Marks
<1>v. /\ ValidMinutes' = ValidMinutes \cup {m} /\ ValidMinutes \subseteq Minutes
      /\ samples'[m] = r /\ \A n \in ValidMinutes : samples'[n] = samples[n]
  BY <1>t DEF ValidMinutes
<1>c. /\ audit'.valid = audit.valid + 1
      /\ audit'.best = Newer(audit.best, mark, audit.best.value < r.pnl)
      /\ audit'.worst = Newer(audit.worst, mark, audit.worst.value > r.pnl)
      /\ audit'.latest = Newer(audit.latest, mark, audit.latest.at < r.at)
      /\ audit'.breakevenAt = IF r.pnl >= 0 THEN Sooner(audit.breakevenAt, r.at) ELSE audit.breakevenAt
      /\ audit'.profitAt = IF r.pnl > 0 THEN Sooner(audit.profitAt, r.at) ELSE audit.profitAt
  BY <1>t, CountedFields
<1>m. mark.value = r.pnl /\ mark.at = r.at
  OBVIOUS
<1>. HIDE DEF mark
<1>1. audit'.valid = Cardinality(ValidMinutes')
  <2>1. ValidMinutes \in SUBSET Minutes
    BY <1>v
  <2>2. IsFiniteSet(ValidMinutes)
    BY <2>1, MinutesFinite, FS_Subset
  <2>3. Cardinality(ValidMinutes \cup {m}) = Cardinality(ValidMinutes) + 1
    BY <2>2, FS_AddElement
  <2>. QED
    BY <1>c, <1>k, <1>v, <2>3 DEF MarksKept
<1>2. CASE ValidMinutes = {}
  <2>1. /\ audit.best.at = -1 /\ audit.worst.at = -1 /\ audit.latest.at = -1
    BY <1>k, <1>2 DEF MarksKept, Unseen
  <2>2. audit'.best = mark /\ audit'.worst = mark /\ audit'.latest = mark
    BY <1>c, <2>1 DEF Newer
  <2>3. ValidMinutes' = {m}
    BY <1>2, <1>v
  <2>. QED
    <3>1. MarksKept'
      BY <1>1, <1>m, <1>r, <1>v, <2>2, <2>3 DEF MarksKept
    <3>2. TimesAbove(0) = {} /\ TimesAbove(1) = {}
      BY <1>2 DEF TimesAbove
    <3>3. TimesAbove(0)' = IF r.pnl >= 0 THEN {r.at} ELSE {}
      BY <1>v, <2>3 DEF TimesAbove
    <3>4. TimesAbove(1)' = IF r.pnl > 0 THEN {r.at} ELSE {}
      BY <1>r, <1>v, <2>3 DEF TimesAbove
    <3>5. audit.breakevenAt = -1 /\ audit.profitAt = -1
      BY <3>2 DEF AuditInv, FirstsKept, IsFirst
    <3>7. /\ audit'.breakevenAt = IF r.pnl >= 0 THEN r.at ELSE -1
          /\ audit'.profitAt = IF r.pnl > 0 THEN r.at ELSE -1
      BY <1>c, <3>5 DEF Sooner
    <3>8. IsFirst(r.at, {r.at}) /\ IsFirst(-1, {})
      BY <1>r DEF IsFirst
    <3>9. IsFirst(audit'.breakevenAt, TimesAbove(0)') /\ IsFirst(audit'.profitAt, TimesAbove(1)')
      BY <3>3, <3>4, <3>7, <3>8
    <3>6. FirstsKept'
      BY <3>9 DEF FirstsKept
    <3>. QED
      BY <3>1, <3>6
<1>3. CASE ValidMinutes # {}
  <2>1. \A x \in {audit.best, audit.worst, audit.latest} :
           \E n \in ValidMinutes : samples[n].pnl = x.value /\ samples[n].at = x.at
    BY <1>3, <1>k DEF MarksKept
  <2>2. /\ audit.best.at # -1 /\ audit.worst.at # -1 /\ audit.latest.at # -1
    <3>1. \A n \in ValidMinutes : samples[n].at # -1
      BY <1>k, <1>n, <1>v DEF MarksKept
    <3>. QED
      BY <2>1, <3>1
  <2>3. /\ audit'.best = IF audit.best.value < r.pnl THEN mark ELSE audit.best
        /\ audit'.worst = IF audit.worst.value > r.pnl THEN mark ELSE audit.worst
        /\ audit'.latest = IF audit.latest.at < r.at THEN mark ELSE audit.latest
    BY <1>c, <2>2 DEF Newer
  <2>4. ASSUME NEW n \in ValidMinutes'
        PROVE  /\ audit'.worst.value <= samples'[n].pnl
               /\ samples'[n].pnl <= audit'.best.value
               /\ samples'[n].at <= audit'.latest.at
               /\ samples'[n].at >= 0
    <3>1. CASE n = m
      BY <1>i, <1>m, <1>r, <1>v, <2>3, <3>1
    <3>2. CASE n \in ValidMinutes
      <4>1. /\ audit.worst.value <= samples[n].pnl /\ samples[n].pnl <= audit.best.value
            /\ samples[n].at <= audit.latest.at /\ samples[n].at >= 0
        BY <1>k, <3>2 DEF MarksKept
      <4>2. samples[n].pnl \in Int /\ samples[n].at \in Int /\ samples'[n] = samples[n]
        BY <1>n, <1>v, <3>2
      <4>. QED
        BY <1>i, <1>m, <1>r, <2>3, <4>1, <4>2
    <3>. QED
      BY <1>v, <3>1, <3>2
  <2>5. ASSUME NEW x \in {audit.best, audit.worst, audit.latest, mark}
        PROVE  \E n \in ValidMinutes' : samples'[n].pnl = x.value /\ samples'[n].at = x.at
    <3>1. CASE x = mark
      BY <1>m, <1>v, <3>1
    <3>2. CASE x # mark
      <4>1. PICK n \in ValidMinutes : samples[n].pnl = x.value /\ samples[n].at = x.at
        BY <2>1, <3>2
      <4>. QED
        BY <1>v, <4>1
    <3>. QED
      BY <3>1, <3>2
  <2>6. \A x \in {audit'.best, audit'.worst, audit'.latest} :
           \E n \in ValidMinutes' : samples'[n].pnl = x.value /\ samples'[n].at = x.at
    BY <2>3, <2>5
  <2>7. MarksKept'
    BY <1>1, <1>v, <2>4, <2>6 DEF MarksKept
  <2>8. \A least \in {0, 1} : \A u \in TimesAbove(least) : u \in Int /\ u >= 0
    BY <1>k, <1>n, <1>v DEF TimesAbove, MarksKept
  <2>9. ASSUME NEW least \in {0, 1}
        PROVE  TimesAbove(least)' = IF r.pnl >= least THEN TimesAbove(least) \cup {r.at}
                                    ELSE TimesAbove(least)
    <3>1. TimesAbove(least)' = {samples'[n].at : n \in {k \in ValidMinutes' : samples'[k].pnl >= least}}
      BY DEF TimesAbove
    <3>2. CASE r.pnl >= least
      <4>1. {k \in ValidMinutes' : samples'[k].pnl >= least}
              = {k \in ValidMinutes : samples[k].pnl >= least} \cup {m}
        BY <1>v, <3>2
      <4>. QED
        BY <1>v, <3>1, <3>2, <4>1 DEF TimesAbove
    <3>3. CASE ~(r.pnl >= least)
      <4>1. {k \in ValidMinutes' : samples'[k].pnl >= least}
              = {k \in ValidMinutes : samples[k].pnl >= least}
        BY <1>v, <3>3
      <4>. QED
        BY <1>v, <3>1, <3>3, <4>1 DEF TimesAbove
    <3>. QED
      BY <3>2, <3>3
  <2>10. IsFirst(audit'.breakevenAt, TimesAbove(0)')
    <3>1. IsFirst(audit.breakevenAt, TimesAbove(0))
      BY DEF AuditInv, FirstsKept
    <3>2. IsFirst(Sooner(audit.breakevenAt, r.at), TimesAbove(0) \cup {r.at})
      BY <1>r, <2>8, <3>1, SoonerFirst
    <3>. QED
      BY <1>c, <2>9, <3>1, <3>2
  <2>11. IsFirst(audit'.profitAt, TimesAbove(1)')
    <3>1. IsFirst(audit.profitAt, TimesAbove(1))
      BY DEF AuditInv, FirstsKept
    <3>2. IsFirst(Sooner(audit.profitAt, r.at), TimesAbove(1) \cup {r.at})
      BY <1>r, <2>8, <3>1, SoonerFirst
    <3>3. r.pnl > 0 <=> r.pnl >= 1
      BY <1>r
    <3>. QED
      BY <1>c, <2>9, <3>1, <3>2, <3>3
  <2>12. FirstsKept'
    BY <2>10, <2>11 DEF FirstsKept
  <2>. QED
    BY <2>7, <2>12
<1>. QED
  BY <1>2, <1>3

LEMMA AuditTypesStep ==
    ASSUME AuditInv, StopAuditNext
    PROVE  StopAuditTypeOK'
<1>t. /\ tick \in 0..LastTick /\ LastTick \in Nat /\ Expiry \in Nat
      /\ audit \in AuditRows /\ samples \in [Minutes -> SampleRows]
      /\ sampler \in [Samplers -> SamplerRows] /\ enroller \in [Enrollers -> Times]
  BY AuditFields DEF AuditInv
<1>o. ASSUME tick' \in 0..LastTick, audit' \in AuditRows, samples' \in [Minutes -> SampleRows],
             enroller' \in [Enrollers -> Times]
      PROVE  StopAuditTypeOK'
  BY <1>o DEF StopAuditTypeOK, AuditRows, SampleRows
<1>n. -1 \in Times /\ tick \in Times
  BY <1>t DEF Times
<1>1. ASSUME NEW r \in Enrollers, BeginEnroll(r) \/ RefuseEnroll(r) PROVE StopAuditTypeOK'
  BY <1>1, <1>n, <1>o, <1>t DEF BeginEnroll, RefuseEnroll
<1>2. ASSUME NEW r \in Enrollers, CommitEnroll(r) PROVE StopAuditTypeOK'
  <2>1. enroller[r] \in 0..LastTick
    BY <1>2, <1>t DEF CommitEnroll, Times
  <2>2. [NotEnrolled EXCEPT !.status = "TRACKING", !.since = enroller[r]] \in AuditRows
    BY <2>1, ConstantRows, ZenonT(30) DEF AuditRows
  <2>3. audit' \in AuditRows
    BY <1>2, <1>t, <2>2 DEF CommitEnroll
  <2>. QED
    BY <1>2, <1>n, <1>o, <1>t, <2>3 DEF CommitEnroll
<1>3. ASSUME NEW s \in Samplers, AuditExpires(s) PROVE StopAuditTypeOK'
  <2>1. audit' \in AuditRows
    BY <1>3, <1>t DEF AuditExpires, AuditRows
  <2>. QED
    BY <1>3, <1>o, <1>t, <2>1 DEF AuditExpires
<1>4. ASSUME NEW s \in Samplers, BeginSample(s) PROVE StopAuditTypeOK'
  <2>1. audit' \in AuditRows
    <3>1. audit.attempted + 1 \in Nat
      BY <1>t DEF AuditRows
    <3>2. audit' = [audit EXCEPT !.attempted = audit.attempted + 1]
      BY <1>4 DEF BeginSample
    <3>. QED
      BY <1>t, <3>1, <3>2 DEF AuditRows
  <2>2. samples' \in [Minutes -> SampleRows]
    BY <1>4, <1>t, ConstantRows DEF BeginSample
  <2>. QED
    BY <1>4, <1>o, <1>t, <2>1, <2>2 DEF BeginSample
<1>5. ASSUME NEW s \in Samplers, ReceiveQuotes(s) \/ SamplerDies(s) PROVE StopAuditTypeOK'
  BY <1>5, <1>o, <1>t DEF ReceiveQuotes, SamplerDies
<1>6. ASSUME NEW s \in Samplers, CommitSample(s) PROVE StopAuditTypeOK'
  <2>1. sampler[s].result \in SampleRows
    BY <1>t DEF SamplerRows
  <2>2. samples' \in [Minutes -> SampleRows]
    BY <1>6, <1>t, <2>1 DEF CommitSample
  <2>. DEFINE counted == IF sampler[s].result.status = "VALID" THEN Counted(audit, sampler[s].result) ELSE audit
  <2>3. counted \in AuditRows
    BY <1>t, <2>1, CountedFields
  <2>4. audit' = IF sampler[s].result.at >= Expiry THEN [counted EXCEPT !.status = "AWAITING_SETTLEMENT"]
                 ELSE counted
    BY <1>6 DEF CommitSample
  <2>. HIDE DEF counted
  <2>5. [counted EXCEPT !.status = "AWAITING_SETTLEMENT"] \in AuditRows
    BY <2>3 DEF AuditRows
  <2>6. audit' \in AuditRows
    BY <2>3, <2>4, <2>5
  <2>. QED
    BY <1>6, <1>o, <1>t, <2>2, <2>6 DEF CommitSample
<1>7. ASSUME TimePasses PROVE StopAuditTypeOK'
  <2>1. tick' \in 0..LastTick
    BY <1>7, <1>t DEF TimePasses
  <2>. QED
    BY <1>7, <1>o, <1>t, <2>1 DEF TimePasses
<1>. QED
  BY <1>1, <1>2, <1>3, <1>4, <1>5, <1>6, <1>7 DEF StopAuditNext

(* Steps of the samplers: the minutes stay apart.                          *)
LEMMA ApartStep ==
    ASSUME AuditInv, StopAuditNext
    PROVE  SamplersApart'
<1>t. /\ tick \in 0..LastTick /\ samples \in [Minutes -> SampleRows]
      /\ sampler \in [Samplers -> SamplerRows] /\ \A t \in Times : t \in Int
  BY AuditFields DEF AuditInv
<1>a. /\ \A s \in Samplers : Busy(s) => samples[sampler[s].minute].status = "INTERRUPTED"
      /\ \A s, o \in Samplers : Busy(s) /\ Busy(o) /\ sampler[s].minute = sampler[o].minute => s = o
      /\ \A s \in Samplers : At(s, "answered") =>
            sampler[s].result.status \in {"VALID", "UNAVAILABLE"} /\ sampler[s].result.at >= 0
  BY DEF AuditInv, SamplersApart
<1>o. ASSUME sampler' \in [Samplers -> SamplerRows],
             \A s \in Samplers : sampler'[s].pc # "idle" => samples'[sampler'[s].minute].status = "INTERRUPTED",
             \A s, o \in Samplers : sampler'[s].pc # "idle" /\ sampler'[o].pc # "idle"
                                      /\ sampler'[s].minute = sampler'[o].minute => s = o,
             \A s \in Samplers : sampler'[s].pc = "answered" =>
                sampler'[s].result.status \in {"VALID", "UNAVAILABLE"} /\ sampler'[s].result.at >= 0
      PROVE  SamplersApart'
  BY <1>o DEF SamplersApart, SamplerRows, SampleRows, Busy, At
<1>k. ASSUME UNCHANGED <<sampler, samples>> PROVE SamplersApart'
  BY <1>a, <1>k, <1>o, <1>t DEF Busy, At
(* One sampler moves on, its minute stays or it has none.                  *)
<1>m. ASSUME NEW s \in Samplers, sampler' \in [Samplers -> SamplerRows],
             \A o \in Samplers \ {s} : sampler'[o] = sampler[o],
             sampler'[s].pc = "idle"
                \/ (sampler[s].pc # "idle" /\ sampler'[s].minute = sampler[s].minute
                      /\ samples' = samples),
             sampler'[s].pc = "answered" =>
                sampler'[s].result.status \in {"VALID", "UNAVAILABLE"} /\ sampler'[s].result.at >= 0,
             \A o \in Samplers \ {s} : Busy(o) =>
                samples'[sampler[o].minute] = samples[sampler[o].minute]
      PROVE  SamplersApart'
  <2>1. ASSUME NEW o \in Samplers, sampler'[o].pc # "idle"
        PROVE  /\ samples'[sampler'[o].minute].status = "INTERRUPTED"
               /\ Busy(o) /\ sampler'[o].minute = sampler[o].minute
    <3>1. CASE o = s
      BY <1>a, <1>m, <2>1, <3>1 DEF Busy
    <3>2. CASE o # s
      BY <1>a, <1>m, <2>1, <3>2 DEF Busy
    <3>. QED
      BY <3>1, <3>2
  <2>2. \A o \in Samplers : sampler'[o].pc = "answered" =>
          sampler'[o].result.status \in {"VALID", "UNAVAILABLE"} /\ sampler'[o].result.at >= 0
    BY <1>a, <1>m DEF At
  <2>. QED
    BY <1>a, <1>m, <1>o, <2>1, <2>2
<1>1. ASSUME NEW s \in Samplers, BeginSample(s) PROVE SamplersApart'
  <2>1. Minute \in Minutes
    BY <1>t, MinuteShown
  <2>2. [IdleSampler EXCEPT !.pc = "asked", !.minute = Minute] \in SamplerRows
    BY <2>1, ConstantRows, ZenonT(30) DEF SamplerRows
  <2>3. /\ sampler' \in [Samplers -> SamplerRows]
        /\ sampler'[s] = [IdleSampler EXCEPT !.pc = "asked", !.minute = Minute]
        /\ \A o \in Samplers \ {s} : sampler'[o] = sampler[o]
    BY <1>1, <1>t, <2>2 DEF BeginSample
  <2>4. sampler'[s].pc = "asked" /\ sampler'[s].minute = Minute
    BY <2>3 DEF IdleSampler
  <2>5. /\ samples'[Minute].status = "INTERRUPTED"
        /\ \A m \in Minutes \ {Minute} : samples'[m] = samples[m]
    BY <1>1, <1>t, <2>1, ConstantRows DEF BeginSample
  <2>6. \A o \in Samplers : Busy(o) => sampler[o].minute # Minute /\ sampler[o].minute \in Minutes
    BY <1>1, <1>a, <1>t DEF BeginSample, SamplerRows
  <2>7. \A o \in Samplers \ {s} : sampler'[o].pc # "idle" => Busy(o) /\ sampler'[o] = sampler[o]
    BY <2>3 DEF Busy
  <2>8. \A o \in Samplers : sampler'[o].pc # "idle" => samples'[sampler'[o].minute].status = "INTERRUPTED"
    BY <1>a, <2>4, <2>5, <2>6, <2>7
  <2>9. \A o, p \in Samplers : sampler'[o].pc # "idle" /\ sampler'[p].pc # "idle"
                                 /\ sampler'[o].minute = sampler'[p].minute => o = p
    BY <1>a, <2>4, <2>6, <2>7
  <2>10. \A o \in Samplers : sampler'[o].pc = "answered" =>
           sampler'[o].result.status \in {"VALID", "UNAVAILABLE"} /\ sampler'[o].result.at >= 0
    BY <1>a, <2>3, <2>4 DEF At
  <2>. QED
    BY <1>o, <2>3, <2>8, <2>9, <2>10
<1>2. ASSUME NEW s \in Samplers, ReceiveQuotes(s) PROVE SamplersApart'
  <2>1. PICK result \in {[status |-> "UNAVAILABLE", pnl |-> 0, at |-> tick]}
                     \cup {[status |-> "VALID", pnl |-> v, at |-> tick] : v \in Profits} :
           sampler' = [sampler EXCEPT ![s] = [sampler[s] EXCEPT !.pc = "answered", !.result = result]]
    BY <1>2 DEF ReceiveQuotes
  <2>2. result \in SampleRows /\ result.status \in {"VALID", "UNAVAILABLE"} /\ result.at >= 0
    <3>1. tick \in Times /\ tick >= 0
      BY <1>t, StopAuditAssumption DEF Times
    <3>2. CASE result = [status |-> "UNAVAILABLE", pnl |-> 0, at |-> tick]
      BY <3>1, <3>2 DEF SampleRows
    <3>3. ASSUME NEW v \in Profits, result = [status |-> "VALID", pnl |-> v, at |-> tick]
          PROVE  result \in SampleRows /\ result.status \in {"VALID", "UNAVAILABLE"} /\ result.at >= 0
      BY <3>1, <3>3 DEF SampleRows
    <3>. QED
      BY <2>1, <3>2, <3>3
  <2>3. [sampler[s] EXCEPT !.pc = "answered", !.result = result] \in SamplerRows
    BY <1>t, <2>2, ZenonT(30) DEF SamplerRows
  <2>4. sampler'[s] = [sampler[s] EXCEPT !.pc = "answered", !.result = result]
    BY <1>t, <2>1
  <2>5. sampler'[s].result = result /\ sampler'[s].minute = sampler[s].minute
    BY <1>t, <2>4 DEF SamplerRows
  <2>6. sampler' \in [Samplers -> SamplerRows] /\ \A o \in Samplers \ {s} : sampler'[o] = sampler[o]
    BY <1>t, <2>1, <2>3
  <2>7. sampler[s].pc # "idle" /\ samples' = samples
    BY <1>2 DEF ReceiveQuotes, At
  <2>. QED
    BY <1>m, <2>2, <2>5, <2>6, <2>7
<1>3. ASSUME NEW s \in Samplers, CommitSample(s) PROVE SamplersApart'
  <2>1. /\ sampler' \in [Samplers -> SamplerRows] /\ sampler'[s].pc = "idle"
        /\ \A o \in Samplers \ {s} : sampler'[o] = sampler[o]
    BY <1>3, <1>t, ConstantRows DEF CommitSample
  <2>2. Busy(s)
    BY <1>3 DEF CommitSample, At, Busy
  <2>3. \A o \in Samplers \ {s} : Busy(o) => sampler[o].minute # sampler[s].minute
    BY <1>a, <2>2
  <2>4. \A o \in Samplers : sampler[o].minute \in Minutes
    BY <1>t DEF SamplerRows
  <2>5. \A m \in Minutes : m # sampler[s].minute => samples'[m] = samples[m]
    BY <1>3, <1>t DEF CommitSample
  <2>6. \A o \in Samplers \ {s} : Busy(o) => samples'[sampler[o].minute] = samples[sampler[o].minute]
    BY <2>3, <2>4, <2>5
  <2>. QED
    BY <1>m, <2>1, <2>6
<1>4. ASSUME NEW s \in Samplers, SamplerDies(s) PROVE SamplersApart'
  <2>1. /\ sampler' \in [Samplers -> SamplerRows] /\ sampler'[s].pc = "idle"
        /\ \A o \in Samplers \ {s} : sampler'[o] = sampler[o]
    BY <1>4, <1>t, ConstantRows DEF SamplerDies
  <2>. QED
    BY <1>4, <1>m, <2>1 DEF SamplerDies
<1>5. ASSUME NEW s \in Samplers, AuditExpires(s) PROVE SamplersApart'
  BY <1>5, <1>k DEF AuditExpires
<1>6. ASSUME NEW r \in Enrollers, BeginEnroll(r) \/ CommitEnroll(r) \/ RefuseEnroll(r) PROVE SamplersApart'
  BY <1>6, <1>k DEF BeginEnroll, CommitEnroll, RefuseEnroll
<1>7. ASSUME TimePasses PROVE SamplersApart'
  BY <1>7, <1>k DEF TimePasses
<1>. QED
  BY <1>1, <1>2, <1>3, <1>4, <1>5, <1>6, <1>7 DEF StopAuditNext

LEMMA SummaryStep ==
    ASSUME AuditInv, StopAuditNext
    PROVE  AuditBegins' /\ FirstsKept' /\ Summarized'
<1>t. /\ tick \in 0..LastTick /\ audit \in AuditRows /\ samples \in [Minutes -> SampleRows]
      /\ sampler \in [Samplers -> SamplerRows] /\ \A t \in Times : t \in Int
  BY AuditFields DEF AuditInv
<1>k. /\ MarksKept /\ FirstsKept /\ audit.attempted = Cardinality(Attempted)
      /\ audit.status = "none" => audit = NotEnrolled /\ \A m \in Minutes : samples[m].status = "none"
  BY KeptMarks DEF AuditInv, Summarized, AuditBegins
<1>o. ASSUME MarksKept', FirstsKept', audit'.attempted = Cardinality(Attempted'),
             audit'.status = "none" =>
                audit' = NotEnrolled /\ \A m \in Minutes : samples'[m].status = "none"
      PROVE  AuditBegins' /\ FirstsKept' /\ Summarized'
  BY <1>o DEF MarksKept, Summarized, AuditBegins
(* Steps that leave the samples and the figures of the row.                *)
<1>s. ASSUME samples' = samples, audit'.valid = audit.valid, audit'.attempted = audit.attempted,
             audit'.best = audit.best, audit'.worst = audit.worst,
             audit'.latest = audit.latest, audit'.breakevenAt = audit.breakevenAt,
             audit'.profitAt = audit.profitAt,
             audit'.status = "none" => audit' = audit
      PROVE  AuditBegins' /\ FirstsKept' /\ Summarized'
  <2>1. ValidMinutes' = ValidMinutes /\ Attempted' = Attempted
    BY <1>s DEF ValidMinutes, Attempted
  <2>2. MarksKept' /\ FirstsKept'
    BY <1>k, <1>s, <2>1, MarksStay
  <2>. QED
    BY <1>k, <1>o, <1>s, <2>1, <2>2
<1>u. ASSUME UNCHANGED <<audit, samples>> PROVE AuditBegins' /\ FirstsKept' /\ Summarized'
  BY <1>s, <1>u
<1>1. ASSUME NEW r \in Enrollers, BeginEnroll(r) \/ RefuseEnroll(r)
      PROVE  AuditBegins' /\ FirstsKept' /\ Summarized'
  BY <1>1, <1>u DEF BeginEnroll, RefuseEnroll
<1>2. ASSUME NEW r \in Enrollers, CommitEnroll(r) PROVE AuditBegins' /\ FirstsKept' /\ Summarized'
  <2>1. CASE audit.status # "none"
    BY <1>2, <1>u, <2>1 DEF CommitEnroll
  <2>2. CASE audit.status = "none"
    <3>1. audit = NotEnrolled
      BY <1>k, <2>2
    <3>2. audit' = [NotEnrolled EXCEPT !.status = "TRACKING", !.since = enroller[r]] /\ samples' = samples
      BY <1>2, <2>2 DEF CommitEnroll
    <3>3. /\ audit'.valid = audit.valid /\ audit'.attempted = audit.attempted
          /\ audit'.best = audit.best /\ audit'.worst = audit.worst
          /\ audit'.latest = audit.latest /\ audit'.breakevenAt = audit.breakevenAt
          /\ audit'.profitAt = audit.profitAt /\ audit'.status = "TRACKING"
      BY <3>1, <3>2 DEF NotEnrolled
    <3>. QED
      BY <1>s, <3>2, <3>3
  <2>. QED
    BY <2>1, <2>2
<1>3. ASSUME NEW s \in Samplers, AuditExpires(s) PROVE AuditBegins' /\ FirstsKept' /\ Summarized'
  <2>1. audit' = [audit EXCEPT !.status = "AWAITING_SETTLEMENT"] /\ samples' = samples
    BY <1>3 DEF AuditExpires
  <2>2. /\ audit'.valid = audit.valid /\ audit'.attempted = audit.attempted
        /\ audit'.best = audit.best /\ audit'.worst = audit.worst
        /\ audit'.latest = audit.latest /\ audit'.breakevenAt = audit.breakevenAt
        /\ audit'.profitAt = audit.profitAt /\ audit'.status = "AWAITING_SETTLEMENT"
    BY <1>t, <2>1 DEF AuditRows
  <2>. QED
    BY <1>s, <2>1, <2>2
<1>4. ASSUME NEW s \in Samplers, BeginSample(s) PROVE AuditBegins' /\ FirstsKept' /\ Summarized'
  <2>1. Minute \in Minutes /\ samples[Minute].status = "none" /\ audit.status = "TRACKING"
    BY <1>4, <1>t, MinuteShown DEF BeginSample, Tracking
  <2>2. /\ samples'[Minute].status = "INTERRUPTED"
        /\ \A m \in Minutes \ {Minute} : samples'[m] = samples[m]
    BY <1>4, <1>t, <2>1, ConstantRows DEF BeginSample
  <2>3. ValidMinutes' = ValidMinutes /\ \A m \in ValidMinutes : samples'[m] = samples[m]
    <3>. DEFINE now == Minute
    <3>1. now \in Minutes /\ samples[now].status = "none" /\ samples'[now].status = "INTERRUPTED"
          /\ \A m \in Minutes \ {now} : samples'[m] = samples[m]
      BY <2>1, <2>2
    <3>. HIDE DEF now
    <3>. QED
      BY <3>1 DEF ValidMinutes
  <2>4. Attempted' = Attempted \cup {Minute} /\ Minute \notin Attempted
    <3>. DEFINE now == Minute
    <3>1. now \in Minutes /\ samples[now].status = "none" /\ samples'[now].status = "INTERRUPTED"
          /\ \A m \in Minutes \ {now} : samples'[m] = samples[m]
      BY <2>1, <2>2
    <3>. HIDE DEF now
    <3>2. Attempted' = Attempted \cup {now} /\ now \notin Attempted
      BY <3>1 DEF Attempted
    <3>. QED
      BY <3>2 DEF now
  <2>5. audit' = [audit EXCEPT !.attempted = audit.attempted + 1]
    BY <1>4 DEF BeginSample
  <2>6. /\ audit'.valid = audit.valid /\ audit'.attempted = audit.attempted + 1
        /\ audit'.best = audit.best /\ audit'.worst = audit.worst
        /\ audit'.latest = audit.latest /\ audit'.breakevenAt = audit.breakevenAt
        /\ audit'.profitAt = audit.profitAt /\ audit'.status = audit.status
    BY <1>t, <2>5 DEF AuditRows
  <2>7. Cardinality(Attempted') = Cardinality(Attempted) + 1
    <3>1. Attempted \in SUBSET Minutes
      BY DEF Attempted
    <3>2. IsFiniteSet(Attempted)
      BY <3>1, MinutesFinite, FS_Subset
    <3>. QED
      BY <2>4, <3>2, FS_AddElement
  <2>8. MarksKept' /\ FirstsKept'
    BY <1>k, <2>3, <2>6, MarksStay
  <2>. QED
    BY <1>k, <1>o, <2>1, <2>6, <2>7, <2>8
<1>5. ASSUME NEW s \in Samplers, ReceiveQuotes(s) \/ SamplerDies(s)
      PROVE  AuditBegins' /\ FirstsKept' /\ Summarized'
  BY <1>5, <1>u DEF ReceiveQuotes, SamplerDies
<1>6. ASSUME NEW s \in Samplers, CommitSample(s) PROVE AuditBegins' /\ FirstsKept' /\ Summarized'
  <2>. DEFINE r == sampler[s].result
              m == sampler[s].minute
              counted == IF r.status = "VALID" THEN Counted(audit, r) ELSE audit
  <2>1. /\ m \in Minutes /\ r \in SampleRows /\ r.status \in {"VALID", "UNAVAILABLE"} /\ r.at >= 0
        /\ samples[m].status = "INTERRUPTED"
    BY <1>6, <1>t DEF CommitSample, At, AuditInv, SamplersApart, Busy, SamplerRows
  <2>2. samples' = [samples EXCEPT ![m] = r]
    BY <1>6 DEF CommitSample
  <2>3. audit' = IF r.at >= Expiry THEN [counted EXCEPT !.status = "AWAITING_SETTLEMENT"] ELSE counted
    BY <1>6 DEF CommitSample
  <2>4. /\ counted \in AuditRows /\ counted.status = audit.status /\ counted.attempted = audit.attempted
    BY <1>t, <2>1, CountedFields
  <2>c. (r.status = "VALID" => counted = Counted(audit, r)) /\ (r.status # "VALID" => counted = audit)
    OBVIOUS
  <2>. HIDE DEF r, m, counted
  <2>5. /\ audit'.valid = counted.valid /\ audit'.attempted = counted.attempted
        /\ audit'.best = counted.best /\ audit'.worst = counted.worst
        /\ audit'.latest = counted.latest /\ audit'.breakevenAt = counted.breakevenAt
        /\ audit'.profitAt = counted.profitAt
        /\ audit'.status = "none" => counted.status = "none"
    BY <2>3, <2>4 DEF AuditRows
  <2>6. Attempted' = Attempted
    BY <1>t, <2>1, <2>2 DEF Attempted
  <2>7. audit.status # "none"
    BY <1>k, <2>1
  <2>8. audit'.status # "none" /\ audit'.attempted = audit.attempted
    BY <2>4, <2>5, <2>7
  <2>9. MarksKept' /\ FirstsKept'
    <3>1. CASE r.status = "VALID"
      <4>1. m \notin ValidMinutes
        BY <2>1 DEF ValidMinutes
      <4>2. counted = Counted(audit, r)
        BY <2>c, <3>1
      <4>. QED
        BY <2>1, <2>2, <2>5, <3>1, <4>1, <4>2, MarksCounted
    <3>2. CASE r.status # "VALID"
      <4>1. counted = audit
        BY <2>c, <3>2
      <4>2. ValidMinutes' = ValidMinutes /\ \A n \in ValidMinutes : samples'[n] = samples[n]
        BY <1>t, <2>1, <2>2, <3>2 DEF ValidMinutes
      <4>. QED
        BY <1>k, <2>5, <4>1, <4>2, MarksStay
    <3>. QED
      BY <3>1, <3>2
  <2>. QED
    BY <1>k, <1>o, <2>6, <2>8, <2>9
<1>7. ASSUME TimePasses PROVE AuditBegins' /\ FirstsKept' /\ Summarized'
  BY <1>7, <1>u DEF TimePasses
<1>. QED
  BY <1>1, <1>2, <1>3, <1>4, <1>5, <1>6, <1>7 DEF StopAuditNext

LEMMA AuditInvStep ==
    ASSUME AuditInv, [StopAuditNext]_auditVars PROVE AuditInv'
<1>1. CASE StopAuditNext
  BY <1>1, AuditTypesStep, ApartStep, SummaryStep DEF AuditInv
<1>2. CASE UNCHANGED auditVars
  <2>1. ValidMinutes' = ValidMinutes /\ Attempted' = Attempted
    BY <1>2 DEF auditVars, ValidMinutes, Attempted
  <2>2. MarksKept' /\ FirstsKept'
    BY <1>2, <2>1, KeptMarks, MarksStay DEF auditVars, AuditInv
  <2>3. Summarized' /\ AuditBegins'
    BY <1>2, <2>1, <2>2 DEF auditVars, AuditInv, AuditBegins, Summarized, MarksKept
  <2>. QED
    BY <1>2, <2>2, <2>3 DEF auditVars, AuditInv, StopAuditTypeOK, SamplersApart, Busy, At
<1>. QED
  BY <1>1, <1>2

LEMMA AuditInvBegins == ASSUME StopAuditInit PROVE AuditInv
<1>. USE DEF StopAuditInit
<1>1. /\ \A m \in Minutes : samples[m] = NoSample
      /\ \A s \in Samplers : sampler[s] = IdleSampler
  OBVIOUS
<1>2. StopAuditTypeOK
  <2>1. tick \in 0..LastTick /\ -1 \in Times
    BY StopAuditAssumption DEF Times
  <2>. QED
    BY <2>1, ConstantRows DEF StopAuditTypeOK, AuditRows, SampleRows
<1>3. SamplersApart
  BY <1>1, ConstantRows DEF SamplersApart, Busy, At, SamplerRows, SampleRows
<1>4. ValidMinutes = {} /\ Attempted = {}
  BY <1>1, ConstantRows DEF ValidMinutes, Attempted
<1>5. /\ audit.best = Unseen /\ audit.worst = Unseen /\ audit.latest = Unseen
      /\ audit.attempted = 0 /\ audit.valid = 0 /\ audit.breakevenAt = -1 /\ audit.profitAt = -1
  BY DEF NotEnrolled
<1>6. AuditBegins
  BY <1>1, <1>4, <1>5, ConstantRows DEF AuditBegins
<1>7. FirstsKept
  <2>1. TimesAbove(0) = {} /\ TimesAbove(1) = {}
    BY <1>4 DEF TimesAbove
  <2>. QED
    BY <1>5, <2>1 DEF FirstsKept, IsFirst
<1>8. Summarized
  BY <1>4, <1>5, FS_EmptySet DEF Summarized
<1>. QED
  BY <1>2, <1>3, <1>6, <1>7, <1>8 DEF AuditInv

(* In whatever order overlapping samples are committed and whichever never *)
(* come, the audit row says what the samples say.                          *)
THEOREM AuditSummarizesHolds == StopAuditSpec => []AuditSummarizesSamples
<1>1. AuditInv => AuditSummarizesSamples
  BY SummaryHolds
<1>. QED
  BY <1>1, AuditInvBegins, AuditInvStep, PTL DEF StopAuditSpec

(* The audit row, its samples and the time stay in their types.            *)
THEOREM StopAuditTypeHolds == StopAuditSpec => []StopAuditTypeOK
<1>1. AuditInv => StopAuditTypeOK
  BY DEF AuditInv
<1>. QED
  BY <1>1, AuditInvBegins, AuditInvStep, PTL DEF StopAuditSpec

-----------------------------------------------------------------------------
(* The trade journal.                                                      *)

(* The fills so far, when another comes.                                   *)
LEMMA ListedGrows ==
    ASSUME NEW history \in Seq(Orders), NEW o \in Orders
    PROVE  /\ Append(history, o) \in Seq(Orders)
           /\ Len(Append(history, o)) = Len(history) + 1
           /\ \A i \in 1..Len(history) : Append(history, o)[i] = history[i]
           /\ Append(history, o)[Len(history) + 1] = o
           /\ Listed(Append(history, o)) = Listed(history) \cup {o}
<1>1. /\ Append(history, o) \in Seq(Orders)
      /\ Len(Append(history, o)) = Len(history) + 1
      /\ \A i \in 1..Len(history) : Append(history, o)[i] = history[i]
      /\ Append(history, o)[Len(history) + 1] = o
      /\ Len(history) \in Nat
  OBVIOUS
<1>. DEFINE longer == Append(history, o)
            n == Len(history)
<1>2. 1..Len(longer) = 1..n \cup {n + 1}
  BY <1>1
<1>3. Len(longer) = n + 1 /\ longer[n + 1] = o /\ \A i \in 1..n : longer[i] = history[i]
  BY <1>1
<1>. HIDE DEF longer, n
<1>4. {longer[i] : i \in 1..Len(longer)} = {history[i] : i \in 1..n} \cup {o}
  BY <1>2, <1>3
<1>. QED
  BY <1>1, <1>4 DEF Listed, longer, n

LEMMA BeforeGrows ==
    ASSUME NEW history \in Seq(Orders), NEW o \in Orders
    PROVE  /\ \A a, b : Before(history, a, b) => Before(Append(history, o), a, b)
           /\ \A a \in Listed(history) : Before(Append(history, o), a, o)
<1>. DEFINE longer == Append(history, o)
            n == Len(history)
<1>1. /\ n \in Nat /\ Len(longer) = n + 1 /\ longer[n + 1] = o
      /\ \A i \in 1..n : longer[i] = history[i]
  BY ListedGrows
<1>2. ASSUME NEW a, NEW b, Before(history, a, b) PROVE Before(longer, a, b)
  <2>1. PICK i \in 1..n, j \in 1..n : i < j /\ history[i] = a /\ history[j] = b
    BY <1>2 DEF Before
  <2>. HIDE DEF longer, n
  <2>2. i \in 1..Len(longer) /\ j \in 1..Len(longer) /\ longer[i] = a /\ longer[j] = b
    BY <1>1, <2>1
  <2>. QED
    BY <2>1, <2>2 DEF Before
<1>3. ASSUME NEW a \in Listed(history) PROVE Before(longer, a, o)
  <2>1. PICK i \in 1..n : history[i] = a
    BY <1>3 DEF Listed
  <2>. HIDE DEF longer, n
  <2>2. i \in 1..Len(longer) /\ n + 1 \in 1..Len(longer) /\ i < n + 1
    BY <1>1, <2>1
  <2>. QED
    BY <1>1, <2>1, <2>2 DEF Before
<1>. QED
  BY <1>2, <1>3

LEMMA ListedFinite ==
    ASSUME NEW history \in Seq(Orders)
    PROVE  IsFiniteSet(Listed(history)) /\ Listed(history) \subseteq Orders
<1>1. history \in Surjection(1..Len(history), Listed(history))
  BY DEF Surjection, Listed
<1>2. IsFiniteSet(1..Len(history))
  <2>1. Len(history) \in Int /\ 1 \in Int
    OBVIOUS
  <2>. QED
    BY <2>1, FS_Interval
<1>. QED
  BY <1>1, <1>2, FS_Surjection DEF Listed

LEMMA BeforeListed ==
    ASSUME NEW history, NEW a, NEW b, Before(history, a, b)
    PROVE  a \in Listed(history) /\ b \in Listed(history)
BY DEF Before, Listed

(* What is remembered of the fills is in them, in their order.             *)
LEMMA RememberedTrue ==
    ASSUME fills \in Seq(Orders), NEW history \in Seq(Orders), Remembers(history)
    PROVE  /\ Listed(history) \subseteq Listed(fills)
           /\ \A a, b : Before(history, a, b) => Before(fills, a, b)
<1>1. Len(history) \in Nat /\ Len(fills) \in Nat /\ 1..Len(history) \subseteq 1..Len(fills)
  BY DEF Remembers
<1>2. Listed(history) \subseteq Listed(fills)
  BY <1>1 DEF Remembers, Listed
<1>3. ASSUME NEW a, NEW b, Before(history, a, b) PROVE Before(fills, a, b)
  BY <1>1, <1>3 DEF Remembers, Before
<1>. QED
  BY <1>2, <1>3

(* The earliest of some orders is one of them.                             *)
LEMMA EarliestIn ==
    ASSUME NEW history \in Seq(Orders), NEW S, S \subseteq Listed(history), S # {}
    PROVE  Earliest(history, S) \in S
<1>. DEFINE n == Len(history)
            back == {i \in 1..n : history[n + 1 - i] \in S}
<1>1. n \in Nat
  OBVIOUS
<1>2. back # {}
  <2>1. PICK x \in S : TRUE
    OBVIOUS
  <2>2. PICK i \in 1..n : history[i] = x
    BY <2>1 DEF Listed
  <2>3. n + 1 - i \in 1..n /\ n + 1 - (n + 1 - i) = i
    BY <1>1, <2>2
  <2>4. history[n + 1 - (n + 1 - i)] \in S
    BY <2>1, <2>2, <2>3
  <2>. QED
    BY <2>3, <2>4
<1>3. Max(back) \in back /\ \A i \in back : i <= Max(back)
  <2>1. back \in SUBSET (1..n)
    OBVIOUS
  <2>. HIDE DEF back, n
  <2>. QED
    BY <1>1, <1>2, <2>1, LastOfDays
<1>. DEFINE k == n + 1 - Max(back)
<1>4. k \in 1..n /\ history[k] \in S
  BY <1>1, <1>3
<1>5. ASSUME NEW j \in 1..n, history[j] \in S PROVE k <= j
  <2>1. n + 1 - j \in 1..n /\ n + 1 - (n + 1 - j) = j
    BY <1>1, <1>5
  <2>2. n + 1 - j \in back
    BY <1>5, <2>1
  <2>3. n + 1 - j <= Max(back) /\ Max(back) \in 1..n
    BY <1>3, <2>2
  <2>. QED
    BY <1>1, <1>5, <2>3
<1>. HIDE DEF k, back
<1>6. \A y \in S \ {history[k]} : Before(history, history[k], y)
  <2>1. ASSUME NEW y \in S \ {history[k]} PROVE Before(history, history[k], y)
    <3>1. PICK j \in 1..n : history[j] = y
      BY <2>1 DEF Listed
    <3>2. k <= j /\ k # j
      BY <1>5, <2>1, <3>1
    <3>3. k < j
      BY <1>4, <3>1, <3>2
    <3>. QED
      BY <1>4, <3>1, <3>3 DEF Before
  <2>. QED
    BY <2>1
<1>7. \E x \in S : \A y \in S \ {x} : Before(history, x, y)
  BY <1>4, <1>6
<1>. QED
  BY <1>7 DEF Earliest

(* A position of an expiration comes of a filled entry.                    *)
LEMMA NetHasEntry ==
    ASSUME fills \in Seq(Orders), NEW c
    PROVE  /\ NetOf(c, fills) > 0 => \E e \in Entries \cap Listed(fills) : legs[e] = c
           /\ NetOf(c, fills) = 1 /\ AllDiffer =>
                 ~\E x \in Closes \cap Listed(fills) : legs[x] = c
<1>. DEFINE opened == {e \in Entries \cap Listed(fills) : legs[e] = c}
            closed == {x \in Closes \cap Listed(fills) : legs[x] = c}
<1>1. opened \in SUBSET Listed(fills) /\ closed \in SUBSET Listed(fills)
  OBVIOUS
<1>2. IsFiniteSet(opened) /\ IsFiniteSet(closed)
  BY <1>1, ListedFinite, FS_Subset
<1>3. Cardinality(opened) \in Nat /\ Cardinality(closed) \in Nat
  BY <1>2, FS_CardinalityType
<1>4. NetOf(c, fills) = Cardinality(opened) - Cardinality(closed)
  BY DEF NetOf
<1>5. ASSUME NetOf(c, fills) > 0 PROVE opened # {}
  <2>1. Cardinality(opened) # 0
    BY <1>3, <1>4, <1>5
  <2>. HIDE DEF opened
  <2>. QED
    BY <1>2, <2>1, FS_EmptySet
<1>6. ASSUME NetOf(c, fills) = 1, AllDiffer PROVE closed = {}
  <2>1. PICK e \in opened : TRUE
    BY <1>5, <1>6
  <2>2. \A f \in opened : f = e
    BY <1>6, <2>1 DEF AllDiffer
  <2>3. opened = {e}
    BY <2>1, <2>2
  <2>4. Cardinality(opened) = 1
    BY <2>3, FS_Singleton
  <2>5. Cardinality(closed) = 0
    BY <1>3, <1>4, <1>6, <2>4
  <2>. HIDE DEF closed
  <2>. QED
    BY <1>2, <2>5, FS_EmptySet
<1>. QED
  BY <1>5, <1>6

LEMMA JournalFacts ==
    ASSUME RowsInv
    PROVE  /\ legs \in [Orders -> Condors] /\ expired \in BOOLEAN
           /\ fills \in Seq(Orders) /\ audited \in Seq(Entries)
           /\ poll \in [Polls -> PollRows] /\ import \in ImportRows
           /\ atBroker \in [Orders -> {"unsent", "working", "filled", "dead"}]
           /\ journal \in [Entries -> JournalRows] /\ losses \in 0..MaxLosses
           /\ \A o \in Orders : Filled(o) <=> o \in Listed(fills)
           /\ Entries \subseteq Orders /\ Closes \subseteq Orders
           /\ \A e \in Entries : e \notin Closes
BY JournalAssumption DEF RowsInv, JournalState, JournalTypeOK, Orders

LEMMA PollsType ==
    ASSUME RowsInv
    PROVE  \A p \in Polls : poll[p].left \subseteq poll[p].asked /\ poll[p].used \subseteq Closes
BY DEF RowsInv, JournalTypeOK

(* The broker goes on without new fills.                                   *)
LEMMA OrdersMove ==
    ASSUME RowsInv, UNCHANGED <<legs, fills, journal, poll, import, losses>>,
           audited' \in Seq(Entries), Listed(audited') \subseteq Entries,
           atBroker' \in [Orders -> {"unsent", "working", "filled", "dead"}],
           \A o \in Orders : Filled(o)' <=> Filled(o),
           \A x \in Closes : atBroker'[x] # "unsent" =>
              \/ atBroker[x] # "unsent"
              \/ \E e \in Entries \cap Listed(fills) : legs[e] = legs[x],
           expired' \in BOOLEAN, expired => expired'
    PROVE  RowsInv'
<1>f. /\ legs \in [Orders -> Condors] /\ fills \in Seq(Orders)
      /\ poll \in [Polls -> PollRows] /\ import \in ImportRows
      /\ journal \in [Entries -> JournalRows] /\ losses \in 0..MaxLosses
      /\ \A o \in Orders : Filled(o) <=> o \in Listed(fills)
      /\ Entries \subseteq Orders /\ Closes \subseteq Orders
  BY JournalFacts
<1>1. JournalTypeOK'
  <2>1. Listed(fills') = {o \in Orders : Filled(o)'} /\ Len(fills') = Cardinality(Listed(fills'))
    BY <1>f DEF RowsInv, JournalTypeOK
  <2>. QED
    BY <1>f, <2>1, PollsType DEF JournalTypeOK
<1>2. JournalState'
  BY <1>f DEF JournalState
<1>3. ClosesFollow'
  BY DEF RowsInv, ClosesFollow
<1>4. ImportBehind'
  BY DEF RowsInv, ImportBehind, Remembers, Openings
<1>5. ASSUME NEW e \in Entries PROVE RowFits(e, journal[e])'
  <2>1. RowFits(e, journal[e])
    BY DEF RowsInv
  <2>2. AllDiffer' <=> AllDiffer
    BY DEF AllDiffer
  <2>. QED
    BY <1>f, <2>1, <2>2 DEF RowFits
<1>6. ASSUME NEW p \in Polls PROVE PollFits(poll[p])'
  BY DEF RowsInv, PollFits, Remembers
<1>7. \A p \in Polls : \A e \in poll'[p].asked : journal'[e].status # "NONE"
  BY DEF RowsInv
<1>. QED
  BY <1>1, <1>2, <1>3, <1>4, <1>5, <1>6, <1>7 DEF RowsInv

LEMMA FillsGrow ==
    ASSUME RowsInv, NEW o \in Orders, OrderFills(o)
    PROVE  RowsInv'
<1>f. /\ legs \in [Orders -> Condors] /\ fills \in Seq(Orders) /\ audited \in Seq(Entries)
      /\ atBroker \in [Orders -> {"unsent", "working", "filled", "dead"}]
      /\ poll \in [Polls -> PollRows] /\ import \in ImportRows
      /\ journal \in [Entries -> JournalRows] /\ losses \in 0..MaxLosses
      /\ \A q \in Orders : Filled(q) <=> q \in Listed(fills)
      /\ Entries \subseteq Orders /\ Closes \subseteq Orders /\ \A e \in Entries : e \notin Closes
  BY JournalFacts
<1>u. /\ UNCHANGED <<legs, expired, audited, journal, poll, import, losses>>
      /\ atBroker[o] = "working" /\ ~expired /\ fills' = Append(fills, o)
      /\ atBroker' = [atBroker EXCEPT ![o] = "filled"]
  BY DEF OrderFills
<1>l. /\ fills' \in Seq(Orders) /\ Len(fills') = Len(fills) + 1
      /\ \A i \in 1..Len(fills) : fills'[i] = fills[i]
      /\ Listed(fills') = Listed(fills) \cup {o} /\ Len(fills) \in Nat
  BY <1>f, <1>u, ListedGrows
<1>b. /\ \A a, c : Before(fills, a, c) => Before(fills', a, c)
      /\ \A a \in Listed(fills) : Before(fills', a, o)
  BY <1>f, <1>u, BeforeGrows
<1>n. o \notin Listed(fills)
  BY <1>f, <1>u DEF Filled
<1>d. \A q \in Orders : Filled(q)' <=> q \in Listed(fills')
  BY <1>f, <1>l, <1>u DEF Filled
<1>1. JournalTypeOK'
  <2>1. IsFiniteSet(Listed(fills))
    BY <1>f, ListedFinite
  <2>2. Cardinality(Listed(fills) \cup {o}) = Cardinality(Listed(fills)) + 1
    BY <1>n, <2>1, FS_AddElement
  <2>3. Len(fills') = Cardinality(Listed(fills'))
    BY <1>l, <2>2 DEF RowsInv, JournalTypeOK
  <2>4. Listed(fills') \subseteq Orders
    BY <1>l, ListedFinite
  <2>5. Listed(fills') = {q \in Orders : Filled(q)'}
    BY <1>d, <2>4
  <2>6. atBroker' \in [Orders -> {"unsent", "working", "filled", "dead"}]
    BY <1>f, <1>u
  <2>7. Listed(audited') \subseteq Entries
    BY <1>u DEF RowsInv, JournalTypeOK
  <2>. QED
    BY <1>f, <1>u, <2>3, <2>5, <2>6, <2>7, PollsType DEF JournalTypeOK
<1>2. JournalState'
  BY <1>f, <1>l, <1>u DEF JournalState, RowsInv
<1>3. ClosesFollow'
  <2>1. ASSUME NEW x \in Closes, atBroker'[x] # "unsent"
        PROVE  \E e \in Entries \cap Listed(fills') : legs[e] = legs[x]
    <3>1. atBroker[x] # "unsent"
      BY <1>f, <1>u, <2>1
    <3>. QED
      BY <1>l, <3>1 DEF RowsInv, ClosesFollow
  <2>2. ASSUME NEW x \in Closes \cap Listed(fills')
        PROVE  \E e \in Entries : legs[e] = legs[x] /\ Before(fills', e, x)
    <3>1. CASE x \in Listed(fills)
      BY <1>b, <3>1 DEF RowsInv, ClosesFollow
    <3>2. CASE x = o
      <4>1. PICK e \in Entries \cap Listed(fills) : legs[e] = legs[x]
        BY <1>u, <3>2 DEF RowsInv, ClosesFollow
      <4>. QED
        BY <1>b, <3>2, <4>1
    <3>. QED
      BY <1>l, <3>1, <3>2
  <2>. QED
    BY <1>u, <2>1, <2>2 DEF ClosesFollow
<1>r. ASSUME NEW history, Remembers(history) PROVE Remembers(history)'
  <2>1. Len(history) <= Len(fills) /\ \A i \in 1..Len(history) : history[i] = fills[i]
    BY <1>r DEF Remembers
  <2>. QED
    BY <1>l, <2>1 DEF Remembers
<1>4. ImportBehind'
  BY <1>r, <1>u DEF RowsInv, ImportBehind, Openings
<1>5. ASSUME NEW e \in Entries PROVE RowFits(e, journal[e])'
  <2>1. RowFits(e, journal[e])
    BY DEF RowsInv
  <2>2. AllDiffer' <=> AllDiffer
    BY <1>u DEF AllDiffer
  <2>3. Filled(e) => Filled(e)'
    BY <1>d, <1>f, <1>l
  <2>. QED
    BY <1>b, <1>u, <2>1, <2>2, <2>3 DEF RowFits
<1>6. ASSUME NEW p \in Polls PROVE PollFits(poll[p])'
  BY <1>r, <1>u DEF RowsInv, PollFits
<1>7. \A p \in Polls : \A e \in poll'[p].asked : journal'[e].status # "NONE"
  BY <1>u DEF RowsInv
<1>. QED
  BY <1>1, <1>2, <1>3, <1>4, <1>5, <1>6, <1>7 DEF RowsInv

LEMMA BrokerKeeps ==
    ASSUME RowsInv, BrokerStep PROVE RowsInv'
<1>f. /\ fills \in Seq(Orders) /\ audited \in Seq(Entries) /\ expired \in BOOLEAN
      /\ atBroker \in [Orders -> {"unsent", "working", "filled", "dead"}]
      /\ Entries \subseteq Orders /\ Closes \subseteq Orders /\ \A e \in Entries : e \notin Closes
      /\ Listed(audited) \subseteq Entries
  BY JournalFacts DEF RowsInv, JournalTypeOK
<1>1. ASSUME NEW e \in Entries, SubmitEntry(e) PROVE RowsInv'
  <2>1. /\ atBroker' \in [Orders -> {"unsent", "working", "filled", "dead"}]
        /\ atBroker'[e] = "working" /\ atBroker[e] = "unsent"
        /\ \A o \in Orders : o # e => atBroker'[o] = atBroker[o]
    BY <1>1, <1>f DEF SubmitEntry
  <2>2. \A o \in Orders : Filled(o)' <=> Filled(o)
    BY <2>1 DEF Filled
  <2>3. \A x \in Closes : atBroker'[x] # "unsent" => atBroker[x] # "unsent"
    BY <1>f, <2>1
  <2>. QED
    BY <1>1, <1>f, <2>1, <2>2, <2>3, OrdersMove DEF SubmitEntry
<1>2. ASSUME NEW x \in Closes, SubmitClose(x) PROVE RowsInv'
  <2>1. /\ atBroker' \in [Orders -> {"unsent", "working", "filled", "dead"}]
        /\ atBroker'[x] = "working" /\ atBroker[x] = "unsent"
        /\ \A o \in Orders : o # x => atBroker'[o] = atBroker[o]
    BY <1>2, <1>f DEF SubmitClose
  <2>2. \E e \in Entries \cap Listed(fills) : legs[e] = legs[x]
    BY <1>2, <1>f, NetHasEntry DEF SubmitClose, Holds
  <2>3. \A o \in Orders : Filled(o)' <=> Filled(o)
    BY <2>1 DEF Filled
  <2>4. \A y \in Closes : atBroker'[y] # "unsent" =>
           \/ atBroker[y] # "unsent"
           \/ \E e \in Entries \cap Listed(fills) : legs[e] = legs[y]
    BY <1>f, <2>1, <2>2
  <2>. QED
    BY <1>2, <1>f, <2>1, <2>3, <2>4, OrdersMove DEF SubmitClose
<1>3. ASSUME NEW o \in Orders, OrderCancelled(o) PROVE RowsInv'
  <2>1. /\ atBroker' \in [Orders -> {"unsent", "working", "filled", "dead"}]
        /\ atBroker'[o] = "dead" /\ atBroker[o] = "working"
        /\ \A q \in Orders : q # o => atBroker'[q] = atBroker[q]
    BY <1>3, <1>f DEF OrderCancelled
  <2>2. \A q \in Orders : Filled(q)' <=> Filled(q)
    BY <2>1 DEF Filled
  <2>3. \A y \in Closes : atBroker'[y] # "unsent" => atBroker[y] # "unsent"
    BY <1>f, <2>1
  <2>. QED
    BY <1>3, <1>f, <2>1, <2>2, <2>3, OrdersMove DEF OrderCancelled
<1>4. ASSUME Expiration PROVE RowsInv'
  <2>1. /\ atBroker' \in [Orders -> {"unsent", "working", "filled", "dead"}]
        /\ \A q \in Orders : atBroker'[q] = IF atBroker[q] = "working" THEN "dead" ELSE atBroker[q]
    BY <1>4, <1>f DEF Expiration
  <2>2. \A q \in Orders : Filled(q)' <=> Filled(q)
    BY <2>1 DEF Filled
  <2>3. \A y \in Closes : atBroker'[y] # "unsent" => atBroker[y] # "unsent"
    BY <1>f, <2>1
  <2>. QED
    BY <1>4, <1>f, <2>1, <2>2, <2>3, OrdersMove DEF Expiration
<1>. QED
  BY <1>1, <1>2, <1>3, <1>4, FillsGrow DEF BrokerStep

(* The audit of an order that was sent, or none.                           *)
LEMMA AuditKeeps ==
    ASSUME RowsInv, NEW e \in Entries, AuditSubmitted(e) PROVE RowsInv'
<1>1. audited \in Seq(Entries) /\ Listed(audited) \subseteq Entries /\ expired \in BOOLEAN
      /\ atBroker \in [Orders -> {"unsent", "working", "filled", "dead"}]
  BY JournalFacts DEF RowsInv, JournalTypeOK
<1>2. Append(audited, e) \in Seq(Entries)
  BY <1>1
<1>3. Listed(Append(audited, e)) \subseteq Entries
  BY <1>2 DEF Listed
<1>4. audited' \in Seq(Entries) /\ Listed(audited') \subseteq Entries
  BY <1>1, <1>2, <1>3 DEF AuditSubmitted
<1>5. UNCHANGED <<legs, atBroker, fills, expired, journal, poll, import, losses>>
  BY DEF AuditSubmitted, brokerVars
<1>6. \A o \in Orders : Filled(o)' <=> Filled(o)
  BY <1>5 DEF Filled
<1>. QED
  BY <1>1, <1>4, <1>5, <1>6, OrdersMove

(* A step of the application, which leaves the broker as it is.            *)
LEMMA RowsMove ==
    ASSUME RowsInv, UNCHANGED <<legs, atBroker, fills, expired, audited>>,
           losses' \in 0..MaxLosses, losses <= losses',
           journal' \in [Entries -> JournalRows], poll' \in [Polls -> PollRows],
           import' \in ImportRows, ImportBehind',
           \A e \in Entries : RowFits(e, journal'[e]),
           \A e \in Entries : journal[e].status # "NONE" => journal'[e].status # "NONE",
           \A p \in Polls : PollFits(poll[p])' /\ poll'[p].used \subseteq Closes
                            /\ \A e \in poll'[p].asked : journal[e].status # "NONE"
    PROVE  RowsInv'
<1>f. /\ Entries \subseteq Orders /\ Closes \subseteq Orders /\ losses \in 0..MaxLosses
      /\ legs \in [Orders -> Condors] /\ expired \in BOOLEAN
      /\ fills \in Seq(Orders) /\ audited \in Seq(Entries)
  BY JournalFacts
<1>z. losses' = 0 => losses = 0
  BY <1>f
<1>1. JournalTypeOK'
  <2>1. Listed(fills') = {o \in Orders : Filled(o)'} /\ Len(fills') = Cardinality(Listed(fills'))
    BY DEF RowsInv, JournalTypeOK, Filled
  <2>2. /\ atBroker' \in [Orders -> {"unsent", "working", "filled", "dead"}]
        /\ Listed(audited') \subseteq Entries
    BY DEF RowsInv, JournalTypeOK
  <2>3. \A p \in Polls : poll'[p].left \subseteq poll'[p].asked /\ poll'[p].used \subseteq Closes
    BY DEF PollFits
  <2>. QED
    BY <2>1, <2>2, <2>3 DEF JournalTypeOK
<1>2. JournalState'
  BY <1>f DEF JournalState
<1>3. ClosesFollow'
  BY DEF RowsInv, ClosesFollow
<1>4. ASSUME NEW e \in Entries PROVE RowFits(e, journal[e])'
  <2>1. RowFits(e, journal'[e])
    OBVIOUS
  <2>2. AllDiffer' <=> AllDiffer
    BY DEF AllDiffer
  <2>3. Filled(e)' <=> Filled(e)
    BY DEF Filled
  <2>. QED
    BY <1>z, <2>1, <2>2, <2>3 DEF RowFits
<1>5. ASSUME NEW p \in Polls
      PROVE  PollFits(poll[p])' /\ \A e \in poll'[p].asked : journal'[e].status # "NONE"
  BY DEF PollRows
<1>. QED
  BY <1>1, <1>2, <1>3, <1>4, <1>5 DEF RowsInv

(* The same, for one row.                                                  *)
LEMMA RowMoves ==
    ASSUME RowsInv, UNCHANGED <<legs, atBroker, fills, expired, audited, losses>>,
           NEW e \in Entries, NEW row, journal' = [journal EXCEPT ![e] = row],
           RowFits(e, row), journal[e].status # "NONE" => row.status # "NONE",
           poll' \in [Polls -> PollRows], import' \in ImportRows, ImportBehind',
           \A p \in Polls : PollFits(poll[p])' /\ poll'[p].used \subseteq Closes
                            /\ \A f \in poll'[p].asked : journal[f].status # "NONE"
    PROVE  RowsInv'
<1>f. journal \in [Entries -> JournalRows] /\ losses \in 0..MaxLosses
  BY JournalFacts
<1>1. row \in JournalRows
  BY DEF RowFits
<1>2. journal'[e] = row /\ \A f \in Entries : f # e => journal'[f] = journal[f]
  BY <1>f
<1>3. journal' \in [Entries -> JournalRows]
  BY <1>f, <1>1
<1>4. \A f \in Entries : RowFits(f, journal[f])
  BY DEF RowsInv
<1>5. \A f \in Entries : RowFits(f, journal'[f])
  <2>1. RowFits(e, journal'[e])
    BY <1>2
  <2>2. ASSUME NEW f \in Entries, f # e PROVE RowFits(f, journal'[f])
    <3>1. journal'[f] = journal[f]
      BY <1>2, <2>2
    <3>2. RowFits(f, journal[f])
      BY <1>4
    <3>. QED
      BY ONLY <3>1, <3>2
  <2>. QED
    BY <2>1, <2>2
<1>6. \A f \in Entries : journal[f].status # "NONE" => journal'[f].status # "NONE"
  BY <1>2
<1>7. losses' \in 0..MaxLosses /\ losses <= losses'
  BY <1>f, JournalAssumption
<1>. QED
  BY <1>3, <1>5, <1>6, <1>7, RowsMove

(* Polls that keep what they know while the broker stands still.           *)
LEMMA PollKeeps ==
    ASSUME RowsInv, UNCHANGED <<legs, fills, expired, losses>>, NEW p \in Polls, poll'[p] = poll[p]
    PROVE  /\ PollFits(poll[p])' /\ poll'[p].used \subseteq Closes
           /\ \A f \in poll'[p].asked : journal[f].status # "NONE"
BY PollsType DEF RowsInv, PollFits, Remembers

LEMMA NoPollFits ==
    ASSUME RowsInv
    PROVE  NoPoll \in PollRows /\ Remembers(NoPoll.history) /\ PollFits(NoPoll)
<1>1. Len(NoPoll.history) = 0 /\ NoPoll.history = <<>>
  BY DEF NoPoll
<1>2. <<>> \in Seq(Orders)
  OBVIOUS
<1>3. NoPoll \in PollRows
  BY <1>2 DEF NoPoll, PollRows
<1>4. Remembers(NoPoll.history)
  <2>1. Len(fills) \in Nat
    BY JournalFacts
  <2>. QED
    BY <1>1, <2>1 DEF Remembers
<1>. QED
  BY <1>3, <1>4 DEF PollFits, NoPoll

(* A monitor request that has read no orders yet.                          *)
LEMMA PollReadsHeld ==
    ASSUME NEW c \in {"idle", "link", "candidates", "history", "finalize"}, NEW h \in SUBSET Condors,
           NEW q, q = [NoPoll EXCEPT !.pc = c, !.held = h]
    PROVE  /\ q \in PollRows /\ q.history = NoPoll.history /\ q.settled = FALSE
           /\ q.used = {} /\ q.asked = {} /\ q.left = {}
<1>1. <<>> \in Seq(Orders)
  OBVIOUS
<1>2. NoPoll \in PollRows
  BY <1>1 DEF NoPoll, PollRows
<1>3. q \in PollRows
  BY <1>2, ZenonT(30) DEF PollRows
<1>4. /\ q.history = NoPoll.history /\ q.settled = FALSE
      /\ q.used = {} /\ q.asked = {} /\ q.left = {}
  BY DEF NoPoll
<1>. QED
  BY <1>3, <1>4

LEMMA PollLinks ==
    ASSUME NEW c \in {"idle", "link", "candidates", "history", "finalize"}, NEW a \in SUBSET Entries,
           NEW q, q = [NoPoll EXCEPT !.pc = c, !.active = a]
    PROVE  /\ q \in PollRows /\ q.history = NoPoll.history /\ q.settled = FALSE
           /\ q.used = {} /\ q.asked = {} /\ q.left = {}
<1>1. <<>> \in Seq(Orders)
  OBVIOUS
<1>2. NoPoll \in PollRows
  BY <1>1 DEF NoPoll, PollRows
<1>3. q \in PollRows
  BY <1>2, ZenonT(30) DEF PollRows
<1>4. /\ q.history = NoPoll.history /\ q.settled = FALSE
      /\ q.used = {} /\ q.asked = {} /\ q.left = {}
  BY DEF NoPoll
<1>. QED
  BY <1>3, <1>4

LEMMA PollAsks ==
    ASSUME NEW c \in {"idle", "link", "candidates", "history", "finalize"}, NEW k \in SUBSET Entries,
           NEW q, q = [NoPoll EXCEPT !.pc = c, !.asked = k, !.left = k]
    PROVE  /\ q \in PollRows /\ q.history = NoPoll.history /\ q.settled = FALSE
           /\ q.used = {} /\ q.asked = k /\ q.left = k
<1>1. <<>> \in Seq(Orders)
  OBVIOUS
<1>2. NoPoll \in PollRows
  BY <1>1 DEF NoPoll, PollRows
<1>3. q \in PollRows
  BY <1>2, ZenonT(30) DEF PollRows
<1>4. /\ q.history = NoPoll.history /\ q.settled = FALSE
      /\ q.used = {} /\ q.asked = k /\ q.left = k
  BY DEF NoPoll
<1>. QED
  BY <1>3, <1>4

LEMMA RowMade ==
    ASSUME NEW s \in {"NONE", "SUBMITTED", "OPEN", "CLOSED", "EXPIRED"}, NEW f \in BOOLEAN,
           NEW c \in Closes \cup {NoClose}, NEW r \in BOOLEAN
    PROVE  [status |-> s, entryFill |-> f, closing |-> c, result |-> r] \in JournalRows
BY DEF JournalRows, RowStatuses

(* What a record adds to a row, whatever status it read before.            *)
LEMMA RecordedFits ==
    ASSUME NEW e \in Entries, NEW row, RowFits(e, row), NEW read \in RowStatuses,
           NEW opened \in BOOLEAN, NEW priced \in BOOLEAN, priced => Filled(e)
    PROVE  /\ RowFits(e, Recorded(row, read, opened, priced))
           /\ row.status # "NONE" => Recorded(row, read, opened, priced).status # "NONE"
           /\ Recorded(row, read, opened, priced).closing = row.closing
           /\ Recorded(row, read, opened, priced).result = row.result
           /\ read = "CLOSED" => Recorded(row, read, opened, priced).status = row.status
<1>. DEFINE new == Recorded(row, read, opened, priced)
            incoming == IF opened THEN "OPEN" ELSE "SUBMITTED"
<1>r. /\ row \in JournalRows /\ row.entryFill \in BOOLEAN
      /\ row.status \in {"NONE", "SUBMITTED", "OPEN", "CLOSED", "EXPIRED"}
      /\ row.closing \in Closes \cup {NoClose} /\ row.result \in BOOLEAN
  BY DEF RowFits, JournalRows, RowStatuses
<1>1. new = [row EXCEPT !.status = IF RankOf(incoming) > RankOf(read) THEN incoming ELSE row.status,
                        !.entryFill = row.entryFill \/ priced]
  BY DEF Recorded
<1>2. /\ new.status = IF RankOf(incoming) > RankOf(read) THEN incoming ELSE row.status
      /\ new.entryFill = (row.entryFill \/ priced)
      /\ new.closing = row.closing /\ new.result = row.result
  BY <1>1, <1>r DEF JournalRows
<1>3. /\ new.status = row.status \/ new.status \in {"SUBMITTED", "OPEN"}
      /\ read = "CLOSED" => new.status = row.status
  BY <1>2 DEF RankOf
<1>4. new \in JournalRows
  <2>1. /\ new.status \in {"NONE", "SUBMITTED", "OPEN", "CLOSED", "EXPIRED"}
        /\ new.entryFill \in BOOLEAN
    BY <1>2, <1>3, <1>r
  <2>2. new = [status |-> new.status, entryFill |-> new.entryFill, closing |-> row.closing,
               result |-> row.result]
    BY <1>1, <1>2, <1>r DEF JournalRows
  <2>. HIDE DEF new
  <2>3. [status |-> new.status, entryFill |-> new.entryFill, closing |-> row.closing,
         result |-> row.result] \in JournalRows
    BY <1>r, <2>1, RowMade
  <2>. QED
    BY <2>2, <2>3
<1>. HIDE DEF new
<1>5. RowFits(e, new)
  BY <1>2, <1>3, <1>4 DEF RowFits
<1>6. row.status # "NONE" => new.status # "NONE"
  BY <1>3
<1>. QED
  BY <1>2, <1>3, <1>5, <1>6 DEF new

LEMMA ImportStays ==
    ASSUME RowsInv, UNCHANGED <<fills, expired, import>> PROVE ImportBehind'
<1>1. Openings' = Openings
  BY DEF Openings, Listed
<1>. QED
  BY <1>1 DEF RowsInv, ImportBehind, Remembers

LEMMA OpeningsFilled ==
    ASSUME RowsInv
    PROVE  /\ \A e \in Openings : e \in Entries /\ Filled(e)
           /\ import.history \in Seq(Orders) /\ Remembers(import.history)
<1>1. /\ fills \in Seq(Orders) /\ import \in ImportRows
      /\ \A o \in Orders : Filled(o) <=> o \in Listed(fills)
      /\ Entries \subseteq Orders
  BY JournalFacts
<1>2. import.history \in Seq(Orders)
  BY <1>1 DEF ImportRows
<1>3. Listed(import.history) \subseteq Listed(fills)
  BY <1>1, <1>2, RememberedTrue DEF RowsInv, ImportBehind
<1>. QED
  BY <1>1, <1>2, <1>3 DEF Openings, RowsInv, ImportBehind

(* The commit of record_submitted_trade.                                   *)
LEMMA RecordKeeps ==
    ASSUME RowsInv, RecordingFits, NEW e \in Entries, RecordCommits(e)
    PROVE  /\ RowsInv'
           /\ \A f \in Entries : f # e => journal'[f] = journal[f]
           /\ journal'[e].closing = journal[e].closing /\ journal'[e].result = journal[e].result
           /\ journal[e].status = "CLOSED" => journal'[e].status = "CLOSED" \/ ReadBeforeClose(e)
<1>f. /\ journal \in [Entries -> JournalRows] /\ poll \in [Polls -> PollRows] /\ import \in ImportRows
  BY JournalFacts
<1>. DEFINE c == recording[e]
            recorded == Recorded(journal[e], c.read, c.opened, c.priced)
            row == IF Collides(journal[e], c.read) THEN journal[e] ELSE recorded
<1>u. /\ UNCHANGED <<legs, atBroker, fills, expired, audited, losses, poll, import>>
      /\ journal' = [journal EXCEPT ![e] = row]
      /\ Recording(e, "loaded")
  BY DEF RecordCommits, brokerVars
<1>c. /\ c.read \in RowStatuses /\ c.opened \in BOOLEAN /\ c.priced \in BOOLEAN
      /\ c.priced => Filled(e)
  BY DEF RecordingFits, RecordingRows
<1>j. RowFits(e, journal[e])
  BY DEF RowsInv
<1>1. /\ RowFits(e, recorded)
      /\ journal[e].status # "NONE" => recorded.status # "NONE"
      /\ recorded.closing = journal[e].closing /\ recorded.result = journal[e].result
      /\ c.read = "CLOSED" => recorded.status = journal[e].status
  <2>. HIDE DEF c
  <2>. QED
    BY <1>c, <1>j, RecordedFits
<1>2. /\ RowFits(e, row) /\ (journal[e].status # "NONE" => row.status # "NONE")
      /\ row.closing = journal[e].closing /\ row.result = journal[e].result
  <2>. HIDE DEF recorded, c
  <2>. QED
    BY <1>1, <1>j
<1>3. journal[e].status = "CLOSED" => row.status = "CLOSED" \/ ReadBeforeClose(e)
  <2>1. c.read = "NONE" => (journal[e].status = "CLOSED" => Collides(journal[e], c.read))
    BY DEF Collides
  <2>2. c.read \notin {"NONE", "CLOSED"} => ReadBeforeClose(e)
    BY <1>u DEF ReadBeforeClose
  <2>. HIDE DEF recorded, c
  <2>. QED
    BY <1>1, <2>1, <2>2
<1>. HIDE DEF row
<1>4. row \in JournalRows
  BY <1>2 DEF RowFits
<1>5. /\ journal' \in [Entries -> JournalRows] /\ journal'[e] = row
      /\ \A f \in Entries : f # e => journal'[f] = journal[f]
  BY <1>f, <1>4, <1>u
<1>6. ImportBehind'
  BY <1>u, ImportStays
<1>7. \A p \in Polls : PollFits(poll[p])' /\ poll'[p].used \subseteq Closes
                       /\ \A f \in poll'[p].asked : journal[f].status # "NONE"
  BY <1>u, PollKeeps
<1>8. RowsInv'
  BY <1>2, <1>6, <1>7, <1>f, <1>u, RowMoves
<1>. QED
  BY <1>2, <1>3, <1>5, <1>8

(* The rows a monitor links are open, unless they have ended.              *)
LEMMA ObservedFits ==
    ASSUME NEW e \in Entries, NEW row, RowFits(e, row)
    PROVE  /\ RowFits(e, Observed(row)) /\ Observed(row) \in JournalRows
           /\ row.status = "NONE" <=> Observed(row).status = "NONE"
           /\ Observed(row).entryFill = row.entryFill
           /\ row.status = "CLOSED" => Observed(row) = row
<1>r. row \in JournalRows
  BY DEF RowFits
<1>1. CASE row.status \in Unfinished
  <2>1. Observed(row) = [row EXCEPT !.status = "OPEN"]
    BY <1>1 DEF Observed
  <2>2. /\ Observed(row).status = "OPEN" /\ Observed(row).entryFill = row.entryFill
        /\ Observed(row) \in JournalRows
    BY <1>r, <2>1 DEF JournalRows, RowStatuses
  <2>. QED
    BY <1>1, <2>2 DEF RowFits, Unfinished
<1>2. CASE row.status \notin Unfinished
  <2>1. Observed(row) = row
    BY <1>2 DEF Observed
  <2>. QED
    BY <1>r, <2>1
<1>. QED
  BY <1>1, <1>2

LEMMA ObserveKeeps ==
    ASSUME RowsInv, NEW p \in Polls, Observe(p)
    PROVE  RowsInv'
<1>f. /\ journal \in [Entries -> JournalRows] /\ poll \in [Polls -> PollRows] /\ import \in ImportRows
      /\ losses \in 0..MaxLosses /\ audited \in Seq(Entries)
  BY JournalFacts
<1>. DEFINE active == UNION {LinkOf(c) : c \in poll[p].held}
            next == [NoPoll EXCEPT !.pc = "candidates", !.active = active]
<1>a. active \subseteq Entries
  <2>1. ASSUME NEW c PROVE LinkOf(c) \subseteq Entries
    BY <1>f DEF LinkOf, AuditedWith, RowsWith
  <2>. QED
    BY <2>1
<1>u. /\ UNCHANGED <<legs, atBroker, fills, expired, audited, losses, import>>
      /\ journal' = [e \in Entries |-> IF e \in active THEN Observed(journal[e]) ELSE journal[e]]
      /\ poll' = [poll EXCEPT ![p] = next]
  BY DEF Observe, brokerVars
<1>. HIDE DEF active
<1>n. /\ next \in PollRows /\ next.history = NoPoll.history /\ next.settled = FALSE
      /\ next.left = {} /\ next.used = {} /\ next.asked = {}
  BY <1>a, PollLinks
<1>. HIDE DEF next
<1>1. \A e \in Entries : RowFits(e, journal[e])
  BY DEF RowsInv
<1>2. ASSUME NEW e \in Entries
      PROVE  /\ RowFits(e, journal'[e]) /\ journal'[e] \in JournalRows
             /\ journal'[e].entryFill = journal[e].entryFill
             /\ journal[e].status = "NONE" <=> journal'[e].status = "NONE"
  <2>1. journal'[e] = IF e \in active THEN Observed(journal[e]) ELSE journal[e]
    BY <1>u
  <2>2. RowFits(e, journal[e])
    BY <1>1
  <2>3. CASE e \in active
    <3>1. journal'[e] = Observed(journal[e])
      BY <2>1, <2>3
    <3>. QED
      BY <2>2, <3>1, ObservedFits
  <2>4. CASE e \notin active
    <3>1. journal'[e] = journal[e]
      BY <2>1, <2>4
    <3>. QED
      BY <1>f, <2>2, <3>1
  <2>. QED
    BY <2>3, <2>4
<1>3. journal' \in [Entries -> JournalRows]
  BY <1>2, <1>u
<1>4. ImportBehind'
  BY <1>u, ImportStays
<1>5. poll' \in [Polls -> PollRows]
  BY <1>f, <1>n, <1>u
<1>6. ASSUME NEW q \in Polls
      PROVE  /\ PollFits(poll[q])' /\ poll'[q].used \subseteq Closes
             /\ \A e \in poll'[q].asked : journal[e].status # "NONE"
  <2>1. CASE q = p
    <3>1. poll'[q] = next
      BY <1>f, <1>u, <2>1
    <3>2. Remembers(NoPoll.history)'
      <4>1. Remembers(NoPoll.history)
        BY NoPollFits
      <4>. QED
        BY <1>u, <4>1 DEF Remembers, NoPoll
    <3>. QED
      BY <1>n, <3>1, <3>2 DEF PollFits
  <2>2. CASE q # p
    BY <1>f, <1>u, <2>2, PollKeeps
  <2>. QED
    BY <2>1, <2>2
<1>7. losses' \in 0..MaxLosses /\ losses <= losses'
  BY <1>f, <1>u, JournalAssumption
<1>. QED
  BY <1>2, <1>3, <1>4, <1>5, <1>6, <1>7, <1>f, <1>u, RowsMove

LEMMA PollChanges ==
    ASSUME RowsInv, UNCHANGED <<legs, fills, expired>>, losses' = 0 => losses = 0,
           NEW p \in Polls, NEW q \in PollRows, poll' = [poll EXCEPT ![p] = q],
           Remembers(q.history), q.settled => expired /\ (losses' = 0 => q.history = fills),
           q.left \subseteq q.asked,
           \A x \in q.used : \E f \in q.asked \ q.left : legs[f] = legs[x],
           \A f \in q.asked : journal[f].status # "NONE"
    PROVE  /\ poll' \in [Polls -> PollRows]
           /\ \A r \in Polls : PollFits(poll[r])' /\ poll'[r].used \subseteq Closes
                               /\ \A f \in poll'[r].asked : journal[f].status # "NONE"
<1>f. poll \in [Polls -> PollRows]
  BY JournalFacts
<1>1. poll' \in [Polls -> PollRows] /\ poll'[p] = q /\ \A r \in Polls : r # p => poll'[r] = poll[r]
  BY <1>f
<1>2. /\ PollFits(poll[p])' /\ poll'[p].used \subseteq Closes
      /\ \A f \in poll'[p].asked : journal[f].status # "NONE"
  <2>1. q.used \subseteq Closes
    BY DEF PollRows
  <2>2. Remembers(poll[p].history)'
    BY <1>1 DEF Remembers
  <2>. QED
    BY <1>1, <2>1, <2>2 DEF PollFits
<1>3. ASSUME NEW r \in Polls, r # p
      PROVE  /\ PollFits(poll[r])' /\ poll'[r].used \subseteq Closes
             /\ \A f \in poll'[r].asked : journal[f].status # "NONE"
  <2>1. poll'[r] = poll[r]
    BY <1>1, <1>3
  <2>2. PollFits(poll[r]) /\ \A f \in poll[r].asked : journal[f].status # "NONE"
    BY DEF RowsInv
  <2>3. Remembers(poll[r].history)'
    BY <2>1, <2>2 DEF Remembers, PollFits
  <2>4. poll[r].used \subseteq Closes
    BY PollsType
  <2>. QED
    BY <2>1, <2>2, <2>3, <2>4 DEF PollFits
<1>. QED
  BY <1>1, <1>2, <1>3

(* A monitor request that changes no row.                                  *)
LEMMA PollMoves ==
    ASSUME RowsInv, UNCHANGED <<legs, atBroker, fills, expired, audited, journal, import>>,
           losses' \in 0..MaxLosses, losses <= losses',
           NEW p \in Polls, NEW q \in PollRows, poll' = [poll EXCEPT ![p] = q],
           Remembers(q.history), q.settled => expired /\ (losses' = 0 => q.history = fills),
           q.left \subseteq q.asked,
           \A x \in q.used : \E f \in q.asked \ q.left : legs[f] = legs[x],
           \A f \in q.asked : journal[f].status # "NONE"
    PROVE  RowsInv'
<1>f. journal \in [Entries -> JournalRows] /\ import \in ImportRows /\ losses \in 0..MaxLosses
  BY JournalFacts
<1>1. losses' = 0 => losses = 0
  BY <1>f
<1>2. ImportBehind'
  BY <1>f, ImportStays
<1>3. \A e \in Entries : RowFits(e, journal'[e])
  BY DEF RowsInv
<1>4. /\ poll' \in [Polls -> PollRows]
      /\ \A r \in Polls : PollFits(poll[r])' /\ poll'[r].used \subseteq Closes
                          /\ \A f \in poll'[r].asked : journal[f].status # "NONE"
  BY <1>1, PollChanges
<1>. QED
  BY <1>2, <1>3, <1>4, <1>f, RowsMove

LEMMA LossCounted ==
    ASSUME RowsInv, NEW n \in {0, 1}, Loses(n)
    PROVE  losses' \in 0..MaxLosses /\ losses <= losses' /\ (n = 1 => losses' # 0)
<1>1. losses \in 0..MaxLosses
  BY JournalFacts
<1>. DEFINE k == losses'
<1>2. k = losses + n /\ k <= MaxLosses
  BY DEF Loses
<1>. HIDE DEF k
<1>3. k \in 0..MaxLosses /\ losses <= k /\ (n = 1 => k # 0)
  BY <1>1, <1>2, JournalAssumption
<1>. QED
  BY <1>3 DEF k

LEMMA ReadHeldKeeps ==
    ASSUME RowsInv, NEW p \in Polls, ReadHeld(p) PROVE RowsInv'
<1>1. PICK n \in {0, 1} :
         /\ Loses(n)
         /\ poll' = [poll EXCEPT ![p] = [NoPoll EXCEPT !.pc = "link",
                       !.held = IF n = 1 THEN {} ELSE {c \in Condors : Holds(c)}]]
  BY DEF ReadHeld
<1>. DEFINE held == IF n = 1 THEN {} ELSE {c \in Condors : Holds(c)}
            q == [NoPoll EXCEPT !.pc = "link", !.held = held]
<1>2. held \in SUBSET Condors
  OBVIOUS
<1>3. poll' = [poll EXCEPT ![p] = q]
  BY <1>1
<1>. HIDE DEF held
<1>4. /\ q \in PollRows /\ q.history = NoPoll.history /\ q.settled = FALSE
      /\ q.used = {} /\ q.asked = {} /\ q.left = {}
  BY <1>2, PollReadsHeld
<1>5. Remembers(q.history)
  BY <1>4, NoPollFits
<1>6. losses' \in 0..MaxLosses /\ losses <= losses'
  BY <1>1, LossCounted
<1>7. UNCHANGED <<legs, atBroker, fills, expired, audited, journal, import>>
  BY DEF ReadHeld, brokerVars
<1>. HIDE DEF q
<1>. QED
  BY <1>3, <1>4, <1>5, <1>6, <1>7, PollMoves

LEMMA ReadCandidatesKeeps ==
    ASSUME RowsInv, NEW p \in Polls, ReadCandidates(p) PROVE RowsInv'
<1>. DEFINE asked == {e \in Entries : journal[e].status \in Unfinished} \ poll[p].active
            q == [NoPoll EXCEPT !.pc = "history", !.asked = asked, !.left = asked]
            next == IF asked = {} THEN NoPoll ELSE q
<1>1. asked \in SUBSET Entries /\ \A f \in asked : journal[f].status # "NONE"
  BY DEF Unfinished
<1>2. poll' = [poll EXCEPT ![p] = next]
  BY DEF ReadCandidates
<1>3. UNCHANGED <<legs, atBroker, fills, expired, audited, journal, import, losses>>
  BY DEF ReadCandidates, brokerVars
<1>. HIDE DEF asked
<1>4. /\ q \in PollRows /\ q.history = NoPoll.history /\ q.settled = FALSE
      /\ q.used = {} /\ q.asked = asked /\ q.left = asked
  BY <1>1, PollAsks
<1>5. NoPoll \in PollRows /\ Remembers(NoPoll.history)
  BY NoPollFits
<1>6. NoPoll.settled = FALSE /\ NoPoll.used = {} /\ NoPoll.asked = {} /\ NoPoll.left = {}
  BY DEF NoPoll
<1>. HIDE DEF q
<1>7. /\ next \in PollRows /\ Remembers(next.history) /\ next.settled = FALSE /\ next.used = {}
      /\ next.left \subseteq next.asked /\ next.asked \subseteq asked
  BY <1>4, <1>5, <1>6
<1>. HIDE DEF next
<1>8. losses' \in 0..MaxLosses /\ losses <= losses'
  BY <1>3, JournalFacts, JournalAssumption
<1>9. \A f \in next.asked : journal[f].status # "NONE"
  BY <1>1, <1>7
<1>. QED
  BY <1>2, <1>3, <1>7, <1>8, <1>9, PollMoves

LEMMA ReadHistoryKeeps ==
    ASSUME RowsInv, NEW p \in Polls, ReadHistory(p) PROVE RowsInv'
<1>f. poll \in [Polls -> PollRows] /\ fills \in Seq(Orders) /\ expired \in BOOLEAN
  BY JournalFacts
<1>1. PICK n \in {0, 1} :
         /\ Loses(n)
         /\ poll' = [poll EXCEPT ![p] = [poll[p] EXCEPT !.pc = "finalize", !.settled = SettlementsPosted,
                                           !.history = IF n = 1 THEN <<>> ELSE fills]]
  BY DEF ReadHistory
<1>. DEFINE old == poll[p]
            history == IF n = 1 THEN <<>> ELSE fills
            q == [old EXCEPT !.pc = "finalize", !.settled = SettlementsPosted, !.history = history]
<1>2. poll' = [poll EXCEPT ![p] = q]
  BY <1>1
<1>3. old \in PollRows
  BY <1>f
<1>4. history \in Seq(Orders) /\ Remembers(history) /\ (n = 0 => history = fills)
  <2>1. CASE n = 1
    <3>1. history = <<>> /\ Len(<<>>) = 0 /\ Len(fills) \in Nat
      BY <1>f, <2>1
    <3>. QED
      BY <2>1, <3>1 DEF Remembers
  <2>2. CASE n = 0
    <3>1. history = fills /\ Len(fills) \in Nat
      BY <1>f, <2>2
    <3>. QED
      BY <1>f, <3>1 DEF Remembers
  <2>. QED
    BY <2>1, <2>2
<1>. HIDE DEF old, history
<1>5. SettlementsPosted = expired
  BY DEF SettlementsPosted
<1>6. q \in PollRows
  BY <1>3, <1>4, <1>5, <1>f, ZenonT(30) DEF PollRows
<1>7. /\ q.history = history /\ q.settled = SettlementsPosted /\ q.used = old.used
      /\ q.asked = old.asked /\ q.left = old.left
  BY <1>3 DEF PollRows
<1>. HIDE DEF q
<1>8. PollFits(old) /\ \A f \in old.asked : journal[f].status # "NONE"
  BY DEF RowsInv, old
<1>9. /\ q.left \subseteq q.asked /\ \A f \in q.asked : journal[f].status # "NONE"
      /\ \A x \in q.used : \E f \in q.asked \ q.left : legs[f] = legs[x]
  BY <1>7, <1>8 DEF PollFits
<1>10. losses' \in 0..MaxLosses /\ losses <= losses' /\ (n = 1 => losses' # 0)
  BY <1>1, LossCounted
<1>11. q.settled => expired /\ (losses' = 0 => q.history = fills)
  BY <1>10, <1>4, <1>5, <1>7
<1>12. UNCHANGED <<legs, atBroker, fills, expired, audited, journal, import>>
  BY DEF ReadHistory, brokerVars
<1>13. Remembers(q.history)
  BY <1>4, <1>7
<1>. QED
  BY <1>2, <1>6, <1>9, <1>10, <1>11, <1>12, <1>13, PollMoves

LEMMA PollEndsKeeps ==
    ASSUME RowsInv, NEW p \in Polls, PollEnds(p) PROVE RowsInv'
<1>1. NoPoll \in PollRows /\ Remembers(NoPoll.history)
  BY NoPollFits
<1>2. NoPoll.settled = FALSE /\ NoPoll.used = {} /\ NoPoll.asked = {} /\ NoPoll.left = {}
  BY DEF NoPoll
<1>3. /\ UNCHANGED <<legs, atBroker, fills, expired, audited, journal, import, losses>>
      /\ poll' = [poll EXCEPT ![p] = NoPoll]
  BY DEF PollEnds, brokerVars
<1>4. losses' \in 0..MaxLosses /\ losses <= losses'
  BY <1>3, JournalFacts, JournalAssumption
<1>. QED
  BY <1>1, <1>2, <1>3, <1>4, PollMoves

(* A closing order of the same legs, of which one trade only has them,     *)
(* filled after the entry of that trade.                                   *)
LEMMA MatchingFollows ==
    ASSUME RowsInv, NEW history \in Seq(Orders), Remembers(history),
           NEW e \in Entries, NEW used, NEW x \in Matching(e, history, used)
    PROVE  x \in Closes /\ x \in Listed(fills) /\ legs[x] = legs[e] /\ x \notin used
           /\ (AllDiffer => Before(fills, e, x))
<1>1. x \in Closes /\ x \in Listed(history) /\ legs[x] = legs[e] /\ x \notin used
  BY DEF Matching, Opposes
<1>2. x \in Listed(fills)
  BY <1>1, RememberedTrue, JournalFacts
<1>3. PICK f \in Entries : legs[f] = legs[x] /\ Before(fills, f, x)
  BY <1>1, <1>2 DEF RowsInv, ClosesFollow
<1>4. AllDiffer => f = e
  BY <1>1, <1>3 DEF AllDiffer
<1>. QED
  BY <1>1, <1>2, <1>3, <1>4

(* finalize_closed_trade.                                                  *)
LEMMA ClosedFits ==
    ASSUME NEW e \in Entries, NEW row, RowFits(e, row), NEW x \in Closes,
           AllDiffer => Before(fills, e, x), NEW opening \in BOOLEAN, opening => Filled(e)
    PROVE  /\ RowFits(e, FinalizedClosed(row, x, opening))
           /\ FinalizedClosed(row, x, opening).status = "CLOSED"
           /\ row.entryFill => FinalizedClosed(row, x, opening).entryFill
           /\ row.status = "CLOSED" => FinalizedClosed(row, x, opening) = row
<1>r. /\ row \in JournalRows /\ row.entryFill \in BOOLEAN /\ (row.entryFill => Filled(e))
      /\ row.status = "CLOSED" => row.closing \in Closes
  BY DEF RowFits, JournalRows
<1>1. row.status = "CLOSED" => HasItsClose(row)
  BY <1>r, JournalAssumption DEF HasItsClose
<1>2. CASE HasItsClose(row)
  <2>1. FinalizedClosed(row, x, opening) = row
    BY <1>2 DEF FinalizedClosed
  <2>. QED
    BY <1>2, <2>1 DEF HasItsClose
<1>3. CASE ~HasItsClose(row)
  <2>. DEFINE known == row.entryFill \/ opening
              new == [status |-> "CLOSED", entryFill |-> known, closing |-> x, result |-> known]
  <2>1. FinalizedClosed(row, x, opening) = new
    BY <1>3 DEF FinalizedClosed
  <2>2. known \in BOOLEAN /\ (known => Filled(e)) /\ (row.entryFill => known)
    BY <1>r
  <2>. HIDE DEF known
  <2>3. new \in JournalRows
    BY <2>2, RowMade
  <2>4. new.status = "CLOSED" /\ new.closing = x /\ new.entryFill = known
    OBVIOUS
  <2>. HIDE DEF new
  <2>5. RowFits(e, new)
    BY <2>2, <2>3, <2>4 DEF RowFits
  <2>. QED
    BY <1>1, <1>3, <2>1, <2>2, <2>4, <2>5
<1>. QED
  BY <1>2, <1>3

(* finalize_expired_trade.                                                 *)
LEMMA ExpiredFits ==
    ASSUME RowsInv, NEW e \in Entries, NEW row, RowFits(e, row), NEW opening \in BOOLEAN,
           opening => Filled(e), expired,
           losses = 0 => ~\E x \in Closes : legs[x] = legs[e] /\ Before(fills, e, x)
    PROVE  /\ RowFits(e, FinalizedExpired(row, e, opening))
           /\ row.status # "NONE" => FinalizedExpired(row, e, opening).status # "NONE"
           /\ row.entryFill => FinalizedExpired(row, e, opening).entryFill
           /\ row.status = "CLOSED" => FinalizedExpired(row, e, opening) = row
<1>r. row \in JournalRows /\ (row.entryFill => Filled(e))
  BY DEF RowFits
<1>1. CASE ~MayExpire(row, e, opening)
  <2>1. FinalizedExpired(row, e, opening) = row
    BY <1>1 DEF FinalizedExpired
  <2>. QED
    BY <2>1
<1>2. CASE MayExpire(row, e, opening)
  <2>. DEFINE new == [status |-> "EXPIRED", entryFill |-> TRUE, closing |-> NoClose, result |-> TRUE]
  <2>1. FinalizedExpired(row, e, opening) = new
    BY <1>2 DEF FinalizedExpired
  <2>2. new \in JournalRows
    BY RowMade
  <2>3. new.status = "EXPIRED" /\ new.entryFill = TRUE
    OBVIOUS
  <2>. HIDE DEF new
  <2>4. Filled(e) /\ row.status # "CLOSED"
    BY <1>2, <1>r DEF MayExpire
  <2>5. AllDiffer => ~\E x \in Closes : legs[x] = legs[e] /\ Before(fills, e, x)
    <3>1. NetOf(legs[e], fills) = 1
      BY <1>2 DEF MayExpire, Settlement, Settled
    <3>2. fills \in Seq(Orders)
      BY JournalFacts
    <3>3. AllDiffer => ~\E x \in Closes \cap Listed(fills) : legs[x] = legs[e]
      BY <3>1, <3>2, NetHasEntry
    <3>. QED
      BY <3>3, BeforeListed
  <2>6. RowFits(e, new)
    BY <2>2, <2>3, <2>4, <2>5 DEF RowFits
  <2>. QED
    BY <2>1, <2>3, <2>4, <2>6
<1>. QED
  BY <1>1, <1>2

(* One candidate of reconcile_missing_trade_journals.                      *)
LEMMA FinalizeFits ==
    ASSUME RowsInv, NEW p \in Polls, NEW e \in Entries, e \in poll[p].left,
           NEW opening \in {Filled(e), FALSE}, NEW row,
           row = LET q == poll[p]
                     matching == Matching(e, q.history, q.used)
                 IN  IF matching # {} THEN FinalizedClosed(journal[e], Earliest(q.history, matching), opening)
                     ELSE IF q.settled /\ ~Ambiguous(p, e) THEN FinalizedExpired(journal[e], e, opening)
                     ELSE journal[e]
    PROVE  /\ RowFits(e, row) /\ row.status # "NONE"
           /\ journal[e].entryFill => row.entryFill
           /\ journal[e].status = "CLOSED" => row = journal[e]
<1>. DEFINE q == poll[p]
            matching == Matching(e, q.history, q.used)
            x == Earliest(q.history, matching)
<1>f. /\ q \in PollRows /\ q.history \in Seq(Orders)
  BY JournalFacts DEF PollRows
<1>p. PollFits(q) /\ e \in q.left
  BY DEF RowsInv
<1>h. Remembers(q.history)
  BY <1>p DEF PollFits
<1>s. journal[e].status # "NONE"
  BY <1>p DEF RowsInv, PollFits
<1>o. opening \in BOOLEAN /\ (opening => Filled(e))
  BY DEF Filled
<1>j. RowFits(e, journal[e])
  BY DEF RowsInv
<1>r. row = IF matching # {} THEN FinalizedClosed(journal[e], x, opening)
            ELSE IF q.settled /\ ~Ambiguous(p, e) THEN FinalizedExpired(journal[e], e, opening)
            ELSE journal[e]
  OBVIOUS
<1>1. CASE matching # {}
  <2>1. matching \subseteq Listed(q.history)
    BY DEF Matching
  <2>2. x \in matching
    BY <1>1, <1>f, <2>1, EarliestIn
  <2>. HIDE DEF x, q
  <2>3. x \in Closes /\ (AllDiffer => Before(fills, e, x))
    BY <1>f, <1>h, <2>2, MatchingFollows
  <2>. HIDE DEF matching
  <2>. QED
    BY <1>1, <1>j, <1>o, <1>r, <2>3, ClosedFits
<1>2. CASE matching = {} /\ q.settled /\ ~Ambiguous(p, e)
  <2>1. expired /\ (losses = 0 => q.history = fills)
    BY <1>2, <1>p DEF PollFits
  <2>2. ASSUME losses = 0, NEW y \in Closes, legs[y] = legs[e], Before(fills, e, y) PROVE FALSE
    <3>1. y \in Listed(q.history)
      BY <2>1, <2>2, BeforeListed
    <3>2. y \in q.used
      BY <1>2, <2>2, <3>1 DEF Matching, Opposes
    <3>3. PICK f \in q.asked \ q.left : legs[f] = legs[y]
      BY <1>p, <3>2 DEF PollFits
    <3>4. f \in poll[p].asked \ {e}
      BY <1>p, <3>3
    <3>. QED
      BY <1>2, <2>2, <3>3, <3>4 DEF Ambiguous
  <2>3. row = FinalizedExpired(journal[e], e, opening)
    BY <1>2, <1>r
  <2>. HIDE DEF matching, q, x
  <2>. QED
    BY <1>j, <1>o, <1>s, <2>1, <2>2, <2>3, ExpiredFits
<1>3. CASE matching = {} /\ ~(q.settled /\ ~Ambiguous(p, e))
  <2>1. row = journal[e]
    BY <1>3, <1>r
  <2>. QED
    BY <1>j, <1>s, <2>1
<1>. QED
  BY <1>1, <1>2, <1>3

LEMMA FinalizeOneKeeps ==
    ASSUME RowsInv, NEW p \in Polls, NEW e \in Entries, FinalizeOne(p, e)
    PROVE  /\ RowsInv'
           /\ \A f \in Entries : journal[f].status = "CLOSED" => journal'[f] = journal[f]
<1>. DEFINE q == poll[p]
            matching == Matching(e, q.history, q.used)
            x == Earliest(q.history, matching)
            Row(opening) == IF matching # {} THEN FinalizedClosed(journal[e], x, opening)
                            ELSE IF q.settled /\ ~Ambiguous(p, e) THEN FinalizedExpired(journal[e], e, opening)
                            ELSE journal[e]
<1>f. /\ poll \in [Polls -> PollRows] /\ journal \in [Entries -> JournalRows] /\ import \in ImportRows
      /\ losses \in 0..MaxLosses
  BY JournalFacts
<1>1. PICK opening \in {Filled(e), FALSE} : journal' = [journal EXCEPT ![e] = Row(opening)]
  BY DEF FinalizeOne
<1>2. e \in q.left
  BY DEF FinalizeOne
<1>. DEFINE row == Row(opening)
<1>3. /\ RowFits(e, row) /\ row.status # "NONE"
      /\ journal[e].entryFill => row.entryFill
      /\ journal[e].status = "CLOSED" => row = journal[e]
  BY <1>2, FinalizeFits
<1>. DEFINE used == IF matching = {} THEN q.used ELSE q.used \cup {x}
            left == q.left \ {e}
            on == [q EXCEPT !.left = left, !.used = used]
            next == IF q.left = {e} THEN NoPoll ELSE on
<1>4. poll' = [poll EXCEPT ![p] = next]
  BY DEF FinalizeOne
<1>5. UNCHANGED <<legs, atBroker, fills, expired, audited, import, losses>>
  BY DEF FinalizeOne, brokerVars
<1>q. q \in PollRows /\ q.history \in Seq(Orders) /\ PollFits(q)
      /\ \A f \in q.asked : journal[f].status # "NONE"
  BY <1>f DEF RowsInv, PollRows
<1>6. matching # {} => x \in Closes /\ legs[x] = legs[e]
  <2>1. matching \subseteq Listed(q.history)
    BY DEF Matching
  <2>2. matching # {} => x \in matching
    BY <1>q, <2>1, EarliestIn
  <2>. QED
    BY <2>2 DEF Matching, Opposes
<1>. HIDE DEF x, matching
<1>7. /\ used \subseteq Closes /\ left \subseteq q.asked /\ left \subseteq Entries
      /\ \A y \in used : \E f \in q.asked \ left : legs[f] = legs[y]
  BY <1>2, <1>6, <1>q DEF PollFits, PollRows
<1>. HIDE DEF row, Row, q, used, left
<1>8. on \in PollRows
  <2>1. used \in SUBSET Closes /\ left \in SUBSET Entries
    BY <1>7
  <2>. QED
    BY <1>q, <2>1, ZenonT(30) DEF PollRows
<1>9. /\ on.history = q.history /\ on.settled = q.settled /\ on.used = used
      /\ on.asked = q.asked /\ on.left = left
  BY <1>q DEF PollRows
<1>10. NoPoll \in PollRows /\ PollFits(NoPoll) /\ NoPoll.asked = {}
  BY NoPollFits DEF NoPoll
<1>. HIDE DEF on
<1>11. /\ next \in PollRows /\ Remembers(next.history)
       /\ next.settled => expired /\ (losses' = 0 => next.history = fills)
       /\ next.left \subseteq next.asked
       /\ \A y \in next.used : \E f \in next.asked \ next.left : legs[f] = legs[y]
       /\ \A f \in next.asked : journal[f].status # "NONE"
  <2>1. CASE q.left = {e}
    BY <1>10, <1>5, <2>1 DEF PollFits
  <2>2. CASE q.left # {e}
    <3>1. next = on
      BY <2>2
    <3>. QED
      BY <1>5, <1>7, <1>8, <1>9, <1>q, <3>1 DEF PollFits
  <2>. QED
    BY <2>1, <2>2
<1>. HIDE DEF next
<1>12. /\ poll' \in [Polls -> PollRows]
       /\ \A r \in Polls : PollFits(poll[r])' /\ poll'[r].used \subseteq Closes
                           /\ \A f \in poll'[r].asked : journal[f].status # "NONE"
  BY <1>11, <1>4, <1>5, PollChanges
<1>13. journal' = [journal EXCEPT ![e] = row]
  BY <1>1 DEF row
<1>14. row \in JournalRows
  BY <1>3 DEF RowFits
<1>15. /\ journal' \in [Entries -> JournalRows] /\ journal'[e] = row
       /\ \A f \in Entries : f # e => journal'[f] = journal[f]
  BY <1>13, <1>14, <1>f
<1>17. ImportBehind'
  BY <1>5, ImportStays
<1>18. RowsInv'
  BY <1>3, <1>5, <1>12, <1>13, <1>17, <1>f, RowMoves
<1>. QED
  BY <1>3, <1>15, <1>18

(* The import reads and plans; no row changes.                             *)
LEMMA ImportMoves ==
    ASSUME RowsInv, UNCHANGED <<legs, atBroker, fills, expired, audited, journal, poll, losses>>,
           import' \in ImportRows, ImportBehind'
    PROVE  RowsInv'
<1>1. /\ journal \in [Entries -> JournalRows] /\ poll \in [Polls -> PollRows]
      /\ losses \in 0..MaxLosses
  BY JournalFacts
<1>2. losses' \in 0..MaxLosses /\ losses <= losses'
  BY <1>1, JournalAssumption
<1>3. \A p \in Polls : PollFits(poll[p])' /\ poll'[p].used \subseteq Closes
                       /\ \A f \in poll'[p].asked : journal[f].status # "NONE"
  BY PollKeeps
<1>4. \A e \in Entries : RowFits(e, journal'[e])
  BY DEF RowsInv
<1>. QED
  BY <1>1, <1>2, <1>3, <1>4, RowsMove

LEMMA ImportReads ==
    ASSUME RowsInv, ReadForImport \/ PlanImport \/ ImportEnds PROVE RowsInv'
<1>f. /\ import \in ImportRows /\ fills \in Seq(Orders) /\ expired \in BOOLEAN
  BY JournalFacts
<1>n. /\ NoImport \in ImportRows /\ NoImport.pc = "idle" /\ NoImport.history = <<>>
      /\ NoImport.settled = FALSE /\ NoImport.entry = {}
  <2>1. <<>> \in Seq(Orders)
    OBVIOUS
  <2>. QED
    BY <2>1 DEF NoImport, ImportRows, RowStatuses
<1>m. Len(fills) \in Nat /\ Len(<<>>) = 0
  BY <1>f
<1>1. CASE ReadForImport
  <2>. DEFINE new == [NoImport EXCEPT !.pc = "plan", !.history = fills, !.settled = SettlementsPosted]
  <2>1. /\ import' = new
        /\ UNCHANGED <<legs, atBroker, fills, expired, audited, journal, poll, losses>>
    BY <1>1 DEF ReadForImport, brokerVars
  <2>2. SettlementsPosted = expired
    BY DEF SettlementsPosted
  <2>3. new \in ImportRows
    BY <1>f, <1>n, <2>2, ZenonT(30) DEF ImportRows
  <2>4. new.pc = "plan" /\ new.history = fills /\ new.settled = expired /\ new.entry = {}
    BY <1>n, <2>2 DEF NoImport
  <2>. HIDE DEF new
  <2>5. ImportBehind'
    BY <1>m, <2>1, <2>4 DEF ImportBehind, Remembers
  <2>. QED
    BY <2>1, <2>3, <2>5, ImportMoves
<1>2. CASE PlanImport
  <2>. DEFINE known == {e \in Entries : journal[e].status # "NONE"}
              new == [import EXCEPT !.pc = "next", !.known = known]
  <2>1. /\ import' = new
        /\ UNCHANGED <<legs, atBroker, fills, expired, audited, journal, poll, losses>>
    BY <1>2 DEF PlanImport, brokerVars
  <2>2. known \in SUBSET Entries /\ \A e \in Entries \ known : journal[e].status = "NONE"
    OBVIOUS
  <2>. HIDE DEF known
  <2>3. new \in ImportRows
    BY <1>f, <2>2, ZenonT(30) DEF ImportRows
  <2>4. /\ new.history = import.history /\ new.settled = import.settled
        /\ new.entry = import.entry /\ new.known = known
    BY <1>f DEF ImportRows
  <2>. HIDE DEF new
  <2>5. ImportBehind'
    BY <2>1, <2>2, <2>4 DEF RowsInv, ImportBehind, Remembers, Openings
  <2>. QED
    BY <2>1, <2>3, <2>5, ImportMoves
<1>3. CASE ImportEnds
  <2>1. /\ import' = NoImport
        /\ UNCHANGED <<legs, atBroker, fills, expired, audited, journal, poll, losses>>
    BY <1>3 DEF ImportEnds, brokerVars
  <2>2. ImportBehind'
    BY <1>m, <1>n, <2>1 DEF ImportBehind, Remembers
  <2>. QED
    BY <1>n, <2>1, <2>2, ImportMoves
<1>. QED
  BY <1>1, <1>2, <1>3

(* Only the row of the entry in hand changes; import moves on.             *)
LEMMA ImportChanges ==
    ASSUME RowsInv, NEW e \in Entries, NEW row, journal' = [journal EXCEPT ![e] = row], RowFits(e, row),
           journal[e].status # "NONE" => row.status # "NONE",
           UNCHANGED <<legs, atBroker, fills, expired, audited, poll, losses>>,
           NEW new \in ImportRows, import' = new, new.history = import.history,
           new.settled = import.settled, new.entry \subseteq import.entry
    PROVE  /\ RowsInv' /\ journal'[e] = row
           /\ \A f \in Entries : f # e => journal'[f] = journal[f]
<1>f. /\ import \in ImportRows /\ journal \in [Entries -> JournalRows] /\ poll \in [Polls -> PollRows]
  BY JournalFacts
<1>1. journal'[e] = row /\ \A f \in Entries : f # e => journal'[f] = journal[f]
  BY <1>f
<1>2. ImportBehind'
  <2>1. Openings' = Openings
    BY DEF Openings
  <2>2. Remembers(import.history)'
    BY DEF RowsInv, ImportBehind, Remembers
  <2>. QED
    BY <2>1, <2>2 DEF RowsInv, ImportBehind
<1>3. \A p \in Polls : PollFits(poll[p])' /\ poll'[p].used \subseteq Closes
                       /\ \A f \in poll'[p].asked : journal[f].status # "NONE"
  BY PollKeeps
<1>4. RowsInv'
  BY <1>2, <1>3, <1>f, RowMoves
<1>. QED
  BY <1>1, <1>4

(* The import reads the row of its next entry.                             *)
LEMMA ImportLoadsKeeps ==
    ASSUME RowsInv, NEW e \in Entries, ImportLoads(e) PROVE RowsInv'
<1>f. /\ import \in ImportRows /\ journal \in [Entries -> JournalRows]
  BY JournalFacts
<1>1. e \in Openings
  BY DEF ImportLoads, Importable
<1>. DEFINE known == import.known \cup {e}
            read == journal[e].status
            new == [import EXCEPT !.pc = "loaded", !.known = known, !.entry = {e}, !.read = read]
<1>2. /\ import' = new
      /\ UNCHANGED <<legs, atBroker, fills, expired, audited, journal, poll, losses>>
  BY DEF ImportLoads, brokerVars
<1>3. read \in RowStatuses
  BY <1>f DEF JournalRows
<1>4. known \in SUBSET Entries /\ {e} \in SUBSET Entries
  BY <1>f DEF ImportRows
<1>. HIDE DEF known, read
<1>5. new \in ImportRows
  BY <1>3, <1>4, <1>f, ZenonT(30) DEF ImportRows
<1>6. new.history = import.history /\ new.settled = import.settled /\ new.entry = {e}
  BY <1>f DEF ImportRows
<1>. HIDE DEF new
<1>7. ImportBehind'
  <2>1. Openings' = Openings
    BY <1>2, <1>6 DEF Openings
  <2>2. Remembers(import.history)'
    BY <1>2, <1>6 DEF RowsInv, ImportBehind, Remembers
  <2>. QED
    BY <1>1, <1>2, <1>6, <2>1, <2>2 DEF RowsInv, ImportBehind
<1>. QED
  BY <1>2, <1>5, <1>7, ImportMoves

(* The commit of the import's record, whatever became of the row since.    *)
LEMMA ImportCommitsKeeps ==
    ASSUME RowsInv, NEW e \in Entries, ImportCommits(e)
    PROVE  /\ RowsInv'
           /\ \A f \in Entries : f # e => journal'[f] = journal[f]
           /\ journal'[e].closing = journal[e].closing /\ journal'[e].result = journal[e].result
           /\ journal[e].status = "CLOSED" => journal'[e].status = "CLOSED" \/ ReadBeforeClose(e)
<1>f. import \in ImportRows
  BY JournalFacts
<1>. DEFINE read == import.read
            row == Recorded(journal[e], read, TRUE, TRUE)
            new == [import EXCEPT !.pc = "normalize", !.read = "NONE"]
<1>u. /\ UNCHANGED <<legs, atBroker, fills, expired, audited, poll, losses>>
      /\ journal' = [journal EXCEPT ![e] = row]
      /\ import.pc = "loaded" /\ import.entry = {e} /\ ~Collides(journal[e], read)
      /\ import' = new
  BY DEF ImportCommits, brokerVars
<1>1. Filled(e)
  BY <1>u, OpeningsFilled DEF RowsInv, ImportBehind
<1>2. read \in RowStatuses /\ "NONE" \in RowStatuses
  BY <1>f DEF ImportRows, RowStatuses
<1>3. RowFits(e, journal[e])
  BY DEF RowsInv
<1>. HIDE DEF read
<1>4. ASSUME NEW b \in BOOLEAN
      PROVE  /\ RowFits(e, Recorded(journal[e], read, b, b))
             /\ journal[e].status # "NONE" => Recorded(journal[e], read, b, b).status # "NONE"
             /\ Recorded(journal[e], read, b, b).closing = journal[e].closing
             /\ Recorded(journal[e], read, b, b).result = journal[e].result
             /\ read = "CLOSED" => Recorded(journal[e], read, b, b).status = journal[e].status
  BY <1>1, <1>2, <1>3, RecordedFits
<1>5. /\ RowFits(e, row) /\ (journal[e].status # "NONE" => row.status # "NONE")
      /\ row.closing = journal[e].closing /\ row.result = journal[e].result
      /\ read = "CLOSED" => row.status = journal[e].status
  BY <1>4
<1>. HIDE DEF row
<1>6. journal[e].status = "CLOSED" => row.status = "CLOSED" \/ ReadBeforeClose(e)
  <2>1. read = "NONE" => journal[e].status # "CLOSED"
    BY <1>u DEF Collides
  <2>2. read \notin {"NONE", "CLOSED"} => ReadBeforeClose(e)
    BY <1>u DEF ReadBeforeClose, read
  <2>. QED
    BY <1>5, <2>1, <2>2
<1>7. new \in ImportRows
  BY <1>2, <1>f, ZenonT(30) DEF ImportRows
<1>8. /\ new.history = import.history /\ new.settled = import.settled
      /\ new.entry = import.entry
  BY <1>f DEF ImportRows
<1>. HIDE DEF new
<1>9. /\ RowsInv' /\ journal'[e] = row
      /\ \A f \in Entries : f # e => journal'[f] = journal[f]
  BY <1>5, <1>7, <1>8, <1>u, ImportChanges
<1>. QED
  BY <1>5, <1>6, <1>9

(* The details of the imported row are completed.                          *)
LEMMA NormalizeKeeps ==
    ASSUME RowsInv, NEW e \in Entries, NormalizeImportedRow(e)
    PROVE  /\ RowsInv'
           /\ \A f \in Entries : f # e => journal'[f] = journal[f]
           /\ journal'[e].closing = journal[e].closing /\ journal'[e].result = journal[e].result
           /\ journal'[e].status = journal[e].status
<1>f. import \in ImportRows /\ journal \in [Entries -> JournalRows]
  BY JournalFacts
<1>. DEFINE row == [journal[e] EXCEPT !.entryFill = TRUE]
            new == [import EXCEPT !.pc = "final"]
<1>u. /\ UNCHANGED <<legs, atBroker, fills, expired, audited, poll, losses>>
      /\ journal' = [journal EXCEPT ![e] = row]
      /\ import.entry = {e} /\ import' = new
  BY <1>f DEF NormalizeImportedRow, brokerVars
<1>1. Filled(e)
  BY <1>u, OpeningsFilled DEF RowsInv, ImportBehind
<1>2. RowFits(e, journal[e])
  BY DEF RowsInv
<1>3. /\ row.status = journal[e].status /\ row.closing = journal[e].closing
      /\ row.result = journal[e].result /\ row \in JournalRows
  BY <1>f DEF JournalRows
<1>4. RowFits(e, row)
  <2>. HIDE DEF row
  <2>. QED
    BY <1>1, <1>2, <1>3 DEF RowFits
<1>5. new \in ImportRows
  BY <1>f, ZenonT(30) DEF ImportRows
<1>6. /\ new.history = import.history /\ new.settled = import.settled
      /\ new.entry = import.entry
  BY <1>f DEF ImportRows
<1>. HIDE DEF new, row
<1>7. /\ RowsInv' /\ journal'[e] = row
      /\ \A f \in Entries : f # e => journal'[f] = journal[f]
  BY <1>3, <1>4, <1>5, <1>6, <1>u, ImportChanges
<1>. QED
  BY <1>3, <1>7

LEMMA FinalizeImportKeeps ==
    ASSUME RowsInv, NEW e \in Entries, FinalizeImport(e)
    PROVE  /\ RowsInv'
           /\ \A f \in Entries : journal[f].status = "CLOSED" => journal'[f] = journal[f]
<1>f. /\ import \in ImportRows /\ journal \in [Entries -> JournalRows] /\ poll \in [Polls -> PollRows]
  BY JournalFacts
<1>1. import.pc = "final" /\ import.entry = {e} /\ e \in Openings
  BY DEF FinalizeImport, RowsInv, ImportBehind
<1>2. Filled(e) /\ import.history \in Seq(Orders) /\ Remembers(import.history)
  BY <1>1, OpeningsFilled
<1>3. RowFits(e, journal[e])
  BY DEF RowsInv
<1>. DEFINE x == CHOOSE y \in ClosesAfter(e) : TRUE
            row == IF ClosesAfter(e) # {} THEN FinalizedClosed(journal[e], x, TRUE)
                   ELSE IF import.settled THEN FinalizedExpired(journal[e], e, TRUE) ELSE journal[e]
<1>4. /\ RowFits(e, row) /\ (journal[e].status # "NONE" => row.status # "NONE")
      /\ journal[e].status = "CLOSED" => row = journal[e]
  <2>1. CASE ClosesAfter(e) # {}
    <3>1. x \in Matching(e, import.history, {})
      BY <2>1 DEF ClosesAfter
    <3>. HIDE DEF x
    <3>2. x \in Closes /\ (AllDiffer => Before(fills, e, x))
      BY <1>2, <3>1, MatchingFollows
    <3>3. row = FinalizedClosed(journal[e], x, TRUE)
      BY <2>1
    <3>4. /\ RowFits(e, row) /\ row.status = "CLOSED"
          /\ journal[e].status = "CLOSED" => row = journal[e]
      <4>1. ASSUME NEW opening \in BOOLEAN, opening => Filled(e)
            PROVE  LET closed == FinalizedClosed(journal[e], x, opening)
                   IN  /\ RowFits(e, closed) /\ closed.status = "CLOSED"
                       /\ journal[e].status = "CLOSED" => closed = journal[e]
        BY <1>3, <3>2, <4>1, ClosedFits
      <4>. HIDE DEF row
      <4>. QED
        BY <1>2, <3>3, <4>1
    <3>. HIDE DEF row
    <3>. QED
      BY <3>4
  <2>2. CASE ClosesAfter(e) = {} /\ import.settled
    <3>1. expired /\ import.history = fills
      BY <2>2 DEF RowsInv, ImportBehind
    <3>2. ~\E y \in Closes : legs[y] = legs[e] /\ Before(fills, e, y)
      BY <2>2, <3>1, BeforeListed DEF ClosesAfter, Matching, Opposes
    <3>3. row = FinalizedExpired(journal[e], e, TRUE)
      BY <2>2
    <3>4. ASSUME NEW opening \in BOOLEAN, opening => Filled(e)
          PROVE  LET ended == FinalizedExpired(journal[e], e, opening)
                 IN  /\ RowFits(e, ended) /\ (journal[e].status # "NONE" => ended.status # "NONE")
                     /\ journal[e].status = "CLOSED" => ended = journal[e]
      BY <1>3, <3>1, <3>2, <3>4, ExpiredFits
    <3>. HIDE DEF row
    <3>. QED
      BY <1>2, <3>3, <3>4
  <2>3. CASE ClosesAfter(e) = {} /\ ~import.settled
    <3>1. row = journal[e]
      BY <2>3
    <3>. HIDE DEF row
    <3>. QED
      BY <1>3, <3>1
  <2>. QED
    BY <2>1, <2>2, <2>3
<1>5. /\ journal' = [journal EXCEPT ![e] = row]
      /\ UNCHANGED <<legs, atBroker, fills, expired, audited, poll, losses>>
      /\ import' = [import EXCEPT !.pc = "next", !.entry = {}]
  BY DEF FinalizeImport, brokerVars
<1>. HIDE DEF row, x
<1>. DEFINE new == [import EXCEPT !.pc = "next", !.entry = {}]
<1>6. new \in ImportRows
  BY <1>f, ZenonT(30) DEF ImportRows
<1>7. /\ new.history = import.history /\ new.settled = import.settled
      /\ new.entry = {}
  BY <1>f DEF ImportRows
<1>8. import' = new
  BY <1>5
<1>. HIDE DEF new
<1>9. /\ RowsInv' /\ journal'[e] = row
      /\ \A f \in Entries : f # e => journal'[f] = journal[f]
  BY <1>4, <1>5, <1>6, <1>7, <1>8, ImportChanges
<1>. QED
  BY <1>4, <1>9

LEMMA JournalBegins ==
    ASSUME JournalInit PROVE JournalInv
<1>1. /\ legs \in LegsInUse /\ atBroker = [o \in Orders |-> "unsent"]
      /\ fills = <<>> /\ audited = <<>> /\ expired = FALSE
      /\ journal = [e \in Entries |-> NoRowYet] /\ poll = [p \in Polls |-> NoPoll]
      /\ import = NoImport /\ losses = 0 /\ recording = [e \in Entries |-> NoRecording]
  BY DEF JournalInit
<1>2. /\ Len(fills) = 0 /\ fills \in Seq(Orders) /\ audited \in Seq(Entries)
      /\ Listed(fills) = {} /\ Listed(audited) = {}
  <2>1. Len(<<>>) = 0 /\ <<>> \in Seq(Orders) /\ <<>> \in Seq(Entries) /\ 1..0 = {}
    OBVIOUS
  <2>. QED
    BY <1>1, <2>1 DEF Listed
<1>3. \A o \in Orders : ~Filled(o)
  BY <1>1 DEF Filled
<1>4. NoRowYet \in JournalRows /\ NoRowYet.status = "NONE" /\ NoRowYet.entryFill = FALSE
  BY RowMade DEF NoRowYet
<1>5. Remembers(<<>>)
  BY <1>1, <1>2 DEF Remembers
<1>6. /\ NoPoll \in PollRows /\ NoPoll.history = <<>> /\ NoPoll.settled = FALSE
      /\ NoPoll.left = {} /\ NoPoll.asked = {} /\ NoPoll.used = {}
  <2>1. <<>> \in Seq(Orders)
    OBVIOUS
  <2>. QED
    BY <2>1 DEF NoPoll, PollRows
<1>7. /\ NoImport \in ImportRows /\ NoImport.pc = "idle" /\ NoImport.history = <<>>
      /\ NoImport.settled = FALSE /\ NoImport.entry = {}
  <2>1. <<>> \in Seq(Orders)
    OBVIOUS
  <2>. QED
    BY <2>1 DEF NoImport, ImportRows, RowStatuses
<1>8. JournalTypeOK
  <2>1. Len(fills) = Cardinality(Listed(fills))
    BY <1>2, FS_EmptySet
  <2>2. atBroker \in [Orders -> {"unsent", "working", "filled", "dead"}]
    BY <1>1
  <2>3. journal \in [Entries -> JournalRows]
    BY <1>1, <1>4
  <2>4. losses \in 0..MaxLosses
    BY <1>1, JournalAssumption
  <2>. QED
    BY <1>1, <1>2, <1>3, <1>6, <2>1, <2>2, <2>3, <2>4 DEF JournalTypeOK
<1>9. JournalState
  BY <1>1, <1>2, <1>6, <1>7, JournalAssumption DEF JournalState, Orders
<1>10. ClosesFollow
  BY <1>1, <1>2 DEF ClosesFollow, Orders
<1>11. ImportBehind
  BY <1>1, <1>5, <1>7 DEF ImportBehind
<1>12. \A e \in Entries : RowFits(e, journal[e])
  BY <1>1, <1>4 DEF RowFits
<1>13. \A p \in Polls : PollFits(poll[p]) /\ \A e \in poll[p].asked : journal[e].status # "NONE"
  BY <1>1, <1>5, <1>6 DEF PollFits
<1>14. RowsInv
  BY <1>8, <1>9, <1>10, <1>11, <1>12, <1>13 DEF RowsInv
<1>15. RecordingFits
  <2>1. NoRecording \in RecordingRows /\ NoRecording.priced = FALSE
    BY DEF NoRecording, RecordingRows, RowStatuses
  <2>. QED
    BY <1>1, <2>1 DEF RecordingFits
<1>. QED
  BY <1>14, <1>15 DEF JournalInv

(* A price in hand stays that of a fill: no order unfills.                 *)
LEMMA RecordingMoves ==
    ASSUME RecordingFits, \A e \in Entries : Filled(e) => Filled(e)',
           NEW e \in Entries, NEW c \in RecordingRows, c.priced => Filled(e),
           recording' = [recording EXCEPT ![e] = c]
    PROVE  RecordingFits'
<1>1. recording' \in [Entries -> RecordingRows]
  BY DEF RecordingFits
<1>2. ASSUME NEW f \in Entries, recording'[f].priced PROVE Filled(f)'
  <2>1. CASE f = e
    BY <1>2, <2>1 DEF RecordingFits
  <2>2. CASE f # e
    BY <1>2, <2>2 DEF RecordingFits
  <2>. QED
    BY <2>1, <2>2
<1>. QED
  BY <1>1, <1>2 DEF RecordingFits

LEMMA RecordingKeeps ==
    ASSUME JournalInv, JournalNext PROVE RecordingFits'
<1>f. /\ recording \in [Entries -> RecordingRows] /\ RecordingFits
      /\ atBroker \in [Orders -> {"unsent", "working", "filled", "dead"}]
      /\ journal \in [Entries -> JournalRows] /\ Entries \subseteq Orders
  BY JournalFacts DEF JournalInv, RecordingFits
<1>m. \A e \in Entries : Filled(e) => Filled(e)'
  <2>1. ASSUME NEW e \in Entries, Filled(e) PROVE Filled(e)'
    <3>1. atBroker'[e] = "filled"
      BY <1>f, <2>1 DEF JournalNext, BrokerStep, SubmitEntry, SubmitClose, OrderFills, OrderCancelled,
           Expiration, RecorderStep, AuditSubmitted, ReconcileOrder, RecordLoads, RecordCommits,
           MonitorStep, ReadHeld, Observe, ReadCandidates, ReadHistory, FinalizeOne, PollEnds,
           ImportStep, ReadForImport, PlanImport, ImportEnds, ImportLoads, ImportCommits,
           NormalizeImportedRow, FinalizeImport, brokerVars, Filled
    <3>. QED
      BY <3>1 DEF Filled
  <2>. QED
    BY <2>1
<1>p. {"sent", "audited", "told", "loaded"} \subseteq
          {"idle", "sent", "audited", "told", "loaded"}
  OBVIOUS
<1>1. ASSUME NEW e \in Entries, SubmitEntry(e) PROVE RecordingFits'
  <2>. DEFINE old == recording[e]
              step == IF e \in Ours THEN "sent" ELSE old.pc
              c == [old EXCEPT !.pc = step]
  <2>1. recording' = [recording EXCEPT ![e] = c]
    BY <1>1, <1>f DEF SubmitEntry
  <2>2. old \in RecordingRows
    BY <1>f
  <2>3. step \in {"idle", "sent", "audited", "told", "loaded"}
    BY <2>2 DEF RecordingRows
  <2>. HIDE DEF step, old
  <2>4. c \in RecordingRows /\ c.priced = old.priced
    BY <2>2, <2>3 DEF RecordingRows
  <2>5. old.priced => Filled(e)
    BY <1>f DEF RecordingFits, old
  <2>. HIDE DEF c
  <2>. QED
    BY <1>f, <1>m, <2>1, <2>4, <2>5, RecordingMoves
<1>2. ASSUME NEW e \in Entries, AuditSubmitted(e) PROVE RecordingFits'
  <2>. DEFINE old == recording[e]
              c == [old EXCEPT !.pc = "audited"]
  <2>1. recording' = [recording EXCEPT ![e] = c]
    BY <1>2, <1>f DEF AuditSubmitted
  <2>2. old \in RecordingRows
    BY <1>f
  <2>. HIDE DEF old
  <2>3. c \in RecordingRows /\ c.priced = old.priced
    BY <2>2 DEF RecordingRows
  <2>4. old.priced => Filled(e)
    BY <1>f DEF RecordingFits, old
  <2>. HIDE DEF c
  <2>. QED
    BY <1>f, <1>m, <2>1, <2>3, <2>4, RecordingMoves
<1>3. ASSUME NEW e \in Entries, ReconcileOrder(e) PROVE RecordingFits'
  <2>1. PICK opened \in {FALSE, Filled(e)} : \E priced \in {FALSE, opened} :
           recording' = [recording EXCEPT ![e] =
               [recording[e] EXCEPT !.pc = "told", !.opened = opened, !.priced = priced]]
    BY <1>3 DEF ReconcileOrder
  <2>2. PICK priced \in {FALSE, opened} :
           recording' = [recording EXCEPT ![e] =
               [recording[e] EXCEPT !.pc = "told", !.opened = opened, !.priced = priced]]
    BY <2>1
  <2>3. opened \in BOOLEAN /\ priced \in BOOLEAN /\ (priced => Filled(e))
    BY DEF Filled
  <2>. DEFINE old == recording[e]
              c == [old EXCEPT !.pc = "told", !.opened = opened, !.priced = priced]
  <2>4. old \in RecordingRows
    BY <1>f
  <2>. HIDE DEF old
  <2>5. c \in RecordingRows /\ c.priced = priced
    BY <2>3, <2>4 DEF RecordingRows
  <2>6. recording' = [recording EXCEPT ![e] = c]
    BY <2>2 DEF old
  <2>. HIDE DEF c
  <2>. QED
    BY <1>f, <1>m, <2>3, <2>5, <2>6, RecordingMoves
<1>4. ASSUME NEW e \in Entries, RecordLoads(e) PROVE RecordingFits'
  <2>. DEFINE old == recording[e]
              read == journal[e].status
              c == [old EXCEPT !.pc = "loaded", !.read = read]
  <2>1. recording' = [recording EXCEPT ![e] = c]
    BY <1>4, <1>f DEF RecordLoads
  <2>2. old \in RecordingRows /\ read \in RowStatuses
    BY <1>f DEF JournalRows
  <2>. HIDE DEF old, read
  <2>3. c \in RecordingRows /\ c.priced = old.priced
    BY <2>2 DEF RecordingRows
  <2>4. old.priced => Filled(e)
    BY <1>f DEF RecordingFits, old
  <2>. HIDE DEF c
  <2>. QED
    BY <1>f, <1>m, <2>1, <2>3, <2>4, RecordingMoves
<1>5. ASSUME NEW e \in Entries, RecordCommits(e) PROVE RecordingFits'
  <2>1. recording' = [recording EXCEPT ![e] = NoRecording]
    BY <1>5 DEF RecordCommits
  <2>2. NoRecording \in RecordingRows /\ NoRecording.priced = FALSE
    BY DEF NoRecording, RecordingRows, RowStatuses
  <2>. QED
    BY <1>f, <1>m, <2>1, <2>2, RecordingMoves
<1>6. ASSUME UNCHANGED recording PROVE RecordingFits'
  BY <1>6, <1>f, <1>m DEF RecordingFits
<1>7. ASSUME \A e \in Entries : ~SubmitEntry(e) /\ ~RecorderStep(e) PROVE UNCHANGED recording
  BY <1>7 DEF JournalNext, BrokerStep, SubmitClose, OrderFills, OrderCancelled, Expiration,
       MonitorStep, ReadHeld, Observe, ReadCandidates, ReadHistory, FinalizeOne, PollEnds,
       ImportStep, ReadForImport, PlanImport, ImportEnds, ImportLoads, ImportCommits,
       NormalizeImportedRow, FinalizeImport
<1>. QED
  BY <1>1, <1>2, <1>3, <1>4, <1>5, <1>6, <1>7 DEF RecorderStep

(* A closed row keeps its closing order and its result in every step, and  *)
(* its status unless the step commits what was read before it was closed.  *)
Kept(e) ==
    /\ journal'[e].closing = journal[e].closing /\ journal'[e].result = journal[e].result
    /\ journal'[e].status = "CLOSED" \/ ReadBeforeClose(e)

LEMMA ClosedRowStays ==
    ASSUME JournalInv, NEW e \in Entries, journal[e].status = "CLOSED", JournalNext
    PROVE  Kept(e)
<1>f. journal \in [Entries -> JournalRows] /\ RowsInv /\ RecordingFits
  BY JournalFacts DEF JournalInv
<1>0. ASSUME journal'[e] = journal[e] PROVE Kept(e)
  BY <1>0 DEF Kept
<1>1. CASE BrokerStep
  <2>1. journal' = journal
    BY <1>1 DEF BrokerStep, SubmitEntry, SubmitClose, OrderFills, OrderCancelled, Expiration
  <2>. QED
    BY <1>0, <2>1
<1>2. ASSUME NEW f \in Entries, RecorderStep(f) PROVE Kept(e)
  <2>1. CASE AuditSubmitted(f) \/ ReconcileOrder(f) \/ RecordLoads(f)
    BY <1>0, <2>1 DEF AuditSubmitted, ReconcileOrder, RecordLoads
  <2>2. CASE RecordCommits(f)
    <3>1. CASE f = e
      BY <1>f, <2>2, <3>1, RecordKeeps DEF Kept
    <3>2. CASE f # e
      BY <1>0, <1>f, <2>2, <3>2, RecordKeeps
    <3>. QED
      BY <3>1, <3>2
  <2>. QED
    BY <1>2, <2>1, <2>2 DEF RecorderStep
<1>3. ASSUME NEW p \in Polls, MonitorStep(p) PROVE Kept(e)
  <2>1. CASE Observe(p)
    <3>1. RowFits(e, journal[e])
      BY <1>f DEF RowsInv
    <3>2. Observed(journal[e]) = journal[e]
      BY <3>1, ObservedFits
    <3>3. journal'[e] = journal[e]
      BY <2>1, <3>2 DEF Observe
    <3>. QED
      BY <1>0, <3>3
  <2>2. CASE ReadHeld(p) \/ ReadCandidates(p) \/ ReadHistory(p) \/ PollEnds(p)
    BY <1>0, <2>2 DEF ReadHeld, ReadCandidates, ReadHistory, PollEnds
  <2>3. ASSUME NEW f \in Entries, FinalizeOne(p, f) PROVE Kept(e)
    BY <1>0, <1>f, <2>3, FinalizeOneKeeps
  <2>. QED
    BY <1>3, <2>1, <2>2, <2>3 DEF MonitorStep
<1>4. ASSUME ImportStep PROVE Kept(e)
  <2>1. CASE ReadForImport \/ PlanImport \/ ImportEnds
    BY <1>0, <2>1 DEF ReadForImport, PlanImport, ImportEnds
  <2>2. ASSUME NEW f \in Entries, ImportLoads(f) PROVE Kept(e)
    BY <1>0, <2>2 DEF ImportLoads
  <2>3. ASSUME NEW f \in Entries, ImportCommits(f) PROVE Kept(e)
    <3>1. CASE f = e
      BY <1>f, <2>3, <3>1, ImportCommitsKeeps DEF Kept
    <3>2. CASE f # e
      BY <1>0, <1>f, <2>3, <3>2, ImportCommitsKeeps
    <3>. QED
      BY <3>1, <3>2
  <2>4. ASSUME NEW f \in Entries, NormalizeImportedRow(f) PROVE Kept(e)
    <3>1. CASE f = e
      BY <1>f, <2>4, <3>1, NormalizeKeeps DEF Kept
    <3>2. CASE f # e
      BY <1>0, <1>f, <2>4, <3>2, NormalizeKeeps
    <3>. QED
      BY <3>1, <3>2
  <2>5. ASSUME NEW f \in Entries, FinalizeImport(f) PROVE Kept(e)
    BY <1>0, <1>f, <2>5, FinalizeImportKeeps
  <2>. QED
    BY <1>4, <2>1, <2>2, <2>3, <2>4, <2>5 DEF ImportStep
<1>. QED
  BY <1>1, <1>2, <1>3, <1>4 DEF JournalNext

(* The steps of a recording that change no row but the audit.              *)
LEMMA RecorderKeeps ==
    ASSUME RowsInv, RecordingFits, NEW e \in Entries, RecorderStep(e) PROVE RowsInv'
<1>1. CASE AuditSubmitted(e)
  BY <1>1, AuditKeeps
<1>2. CASE ReconcileOrder(e) \/ RecordLoads(e)
  <2>1. UNCHANGED <<legs, atBroker, fills, expired, audited, journal, poll, import, losses>>
    BY <1>2 DEF ReconcileOrder, RecordLoads, brokerVars
  <2>2. import \in ImportRows
    BY JournalFacts
  <2>3. ImportBehind'
    BY <2>1, ImportStays
  <2>. QED
    BY <2>1, <2>2, <2>3, ImportMoves
<1>3. CASE RecordCommits(e)
  BY <1>3, RecordKeeps
<1>. QED
  BY <1>1, <1>2, <1>3 DEF RecorderStep

LEMMA JournalKeeps ==
    ASSUME JournalInv, [JournalNext]_journalVars PROVE JournalInv'
<1>f. RowsInv /\ RecordingFits
  BY DEF JournalInv
<1>1. CASE JournalNext
  <2>1. ASSUME NEW p \in Polls, MonitorStep(p) PROVE RowsInv'
    BY <1>f, <2>1, ReadHeldKeeps, ObserveKeeps, ReadCandidatesKeeps, ReadHistoryKeeps,
       FinalizeOneKeeps, PollEndsKeeps DEF MonitorStep
  <2>2. ASSUME ImportStep PROVE RowsInv'
    BY <1>f, <2>2, ImportReads, ImportLoadsKeeps, ImportCommitsKeeps, NormalizeKeeps,
       FinalizeImportKeeps DEF ImportStep
  <2>3. RowsInv'
    BY <1>1, <1>f, <2>1, <2>2, BrokerKeeps, RecorderKeeps DEF JournalNext
  <2>4. RecordingFits'
    BY <1>1, RecordingKeeps
  <2>. QED
    BY <2>3, <2>4 DEF JournalInv
<1>2. CASE UNCHANGED journalVars
  <2>1. UNCHANGED <<legs, atBroker, fills, expired, audited, journal, poll, import, losses, recording>>
    BY <1>2 DEF journalVars, brokerVars
  <2>2. import \in ImportRows
    BY <1>f, JournalFacts
  <2>3. ImportBehind'
    BY <1>f, <2>1, ImportStays
  <2>4. RowsInv'
    BY <1>f, <2>1, <2>2, <2>3, ImportMoves
  <2>5. RecordingFits'
    BY <1>f, <2>1 DEF RecordingFits, Filled
  <2>. QED
    BY <2>4, <2>5 DEF JournalInv
<1>. QED
  BY <1>1, <1>2

(* The journal is always as JournalInv says, whatever the number of        *)
(* orders, condors and monitor requests, and however often the broker's    *)
(* answers come back empty: what a row says of a fill, of a close and of   *)
(* an expiration is so at the broker, though the rows are read without a   *)
(* lock and committed later.                                               *)
THEOREM JournalInvHolds == JournalSpec => []JournalInv
<1>1. JournalInit => JournalInv
  BY JournalBegins
<1>2. JournalInv /\ [JournalNext]_journalVars => JournalInv'
  BY JournalKeeps
<1>. QED
  BY <1>1, <1>2, PTL DEF JournalSpec

(* Each variable of the journal holds what it is meant to.                 *)
THEOREM JournalTypeHolds == JournalSpec => []JournalTypeOK
<1>1. JournalInv => JournalTypeOK
  BY DEF JournalInv, RowsInv
<1>. QED
  BY <1>1, JournalInvHolds, PTL

(* A row says CLOSED of the trade its closing order closed, and EXPIRED of *)
(* a position that was held to its expiration.                             *)
THEOREM EndedRowsTrueHolds == JournalSpec => []EndedRowsTrue
<1>1. JournalInv => EndedRowsTrue
  <2>1. SUFFICES ASSUME JournalInv PROVE EndedRowsTrue
    OBVIOUS
  <2>2. \A e \in Entries : RowFits(e, journal[e])
    BY <2>1 DEF JournalInv, RowsInv
  <2>. QED
    BY <2>2 DEF EndedRowsTrue, ClosedByOwnClose, ExpiredRowWasHeld, RowFits
<1>. QED
  BY <1>1, JournalInvHolds, PTL

(* A closed row keeps its closing order and its result for good, and its   *)
(* status unless a record or an import commits that read the row before.   *)
THEOREM ClosedIsFinalHolds == JournalSpec => ClosedIsFinal
<1>1. JournalInv /\ [JournalNext]_journalVars =>
         [\A e \in Entries : journal[e].status = "CLOSED" =>
             /\ journal'[e].closing = journal[e].closing /\ journal'[e].result = journal[e].result
             /\ journal'[e].status = "CLOSED" \/ ReadBeforeClose(e)]_journalVars
  BY ClosedRowStays DEF Kept
<1>. QED
  BY <1>1, JournalInvHolds, PTL DEF JournalSpec, ClosedIsFinal
-----------------------------------------------------------------------------
(* The construction of an order.                                           *)

(* The nearest strike is a listed one.                                     *)
LEMMA NearestListed ==
    ASSUME NEW strikes, strikes \subseteq Int, IsFiniteSet(strikes), strikes # {},
           NEW target \in Int
    PROVE  Nearest(target, strikes) \in strikes
<1>. DEFINE far(s) == 2 * Distance(s, target) + (IF s > target THEN 1 ELSE 0)
            Back == {-far(s) : s \in strikes}
<1>1. \A s \in strikes : Distance(s, target) \in Int /\ far(s) \in Int
  BY DEF Distance
<1>. DEFINE Of == [s \in strikes |-> -far(s)]
<1>2. IsFiniteSet(Back)
  <2>1. Of \in Surjection(strikes, Back)
    <3>. HIDE DEF far
    <3>. QED
      BY DEF Surjection
  <2>. HIDE DEF Of, Back
  <2>. QED
    BY <2>1, FS_Surjection
<1>3. Back \subseteq Int /\ Back # {}
  <2>1. \A s \in strikes : -far(s) \in Int
    <3>1. ASSUME NEW s \in strikes PROVE -far(s) \in Int
      BY <1>1
    <3>. QED
      BY <3>1
  <2>. HIDE DEF far
  <2>2. \A d \in Back : d \in Int
    BY <2>1
  <2>3. \E s \in strikes : -far(s) \in Back
    OBVIOUS
  <2>. QED
    BY <2>2, <2>3
<1>4. Max(Back) \in Back /\ \A d \in Back : d <= Max(Back)
  <2>. HIDE DEF Back
  <2>. QED
    BY <1>2, <1>3, Greatest
<1>5. PICK s \in strikes : \A r \in strikes : far(s) <= far(r)
  <2>1. PICK s \in strikes : Max(Back) = -far(s)
    BY <1>4
  <2>2. ASSUME NEW r \in strikes PROVE far(s) <= far(r)
    <3>1. -far(r) <= -far(s)
      BY <1>4, <2>1
    <3>2. far(r) \in Int /\ far(s) \in Int
      BY <1>1
    <3>. HIDE DEF far
    <3>. QED
      BY <3>1, <3>2
  <2>. QED
    BY <2>2
<1>6. ASSUME NEW r \in strikes
      PROVE  \/ Distance(s, target) < Distance(r, target)
             \/ Distance(s, target) = Distance(r, target) /\ s <= r
  <2>1. far(s) <= far(r) /\ s \in Int /\ r \in Int
    BY <1>5
  <2>. QED
    BY <2>1 DEF Distance
<1>7. \E x \in strikes : \A r \in strikes :
         \/ Distance(x, target) < Distance(r, target)
         \/ Distance(x, target) = Distance(r, target) /\ x <= r
  BY <1>6
<1>. QED
  BY <1>7 DEF Nearest

(* The strategies there are.                                               *)
LEMMA StrategyNames ==
    Strategies = {"iron_condor", "bull_put", "bear_call", "reverse_iron_condor", "butterfly",
                  "debit_call", "debit_put"}
BY DEF Strategies, Pattern

(* What one contract of the order pays back at a settlement, in points.    *)
Payoff(o, s) ==
    LET pattern == Pattern[o.strategy]
    IN  Weighed(pattern, [i \in DOMAIN pattern |-> Intrinsic(pattern[i].kind, o.strikes[i], s)])

Put(k, s) == Intrinsic("PUT", k, s)
Call(k, s) == Intrinsic("CALL", k, s)

(* What a leg pays back is a number of points.                            *)
LEMMA IntrinsicInt ==
    ASSUME NEW k \in Int, NEW s \in Int
    PROVE  Put(k, s) \in Int /\ Call(k, s) \in Int
BY DEF Put, Call, Intrinsic

(* The sum over the legs, for each number of legs.                         *)
LEMMA WeighedTwo ==
    ASSUME NEW a, NEW b, NEW v, Sign(a) \in Int, Sign(b) \in Int, v[1] \in Int, v[2] \in Int
    PROVE  Weighed(<<a, b>>, v) = Sign(a) * v[1] + Sign(b) * v[2]
BY DEF Weighed

LEMMA WeighedThree ==
    ASSUME NEW a, NEW b, NEW c, NEW v, Sign(a) \in Int, Sign(b) \in Int, Sign(c) \in Int,
           v[1] \in Int, v[2] \in Int, v[3] \in Int
    PROVE  Weighed(<<a, b, c>>, v) = Sign(a) * v[1] + Sign(b) * v[2] + Sign(c) * v[3]
BY DEF Weighed

(* The weight of a leg.                                                    *)
LEMMA LegSigns ==
    ASSUME NEW kind
    PROVE  /\ Sign(Leg("BUY", kind, 1)) = 1 /\ Sign(Leg("SELL", kind, 1)) = -1
           /\ Sign(Leg("SELL", kind, 2)) = -2
           /\ \A a, r : Leg(a, kind, r).kind = kind
BY DEF Sign, Leg

(* The legs of each strategy, one by one.                                  *)
LEMMA PayoffOf ==
    ASSUME NEW o, o.strategy \in Strategies,
           o.strikes \in [1..Len(Pattern[o.strategy]) -> Int], NEW s \in Int
    PROVE  LET k == o.strikes
           IN  /\ o.strategy = "iron_condor" =>
                    Payoff(o, s) = Put(k[2], s) - Put(k[1], s) - Call(k[3], s) + Call(k[4], s)
               /\ o.strategy = "bull_put" => Payoff(o, s) = Put(k[2], s) - Put(k[1], s)
               /\ o.strategy = "bear_call" => Payoff(o, s) = Call(k[2], s) - Call(k[1], s)
               /\ o.strategy = "reverse_iron_condor" =>
                    Payoff(o, s) = Put(k[2], s) - Put(k[1], s) + Call(k[3], s) - Call(k[4], s)
               /\ o.strategy = "butterfly" =>
                    Payoff(o, s) = Call(k[1], s) - 2 * Call(k[2], s) + Call(k[3], s)
               /\ o.strategy = "debit_call" => Payoff(o, s) = Call(k[1], s) - Call(k[2], s)
               /\ o.strategy = "debit_put" => Payoff(o, s) = Put(k[1], s) - Put(k[2], s)
<1>. DEFINE k == o.strikes
            pattern == Pattern[o.strategy]
            v == [i \in DOMAIN pattern |-> Intrinsic(pattern[i].kind, o.strikes[i], s)]
<1>0. Payoff(o, s) = Weighed(pattern, v)
  BY DEF Payoff
<1>1. CASE o.strategy = "iron_condor"
  <2>1. pattern = <<Leg("SELL", "PUT", 1), Leg("BUY", "PUT", 1), Leg("SELL", "CALL", 1), Leg("BUY", "CALL", 1)>>
    BY <1>1 DEF Pattern
  <2>2. k[1] \in Int /\ k[2] \in Int /\ k[3] \in Int /\ k[4] \in Int
    BY <2>1
  <2>3. /\ v[1] = Put(k[1], s) /\ v[2] = Put(k[2], s)
        /\ v[3] = Call(k[3], s) /\ v[4] = Call(k[4], s)
    BY <2>1, LegSigns DEF Put, Call
  <2>4. v[1] \in Int /\ v[2] \in Int /\ v[3] \in Int /\ v[4] \in Int
    BY <2>2, <2>3, IntrinsicInt
  <2>. HIDE DEF v, pattern
  <2>5. Weighed(pattern, v) = -1 * v[1] + 1 * v[2] + -1 * v[3] + 1 * v[4]
    <3>1. /\ Sign(Leg("SELL", "PUT", 1)) = -1 /\ Sign(Leg("BUY", "PUT", 1)) = 1
          /\ Sign(Leg("SELL", "CALL", 1)) = -1 /\ Sign(Leg("BUY", "CALL", 1)) = 1
      BY LegSigns
    <3>. DEFINE a == Leg("SELL", "PUT", 1)
                b == Leg("BUY", "PUT", 1)
                c == Leg("SELL", "CALL", 1)
                d == Leg("BUY", "CALL", 1)
    <3>2. pattern = <<a, b, c, d>>
      BY <2>1
    <3>3. /\ Sign(a) = -1 /\ Sign(b) = 1 /\ Sign(c) = -1 /\ Sign(d) = 1
      BY <3>1
    <3>. HIDE DEF a, b, c, d
    <3>4. Sign(a) \in Int /\ Sign(b) \in Int /\ Sign(c) \in Int /\ Sign(d) \in Int
      BY <3>3
    <3>5. Weighed(<<a, b, c, d>>, v) = Sign(a) * v[1] + Sign(b) * v[2] + Sign(c) * v[3] + Sign(d) * v[4]
      BY <2>4, <3>4 DEF Weighed
    <3>. QED
      BY <2>4, <3>2, <3>3, <3>5
  <2>. QED
    BY <1>0, <1>1, <2>3, <2>4, <2>5
<1>2. CASE o.strategy = "bull_put"
  <2>1. pattern = <<Leg("SELL", "PUT", 1), Leg("BUY", "PUT", 1)>>
    BY <1>2 DEF Pattern
  <2>2. k[1] \in Int /\ k[2] \in Int
    BY <2>1
  <2>3. v[1] = Put(k[1], s) /\ v[2] = Put(k[2], s)
    BY <2>1, LegSigns DEF Put
  <2>4. v[1] \in Int /\ v[2] \in Int
    BY <2>2, <2>3, IntrinsicInt
  <2>. HIDE DEF v, pattern
  <2>5. Weighed(pattern, v) = -1 * v[1] + 1 * v[2]
    BY <2>1, <2>4, LegSigns, WeighedTwo
  <2>. QED
    BY <1>0, <1>2, <2>3, <2>4, <2>5
<1>3. CASE o.strategy = "bear_call"
  <2>1. pattern = <<Leg("SELL", "CALL", 1), Leg("BUY", "CALL", 1)>>
    BY <1>3 DEF Pattern
  <2>2. k[1] \in Int /\ k[2] \in Int
    BY <2>1
  <2>3. v[1] = Call(k[1], s) /\ v[2] = Call(k[2], s)
    BY <2>1, LegSigns DEF Call
  <2>4. v[1] \in Int /\ v[2] \in Int
    BY <2>2, <2>3, IntrinsicInt
  <2>. HIDE DEF v, pattern
  <2>5. Weighed(pattern, v) = -1 * v[1] + 1 * v[2]
    BY <2>1, <2>4, LegSigns, WeighedTwo
  <2>. QED
    BY <1>0, <1>3, <2>3, <2>4, <2>5
<1>4. CASE o.strategy = "reverse_iron_condor"
  <2>1. pattern = <<Leg("SELL", "PUT", 1), Leg("BUY", "PUT", 1), Leg("BUY", "CALL", 1), Leg("SELL", "CALL", 1)>>
    BY <1>4 DEF Pattern
  <2>2. k[1] \in Int /\ k[2] \in Int /\ k[3] \in Int /\ k[4] \in Int
    BY <2>1
  <2>3. /\ v[1] = Put(k[1], s) /\ v[2] = Put(k[2], s)
        /\ v[3] = Call(k[3], s) /\ v[4] = Call(k[4], s)
    BY <2>1, LegSigns DEF Put, Call
  <2>4. v[1] \in Int /\ v[2] \in Int /\ v[3] \in Int /\ v[4] \in Int
    BY <2>2, <2>3, IntrinsicInt
  <2>. HIDE DEF v, pattern
  <2>5. Weighed(pattern, v) = -1 * v[1] + 1 * v[2] + 1 * v[3] + -1 * v[4]
    <3>1. /\ Sign(Leg("SELL", "PUT", 1)) = -1 /\ Sign(Leg("BUY", "PUT", 1)) = 1
          /\ Sign(Leg("SELL", "CALL", 1)) = -1 /\ Sign(Leg("BUY", "CALL", 1)) = 1
      BY LegSigns
    <3>. DEFINE a == Leg("SELL", "PUT", 1)
                b == Leg("BUY", "PUT", 1)
                c == Leg("BUY", "CALL", 1)
                d == Leg("SELL", "CALL", 1)
    <3>2. pattern = <<a, b, c, d>>
      BY <2>1
    <3>3. /\ Sign(a) = -1 /\ Sign(b) = 1 /\ Sign(c) = 1 /\ Sign(d) = -1
      BY <3>1
    <3>. HIDE DEF a, b, c, d
    <3>4. Sign(a) \in Int /\ Sign(b) \in Int /\ Sign(c) \in Int /\ Sign(d) \in Int
      BY <3>3
    <3>5. Weighed(<<a, b, c, d>>, v) = Sign(a) * v[1] + Sign(b) * v[2] + Sign(c) * v[3] + Sign(d) * v[4]
      BY <2>4, <3>4 DEF Weighed
    <3>. QED
      BY <2>4, <3>2, <3>3, <3>5
  <2>. QED
    BY <1>0, <1>4, <2>3, <2>4, <2>5
<1>5. CASE o.strategy = "butterfly"
  <2>1. pattern = <<Leg("BUY", "CALL", 1), Leg("SELL", "CALL", 2), Leg("BUY", "CALL", 1)>>
    BY <1>5 DEF Pattern
  <2>2. k[1] \in Int /\ k[2] \in Int /\ k[3] \in Int
    BY <2>1
  <2>3. v[1] = Call(k[1], s) /\ v[2] = Call(k[2], s) /\ v[3] = Call(k[3], s)
    BY <2>1, LegSigns DEF Call
  <2>4. v[1] \in Int /\ v[2] \in Int /\ v[3] \in Int
    BY <2>2, <2>3, IntrinsicInt
  <2>. HIDE DEF v, pattern
  <2>5. Weighed(pattern, v) = 1 * v[1] + -2 * v[2] + 1 * v[3]
    BY <2>1, <2>4, LegSigns, WeighedThree
  <2>. QED
    BY <1>0, <1>5, <2>3, <2>4, <2>5
<1>6. CASE o.strategy = "debit_call"
  <2>1. pattern = <<Leg("BUY", "CALL", 1), Leg("SELL", "CALL", 1)>>
    BY <1>6 DEF Pattern
  <2>2. k[1] \in Int /\ k[2] \in Int
    BY <2>1
  <2>3. v[1] = Call(k[1], s) /\ v[2] = Call(k[2], s)
    BY <2>1, LegSigns DEF Call
  <2>4. v[1] \in Int /\ v[2] \in Int
    BY <2>2, <2>3, IntrinsicInt
  <2>. HIDE DEF v, pattern
  <2>5. Weighed(pattern, v) = 1 * v[1] + -1 * v[2]
    BY <2>1, <2>4, LegSigns, WeighedTwo
  <2>. QED
    BY <1>0, <1>6, <2>3, <2>4, <2>5
<1>7. CASE o.strategy = "debit_put"
  <2>1. pattern = <<Leg("BUY", "PUT", 1), Leg("SELL", "PUT", 1)>>
    BY <1>7 DEF Pattern
  <2>2. k[1] \in Int /\ k[2] \in Int
    BY <2>1
  <2>3. v[1] = Put(k[1], s) /\ v[2] = Put(k[2], s)
    BY <2>1, LegSigns DEF Put
  <2>4. v[1] \in Int /\ v[2] \in Int
    BY <2>2, <2>3, IntrinsicInt
  <2>. HIDE DEF v, pattern
  <2>5. Weighed(pattern, v) = 1 * v[1] + -1 * v[2]
    BY <2>1, <2>4, LegSigns, WeighedTwo
  <2>. QED
    BY <1>0, <1>7, <2>3, <2>4, <2>5
<1>8. o.strategy \in {"iron_condor", "bull_put", "bear_call", "reverse_iron_condor", "butterfly",
                      "debit_call", "debit_put"}
  BY StrategyNames
<1>. QED
  BY <1>1, <1>2, <1>3, <1>4, <1>5, <1>6, <1>7, <1>8

(* The number of legs of each strategy.                                    *)
LEMMA LengthOf ==
    /\ Len(Pattern["iron_condor"]) = 4 /\ Len(Pattern["reverse_iron_condor"]) = 4
    /\ Len(Pattern["butterfly"]) = 3
    /\ Len(Pattern["bull_put"]) = 2 /\ Len(Pattern["bear_call"]) = 2
    /\ Len(Pattern["debit_call"]) = 2 /\ Len(Pattern["debit_put"]) = 2
BY DEF Pattern

(* Two puts or two calls, from the lower strike a upwards.                 *)
LEMMA PutsPay ==
    ASSUME NEW a \in Nat, NEW b \in Nat, a < b, NEW s \in Nat
    PROVE  /\ Put(a, s) \in Int /\ Put(b, s) \in Int
           /\ a - b <= Put(a, s) - Put(b, s) /\ Put(a, s) - Put(b, s) <= 0
           /\ s = 0 => Put(a, s) - Put(b, s) = a - b
           /\ b <= s => Put(a, s) - Put(b, s) = 0
           /\ s = b => Put(a, s) - Put(b, s) = 0
BY DEF Put, Intrinsic

LEMMA CallsPay ==
    ASSUME NEW a \in Nat, NEW b \in Nat, a < b, NEW s \in Nat
    PROVE  /\ Call(a, s) \in Int /\ Call(b, s) \in Int
           /\ 0 <= Call(a, s) - Call(b, s) /\ Call(a, s) - Call(b, s) <= b - a
           /\ s <= a => Call(a, s) - Call(b, s) = 0
           /\ s = 0 => Call(a, s) - Call(b, s) = 0
           /\ s = b => Call(a, s) - Call(b, s) = b - a
BY DEF Call, Intrinsic

(* What an order of the right shape can pay back at least, and where.      *)
LEMMA WorstPayoff ==
    ASSUME NEW o, o.strategy \in Strategies,
           o.strikes \in [1..Len(Pattern[o.strategy]) -> Nat], NEW w \in Int,
           StrikesOrdered(o), WidthMatches(o, w),
           NEW m \in Nat, \A i \in 1..Len(Pattern[o.strategy]) : o.strikes[i] <= m
    PROVE  LET low == IF o.strategy \in Debits THEN 0 ELSE -w
           IN  /\ \A s \in 0..m : Payoff(o, s) \in Int /\ low <= Payoff(o, s)
               /\ \E s \in 0..m : Payoff(o, s) = low
<1>. DEFINE k == o.strikes
            low == IF o.strategy \in Debits THEN 0 ELSE -w
<1>k. o.strikes \in [1..Len(Pattern[o.strategy]) -> Int]
  OBVIOUS
<1>w. TradeWidth(k) = w
  BY DEF WidthMatches
<1>s. \A s \in 0..m : s \in Int
  OBVIOUS
<1>1. CASE o.strategy = "iron_condor"
  <2>1. k[1] \in Nat /\ k[2] \in Nat /\ k[3] \in Nat /\ k[4] \in Nat
    BY <1>1, LengthOf
  <2>3. k[2] < k[1] /\ k[1] < k[3] /\ k[3] < k[4] /\ k[4] - k[3] = w /\ k[1] - k[2] = w
    BY <1>1, <1>w, <2>1 DEF StrikesOrdered, WidthMatches, TradeWidth, Distance
  <2>4. ASSUME NEW s \in 0..m
        PROVE  /\ Payoff(o, s) \in Int /\ -w <= Payoff(o, s)
               /\ s = 0 => Payoff(o, s) = -w
    <3>1. Payoff(o, s) = Put(k[2], s) - Put(k[1], s) - Call(k[3], s) + Call(k[4], s)
      BY <1>1, <1>k, <1>s, PayoffOf
    <3>3. s \in Nat
      OBVIOUS
    <3>2. /\ Put(k[2], s) \in Int /\ Put(k[1], s) \in Int /\ Call(k[3], s) \in Int /\ Call(k[4], s) \in Int
          /\ Put(k[1], s) - Put(k[2], s) + Call(k[3], s) - Call(k[4], s) <= k[1] - k[2]
          /\ s = 0 => Put(k[1], s) - Put(k[2], s) + Call(k[3], s) - Call(k[4], s) = k[1] - k[2]
      <4>. HIDE DEF k
      <4>. QED
        <5>. DEFINE a == k[2]
                    b == k[1]
                    c == k[3]
                    d == k[4]
        <5>1. /\ a \in Nat /\ b \in Nat /\ c \in Nat /\ d \in Nat
              /\ a < b /\ b < c /\ c < d /\ b - a = d - c
          BY <2>1, <2>3
        <5>. HIDE DEF a, b, c, d
        <5>2. /\ Put(b, s) \in Int /\ Put(a, s) \in Int /\ Call(c, s) \in Int /\ Call(d, s) \in Int
              /\ 0 <= Put(b, s) - Put(a, s) + Call(c, s) - Call(d, s)
              /\ Put(b, s) - Put(a, s) + Call(c, s) - Call(d, s) <= b - a
              /\ s = 0 => Put(b, s) - Put(a, s) + Call(c, s) - Call(d, s) = b - a
              /\ s = b => Put(b, s) - Put(a, s) + Call(c, s) - Call(d, s) = 0
          <6>1. /\ Put(a, s) \in Int /\ Put(b, s) \in Int
                /\ a - b <= Put(a, s) - Put(b, s) /\ Put(a, s) - Put(b, s) <= 0
                /\ s = 0 => Put(a, s) - Put(b, s) = a - b
                /\ b <= s => Put(a, s) - Put(b, s) = 0
            BY <3>3, <5>1 DEF Put, Intrinsic
          <6>2. /\ Call(c, s) \in Int /\ Call(d, s) \in Int
                /\ 0 <= Call(c, s) - Call(d, s) /\ Call(c, s) - Call(d, s) <= d - c
                /\ s <= c => Call(c, s) - Call(d, s) = 0
            BY <3>3, <5>1 DEF Call, Intrinsic
          <6>3. s <= c \/ b <= s
            BY <3>3, <5>1
          <6>. DEFINE pa == Put(a, s)
                      pb == Put(b, s)
                      xc == Call(c, s)
                      xd == Call(d, s)
          <6>4. /\ pa \in Int /\ pb \in Int /\ xc \in Int /\ xd \in Int
                /\ a - b <= pa - pb /\ pa - pb <= 0 /\ 0 <= xc - xd /\ xc - xd <= d - c
                /\ (s = 0 => pa - pb = a - b /\ xc - xd = 0)
                /\ (b <= s => pa - pb = 0) /\ (s <= c => xc - xd = 0)
            BY <3>3, <5>1, <6>1, <6>2
          <6>. HIDE DEF pa, pb, xc, xd
          <6>5. /\ 0 <= pb - pa + xc - xd /\ pb - pa + xc - xd <= b - a
                /\ s = 0 => pb - pa + xc - xd = b - a
                /\ s = b => pb - pa + xc - xd = 0
            <7>1. CASE s <= c
              BY <3>3, <5>1, <6>4, <7>1
            <7>2. CASE b <= s
              BY <3>3, <5>1, <6>4, <7>2
            <7>. QED
              BY <6>3, <7>1, <7>2
          <6>. QED
            BY <6>4, <6>5 DEF pa, pb, xc, xd
        <5>. QED
          BY <5>2 DEF a, b, c, d
    <3>. DEFINE back == Put(k[1], s) - Put(k[2], s) + Call(k[3], s) - Call(k[4], s)
    <3>4. back \in Int /\ back <= w /\ (s = 0 => back = w) /\ Payoff(o, s) = -back
      <4>. HIDE DEF k
      <4>1. back \in Int /\ Payoff(o, s) = -back
        BY <3>1, <3>2
      <4>2. k[1] - k[2] = w
        BY <2>3
      <4>3. back <= w /\ (s = 0 => back = w)
        BY <3>2, <4>2
      <4>. QED
        BY <4>1, <4>3
    <3>. HIDE DEF back
    <3>. QED
      BY <3>4
  <2>5. 0 \in 0..m
    BY <1>1, <2>1, LengthOf
  <2>. HIDE DEF k
  <2>. QED
    BY <1>1, <2>4, <2>5 DEF Debits
<1>2. CASE o.strategy = "bull_put"
  <2>1. k[1] \in Nat /\ k[2] \in Nat
    BY <1>2, LengthOf
  <2>3. k[2] < k[1] /\ k[1] - k[2] = w
    BY <1>2, <1>w, <2>1 DEF StrikesOrdered, TradeWidth, Distance
  <2>4. ASSUME NEW s \in 0..m
        PROVE  /\ Payoff(o, s) \in Int /\ -w <= Payoff(o, s)
               /\ s = 0 => Payoff(o, s) = -w
    <3>1. Payoff(o, s) = Put(k[2], s) - Put(k[1], s)
      BY <1>2, <1>k, <1>s, PayoffOf
    <3>3. s \in Nat
      OBVIOUS
    <3>2. /\ Put(k[2], s) \in Int /\ Put(k[1], s) \in Int
          /\ k[2] - k[1] <= Put(k[2], s) - Put(k[1], s)
          /\ s = 0 => Put(k[2], s) - Put(k[1], s) = k[2] - k[1]
      <4>. HIDE DEF k
      <4>. QED
        BY <2>1, <2>3, <3>3, PutsPay
    <3>. HIDE DEF k
    <3>. QED
      BY <2>1, <2>3, <3>1, <3>2, <3>3
  <2>5. 0 \in 0..m
    BY <1>2, <2>1, LengthOf
  <2>. HIDE DEF k
  <2>. QED
    BY <1>2, <2>4, <2>5 DEF Debits
<1>3. CASE o.strategy = "bear_call"
  <2>1. k[1] \in Nat /\ k[2] \in Nat
    BY <1>3, LengthOf
  <2>3. k[1] < k[2] /\ k[2] - k[1] = w
    BY <1>3, <1>w, <2>1 DEF StrikesOrdered, TradeWidth, Distance
  <2>4. ASSUME NEW s \in 0..m
        PROVE  /\ Payoff(o, s) \in Int /\ -w <= Payoff(o, s)
               /\ s = k[2] => Payoff(o, s) = -w
    <3>1. Payoff(o, s) = Call(k[2], s) - Call(k[1], s)
      BY <1>3, <1>k, <1>s, PayoffOf
    <3>3. s \in Nat
      OBVIOUS
    <3>2. /\ Call(k[2], s) \in Int /\ Call(k[1], s) \in Int
          /\ Call(k[1], s) - Call(k[2], s) <= k[2] - k[1]
          /\ s = k[2] => Call(k[1], s) - Call(k[2], s) = k[2] - k[1]
      <4>. HIDE DEF k
      <4>. QED
        BY <2>1, <2>3, <3>3, CallsPay
    <3>. HIDE DEF k
    <3>. QED
      BY <2>1, <2>3, <3>1, <3>2, <3>3
  <2>5. k[2] \in 0..m
    BY <1>3, <2>1, LengthOf
  <2>. HIDE DEF k
  <2>. QED
    BY <1>3, <2>4, <2>5 DEF Debits
<1>4. CASE o.strategy = "reverse_iron_condor"
  <2>1. k[1] \in Nat /\ k[2] \in Nat /\ k[3] \in Nat /\ k[4] \in Nat
    BY <1>4, LengthOf
  <2>2. Len(k) = 4 /\ Ascending(k) /\ k[2] - k[1] = k[Len(k)] - k[Len(k) - 1]
    BY <1>4, LengthOf DEF StrikesOrdered, WellShaped
  <2>3. k[1] < k[2] /\ k[2] < k[3] /\ k[3] < k[4] /\ k[2] - k[1] = k[4] - k[3]
    BY <2>1, <2>2 DEF Ascending
  <2>4. ASSUME NEW s \in 0..m
        PROVE  /\ Payoff(o, s) \in Int /\ 0 <= Payoff(o, s)
               /\ s = k[2] => Payoff(o, s) = 0
    <3>1. Payoff(o, s) = Put(k[2], s) - Put(k[1], s) + Call(k[3], s) - Call(k[4], s)
      BY <1>4, <1>k, <1>s, PayoffOf
    <3>3. s \in Nat
      OBVIOUS
    <3>2. /\ Put(k[2], s) \in Int /\ Put(k[1], s) \in Int /\ Call(k[3], s) \in Int /\ Call(k[4], s) \in Int
          /\ 0 <= Put(k[2], s) - Put(k[1], s) + Call(k[3], s) - Call(k[4], s)
          /\ s = k[2] => Put(k[2], s) - Put(k[1], s) + Call(k[3], s) - Call(k[4], s) = 0
      <4>. HIDE DEF k
      <4>. QED
        <5>. DEFINE a == k[1]
                    b == k[2]
                    c == k[3]
                    d == k[4]
        <5>1. /\ a \in Nat /\ b \in Nat /\ c \in Nat /\ d \in Nat
              /\ a < b /\ b < c /\ c < d /\ b - a = d - c
          BY <2>1, <2>3
        <5>. HIDE DEF a, b, c, d
        <5>2. /\ Put(b, s) \in Int /\ Put(a, s) \in Int /\ Call(c, s) \in Int /\ Call(d, s) \in Int
              /\ 0 <= Put(b, s) - Put(a, s) + Call(c, s) - Call(d, s)
              /\ Put(b, s) - Put(a, s) + Call(c, s) - Call(d, s) <= b - a
              /\ s = 0 => Put(b, s) - Put(a, s) + Call(c, s) - Call(d, s) = b - a
              /\ s = b => Put(b, s) - Put(a, s) + Call(c, s) - Call(d, s) = 0
          <6>1. /\ Put(a, s) \in Int /\ Put(b, s) \in Int
                /\ a - b <= Put(a, s) - Put(b, s) /\ Put(a, s) - Put(b, s) <= 0
                /\ s = 0 => Put(a, s) - Put(b, s) = a - b
                /\ b <= s => Put(a, s) - Put(b, s) = 0
            BY <3>3, <5>1 DEF Put, Intrinsic
          <6>2. /\ Call(c, s) \in Int /\ Call(d, s) \in Int
                /\ 0 <= Call(c, s) - Call(d, s) /\ Call(c, s) - Call(d, s) <= d - c
                /\ s <= c => Call(c, s) - Call(d, s) = 0
            BY <3>3, <5>1 DEF Call, Intrinsic
          <6>3. s <= c \/ b <= s
            BY <3>3, <5>1
          <6>. DEFINE pa == Put(a, s)
                      pb == Put(b, s)
                      xc == Call(c, s)
                      xd == Call(d, s)
          <6>4. /\ pa \in Int /\ pb \in Int /\ xc \in Int /\ xd \in Int
                /\ a - b <= pa - pb /\ pa - pb <= 0 /\ 0 <= xc - xd /\ xc - xd <= d - c
                /\ (s = 0 => pa - pb = a - b /\ xc - xd = 0)
                /\ (b <= s => pa - pb = 0) /\ (s <= c => xc - xd = 0)
            BY <3>3, <5>1, <6>1, <6>2
          <6>. HIDE DEF pa, pb, xc, xd
          <6>5. /\ 0 <= pb - pa + xc - xd /\ pb - pa + xc - xd <= b - a
                /\ s = 0 => pb - pa + xc - xd = b - a
                /\ s = b => pb - pa + xc - xd = 0
            <7>1. CASE s <= c
              BY <3>3, <5>1, <6>4, <7>1
            <7>2. CASE b <= s
              BY <3>3, <5>1, <6>4, <7>2
            <7>. QED
              BY <6>3, <7>1, <7>2
          <6>. QED
            BY <6>4, <6>5 DEF pa, pb, xc, xd
        <5>. QED
          BY <5>2 DEF a, b, c, d
    <3>. HIDE DEF k
    <3>. QED
      BY <2>1, <2>3, <3>1, <3>2, <3>3
  <2>5. k[2] \in 0..m
    BY <1>4, <2>1, LengthOf
  <2>. HIDE DEF k
  <2>. QED
    BY <1>4, <2>4, <2>5 DEF Debits
<1>5. CASE o.strategy = "butterfly"
  <2>1. k[1] \in Nat /\ k[2] \in Nat /\ k[3] \in Nat
    BY <1>5, LengthOf
  <2>2. Len(k) = 3 /\ Ascending(k) /\ k[2] - k[1] = k[Len(k)] - k[Len(k) - 1]
    BY <1>5, LengthOf DEF StrikesOrdered, WellShaped
  <2>3. k[1] < k[2] /\ k[2] < k[3] /\ k[2] - k[1] = k[3] - k[2]
    BY <2>1, <2>2 DEF Ascending
  <2>4. ASSUME NEW s \in 0..m
        PROVE  /\ Payoff(o, s) \in Int /\ 0 <= Payoff(o, s)
               /\ s = 0 => Payoff(o, s) = 0
    <3>1. Payoff(o, s) = Call(k[1], s) - 2 * Call(k[2], s) + Call(k[3], s)
      BY <1>5, <1>k, <1>s, PayoffOf
    <3>3. s \in Nat
      OBVIOUS
    <3>2. /\ Call(k[1], s) - 2 * Call(k[2], s) + Call(k[3], s) \in Int
          /\ 0 <= Call(k[1], s) - 2 * Call(k[2], s) + Call(k[3], s)
          /\ s = 0 => Call(k[1], s) - 2 * Call(k[2], s) + Call(k[3], s) = 0
      <4>. HIDE DEF k
      <4>. DEFINE a == k[1]
                  b == k[2]
                  c == k[3]
      <4>1. /\ a \in Nat /\ b \in Nat /\ c \in Nat
            /\ a < b /\ b < c /\ b - a = c - b
        BY <2>1, <2>3
      <4>. HIDE DEF a, b, c
      <4>2. /\ Call(a, s) - 2 * Call(b, s) + Call(c, s) \in Int
            /\ 0 <= Call(a, s) - 2 * Call(b, s) + Call(c, s)
            /\ s = 0 => Call(a, s) - 2 * Call(b, s) + Call(c, s) = 0
        BY <3>3, <4>1 DEF Call, Intrinsic
      <4>. QED
        BY <4>2 DEF a, b, c
    <3>. HIDE DEF k
    <3>. QED
      BY <2>1, <2>3, <3>1, <3>2, <3>3
  <2>5. 0 \in 0..m
    BY <1>5, <2>1, LengthOf
  <2>. HIDE DEF k
  <2>. QED
    BY <1>5, <2>4, <2>5 DEF Debits
<1>6. CASE o.strategy = "debit_call"
  <2>1. k[1] \in Nat /\ k[2] \in Nat
    BY <1>6, LengthOf
  <2>2. Len(k) = 2 /\ Ascending(k)
    BY <1>6, LengthOf DEF StrikesOrdered, WellShaped
  <2>3. k[1] < k[2]
    BY <2>1, <2>2 DEF Ascending
  <2>4. ASSUME NEW s \in 0..m
        PROVE  /\ Payoff(o, s) \in Int /\ 0 <= Payoff(o, s)
               /\ s = 0 => Payoff(o, s) = 0
    <3>1. Payoff(o, s) = Call(k[1], s) - Call(k[2], s)
      BY <1>6, <1>k, <1>s, PayoffOf
    <3>3. s \in Nat
      OBVIOUS
    <3>2. /\ Call(k[1], s) \in Int /\ Call(k[2], s) \in Int
          /\ 0 <= Call(k[1], s) - Call(k[2], s)
          /\ s = 0 => Call(k[1], s) - Call(k[2], s) = 0
      <4>. HIDE DEF k
      <4>. QED
        BY <2>1, <2>3, <3>3, CallsPay
    <3>. HIDE DEF k
    <3>. QED
      BY <2>1, <2>3, <3>1, <3>2, <3>3
  <2>5. 0 \in 0..m
    BY <1>6, <2>1, LengthOf
  <2>. HIDE DEF k
  <2>. QED
    BY <1>6, <2>4, <2>5 DEF Debits
<1>7. CASE o.strategy = "debit_put"
  <2>1. k[1] \in Nat /\ k[2] \in Nat
    BY <1>7, LengthOf
  <2>3. k[2] < k[1]
    BY <1>7 DEF StrikesOrdered, WellShaped
  <2>4. ASSUME NEW s \in 0..m
        PROVE  /\ Payoff(o, s) \in Int /\ 0 <= Payoff(o, s)
               /\ s = k[1] => Payoff(o, s) = 0
    <3>1. Payoff(o, s) = Put(k[1], s) - Put(k[2], s)
      BY <1>7, <1>k, <1>s, PayoffOf
    <3>3. s \in Nat
      OBVIOUS
    <3>2. /\ Put(k[1], s) \in Int /\ Put(k[2], s) \in Int
          /\ Put(k[2], s) - Put(k[1], s) <= 0
          /\ s = k[1] => Put(k[2], s) - Put(k[1], s) = 0
      <4>. HIDE DEF k
      <4>. QED
        BY <2>1, <2>3, <3>3, PutsPay
    <3>. HIDE DEF k
    <3>. QED
      BY <2>1, <2>3, <3>1, <3>2, <3>3
  <2>5. k[1] \in 0..m
    BY <1>7, <2>1, LengthOf
  <2>. HIDE DEF k
  <2>. QED
    BY <1>7, <2>4, <2>5 DEF Debits
<1>8. o.strategy \in {"iron_condor", "bull_put", "bear_call", "reverse_iron_condor", "butterfly",
                      "debit_call", "debit_put"}
  BY StrategyNames
<1>. QED
  BY <1>1, <1>2, <1>3, <1>4, <1>5, <1>6, <1>7, <1>8

(* A price in points, in ticks.                                            *)
LEMMA TimesMonotone ==
    ASSUME NEW a \in Int, NEW b \in Int, NEW t \in Nat, a <= b
    PROVE  a * t \in Int /\ b * t \in Int /\ a * t <= b * t
OBVIOUS

(* The most an order of the right shape can lose.                          *)
LEMMA WorstLossIs ==
    ASSUME NEW o, o.strategy \in Strategies,
           o.strikes \in [1..Len(Pattern[o.strategy]) -> UNION Chains], NEW w \in Widths, 0 < w,
           StrikesOrdered(o), WidthMatches(o, w), o.limit \in Int
    PROVE  WorstLoss(o) = (IF o.strategy \in Debits THEN o.limit ELSE w * TicksPerPoint - o.limit)
                             * o.quantity
<1>. DEFINE m == Max(UNION Chains) + Max(Widths)
            low == IF o.strategy \in Debits THEN 0 ELSE -w
            Losses == {-(PaidIn(o) + SettlesAt(o, s)) : s \in Settlements}
            worst == IF o.strategy \in Debits THEN o.limit ELSE w * TicksPerPoint - o.limit
<1>0. o.strikes \in [1..Len(Pattern[o.strategy]) -> Nat] /\ w \in Int
  BY ConstructionAssumption
<1>1. m \in Nat /\ \A i \in 1..Len(Pattern[o.strategy]) : o.strikes[i] <= m
  <2>1. Max(Widths) \in Int /\ w <= Max(Widths)
    <3>1. Widths \subseteq Int /\ IsFiniteSet(Widths) /\ Widths # {}
      BY ConstructionAssumption
    <3>2. Max(Widths) \in Widths /\ \A d \in Widths : d <= Max(Widths)
      BY <3>1, Greatest, Zenon
    <3>. QED
      BY <3>1, <3>2
  <2>2. ASSUME NEW k \in UNION Chains PROVE k <= Max(UNION Chains) /\ Max(UNION Chains) \in Nat
    <3>. DEFINE U == UNION Chains
    <3>1. U \subseteq Nat /\ IsFiniteSet(U) /\ k \in U
      BY ConstructionAssumption
    <3>. HIDE DEF U
    <3>2. U \subseteq Int /\ U # {}
      BY <3>1
    <3>3. Max(U) \in U /\ \A d \in U : d <= Max(U)
      BY <3>1, <3>2, Greatest, Zenon
    <3>4. k <= Max(U) /\ Max(U) \in Nat
      BY <3>1, <3>3
    <3>. QED
      BY <3>4 DEF U
  <2>3. 1 \in 1..Len(Pattern[o.strategy])
    <3>1. o.strategy \in {"iron_condor", "bull_put", "bear_call", "reverse_iron_condor", "butterfly",
                          "debit_call", "debit_put"}
      BY StrategyNames
    <3>2. Len(Pattern[o.strategy]) \in {2, 3, 4}
      BY <3>1, LengthOf
    <3>. DEFINE n == Len(Pattern[o.strategy])
    <3>3. n \in {2, 3, 4}
      BY <3>2
    <3>. HIDE DEF n, m
    <3>4. 1 \in 1..n
      BY <3>3
    <3>. QED
      BY <3>4 DEF n
  <2>4. Max(UNION Chains) \in Nat
    BY <2>2, <2>3
  <2>5. ASSUME NEW i \in 1..Len(Pattern[o.strategy]) PROVE o.strikes[i] <= m
    <3>1. o.strikes[i] \in Nat /\ o.strikes[i] <= Max(UNION Chains)
      BY <1>0, <2>2
    <3>. QED
      BY <1>0, <2>1, <2>4, <3>1
  <2>6. m \in Nat
    BY <1>0, <2>1, <2>4
  <2>. HIDE DEF m
  <2>. QED
    BY <2>5, <2>6
<1>2. Settlements = 0..m
  BY DEF Settlements
<1>. HIDE DEF m
<1>3. /\ \A s \in 0..m : Payoff(o, s) \in Int /\ low <= Payoff(o, s)
      /\ \E s \in 0..m : Payoff(o, s) = low
  BY <1>0, <1>1, WorstPayoff
<1>4. \A s : SettlesAt(o, s) = Payoff(o, s) * TicksPerPoint
  BY DEF SettlesAt, Payoff
<1>5. TicksPerPoint \in Nat /\ low \in Int
  BY <1>0, ConstructionAssumption
<1>6. low * TicksPerPoint \in Int /\ worst = -(PaidIn(o) + low * TicksPerPoint)
  <2>1. CASE o.strategy \in Debits
    BY <1>5, <2>1 DEF PaidIn
  <2>2. CASE o.strategy \notin Debits
    <3>1. (-w) * TicksPerPoint = -(w * TicksPerPoint) /\ w * TicksPerPoint \in Int
      BY <1>0, <1>5
    <3>. QED
      BY <2>2, <3>1 DEF PaidIn
  <2>. QED
    BY <2>1, <2>2
<1>7. PaidIn(o) \in Int /\ worst \in Int
  BY <1>6 DEF PaidIn
<1>. HIDE DEF low, worst
<1>8. ASSUME NEW s \in 0..m PROVE -(PaidIn(o) + SettlesAt(o, s)) <= worst
  <2>1. low * TicksPerPoint <= Payoff(o, s) * TicksPerPoint /\ Payoff(o, s) * TicksPerPoint \in Int
    BY <1>3, <1>5, TimesMonotone
  <2>2. SettlesAt(o, s) = Payoff(o, s) * TicksPerPoint
    BY <1>4
  <2>. QED
    BY <1>6, <1>7, <2>1, <2>2
<1>9. PICK s \in 0..m : Payoff(o, s) = low
  BY <1>3
<1>10. -(PaidIn(o) + SettlesAt(o, s)) = worst
  BY <1>4, <1>6, <1>9
<1>11. worst \in Losses /\ \A l \in Losses : worst >= l
  BY <1>10, <1>2, <1>7, <1>8
<1>12. \A l \in Losses : l \in Int
  <2>1. ASSUME NEW x \in 0..m PROVE -(PaidIn(o) + SettlesAt(o, x)) \in Int
    <3>1. Payoff(o, x) * TicksPerPoint \in Int
      BY <1>3, <1>5
    <3>. QED
      BY <1>4, <1>7, <3>1
  <2>. QED
    BY <1>2, <2>1
<1>. HIDE DEF Losses
<1>13. Max(Losses) = worst
  <2>1. Max(Losses) \in Losses /\ \A l \in Losses : Max(Losses) >= l
    BY <1>11 DEF Max
  <2>. QED
    BY <1>7, <1>11, <1>12, <2>1
<1>. QED
  BY <1>13 DEF WorstLoss, Losses, worst

(* The strikes of two legs, and of four.                                   *)
LEMMA Tuples ==
    ASSUME NEW S, NEW a \in S, NEW b \in S
    PROVE  /\ <<a, b>> \in [1..2 -> S] /\ <<a, b>>[1] = a /\ <<a, b>>[2] = b
           /\ \A c, d \in S : <<a, b, c, d>> \in [1..4 -> S]
OBVIOUS

(* The strikes of a candidate are listed ones.                             *)
LEMMA CandidatesListed ==
    ASSUME NEW chain \in Chains, chain # {}, NEW w \in Widths, NEW s \in Strategies,
           NEW strikes \in Candidates(s, w, chain)
    PROVE  strikes \in [1..Len(Pattern[s]) -> UNION Chains]
<1>1. /\ chain \subseteq UNION Chains /\ chain \subseteq Int /\ IsFiniteSet(chain)
      /\ w \in Int /\ Spot \in Int /\ Move \in Int
  <2>1. chain \subseteq UNION Chains
    OBVIOUS
  <2>. QED
    BY <2>1, ConstructionAssumption, FS_Subset
<1>2. \A t \in Int : Nearest(t, chain) \in chain
  BY <1>1, NearestListed
<1>3. CASE s = "iron_condor"
  <2>1. PICK o \in Offsets : strikes = Condor(o, w, chain)
    BY <1>3 DEF Candidates
  <2>. DEFINE sp == Nearest(Spot - Move + o, chain)
              sc == Nearest(Spot + Move - o, chain)
              lp == Nearest(sp - w, chain)
              lc == Nearest(sc + w, chain)
  <2>2. strikes = <<sp, lp, sc, lc>>
    BY <2>1 DEF Condor
  <2>3. Spot - Move + o \in Int /\ Spot + Move - o \in Int
    BY <1>1, ConstructionAssumption
  <2>4. sp \in chain /\ sc \in chain
    BY <1>2, <2>3
  <2>5. sp - w \in Int /\ sc + w \in Int
    <3>1. sp \in Int /\ sc \in Int /\ w \in Int
      BY <1>1, <2>4
    <3>. HIDE DEF sp, sc
    <3>. QED
      BY <3>1
  <2>6. lp \in chain /\ lc \in chain
    BY <1>2, <2>5
  <2>. HIDE DEF sp, sc, lp, lc
  <2>7. strikes \in [1..4 -> UNION Chains]
    BY <1>1, <2>2, <2>4, <2>6, Tuples
  <2>. QED
    BY <1>3, <2>7, LengthOf
<1>4. CASE s = "bull_put"
  <2>1. strikes \in BullPuts(w, chain)
    BY <1>4 DEF Candidates
  <2>2. PICK k \in chain : strikes = <<k, Nearest(k - w, chain)>>
    BY <2>1 DEF BullPuts
  <2>3. k - w \in Int
    BY <1>1
  <2>4. Nearest(k - w, chain) \in chain
    BY <1>2, <2>3
  <2>5. strikes \in [1..2 -> UNION Chains]
    BY <1>1, <2>2, <2>4, Tuples
  <2>. QED
    BY <1>4, <2>5, LengthOf
<1>5. CASE s = "bear_call"
  <2>1. strikes \in BearCalls(w, chain)
    BY <1>5 DEF Candidates
  <2>2. PICK k \in chain : strikes = <<k, Nearest(k + w, chain)>>
    BY <2>1 DEF BearCalls
  <2>3. k + w \in Int
    BY <1>1
  <2>4. Nearest(k + w, chain) \in chain
    BY <1>2, <2>3
  <2>5. strikes \in [1..2 -> UNION Chains]
    BY <1>1, <2>2, <2>4, Tuples
  <2>. QED
    BY <1>5, <2>5, LengthOf
<1>6. CASE s \in Debits
  <2>1. strikes \in DebitSelections(s, w, chain)
    BY <1>6 DEF Candidates, Debits
  <2>2. strikes \in [1..Len(Pattern[s]) -> chain]
    BY <2>1 DEF DebitSelections
  <2>. QED
    BY <1>1, <2>2
<1>. QED
  BY <1>3, <1>4, <1>5, <1>6, StrategyNames DEF Debits

(* The limit is rounded down.                                              *)
LEMMA FloorBelow ==
    ASSUME NEW c \in Nat
    PROVE  Floor(c) \in Nat /\ Floor(c) <= c
<1>1. Increment \in Nat /\ 0 < Increment
  BY ConstructionAssumption
<1>. DEFINE q == c \div Increment
<1>2. q \in Nat /\ Increment * q <= c
  BY <1>1
<1>3. q * Increment = Increment * q /\ q * Increment \in Nat
  BY <1>1, <1>2
<1>. QED
  BY <1>2, <1>3 DEF Floor

(* What a credit trade risks, once its limit is rounded.                   *)
LEMMA CreditRisk ==
    ASSUME NEW g \in Int, NEW c \in Nat, NEW f \in Nat, f <= c, NEW q \in Nat
    PROVE  /\ (g - c) * q + (c - f) * q = q * (g - f)
           /\ c <= g => q * (g - f) \in Nat
<1>1. (g - c) * q + (c - f) * q = q * (g - f)
  OBVIOUS
<1>2. c <= g => q * (g - f) \in Nat
  <2>1. ASSUME c <= g PROVE q * (g - f) \in Nat
    <3>1. PICK d \in Nat : d = g - f
      BY <2>1
    <3>. QED
      BY <3>1
  <2>. QED
    BY <2>1
<1>. QED
  BY <1>1, <1>2

(* The price a candidate has to have.                                      *)
LEMMA MidsPrice ==
    ASSUME NEW s \in Strategies, NEW mids \in [1..Len(Pattern[s]) -> Mids]
    PROVE  s \notin Debits => LiveCredit(s, mids) \in Nat
<1>1. \A i \in 1..Len(Pattern[s]) : mids[i] \in Int
  <2>1. ASSUME NEW i \in 1..Len(Pattern[s]) PROVE mids[i] \in Int
    <3>1. mids[i] \in Mids
      OBVIOUS
    <3>2. Mids \subseteq Nat
      BY ConstructionAssumption
    <3>3. mids[i] \in Nat
      BY <3>1, <3>2
    <3>. QED
      BY <3>3
  <2>. QED
    BY <2>1
<1>2. \A x \in Int : Positive(x) \in Nat
  BY DEF Positive
<1>3. CASE s = "iron_condor"
  <2>1. mids[1] \in Int /\ mids[2] \in Int /\ mids[3] \in Int /\ mids[4] \in Int
    BY <1>1, <1>3, LengthOf
  <2>2. (mids[1] - mids[2]) + (mids[3] - mids[4]) \in Int
    BY <2>1
  <2>3. LiveCredit(s, mids) = Positive((mids[1] - mids[2]) + (mids[3] - mids[4]))
    BY <1>3 DEF LiveCredit, CondorCredit
  <2>. QED
    BY <1>2, <2>2, <2>3
<1>4. CASE s = "bull_put" \/ s = "bear_call"
  <2>0. Len(Pattern[s]) = 2
    BY <1>4, LengthOf
  <2>1. mids[1] \in Int /\ mids[2] \in Int
    BY <1>1, <2>0
  <2>2. mids[1] - mids[2] \in Int
    BY <2>1
  <2>3. LiveCredit(s, mids) = Positive(mids[1] - mids[2])
    BY <1>4 DEF LiveCredit, BullPutCredit, BearCallCredit
  <2>. QED
    BY <1>2, <2>2, <2>3
<1>. QED
  BY <1>3, <1>4, StrategyNames DEF Debits

(* A credit below the width of the wing it is compared with is below the   *)
(* distance of its strikes.                                                *)
LEMMA CreditBelowWidth ==
    ASSUME NEW s \in Strategies, s \notin Debits, NEW mids \in [1..Len(Pattern[s]) -> Mids],
           NEW strikes \in [1..Len(Pattern[s]) -> Nat], CreditQualifies(s, strikes, mids)
    PROVE  LiveCredit(s, mids) <= TradeWidth(strikes) * TicksPerPoint
<1>1. LiveCredit(s, mids) \in Nat
  BY MidsPrice
<1>. DEFINE c == LiveCredit(s, mids)
            a == strikes[1]
            b == strikes[2]
<1>2. a \in Nat /\ b \in Nat
  <2>1. Len(Pattern[s]) \in {2, 3, 4}
    BY LengthOf, StrategyNames
  <2>2. 1 \in 1..Len(Pattern[s]) /\ 2 \in 1..Len(Pattern[s])
    BY <2>1
  <2>. QED
    BY <2>2
<1>3. \/ c < (a - b) * TicksPerPoint
      \/ c < (b - a) * TicksPerPoint
  <2>1. CASE s = "iron_condor"
    BY <2>1 DEF CreditQualifies, CondorQualifies, WorthItsRisk, LiveCredit
  <2>2. CASE s = "bull_put"
    BY <2>2 DEF CreditQualifies, BullPutQualifies, WorthItsRisk, LiveCredit
  <2>3. CASE s = "bear_call"
    BY <2>3 DEF CreditQualifies, BearCallQualifies, WorthItsRisk, LiveCredit
  <2>. QED
    BY <2>1, <2>2, <2>3, StrategyNames DEF Debits
<1>4. TicksPerPoint \in Nat
  BY ConstructionAssumption
<1>5. TradeWidth(strikes) = IF a > b THEN a - b ELSE b - a
  BY DEF TradeWidth, Distance
<1>. HIDE DEF c, a, b
<1>6. a - b <= TradeWidth(strikes) /\ b - a <= TradeWidth(strikes) /\ TradeWidth(strikes) \in Int
  BY <1>2, <1>5
<1>7. /\ (a - b) * TicksPerPoint <= TradeWidth(strikes) * TicksPerPoint
      /\ (b - a) * TicksPerPoint <= TradeWidth(strikes) * TicksPerPoint
      /\ (a - b) * TicksPerPoint \in Int /\ (b - a) * TicksPerPoint \in Int
      /\ TradeWidth(strikes) * TicksPerPoint \in Int
  <2>1. a - b \in Int /\ b - a \in Int
    BY <1>2
  <2>. QED
    BY <1>4, <1>6, <2>1, TimesMonotone
<1>8. c \in Int
  BY <1>1 DEF c
<1>9. c <= TradeWidth(strikes) * TicksPerPoint
  BY <1>3, <1>7, <1>8
<1>. QED
  BY <1>9 DEF c

Stages == {"idle", "asked", "previewed", "validated", "accepted", "blocked"}

(* Where the checks of an order are left to say.                           *)
LEMMA CheckedKept ==
    ASSUME CheckedInv, UNCHANGED <<order, preflight>>, ticket'.width = ticket.width,
           ticket'.stage \in {"validated", "accepted"} => ticket.stage \in {"validated", "accepted"},
           ticket'.stage = "accepted" => ticket.stage = "accepted"
    PROVE  CheckedInv'
BY DEF CheckedInv, StrikesOrdered, WidthMatches, RiskValid, DryRunPasses, EchoesOrder, BuyingPowerAddsUp,
       ImpactIsRisk

(* Nothing is asked for at first.                                          *)
LEMMA ConstructionStarts == ConstructionInit => ConstructionInv
<1>. SUFFICES ASSUME ConstructionInit PROVE ConstructionInv
  OBVIOUS
<1>1. ticket \in [strategy : Strategies \cup {"none"}, width : Widths \cup {0},
                  contracts : Contracts \cup {0},
                  stage : {"idle", "asked", "previewed", "validated", "accepted", "blocked"}]
  BY DEF ConstructionInit
<1>2. ticket.stage = "idle" /\ ticket.strategy = "none"
  BY DEF ConstructionInit
<1>3. preflight \in [echoed : BOOLEAN, impact : 0..BuyingPower, remaining : 0..BuyingPower,
                     fees : Fees \cup {0}]
  <2>1. 0 \in 0..BuyingPower
    BY ConstructionAssumption
  <2>. QED
    BY <2>1 DEF ConstructionInit, NoPreflight
<1>4. order.maxRisk \in Nat /\ order.limit \in Nat /\ quoteAge \in 0..MaxQuoteAge /\ listed = {}
  BY ConstructionAssumption DEF ConstructionInit, NoOrderYet
<1>5. ConstructionTypeOK
  BY <1>2, <1>3, <1>4 DEF ConstructionTypeOK
<1>6. TicketFits
  BY <1>1, <1>2 DEF TicketFits
<1>7. PricedInv /\ CheckedInv
  BY <1>2 DEF PricedInv, CheckedInv, Built
<1>. QED
  BY <1>5, <1>6, <1>7 DEF ConstructionInv

(* What is asked for is in range, and nothing is built yet.                *)
LEMMA AskKeeps == ASSUME ConstructionInv, AskForTrade PROVE ConstructionInv'
<1>1. PICK s \in Strategies, w \in Widths, n \in Contracts :
        ticket' = [strategy |-> s, width |-> w, contracts |-> n, stage |-> "asked"]
  BY DEF AskForTrade
<1>2. listed' \in Chains /\ UNCHANGED <<order, quoteAge, preflight>>
  BY DEF AskForTrade
<1>3. /\ ticket'.stage = "asked" /\ ticket'.strategy = s /\ ticket'.width = w /\ ticket'.contracts = n
      /\ ticket' \in [strategy : Strategies \cup {"none"}, width : Widths \cup {0},
                      contracts : Contracts \cup {0},
                      stage : {"idle", "asked", "previewed", "validated", "accepted", "blocked"}]
  BY <1>1
<1>4. ConstructionTypeOK'
  <2>1. listed' \subseteq UNION Chains
    BY <1>2
  <2>. QED
    BY <1>2, <1>3, <2>1 DEF ConstructionInv, ConstructionTypeOK
<1>5. TicketFits'
  BY <1>2, <1>3 DEF TicketFits
<1>6. PricedInv' /\ CheckedInv'
  BY <1>3 DEF PricedInv, CheckedInv, Built
<1>. QED
  BY <1>4, <1>5, <1>6 DEF ConstructionInv

(* A step of the ticket alone, whose stage is the only thing it changes.   *)
LEMMA TicketKept ==
    ASSUME TicketFits, ticket.stage # "idle", NEW stage \in Stages,
           ticket' = [ticket EXCEPT !.stage = stage], UNCHANGED listed
    PROVE  TicketFits' /\ ticket'.stage = stage /\ ticket'.width = ticket.width
           /\ ticket'.contracts = ticket.contracts /\ ticket'.strategy = ticket.strategy
<1>1. ticket \in [strategy : Strategies \cup {"none"}, width : Widths \cup {0},
                  contracts : Contracts \cup {0}, stage : Stages]
  BY DEF TicketFits, Stages
<1>2. /\ ticket'.stage = stage /\ ticket'.width = ticket.width
      /\ ticket'.contracts = ticket.contracts /\ ticket'.strategy = ticket.strategy
  BY <1>1
<1>3. ticket' \in [strategy : Strategies \cup {"none"}, width : Widths \cup {0},
                   contracts : Contracts \cup {0}, stage : Stages]
  BY <1>1
<1>4. TicketFits'
  BY <1>2, <1>3 DEF TicketFits, Stages
<1>. QED
  BY <1>2, <1>4

(* Quotes that age change nothing the checks looked at.                    *)
LEMMA AgingKeeps == ASSUME ConstructionInv, QuotesAge PROVE ConstructionInv'
<1>1. UNCHANGED <<ticket, listed, order, preflight>>
  BY DEF QuotesAge
<1>2. quoteAge' \in 0..MaxQuoteAge
  BY ConstructionAssumption DEF QuotesAge, ConstructionInv, ConstructionTypeOK
<1>3. ConstructionTypeOK'
  BY <1>1, <1>2 DEF ConstructionInv, ConstructionTypeOK
<1>4. TicketFits' /\ PricedInv'
  BY <1>1 DEF ConstructionInv, TicketFits, PricedInv
<1>5. CheckedInv'
  BY <1>1, CheckedKept DEF ConstructionInv
<1>. QED
  BY <1>3, <1>4, <1>5 DEF ConstructionInv

(* What is validated passed the checks.                                    *)
LEMMA ValidateKeeps == ASSUME ConstructionInv, Validate PROVE ConstructionInv'
<1>. DEFINE stage == IF Valid(order) THEN "validated" ELSE "blocked"
<1>1. /\ ticket.stage = "previewed" /\ ticket' = [ticket EXCEPT !.stage = stage]
      /\ UNCHANGED <<listed, order, quoteAge, preflight>>
  BY DEF Validate
<1>2. stage \in Stages
  BY DEF Stages
<1>3. /\ TicketFits' /\ ticket'.stage = stage /\ ticket'.width = ticket.width
      /\ ticket'.contracts = ticket.contracts /\ ticket'.strategy = ticket.strategy
  BY <1>1, <1>2, TicketKept DEF ConstructionInv
<1>4. ConstructionTypeOK'
  BY <1>1, <1>2, <1>3 DEF ConstructionInv, ConstructionTypeOK, Stages
<1>5. PricedInv'
  BY <1>1, <1>3 DEF ConstructionInv, PricedInv, Built
<1>6. CheckedInv'
  <2>1. ASSUME ticket'.stage \in {"validated", "accepted"}
        PROVE  StrikesOrdered(order)' /\ WidthMatches(order, ticket.width)' /\ RiskValid(order)'
    <3>1. Valid(order)
      BY <1>3, <2>1
    <3>2. StrikesOrdered(order) /\ WidthMatches(order, ticket.width) /\ RiskValid(order)
      BY <3>1 DEF Valid
    <3>. QED
      BY <1>1, <1>3, <3>2 DEF StrikesOrdered, WidthMatches, RiskValid
  <2>2. ticket'.stage # "accepted"
    BY <1>3
  <2>. QED
    BY <2>1, <2>2 DEF CheckedInv
<1>. QED
  BY <1>3, <1>4, <1>5, <1>6 DEF ConstructionInv

(* What is accepted is what was validated, with an answer that passed.     *)
LEMMA DryRunKeeps == ASSUME ConstructionInv, DryRun PROVE ConstructionInv'
<1>. DEFINE stage == IF DryRunPasses(preflight') THEN "accepted" ELSE "blocked"
<1>1. /\ ticket.stage = "validated" /\ ticket' = [ticket EXCEPT !.stage = stage]
      /\ UNCHANGED <<listed, order, quoteAge>>
  BY DEF DryRun
<1>2. stage \in Stages
  BY DEF Stages
<1>3. /\ TicketFits' /\ ticket'.stage = stage /\ ticket'.width = ticket.width
      /\ ticket'.contracts = ticket.contracts /\ ticket'.strategy = ticket.strategy
  BY <1>1, <1>2, TicketKept DEF ConstructionInv
<1>4. preflight' \in [echoed : BOOLEAN, impact : 0..BuyingPower, remaining : 0..BuyingPower,
                      fees : Fees \cup {0}]
  BY DEF DryRun
<1>5. ConstructionTypeOK'
  BY <1>1, <1>2, <1>3, <1>4 DEF ConstructionInv, ConstructionTypeOK, Stages
<1>6. PricedInv'
  BY <1>1, <1>3 DEF ConstructionInv, PricedInv, Built
<1>7. CheckedInv'
  <2>1. StrikesOrdered(order) /\ WidthMatches(order, ticket.width) /\ RiskValid(order)
    BY <1>1 DEF ConstructionInv, CheckedInv
  <2>2. StrikesOrdered(order)' /\ WidthMatches(order, ticket.width)' /\ RiskValid(order)'
    BY <1>1, <1>3, <2>1 DEF StrikesOrdered, WidthMatches, RiskValid
  <2>3. ASSUME ticket'.stage = "accepted" PROVE DryRunPasses(preflight)'
    <3>1. DryRunPasses(preflight')
      BY <1>3, <2>3
    <3>. QED
      BY <1>1, <3>1 DEF DryRunPasses, EchoesOrder, BuyingPowerAddsUp, ImpactIsRisk
  <2>. QED
    BY <2>2, <2>3 DEF CheckedInv
<1>. QED
  BY <1>3, <1>5, <1>6, <1>7 DEF ConstructionInv

(* The order built of a candidate and its prices.                          *)
LEMMA CreditOrderPriced ==
    ASSUME NEW s \in Strategies, s \notin Debits, NEW q \in Contracts,
           NEW mids \in [1..Len(Pattern[s]) -> Mids],
           NEW strikes \in [1..Len(Pattern[s]) -> UNION Chains], CreditQualifies(s, strikes, mids)
    PROVE  LET o == CreditOrder(s, strikes, q, mids)
           IN  /\ o.limit \in Nat /\ o.maxRisk \in Nat
               /\ o.maxRisk = o.quantity * (TradeWidth(strikes) * TicksPerPoint - o.limit)
<1>. DEFINE c == LiveCredit(s, mids)
            f == Floor(c)
            g == TradeWidth(strikes) * TicksPerPoint
            o == CreditOrder(s, strikes, q, mids)
<1>0. strikes \in [1..Len(Pattern[s]) -> Nat] /\ q \in Nat
  BY ConstructionAssumption
<1>1. c \in Nat
  BY MidsPrice
<1>2. f \in Nat /\ f <= c
  BY <1>1, FloorBelow
<1>3. c <= g
  BY <1>0, CreditBelowWidth
<1>4. g \in Int
  <2>1. Len(Pattern[s]) \in {2, 3, 4}
    BY LengthOf, StrategyNames
  <2>4. 1 \in 1..Len(Pattern[s]) /\ 2 \in 1..Len(Pattern[s])
    BY <2>1
  <2>2. strikes[1] \in Int /\ strikes[2] \in Int
    BY <1>0, <2>4
  <2>3. TradeWidth(strikes) \in Int
    BY <2>2 DEF TradeWidth, Distance
  <2>. QED
    BY <2>3, ConstructionAssumption
<1>5. o.limit = f /\ o.quantity = q /\ o.maxRisk = (g - c) * q + (c - f) * q
  BY DEF CreditOrder
<1>. HIDE DEF c, f, g, o
<1>6. o.maxRisk = q * (g - f) /\ q * (g - f) \in Nat
  BY <1>0, <1>1, <1>2, <1>3, <1>4, <1>5, CreditRisk
<1>7. o.limit \in Nat /\ o.maxRisk \in Nat /\ o.maxRisk = o.quantity * (g - o.limit)
  BY <1>2, <1>5, <1>6
<1>. QED
  BY <1>7 DEF o, g

(* A debit trade risks what is paid for it.                                *)
LEMMA DebitOrderPriced ==
    ASSUME NEW s \in Strategies, NEW q \in Contracts, NEW mids, NEW strikes,
           DebitQualifies(s, strikes, mids)
    PROVE  LET o == DebitOrder(s, strikes, q, mids)
           IN  o.limit \in Nat /\ o.maxRisk \in Nat /\ o.maxRisk = o.quantity * o.limit
<1>. DEFINE c == Cost(s, mids)
            o == DebitOrder(s, strikes, q, mids)
<1>1. c \in Nat
  BY DEF DebitQualifies
<1>2. Floor(c) \in Nat /\ q \in Nat
  BY <1>1, FloorBelow, ConstructionAssumption
<1>3. o.limit = Floor(c) /\ o.quantity = q /\ o.maxRisk = Floor(c) * q
  BY DEF DebitOrder
<1>. HIDE DEF c, o
<1>4. o.limit \in Nat /\ o.maxRisk \in Nat /\ o.maxRisk = o.quantity * o.limit
  BY <1>2, <1>3
<1>. QED
  BY <1>4 DEF o

(* A preview prices a listed candidate.                                    *)
LEMMA PreviewKeeps == ASSUME ConstructionInv, Preview PROVE ConstructionInv'
<1>. DEFINE s == ticket.strategy
            q == ticket.contracts
<1>1. /\ ticket.stage = "asked" /\ listed # {} /\ ticket' = [ticket EXCEPT !.stage = "previewed"]
      /\ quoteAge' = 0 /\ UNCHANGED <<listed, preflight>>
  BY DEF Preview
<1>2. PICK strikes \in Candidates(s, ticket.width, listed), mids \in [1..Len(Pattern[s]) -> Mids] :
        /\ order' = IF s \in Debits THEN DebitOrder(s, strikes, q, mids)
                                    ELSE CreditOrder(s, strikes, q, mids)
        /\ IF s \in Debits THEN DebitQualifies(s, strikes, mids) ELSE CreditQualifies(s, strikes, mids)
  BY DEF Preview
<1>3. s \in Strategies /\ ticket.width \in Widths /\ q \in Contracts /\ listed \in Chains
  BY <1>1 DEF ConstructionInv, TicketFits
<1>4. strikes \in [1..Len(Pattern[s]) -> UNION Chains]
  BY <1>1, <1>3, CandidatesListed
<1>5. order'.strategy = s /\ order'.strikes = strikes /\ order'.quantity = q
  BY <1>2 DEF DebitOrder, CreditOrder
<1>6. /\ order'.limit \in Nat /\ order'.maxRisk \in Nat
      /\ order'.maxRisk = order'.quantity *
            IF s \in Debits THEN order'.limit ELSE TradeWidth(strikes) * TicksPerPoint - order'.limit
  <2>1. CASE s \in Debits
    <3>1. order' = DebitOrder(s, strikes, q, mids) /\ DebitQualifies(s, strikes, mids)
      BY <1>2, <2>1
    <3>. HIDE DEF s, q
    <3>. QED
      BY <1>3, <2>1, <3>1, DebitOrderPriced
  <2>2. CASE s \notin Debits
    <3>1. order' = CreditOrder(s, strikes, q, mids) /\ CreditQualifies(s, strikes, mids)
      BY <1>2, <2>2
    <3>. HIDE DEF s, q
    <3>. QED
      BY <1>3, <1>4, <2>2, <3>1, CreditOrderPriced
  <2>. QED
    BY <2>1, <2>2
<1>7. /\ TicketFits' /\ ticket'.stage = "previewed" /\ ticket'.width = ticket.width
      /\ ticket'.contracts = ticket.contracts /\ ticket'.strategy = ticket.strategy
  BY <1>1, TicketKept DEF ConstructionInv, Stages
<1>8. ConstructionTypeOK'
  <2>1. 0 \in 0..MaxQuoteAge
    BY ConstructionAssumption
  <2>. QED
    BY <1>1, <1>6, <1>7, <2>1 DEF ConstructionInv, ConstructionTypeOK
<1>9. PricedInv'
  BY <1>3, <1>4, <1>5, <1>6 DEF PricedInv
<1>10. CheckedInv'
  BY <1>7 DEF CheckedInv
<1>. QED
  BY <1>7, <1>8, <1>9, <1>10 DEF ConstructionInv

(* Every step keeps the invariant.                                         *)
LEMMA ConstructionStep ==
    ASSUME ConstructionInv, [ConstructionNext]_constructionVars
    PROVE  ConstructionInv'
<1>1. CASE UNCHANGED constructionVars
  <2>1. UNCHANGED <<ticket, listed, order, quoteAge, preflight>>
    BY <1>1 DEF constructionVars
  <2>2. ConstructionTypeOK' /\ TicketFits' /\ PricedInv'
    BY <2>1 DEF ConstructionInv, ConstructionTypeOK, TicketFits, PricedInv
  <2>3. CheckedInv'
    BY <2>1, CheckedKept DEF ConstructionInv
  <2>. QED
    BY <2>2, <2>3 DEF ConstructionInv
<1>. QED
  BY <1>1, AskKeeps, PreviewKeeps, AgingKeeps, ValidateKeeps, DryRunKeeps DEF ConstructionNext

(* The risk of a checked order is its worst loss.                          *)
LEMMA ConstructionSound == ConstructionInv => ValidatedRiskIsWorstCase
<1>. SUFFICES ASSUME ConstructionInv PROVE ValidatedRiskIsWorstCase
  OBVIOUS
<1>1. ASSUME ticket.stage \in {"validated", "accepted"}
      PROVE  WorstLoss(order) = order.maxRisk /\ order.maxRisk <= MaxRisk
  <2>. DEFINE w == ticket.width
              k == order.strikes
  <2>1. /\ order.strategy \in Strategies /\ order.quantity \in Nat /\ order.limit \in Nat
        /\ k \in [1..Len(Pattern[order.strategy]) -> UNION Chains]
        /\ order.maxRisk = order.quantity *
              IF order.strategy \in Debits THEN order.limit
              ELSE TradeWidth(k) * TicksPerPoint - order.limit
    <3>1. order.quantity \in Contracts /\ Contracts \subseteq 1..10
      BY <1>1, ConstructionAssumption DEF ConstructionInv, PricedInv, Built
    <3>2. order.quantity \in Nat
      <4>. DEFINE n == order.quantity
      <4>1. n \in 1..10
        <5>. HIDE DEF n
        <5>. QED
          BY <3>1 DEF n
      <4>. HIDE DEF n
      <4>2. n \in Nat
        BY <4>1
      <4>. QED
        BY <4>2 DEF n
    <3>. QED
      BY <1>1, <3>2 DEF ConstructionInv, PricedInv, Built
  <2>2. StrikesOrdered(order) /\ WidthMatches(order, w) /\ RiskValid(order)
    BY <1>1 DEF ConstructionInv, CheckedInv
  <2>3. w \in Widths /\ TradeWidth(k) = w
    BY <1>1, <2>2 DEF ConstructionInv, TicketFits, WidthMatches
  <2>4. 0 < w
    <3>1. k[1] \in Nat /\ k[2] \in Nat
      <4>1. Len(Pattern[order.strategy]) \in {2, 3, 4}
        BY <2>1, LengthOf, StrategyNames
      <4>2. 1 \in 1..Len(Pattern[order.strategy]) /\ 2 \in 1..Len(Pattern[order.strategy])
        BY <4>1
      <4>3. k[1] \in UNION Chains /\ k[2] \in UNION Chains
        <5>. HIDE DEF k
        <5>. QED
          BY <2>1, <4>2
      <4>. QED
        BY <4>3, ConstructionAssumption
    <3>2. k[1] # k[2]
      <4>1. CASE order.strategy \in {"iron_condor", "bull_put", "bear_call"}
        BY <2>2, <3>1, <4>1 DEF StrikesOrdered
      <4>2. CASE order.strategy = "debit_put"
        BY <2>2, <3>1, <4>2 DEF StrikesOrdered, WellShaped
      <4>3. CASE order.strategy \in {"reverse_iron_condor", "butterfly", "debit_call"}
        <5>1. Ascending(k) /\ Len(k) = Len(Pattern[order.strategy])
          BY <2>2, <4>3 DEF StrikesOrdered, WellShaped
        <5>2. Len(k) \in {2, 3, 4}
          BY <2>1, <5>1, LengthOf, StrategyNames
        <5>3. \A n \in {2, 3, 4} : 1 \in 1..n - 1
          OBVIOUS
        <5>4. k[1] < k[1 + 1]
          BY <5>1, <5>2, <5>3 DEF Ascending
        <5>. QED
          BY <3>1, <5>4
      <4>. QED
        BY <2>1, <4>1, <4>2, <4>3, StrategyNames
    <3>. QED
      BY <2>3, <3>1, <3>2 DEF TradeWidth, Distance
  <2>5. WorstLoss(order) = (IF order.strategy \in Debits THEN order.limit
                            ELSE w * TicksPerPoint - order.limit) * order.quantity
    BY <2>1, <2>2, <2>3, <2>4, WorstLossIs
  <2>6. w \in Int /\ TicksPerPoint \in Int
    <3>1. \A x \in Widths : x \in Int
      BY ConstructionAssumption
    <3>2. TicksPerPoint \in Int
      BY ConstructionAssumption
    <3>. HIDE DEF w
    <3>. QED
      BY <2>3, <3>1, <3>2
  <2>7. WorstLoss(order) = order.maxRisk
    <3>. DEFINE v == IF order.strategy \in Debits THEN order.limit ELSE w * TicksPerPoint - order.limit
                n == order.quantity
    <3>1. v \in Int /\ n \in Int
      BY <2>1, <2>6
    <3>2. WorstLoss(order) = v * n /\ order.maxRisk = n * v
      BY <2>1, <2>3, <2>5
    <3>. HIDE DEF v, n
    <3>. QED
      BY <3>1, <3>2
  <2>8. order.maxRisk <= MaxRisk
    BY <2>2 DEF RiskValid
  <2>. QED
    BY <2>7, <2>8
<1>2. ASSUME ticket.stage = "accepted"
      PROVE  WorstLoss(order) + preflight.fees = BuyingPower - preflight.remaining
  <2>1. WorstLoss(order) = order.maxRisk
    BY <1>1, <1>2
  <2>2. DryRunPasses(preflight)
    BY <1>2 DEF ConstructionInv, CheckedInv
  <2>. QED
    BY <2>1, <2>2 DEF DryRunPasses, BuyingPowerAddsUp, ImpactIsRisk
<1>. QED
  BY <1>1, <1>2 DEF ValidatedRiskIsWorstCase

(* The risk an order passed its checks with, and the margin the broker     *)
(* holds for it, are the most it can lose at any settlement, for any       *)
(* chains, prices, widths and quantities.                                  *)
THEOREM ValidatedRiskHolds == ConstructionSpec => []ValidatedRiskIsWorstCase
<1>1. ConstructionSpec => []ConstructionInv
  BY ConstructionStarts, ConstructionStep, PTL DEF ConstructionSpec
<1>. QED
  BY <1>1, ConstructionSound, PTL

(* The ticket, the order and the broker's answer keep their types.         *)
THEOREM ConstructionTypeHolds == ConstructionSpec => []ConstructionTypeOK
<1>1. ConstructionSpec => []ConstructionInv
  BY ConstructionStarts, ConstructionStep, PTL DEF ConstructionSpec
<1>2. ConstructionInv => ConstructionTypeOK
  BY DEF ConstructionInv
<1>. QED
  BY <1>1, <1>2, PTL
=============================================================================
