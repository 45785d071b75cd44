------------------------- MODULE BrokerConnections -------------------------
(***************************************************************************)
(* One user's connection to one broker: the OAuth round trip               *)
(* (tastytrade_connection_service, schwab_connection_service), the manual  *)
(* connection and the resolution of a client (broker_connection_service),  *)
(* the live-trading permission of the owner (admin_user_service).  A       *)
(* request keeps the row it loaded over its call to the broker: its        *)
(* commits write only what it changed.                                     *)
(***************************************************************************)
EXTENDS Naturals, FiniteSets

CONSTANTS BrokerAccounts,    \* account numbers at the broker
          Calls,             \* requests in progress
          OAuthStates,       \* states of OAuth round trips
          MaxGrants,         \* bound on authorizations by the user
          NoAccount, NoState

ASSUME ConnectionAssumption ==
    /\ NoAccount \notin BrokerAccounts /\ NoState \notin OAuthStates
    /\ MaxGrants \in Nat

VARIABLES
    brokerName,     \* which of the two brokers this is
    connection,     \* the broker_connections row
    accounts,       \* broker_accounts: the active ones, and the default ones
    preferred,      \* users.preferred_broker is this broker
    call,           \* requests in progress
    grants,         \* authorizations given so far
    usedStates,     \* states handed out
    crossed         \* another request wrote the row while one was away

connVars == <<brokerName, connection, accounts, preferred, call, grants, usedStates, crossed>>

(* id tells a row from the one that replaces it; grant is whose tokens     *)
(* the row holds, period the authorization refresh_token_expires_at is of. *)
NoConnection == [id |-> 0, state |-> NoState, verified |-> FALSE, account |-> NoAccount,
                 grant |-> 0, period |-> 0, live |-> FALSE]
NoCall == [op |-> "none", id |-> 0, account |-> NoAccount, grant |-> 0]
NoAccounts == [active |-> {}, default |-> {}]

ConnectionsInit ==
    /\ brokerName \in {"tastytrade", "schwab"}
    /\ connection = NoConnection
    /\ accounts = NoAccounts
    /\ preferred = FALSE
    /\ call = [c \in Calls |-> NoCall]
    /\ grants = 0 /\ usedStates = {} /\ crossed = FALSE

Connected == connection.id # 0
NewId == 1 + Cardinality(usedStates) + grants
CallIdle(c) == call[c] = NoCall
Away(c) == call[c].op # "none"
CallEnds(c) == call' = [call EXCEPT ![c] = NoCall]

(* A write of the row by c or, without a call, by a short request.         *)
Crossing(others) == crossed' = (crossed \/ \E d \in others : Away(d))

-----------------------------------------------------------------------------
(* begin_tastytrade_oauth, begin_schwab_oauth: one state at a time.        *)
BeginOAuth(s) ==
    /\ s \notin usedStates
    /\ usedStates' = usedStates \cup {s}
    /\ connection' = IF Connected THEN [connection EXCEPT !.state = s]
                     ELSE [NoConnection EXCEPT !.id = NewId, !.state = s]
    /\ UNCHANGED <<brokerName, accounts, preferred, call, grants, crossed>>

(* The callback of the denied or expired round trip spends the state.      *)
CancelOAuth(s) ==
    /\ Connected /\ connection.state = s /\ s # NoState
    /\ connection' = [connection EXCEPT !.state = NoState]
    /\ UNCHANGED <<brokerName, accounts, preferred, call, grants, usedStates, crossed>>

(* The state is spent before the broker is asked for tokens and accounts.  *)
BeginCallback(c, s) ==
    /\ CallIdle(c) /\ Connected /\ connection.state = s /\ s # NoState
    /\ grants < MaxGrants /\ grants' = grants + 1
    /\ connection' = [connection EXCEPT !.state = NoState]
    /\ call' = [call EXCEPT ![c] = [op |-> "callback", id |-> connection.id,
                                    account |-> connection.account, grant |-> grants + 1]]
    /\ UNCHANGED <<brokerName, accounts, preferred, usedStates, crossed>>

(* sync_tastytrade_accounts and _sync_accounts: the account selected       *)
(* before, when still authorized; Schwab's old default; or the only one.   *)
OnlyOf(found) == IF Cardinality(found) = 1 THEN CHOOSE a \in found : TRUE ELSE NoAccount
TastytradeSelected(before, found) == IF before \in found THEN before ELSE OnlyOf(found)
SchwabSelected(before, found) ==
    LET defaults == accounts.default \cap found
    IN  CASE before \in found -> before
          [] before \notin found /\ Cardinality(defaults) = 1 -> OnlyOf(defaults)
          [] OTHER -> OnlyOf(found)
Selected(before, found) ==
    IF brokerName = "schwab" THEN SchwabSelected(before, found) ELSE TastytradeSelected(before, found)

(* Faulty variant: only an account selected before is marked.              *)
SynchronizedUnmarked(before, found) == [active |-> found, default |-> {before} \cap found]

Synchronized(before, found) ==
    [active |-> found, default |-> {Selected(before, found)} \ {NoAccount}]

(* What the callback commits: the account is written when it differs from  *)
(* the one loaded; a row deleted meanwhile makes it fail.                  *)
CompleteCallback(c) ==
    \E found \in (SUBSET BrokerAccounts) \ {{}} :
       LET k == call[c]
           selected == Selected(k.account, found)
       IN  /\ k.op = "callback" /\ connection.id = k.id
           /\ connection' = [connection EXCEPT !.verified = TRUE, !.grant = k.grant, !.period = k.grant,
                                !.account = IF selected = k.account THEN @ ELSE selected]
           /\ accounts' = Synchronized(k.account, found)
           /\ CallEnds(c) /\ Crossing(Calls \ {c})
           /\ UNCHANGED <<brokerName, preferred, grants, usedStates>>

(* The exchange or the discovery fails, the row is gone, the server stops. *)
CallFails(c) ==
    /\ Away(c) /\ CallEnds(c)
    /\ UNCHANGED <<brokerName, connection, accounts, preferred, grants, usedStates, crossed>>

-----------------------------------------------------------------------------
(* connect_tastytrade_account: verify at the broker, then look for a row.  *)
BeginConnect(c) ==
    /\ brokerName = "tastytrade" /\ CallIdle(c)
    /\ grants < MaxGrants /\ grants' = grants + 1
    /\ call' = [call EXCEPT ![c] = [NoCall EXCEPT !.op = "connect", !.grant = grants + 1]]
    /\ UNCHANGED <<brokerName, connection, accounts, preferred, usedStates, crossed>>

CommitConnect(c) ==
    \E found \in (SUBSET BrokerAccounts) \ {{}} : \E requested \in found :
       /\ call[c].op = "connect"
       /\ connection' = [connection EXCEPT !.id = IF Connected THEN @ ELSE NewId,
                            !.verified = TRUE, !.account = requested, !.live = FALSE,
                            !.grant = call[c].grant, !.period = call[c].grant]
       /\ accounts' = Synchronized(requested, found)
       /\ CallEnds(c) /\ Crossing(Calls \ {c})
       /\ UNCHANGED <<brokerName, preferred, grants, usedStates>>

(* resolve_schwab_broker with a stale access token: the tokens of a        *)
(* refresh replace those of the row; the period stays.                     *)
ActiveAccount == connection.account \in accounts.active
BeginRefresh(c) ==
    /\ brokerName = "schwab" /\ CallIdle(c)
    /\ Connected /\ connection.verified /\ ActiveAccount
    /\ call' = [call EXCEPT ![c] = [NoCall EXCEPT !.op = "refresh", !.id = connection.id,
                                                  !.grant = connection.grant]]
    /\ UNCHANGED <<brokerName, connection, accounts, preferred, grants, usedStates, crossed>>

(* Faulty variant: the tokens are written to whatever row is there.        *)
CommitRefreshAnyRow(c) ==
    /\ call[c].op = "refresh" /\ Connected
    /\ connection' = [connection EXCEPT !.grant = call[c].grant]
    /\ CallEnds(c)
    /\ UNCHANGED <<brokerName, accounts, preferred, grants, usedStates, crossed>>

CommitRefresh(c) ==
    /\ call[c].op = "refresh" /\ connection.id = call[c].id
    /\ connection' = [connection EXCEPT !.grant = call[c].grant]
    /\ CallEnds(c)
    /\ UNCHANGED <<brokerName, accounts, preferred, grants, usedStates, crossed>>

-----------------------------------------------------------------------------
(* select_tastytrade_account, select_schwab_account.                       *)
SelectAccount(a) ==
    /\ Connected /\ a \in accounts.active /\ connection.account # a
    /\ connection' = [connection EXCEPT !.account = a]
    /\ accounts' = [accounts EXCEPT !.default = {a}]
    /\ Crossing(Calls)
    /\ UNCHANGED <<brokerName, preferred, call, grants, usedStates>>

(* set_user_broker_live_trading.                                           *)
SetLiveTrading(enabled) ==
    /\ brokerName = "tastytrade" /\ Connected
    /\ enabled => connection.verified /\ connection.account # NoAccount
    /\ connection' = [connection EXCEPT !.live = enabled]
    /\ UNCHANGED <<brokerName, accounts, preferred, call, grants, usedStates, crossed>>

(* set_user_preferred_broker, for a connection that is ready.              *)
Selectable ==
    /\ Connected /\ connection.verified /\ connection.account # NoAccount
    /\ brokerName = "schwab" => ActiveAccount
Prefer ==
    /\ Selectable
    /\ preferred' = TRUE
    /\ UNCHANGED <<brokerName, connection, accounts, call, grants, usedStates, crossed>>

(* disconnect_tastytrade_account, disconnect_schwab: Schwab's preference   *)
(* goes with the row, Tastytrade is the default anyway.                    *)
Disconnect ==
    /\ Connected
    /\ connection' = NoConnection /\ accounts' = NoAccounts
    /\ preferred' = (preferred /\ brokerName = "tastytrade")
    /\ UNCHANGED <<brokerName, call, grants, usedStates, crossed>>

ConnectionsNext ==
    \/ \E s \in OAuthStates : BeginOAuth(s) \/ CancelOAuth(s)
    \/ \E c \in Calls : \/ \E s \in OAuthStates : BeginCallback(c, s)
                        \/ CompleteCallback(c) \/ CallFails(c)
                        \/ BeginConnect(c) \/ CommitConnect(c)
                        \/ BeginRefresh(c) \/ CommitRefresh(c)
    \/ \E a \in BrokerAccounts : SelectAccount(a)
    \/ \E enabled \in BOOLEAN : SetLiveTrading(enabled)
    \/ Prefer \/ Disconnect

ConnectionsSpec == ConnectionsInit /\ [][ConnectionsNext]_connVars

(* The account of the client that a request resolves.                      *)
Traded == connection.account
-----------------------------------------------------------------------------
(* What each variable holds.                                               *)
ConnectionsTypeOK ==
    /\ connection.state \in OAuthStates \cup {NoState}
    /\ connection.account \in BrokerAccounts \cup {NoAccount}
    /\ connection.grant \in 0..MaxGrants /\ connection.period \in 0..MaxGrants
    /\ accounts \in [active : SUBSET BrokerAccounts, default : SUBSET BrokerAccounts]
    /\ preferred \in BOOLEAN /\ crossed \in BOOLEAN
    /\ \A c \in Calls : call[c].op \in {"none", "callback", "connect", "refresh"}

(* The account orders go to (the row's) is the one the user is shown as    *)
(* the default, and authorized, through reconnections that discover other  *)
(* accounts, as long as no request wrote the row while another was away.   *)
DefaultIsTraded ==
    ~crossed => /\ accounts.default = {Traded} \ {NoAccount}
                /\ accounts.default \subseteq accounts.active

(* A broker the user disconnected stays so: neither a callback nor a token *)
(* refresh that began before brings the row back, and none writes into the *)
(* row that replaced it.                                                   *)
DisconnectHolds ==
    [][\A c \in Calls :
         Away(c) /\ call[c].op # "connect" /\ call'[c] = NoCall /\ connection' # connection
            => connection.id = call[c].id /\ connection'.id = call[c].id]_connVars

-----------------------------------------------------------------------------
(* Inductive strengthenings, for the proofs.                               *)

ConnectionRows == [id : Nat, state : OAuthStates \cup {NoState}, verified : BOOLEAN,
                   account : BrokerAccounts \cup {NoAccount}, grant : 0..MaxGrants,
                   period : 0..MaxGrants, live : BOOLEAN]
ConnectionCalls == [op : {"none", "callback", "connect", "refresh"}, id : Nat,
                    account : BrokerAccounts \cup {NoAccount}, grant : 0..MaxGrants]
ConnectionState ==
    /\ brokerName \in {"tastytrade", "schwab"}
    /\ connection \in ConnectionRows
    /\ accounts \in [active : SUBSET BrokerAccounts, default : SUBSET BrokerAccounts]
    /\ preferred \in BOOLEAN /\ crossed \in BOOLEAN
    /\ call \in [Calls -> ConnectionCalls]
    /\ grants \in 0..MaxGrants /\ IsFiniteSet(usedStates)

(* A request that loaded a row has its id; no row that comes later has it. *)
Loaded(c) == call[c].op \in {"callback", "refresh"}
IdsAreNew ==
    /\ connection.id <= NewId
    /\ brokerName = "schwab" => connection.id < NewId /\ \A c \in Calls : call[c].op # "connect"
    /\ \A c \in Calls : Loaded(c) => call[c].id \in 1..NewId - 1

(* While no request crossed another, a callback knows its row's account.   *)
AccountKnown ==
    /\ ~Connected => connection = NoConnection /\ accounts = NoAccounts
    /\ \A c \in Calls : ~crossed /\ call[c].op = "callback" /\ connection.id = call[c].id
                           => connection.account = call[c].account

=============================================================================
