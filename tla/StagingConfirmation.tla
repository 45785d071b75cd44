------------------------ MODULE StagingConfirmation ------------------------
(***************************************************************************)
(* The confirmation tokens and simulated order intents of the staging      *)
(* preview (staging_confirmation, staging_order_ledger): a SQLite file     *)
(* with one write lock that a request waits for, and a process that may    *)
(* die before or after a commit.                                           *)
(***************************************************************************)
EXTENDS Naturals

CONSTANTS Tokens,         \* confirmation tokens and idempotency keys
          Previews,       \* orders that passed the broker's checks
          Consumers,      \* concurrent confirm requests
          TokenTTL,       \* TTL
          BusyTimeout,    \* PRAGMA busy_timeout
          PruneAge,       \* TTL and a day: when an unused token is deleted
          NoOrder

ASSUME ConfirmationAssumption ==
    /\ TokenTTL \in Nat \ {0} /\ BusyTimeout \in Nat
    /\ PruneAge \in Nat /\ PruneAge > TokenTTL + BusyTimeout
    /\ NoOrder \notin Previews

VARIABLES
    confirmations,    \* the confirmations table
    intents,          \* staging_order_intents: token or key to order
    tokenAge,         \* seconds since each token was issued
    consumer,         \* confirm requests in progress
    acknowledged      \* tokens whose caller was told of a recorded intent

confirmVars == <<confirmations, intents, tokenAge, consumer, acknowledged>>

NoConfirmation == [order |-> NoOrder, consumedAt |-> 0, consumed |-> FALSE]
NoConsumer == [token |-> "none", order |-> NoOrder, stamp |-> 0]

ConfirmationInit ==
    /\ confirmations = [t \in Tokens |-> NoConfirmation]
    /\ intents = [t \in Tokens |-> NoOrder]
    /\ tokenAge = [t \in Tokens |-> 0]
    /\ consumer = [c \in Consumers |-> NoConsumer]
    /\ acknowledged = {}

Issued(t) == confirmations[t].order # NoOrder

(* Faulty variant: used rows are pruned like the others.                   *)
PrunableUsed(t) == Issued(t) /\ tokenAge[t] >= PruneAge

(* Expired, unused rows go when a new one comes; used ones stay.           *)
Prunable(t) == Issued(t) /\ ~confirmations[t].consumed /\ tokenAge[t] >= PruneAge

Issue(t, o) ==
    /\ ~Issued(t) /\ tokenAge[t] = 0 /\ intents[t] = NoOrder
    /\ confirmations' = [u \in Tokens |->
                           CASE u = t -> [NoConfirmation EXCEPT !.order = o]
                             [] u # t /\ Prunable(u) -> NoConfirmation
                             [] OTHER -> confirmations[u]]
    /\ UNCHANGED <<intents, tokenAge, consumer, acknowledged>>

(* consume takes the time, then waits for the write lock.                  *)
BeginConsume(c, t, o) ==
    /\ consumer[c] = NoConsumer
    /\ Issued(t) \/ tokenAge[t] > 0
    /\ consumer' = [consumer EXCEPT ![c] = [token |-> t, order |-> o, stamp |-> tokenAge[t]]]
    /\ UNCHANGED <<confirmations, intents, tokenAge, acknowledged>>

Gone(c) == consumer' = [consumer EXCEPT ![c] = NoConsumer]
Waiting(c) == consumer[c].token # "none"

Consumable(t, stamp) == Issued(t) /\ ~confirmations[t].consumed /\ stamp < TokenTTL

(* One immediate transaction: the token is spent before the order is       *)
(* compared, and the intent of an unchanged order is part of it.           *)
CommitConsume(c) ==
    LET t == consumer[c].token
        matches == confirmations[t].order = consumer[c].order
    IN  /\ Waiting(c)
        /\ Consumable(t, consumer[c].stamp)
        /\ confirmations' = [confirmations EXCEPT ![t] = [@ EXCEPT !.consumed = TRUE, !.consumedAt = tokenAge[t]]]
        /\ intents' = IF matches /\ intents[t] = NoOrder
                      THEN [intents EXCEPT ![t] = consumer[c].order] ELSE intents
        /\ acknowledged' \in {acknowledged} \cup    \* the answer may be lost
               (IF matches /\ intents[t] = NoOrder THEN {acknowledged \cup {t}} ELSE {})
        /\ Gone(c)
        /\ UNCHANGED tokenAge

(* Refused, timed out waiting for the lock, or cut off by a crash.         *)
LeaveConsume(c) ==
    /\ Waiting(c)
    /\ Gone(c)
    /\ UNCHANGED <<confirmations, intents, tokenAge, acknowledged>>

(* reserve_intent: an idempotency key in the same table, an issued token   *)
(* included; first come, first kept.                                       *)
ReserveIntent(t, o) ==
    /\ intents[t] = NoOrder
    /\ intents' = [intents EXCEPT ![t] = o]
    /\ UNCHANGED <<confirmations, tokenAge, consumer, acknowledged>>

(* A second passes; nobody waits for the lock longer than busy_timeout.    *)
SecondPasses ==
    /\ \A c \in Consumers : Waiting(c) => tokenAge[consumer[c].token] < consumer[c].stamp + BusyTimeout
                                          \/ tokenAge[consumer[c].token] = PruneAge
    /\ tokenAge' = [t \in Tokens |-> IF (Issued(t) \/ tokenAge[t] > 0) /\ tokenAge[t] < PruneAge
                                     THEN tokenAge[t] + 1 ELSE tokenAge[t]]
    /\ tokenAge' # tokenAge
    /\ UNCHANGED <<confirmations, intents, consumer, acknowledged>>

ConfirmationNext ==
    \/ \E t \in Tokens, o \in Previews : Issue(t, o) \/ ReserveIntent(t, o)
    \/ \E c \in Consumers :
         \/ \E t \in Tokens, o \in Previews : BeginConsume(c, t, o)
         \/ CommitConsume(c) \/ LeaveConsume(c)
    \/ SecondPasses

ConfirmationSpec == ConfirmationInit /\ [][ConfirmationNext]_confirmVars

(* receipt: what is read back after a lost answer.                         *)
ReceiptVerified(t) == confirmations[t].consumed /\ intents[t] = confirmations[t].order
-----------------------------------------------------------------------------
(* Every variable stays in its type.                                       *)
ConfirmationTypeOK ==
    /\ confirmations \in [Tokens -> [order : Previews \cup {NoOrder}, consumedAt : 0..PruneAge, consumed : BOOLEAN]]
    /\ intents \in [Tokens -> Previews \cup {NoOrder}]
    /\ tokenAge \in [Tokens -> 0..PruneAge]
    /\ consumer \in [Consumers -> [token : Tokens \cup {"none"}, order : Previews \cup {NoOrder}, stamp : 0..PruneAge]]
    /\ acknowledged \subseteq Tokens

(* What a caller was told stays provable, however many requests raced for  *)
(* the token and however long ago that was; and its expiry holds up to the *)
(* wait for the write lock, since the time is taken before the wait.       *)
TokenPromisesKept ==
    /\ \A t \in acknowledged : ReceiptVerified(t)
    /\ \A t \in Tokens : confirmations[t].consumed => confirmations[t].consumedAt < TokenTTL + BusyTimeout
=============================================================================
