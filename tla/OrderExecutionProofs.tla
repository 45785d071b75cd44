------------------------ MODULE OrderExecutionProofs ------------------------
(***************************************************************************)
(* Proofs about OrderExecution, for every number of requests, reviews,     *)
(* scopes, accounts and orders, every time to live and, where a theorem    *)
(* does not exclude one, every fault.                                      *)
(***************************************************************************)
EXTENDS OrderExecution, FiniteSetTheorems, TLAPS

-----------------------------------------------------------------------------
(* Type correctness, from what the helpers of the actions preserve.        *)

(* Moving on to the next step of a request keeps pc and reply typed.       *)
LEMMA GotoType ==
    ASSUME TypeOK, NEW q \in Requests, NEW step \in PCs, Goto(q, step)
    PROVE  pc' \in [Requests -> PCs] /\ reply' \in [Requests -> Replies]
  BY DEF TypeOK, Goto

(* So does returning an answer.                                            *)
LEMMA ReturnType ==
    ASSUME TypeOK, NEW q \in Requests, NEW answer \in Replies,
           Return(q, answer)
    PROVE  pc' \in [Requests -> PCs] /\ reply' \in [Requests -> Replies]
  BY DEF TypeOK, Return, PCs

(* The steps and answers the actions name are members of their types.      *)
LEMMA Names ==
    /\ {"idle", "done", "crashed", "dryPositions", "dryVerify", "positions",
        "verifyPositions", "orders", "verifyOrders", "consume", "reserve",
        "audit", "send", "await"} \subseteq PCs
    /\ {"BLOCKED", "UNCONFIRMED", "SUBMITTED"} \subseteq Replies
    /\ {"open", "consumed", "gone"} \subseteq ReviewStates
  BY DEF PCs, InFlight, Replies, ReviewStates

(* Changing the state of one review lock leaves a dictionary of locks.     *)
LEMMA SetState ==
    ASSUME NEW f \in [Reviews -> ReviewRecords], NEW r,
           NEW st \in ReviewStates
    PROVE  [f EXCEPT ![r].state = st] \in [Reviews -> ReviewRecords]
  BY DEF ReviewRecords

(* So does popping an expired lock ...                                     *)
LEMMA PopType ==
    ASSUME TypeOK, NEW r, NEW s
    PROVE  PopExpired(r, s) \in [Reviews -> ReviewRecords]
  BY SetState, Names DEF TypeOK, PopExpired

(* ... and pruning all of them.                                            *)
LEMMA PruneType == TypeOK => Pruned \in [Reviews -> ReviewRecords]
  BY DEF TypeOK, Pruned, ReviewRecords, ReviewStates

(* Legs are option symbols, so what a broker read returns is too.          *)
LEMMA SymbolsType ==
    ASSUME NEW q \in Requests
    PROVE  /\ Held(Account(q)) \in SUBSET Symbols
           /\ Working(Account(q)) \in SUBSET Symbols
  BY DEF Held, Working, SymbolsAt, LegsOf

(* So are what a request remembers of a read that succeeds ...             *)
ReadTyped ==
    /\ seen \in [Requests -> SUBSET Symbols]
    /\ lastError \in [Requests -> BOOLEAN]
    /\ failed \in [Requests -> {"no", "flagged", "hidden"}]

LEMMA ReadSucceedsType ==
    ASSUME TypeOK, NEW q \in Requests,
           \/ ReadSucceeds(q, Held(Account(q))) /\ failed' = [failed EXCEPT ![q] = "no"]
           \/ ReadSucceeds(q, Working(Account(q))) /\ UNCHANGED failed
    PROVE  ReadTyped'
<1>1. ReadTyped
  BY DEF TypeOK, ReadTyped
<1>. QED
  BY <1>1, SymbolsType DEF ReadSucceeds, ReadTyped

(* ... and of one that fails.                                              *)
LEMMA ReadFailsType ==
    ASSUME TypeOK, NEW q \in Requests, ReadFails(q, TRUE) \/ ReadFails(q, FALSE)
    PROVE  ReadTyped'
<1>1. ReadTyped
  BY DEF TypeOK, ReadTyped
<1>. QED
  BY <1>1 DEF ReadFails, ReadTyped

LEMMA UnreadType ==
    ASSUME TypeOK, UNCHANGED <<seen, lastError, failed>> PROVE ReadTyped'
BY DEF TypeOK, ReadTyped

(* A reservation is granted in full and released to nothing.               *)
LEMMA Grants == ReserveTTL \in 0..ReserveTTL /\ 0 \in 0..ReserveTTL
BY OrderAssumptions

(* Every step of a request keeps the types.                                *)
LEMMA RequestStepType ==
    ASSUME TypeOK, NEW q \in Requests, RequestStep(q)
    PROVE  TypeOK'
<1>1. ASSUME NEW s \in Scopes, NEW r \in Reviews, OrderSubmit(q, s, r)
      PROVE  TypeOK'
  <2>1. pc' \in [Requests -> PCs] /\ reply' \in [Requests -> Replies]
    BY <1>1, GotoType, ReturnType, Names DEF OrderSubmit
  <2>2. reviews' \in [Reviews -> ReviewRecords]
    BY <1>1, PopType DEF OrderSubmit, TypeOK
  <2>3. reviews[r].order \in Orders \cup {None}
    BY DEF TypeOK, ReviewRecords
  <2>4. job' \in [Requests -> [scope: Scopes \cup {None},
                               review: Reviews \cup {None},
                               order: Orders \cup {None}]]
    BY <1>1, <2>3 DEF OrderSubmit, TypeOK
  <2>. QED
    BY <1>1, <2>1, <2>2, <2>4 DEF OrderSubmit, TypeOK
<1>2. CASE ReadPositions(q)
  <2>1. pc' \in [Requests -> PCs] /\ reply' \in [Requests -> Replies]
    BY <1>2, GotoType, ReturnType, Names DEF ReadPositions
  <2>2. ReadTyped'
    BY <1>2, ReadSucceedsType, ReadFailsType, UnreadType DEF ReadPositions
  <2>. QED
    BY <1>2, <2>1, <2>2 DEF ReadPositions, ReadTyped, TypeOK
<1>3. CASE DryRunVerdict(q)
  <2>1. pc' \in [Requests -> PCs] /\ reply' \in [Requests -> Replies]
    BY <1>3, GotoType, ReturnType, Names DEF DryRunVerdict
  <2>2. audit' \subseteq Events \X Requests
    BY <1>3 DEF DryRunVerdict, TypeOK, Events
  <2>3. /\ seen' \in [Requests -> SUBSET Symbols]
        /\ lastError' \in [Requests -> BOOLEAN]
    BY <1>3 DEF DryRunVerdict, Forget, TypeOK
  <2>. QED
    BY <1>3, <2>1, <2>2, <2>3 DEF DryRunVerdict, TypeOK
<1>4. CASE PositionsVerdict(q)
  <2>1. pc' \in [Requests -> PCs] /\ reply' \in [Requests -> Replies]
    BY <1>4, GotoType, ReturnType, Names DEF PositionsVerdict
  <2>2. /\ seen' \in [Requests -> SUBSET Symbols]
        /\ lastError' \in [Requests -> BOOLEAN]
    BY <1>4 DEF PositionsVerdict, Forget, TypeOK
  <2>. QED
    BY <1>4, <2>1, <2>2 DEF PositionsVerdict, TypeOK
<1>5. CASE ReadLiveOrders(q)
  <2>1. pc' \in [Requests -> PCs] /\ reply' \in [Requests -> Replies]
    BY <1>5, GotoType, Names DEF ReadLiveOrders
  <2>2. ReadTyped'
    BY <1>5, ReadSucceedsType, ReadFailsType DEF ReadLiveOrders
  <2>3. unseen' \in [Requests -> SUBSET Requests]
    <3>1. NotAccepted \subseteq Requests
      BY DEF NotAccepted
    <3>2. \/ unseen' = [unseen EXCEPT ![q] = unseen[q] \cup (NotAccepted \ {q})]
          \/ unseen' = unseen
      BY <1>5 DEF ReadLiveOrders
    <3>. QED
      BY <3>1, <3>2 DEF TypeOK
  <2>. QED
    BY <1>5, <2>1, <2>2, <2>3 DEF ReadLiveOrders, ReadTyped, TypeOK
<1>6. CASE OrdersVerdict(q)
  <2>1. pc' \in [Requests -> PCs] /\ reply' \in [Requests -> Replies]
    BY <1>6, GotoType, ReturnType, Names DEF OrdersVerdict
  <2>2. /\ seen' \in [Requests -> SUBSET Symbols]
        /\ lastError' \in [Requests -> BOOLEAN]
    BY <1>6 DEF OrdersVerdict, Forget, TypeOK
  <2>. QED
    BY <1>6, <2>1, <2>2 DEF OrdersVerdict, TypeOK
<1>7. CASE ConsumeReviewLock(q)
  <2>1. pc' \in [Requests -> PCs] /\ reply' \in [Requests -> Replies]
    BY <1>7, GotoType, ReturnType, Names DEF ConsumeReviewLock
  <2>2. PopExpired(job[q].review, job[q].scope) \in
           [Reviews -> ReviewRecords]
    BY PopType
  <2>3. [reviews EXCEPT ![job[q].review].state = "consumed"] \in
           [Reviews -> ReviewRecords]
    BY SetState, Names DEF TypeOK
  <2>4. reviews' \in [Reviews -> ReviewRecords]
    BY <1>7, <2>2, <2>3 DEF ConsumeReviewLock
  <2>. QED
    BY <1>7, <2>1, <2>4 DEF ConsumeReviewLock, TypeOK
<1>8. CASE ReserveSubmission(q)
  <2>1. pc' \in [Requests -> PCs] /\ reply' \in [Requests -> Replies]
    BY <1>8, GotoType, ReturnType, Names DEF ReserveSubmission
  <2>2. granted' \in [Requests -> 0..ReserveTTL]
    <3>1. \/ granted' = [granted EXCEPT ![q] = ReserveTTL]
          \/ granted' = granted
      BY <1>8 DEF ReserveSubmission
    <3>. QED
      BY <3>1, Grants DEF TypeOK
  <2>3. \/ reservations' = [reservations EXCEPT ![Key(q)] = ReserveTTL]
        \/ reservations' = reservations
    BY <1>8 DEF ReserveSubmission
  <2>4. reservations' \in [Keys -> 0..ReserveTTL]
    BY <2>3, Grants DEF TypeOK
  <2>. QED
    BY <1>8, <2>1, <2>2, <2>4 DEF ReserveSubmission, TypeOK
<1>9. CASE AuditAttempt(q)
  <2>1. pc' \in [Requests -> PCs] /\ reply' \in [Requests -> Replies]
    BY <1>9, GotoType, ReturnType, Names DEF AuditAttempt
  <2>2. granted' \in [Requests -> 0..ReserveTTL]
    <3>1. \/ granted' = [granted EXCEPT ![q] = 0]
          \/ granted' = granted
      BY <1>9 DEF AuditAttempt, ReleaseSubmission
    <3>. QED
      BY <3>1, Grants DEF TypeOK
  <2>3. \/ reservations' = [reservations EXCEPT ![Key(q)] = 0]
        \/ reservations' = reservations
    BY <1>9 DEF AuditAttempt, ReleaseSubmission
  <2>4. reservations' \in [Keys -> 0..ReserveTTL]
    BY <2>3, Grants DEF TypeOK
  <2>5. audit' \subseteq Events \X Requests
    BY <1>9 DEF AuditAttempt, TypeOK, Events
  <2>. QED
    BY <1>9, <2>1, <2>2, <2>4, <2>5 DEF AuditAttempt, TypeOK
<1>10. CASE SendOrder(q)
  <2>1. pc' \in [Requests -> PCs] /\ reply' \in [Requests -> Replies]
    BY <1>10, GotoType, ReturnType, Names DEF SendOrder
  <2>2. audit' \subseteq Events \X Requests
    BY <1>10 DEF SendOrder, AuditResult, TypeOK, Events
  <2>3. market' \in [Requests -> MarketStates]
    BY <1>10 DEF SendOrder, TypeOK, MarketStates
  <2>. QED
    BY <1>10, <2>1, <2>2, <2>3 DEF SendOrder, TypeOK
<1>11. CASE Confirmed(q)
  <2>1. pc' \in [Requests -> PCs] /\ reply' \in [Requests -> Replies]
    BY <1>11, ReturnType, Names DEF Confirmed
  <2>2. audit' \subseteq Events \X Requests
    BY <1>11 DEF Confirmed, AuditResult, TypeOK, Events
  <2>. QED
    BY <1>11, <2>1, <2>2 DEF Confirmed, TypeOK
<1>12. CASE Unconfirmed(q)
  <2>1. pc' \in [Requests -> PCs] /\ reply' \in [Requests -> Replies]
    BY <1>12, ReturnType, Names DEF Unconfirmed
  <2>2. audit' \subseteq Events \X Requests
    BY <1>12 DEF Unconfirmed, AuditResult, TypeOK, Events
  <2>. QED
    BY <1>12, <2>1, <2>2 DEF Unconfirmed, TypeOK
<1>. QED
  BY <1>1, <1>2, <1>3, <1>4, <1>5, <1>6, <1>7, <1>8, <1>9, <1>10, <1>11,
     <1>12 DEF RequestStep

(* The variables of every behaviour keep their types: the two dictionaries *)
(* of order.py, the requests in progress and what the broker has of them.  *)
THEOREM TypeCorrect == Spec => []TypeOK
<1>1. Init => TypeOK
  BY OrderAssumptions DEF Init, TypeOK, ReviewRecords, ReviewStates, PCs,
     InFlight, MarketStates, Replies
<1>2. TypeOK /\ [Next]_vars => TypeOK'
  <2> SUFFICES ASSUME TypeOK, [Next]_vars PROVE TypeOK'
    OBVIOUS
  <2>1. ASSUME NEW r \in Reviews, NEW s \in Scopes, NEW o \in Orders,
               OrderPreview(r, s, o)
        PROVE  TypeOK'
    <3>1. reviews' \in [Reviews -> ReviewRecords]
      BY <2>1, PruneType, OrderAssumptions
         DEF OrderPreview, ReviewRecords, ReviewStates
    <3>. QED
      BY <2>1, <3>1 DEF OrderPreview, TypeOK
  <2>2. ASSUME NEW q \in Requests, OtherCallerWrites(q)
        PROVE  TypeOK'
    BY <2>2 DEF OtherCallerWrites, TypeOK
  <2>3. ASSUME NEW q \in Requests, MarketStep(q)
        PROVE  TypeOK'
    <3>1. market' \in [Requests -> MarketStates]
      BY <2>3 DEF MarketStep, MarketMoves, MarketStates, TypeOK
    <3>2. unseen' \in [Requests -> SUBSET Requests]
      BY <2>3 DEF MarketStep, TypeOK
    <3>. QED
      BY <2>3, <3>1, <3>2 DEF MarketStep, TypeOK
  <2>4. CASE Tick
    <3>1. reviews' \in [Reviews -> ReviewRecords]
      <4>1. \A r \in Reviews : reviews[r] \in ReviewRecords
        BY DEF TypeOK
      <4>2. \A r \in Reviews : reviews'[r] \in ReviewRecords
        BY <2>4, <4>1, OrderAssumptions DEF Tick, ReviewRecords
      <4>. QED
        BY <2>4, <4>2 DEF Tick
    <3>2. reservations' \in [Keys -> 0..ReserveTTL]
      BY <2>4, OrderAssumptions DEF Tick, TypeOK
    <3>3. granted' \in [Requests -> 0..ReserveTTL]
      BY <2>4, OrderAssumptions DEF Tick, TypeOK
    <3>. QED
      BY <2>4, <3>1, <3>2, <3>3 DEF Tick, TypeOK
  <2>5. CASE Restart
    <3>1. reviews' \in [Reviews -> ReviewRecords]
      <4>1. \A r \in Reviews : reviews[r] \in ReviewRecords
        BY DEF TypeOK
      <4>2. \A r \in Reviews : reviews'[r] \in ReviewRecords
        BY <2>5, <4>1 DEF Restart, ReviewRecords, ReviewStates
      <4>. QED
        BY <2>5, <4>2 DEF Restart
    <3>2. pc' \in [Requests -> PCs]
      BY <2>5, Names DEF Restart, TypeOK
    <3>3. /\ reservations' \in [Keys -> 0..ReserveTTL]
          /\ granted' \in [Requests -> 0..ReserveTTL]
          /\ seen' \in [Requests -> SUBSET Symbols]
          /\ lastError' \in [Requests -> BOOLEAN]
      BY <2>5, OrderAssumptions DEF Restart, TypeOK
    <3>4. restarts' \in 0..MaxRestarts
      BY <2>5, OrderAssumptions DEF Restart, TypeOK
    <3>. QED
      BY <2>5, <3>1, <3>2, <3>3, <3>4 DEF Restart, TypeOK
  <2>6. CASE UNCHANGED vars
    BY <2>6 DEF vars, TypeOK
  <2>. QED
    BY <2>1, <2>2, <2>3, <2>4, <2>5, <2>6, RequestStepType DEF Next
<1>. QED
  BY <1>1, <1>2, PTL DEF Spec

-----------------------------------------------------------------------------
(* One order per review.                                                   *)

(* A step that touches neither locks nor jobs, and takes no request into   *)
(* flight or past its lock, keeps ReviewInv.                               *)
LEMMA KeepReview ==
    ASSUME ReviewInv, UNCHANGED <<reviews, job>>,
           \A q \in Requests : pc'[q] \in InFlight => pc[q] \in InFlight,
           \A q \in Requests : Past(q)' => Past(q)
    PROVE  ReviewInv'
  BY DEF ReviewInv

(* Where a request goes next, when it keeps the locks as they are.         *)
LEMMA RequestStepMoves ==
    ASSUME TypeOK, NEW q \in Requests,
           \/ ReadPositions(q) \/ DryRunVerdict(q) \/ PositionsVerdict(q)
           \/ ReadLiveOrders(q) \/ OrdersVerdict(q) \/ ReserveSubmission(q)
           \/ AuditAttempt(q) \/ SendOrder(q) \/ Confirmed(q)
           \/ Unconfirmed(q)
    PROVE  /\ UNCHANGED <<reviews, job>>
           /\ \A p \in Requests : pc'[p] \in InFlight => pc[p] \in InFlight
           /\ \A p \in Requests : Past(p)' => Past(p)
<1>1. CASE ReadPositions(q)
  BY <1>1 DEF ReadPositions, Goto, Return, Past, Sent, InFlight, TypeOK
<1>2. CASE DryRunVerdict(q)
  BY <1>2 DEF DryRunVerdict, Goto, Return, Past, Sent, InFlight, TypeOK
<1>3. CASE PositionsVerdict(q)
  BY <1>3 DEF PositionsVerdict, Goto, Return, Past, Sent, InFlight, TypeOK
<1>4. CASE ReadLiveOrders(q)
  BY <1>4 DEF ReadLiveOrders, Goto, Past, Sent, InFlight, TypeOK
<1>5. CASE OrdersVerdict(q)
  BY <1>5 DEF OrdersVerdict, Goto, Return, Past, Sent, InFlight, TypeOK
<1>6. CASE ReserveSubmission(q)
  BY <1>6 DEF ReserveSubmission, Goto, Return, Past, Sent, InFlight, TypeOK
<1>7. CASE AuditAttempt(q)
  BY <1>7 DEF AuditAttempt, Goto, Return, Past, Sent, InFlight, TypeOK
<1>8. CASE SendOrder(q)
  BY <1>8 DEF SendOrder, Goto, Return, Past, Sent, InFlight, TypeOK
<1>9. CASE Confirmed(q)
  BY <1>9 DEF Confirmed, Return, Past, Sent, InFlight, TypeOK
<1>10. CASE Unconfirmed(q)
  BY <1>10 DEF Unconfirmed, Return, Past, Sent, InFlight, TypeOK
<1>. QED
  BY <1>1, <1>2, <1>3, <1>4, <1>5, <1>6, <1>7, <1>8, <1>9, <1>10

(* The states of the locks may move to consumed and gone, their contents   *)
(* stay.                                                                   *)
LEMMA PopKeeps ==
    ASSUME TypeOK, NEW x, NEW s, NEW r \in Reviews
    PROVE  /\ PopExpired(x, s)[r].scope = reviews[r].scope
           /\ PopExpired(x, s)[r].order = reviews[r].order
           /\ \/ PopExpired(x, s)[r].state = reviews[r].state
              \/ /\ PopExpired(x, s)[r].state = "gone"
                 /\ reviews[r].state = "open"
  BY DEF PopExpired, TypeOK, ReviewRecords

(* The invariant is preserved by every step.                               *)
LEMMA ReviewInvStep ==
    ASSUME TypeOK, ReviewInv, ReplyInv, [Next]_vars
    PROVE  ReviewInv'
<1>1. ASSUME NEW r \in Reviews, NEW s \in Scopes, NEW o \in Orders,
             OrderPreview(r, s, o)
      PROVE  ReviewInv'
  <2>1. /\ UNCHANGED <<pc, job, market>>
        /\ reviews[r].state = "unborn"
    BY <1>1 DEF OrderPreview
  <2>2. \A q \in Requests : Past(q)' = Past(q)
    BY <2>1 DEF Past, Sent
  <2>3. /\ reviews'[r].state = "open"
        /\ reviews'[r].scope = s
        /\ reviews'[r].order = o
    BY <1>1 DEF OrderPreview, Pruned
  <2>4. \A x \in Reviews : x # r =>
          /\ reviews'[x].scope = reviews[x].scope
          /\ reviews'[x].order = reviews[x].order
          /\ \/ reviews'[x].state = reviews[x].state
             \/ reviews'[x].state = "gone" /\ reviews[x].state # "unborn"
    BY <1>1 DEF OrderPreview, Pruned, TypeOK, ReviewRecords
  <2>. QED
    BY <2>1, <2>2, <2>3, <2>4 DEF ReviewInv
<1>2. ASSUME NEW q \in Requests, NEW s \in Scopes, NEW r \in Reviews,
             OrderSubmit(q, s, r)
      PROVE  ReviewInv'
  <2>1. /\ pc[q] = "idle"
        /\ ~ Past(q)
        /\ UNCHANGED market
    BY <1>2 DEF OrderSubmit, ReplyInv, Past
  <2>2. \A x \in Reviews :
          /\ reviews'[x].scope = reviews[x].scope
          /\ reviews'[x].order = reviews[x].order
          /\ \/ reviews'[x].state = reviews[x].state
             \/ reviews'[x].state = "gone" /\ reviews[x].state = "open"
    BY <1>2, PopKeeps DEF OrderSubmit
  <2>3. \A p \in Requests :
          /\ p # q => pc'[p] = pc[p] /\ job'[p] = job[p]
          /\ Past(p)' => p # q /\ Past(p)
    BY <1>2, <2>1 DEF OrderSubmit, Goto, Return, Past, Sent, TypeOK
  <2>4. pc'[q] \in InFlight => /\ job'[q].review = r
                               /\ job'[q].scope = s
                               /\ job'[q].order = reviews[r].order
                               /\ reviews[r].state = "open"
    BY <1>2 DEF OrderSubmit, Goto, Return, Usable, InFlight, TypeOK
  <2>5. \A p \in Requests : pc'[p] \in InFlight =>
          /\ job'[p].review \in Reviews
          /\ job'[p].scope \in Scopes
          /\ job'[p].order \in Orders
    BY <2>3, <2>4 DEF ReviewInv
  <2>. QED
    BY <2>2, <2>3, <2>5 DEF ReviewInv
<1>3. ASSUME NEW q \in Requests, ConsumeReviewLock(q)
      PROVE  ReviewInv'
  <2>1. /\ pc[q] = "consume"
        /\ UNCHANGED <<job, market>>
        /\ ~ Sent(q)
        /\ job[q].review \in Reviews
    BY <1>3 DEF ConsumeReviewLock, ReplyInv, ReviewInv, InFlight
  <2>2. CASE Usable(job[q].review, job[q].scope)
    <3>1. /\ reviews[job[q].review].state = "open"
          /\ reviews[job[q].review].scope = job[q].scope
      BY <2>2 DEF Usable
    <3>2. \A p \in Requests : Past(p) => job[p].review # job[q].review
      BY <3>1 DEF ReviewInv
    <3>3. \A x \in Reviews :
            /\ reviews'[x].scope = reviews[x].scope
            /\ reviews'[x].order = reviews[x].order
            /\ x # job[q].review => reviews'[x].state = reviews[x].state
      BY <1>3, <2>2 DEF ConsumeReviewLock, TypeOK, ReviewRecords
    <3>4. reviews'[job[q].review].state = "consumed"
      BY <1>3, <2>1, <2>2 DEF ConsumeReviewLock, TypeOK, ReviewRecords
    <3>5. \A p \in Requests :
            /\ p # q => pc'[p] = pc[p]
            /\ pc'[p] \in InFlight => pc[p] \in InFlight
            /\ (p # q /\ Past(p)') => Past(p)
      BY <1>3, <2>1
         DEF ConsumeReviewLock, Goto, Return, Past, Sent, InFlight, TypeOK
    <3>6. Past(q)' => reviews[job[q].review].order = job[q].order
      BY <1>3, <2>1, <2>2
         DEF ConsumeReviewLock, Goto, Return, Past, Sent, TypeOK
    <3>. QED
      BY <2>1, <3>1, <3>2, <3>3, <3>4, <3>5, <3>6 DEF ReviewInv
  <2>3. CASE ~ Usable(job[q].review, job[q].scope)
    <3>1. \A x \in Reviews :
            /\ reviews'[x].scope = reviews[x].scope
            /\ reviews'[x].order = reviews[x].order
            /\ \/ reviews'[x].state = reviews[x].state
               \/ reviews'[x].state = "gone" /\ reviews[x].state = "open"
      BY <1>3, <2>3, PopKeeps DEF ConsumeReviewLock
    <3>2. \A p \in Requests :
            /\ pc'[p] \in InFlight => pc[p] \in InFlight
            /\ Past(p)' => Past(p)
      BY <1>3, <2>1, <2>3
         DEF ConsumeReviewLock, Return, Past, Sent, InFlight, TypeOK
    <3>. QED
      BY <2>1, <3>1, <3>2 DEF ReviewInv
  <2>. QED
    BY <2>2, <2>3
<1>4. ASSUME NEW q \in Requests,
             \/ ReadPositions(q) \/ DryRunVerdict(q) \/ PositionsVerdict(q)
             \/ ReadLiveOrders(q) \/ OrdersVerdict(q) \/ ReserveSubmission(q)
             \/ AuditAttempt(q) \/ SendOrder(q) \/ Confirmed(q)
             \/ Unconfirmed(q)
      PROVE  ReviewInv'
  BY <1>4, RequestStepMoves, KeepReview
<1>5. ASSUME NEW q \in Requests, OtherCallerWrites(q)
      PROVE  ReviewInv'
  BY <1>5, KeepReview DEF OtherCallerWrites, Past, Sent
<1>6. ASSUME NEW q \in Requests, MarketStep(q)
      PROVE  ReviewInv'
  <2>1. \A p \in Requests : Past(p)' => Past(p)
    BY <1>6 DEF MarketStep, MarketMoves, Past, Sent, TypeOK
  <2>. QED
    BY <1>6, <2>1, KeepReview DEF MarketStep
<1>7. CASE Tick
  <2>1. \A x \in Reviews : /\ reviews'[x].scope = reviews[x].scope
                           /\ reviews'[x].order = reviews[x].order
                           /\ reviews'[x].state = reviews[x].state
    BY <1>7 DEF Tick, TypeOK, ReviewRecords
  <2>2. \A q \in Requests : Past(q)' = Past(q)
    BY <1>7 DEF Tick, Past, Sent
  <2>3. pc' = pc /\ job' = job
    BY <1>7 DEF Tick
  <2>. QED
    BY <2>1, <2>2, <2>3 DEF ReviewInv
<1>8. CASE Restart
  <2>1. \A x \in Reviews :
          /\ reviews'[x].scope = reviews[x].scope
          /\ reviews'[x].order = reviews[x].order
          /\ IF reviews[x].state = "unborn"
             THEN reviews'[x].state = "unborn"
             ELSE reviews'[x].state = "gone"
    BY <1>8 DEF Restart, TypeOK, ReviewRecords
  <2>2. \A q \in Requests : /\ pc'[q] \notin InFlight
                            /\ Past(q)' => Past(q)
    BY <1>8 DEF Restart, Past, Sent, InFlight, TypeOK
  <2>. QED
    BY <1>8, <2>1, <2>2 DEF Restart, ReviewInv
<1>9. CASE UNCHANGED vars
  BY <1>9, KeepReview DEF vars, Past, Sent
<1>. QED
  BY <1>1, <1>2, <1>3, <1>4, <1>5, <1>6, <1>7, <1>8, <1>9
     DEF Next, RequestStep

-----------------------------------------------------------------------------
(* Every step keeps what a request sent, audited and answered consistent.  *)

(* A step of q that leaves the other requests alone.                       *)
LEMMA KeepReply ==
    ASSUME ReplyInv, NEW q \in Requests,
           \A p \in Requests \ {q} :
               /\ pc'[p] = pc[p]
               /\ market'[p] = market[p]
               /\ reply'[p] = reply[p],
           audit \subseteq audit',
           pc'[q] \notin {"await", "done", "crashed"} => market'[q] = "none",
           pc'[q] = "await" => market'[q] # "none",
           (pc'[q] \in {"send", "await"} \/ market'[q] # "none") =>
               <<"SUBMISSION_ATTEMPT", q>> \in audit',
           reply'[q] # "none" => pc'[q] = "done",
           reply'[q] = "BLOCKED" => market'[q] = "none",
           reply'[q] = "SUBMITTED" =>
               market'[q] \notin {"none", "sent", "refused"}
    PROVE  ReplyInv'
<1> SUFFICES ASSUME NEW p \in Requests
    PROVE /\ pc'[p] \notin {"await", "done", "crashed"} => market'[p] = "none"
          /\ pc'[p] = "await" => market'[p] # "none"
          /\ (pc'[p] \in {"send", "await"} \/ market'[p] # "none") =>
                <<"SUBMISSION_ATTEMPT", p>> \in audit'
          /\ reply'[p] # "none" => pc'[p] = "done"
          /\ reply'[p] = "BLOCKED" => market'[p] = "none"
          /\ reply'[p] = "SUBMITTED" =>
                market'[p] \notin {"none", "sent", "refused"}
    BY DEF ReplyInv, Sent
<1>1. CASE p = q
  BY <1>1
<1>2. CASE p # q
  BY <1>2 DEF ReplyInv, Sent
<1>. QED
  BY <1>1, <1>2

LEMMA ReplyInvStep == TypeOK /\ ReplyInv /\ [Next]_vars => ReplyInv'
<1> SUFFICES ASSUME TypeOK, ReplyInv, [Next]_vars
             PROVE  ReplyInv'
    OBVIOUS
<1>a. \A q \in Requests :
        /\ pc[q] \notin {"await", "done", "crashed"} => market[q] = "none"
        /\ pc[q] = "await" => market[q] # "none"
        /\ (pc[q] \in {"send", "await"} \/ market[q] # "none") =>
              <<"SUBMISSION_ATTEMPT", q>> \in audit
        /\ reply[q] # "none" => pc[q] = "done"
        /\ reply[q] = "BLOCKED" => market[q] = "none"
        /\ reply[q] = "SUBMITTED" =>
              market[q] \notin {"none", "sent", "refused"}
  BY DEF ReplyInv, Sent
<1>t. /\ pc \in [Requests -> PCs]
      /\ market \in [Requests -> MarketStates]
      /\ reply \in [Requests -> Replies]
  BY DEF TypeOK
<1>1. ASSUME NEW r \in Reviews, NEW s \in Scopes, NEW o \in Orders,
             OrderPreview(r, s, o)
      PROVE  ReplyInv'
  BY <1>1, <1>a DEF OrderPreview, ReplyInv, Sent
<1>2. ASSUME NEW q \in Requests, NEW s \in Scopes, NEW r \in Reviews,
             OrderSubmit(q, s, r)
      PROVE  ReplyInv'
  <2>1. /\ pc[q] = "idle"
        /\ market' = market
        /\ audit' = audit
        /\ \/ pc' = [pc EXCEPT ![q] = "dryPositions"] /\ reply' = reply
           \/ /\ pc' = [pc EXCEPT ![q] = "done"]
              /\ reply' = [reply EXCEPT ![q] = "BLOCKED"]
    BY <1>2 DEF OrderSubmit, Goto, Return
  <2>. QED
    BY <2>1, <1>a, <1>t, KeepReply
<1>3. ASSUME NEW q \in Requests,
             \/ ReadPositions(q) \/ DryRunVerdict(q) \/ PositionsVerdict(q)
             \/ ReadLiveOrders(q) \/ OrdersVerdict(q)
             \/ ConsumeReviewLock(q) \/ ReserveSubmission(q)
      PROVE  ReplyInv'
  <2>1. /\ pc[q] \in InFlight \ {"audit", "send", "await"}
        /\ market' = market
        /\ audit \subseteq audit'
    BY <1>3 DEF ReadPositions, DryRunVerdict, PositionsVerdict,
                ReadLiveOrders, OrdersVerdict, ConsumeReviewLock,
                ReserveSubmission, InFlight
  <2>2. \/ /\ \E step \in InFlight \ {"send", "await"} :
                 pc' = [pc EXCEPT ![q] = step]
           /\ reply' = reply
        \/ /\ pc' = [pc EXCEPT ![q] = "done"]
           /\ reply' = [reply EXCEPT ![q] = "BLOCKED"]
    BY <1>3 DEF ReadPositions, DryRunVerdict, PositionsVerdict,
                ReadLiveOrders, OrdersVerdict, ConsumeReviewLock,
                ReserveSubmission, Goto, Return, InFlight
  <2>. QED
    BY <2>1, <2>2, <1>a, <1>t, KeepReply DEF InFlight
<1>4. ASSUME NEW q \in Requests, AuditAttempt(q)
      PROVE  ReplyInv'
  <2>1. /\ pc[q] = "audit"
        /\ market' = market
        /\ \/ /\ audit' = audit \cup {<<"SUBMISSION_ATTEMPT", q>>}
              /\ pc' = [pc EXCEPT ![q] = "send"]
              /\ reply' = reply
           \/ /\ audit' = audit
              /\ pc' = [pc EXCEPT ![q] = "done"]
              /\ reply' = [reply EXCEPT ![q] = "BLOCKED"]
    BY <1>4 DEF AuditAttempt, Goto, Return
  <2>. QED
    BY <2>1, <1>a, <1>t, KeepReply
<1>5. ASSUME NEW q \in Requests, SendOrder(q)
      PROVE  ReplyInv'
  <2>1. /\ pc[q] = "send"
        /\ audit \subseteq audit'
        /\ \/ /\ market' = [market EXCEPT ![q] = "sent"]
              /\ pc' = [pc EXCEPT ![q] = "await"]
              /\ reply' = reply
           \/ /\ market' = market
              /\ pc' = [pc EXCEPT ![q] = "done"]
              /\ reply' = [reply EXCEPT ![q] = "UNCONFIRMED"]
    BY <1>5 DEF SendOrder, Goto, Return, AuditResult
  <2>. QED
    BY <2>1, <1>a, <1>t, KeepReply
<1>6. ASSUME NEW q \in Requests, Confirmed(q) \/ Unconfirmed(q)
      PROVE  ReplyInv'
  <2>1. /\ pc[q] = "await"
        /\ audit \subseteq audit'
        /\ market' = market
        /\ pc' = [pc EXCEPT ![q] = "done"]
        /\ \/ /\ reply' = [reply EXCEPT ![q] = "SUBMITTED"]
              /\ market[q] \notin {"none", "sent", "refused"}
           \/ reply' = [reply EXCEPT ![q] = "UNCONFIRMED"]
    BY <1>6 DEF Confirmed, Unconfirmed, Return, AuditResult
  <2>. QED
    BY <2>1, <1>a, <1>t, KeepReply
<1>7. ASSUME NEW q \in Requests, OtherCallerWrites(q)
      PROVE  ReplyInv'
  BY <1>7, <1>a DEF OtherCallerWrites, ReplyInv, Sent
<1>8. ASSUME NEW q \in Requests, MarketStep(q)
      PROVE  ReplyInv'
  <2>1. pc' = pc /\ reply' = reply /\ audit' = audit
    BY <1>8 DEF MarketStep
  <2>2. \E m \in {"working", "refused", "filled", "cancelled", "closed"} :
          /\ market' = [market EXCEPT ![q] = m]
          /\ m = "refused" => market[q] = "sent"
          /\ market[q] # "none"
    <3>1. /\ market[q] \in DOMAIN MarketMoves
          /\ \E m \in MarketMoves[market[q]] :
               market' = [market EXCEPT ![q] = m]
      BY <1>8 DEF MarketStep
    <3>2. market[q] \in {"sent", "working", "filled"}
      BY <3>1 DEF MarketMoves
    <3>3. /\ MarketMoves["sent"] = {"working", "refused"}
          /\ MarketMoves["working"] = {"filled", "cancelled"}
          /\ MarketMoves["filled"] = {"closed"}
      BY DEF MarketMoves
    <3>4. CASE market[q] = "sent"
      BY <3>1, <3>3, <3>4
    <3>5. CASE market[q] \in {"working", "filled"}
      BY <3>1, <3>3, <3>5
    <3>. QED
      BY <3>2, <3>4, <3>5
  <2>. QED
    BY <2>1, <2>2, <1>a, <1>t, KeepReply
<1>9. CASE Tick
  BY <1>9, <1>a DEF Tick, ReplyInv, Sent
<1>10. CASE Restart
  <2>1. /\ market' = market /\ audit' = audit /\ reply' = reply
        /\ pc' = [q \in Requests |-> IF pc[q] \in InFlight THEN "crashed"
                                                           ELSE pc[q]]
    BY <1>10 DEF Restart
  <2>. QED
    BY <2>1, <1>a DEF ReplyInv, Sent, InFlight
<1>11. CASE UNCHANGED vars
  BY <1>11, <1>a DEF vars, ReplyInv, Sent
<1>. QED
  BY <1>1, <1>2, <1>3, <1>4, <1>5, <1>6, <1>7, <1>8, <1>9, <1>10, <1>11
     DEF Next, RequestStep

-----------------------------------------------------------------------------
(* The theorems about reviews, the audit and the answers.                  *)

LEMMA InitInv == Init => ReviewInv /\ ReplyInv
BY DEF Init, ReviewInv, ReplyInv, Past, Sent, InFlight

(* The strengthened invariants hold in every reachable state.              *)
THEOREM Strengthened == Spec => [](ReviewInv /\ ReplyInv)
<1>1. TypeOK /\ ReviewInv /\ ReplyInv /\ [Next]_vars
        => ReviewInv' /\ ReplyInv'
  BY ReviewInvStep, ReplyInvStep
<1>. QED
  BY InitInv, <1>1, TypeCorrect, PTL DEF Spec

(* For any number of requests, reviews, scopes and orders: one review id   *)
(* never lets two orders leave order_submit.                               *)
THEOREM OneOrderPerReviewHolds == Spec => []OneOrderPerReview
<1>1. ReviewInv => OneOrderPerReview
  BY DEF ReviewInv, OneOrderPerReview, Past
<1>. QED
  BY <1>1, Strengthened, PTL

(* What order_submit sends is the order frozen under the caller's review.  *)
THEOREM SentIsReviewedHolds == Spec => []SentIsReviewed
<1>1. ReviewInv => SentIsReviewed
  BY DEF ReviewInv, SentIsReviewed, Past
<1>. QED
  BY <1>1, Strengthened, PTL

(* No order is at the broker without its durable SUBMISSION_ATTEMPT.       *)
THEOREM AttemptAuditedHolds == Spec => []AttemptAudited
<1>1. ReplyInv => AttemptAudited
  BY DEF ReplyInv, AttemptAudited
<1>. QED
  BY <1>1, Strengthened, PTL

(* BLOCKED means nothing was sent, SUBMITTED that the broker accepted.     *)
THEOREM HonestReplyHolds == Spec => []HonestReply
<1>1. ReplyInv => HonestReply
  BY DEF ReplyInv, HonestReply
<1>. QED
  BY <1>1, Strengthened, PTL

-----------------------------------------------------------------------------
(* Reservations, when no audit write outlasts one.                         *)

(* The key of a request in flight is a key of the reservation dictionary.  *)
LEMMA KeyType ==
    ASSUME ReviewInv, NEW q \in Requests, pc[q] \in InFlight
    PROVE  Key(q) \in Keys
BY OrderAssumptions DEF ReviewInv, Key, KeyOf, Keys

(* Steps that leave grants alone and move no request to the audit.         *)
LEMMA KeepGrant ==
    ASSUME TypeOK, GrantInv,
           reservations' = reservations, granted' = granted,
           \A q \in Requests :
               /\ pc'[q] = "audit" => pc[q] = "audit"
               /\ pc'[q] = "idle" => pc[q] = "idle"
               /\ pc[q] # "idle" => job'[q] = job[q]
    PROVE  GrantInv'
<1>1. \A q \in Requests : granted[q] > 0 => Key(q)' = Key(q)
  BY DEF GrantInv, Key, KeyOf
<1>. QED
  BY <1>1 DEF GrantInv, ReservationExclusive

LEMMA GrantInvStep ==
    ASSUME TypeOK, ReviewInv, GrantInv, [Next]_vars,
           "slowAudit" \notin Faults
    PROVE  GrantInv'
<1>a. /\ reservations \in [Keys -> Nat]
      /\ granted \in [Requests -> Nat]
      /\ pc \in [Requests -> PCs]
      /\ ReserveTTL \in Nat /\ ReserveTTL > 0
  BY OrderAssumptions DEF TypeOK
<1>g. /\ \A q \in Requests : granted[q] > 0 =>
            /\ pc[q] # "idle"
            /\ Key(q) \in Keys
            /\ granted[q] <= reservations[Key(q)]
      /\ \A q \in Requests : pc[q] = "audit" => granted[q] > 0
      /\ \A p, q \in Requests :
            (p # q /\ granted[p] > 0 /\ granted[q] > 0) => Key(p) # Key(q)
  BY DEF GrantInv, ReservationExclusive
<1>1. ASSUME NEW r \in Reviews, NEW s \in Scopes, NEW o \in Orders,
             OrderPreview(r, s, o)
      PROVE  GrantInv'
  BY <1>1, KeepGrant DEF OrderPreview
<1>2. ASSUME NEW q \in Requests, NEW s \in Scopes, NEW r \in Reviews,
             OrderSubmit(q, s, r)
      PROVE  GrantInv'
  <2>1. /\ pc[q] = "idle"
        /\ reservations' = reservations /\ granted' = granted
        /\ \/ pc' = [pc EXCEPT ![q] = "dryPositions"]
           \/ pc' = [pc EXCEPT ![q] = "done"]
        /\ \A p \in Requests \ {q} : job'[p] = job[p]
    BY <1>2 DEF OrderSubmit, Goto, Return, TypeOK
  <2>. QED
    BY <2>1, <1>a, KeepGrant
<1>3. ASSUME NEW q \in Requests,
             \/ ReadPositions(q) \/ DryRunVerdict(q) \/ PositionsVerdict(q)
             \/ ReadLiveOrders(q) \/ OrdersVerdict(q)
             \/ ConsumeReviewLock(q) \/ SendOrder(q)
             \/ Confirmed(q) \/ Unconfirmed(q)
      PROVE  GrantInv'
  <2>1. reservations' = reservations /\ granted' = granted /\ job' = job
    BY <1>3 DEF ReadPositions, DryRunVerdict, PositionsVerdict,
                ReadLiveOrders, OrdersVerdict, ConsumeReviewLock, SendOrder,
                Confirmed, Unconfirmed
  <2>2. \E step \in PCs \ {"audit", "idle"} : pc' = [pc EXCEPT ![q] = step]
    BY <1>3 DEF ReadPositions, DryRunVerdict, PositionsVerdict,
                ReadLiveOrders, OrdersVerdict, ConsumeReviewLock, SendOrder,
                Confirmed, Unconfirmed, Goto, Return, PCs, InFlight
  <2>. QED
    BY <2>1, <2>2, <1>a, KeepGrant
<1>4. ASSUME NEW q \in Requests, ReserveSubmission(q)
      PROVE  GrantInv'
  <2>1. CASE reservations[Key(q)] # 0
    <3>1. /\ reservations' = reservations /\ granted' = granted
          /\ job' = job /\ pc' = [pc EXCEPT ![q] = "done"]
      BY <1>4, <2>1 DEF ReserveSubmission, Return
    <3>. QED
      BY <3>1, <1>a, KeepGrant
  <2>2. CASE reservations[Key(q)] = 0
    <3>1. /\ reservations' = [reservations EXCEPT ![Key(q)] = ReserveTTL]
          /\ granted' = [granted EXCEPT ![q] = ReserveTTL]
          /\ job' = job /\ pc' = [pc EXCEPT ![q] = "audit"]
          /\ pc[q] = "reserve"
      BY <1>4, <2>2 DEF ReserveSubmission, Goto
    <3>2. Key(q) \in Keys
      BY <3>1, KeyType DEF InFlight
    <3>3. \A p \in Requests : Key(p)' = Key(p)
      BY <3>1 DEF Key, KeyOf
    <3>4. \A p \in Requests : p # q /\ granted[p] > 0 => Key(p) # Key(q)
      <4>. SUFFICES ASSUME NEW p \in Requests, granted[p] > 0
                    PROVE  Key(p) # Key(q)
        OBVIOUS
      <4>1. granted[p] <= reservations[Key(p)] /\ granted[p] \in Nat
        BY <1>g, <1>a
      <4>. QED
        BY <4>1, <2>2
    <3>5. \A p \in Requests : granted'[p] > 0 =>
            /\ pc'[p] # "idle"
            /\ Key(p)' \in Keys
            /\ granted'[p] <= reservations'[Key(p)']
      BY <3>1, <3>2, <3>3, <3>4, <1>a, <1>g
    <3>6. \A p \in Requests : pc'[p] = "audit" => granted'[p] > 0
      BY <3>1, <1>a, <1>g
    <3>7. \A p1, p2 \in Requests :
            (p1 # p2 /\ granted'[p1] > 0 /\ granted'[p2] > 0)
              => Key(p1)' # Key(p2)'
      BY <3>1, <3>3, <3>4, <1>a, <1>g
    <3>. QED
      BY <3>5, <3>6, <3>7 DEF GrantInv, ReservationExclusive
  <2>. QED
    BY <2>1, <2>2
<1>5. ASSUME NEW q \in Requests, AuditAttempt(q)
      PROVE  GrantInv'
  <2>1. /\ pc[q] = "audit" /\ job' = job
        /\ \/ /\ reservations' = reservations /\ granted' = granted
              /\ pc' = [pc EXCEPT ![q] = "send"]
           \/ /\ reservations' = [reservations EXCEPT ![Key(q)] = 0]
              /\ granted' = [granted EXCEPT ![q] = 0]
              /\ pc' = [pc EXCEPT ![q] = "done"]
    BY <1>5 DEF AuditAttempt, Goto, Return, ReleaseSubmission
  <2>2. CASE reservations' = reservations /\ granted' = granted
                /\ pc' = [pc EXCEPT ![q] = "send"]
    BY <2>1, <2>2, <1>a, KeepGrant
  <2>3. CASE /\ reservations' = [reservations EXCEPT ![Key(q)] = 0]
             /\ granted' = [granted EXCEPT ![q] = 0]
             /\ pc' = [pc EXCEPT ![q] = "done"]
    <3>1. \A p \in Requests : Key(p)' = Key(p)
      BY <2>1 DEF Key, KeyOf
    <3>2. \A p \in Requests : p # q /\ granted[p] > 0 => Key(p) # Key(q)
      BY <2>1, <1>g
    <3>3. \A p \in Requests : granted'[p] > 0 =>
            /\ pc'[p] # "idle"
            /\ Key(p)' \in Keys
            /\ granted'[p] <= reservations'[Key(p)']
      BY <2>3, <3>1, <3>2, <1>a, <1>g
    <3>4. \A p \in Requests : pc'[p] = "audit" => granted'[p] > 0
      BY <2>3, <1>a, <1>g
    <3>5. \A p1, p2 \in Requests :
            (p1 # p2 /\ granted'[p1] > 0 /\ granted'[p2] > 0)
              => Key(p1)' # Key(p2)'
      BY <2>3, <3>1, <1>a, <1>g
    <3>. QED
      BY <3>3, <3>4, <3>5 DEF GrantInv, ReservationExclusive
  <2>. QED
    BY <2>1, <2>2, <2>3
<1>6. ASSUME NEW q \in Requests, OtherCallerWrites(q) \/ MarketStep(q)
      PROVE  GrantInv'
  BY <1>6, KeepGrant DEF OtherCallerWrites, MarketStep
<1>7. CASE Tick
  <2>1. /\ \A q \in Requests : pc[q] = "audit" => granted[q] > 1
        /\ \A k \in Keys : reservations'[k] = IF reservations[k] > 0
                                        THEN reservations[k] - 1 ELSE 0
        /\ \A q \in Requests : granted'[q] = IF granted[q] > 0
                                        THEN granted[q] - 1 ELSE 0
        /\ pc' = pc /\ job' = job
    BY <1>7 DEF Tick
  <2>2. \A p \in Requests : Key(p)' = Key(p)
    BY <2>1 DEF Key, KeyOf
  <2>3. \A p \in Requests : granted[p] \in Nat
    BY <1>a
  <2>4. \A k \in Keys : reservations[k] \in Nat
    BY <1>a
  <2>5. \A p \in Requests : granted'[p] > 0 => granted[p] > 0
    BY <2>1, <2>3
  <2>6. \A p \in Requests : granted'[p] > 0 =>
            /\ pc'[p] # "idle"
            /\ Key(p)' \in Keys
            /\ granted'[p] <= reservations'[Key(p)']
    BY <2>1, <2>2, <2>3, <2>4, <2>5, <1>g
  <2>7. \A p \in Requests : pc'[p] = "audit" => granted'[p] > 0
    BY <2>1, <2>3
  <2>. QED
    BY <2>2, <2>5, <2>6, <2>7, <1>g DEF GrantInv, ReservationExclusive
<1>8. CASE Restart
  <2>1. \A q \in Requests : granted'[q] = 0 /\ pc'[q] # "audit"
    BY <1>8 DEF Restart, InFlight
  <2>. QED
    BY <2>1 DEF GrantInv, ReservationExclusive
<1>9. CASE UNCHANGED vars
  BY <1>9, KeepGrant DEF vars
<1>. QED
  BY <1>1, <1>2, <1>3, <1>4, <1>5, <1>6, <1>7, <1>8, <1>9
     DEF Next, RequestStep

(* If every audit write ends before the reservation it guards, then while  *)
(* a reservation lasts no second request is granted the same key.          *)
THEOREM ReservationExclusiveHolds ==
    ASSUME "slowAudit" \notin Faults
    PROVE  Spec => []ReservationExclusive
<1>1. Init => GrantInv
  BY DEF Init, GrantInv, ReservationExclusive
<1>2. TypeOK /\ ReviewInv /\ GrantInv /\ [Next]_vars => GrantInv'
  BY GrantInvStep
<1>3. GrantInv => ReservationExclusive
  BY DEF GrantInv
<1>4. Spec => []GrantInv
  BY <1>1, <1>2, TypeCorrect, Strengthened, PTL DEF Spec
<1>. QED
  BY <1>3, <1>4, PTL

-----------------------------------------------------------------------------
(* Broker reads that fail.                                                 *)

LEMMA FailInvStep ==
    ASSUME TypeOK, ReplyInv, FailInv, [Next]_vars
    PROVE  FailInv'
<1>t. /\ pc \in [Requests -> PCs] /\ market \in [Requests -> MarketStates]
      /\ lastError \in [Requests -> BOOLEAN]
      /\ failed \in [Requests -> {"no", "flagged", "hidden"}]
  BY DEF TypeOK
<1>0. ASSUME NEW q \in Requests, NEW step,
             pc' = [pc EXCEPT ![q] = step],
             \A p \in Requests \ {q} : /\ failed'[p] = failed[p] /\ market'[p] = market[p]
                                       /\ lastError'[p] = lastError[p],
             failed'[q] = "flagged" =>
                /\ step # "idle" /\ market'[q] = "none"
                /\ step \in InFlight => step \in Verifying /\ lastError'[q]
      PROVE  FailInv'
  <2>. SUFFICES ASSUME NEW p \in Requests, failed'[p] = "flagged"
                PROVE  /\ pc'[p] # "idle"
                       /\ pc'[p] \in InFlight => pc'[p] \in Verifying /\ lastError'[p]
                       /\ market'[p] = "none"
    BY DEF FailInv, Sent
  <2>1. CASE p = q
    BY <1>t, <1>0, <2>1
  <2>2. CASE p # q
    BY <1>t, <1>0, <2>2 DEF FailInv, Sent
  <2>. QED
    BY <2>1, <2>2
<1>1. ASSUME NEW q \in Requests, NEW s \in Scopes, NEW r \in Reviews, OrderSubmit(q, s, r)
      PROVE  FailInv'
  <2>1. /\ pc[q] = "idle" /\ UNCHANGED <<failed, market, lastError>>
        /\ \E step : pc' = [pc EXCEPT ![q] = step]
    BY <1>1 DEF OrderSubmit, Goto, Return
  <2>2. failed[q] # "flagged"
    BY <2>1 DEF FailInv
  <2>. QED
    BY <1>0, <2>1, <2>2
<1>2. ASSUME NEW q \in Requests, ReadPositions(q) PROVE FailInv'
  <2>1. /\ pc[q] \in InFlight \ Verifying /\ market[q] = "none" /\ UNCHANGED market
        /\ failed[q] # "flagged"
    BY <1>2 DEF ReadPositions, InFlight, Verifying, ReplyInv, Sent, FailInv
  <2>2. \/ /\ \E step \in Verifying : pc' = [pc EXCEPT ![q] = step]
           /\ \E f \in {"no", "flagged", "hidden"}, v \in BOOLEAN :
                /\ failed' = [failed EXCEPT ![q] = f]
                /\ lastError' = [lastError EXCEPT ![q] = v]
                /\ f = "flagged" => v
        \/ pc' = [pc EXCEPT ![q] = "done"] /\ UNCHANGED <<failed, lastError>>
    BY <1>2 DEF ReadPositions, ReadSucceeds, ReadFails, Goto, Return, Verifying
  <2>. QED
    BY <1>0, <1>t, <2>1, <2>2 DEF Verifying, InFlight
<1>3. ASSUME NEW q \in Requests, ReadLiveOrders(q) PROVE FailInv'
  <2>1. /\ pc[q] \in InFlight \ Verifying /\ market[q] = "none" /\ UNCHANGED market
        /\ failed[q] # "flagged"
    BY <1>3 DEF ReadLiveOrders, InFlight, Verifying, ReplyInv, Sent, FailInv
  <2>2. /\ pc' = [pc EXCEPT ![q] = "verifyOrders"]
        /\ \/ UNCHANGED failed /\ \E v : lastError' = [lastError EXCEPT ![q] = v]
           \/ /\ failed' = [failed EXCEPT ![q] = "flagged"]
              /\ lastError' = [lastError EXCEPT ![q] = TRUE]
    BY <1>3 DEF ReadLiveOrders, ReadSucceeds, ReadFails, Goto
  <2>. QED
    BY <1>0, <1>t, <2>1, <2>2 DEF Verifying, InFlight
<1>4. ASSUME NEW q \in Requests, DryRunVerdict(q) \/ PositionsVerdict(q) \/ OrdersVerdict(q)
      PROVE  FailInv'
  <2>1. /\ pc[q] \in Verifying /\ market[q] = "none" /\ UNCHANGED <<market, failed>>
        /\ lastError' = [lastError EXCEPT ![q] = FALSE]
    BY <1>4 DEF DryRunVerdict, PositionsVerdict, OrdersVerdict, Forget, Verifying, ReplyInv,
                Sent
  <2>2. \/ /\ ~ lastError[q]
           /\ \E step \in {"positions", "orders", "consume"} : pc' = [pc EXCEPT ![q] = step]
        \/ pc' = [pc EXCEPT ![q] = "done"]
    BY <1>4 DEF DryRunVerdict, PositionsVerdict, OrdersVerdict, NoConflict, Goto, Return
  <2>3. ~ lastError[q] => failed[q] # "flagged"
    BY <2>1 DEF FailInv, Verifying, InFlight
  <2>. QED
    BY <1>0, <1>t, <2>1, <2>2, <2>3 DEF InFlight
<1>5. ASSUME NEW q \in Requests,
             \/ ConsumeReviewLock(q) \/ ReserveSubmission(q) \/ AuditAttempt(q)
             \/ SendOrder(q) \/ Confirmed(q) \/ Unconfirmed(q)
      PROVE  FailInv'
  <2>1. /\ pc[q] \in InFlight \ Verifying /\ UNCHANGED <<failed, lastError>>
        /\ \A p \in Requests \ {q} : market'[p] = market[p]
    BY <1>t, <1>5 DEF ConsumeReviewLock, ReserveSubmission, AuditAttempt, SendOrder,
                      Confirmed, Unconfirmed, InFlight, Verifying
  <2>2. \E step : pc' = [pc EXCEPT ![q] = step]
    BY <1>5 DEF ConsumeReviewLock, ReserveSubmission, AuditAttempt, SendOrder,
                Confirmed, Unconfirmed, Goto, Return
  <2>3. failed[q] # "flagged"
    BY <2>1 DEF FailInv
  <2>. QED
    BY <1>0, <2>1, <2>2, <2>3
<1>6. ASSUME NEW q \in Requests, MarketStep(q) PROVE FailInv'
  <2>1. /\ UNCHANGED <<pc, failed, lastError>> /\ market[q] # "none"
        /\ \A p \in Requests \ {q} : market'[p] = market[p]
    BY <1>t, <1>6 DEF MarketStep, MarketMoves
  <2>. QED
    BY <2>1 DEF FailInv, Sent
<1>7. CASE Restart
  <2>1. /\ UNCHANGED <<market, failed>>
        /\ \A p \in Requests : pc'[p] = IF pc[p] \in InFlight THEN "crashed" ELSE pc[p]
    BY <1>7 DEF Restart
  <2>. QED
    BY <2>1 DEF FailInv, Sent, InFlight
<1>8. ASSUME \/ UNCHANGED vars \/ Tick
             \/ \E r \in Reviews, s \in Scopes, o \in Orders : OrderPreview(r, s, o)
      PROVE  FailInv'
  BY <1>8 DEF vars, Tick, OrderPreview, FailInv, Sent
<1>9. ASSUME NEW q \in Requests, OtherCallerWrites(q) PROVE FailInv'
  <2>1. /\ UNCHANGED <<pc, market>> /\ failed'[q] # "flagged"
        /\ \A p \in Requests \ {q} :
              failed'[p] = failed[p] /\ lastError'[p] = lastError[p]
    BY <1>t, <1>9 DEF OtherCallerWrites
  <2>. QED
    BY <2>1 DEF FailInv, Sent
<1>. QED
  BY <1>1, <1>2, <1>3, <1>4, <1>5, <1>6, <1>7, <1>8, <1>9 DEF Next, RequestStep

LEMMA FailInvHolds == Spec => []FailInv
<1>1. Init => FailInv
  BY DEF Init, FailInv
<1>2. TypeOK /\ ReplyInv /\ FailInv /\ [Next]_vars => FailInv'
  BY FailInvStep
<1>. QED
  BY <1>1, <1>2, TypeCorrect, Strengthened, PTL DEF Spec

(* A request one of whose broker reads failed sends nothing, however many  *)
(* requests run and whatever else fails, as long as last_error still shows *)
(* the failure when it is looked at.                                       *)
THEOREM LookupFailureHolds == Spec => []LookupFailureBlocks
<1>1. FailInv => LookupFailureBlocks
  BY DEF FailInv, LookupFailureBlocks
<1>. QED
  BY <1>1, FailInvHolds, PTL

-----------------------------------------------------------------------------
(* What a request knows of another's order when it sends its own.          *)

(* Only its own send takes a request's order from none to the broker.      *)
LEMMA Sends ==
    ASSUME TypeOK, [Next]_vars, NEW q \in Requests, ~ Sent(q), Sent(q)'
    PROVE  SendOrder(q)
<1>t. market \in [Requests -> MarketStates]
  BY DEF TypeOK
<1>1. ASSUME NEW p \in Requests, SendOrder(p) PROVE p = q
  BY <1>t, <1>1 DEF SendOrder, Sent
<1>2. ASSUME NEW p \in Requests, MarketStep(p) PROVE FALSE
  <2>1. p # q /\ \A x \in Requests \ {p} : market'[x] = market[x]
    BY <1>t, <1>2 DEF MarketStep, MarketMoves, Sent
  <2>. QED
    BY <2>1 DEF Sent
<1>3. ASSUME NEW p \in Requests,
             \/ \E s \in Scopes, r \in Reviews : OrderSubmit(p, s, r)
             \/ ReadPositions(p) \/ DryRunVerdict(p) \/ PositionsVerdict(p)
             \/ ReadLiveOrders(p) \/ OrdersVerdict(p) \/ ConsumeReviewLock(p)
             \/ ReserveSubmission(p) \/ AuditAttempt(p) \/ Confirmed(p) \/ Unconfirmed(p)
             \/ OtherCallerWrites(p)
      PROVE  FALSE
  BY <1>3 DEF OrderSubmit, ReadPositions, DryRunVerdict, PositionsVerdict, ReadLiveOrders,
              OrdersVerdict, ConsumeReviewLock, ReserveSubmission, AuditAttempt, Confirmed,
              Unconfirmed, OtherCallerWrites, Sent
<1>4. ASSUME \/ UNCHANGED vars \/ Tick \/ Restart
             \/ \E r \in Reviews, s \in Scopes, o \in Orders : OrderPreview(r, s, o)
      PROVE  FALSE
  BY <1>4 DEF vars, Tick, Restart, OrderPreview, Sent
<1>. QED
  BY <1>1, <1>2, <1>3, <1>4 DEF Next, RequestStep

(* A request trades one job from its call on.                              *)
LEMMA JobStays ==
    ASSUME TypeOK, [Next]_vars, NEW x \in Requests, pc[x] # "idle"
    PROVE  job'[x] = job[x]
<1>1. ASSUME NEW y \in Requests, NEW s \in Scopes, NEW r \in Reviews, OrderSubmit(y, s, r)
      PROVE  job'[x] = job[x]
  BY <1>1 DEF OrderSubmit, TypeOK
<1>2. ASSUME ~ \E y \in Requests, s \in Scopes, r \in Reviews : OrderSubmit(y, s, r)
      PROVE  UNCHANGED job
  BY <1>2 DEF Next, RequestStep, vars, Tick, Restart, OrderPreview, ReadPositions,
       DryRunVerdict, PositionsVerdict, ReadLiveOrders, OrdersVerdict, ConsumeReviewLock,
       ReserveSubmission, AuditAttempt, SendOrder, Confirmed, Unconfirmed,
       OtherCallerWrites, MarketStep
<1>. QED
  BY <1>1, <1>2

(* What q knows of p's order survives a step that is not q's own, if the   *)
(* order does not move, is only sent, or fills where unseen remembers it.  *)
LEMMA KnowsStays ==
    ASSUME NEW p \in Requests, NEW q \in Requests, Knows(q, p),
           pc'[q] = pc[q], job'[q] = job[q], seen'[q] = seen[q],
           failed'[q] \in {failed[q], "hidden"}, unseen[q] \subseteq unseen'[q],
           \/ market'[p] = market[p] /\ job'[p] = job[p]
           \/ ~ Sent(p) /\ market'[p] \in {"none", "sent"}
           \/ /\ job'[p] = job[p] /\ Sent(p) /\ Sent(p)'
              /\ Standing(p)' => Standing(p)
              /\ market'[p] = "filled" /\ pc[q] \in {"verifyPositions", "orders"} =>
                    p \in unseen'[q]
    PROVE  Knows(q, p)'
<1>1. CASE failed'[q] = "hidden"
  BY <1>1 DEF Knows, Checked, Compared, CouldNotSee
<1>2. CASE failed'[q] = failed[q]
  <2>1. CouldNotSee(q, p) => CouldNotSee(q, p)'
    BY <1>2 DEF CouldNotSee
  <2>2. /\ Account(q)' = Account(q) /\ LegsOf(q)' = LegsOf(q)
        /\ job'[p] = job[p] => Account(p)' = Account(p) /\ LegsOf(p)' = LegsOf(p)
    BY DEF Account, LegsOf
  <2>3. CASE ~ Sent(p) /\ market'[p] \in {"none", "sent"}
    BY <1>2, <2>1, <2>3 DEF Knows, Checked, Compared, Standing, Sent, OrdersChecked
  <2>4. CASE market'[p] = market[p] /\ job'[p] = job[p]
    BY <1>2, <2>1, <2>2, <2>4 DEF Knows, Checked, Compared, Listed, Apart, Standing, Sent
  <2>5. CASE /\ job'[p] = job[p] /\ Sent(p) /\ Sent(p)'
             /\ Standing(p)' => Standing(p)
             /\ market'[p] = "filled" /\ pc[q] \in {"verifyPositions", "orders"} =>
                   p \in unseen'[q]
    BY <1>2, <2>1, <2>2, <2>5
       DEF Knows, Checked, Compared, CouldNotSee, Listed, Apart, OrdersChecked
  <2>. QED
    BY <2>3, <2>4, <2>5
<1>. QED
  BY <1>1, <1>2

(* It knows nothing before it has read the positions to submit, and needs  *)
(* nothing after its send.                                                 *)
LEMMA KnowsEarly ==
    ASSUME NEW p \in Requests, NEW q \in Requests,
           pc'[q] \notin {"verifyPositions", "orders", "verifyOrders"} \cup OrdersChecked
    PROVE  Knows(q, p)'
BY DEF Knows, Checked, OrdersChecked

(* Its own steps look the order up, and compare.                           *)
LEMMA KnowsOwnStep ==
    ASSUME TypeOK, FailInv, NEW p \in Requests, NEW q \in Requests, p # q,
           Knows(q, p), RequestStep(q)
    PROVE  Knows(q, p)'
<1>t. /\ pc \in [Requests -> PCs] /\ seen \in [Requests -> SUBSET Symbols]
      /\ failed \in [Requests -> {"no", "flagged", "hidden"}]
      /\ unseen \in [Requests -> SUBSET Requests]
  BY DEF TypeOK
<1>1. ASSUME \/ \E s \in Scopes, r \in Reviews : OrderSubmit(q, s, r)
             \/ DryRunVerdict(q) \/ SendOrder(q) \/ Confirmed(q) \/ Unconfirmed(q)
      PROVE  Knows(q, p)'
  <2>1. pc'[q] \in {"dryPositions", "positions", "await", "done"}
    BY <1>t, <1>1 DEF OrderSubmit, DryRunVerdict, SendOrder, Confirmed, Unconfirmed, Goto,
                      Return
  <2>. QED
    BY <2>1, KnowsEarly DEF OrdersChecked
<1>2. CASE ReadPositions(q)
  <2>1. /\ UNCHANGED <<job, market>>
        /\ \/ pc'[q] \in {"dryVerify", "done"}
           \/ /\ pc'[q] = "verifyPositions"
              /\ seen'[q] = Held(Account(q)) \/ failed'[q] \in {"flagged", "hidden"}
    BY <1>t, <1>2 DEF ReadPositions, ReadSucceeds, ReadFails, Goto, Return
  <2>2. market[p] = "filled" /\ Account(p) = Account(q) =>
           LegsOf(p) \subseteq Held(Account(q))
    BY DEF Held, SymbolsAt
  <2>3. /\ Account(p)' = Account(p) /\ Account(q)' = Account(q)
        /\ LegsOf(p)' = LegsOf(p)
    BY <2>1 DEF Account, LegsOf
  <2>. QED
    BY <2>1, <2>2, <2>3
       DEF Knows, Checked, Listed, CouldNotSee, OrdersChecked
<1>3. CASE ReadLiveOrders(q)
  <2>1. /\ UNCHANGED <<job, market>> /\ pc[q] = "orders" /\ pc'[q] = "verifyOrders"
        /\ \/ /\ seen'[q] = Working(Account(q)) /\ failed' = failed
              /\ unseen'[q] = unseen[q] \cup (NotAccepted \ {q})
           \/ failed'[q] = "flagged"
    BY <1>t, <1>3 DEF ReadLiveOrders, ReadSucceeds, ReadFails, Goto
  <2>2. failed[q] # "flagged"
    BY <2>1 DEF FailInv, InFlight, Verifying
  <2>3. /\ market[p] = "working" /\ Account(p) = Account(q) =>
              LegsOf(p) \subseteq Working(Account(q))
        /\ market[p] \in {"none", "sent"} => p \in NotAccepted
    BY DEF Working, SymbolsAt, NotAccepted
  <2>4. /\ Account(p)' = Account(p) /\ Account(q)' = Account(q)
        /\ LegsOf(p)' = LegsOf(p) /\ LegsOf(q)' = LegsOf(q)
    BY <2>1 DEF Account, LegsOf
  <2>5. market[p] = "filled" /\ Account(p) = Account(q) => Compared(q, p)
    BY <2>1, <2>2 DEF Knows, Checked, Standing, InFlight
  <2>. QED
    BY <2>1, <2>3, <2>4, <2>5
       DEF Knows, Checked, Listed, Compared, Apart, CouldNotSee, Standing, Sent, OrdersChecked
<1>4. CASE PositionsVerdict(q) \/ OrdersVerdict(q)
  <2>1. /\ UNCHANGED <<job, market, failed, unseen>>
        /\ \/ pc'[q] = "done"
           \/ /\ pc[q] = "verifyPositions" /\ pc'[q] = "orders"
              /\ LegsOf(q) \cap seen[q] = {}
           \/ /\ pc[q] = "verifyOrders" /\ pc'[q] = "consume"
              /\ LegsOf(q) \cap seen[q] = {}
    BY <1>t, <1>4 DEF PositionsVerdict, OrdersVerdict, NoConflict, Goto, Return
  <2>2. /\ Account(p)' = Account(p) /\ Account(q)' = Account(q)
        /\ LegsOf(p)' = LegsOf(p) /\ LegsOf(q)' = LegsOf(q)
    BY <2>1 DEF Account, LegsOf
  <2>3. LegsOf(q) \cap seen[q] = {} /\ Listed(q, p) => Apart(q, p)
    BY DEF Listed, Apart
  <2>. QED
    BY <2>1, <2>2, <2>3
       DEF Knows, Checked, Compared, Apart, CouldNotSee, Standing, Sent, OrdersChecked, InFlight
<1>5. CASE ConsumeReviewLock(q) \/ ReserveSubmission(q) \/ AuditAttempt(q)
  <2>1. /\ UNCHANGED <<job, market, failed, unseen>>
        /\ \/ pc'[q] = "done"
           \/ pc[q] \in OrdersChecked /\ pc'[q] \in OrdersChecked
    BY <1>t, <1>5 DEF ConsumeReviewLock, ReserveSubmission, AuditAttempt, Goto, Return,
                      OrdersChecked
  <2>2. /\ Account(p)' = Account(p) /\ Account(q)' = Account(q)
        /\ LegsOf(p)' = LegsOf(p) /\ LegsOf(q)' = LegsOf(q)
    BY <2>1 DEF Account, LegsOf
  <2>. QED
    BY <2>1, <2>2
       DEF Knows, Checked, Compared, Apart, CouldNotSee, Standing, Sent, OrdersChecked, InFlight
<1>. QED
  BY <1>1, <1>2, <1>3, <1>4, <1>5 DEF RequestStep

(* The steps of the other request, and of a third.                         *)
LEMMA KnowsOtherStep ==
    ASSUME TypeOK, ReplyInv, NEW p \in Requests, NEW q \in Requests, NEW r \in Requests,
           r # q, Knows(q, p), RequestStep(r)
    PROVE  Knows(q, p)'
<1>t. /\ pc \in [Requests -> PCs] /\ seen \in [Requests -> SUBSET Symbols]
      /\ failed \in [Requests -> {"no", "flagged", "hidden"}]
      /\ unseen \in [Requests -> SUBSET Requests] /\ market \in [Requests -> MarketStates]
      /\ job \in [Requests -> [scope: Scopes \cup {None}, review: Reviews \cup {None},
                               order: Orders \cup {None}]]
  BY DEF TypeOK
<1>1. ASSUME NEW s \in Scopes, NEW v \in Reviews, OrderSubmit(r, s, v)
      PROVE  Knows(q, p)'
  <2>1. /\ UNCHANGED <<seen, failed, unseen, market>> /\ ~ Sent(r)
        /\ \A x \in Requests \ {r} : pc'[x] = pc[x] /\ job'[x] = job[x]
    BY <1>t, <1>1 DEF OrderSubmit, Goto, Return, ReplyInv
  <2>. QED
    BY <2>1, KnowsStays DEF Sent
<1>2. CASE SendOrder(r)
  <2>1. /\ UNCHANGED <<seen, failed, unseen, job>> /\ ~ Sent(r)
        /\ market'[r] \in {"none", "sent"}
        /\ \A x \in Requests \ {r} : pc'[x] = pc[x] /\ market'[x] = market[x]
    BY <1>t, <1>2 DEF SendOrder, Goto, Return, ReplyInv, Sent
  <2>. QED
    BY <2>1, KnowsStays
<1>3. ASSUME \/ ReadPositions(r) \/ DryRunVerdict(r) \/ PositionsVerdict(r)
             \/ ReadLiveOrders(r) \/ OrdersVerdict(r) \/ ConsumeReviewLock(r)
             \/ ReserveSubmission(r) \/ AuditAttempt(r) \/ Confirmed(r) \/ Unconfirmed(r)
      PROVE  Knows(q, p)'
  <2>1. /\ UNCHANGED <<market, job>>
        /\ \A x \in Requests \ {r} : /\ pc'[x] = pc[x] /\ seen'[x] = seen[x]
                                     /\ failed'[x] = failed[x] /\ unseen'[x] = unseen[x]
    BY <1>t, <1>3 DEF ReadPositions, DryRunVerdict, PositionsVerdict, ReadLiveOrders,
         OrdersVerdict, ConsumeReviewLock, ReserveSubmission, AuditAttempt, Confirmed,
         Unconfirmed, ReadSucceeds, ReadFails, Forget, Goto, Return
  <2>. QED
    BY <2>1, KnowsStays
<1>. QED
  BY <1>1, <1>2, <1>3 DEF RequestStep

(* The market's steps: a fill between the two reads is one q cannot see.   *)
LEMMA KnowsMarketStep ==
    ASSUME TypeOK, NEW p \in Requests, NEW q \in Requests, NEW x \in Requests,
           Knows(q, p), MarketStep(x)
    PROVE  Knows(q, p)'
<1>t. /\ market \in [Requests -> MarketStates] /\ unseen \in [Requests -> SUBSET Requests]
  BY DEF TypeOK
<1>1. PICK m \in MarketMoves[market[x]] :
        /\ market' = [market EXCEPT ![x] = m]
        /\ unseen' = [y \in Requests |-> IF m = "filled" /\ y \in BetweenReads
                                         THEN unseen[y] \cup {x} ELSE unseen[y]]
  BY DEF MarketStep
<1>2. /\ UNCHANGED <<pc, job, seen, failed>>
      /\ market[x] \in {"sent", "working", "filled"}
  BY DEF MarketStep, MarketMoves
<1>3. /\ m \in {"working", "refused", "filled", "cancelled", "closed"}
      /\ m \in {"working", "filled"} => market[x] \in {"sent", "working"}
  BY <1>1, <1>2 DEF MarketMoves
<1>4. unseen[q] \subseteq unseen'[q]
  BY <1>1, <1>t
<1>5. CASE p # x
  BY <1>1, <1>2, <1>4, <1>5, <1>t, KnowsStays
<1>6. CASE p = x
  <2>1. /\ Sent(p) /\ Sent(p)'
        /\ Standing(p)' => Standing(p)
    BY <1>1, <1>2, <1>3, <1>6, <1>t DEF Sent, Standing
  <2>2. market'[p] = "filled" /\ pc[q] \in {"verifyPositions", "orders"} => p \in unseen'[q]
    BY <1>1, <1>6, <1>t DEF BetweenReads
  <2>. QED
    BY <1>2, <1>4, <2>1, <2>2, KnowsStays
<1>. QED
  BY <1>5, <1>6

LEMMA CheckInvStep ==
    ASSUME TypeOK, ReplyInv, FailInv, CheckInv, [Next]_vars
    PROVE  CheckInv'
<1>. SUFFICES ASSUME NEW p \in Requests, NEW q \in Requests, p # q
              PROVE  Knows(q, p)'
  BY DEF CheckInv
<1>k. Knows(q, p)
  BY DEF CheckInv
<1>1. ASSUME NEW r \in Requests, RequestStep(r) PROVE Knows(q, p)'
  BY <1>k, <1>1, KnowsOwnStep, KnowsOtherStep
<1>2. ASSUME NEW x \in Requests, MarketStep(x) PROVE Knows(q, p)'
  BY <1>k, <1>2, KnowsMarketStep
<1>3. ASSUME NEW x \in Requests, OtherCallerWrites(x) PROVE Knows(q, p)'
  <2>1. /\ UNCHANGED <<pc, job, seen, market, unseen>>
        /\ failed'[q] \in {failed[q], "hidden"}
    BY <1>3 DEF OtherCallerWrites, TypeOK
  <2>. QED
    BY <1>k, <2>1, KnowsStays
<1>4. CASE Restart
  <2>1. pc'[q] \notin InFlight
    BY <1>4 DEF Restart, InFlight
  <2>. QED
    BY <2>1 DEF Knows
<1>5. ASSUME \/ UNCHANGED vars \/ Tick
             \/ \E r \in Reviews, s \in Scopes, o \in Orders : OrderPreview(r, s, o)
      PROVE  Knows(q, p)'
  <2>1. UNCHANGED <<pc, job, seen, market, failed, unseen>>
    BY <1>5 DEF vars, Tick, OrderPreview
  <2>. QED
    BY <1>k, <2>1, KnowsStays
<1>. QED
  BY <1>1, <1>2, <1>3, <1>4, <1>5 DEF Next

-----------------------------------------------------------------------------
(* Two standing orders of one account.                                     *)

(* A standing order stood before the step, or was just sent.               *)
LEMMA StoodOrSent ==
    ASSUME TypeOK, ReplyInv, [Next]_vars, NEW x \in Requests, Standing(x)'
    PROVE  /\ Account(x)' = Account(x) /\ LegsOf(x)' = LegsOf(x)
           /\ Standing(x) \/ SendOrder(x)
<1>t. market \in [Requests -> MarketStates]
  BY DEF TypeOK
<1>1. Standing(x) \/ SendOrder(x)
  <2>1. CASE market[x] = "none"
    BY <2>1, Sends DEF Sent, Standing
  <2>2. CASE market[x] # "none" /\ ~ Standing(x)
    <3>1. ASSUME NEW y \in Requests, SendOrder(y) PROVE market'[x] = market[x]
      BY <1>t, <2>2, <3>1 DEF SendOrder, ReplyInv, Sent
    <3>2. ASSUME NEW y \in Requests, MarketStep(y) PROVE market'[x] = market[x]
      BY <1>t, <2>2, <3>2 DEF MarketStep, MarketMoves, Standing
    <3>3. ASSUME \A y \in Requests : ~ SendOrder(y) /\ ~ MarketStep(y)
          PROVE  UNCHANGED market
      BY <3>3 DEF Next, RequestStep, vars, Tick, Restart, OrderPreview, OrderSubmit,
           ReadPositions, DryRunVerdict, PositionsVerdict, ReadLiveOrders,
           OrdersVerdict, ConsumeReviewLock, ReserveSubmission, AuditAttempt,
           Confirmed, Unconfirmed, OtherCallerWrites
    <3>. QED
      BY <2>2, <3>1, <3>2, <3>3 DEF Standing
  <2>. QED
    BY <2>1, <2>2
<1>2. pc[x] # "idle"
  BY <1>1 DEF ReplyInv, Sent, Standing, SendOrder
<1>. QED
  BY <1>1, <1>2, JobStays DEF Account, LegsOf

(* What a request that has sent could not see, it cannot see later either. *)
LEMMA CouldNotSeeStays ==
    ASSUME TypeOK, ReplyInv, [Next]_vars, NEW q \in Requests,
           Sent(q) \/ SendOrder(q), NEW p, CouldNotSee(q, p)
    PROVE  CouldNotSee(q, p)'
<1>t. /\ failed \in [Requests -> {"no", "flagged", "hidden"}]
      /\ unseen \in [Requests -> SUBSET Requests]
  BY DEF TypeOK
<1>q. pc[q] \notin {"idle", "dryPositions", "positions", "orders"}
  BY DEF ReplyInv, SendOrder
<1>1. ASSUME NEW y \in Requests, ReadPositions(y) \/ ReadLiveOrders(y)
      PROVE  CouldNotSee(q, p)'
  <2>1. y # q
    BY <1>1, <1>q DEF ReadPositions, ReadLiveOrders
  <2>2. failed'[q] = failed[q] /\ unseen'[q] = unseen[q]
    BY <1>1, <1>t, <2>1 DEF ReadPositions, ReadLiveOrders, ReadFails
  <2>. QED
    BY <2>2 DEF CouldNotSee
<1>2. ASSUME NEW y \in Requests, MarketStep(y)
      PROVE  CouldNotSee(q, p)'
  <2>1. failed' = failed /\ unseen[q] \subseteq unseen'[q]
    BY <1>2, <1>t DEF MarketStep
  <2>. QED
    BY <2>1 DEF CouldNotSee
<1>3. ASSUME NEW y \in Requests, OtherCallerWrites(y)
      PROVE  CouldNotSee(q, p)'
  BY <1>3, <1>t DEF OtherCallerWrites, CouldNotSee
<1>4. ASSUME \A y \in Requests : /\ ~ ReadPositions(y) /\ ~ ReadLiveOrders(y)
                                 /\ ~ MarketStep(y) /\ ~ OtherCallerWrites(y)
      PROVE  UNCHANGED <<failed, unseen>>
  BY <1>4 DEF Next, RequestStep, vars, Tick, Restart, OrderPreview, OrderSubmit,
       DryRunVerdict, PositionsVerdict, OrdersVerdict, ConsumeReviewLock,
       ReserveSubmission, AuditAttempt, SendOrder, Confirmed, Unconfirmed
<1>. QED
  BY <1>1, <1>2, <1>3, <1>4 DEF CouldNotSee

(* The sender has compared its legs with what it could see of the other.   *)
LEMMA SenderCompared ==
    ASSUME FailInv, CheckInv, NEW p \in Requests, NEW q \in Requests, p # q,
           SendOrder(q), Standing(p), Account(p) = Account(q)
    PROVE  Compared(q, p)
<1>1. pc[q] = "send"
  BY DEF SendOrder
<1>2. failed[q] # "flagged"
  BY <1>1 DEF FailInv, InFlight, Verifying
<1>. QED
  BY <1>1, <1>2 DEF CheckInv, Knows, Checked, OrdersChecked, InFlight

(* An order that was sent is not unsent again.                             *)
LEMMA StaysSent ==
    ASSUME TypeOK, ReplyInv, [Next]_vars, NEW p \in Requests, Sent(p)
    PROVE  Sent(p)'
<1>t. market \in [Requests -> MarketStates]
  BY DEF TypeOK
<1>1. ASSUME NEW y \in Requests, SendOrder(y) PROVE Sent(p)'
  BY <1>t, <1>1 DEF SendOrder, Sent
<1>2. ASSUME NEW y \in Requests, MarketStep(y) PROVE Sent(p)'
  BY <1>t, <1>2 DEF MarketStep, MarketMoves, Sent
<1>3. ASSUME \A y \in Requests : ~ SendOrder(y) /\ ~ MarketStep(y)
      PROVE  UNCHANGED market
  BY <1>3 DEF Next, RequestStep, vars, Tick, Restart, OrderPreview, OrderSubmit,
       ReadPositions, DryRunVerdict, PositionsVerdict, ReadLiveOrders,
       OrdersVerdict, ConsumeReviewLock, ReserveSubmission, AuditAttempt,
       Confirmed, Unconfirmed, OtherCallerWrites
<1>. QED
  BY <1>1, <1>2, <1>3 DEF Sent

LEMMA SentInvStep ==
    ASSUME TypeOK, ReplyInv, FailInv, CheckInv, SentInv, [Next]_vars
    PROVE  SentInv'
<1>. SUFFICES ASSUME NEW p \in Requests, NEW q \in Requests, p # q, Sent(q)'
              PROVE  Knew(q, p)'
  BY DEF SentInv, Knew
<1>s. Sent(q) \/ SendOrder(q)
  BY Sends
<1>c. CouldNotSee(q, p) => CouldNotSee(q, p)'
  BY <1>s, CouldNotSeeStays
<1>u. ~ Sent(p) => CouldNotSee(q, p)
  <2>1. CASE Sent(q)
    BY <2>1 DEF SentInv, Knew
  <2>2. CASE SendOrder(q)
    <3>1. pc[q] = "send" /\ pc[q] \in InFlight
      BY <2>2 DEF SendOrder, InFlight
    <3>2. failed[q] # "flagged"
      BY <3>1 DEF FailInv, Verifying
    <3>. QED
      BY <3>1, <3>2 DEF CheckInv, Knows, OrdersChecked
  <2>. QED
    BY <1>s, <2>1, <2>2
<1>1. ~ Sent(p)' => CouldNotSee(q, p)'
  BY <1>u, <1>c, StaysSent
<1>2. ASSUME Standing(p)', Account(p)' = Account(q)' PROVE Compared(q, p)'
  <2>1. /\ Account(p)' = Account(p) /\ LegsOf(p)' = LegsOf(p)
        /\ Standing(p) \/ SendOrder(p)
    BY <1>2, StoodOrSent
  <2>2. pc[q] # "idle"
    BY <1>s DEF ReplyInv, SendOrder
  <2>3. Account(q)' = Account(q) /\ LegsOf(q)' = LegsOf(q)
    BY <2>2, JobStays DEF Account, LegsOf
  <2>4. Compared(q, p) => Compared(q, p)'
    BY <1>c, <2>1, <2>3 DEF Compared, Apart
  <2>5. CASE Standing(p) /\ Sent(q)
    BY <1>2, <2>1, <2>3, <2>4, <2>5 DEF SentInv, Knew
  <2>6. CASE Standing(p) /\ SendOrder(q)
    BY <1>2, <2>1, <2>3, <2>4, <2>6, SenderCompared
  <2>7. CASE SendOrder(p)
    <3>1. ~ Sent(p)
      BY <2>7 DEF ReplyInv, SendOrder
    <3>. QED
      BY <1>u, <1>c, <3>1 DEF Compared
  <2>. QED
    BY <1>s, <2>1, <2>5, <2>6, <2>7
<1>. QED
  BY <1>1, <1>2 DEF Knew

(* Two standing orders of an account share a leg only if each was out of   *)
(* the other request's sight, whatever the broker, the clock, a restart    *)
(* and the other threads do, and however many there are.                   *)
THEOREM OverlapOnlyUnseenHolds == Spec => []OverlapOnlyUnseen
<1>1. Init => CheckInv /\ SentInv
  BY DEF Init, CheckInv, Knows, SentInv, Knew, Sent, InFlight
<1>2. TypeOK /\ ReplyInv /\ FailInv /\ CheckInv /\ [Next]_vars => CheckInv'
  BY CheckInvStep
<1>3. TypeOK /\ ReplyInv /\ FailInv /\ CheckInv /\ SentInv /\ [Next]_vars => SentInv'
  BY SentInvStep
<1>4. SentInv => OverlapOnlyUnseen
  <2>1. \A x \in Requests : Standing(x) => Sent(x)
    BY DEF Standing, Sent
  <2>2. \A x, y \in Requests : Apart(x, y) <=> Apart(y, x)
    BY DEF Apart
  <2>. QED
    BY <2>1, <2>2 DEF SentInv, Knew, Compared, OverlapOnlyUnseen
<1>. QED
  BY <1>1, <1>2, <1>3, <1>4, TypeCorrect, Strengthened, FailInvHolds, PTL DEF Spec

=============================================================================
