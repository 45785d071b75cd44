SPECIFICATION Spec
CONSTANTS
    Requests = {q1, q2}
    Reviews = {r1, r2}
    Scopes = {owner, beta}
    Owners = {owner}
    Accounts = {acct}
    AccountOf <- MCAccountOf
    Orders = {condorA, condorB}
    Symbols = {legP, legQ, legR}
    Legs <- MCLegs
    ReviewTTL = 1
    ReserveTTL = 1
    MaxInFlight = 2
    MaxRestarts = 1
    Faults = {"sharedClient", "malformedBody", "marketMoves", "lateAccept"}
    None = None
    owner = owner
    beta = beta
    acct = acct
    condorA = condorA
    condorB = condorB
    legP = legP
    legQ = legQ
    legR = legR
    q1 = q1
    q2 = q2
    r1 = r1
    r2 = r2
SYMMETRY Symmetry
INVARIANTS TypeOK OneOrderPerReview SentIsReviewed AttemptAudited HonestReply ReservationExclusive
INVARIANTS LookupFailureBlocks OverlapOnlyUnseen
