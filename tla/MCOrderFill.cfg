SPECIFICATION Spec
CONSTANTS
    Requests = {q1, q2}
    Reviews = {r1, r2}
    Scopes = {owner}
    Owners = {owner}
    Accounts = {acct}
    AccountOf <- MCAccountOf
    Orders = {condorA, condorB}
    Symbols = {legP, legQ, legR}
    Legs <- MCLegs
    ReviewTTL = 2
    ReserveTTL = 1
    MaxInFlight = 1
    MaxRestarts = 0
    Faults = {"marketMoves"}
    None = None
    owner = owner
    beta = beta
    acct = acct
    condorA = condorA
    condorB = condorB
    legP = legP
    legQ = legQ
    legR = legR
    q1 = q1
    q2 = q2
    r1 = r1
    r2 = r2
SYMMETRY Symmetry
PROPERTIES NeverOpensHeldLeg
