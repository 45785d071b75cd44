SPECIFICATION ServicesSpec
CONSTANTS
    u1 = u1
    p1 = p1
    Subscribers = {u1, u2}
    Phones = {p1, p2, p3}
    Loops = {b1, b2}
    Pending <- MCPending
    NoPhone = NoPhone
    Nobody = Nobody
    Requests = {r1, r2}
    LinkTTL = 2
    Cooldown = 1
    MaxChanges = 2
    MaxLinks = 2
    Tokens = {t1, t2}
    Previews = {o1, o2}
    Consumers = {c1, c2}
    TokenTTL = 1
    BusyTimeout = 1
    PruneAge = 3
    NoOrder = NoOrder
    Samplers = {m1, m2}
    Enrollers = {n1}
    Profits <- MCProfits
    TicksPerMinute = 1
    Expiry = 3
    LastTick = 3
    BrokerAccounts = {a1, a2}
    Calls = {k1, k2}
    OAuthStates = {z1, z2}
    MaxGrants = 2
    NoAccount = NoAccount
    NoState = NoState
    Chains <- MCChains
    Spot = 4
    Move = 1
    Offsets <- MCOffsets
    Widths = {1, 2}
    Contracts = {1, 2}
    Mids = {0, 1, 2, 4}
    TicksPerPoint = 2
    Increment = 2
    MinCredit = 2
    MaxRisk = 5
    Reserve = 1
    BuyingPower = 7
    Fees = {0, 1}
    MaxQuoteAge = 1
    Deals <- MCDeals
    MaxDeals = 2
    Premium <- MCPremium
    Carried = {g1}
    Watchers = {w1, w2}
    Closures <- MCClosures
    LastDay = 3
    Positions = {s1, s2}
    Monitors = {d1, d2}
    Threats <- MCPairedThreats
    ModesInUse = {"ALL"}
    RecipientIsOwner = TRUE
    SnoozeTime = 1
    AlertLimit = 2
    AlertWindow = 1
    MaxMishaps = 1
SYMMETRY Alike
INVARIANTS ServicesTypeOK OldCookiesRefused HonestDeliveryStatus TokenPromisesKept
INVARIANTS AuditSummarizesSamples DefaultIsTraded ValidatedRiskIsWorstCase BookShownWhole LearnedOfItsNight
INVARIANTS TextsAnHourBounded
PROPERTIES AlertReachesConsenter PasswordChangesHold DisconnectHolds NoNeedlessRepeat
CHECK_DEADLOCK FALSE
