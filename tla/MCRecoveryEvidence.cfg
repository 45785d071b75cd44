SPECIFICATION Spec
CONSTANTS
    Intents = {i1}
    Processes = {p1}
    BrokerIds = {b1}
    Reviews = {e1, e2}
    Quantity = 1
    LeaseTTL = 1
    MaxBackoff = 1
    MaxReads = 1
    MaxVersion = 6
    ReviewTTL = 2
    MaxFailures = 2
    MaxMishaps = 1
    Faults = {"lag", "partial", "unsound", "outage", "startup"}
    None = None
    b1 = b1
    e1 = e1
    e2 = e2
    i1 = i1
    p1 = p1
SYMMETRY Symmetry
INVARIANTS TypeOK NewestEvidenceDecides CooldownRespected
