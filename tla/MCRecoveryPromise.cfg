SPECIFICATION Spec
CONSTANTS
    Intents = {i1}
    Processes = {p1, p2}
    BrokerIds = {b1}
    Reviews = {e1}
    Quantity = 2
    LeaseTTL = 1
    MaxBackoff = 1
    MaxReads = 2
    MaxVersion = 6
    ReviewTTL = 1
    MaxFailures = 1
    MaxMishaps = 1
    Faults = {"lag"}
    None = None
    b1 = b1
    e1 = e1
    i1 = i1
    p1 = p1
    p2 = p2
PROPERTIES KeepsPromise
