SPECIFICATION Spec
CONSTANTS
    Intents = {i1, i2}
    Processes = {p1}
    BrokerIds = {b1, b2}
    Reviews = {e1}
    Quantity = 1
    LeaseTTL = 1
    MaxBackoff = 1
    MaxReads = 2
    MaxVersion = 7
    ReviewTTL = 1
    MaxFailures = 1
    MaxMishaps = 1
    Faults = {"lag"}
    None = None
    b1 = b1
    b2 = b2
    e1 = e1
    i1 = i1
    i2 = i2
    p1 = p1
SYMMETRY Symmetry
INVARIANTS OneOrderPerIntent ExposureAccounted ClosedIsAbsent
