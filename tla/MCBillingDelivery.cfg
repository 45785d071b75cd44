SPECIFICATION Spec
CONSTANTS
    Users = {u1}
    Subs = {s1, s2}
    GraceTTL = 2
    MaxClock = 4
    Faults = {}
    None = None
SYMMETRY Symmetry
INVARIANTS TypeOK AccessFollowsStripe
PROPERTIES GraceNotRestarted
