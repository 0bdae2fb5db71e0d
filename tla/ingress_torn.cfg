CONSTANTS
    a = a
    b = b
    r = r
    s = s
    h = h
    k = k
    None = None
    Occurrences = {a}
    Reviews = {}
    ParentOf <- MCParentOf
    Handoffs = {h, k}
    HandoffOf <- MCHandoffOf
    Configurations <- MCConfigurations
    Meaning <- MCMeaning
    RouteExits = {"true"}
    ReviewBound = 2
    MaxFaults = 1
SPECIFICATION Spec
INVARIANTS
    RepeatAccepted
