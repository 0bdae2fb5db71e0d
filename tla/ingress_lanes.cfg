CONSTANTS
    a = a
    b = b
    r = r
    s = s
    h = h
    k = k
    None = None
    Occurrences = {a, b}
    Reviews = {}
    ParentOf <- MCParentOf
    Handoffs = {h, k}
    HandoffOf <- MCHandoffOf
    Configurations <- MCConfigurations
    Meaning <- MCMeaning
    RouteExits = {"true"}
    ReviewBound = 2
    MaxFaults = 0
SPECIFICATION Spec
INVARIANTS
    OneActivation
