CONSTANTS
    a = a
    b = b
    r = r
    s = s
    h = h
    k = k
    None = None
    Occurrences = {a, r, s}
    Reviews = {r, s}
    ParentOf <- MCParentOf
    Handoffs = {h, k}
    HandoffOf <- MCHandoffOf
    Configurations <- MCConfigurations
    Meaning <- MCMeaning
    RouteExits = {"true"}
    ReviewBound = 2
    MaxFaults = 1
SPECIFICATION Spec
INVARIANTS
    UnreturnedStaysOwed
