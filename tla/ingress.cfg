CONSTANTS
    a = a
    b = b
    r = r
    s = s
    h = h
    k = k
    None = None
    Occurrences = {a, r}
    Reviews = {r}
    ParentOf <- MCParentOf
    Handoffs = {h, k}
    HandoffOf <- MCHandoffOf
    Configurations <- MCConfigurations
    Meaning <- MCMeaning
    RouteExits = {"true", "unstarted"}
    ReviewBound = 1
    MaxFaults = 2
SPECIFICATION FairSpec
INVARIANTS
    TypeOK
    StartRecorded
    OutcomeEarned
    ReviewTruthful
    ReturnRecorded
    ContainedLate
PROPERTIES
    RunsOnceUnanswered
    OwnOutcomeFinal
    Answered
