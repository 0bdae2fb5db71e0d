CONSTANTS
    None = None
    Period = 2
    ReviewAfter = 1
    Budget = 2
    Planners = {"period", "command"}
    Offers <- MCOffers
    CommandsDie = TRUE
    Horizon = 1
    MaxRuns = 2
SPECIFICATION FairSpec
INVARIANTS
    TypeOK
    VerifiedIsCovered
    FailedIsUnrenewed
    BudgetKept
    DecisionIsTrue
PROPERTIES
    ExtendsByMandate
    Ends
CHECK_DEADLOCK FALSE
