CONSTANTS
    p1 = p1
    p2 = p2
    Executors = {p1, p2}
    StepCount = 2
    Catalog <- MCCatalog
    MaxFaults = 2
SPECIFICATION FairSpec
INVARIANTS
    TypeOK
    AtMostOnce
    RecordedBeforeSent
    FailureIsCertain
    VerifiedIsReal
    LogIsAPath
    StepsInOrder
    NeverUnattended
    SingleOwner
PROPERTIES
    KeepsPromise
    Progress
