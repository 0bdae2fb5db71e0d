CONSTANTS
    p1 = p1
    Executors = {p1}
    StepCount = 1
    Catalog <- PermittedCatalog
    MaxFaults = 1
SPECIFICATION RetryingSpec
PROPERTIES
    UncertainRetried
