CONSTANTS
    None = None
    Keys = {1, 2}
    Texts = {1, 2}
    Sources <- MCSources
    Outputs <- MCOutputs
    Budgets = {1, 2}
    Resume = "last"
    TurnCount = 2
    MaxRuns = 3
SPECIFICATION Spec
INVARIANTS
    TypeOK
    BudgetKept
    DatasetReadable
    SettledOnce
    OutputAgrees
PROPERTY RowsKept
CHECK_DEADLOCK FALSE
