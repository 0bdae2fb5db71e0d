CONSTANTS
    None = None
    Keys = {1, 2}
    Texts = {1, 2}
    Sources <- MCSources
    Outputs <- MCOutputs
    Budgets = {1}
    Resume = "any"
    TurnCount = 2
    MaxRuns = 3
SPECIFICATION Spec
PROPERTY ContainPreserves
CHECK_DEADLOCK FALSE
