SPECIFICATION Spec
CONSTANTS
  fileA = fileA  fileB = fileB  fileC = fileC  flow = flow
  declF = declF  declFX = declFX  declG = declG  declH = declH  note = note
  F = F  G = G  H = H  X = X
  P1 = P1  P2 = P2  P3 = P3
  GoFiles <- MCGoFiles
  OtherFiles = {flow}
  Workflows = {flow}
  Tokens = {declF, declFX, declG, declH, note}
  Names = {F, G, H}
  Symbols = {X}
  Declares <- MCDeclares
  Calls <- MCCalls
  Garbled = {}
  NoName = NoName
  NoSource = NoSource
  Absent = Absent
  NoReceipt = NoReceipt
  Procs = {q1, q2}
  Proposals = {P1, P2, P3}
  Plan <- MCPlan
  Edits <- MCEdits
  NoHash = NoHash
  None = None
  Queries <- MCQueries
  Whole = Whole
  Cuts <- MCCuts
  Sessions <- MCSessions
  MaxRuns = 3
  MaxEdits = 1
  MaxFaults = 1
SYMMETRY Symmetry
INVARIANTS
  TypeOK
  AcceptIsAtomic
  AcceptedIsReviewed
  ContextIsWhole
CHECK_DEADLOCK FALSE
