SPECIFICATION Spec
CONSTANTS
  a = a  pf_a = pf_a  pf_b = pf_b
  dir_a = dir_a  dir_b = dir_b  dir_x = dir_x
  Members <- MCMembers
  Entries = {dir_a, dir_b, dir_x}
  NameOf <- MCNameOf
  Delegates = {TRUE, FALSE}
  Open = FALSE
  Receipts = {r1, other}
  Foreign = other
  Home = Home
  Away = Away
  MaxChanges = 1
  MaxRuns = 3
  None = None
INVARIANTS
  TypeOK
  ReturnIsEarned
  ClassesAreHonest
CHECK_DEADLOCK FALSE
