SPECIFICATION Spec
CONSTANTS
  a1 = a1
  a2 = a2
  Attempts = {a1, a2}
  Kind <- TwoReads
  Budget <- Budgets
  Earlier = {}
  Slots = 2
  MaxDrop = 0
  MaxSalt = 1
  MaxCrash = 0
  MaxFail = 0
CHECK_DEADLOCK FALSE
INVARIANTS NothingStranded
