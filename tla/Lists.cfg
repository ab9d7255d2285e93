SPECIFICATION Spec
CONSTANTS
  PageSize = 2
  MaxPages = 3
  LegacyLimit = 3
  Caps = {1, 2, 3}
  MaxExcess = 1
  MaxItems = 6
  MaxChanges = 3
INVARIANTS CompleteUnlessDeleted EachOnceUnlessAdded
