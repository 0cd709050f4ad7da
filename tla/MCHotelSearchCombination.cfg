CONSTANTS
  ChildMaxAge = 11
  Rooms = {1, 2}
  Nights = {1, 2}
  MaxFree = 2
  MaxCombinations = 1
  NoRow = NoRow
  Kinds <- MCKinds
  Criteria <- MCFamilies
SPECIFICATION Spec
INVARIANT
  CombinationsAccompany
CHECK_DEADLOCK FALSE
