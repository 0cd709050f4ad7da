CONSTANTS
  ChildMaxAge = 11
  Rooms = {1, 2}
  Nights = {1, 2}
  MaxFree = 2
  MaxCombinations = 1
  NoRow = NoRow
  Kinds <- MCKinds
  Criteria <- MCCriteria
SPECIFICATION Spec
INVARIANTS
  TypeOK
  OffersAreFree
  MatchHasPlacement
  BacktrackingComplete
  OfferIsLeastPlacement
  MatchingTypeIsOffered
  CheapestKept
CHECK_DEADLOCK FALSE
