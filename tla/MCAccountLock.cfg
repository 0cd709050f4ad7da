CONSTANTS
  Requests = {r1, r2, r3, r4}
  MaxRetries = 2
  JailDuration = 1
  WordHalf = 1024
  MaxClock = 2
  NoTime = NoTime
SYMMETRY Symmetry
SPECIFICATION Spec
INVARIANTS
  TypeOK
  LockMatchesFailure
  FailureStateValid
  NoSpuriousLock
  TokensNeedVerifiedEmail
PROPERTIES
  LockHoldsOnceQuiet
