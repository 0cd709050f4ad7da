CONSTANTS
  Requests = {r1, r2, r3, r4, r5}
  MaxRetries = 2
  JailDuration = 1
  WordHalf = 1024
  MaxClock = 3
  NoTime = NoTime
SYMMETRY Symmetry
SPECIFICATION SerialSpec
INVARIANT
  LockedAfterMaxRetries
PROPERTIES
  ImplementsPolicy
  LockServedInFull
