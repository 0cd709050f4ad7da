CONSTANTS
  Registers = {g1}
  Additions = {d1}
  Resends = {m1}
  Verifies = {v1, v2}
  Googles = {o1, o2}
  Addresses = {a1, a2}
  Subjects = {s1, s2}
  None = None
  MaxFaults = 1
  MaxRequests = 4
  FirstGoogle = o1
  FirstVerify = v1
  FirstAddress = a1
  FirstSubject = s1
SPECIFICATION MCSpec
INVARIANTS
  TypeOK
  SignsInOwner
  OneAccountPerSubject
  VerifiedProven
  SignInTokenAccepted
  VerifySucceedsOnce
  UsedMeansVerified
PROPERTIES
  LinkStable
  PresentedLinkVerifies
CHECK_DEADLOCK FALSE
