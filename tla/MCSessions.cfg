CONSTANTS
  Logins = {l1}
  Refreshes = {f1, f2}
  Logouts = {o1}
  Changes = {p1}
  Resets = {s1, s2}
  ResetTokens = {k1}
  Agents = {unknown, a1, a2}
  Addresses = {unknown}
  Unknown = unknown
  None = None
SYMMETRY Symmetry
SPECIFICATION Spec
INVARIANTS
  TypeOK
  OneTokenPerSession
  ExchangedOnce
  LogoutEndsSession
  SessionKeepsClient
  ResetSucceedsOnce
PROPERTIES
  OldSessionsStayDead
CHECK_DEADLOCK FALSE
