CONSTANTS
  Logins = {l1}
  Refreshes = {f1}
  Logouts = {}
  Changes = {p1}
  Resets = {}
  ResetTokens = {}
  Agents = {unknown}
  Addresses = {unknown}
  Unknown = unknown
  None = None
SYMMETRY Symmetry
SPECIFICATION Spec
INVARIANTS
  PasswordChangeEndsSessions
CHECK_DEADLOCK FALSE
