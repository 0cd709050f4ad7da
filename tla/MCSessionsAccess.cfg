CONSTANTS
  Logins = {l1}
  Refreshes = {f1}
  Logouts = {}
  Changes = {}
  Resets = {}
  ResetTokens = {}
  Agents = {unknown}
  Addresses = {unknown}
  Unknown = unknown
  None = None
SYMMETRY Symmetry
SPECIFICATION Spec
INVARIANTS
  RefreshedAccessTokenWorks
CHECK_DEADLOCK FALSE
