\* One request, and one save that fails behind the rename.
SPECIFICATION Spec
CONSTANTS
  Requests = {r1, r2}
  Boot = Boot
  Targets = {t1, t2}
  Prefs = {p2}
  NoPrefs = NoPrefs
  Passwords = {w2}
  OldPassword = w1
  None = None
  EnvTarget = t1
  EnvPrefs = p1
  Left <- MCLeft
  Servers <- MCServers
  MaxCalls = 1
  MaxFaults = 1
INVARIANTS ErrorsAreNotTrusted
CHECK_DEADLOCK FALSE
