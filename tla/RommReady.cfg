\* A server with a token that may not upload.
SPECIFICATION Spec
CONSTANTS
  Requests = {r1, r2}
  Boot = Boot
  Targets = {t1, t2}
  Prefs = {p2}
  NoPrefs = NoPrefs
  Passwords = {w2}
  OldPassword = w1
  None = None
  EnvTarget = t1
  EnvPrefs = p1
  Left <- MCLeft
  Servers <- MCServers
  MaxCalls = 2
  MaxFaults = 0
INVARIANTS ReadyToUse
CHECK_DEADLOCK FALSE
