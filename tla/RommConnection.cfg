\* Two requests at a time, two in all besides the boot, with one fault.
SPECIFICATION FairSpec
CONSTANTS
  Requests = {r1, r2}
  Boot = Boot
  Targets = {t1, t2}
  Prefs = {p2}
  NoPrefs = NoPrefs
  Passwords = {w2}
  OldPassword = w1
  None = None
  EnvTarget = t1
  EnvPrefs = p1
  Left <- MCLeft
  Servers <- MCServers
  MaxCalls = 2
  MaxFaults = 1
INVARIANTS ListingsFollowReconnect ConnectedAsStored SavedFieldsStay LiveIsUsable
PROPERTIES EveryRequestReturns
CHECK_DEADLOCK FALSE
