SPECIFICATION LoginSpec
CONSTANTS
  Hosts = {"a", "b"}
  Passwords = {"p", ""}
  Configs <- MCConfigs
  Forms <- MCForms
  MaxRequests = 3
  MaxInFlight = 2
  Sockets = {1}
  MaxForms = 1
  None = None
CHECK_DEADLOCK FALSE
INVARIANTS
    RemovedStaysRemoved
    PageConnectsToItsHost
