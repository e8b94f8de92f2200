SPECIFICATION Spec
CONSTANTS
  Clients = {c1, c2}
  Hosts = {1, 2}
  NoHost = 0
  Retries = 1
  MaxLooks = 1
  MaxUpdates = 0
  MaxPollErrors = 0
PROPERTIES ExistingMapped
CHECK_DEADLOCK FALSE
