SPECIFICATION FairSpec
CONSTANTS
  Clients = {c1, c2}
  Hosts = {1}
  NoHost = 0
  Retries = 1
  MaxLooks = 1
  MaxUpdates = 1
  MaxPollErrors = 1
INVARIANTS TypeOK DeletedOnce EntryServed ServedListed
PROPERTIES  ListenerStops
CHECK_DEADLOCK FALSE
