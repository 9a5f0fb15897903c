SPECIFICATION Spec
CONSTANTS
  Clients = {c1}
  Threads = {t1}
  Local = l
  PrefixOf <- MCNoPrefixes
  RetriesLogin = FALSE
  MaxListed = 1
  MallocFails = TRUE
PROPERTY
  SessionCallsReturn
CHECK_DEADLOCK FALSE
