SPECIFICATION Spec
CONSTANTS
  Clients = {c1}
  Threads = {t1}
  Local = l
  PrefixOf <- MCNoPrefixes
  RetriesLogin = TRUE
  MaxListed = 2
  MallocFails = FALSE
INVARIANT
  ListedClientsAreLive
