SPECIFICATION Spec
CONSTANTS
  Clients = {c1, c2}
  Threads = {t1}
  Local = l
  PrefixOf <- MCNoPrefixes
  RetriesLogin = FALSE
  MaxListed = 2
  MallocFails = FALSE
INVARIANTS
  TypeOK ListedClientsAreLive LoginOkMeansListed ListedWasAnnounced
PROPERTIES
  FreedClientIsLeftAlone SessionCallsReturn ReportsForgetLoggedOut
