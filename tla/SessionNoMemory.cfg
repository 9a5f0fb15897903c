SPECIFICATION Spec
CONSTANTS
  Clients = {c1, c2}
  Threads = {t1, t2}
  Local = l
  PrefixOf <- MCNoPrefixes
  RetriesLogin = FALSE
  MaxListed = 2
  MallocFails = TRUE
INVARIANTS
  ListedClientsAreLive RightDevice
PROPERTY
  FreedClientIsLeftAlone
SYMMETRY ThreadSymmetry
CHECK_DEADLOCK FALSE
