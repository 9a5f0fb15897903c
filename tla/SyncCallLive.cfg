SPECIFICATION Spec
CONSTANTS
  Threads = {t1}
  Bcast = b
  Invoked = {"auth", "logout"}
  MaxCalls = 2
  MaxPolls = 1
  RequestId <- MCRequestId
  StrayIds <- NoIds
  MallocFails = TRUE
INVARIANTS
  OkMeansAccepted EntriesInUseAreLive
PROPERTIES
  KeepsPromise
  EveryCallReturns
