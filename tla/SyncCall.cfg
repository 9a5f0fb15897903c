SPECIFICATION Spec
CONSTANTS
  Threads = {t1, t2}
  Bcast = b
  Invoked = {"get", "login", "logout", "delete"}
  MaxCalls = 2
  MaxPolls = 2
  RequestId <- MCRequestId
  StrayIds <- MCOtherIds
  MallocFails = FALSE
INVARIANTS
  TypeOK OkMeansAccepted EntriesInUseAreLive OnlyFailedGetsLeak CallbackCallsUnanswered
PROPERTY
  FreedIsUnreachable
SYMMETRY ThreadSymmetry
