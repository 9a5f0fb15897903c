SPECIFICATION Spec
CONSTANTS
  Threads = {t1}
  Bcast = b
  Invoked = {"login"}
  MaxCalls = 1
  MaxPolls = 1
  RequestId <- MCRequestId
  StrayIds <- NoIds
  MallocFails = FALSE
INVARIANT
  AcceptedIsNotAnError
