SPECIFICATION Spec
CONSTANTS
  MaxInits = 2
  MaxLookups = 1
  Others = {g1}
  Contents <- MCContents
  Readers <- MCReaders
INVARIANTS
  TypeOK
  HandlersFindTheirLists
  OkMeansReady
  NoticeHandledOnce
PROPERTIES
  ConfigIsKept
  IncompleteForEver
  DueNoticeArrives
