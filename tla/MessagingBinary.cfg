SPECIFICATION MCSpec
CONSTANTS
  Messages <- MCMessages
  Topics <- MCTopics
  DeviceLists <- MCDeviceLists
  BeforeTable <- MCBeforeTable
  CharIsSigned = TRUE
  MaxReplies = 1
  BufLen = 32
  TopicBufLen = 18
  EntryBufLen = 6
  EntryQuotes = 1
  FrameLen = 4
  FrameQuotes = 2
  LogLen = 1
INVARIANT BinaryArrives
