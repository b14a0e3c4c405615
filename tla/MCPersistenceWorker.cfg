CONSTANTS
  ChanCap = 2
  Batch = 2
  MaxWrites = 7
SPECIFICATION FairSpec
INVARIANTS
  TypeOK
  EveryUpdateAccounted
  BufferGrowsOnlyByRetry
PROPERTIES
  TableIsLossyFeed
  StopEndsWorker
