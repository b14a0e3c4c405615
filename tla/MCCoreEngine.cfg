CONSTANTS
  p1 = p1
  a1 = a1
  Streams <- MCStreams
  FeedOf <- MCFeedOf
  QueueCap <- MCQueueCap
  RingCap <- MCRingCap
  MaxPackets = 3
SPECIFICATION FairSpec
INVARIANTS
  TypeOK
  AlertAfterItsPacket
PROPERTIES
  StreamsAreLossyFeeds
  BackpressureResolves
  CaptureEndDrains
  StreamCatchesUp
