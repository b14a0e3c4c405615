SPECIFICATION FairSpec
INVARIANTS
  TypeOK
  ConnectedOnlyOnACall
  RetryIsPrompt
  ClientsEndWithHost
PROPERTIES
  PacketStreamRecovers
  AlertStreamRecovers
  StopEndsClients
