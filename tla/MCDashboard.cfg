SPECIFICATION FairSpec
CONSTANTS
  MAX_PACKETS = 3
  MAX_PROCESSES = 2
  MAX_ANOMALIES = 2
  MAX_VISIBLE = 2
  MAX_LOGS = 4
  null = null
  Retries = 2
  MaxConnections = 3
  Transports = {"WebSockets", "LongPolling"}
  Bounds <- MCBounds
INVARIANTS TypeOK OneLiveConnection HeaderTellsConnection StoreMatchesReference RowKeysDistinct ConsoleFollowsConnection
PROPERTIES StoreIsLossyFeed RestoredAfterOutage StoppedConnectionsEnd
CHECK_DEADLOCK FALSE
