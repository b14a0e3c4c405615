CONSTANTS
  Processes = {chrome, curl}
  ChanCap = 2
  MaxPackets = 4
SPECIFICATION FairSpec
INVARIANTS
  TypeOK
  NeverOverReported
PROPERTIES
  DashboardIsLossyFeed
  EveryProcessReported
