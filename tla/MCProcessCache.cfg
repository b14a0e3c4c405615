CONSTANTS
  TcpKeys = {tcp80}
  UdpKeys = {udp53}
  Pids = {pid1, pid2}
  Names = {browser, daemon}
  Protected = {daemon}
  MaxEvents = 6
SPECIFICATION FairSpec
INVARIANTS
  LabelHasOrigin
PROPERTIES
  LabelsCatchUp
