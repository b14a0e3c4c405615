CONSTANTS
  Processes = {chrome}
  ChanCap = 2
  MaxPackets = 3
SPECIFICATION Spec
INVARIANT EveryPacketInAWindow
