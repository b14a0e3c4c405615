CONSTANTS
  Latencies = {0, 1, 3}
  MaxPackets = 4
SPECIFICATION Spec
INVARIANTS
  TypeOK
  CountersConserved
  MaxNeverLost
