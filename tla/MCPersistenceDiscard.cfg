CONSTANTS
  ChanCap = 2
  Batch = 2
  MaxWrites = 4
SPECIFICATION Spec
INVARIANT TakenIsNotDiscarded
