\* Two processes overlap: rows, leases and a lapse are contested.
SPECIFICATION Spec
CONSTANTS
  Row = {1, 2}
  Lanes <- CompetitionOnly
  DryRun = FALSE
  old = old
  new = new
  w1 = w1
  w2 = w2
  Inst = {old, new}
  Worker = {w1, w2}
  Home <- OneEach
  ClaimBatch = 2
  Burst = 1
  MaxStops = 1
  MaxFaults = 1
INVARIANTS SingleFlight DoubleFetchOnlyAfterLapse
PROPERTIES ContractKept
