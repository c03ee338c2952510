\* One worker for claims of two, in three lanes: a stop and a failed statement.
SPECIFICATION FairSpec
CONSTANTS
  Row = {1, 2, 3}
  Lanes <- Mixed
  DryRun = FALSE
  old = old
  new = new
  w1 = w1
  w2 = w2
  Inst = {old}
  Worker = {w1}
  Home <- OneOld
  ClaimBatch = 2
  Burst = 1
  MaxStops = 1
  MaxFaults = 1
PROPERTIES ContractHonoured ShutdownCompletes RunLogAddsUp CompetitionNeverStopped LateJoinersServed
