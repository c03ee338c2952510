\* One process of one goroutine is stopped twice, and a statement fails.
SPECIFICATION FairSpec
CONSTANTS
  old = old
  new = new
  w1 = w1
  w2 = w2
  urgent = urgent
  routine = routine
  NoMsg = NoMsg
  Msg = {urgent, routine}
  Priority <- Priorities
  MaxAttempts = 2
  LateReplay = FALSE
  Inst = {old}
  Worker = {w1}
  Home <- OneOld
  ClaimBatch = 2
  MaxStops = 2
  MaxFaults = 1
PROPERTIES SettlesUndisturbed WaitingGetsClaimed ShutdownCompletes
