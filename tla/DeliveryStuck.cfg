\* One cancellation or crash.
SPECIFICATION FairSpec
CONSTANTS
  old = old
  new = new
  w1 = w1
  w2 = w2
  urgent = urgent
  routine = routine
  NoMsg = NoMsg
  Msg = {urgent, routine}
  Priority <- Priorities
  MaxAttempts = 2
  LateReplay = FALSE
  Inst = {old}
  Worker = {w1, w2}
  Home <- BothOld
  ClaimBatch = 2
  MaxStops = 1
  MaxFaults = 0
PROPERTIES EveryMessageSettles
