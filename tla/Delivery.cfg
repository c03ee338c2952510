\* Two processes overlap; one may stop, and one statement may fail.
SPECIFICATION Spec
CONSTANTS
  old = old
  new = new
  w1 = w1
  w2 = w2
  urgent = urgent
  routine = routine
  NoMsg = NoMsg
  Msg = {urgent, routine}
  Priority <- Priorities
  MaxAttempts = 2
  LateReplay = FALSE
  Inst = {old, new}
  Worker = {w1, w2}
  Home <- OneEach
  ClaimBatch = 2
  MaxStops = 1
  MaxFaults = 1
INVARIANT ExclusiveHolder
PROPERTIES ConfirmedNotResent VerdictsAreFinal DeliveryContractKept
