\* Two messages to one webhook, two goroutines; 429s that hold it for one or two ticks.
SPECIFICATION PacedSpec
CONSTANTS
  b1 = b1
  b2 = b2
  busy = busy
  NoMsg = NoMsg
  Msg = {b1, b2}
  Priority <- Routine
  Caller = {w1, w2}
  MaxAttempts = 3
  ClaimBatch = 2
  Key = {busy}
  Burst = 1
  TTL = 2
  MaxTime = 3
  Bucket <- Buckets
  Delays <- OneTwo
  Hold = {2}
  ClaimLease = 2
SYMMETRY Workers
INVARIANT FewPostsIntoHold
PROPERTIES ImplementsDelivery KeepsSchedule
\* Goroutines may sleep beyond the bound of the clock.
CHECK_DEADLOCK FALSE
