\* One webhook, short holds, evictions.
SPECIFICATION Spec
CONSTANTS
  Key = {k}
  Caller = {c1, c2}
  Burst = 1
  TTL = 4
  Hold = {1, 2}
  MaxTime = 7
INVARIANT RateRespected
PROPERTIES NewCallsHonourHold
SYMMETRY Symmetry
