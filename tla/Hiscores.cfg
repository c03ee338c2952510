\* Three workers, two attempts per fetch; all names of up to five runes.
SPECIFICATION Spec
CONSTANTS
  Worker = {w1, w2, w3}
  Asked <- Players
  MaxRsn = 3
  MaxLen = 5
  Burst = 1
  Retries = 2
  RetryDelay = 1
  Timeout = 2
  MaxTime = 5
INVARIANTS TypeOK RateTimesRetries NamesAgree
SYMMETRY Symmetry
\* Once the context is done the workers stop.
CHECK_DEADLOCK FALSE
