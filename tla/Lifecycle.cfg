\* Two slots and one connection to fight over; every way to start.
SPECIFICATION FairSpec
CONSTANTS
  Environments <- Started
  Slot = {s1, s2}
  MaxConns = 1
  MaxFaults = 1
INVARIANTS TypeOK PoolClosesLast
PROPERTIES OnlySignalsStop ProbesAnswered ExitsAfterSignal
\* The process ends.
CHECK_DEADLOCK FALSE
