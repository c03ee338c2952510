\* Three clients that share events, retries beside abandoned handlers.
SPECIFICATION FairSpec
CONSTANTS
  good = good
  poor = poor
  long = long
  kill = kill
  drop = drop
  stats = stats
  blank = blank
  NoClient = NoClient
  Client = {good, poor, long}
  Conn = {h1, h2}
  Event = {kill, drop, stats, blank}
  Keyed = {kill, drop}
  Blank = {blank}
  TooLong = {long}
  Batch <- Batches
  MaxPosts = 1
  MaxFaults = 1
INVARIANTS NoDoubleCredit AckedIsStored CountersHonest
PROPERTIES EveryPushLands
\* Once every client has its answer and every token is revoked nothing is left to do.
CHECK_DEADLOCK FALSE
