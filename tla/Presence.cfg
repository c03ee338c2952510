\* Touches and heartbeats of one token side by side; one account has a row's number.
SPECIFICATION FairPresenceSpec
CONSTANTS
  NoToken = NoToken
  Token = {t1}
  Goroutine = {h1, h2}
  Interval = 2
  Account = {1, 2}
  HasTable = TRUE
  Row = {2, 3}
  MaxTime = 7
  MaxFailures = 1
INVARIANT SeenIsRecent
PROPERTIES WritesFarApart AccountRowsSeen
