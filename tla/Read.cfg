\* Two pollers of private documents, with and without gzip.
SPECIFICATION FairSpec
CONSTANTS
  modern = modern
  basic = basic
  zip = zip
  torn = torn
  None = None
  Client = {modern, basic}
  Conn = {h1, h2}
  Poll <- Polls
  Version = {zip, torn}
  Zipped = {zip, torn}
  Damaged = {torn}
  Accept <- Gzip
  Anything = {}
  MaxChanges = 3
  MaxLosses = 1
INVARIANTS TypeOK AnswersOwnBinding NotModifiedIsHeld NoBodyTwice
PROPERTIES EventuallyCurrent
