SPECIFICATION FairSpec
CONSTANTS
  Calls = {c1, c2}
  NoCall = NoCall
  Paths = {p1}
  NoFile = NoFile
  MaxChunks = 2
  Offered = {"push"}
CHECK_DEADLOCK FALSE
PROPERTY
  PushCopiesFile
