SPECIFICATION FairSpec
CONSTANTS
  Calls = {c1, c2}
  NoCall = NoCall
  Paths = {p1, p2}
  NoFile = NoFile
  MaxChunks = 2
  Offered = {"push", "install"}
CHECK_DEADLOCK FALSE
INVARIANTS
  TypeOK
  OneConversation
  LoadedIntact
PROPERTIES
  PushedIntact
  EveryCallEnds
