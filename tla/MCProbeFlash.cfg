SPECIFICATION Spec
CONSTANTS
  Calls = {c1, c2}
  Sessions = {s1, s2, s3}
  NoCall = NoCall
  NoSession = NoSession
  Workers = 2
  Offered = {"flash", "resume"}
SYMMETRY Interchangeable
INVARIANTS
  TypeOK
  LiveThreadUsesOpenSession
  FlashFlagTracksSession
  HaltedWhileProgramming
  LiveThreadOwnsLock
  NoOpenSessionLost
PROPERTY
  SessionChangesUnderLock
