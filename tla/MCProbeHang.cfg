SPECIFICATION LoopSpec
CONSTANTS
  Calls = {c1, c2}
  Sessions = {s1}
  NoCall = NoCall
  NoSession = NoSession
  Workers = 1
  Offered = {"access"}
PROPERTY
  EveryCallAnswered
