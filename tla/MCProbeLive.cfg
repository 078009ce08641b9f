SPECIFICATION FairSpec
CONSTANTS
  Calls = {c1, c2}
  Sessions = {s1}
  NoCall = NoCall
  NoSession = NoSession
  Workers = 1
  Offered = {"mass_erase", "chip_info", "halt", "reset", "access"}
PROPERTY
  EveryCallAnswered
