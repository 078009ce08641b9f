SPECIFICATION FairSpec
CONSTANTS
  Cmds = {c1, c2, c3}
  NoCmd = NoCmd
  Codes <- MCCodes
CHECK_DEADLOCK FALSE
INVARIANTS
  TypeOK
  SuccessIsReal
  OwnOutputUnlessExpired
  NoErrorUnlessExpired
PROPERTIES
  ImplementsTransport
  EveryCommandAnswered
