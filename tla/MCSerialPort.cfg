SPECIFICATION FairSpec
CONSTANTS
  Calls = {c1, c2, c3}
  NoCall = NoCall
  Transport = Transport
INVARIANTS
  TypeOK
  RunningCommandLeftAlone
  NoHandleLost
  CommandsAfterLogin
  PortGivenBack
PROPERTY
  EveryCallEnds
