SPECIFICATION Spec
CONSTANTS
  Cmds = {c1, c2}
  NoCmd = NoCmd
  Codes <- MCCodes
CHECK_DEADLOCK FALSE
SYMMETRY Interchangeable
INVARIANT
  ExitStatusComplete
