SPECIFICATION Spec
CONSTANTS
  Calls = {c1, c2}
  Sessions = {s1}
  NoCall = NoCall
  NoSession = NoSession
  Workers = 2
  Offered = {"access"}
SYMMETRY Interchangeable
INVARIANT
  OneThreadInPyOCD
