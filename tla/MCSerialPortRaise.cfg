SPECIFICATION Spec
CONSTANTS
  Calls = {c1, c2}
  NoCall = NoCall
  Transport = Transport
SYMMETRY Interchangeable
INVARIANT
  ToolsNeverRaise
