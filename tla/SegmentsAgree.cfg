CONSTANTS
  a = a
  b = b
  q = q
  ws = ws
  nil = nil
  None = None
  Text = {a, b, q}
  Blank = {}
  Empty = nil
  Tokens <- Lengths
  MaxParts = 5
SPECIFICATION FairSpec
INVARIANTS CacheTruthful
PROPERTIES GateOpens
CHECK_DEADLOCK FALSE
