CONSTANTS
  a = a
  b = b
  q = q
  ws = ws
  nil = nil
  None = None
  Text = {a, b, q}
  Blank = {ws}
  Empty = nil
  Tokens <- Lengths
  MaxParts = 4
SPECIFICATION Spec
INVARIANTS CacheTruthful
CHECK_DEADLOCK FALSE
