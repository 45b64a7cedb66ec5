CONSTANTS
  w1 = w1
  w2 = w2
  w3 = w3
  a = a
  b = b
  c = c
  d = d
  None = None
  Seg = {a, b, c}
  Size <- Sizes
  Hash <- Distinct
  Url <- TwoUrls
  MaxSegs = 3
  MaxLoad = 5
SPECIFICATION Spec
INVARIANTS ResultOrderFree
