CONSTANTS
  w1 = w1
  w2 = w2
  w3 = w3
  a = a
  b = b
  c = c
  d = d
  None = None
  Seg = {a, b, c, d}
  Size <- Sizes
  Hash <- Colliding
  Url <- ThreeUrls
  MaxSegs = 3
  MaxLoad = 4
SPECIFICATION Spec
INVARIANTS LoadsBalanced LoadsOrderFree HoldersKept
