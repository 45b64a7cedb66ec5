SPECIFICATION Spec
CONSTANTS
  a = a b = b c = c q = q
  Seg = {a, b, q}
  Short = {}
  Prompts <- ScatterAndAsk
  Req = {1, 2}
  KV = {1, 2, 3, 4, 5, 6, 7, 8}
  Mamba = {1, 2, 3, 4, 5, 6, 7}
  Pick <- LowestFirst
  Transition = TRUE
  Rope = TRUE
  Depth = 1
  MaxDecode = 0
  RetractSteps = 20
  None = None
INVARIANTS TypeOK SlotsExclusive MemoryBalance HitsStayCached IdleNothingInflight
