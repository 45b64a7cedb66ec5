SPECIFICATION Spec
CONSTANTS
  a = a b = b c = c q = q
  Seg = {a, b, c, q}
  Short = {}
  Prompts <- LongAsk
  Req = {1, 2}
  KV = {1, 2, 3, 4, 5, 6}
  Mamba = {1, 2, 3, 4, 5, 6, 7, 8, 9, 10, 11, 12}
  Pick <- LowestFirst
  Transition = TRUE
  Rope = TRUE
  Depth = 1
  MaxDecode = 0
  RetractSteps = 20
  None = None
INVARIANTS AdmittedBatchFits
