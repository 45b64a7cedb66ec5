SPECIFICATION FairSpec
CONSTANTS
  a = a b = b c = c q = q
  Seg = {a, b, q}
  Short = {b}
  Prompts <- ShortAsk
  Req = {1, 2}
  KV = {1, 2, 3, 4, 5, 6, 7, 8, 9}
  Mamba = {1, 2, 3, 4, 5}
  Pick <- LowestFirst
  Transition = TRUE
  Rope = FALSE
  Depth = 2
  MaxDecode = 0
  RetractSteps = 20
  None = None
CHECK_DEADLOCK FALSE
INVARIANTS SlotsExclusive IdleNothingInflight
PROPERTIES AdmittedFinishes
