SPECIFICATION Spec
CONSTANTS
  a = a b = b c = c q = q
  Seg = {a, b, q}
  Short = {}
  Prompts <- AskRepeat
  Req = {1, 2}
  KV = {1, 2, 3, 4, 5, 6, 7}
  Mamba = {1, 2, 3, 4, 5, 6, 7}
  Pick <- LowestFirst
  Transition = FALSE
  Rope = FALSE
  Depth = 1
  MaxDecode = 2
  RetractSteps = 20
  None = None
CONSTRAINT FewCopies
INVARIANTS NoLockLeak NoSlotLost
