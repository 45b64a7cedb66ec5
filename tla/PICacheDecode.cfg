SPECIFICATION FairSpec
CONSTANTS
  a = a b = b c = c q = q
  Seg = {a, b, q}
  Short = {}
  Prompts <- AskTwo
  Req = {1, 2}
  KV = {1, 2, 3, 4, 5, 6, 7}
  Mamba = {1, 2, 3, 4}
  Pick <- LowestFirst
  Transition = TRUE
  Rope = TRUE
  Depth = 2
  MaxDecode = 2
  RetractSteps = 20
  None = None
CONSTRAINT FewCopies
INVARIANTS NoLockLeak
PROPERTIES BatchProgresses
