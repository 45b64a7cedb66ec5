SPECIFICATION FairSpec
CONSTANTS
  e1 = e1
  e2 = e2
  c1 = c1
  c2 = c2
  c3 = c3
  a = a
  b = b
  x = x
  y = y
  None = None
  Eng = {e1, e2}
  Seg = {a, b}
  Short = {}
  Comb = {c1, c2}
  Prompt <- QueuePrompt
  Home <- MutualHome
  Worker <- MutualWorker
  Slot = {1, 2}
  Transition = TRUE
  Rope = FALSE
  Faults = {}
PROPERTIES
  AllRun
INVARIANTS
  TargetReserved
  SourcePinned
  SendingPinned
