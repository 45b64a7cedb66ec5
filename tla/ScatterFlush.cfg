SPECIFICATION Spec
CONSTANTS
  e1 = e1
  e2 = e2
  c1 = c1
  c2 = c2
  c3 = c3
  a = a
  b = b
  x = x
  y = y
  None = None
  Eng = {e1, e2}
  Seg = {a, b}
  Short = {}
  Comb = {c1}
  Prompt <- OnePrompt
  Home <- OneHome
  Worker <- OneWorker
  Slot = {1, 2, 3}
  Transition = TRUE
  Rope = FALSE
  Faults = {"flush"}
INVARIANTS
  SlotsExclusive
