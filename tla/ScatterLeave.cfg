SPECIFICATION FairSpec
CONSTANTS
  e1 = e1
  e2 = e2
  c1 = c1
  c2 = c2
  c3 = c3
  a = a
  b = b
  x = x
  y = y
  None = None
  Eng = {e1, e2}
  Seg = {a, b}
  Short = {}
  Comb = {c1}
  Prompt <- OnePrompt
  Home <- OneHome
  Worker <- OneWorker
  Slot = {1, 2, 3}
  Transition = TRUE
  Rope = FALSE
  Faults = {"lost_sub", "lost_handle", "combine_late", "push_late", "write_late", "write_raise", "write_error", "peer_fails", "abort", "flush"}
PROPERTIES
  AllLeave
INVARIANTS
  SlotsKept
