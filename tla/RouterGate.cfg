SPECIFICATION Spec
CONSTANTS
  w1 = w1
  w2 = w2
  r1 = r1
  r2 = r2
  a = a
  b = b
  None = None
  Seg = {a, b}
  Req = {r1, r2}
  Size <- Sizes
  Hash <- Distinct
  Url <- TwoUrls
  Prompt <- Same
  Cap = 1
  Lpt = FALSE
  Streams = {r2}
  Faults = {"disconnect", "silent", "late", "registry", "poll_fails"}
INVARIANTS PermitsKept TypeOK
PROPERTIES PostedRegistered GateImplemented
