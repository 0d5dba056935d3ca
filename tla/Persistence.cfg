SPECIFICATION Spec
CONSTANTS
  Procs = {p1, p2}
  Keys = {k1, k2}
  MaxCalls = 4
  MaxCrashes = 1
  p1 = p1
  p2 = p2
  k1 = k1
  k2 = k2
INVARIANTS
  AckedIsKept
  ReadersAgree
  OnceUnlessRaced
PROPERTY FileIsTable
CHECK_DEADLOCK FALSE
