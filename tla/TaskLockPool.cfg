SPECIFICATION Spec
CONSTANTS
  Procs = {p1, p2, p3}
  NoProc = NoProc
  Tasks = {t1, t2}
  Locks = {l1, l2}
  NoLock = NoLock
  MaxConcurrentEvents = 2
INVARIANTS TypeOK OneHandlerPerTask EntryWhileUsed
PROPERTIES Served
