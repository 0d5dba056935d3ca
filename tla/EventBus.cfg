\* The queue holds one event.  A wedged bus is a deadlock of the code, stated
\* by Wedged, so the run does not stop at one.
SPECIFICATION Spec
CONSTANTS
  Publishers = {p1, p2}
  Workers = {w1}
  Changers = {c1, c2}
  NoProc = NoProc
  NoMessage = NoMessage
  Fields = {"topic"}
  Values = {"a"}
  Wildcard = "*"
  SubIds = {s1}
  QueueSize = 1
  HandlersPublish = TRUE
INVARIANTS TypeOK SendsOnOpenQueue NothingLeftBehind
PROPERTIES ClosesUnlessWedged
CHECK_DEADLOCK FALSE
