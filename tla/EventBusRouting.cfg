\* As many workers as publishers, and handlers that do not publish: the bus
\* never stops, and deadlock is checked.
SPECIFICATION Spec
CONSTANTS
  Publishers = {p1}
  Workers = {w1}
  Changers = {c1}
  NoProc = NoProc
  NoMessage = NoMessage
  Fields = {"topic"}
  Values = {"a", "b"}
  Wildcard = "*"
  SubIds = {s1, s2}
  QueueSize = 1
  HandlersPublish = FALSE
INVARIANTS OneWriter
PROPERTIES AlwaysReturns
