SPECIFICATION Spec
CONSTANTS
  Tasks = {t1}
  EventIds = {e1, e2, e3, e4, e5}
  NoEventId = NoEventId
  Refs = {llm, r1, r2, r3, r4, r5, r6, r7}
  LlmRef = llm
  NoRef = NoRef
  Agents = {default, analyze}
  NoAgent = NoAgent
  DefaultMaxFailures = 1
  MaxTurns = 1
  MaxItems = 2
CHECK_DEADLOCK FALSE
INVARIANTS RunGoesOn OneAtATime SnapshotAgrees
PROPERTIES NothingRefused Settles
