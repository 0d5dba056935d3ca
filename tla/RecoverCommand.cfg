SPECIFICATION RecoverSpec
CONSTANTS
  Tasks = {t1}
  EventIds = {e1, e2, e3, e4, e5}
  NoEventId = NoEventId
  Refs = {llm, r1, r2, r3, r4, r5, r6, r7}
  LlmRef = llm
  NoRef = NoRef
  Agents = {default}
  NoAgent = NoAgent
  DefaultMaxFailures = 1
  MaxTurns = 1
  MaxItems = 1
CHECK_DEADLOCK FALSE
INVARIANTS RecoveredRunsGoOn
