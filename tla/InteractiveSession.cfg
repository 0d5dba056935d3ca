SPECIFICATION Spec
CONSTANTS
  MaxTasks = 2
  MaxInputs = 2
  EventIds = {e1, e2, e3, e4}
  NoEventId = NoEventId
  Refs = {r1, r2, r3, r4, r5}
  NoRef = NoRef
  Agent = agent
  NoAgent = NoAgent
  DefaultMaxFailures = 1
  MaxTurns = 1
INVARIANTS CarriedOn UserIsTold
PROPERTIES AnswerIsTaken
CHECK_DEADLOCK FALSE
VIEW View
