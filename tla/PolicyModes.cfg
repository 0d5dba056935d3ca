SPECIFICATION Spec
CONSTANTS
  c1 = c1
  c2 = c2
  MaxScript = 3
  MaxEdits = 1
  Calls <- MCCalls
  Paths <- MCPaths
  Above <- MCAbove
  Git = {".git/x"}
  Outside = {"../x"}
  HighRisk <- MCHighRisk
  Scenarios <- MCScenarios
  Typed <- MCTyped
INVARIANT ReadOnlyModeBlocksWrites
CHECK_DEADLOCK FALSE
