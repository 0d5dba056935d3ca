SPECIFICATION Spec
CONSTANTS
  Tasks = {t1}
  e1 = e1
  e2 = e2
  EventIds = {e1, e2}
  NoEventId = NoEventId
  r1 = r1
  r2 = r2
  Refs = {r1, r2}
  NoRef = NoRef
  Agents = {code, plain}
  NoAgent = NoAgent
  FlowAgents = {code}
  DefaultMaxFailures = 2
  Budgets <- MCBudgets
SYMMETRY Symmetric
INVARIANTS TypeOK PendingMatchesPhase FailureBudget EffectDrivesPhase
PROPERTIES TerminalIsFinal ReplayRepeatsEffect ImplementsLifecycle
