----------------------- MODULE TaskStateMachineProofs -----------------------
(***************************************************************************)
(* The safety properties of TaskStateMachine for every set of tasks,       *)
(* events, references and agents and every failure budget.                 *)
(*                                                                         *)
(* The invariants of the specification are not inductive one by one: that  *)
(* agent.completed leaves no pending call behind needs that a running task *)
(* has none, that a replay repeats the effect needs that the phase has not *)
(* moved since, and both need the types.  Good(s, h) collects them for one *)
(* task with state s and history h; every handler builds a state that is   *)
(* Good from one that is.                                                  *)
(***************************************************************************)
EXTENDS TaskStateMachine, TLAPS

History == [event : Event \cup {NoEvent}, effect : Effect \cup {NoEffect}]

PendingOK(s) ==
  /\ s.pendingModel     # NoRef <=> s.phase = "WaitingModel"
  /\ s.pendingTool      # NoRef <=> s.phase = "WaitingTool"
  /\ s.pendingUserInput # NoRef <=> s.phase = "WaitingUserInput"
  /\ s.pendingSubAgent  # NoRef <=> s.phase = "WaitingSubAgent"

BudgetOK(s) ==
  /\ s.phase = "Failed" => s.failureCount = s.maxFailures + 1
  /\ s.phase # "Failed" => s.failureCount <= s.maxFailures
  /\ s.phase = "Created" => s.failureCount = 0

EffectOK(s, effect) ==
  /\ s.phase = "Created" => effect = NoEffect
  /\ s.phase = "Running" => effect.type \in {"agent.start", "agent.resume"}
  /\ s.phase = "WaitingModel" => effect = MakeEffect("model.call", s.pendingModel)
  /\ s.phase = "WaitingTool" => effect = MakeEffect("tool.dispatch", s.pendingTool)
  /\ s.phase = "WaitingUserInput" =>
       effect = MakeEffect("user_input.request", s.pendingUserInput)
  /\ s.phase = "WaitingSubAgent" =>
       effect = MakeEffect("sub_agent.dispatch", s.pendingSubAgent)
  /\ s.phase = "Completed" => effect = MakeEffect("task.completed.emit", NoRef)
  /\ s.phase = "Failed" => effect = MakeEffect("task.failed.emit", NoRef)
  /\ s.phase = "Cancelled" => effect = MakeEffect("task.cancelled.emit", NoRef)

ReplayOK(s, h) ==
  h.event.type \notin FlowEvents => ReplayedEffect(s, h.event) = h.effect

Good(s, h) ==
  /\ s \in TaskState
  /\ h \in History
  /\ PendingOK(s)
  /\ BudgetOK(s)
  /\ EffectOK(s, h.effect)
  /\ ReplayOK(s, h)

OutType ==
  [task : Tasks, effect : Effect \cup {NoEffect},
   verdict : {"idle", "handled", "replayed", "rejected", "failed"}]

IInv ==
  /\ st = [t \in Tasks |-> st[t]]
  /\ handled = [t \in Tasks |-> handled[t]]
  /\ out \in OutType
  /\ \A t \in Tasks : Good(st[t], handled[t])

-----------------------------------------------------------------------------

(* What Commit stores for the event's task. *)
Stored(e, s) == [s EXCEPT !.saved = TRUE, !.lastEventID = e.id]
Remembered(e, effect) == [event |-> e, effect |-> effect]

(* A handler that commits a Good state preserves the invariant. *)
LEMMA CommitPreserves ==
  ASSUME IInv, NEW t \in Tasks, NEW e \in Event, NEW s, NEW effect,
         Commit(t, e, s, effect), Good(Stored(e, s), Remembered(e, effect))
  PROVE  IInv'
<1>1. effect \in Effect \cup {NoEffect}
  BY DEF Good, History, Remembered
<1>2. out' \in OutType
  BY <1>1 DEF Commit, OutType
<1>3. \A u \in Tasks : st'[u] = IF u = t THEN Stored(e, s) ELSE st[u]
  BY DEF Commit, Stored, IInv
<1>4. \A u \in Tasks : handled'[u] = IF u = t THEN Remembered(e, effect) ELSE handled[u]
  BY DEF Commit, Remembered, IInv
<1>5. \A u \in Tasks : Good(st'[u], handled'[u])
  BY <1>3, <1>4 DEF IInv
<1>6. st' = [u \in Tasks |-> st'[u]] /\ handled' = [u \in Tasks |-> handled'[u]]
  BY DEF Commit, IInv
<1> QED BY <1>2, <1>5, <1>6 DEF IInv

(* The fields of an event. *)
LEMMA EventFields ==
  ASSUME NEW e \in Event
  PROVE  /\ e.id \in EventIds
         /\ e.type \in EventTypes
         /\ e.ref \in Refs \cup {NoRef}
         /\ e.agent \in Agents \cup {NoAgent}
         /\ e.budget \in Budgets
<1>1. e \in AnyEvent
  BY Zenon DEF Event
<1> QED BY <1>1, Zenon DEF AnyEvent

(* Marking a state as saved by an event disturbs nothing but those two fields. *)
LEMMA StoredGood ==
  ASSUME NEW s \in TaskState, NEW e \in Event, NEW effect \in Effect \cup {NoEffect},
         PendingOK(s), BudgetOK(s), EffectOK(s, effect),
         ReplayOK(s, Remembered(e, effect))
  PROVE  Good(Stored(e, s), Remembered(e, effect))
<1> DEFINE n == Stored(e, s)
<1>1. n \in TaskState
  BY EventFields DEF TaskState, Stored
<1>2. /\ n.phase = s.phase /\ n.failureCount = s.failureCount /\ n.maxFailures = s.maxFailures
      /\ n.pendingModel = s.pendingModel /\ n.pendingTool = s.pendingTool
      /\ n.pendingUserInput = s.pendingUserInput /\ n.pendingSubAgent = s.pendingSubAgent
  BY DEF TaskState, Stored
<1> HIDE DEF n
<1>3. PendingOK(n) /\ BudgetOK(n)
  BY <1>2, Zenon DEF PendingOK, BudgetOK
<1>4. EffectOK(n, effect)
  BY <1>2, Zenon DEF EffectOK
<1>5. ReplayOK(n, Remembered(e, effect))
  BY <1>2 DEF ReplayOK, ReplayedEffect, ReplayedFailure, EffectIf
<1>6. Remembered(e, effect) \in History /\ Remembered(e, effect).effect = effect
  BY DEF Remembered, History
<1> QED BY <1>1, <1>3, <1>4, <1>5, <1>6, Zenon DEF Good, n

(* What a failure makes of a state with no pending call. *)
LEMMA FailureGood ==
  ASSUME NEW s \in TaskState, NEW e \in Event,
         s.pendingModel = NoRef, s.pendingTool = NoRef,
         s.pendingUserInput = NoRef, s.pendingSubAgent = NoRef,
         s.failureCount <= s.maxFailures,
         e.type \in {"tool.failed", "sub_agent.failed", "agent.failed"}
  PROVE  Good(Stored(e, CountFailure(s)), Remembered(e, FailureEffect(s, e)))
<1> DEFINE n == CountFailure(s)
           effect == FailureEffect(s, e)
<1>1. s.failureCount \in Nat /\ s.maxFailures \in Nat /\ s.failureCount + 1 \in Nat
  BY DEF TaskState
<1>2. n \in TaskState
  <2>1. \A x \in Nat, p \in Phases :
          [s EXCEPT !.failureCount = x, !.phase = p] \in TaskState
    BY DEF TaskState
  <2>2. (IF OutOfBudget(s) THEN "Failed" ELSE "Running") \in Phases
    BY DEF Phases, TerminalPhases
  <2> QED BY <1>1, <2>1, <2>2, Zenon DEF CountFailure
<1>3. /\ n.phase = IF OutOfBudget(s) THEN "Failed" ELSE "Running"
      /\ n.failureCount = s.failureCount + 1 /\ n.maxFailures = s.maxFailures
      /\ n.pendingModel = NoRef /\ n.pendingTool = NoRef
      /\ n.pendingUserInput = NoRef /\ n.pendingSubAgent = NoRef
  BY DEF CountFailure, TaskState
<1>4. effect \in Effect
  BY EventFields DEF FailureEffect, MakeEffect, Effect, EffectTypes
<1> HIDE DEF n
<1>5. PendingOK(n)
  BY <1>3 DEF PendingOK
<1>6. BudgetOK(n)
  BY <1>1, <1>3 DEF BudgetOK, OutOfBudget
<1>7. EffectOK(n, effect)
  BY <1>3 DEF EffectOK, FailureEffect, MakeEffect
<1>8. ReplayOK(n, Remembered(e, effect))
  BY <1>3 DEF ReplayOK, Remembered, ReplayedEffect, ReplayedFailure, EffectIf,
              FailureEffect, MakeEffect
<1> QED BY <1>2, <1>4, <1>5, <1>6, <1>7, <1>8, StoredGood DEF n

(* A cancelled task is over with no call pending, from whatever phase. *)
LEMMA HandleTaskCancelRequestedGood ==
  ASSUME IInv, NEW t \in Tasks, NEW e \in Event, HandleTaskCancelRequested(t, e)
  PROVE  IInv'
<1> DEFINE s == st[t]
           n == [ClearPendings(s) EXCEPT !.phase = "Cancelled"]
           effect == MakeEffect("task.cancelled.emit", NoRef)
<1>1. /\ Good(s, handled[t]) /\ Accepts(s, e) /\ e.type \in {"task.cancel_requested"}
      /\ Commit(t, e, n, effect)
  BY DEF IInv, HandleTaskCancelRequested, Handles
<1>2. s \in TaskState /\ PendingOK(s) /\ BudgetOK(s)
  BY <1>1 DEF Good
<1>3. n \in TaskState /\ PendingOK(n) /\ BudgetOK(n)
  BY <1>1, <1>2, EventFields, NamesAssumption
     DEF TaskState, Phases, WaitingPhases, TerminalPhases, PendingOK, BudgetOK, Accepts,
         IsTerminal, CreationEvents, RequestEvents, AnswerEvents, FlowEvents, ClearPendings
<1>4. effect \in Effect /\ EffectOK(n, effect) /\ ReplayOK(n, Remembered(e, effect))
  BY <1>1, <1>2, EventFields
     DEF TaskState, EffectOK, MakeEffect, Effect, EffectTypes, ReplayOK, Remembered,
         ReplayedEffect, EffectIf, ClearPendings
<1> QED BY <1>1, <1>3, <1>4, StoredGood, CommitPreserves

(* A model request is the only pending call: a running task has none. *)
LEMMA HandleAgentModelRequestedGood ==
  ASSUME IInv, NEW t \in Tasks, NEW e \in Event, HandleAgentModelRequested(t, e)
  PROVE  IInv'
<1> DEFINE s == st[t]
           n == [s EXCEPT !.phase = "WaitingModel", !.pendingModel = e.ref]
           effect == MakeEffect("model.call", e.ref)
<1>1. /\ Good(s, handled[t]) /\ Accepts(s, e) /\ e.type \in {"agent.model_requested"}
      /\ Commit(t, e, n, effect)
  BY DEF IInv, HandleAgentModelRequested, Handles
<1>2. s \in TaskState /\ PendingOK(s) /\ BudgetOK(s)
  BY <1>1 DEF Good
<1>3. n \in TaskState /\ PendingOK(n) /\ BudgetOK(n)
  BY <1>1, <1>2, EventFields, NamesAssumption
     DEF TaskState, Phases, WaitingPhases, TerminalPhases, PendingOK, BudgetOK, Accepts,
         IsTerminal, CreationEvents, RequestEvents, AnswerEvents, FlowEvents
<1>4. effect \in Effect /\ EffectOK(n, effect) /\ ReplayOK(n, Remembered(e, effect))
  BY <1>1, <1>2, EventFields
     DEF TaskState, EffectOK, MakeEffect, Effect, EffectTypes, ReplayOK, Remembered,
         ReplayedEffect, EffectIf
<1> QED BY <1>1, <1>3, <1>4, StoredGood, CommitPreserves

(* An answered model call leaves none pending. *)
LEMMA HandleModelResponseGood ==
  ASSUME IInv, NEW t \in Tasks, NEW e \in Event, HandleModelResponse(t, e)
  PROVE  IInv'
<1> DEFINE s == st[t]
           n == [s EXCEPT !.phase = "Running", !.pendingModel = NoRef]
           effect == MakeEffect("agent.resume", e.ref)
<1>1. /\ Good(s, handled[t]) /\ Accepts(s, e) /\ e.type \in {"model.response_received", "model.response_failed"}
      /\ Commit(t, e, n, effect)
  BY DEF IInv, HandleModelResponse, Handles
<1>2. s \in TaskState /\ PendingOK(s) /\ BudgetOK(s)
  BY <1>1 DEF Good
<1>3. n \in TaskState /\ PendingOK(n) /\ BudgetOK(n)
  BY <1>1, <1>2, EventFields, NamesAssumption
     DEF TaskState, Phases, WaitingPhases, TerminalPhases, PendingOK, BudgetOK, Accepts,
         IsTerminal, CreationEvents, RequestEvents, AnswerEvents, FlowEvents
<1>4. effect \in Effect /\ EffectOK(n, effect) /\ ReplayOK(n, Remembered(e, effect))
  BY <1>1, <1>2, EventFields
     DEF TaskState, EffectOK, MakeEffect, Effect, EffectTypes, ReplayOK, Remembered,
         ReplayedEffect, EffectIf
<1> QED BY <1>1, <1>3, <1>4, StoredGood, CommitPreserves

(* A tool request is the only pending call. *)
LEMMA HandleAgentToolRequestedGood ==
  ASSUME IInv, NEW t \in Tasks, NEW e \in Event, HandleAgentToolRequested(t, e)
  PROVE  IInv'
<1> DEFINE s == st[t]
           n == [s EXCEPT !.phase = "WaitingTool", !.pendingTool = e.ref]
           effect == MakeEffect("tool.dispatch", e.ref)
<1>1. /\ Good(s, handled[t]) /\ Accepts(s, e) /\ e.type \in {"agent.tool_requested"}
      /\ Commit(t, e, n, effect)
  BY DEF IInv, HandleAgentToolRequested, Handles
<1>2. s \in TaskState /\ PendingOK(s) /\ BudgetOK(s)
  BY <1>1 DEF Good
<1>3. n \in TaskState /\ PendingOK(n) /\ BudgetOK(n)
  BY <1>1, <1>2, EventFields, NamesAssumption
     DEF TaskState, Phases, WaitingPhases, TerminalPhases, PendingOK, BudgetOK, Accepts,
         IsTerminal, CreationEvents, RequestEvents, AnswerEvents, FlowEvents
<1>4. effect \in Effect /\ EffectOK(n, effect) /\ ReplayOK(n, Remembered(e, effect))
  BY <1>1, <1>2, EventFields
     DEF TaskState, EffectOK, MakeEffect, Effect, EffectTypes, ReplayOK, Remembered,
         ReplayedEffect, EffectIf
<1> QED BY <1>1, <1>3, <1>4, StoredGood, CommitPreserves

(* A completed tool call leaves none pending. *)
LEMMA HandleToolCompletedGood ==
  ASSUME IInv, NEW t \in Tasks, NEW e \in Event, HandleToolCompleted(t, e)
  PROVE  IInv'
<1> DEFINE s == st[t]
           n == [s EXCEPT !.phase = "Running", !.pendingTool = NoRef]
           effect == MakeEffect("agent.resume", e.ref)
<1>1. /\ Good(s, handled[t]) /\ Accepts(s, e) /\ e.type \in {"tool.completed"}
      /\ Commit(t, e, n, effect)
  BY DEF IInv, HandleToolCompleted, Handles
<1>2. s \in TaskState /\ PendingOK(s) /\ BudgetOK(s)
  BY <1>1 DEF Good
<1>3. n \in TaskState /\ PendingOK(n) /\ BudgetOK(n)
  BY <1>1, <1>2, EventFields, NamesAssumption
     DEF TaskState, Phases, WaitingPhases, TerminalPhases, PendingOK, BudgetOK, Accepts,
         IsTerminal, CreationEvents, RequestEvents, AnswerEvents, FlowEvents
<1>4. effect \in Effect /\ EffectOK(n, effect) /\ ReplayOK(n, Remembered(e, effect))
  BY <1>1, <1>2, EventFields
     DEF TaskState, EffectOK, MakeEffect, Effect, EffectTypes, ReplayOK, Remembered,
         ReplayedEffect, EffectIf
<1> QED BY <1>1, <1>3, <1>4, StoredGood, CommitPreserves

(* A question to the user is the only pending call. *)
LEMMA HandleAgentUserInputRequestedGood ==
  ASSUME IInv, NEW t \in Tasks, NEW e \in Event, HandleAgentUserInputRequested(t, e)
  PROVE  IInv'
<1> DEFINE s == st[t]
           n == [s EXCEPT !.phase = "WaitingUserInput", !.pendingUserInput = e.ref]
           effect == MakeEffect("user_input.request", e.ref)
<1>1. /\ Good(s, handled[t]) /\ Accepts(s, e) /\ e.type \in {"agent.user_input_requested"}
      /\ Commit(t, e, n, effect)
  BY DEF IInv, HandleAgentUserInputRequested, Handles
<1>2. s \in TaskState /\ PendingOK(s) /\ BudgetOK(s)
  BY <1>1 DEF Good
<1>3. n \in TaskState /\ PendingOK(n) /\ BudgetOK(n)
  BY <1>1, <1>2, EventFields, NamesAssumption
     DEF TaskState, Phases, WaitingPhases, TerminalPhases, PendingOK, BudgetOK, Accepts,
         IsTerminal, CreationEvents, RequestEvents, AnswerEvents, FlowEvents
<1>4. effect \in Effect /\ EffectOK(n, effect) /\ ReplayOK(n, Remembered(e, effect))
  BY <1>1, <1>2, EventFields
     DEF TaskState, EffectOK, MakeEffect, Effect, EffectTypes, ReplayOK, Remembered,
         ReplayedEffect, EffectIf
<1> QED BY <1>1, <1>3, <1>4, StoredGood, CommitPreserves

(* User input leaves none pending, asked for or not. *)
LEMMA HandleUserInputReceivedGood ==
  ASSUME IInv, NEW t \in Tasks, NEW e \in Event, HandleUserInputReceived(t, e)
  PROVE  IInv'
<1> DEFINE s == st[t]
           n == [s EXCEPT !.phase = "Running", !.pendingUserInput = NoRef]
           effect == MakeEffect("agent.resume", e.ref)
<1>1. /\ Good(s, handled[t]) /\ Accepts(s, e) /\ e.type \in {"user_input.received"}
      /\ Commit(t, e, n, effect)
  BY DEF IInv, HandleUserInputReceived, Handles
<1>2. s \in TaskState /\ PendingOK(s) /\ BudgetOK(s)
  BY <1>1 DEF Good
<1>3. n \in TaskState /\ PendingOK(n) /\ BudgetOK(n)
  BY <1>1, <1>2, EventFields, NamesAssumption
     DEF TaskState, Phases, WaitingPhases, TerminalPhases, PendingOK, BudgetOK, Accepts,
         IsTerminal, CreationEvents, RequestEvents, AnswerEvents, FlowEvents
<1>4. effect \in Effect /\ EffectOK(n, effect) /\ ReplayOK(n, Remembered(e, effect))
  BY <1>1, <1>2, EventFields
     DEF TaskState, EffectOK, MakeEffect, Effect, EffectTypes, ReplayOK, Remembered,
         ReplayedEffect, EffectIf
<1> QED BY <1>1, <1>3, <1>4, StoredGood, CommitPreserves

(* A sub-agent request is the only pending call. *)
LEMMA HandleAgentSubAgentRequestedGood ==
  ASSUME IInv, NEW t \in Tasks, NEW e \in Event, HandleAgentSubAgentRequested(t, e)
  PROVE  IInv'
<1> DEFINE s == st[t]
           n == [s EXCEPT !.phase = "WaitingSubAgent", !.pendingSubAgent = e.ref]
           effect == MakeEffect("sub_agent.dispatch", e.ref)
<1>1. /\ Good(s, handled[t]) /\ Accepts(s, e) /\ e.type \in {"agent.sub_agent_requested"}
      /\ Commit(t, e, n, effect)
  BY DEF IInv, HandleAgentSubAgentRequested, Handles
<1>2. s \in TaskState /\ PendingOK(s) /\ BudgetOK(s)
  BY <1>1 DEF Good
<1>3. n \in TaskState /\ PendingOK(n) /\ BudgetOK(n)
  BY <1>1, <1>2, EventFields, NamesAssumption
     DEF TaskState, Phases, WaitingPhases, TerminalPhases, PendingOK, BudgetOK, Accepts,
         IsTerminal, CreationEvents, RequestEvents, AnswerEvents, FlowEvents
<1>4. effect \in Effect /\ EffectOK(n, effect) /\ ReplayOK(n, Remembered(e, effect))
  BY <1>1, <1>2, EventFields
     DEF TaskState, EffectOK, MakeEffect, Effect, EffectTypes, ReplayOK, Remembered,
         ReplayedEffect, EffectIf
<1> QED BY <1>1, <1>3, <1>4, StoredGood, CommitPreserves

(* A completed sub task leaves none pending. *)
LEMMA HandleSubAgentCompletedGood ==
  ASSUME IInv, NEW t \in Tasks, NEW e \in Event, HandleSubAgentCompleted(t, e)
  PROVE  IInv'
<1> DEFINE s == st[t]
           n == [s EXCEPT !.phase = "Running", !.pendingSubAgent = NoRef]
           effect == MakeEffect("agent.resume", e.ref)
<1>1. /\ Good(s, handled[t]) /\ Accepts(s, e) /\ e.type \in {"sub_agent.completed"}
      /\ Commit(t, e, n, effect)
  BY DEF IInv, HandleSubAgentCompleted, Handles
<1>2. s \in TaskState /\ PendingOK(s) /\ BudgetOK(s)
  BY <1>1 DEF Good
<1>3. n \in TaskState /\ PendingOK(n) /\ BudgetOK(n)
  BY <1>1, <1>2, EventFields, NamesAssumption
     DEF TaskState, Phases, WaitingPhases, TerminalPhases, PendingOK, BudgetOK, Accepts,
         IsTerminal, CreationEvents, RequestEvents, AnswerEvents, FlowEvents
<1>4. effect \in Effect /\ EffectOK(n, effect) /\ ReplayOK(n, Remembered(e, effect))
  BY <1>1, <1>2, EventFields
     DEF TaskState, EffectOK, MakeEffect, Effect, EffectTypes, ReplayOK, Remembered,
         ReplayedEffect, EffectIf
<1> QED BY <1>1, <1>3, <1>4, StoredGood, CommitPreserves

(* Completion clears nothing, and there is nothing to clear. *)
LEMMA HandleAgentCompletedGood ==
  ASSUME IInv, NEW t \in Tasks, NEW e \in Event, HandleAgentCompleted(t, e)
  PROVE  IInv'
<1> DEFINE s == st[t]
           n == [s EXCEPT !.phase = "Completed"]
           effect == MakeEffect("task.completed.emit", NoRef)
<1>1. /\ Good(s, handled[t]) /\ Accepts(s, e) /\ e.type \in {"agent.completed"}
      /\ Commit(t, e, n, effect)
  BY DEF IInv, HandleAgentCompleted, Handles
<1>2. s \in TaskState /\ PendingOK(s) /\ BudgetOK(s)
  BY <1>1 DEF Good
<1>3. n \in TaskState /\ PendingOK(n) /\ BudgetOK(n)
  BY <1>1, <1>2, EventFields, NamesAssumption
     DEF TaskState, Phases, WaitingPhases, TerminalPhases, PendingOK, BudgetOK, Accepts,
         IsTerminal, CreationEvents, RequestEvents, AnswerEvents, FlowEvents
<1>4. effect \in Effect /\ EffectOK(n, effect) /\ ReplayOK(n, Remembered(e, effect))
  BY <1>1, <1>2, EventFields
     DEF TaskState, EffectOK, MakeEffect, Effect, EffectTypes, ReplayOK, Remembered,
         ReplayedEffect, EffectIf
<1> QED BY <1>1, <1>3, <1>4, StoredGood, CommitPreserves

(* A failed tool call is counted, with no call pending. *)
LEMMA HandleToolFailedGood ==
  ASSUME IInv, NEW t \in Tasks, NEW e \in Event, HandleToolFailed(t, e)
  PROVE  IInv'
<1> DEFINE s == st[t]
           n == [s EXCEPT !.pendingTool = NoRef]
<1>1. /\ Good(s, handled[t]) /\ Accepts(s, e) /\ e.type = "tool.failed"
      /\ Commit(t, e, CountFailure(n), FailureEffect(s, e))
  BY DEF IInv, HandleToolFailed, Handles
<1>2. s \in TaskState /\ PendingOK(s) /\ BudgetOK(s)
  BY <1>1 DEF Good
<1>3. /\ n \in TaskState
      /\ n.pendingModel = NoRef /\ n.pendingTool = NoRef
      /\ n.pendingUserInput = NoRef /\ n.pendingSubAgent = NoRef
      /\ n.failureCount = s.failureCount /\ n.maxFailures = s.maxFailures
  BY <1>1, <1>2 DEF TaskState, PendingOK, Accepts, ClearPendings, WaitingPhases,
                    CreationEvents, RequestEvents, FlowEvents
<1>4. n.failureCount <= n.maxFailures
  BY <1>1, <1>2, <1>3 DEF BudgetOK, Accepts, WaitingPhases, CreationEvents,
                          RequestEvents, FlowEvents
<1>5. FailureEffect(s, e) = FailureEffect(n, e)
  BY <1>3 DEF FailureEffect, OutOfBudget
<1>6. Good(Stored(e, CountFailure(n)), Remembered(e, FailureEffect(s, e)))
  BY <1>1, <1>3, <1>4, <1>5, FailureGood
<1> QED BY <1>1, <1>6, CommitPreserves

(* A failed sub task is counted, with no call pending. *)
LEMMA HandleSubAgentFailedGood ==
  ASSUME IInv, NEW t \in Tasks, NEW e \in Event, HandleSubAgentFailed(t, e)
  PROVE  IInv'
<1> DEFINE s == st[t]
           n == [s EXCEPT !.pendingSubAgent = NoRef]
<1>1. /\ Good(s, handled[t]) /\ Accepts(s, e) /\ e.type = "sub_agent.failed"
      /\ Commit(t, e, CountFailure(n), FailureEffect(s, e))
  BY DEF IInv, HandleSubAgentFailed, Handles
<1>2. s \in TaskState /\ PendingOK(s) /\ BudgetOK(s)
  BY <1>1 DEF Good
<1>3. /\ n \in TaskState
      /\ n.pendingModel = NoRef /\ n.pendingTool = NoRef
      /\ n.pendingUserInput = NoRef /\ n.pendingSubAgent = NoRef
      /\ n.failureCount = s.failureCount /\ n.maxFailures = s.maxFailures
  BY <1>1, <1>2 DEF TaskState, PendingOK, Accepts, ClearPendings, WaitingPhases,
                    CreationEvents, RequestEvents, FlowEvents
<1>4. n.failureCount <= n.maxFailures
  BY <1>1, <1>2, <1>3 DEF BudgetOK, Accepts, WaitingPhases, CreationEvents,
                          RequestEvents, FlowEvents
<1>5. FailureEffect(s, e) = FailureEffect(n, e)
  BY <1>3 DEF FailureEffect, OutOfBudget
<1>6. Good(Stored(e, CountFailure(n)), Remembered(e, FailureEffect(s, e)))
  BY <1>1, <1>3, <1>4, <1>5, FailureGood
<1> QED BY <1>1, <1>6, CommitPreserves

(* A failed agent turn is counted; it gives up every pending call first. *)
LEMMA HandleAgentFailedGood ==
  ASSUME IInv, NEW t \in Tasks, NEW e \in Event, HandleAgentFailed(t, e)
  PROVE  IInv'
<1> DEFINE s == st[t]
           n == ClearPendings(s)
<1>1. /\ Good(s, handled[t]) /\ Accepts(s, e) /\ e.type = "agent.failed"
      /\ Commit(t, e, CountFailure(n), FailureEffect(s, e))
  BY DEF IInv, HandleAgentFailed, Handles
<1>2. s \in TaskState /\ PendingOK(s) /\ BudgetOK(s)
  BY <1>1 DEF Good
<1>3. /\ n \in TaskState
      /\ n.pendingModel = NoRef /\ n.pendingTool = NoRef
      /\ n.pendingUserInput = NoRef /\ n.pendingSubAgent = NoRef
      /\ n.failureCount = s.failureCount /\ n.maxFailures = s.maxFailures
  BY <1>1, <1>2 DEF TaskState, PendingOK, Accepts, ClearPendings, WaitingPhases,
                    CreationEvents, RequestEvents, FlowEvents
<1>4. n.failureCount <= n.maxFailures
  BY <1>1, <1>2, <1>3 DEF BudgetOK, Accepts, WaitingPhases, CreationEvents,
                          RequestEvents, FlowEvents
<1>5. FailureEffect(s, e) = FailureEffect(n, e)
  BY <1>3 DEF FailureEffect, OutOfBudget
<1>6. Good(Stored(e, CountFailure(n)), Remembered(e, FailureEffect(s, e)))
  BY <1>1, <1>3, <1>4, <1>5, FailureGood
<1> QED BY <1>1, <1>6, CommitPreserves

(* A creation payload sets the agent and the budget of a task without history. *)
LEMMA CreationPayload ==
  ASSUME NEW s \in TaskState, NEW e \in Event
  PROVE  LET n == ApplyCreationPayload(s, e)
         IN  /\ n \in TaskState
             /\ n.phase = s.phase /\ n.failureCount = s.failureCount
             /\ n.pendingModel = s.pendingModel /\ n.pendingTool = s.pendingTool
             /\ n.pendingUserInput = s.pendingUserInput
             /\ n.pendingSubAgent = s.pendingSubAgent
             /\ n.maxFailures \in Budgets \cup {s.maxFailures, DefaultMaxFailures}
<1> DEFINE n == ApplyCreationPayload(s, e)
           given == IF e.budget > 0 THEN e.budget ELSE s.maxFailures
           budget == IF given = 0 THEN DefaultMaxFailures ELSE given
           name == IF e.agent # NoAgent THEN e.agent ELSE s.agent
           phase == IF name \in FlowAgents /\ s.agentPhase = AgentPhaseUnknown
                    THEN FlowInitial ELSE s.agentPhase
<1>1. n = [s EXCEPT !.agent = name, !.maxFailures = budget, !.agentPhase = phase]
  BY Zenon DEF ApplyCreationPayload
<1>2. budget \in Nat /\ budget \in Budgets \cup {s.maxFailures, DefaultMaxFailures}
  <2>1. e.budget \in Budgets /\ s.maxFailures \in Nat
    BY EventFields DEF TaskState
  <2> QED BY <2>1, BudgetAssumption
<1>3. name \in Agents \cup {NoAgent} /\ phase \in AgentPhases
  BY EventFields DEF TaskState, AgentPhases, CodePhases, FlowInitial
<1> HIDE DEF budget, name, phase
<1> QED BY <1>1, <1>2, <1>3 DEF TaskState

(* A created task has nothing pending, nothing counted and nothing dispatched. *)
LEMMA HandleTaskCreatedGood ==
  ASSUME IInv, NEW t \in Tasks, NEW e \in Event, HandleTaskCreated(t, e)
  PROVE  IInv'
<1> DEFINE s == st[t]
           n == ApplyCreationPayload(s, e)
<1>1. /\ Good(s, handled[t]) /\ Accepts(s, e) /\ e.type = "task.created"
      /\ Commit(t, e, n, NoEffect)
  BY DEF IInv, HandleTaskCreated, Handles
<1>2. s \in TaskState /\ PendingOK(s) /\ BudgetOK(s) /\ s.phase = "Created"
  BY <1>1 DEF Good, Accepts, RequestEvents, FlowEvents
<1>3. /\ n \in TaskState /\ n.phase = "Created" /\ n.failureCount = s.failureCount
      /\ PendingOK(n) /\ n.maxFailures \in Nat
  BY <1>2, CreationPayload DEF PendingOK, TaskState
<1> HIDE DEF n
<1>4. BudgetOK(n)
  BY <1>2, <1>3 DEF BudgetOK
<1>5. EffectOK(n, NoEffect) /\ ReplayOK(n, Remembered(e, NoEffect))
  BY <1>1, <1>3 DEF EffectOK, ReplayOK, Remembered, ReplayedEffect
<1> QED BY <1>1, <1>3, <1>4, <1>5, StoredGood, CommitPreserves

(* A started task runs its first agent turn within its budget. *)
LEMMA HandleTaskStartRequestedGood ==
  ASSUME IInv, NEW t \in Tasks, NEW e \in Event, HandleTaskStartRequested(t, e)
  PROVE  IInv'
<1> DEFINE s == st[t]
           c == ApplyCreationPayload(s, e)
           n == [c EXCEPT !.phase = "Running"]
           effect == MakeEffect("agent.start", NoRef)
<1>1. /\ Good(s, handled[t]) /\ Accepts(s, e) /\ e.type = "task.start_requested"
      /\ Commit(t, e, n, effect)
  BY DEF IInv, HandleTaskStartRequested, Handles
<1>2. s \in TaskState /\ PendingOK(s) /\ BudgetOK(s) /\ s.phase = "Created"
  BY <1>1 DEF Good, Accepts, RequestEvents, FlowEvents
<1>3. /\ c \in TaskState /\ c.phase = "Created" /\ c.failureCount = 0
      /\ PendingOK(c) /\ c.maxFailures \in Nat
  BY <1>2, CreationPayload DEF PendingOK, BudgetOK, TaskState
<1> HIDE DEF c
<1>4. n \in TaskState /\ PendingOK(n) /\ BudgetOK(n)
  BY <1>3 DEF TaskState, Phases, PendingOK, BudgetOK
<1>5. effect \in Effect /\ EffectOK(n, effect) /\ ReplayOK(n, Remembered(e, effect))
  BY <1>1, <1>3 DEF TaskState, EffectOK, MakeEffect, Effect, EffectTypes, ReplayOK,
                    Remembered, ReplayedEffect, EffectIf
<1> QED BY <1>1, <1>4, <1>5, StoredGood, CommitPreserves

(* A step of the agent's flow moves the agent's phase, not the task's. *)
LEMMA HandleAgentFlowGood ==
  ASSUME IInv, NEW t \in Tasks, NEW e \in Event, HandleAgentFlow(t, e)
  PROVE  IInv'
<1> DEFINE s == st[t]
           effect == MakeEffect("agent.resume", NoRef)
<1>1. Good(s, handled[t]) /\ Accepts(s, e) /\ e.type \in FlowEvents
  BY DEF IInv, HandleAgentFlow, Handles
<1>2. PICK tr \in CodeAgentFlow : Commit(t, e, [s EXCEPT !.agentPhase = tr.to], effect)
  BY DEF HandleAgentFlow, FlowTransitions
<1> DEFINE n == [s EXCEPT !.agentPhase = tr.to]
<1>3. s \in TaskState /\ PendingOK(s) /\ BudgetOK(s) /\ s.phase = "Running"
  BY <1>1 DEF Good, Accepts, CreationEvents, RequestEvents, FlowEvents
<1>4. tr.to \in AgentPhases
  BY DEF CodeAgentFlow, AgentPhases, CodePhases
<1>5. n \in TaskState /\ PendingOK(n) /\ BudgetOK(n)
  BY <1>3, <1>4 DEF TaskState, PendingOK, BudgetOK
<1>6. effect \in Effect /\ EffectOK(n, effect) /\ ReplayOK(n, Remembered(e, effect))
  BY <1>1, <1>3 DEF TaskState, EffectOK, MakeEffect, Effect, EffectTypes, ReplayOK,
                    Remembered
<1> QED BY <1>2, <1>5, <1>6, StoredGood, CommitPreserves

-----------------------------------------------------------------------------

(* The named alternatives of a step. *)
Handler(t, e) ==
  \/ HandleTaskCreated(t, e)         \/ HandleTaskStartRequested(t, e)
  \/ HandleTaskCancelRequested(t, e) \/ HandleAgentModelRequested(t, e)
  \/ HandleModelResponse(t, e)       \/ HandleAgentToolRequested(t, e)
  \/ HandleToolCompleted(t, e)       \/ HandleToolFailed(t, e)
  \/ HandleAgentUserInputRequested(t, e) \/ HandleUserInputReceived(t, e)
  \/ HandleAgentSubAgentRequested(t, e)  \/ HandleSubAgentCompleted(t, e)
  \/ HandleSubAgentFailed(t, e)      \/ HandleAgentCompleted(t, e)
  \/ HandleAgentFailed(t, e)         \/ HandleAgentFlow(t, e)

(* A replay, a rejection and a store failure return a result and save nothing. *)
Silent(t, e) == ReplayEvent(t, e) \/ RejectEvent(t, e) \/ StoreFails(t, e)

(* A step is a handler's or one that leaves the state alone. *)
LEMMA StepCases ==
  ASSUME Next
  PROVE  \E t \in Tasks, e \in Event : Handler(t, e) \/ Silent(t, e)
BY Zenon DEF Next, HandleEvent, Handler, Silent

(* A task without a record is Good. *)
LEMMA InitGood == Init => IInv
<1> SUFFICES ASSUME Init PROVE IInv
  OBVIOUS
<1>1. NewTaskState \in TaskState
  BY BudgetAssumption DEF NewTaskState, TaskState, Phases, AgentPhases, AgentPhaseUnknown
<1>2. [event |-> NoEvent, effect |-> NoEffect] \in History
  BY DEF History
<1>3. PendingOK(NewTaskState) /\ EffectOK(NewTaskState, NoEffect)
  BY DEF NewTaskState, PendingOK, EffectOK
<1>4. BudgetOK(NewTaskState)
  BY BudgetAssumption DEF NewTaskState, BudgetOK
<1>5. ReplayOK(NewTaskState, [event |-> NoEvent, effect |-> NoEffect])
  BY DEF ReplayOK, NoEvent, ReplayedEffect
<1>6. Good(NewTaskState, [event |-> NoEvent, effect |-> NoEffect])
  BY <1>1, <1>2, <1>3, <1>4, <1>5 DEF Good
<1>7. \A t \in Tasks : Good(st[t], handled[t])
  BY <1>6 DEF Init
<1>8. (CHOOSE t \in Tasks : TRUE) \in Tasks
  BY NamesAssumption
<1>9. out \in OutType
  BY <1>8 DEF Init, OutType
<1> QED BY <1>7, <1>9 DEF Init, IInv

(* Replays, rejections and store failures preserve the invariant. *)
LEMMA SilentGood ==
  ASSUME IInv, NEW t \in Tasks, NEW e \in Event, Silent(t, e)
  PROVE  IInv'
<1>1. handled[t].effect \in Effect \cup {NoEffect} /\ Good(st[t], handled[t])
  BY DEF IInv, Good, History
<1>2. ASSUME ReplayEvent(t, e)
      PROVE  out' \in OutType
  <2>1. ReplayedEffect(st[t], e) \in Effect \cup {NoEffect}
    BY EventFields DEF ReplayedEffect, ReplayedFailure, EffectIf, MakeEffect, Effect,
                       EffectTypes
  <2> QED BY <1>2, <2>1 DEF ReplayEvent, OutType
<1>3. out' \in OutType
  BY <1>2 DEF Silent, RejectEvent, StoreFails, OutType
<1>4. UNCHANGED <<st, handled>>
  BY DEF Silent, ReplayEvent, RejectEvent, StoreFails
<1> QED BY <1>3, <1>4 DEF IInv

(* Every step preserves the invariant. *)
LEMMA StepGood == IInv /\ [Next]_vars => IInv'
<1> SUFFICES ASSUME IInv, [Next]_vars PROVE IInv'
  OBVIOUS
<1>1. CASE Next
  <2>1. PICK t \in Tasks, e \in Event : Handler(t, e) \/ Silent(t, e)
    BY <1>1, StepCases
  <2>2. CASE HandleTaskCreated(t, e)  BY <2>2, HandleTaskCreatedGood
  <2>3. CASE HandleTaskStartRequested(t, e)  BY <2>3, HandleTaskStartRequestedGood
  <2>4. CASE HandleTaskCancelRequested(t, e)  BY <2>4, HandleTaskCancelRequestedGood
  <2>5. CASE HandleAgentModelRequested(t, e)  BY <2>5, HandleAgentModelRequestedGood
  <2>6. CASE HandleModelResponse(t, e)  BY <2>6, HandleModelResponseGood
  <2>7. CASE HandleAgentToolRequested(t, e)  BY <2>7, HandleAgentToolRequestedGood
  <2>8. CASE HandleToolCompleted(t, e)  BY <2>8, HandleToolCompletedGood
  <2>9. CASE HandleToolFailed(t, e)  BY <2>9, HandleToolFailedGood
  <2>10. CASE HandleAgentUserInputRequested(t, e)
    BY <2>10, HandleAgentUserInputRequestedGood
  <2>11. CASE HandleUserInputReceived(t, e)  BY <2>11, HandleUserInputReceivedGood
  <2>12. CASE HandleAgentSubAgentRequested(t, e)
    BY <2>12, HandleAgentSubAgentRequestedGood
  <2>13. CASE HandleSubAgentCompleted(t, e)  BY <2>13, HandleSubAgentCompletedGood
  <2>14. CASE HandleSubAgentFailed(t, e)  BY <2>14, HandleSubAgentFailedGood
  <2>15. CASE HandleAgentCompleted(t, e)  BY <2>15, HandleAgentCompletedGood
  <2>16. CASE HandleAgentFailed(t, e)  BY <2>16, HandleAgentFailedGood
  <2>17. CASE HandleAgentFlow(t, e)  BY <2>17, HandleAgentFlowGood
  <2>18. CASE Silent(t, e)  BY <2>18, SilentGood
  <2> QED BY <2>1, <2>2, <2>3, <2>4, <2>5, <2>6, <2>7, <2>8, <2>9, <2>10, <2>11, <2>12,
             <2>13, <2>14, <2>15, <2>16, <2>17, <2>18, Zenon DEF Handler
<1>2. CASE UNCHANGED vars
  BY <1>2 DEF vars, IInv
<1> QED BY <1>1, <1>2

(* The invariant holds in every behaviour. *)
LEMMA IInvInvariant == Spec => []IInv
BY InitGood, StepGood, PTL DEF Spec

-----------------------------------------------------------------------------

(* Whatever is delivered, the store, the history and the results keep their types. *)
THEOREM TypeCorrect == Spec => []TypeOK
<1>1. IInv => TypeOK
  BY DEF IInv, Good, History, OutType, TypeOK
<1> QED BY <1>1, IInvInvariant, PTL

(* No handler leaves a call pending behind the phase that waited for it. *)
THEOREM PendingMatches == Spec => []PendingMatchesPhase
<1>1. IInv => PendingMatchesPhase
  BY DEF IInv, Good, PendingOK, PendingMatchesPhase
<1> QED BY <1>1, IInvInvariant, PTL

(* A task fails exactly on the failure that exceeds its budget. *)
THEOREM FailuresWithinBudget == Spec => []FailureBudget
<1>1. IInv => FailureBudget
  BY DEF IInv, Good, BudgetOK, FailureBudget
<1> QED BY <1>1, IInvInvariant, PTL

(* Every saved state has the effect that will produce its next event. *)
THEOREM EffectDrives == Spec => []EffectDrivesPhase
<1>1. IInv => EffectDrivesPhase
  BY DEF IInv, Good, EffectOK, EffectDrivesPhase
<1> QED BY <1>1, IInvInvariant, PTL

-----------------------------------------------------------------------------

(* Every handler accepts its event and rewrites the state of that task alone. *)
LEMMA HandlerChanges ==
  ASSUME NEW t \in Tasks, NEW e \in Event, Handler(t, e)
  PROVE  Accepts(st[t], e) /\ \E s, effect : Commit(t, e, s, effect)
<1>1. Accepts(st[t], e)
  BY DEF Handler, Handles, HandleTaskCreated, HandleTaskStartRequested,
         HandleTaskCancelRequested, HandleAgentModelRequested, HandleModelResponse,
         HandleAgentToolRequested, HandleToolCompleted, HandleToolFailed,
         HandleAgentUserInputRequested, HandleUserInputReceived,
         HandleAgentSubAgentRequested, HandleSubAgentCompleted, HandleSubAgentFailed,
         HandleAgentCompleted, HandleAgentFailed, HandleAgentFlow
<1>2. \E s, effect : Commit(t, e, s, effect)
  BY Zenon
     DEF Handler, HandleTaskCreated, HandleTaskStartRequested,
         HandleTaskCancelRequested, HandleAgentModelRequested, HandleModelResponse,
         HandleAgentToolRequested, HandleToolCompleted, HandleToolFailed,
         HandleAgentUserInputRequested, HandleUserInputReceived,
         HandleAgentSubAgentRequested, HandleSubAgentCompleted, HandleSubAgentFailed,
         HandleAgentCompleted, HandleAgentFailed, HandleAgentFlow
<1> QED BY <1>1, <1>2

(* What a handler leaves of the state s for event e: the phase and effect of its kind. *)
OutcomeOK(e, s, effect) ==
  /\ e.type = "task.start_requested" => effect.type = "agent.start"
  /\ effect.type = "agent.resume" => effect.ref = e.ref
  /\ s.phase \in WaitingPhases => e.type \in RequestEvents
  /\ s.phase = "WaitingModel" => e.type = "agent.model_requested" /\ s.pendingModel = e.ref
  /\ s.phase = "WaitingUserInput" =>
       e.type = "agent.user_input_requested" /\ s.pendingUserInput = e.ref
  /\ s.phase = "Created" => e.type = "task.created"

(* Commit stores what it is given under the event's id and returns its effect. *)
LEMMA CommitOutcome ==
  ASSUME IInv, NEW t \in Tasks, NEW e \in Event, NEW s \in TaskState, NEW effect,
         Commit(t, e, s, effect), OutcomeOK(e, s, effect)
  PROVE  /\ \A u \in Tasks : u # t => st'[u] = st[u]
         /\ st'[t].saved /\ st'[t].lastEventID = e.id
         /\ out'.verdict = "handled" /\ out'.effect = handled'[t].effect
         /\ OutcomeOK(e, st'[t], out'.effect)
<1>1. \A u \in Tasks : st'[u] = IF u = t THEN Stored(e, s) ELSE st[u]
  BY DEF Commit, Stored, IInv
<1>2. /\ st'[t].saved /\ st'[t].lastEventID = e.id
      /\ st'[t].phase = s.phase /\ st'[t].pendingModel = s.pendingModel
      /\ st'[t].pendingUserInput = s.pendingUserInput
  BY <1>1 DEF Stored, TaskState
<1>3. out'.verdict = "handled" /\ out'.effect = effect /\ handled'[t].effect = effect
  BY DEF Commit, IInv
<1> QED BY <1>1, <1>2, <1>3 DEF OutcomeOK

(* Every handler has the outcome of its kind. *)
LEMMA HandlerOutcome ==
  ASSUME IInv, NEW t \in Tasks, NEW e \in Event, Handler(t, e)
  PROVE  /\ \A u \in Tasks : u # t => st'[u] = st[u]
         /\ st'[t].saved /\ st'[t].lastEventID = e.id
         /\ out'.verdict = "handled" /\ out'.effect = handled'[t].effect
         /\ OutcomeOK(e, st'[t], out'.effect)
<1> DEFINE s == st[t]
           Outcome(n, effect) == Commit(t, e, n, effect) /\ OutcomeOK(e, n, effect)
<1>1. s \in TaskState /\ Accepts(s, e)
  BY HandlerChanges DEF IInv, Good
<1>2. e.ref \in Refs \cup {NoRef} /\ \A x \in Refs \cup {NoRef} : \A p \in Phases :
        /\ [s EXCEPT !.phase = p, !.pendingModel = x] \in TaskState
        /\ [s EXCEPT !.phase = p, !.pendingTool = x] \in TaskState
        /\ [s EXCEPT !.phase = p, !.pendingUserInput = x] \in TaskState
        /\ [s EXCEPT !.phase = p, !.pendingSubAgent = x] \in TaskState
        /\ [s EXCEPT !.phase = p] \in TaskState
        /\ [ClearPendings(s) EXCEPT !.phase = p] \in TaskState
  <2>1. e.ref \in Refs \cup {NoRef}
    BY EventFields
  <2>2. ASSUME NEW x \in Refs \cup {NoRef}, NEW p \in Phases
        PROVE  /\ [s EXCEPT !.phase = p, !.pendingModel = x] \in TaskState
               /\ [s EXCEPT !.phase = p, !.pendingTool = x] \in TaskState
               /\ [s EXCEPT !.phase = p, !.pendingUserInput = x] \in TaskState
               /\ [s EXCEPT !.phase = p, !.pendingSubAgent = x] \in TaskState
               /\ [s EXCEPT !.phase = p] \in TaskState
    BY <1>1 DEF TaskState
  <2>3. ClearPendings(s) \in TaskState
    BY <1>1 DEF TaskState, ClearPendings
  <2>4. \A p \in Phases : [ClearPendings(s) EXCEPT !.phase = p] \in TaskState
    BY <2>3 DEF TaskState
  <2> QED BY <2>1, <2>2, <2>4
<1> USE DEF OutcomeOK, MakeEffect, WaitingPhases, RequestEvents, Phases, TerminalPhases, Handles
<1>3. CASE HandleTaskCancelRequested(t, e)
  <2> DEFINE n == [ClearPendings(s) EXCEPT !.phase = "Cancelled"]
             effect == MakeEffect("task.cancelled.emit", NoRef)
  <2>1. n \in TaskState
    BY <1>2
  <2>2. Outcome(n, effect)
    BY <1>1, <1>3 DEF HandleTaskCancelRequested, TaskState, ClearPendings
  <2> HIDE DEF n, effect
  <2> QED BY <2>1, <2>2, CommitOutcome
<1>4. CASE HandleAgentModelRequested(t, e)
  <2> DEFINE n == [s EXCEPT !.phase = "WaitingModel", !.pendingModel = e.ref]
             effect == MakeEffect("model.call", e.ref)
  <2>1. n \in TaskState
    BY <1>2
  <2>2. Outcome(n, effect)
    BY <1>1, <1>4 DEF HandleAgentModelRequested, TaskState
  <2> HIDE DEF n, effect
  <2> QED BY <2>1, <2>2, CommitOutcome
<1>5. CASE HandleModelResponse(t, e)
  <2> DEFINE n == [s EXCEPT !.phase = "Running", !.pendingModel = NoRef]
             effect == MakeEffect("agent.resume", e.ref)
  <2>1. n \in TaskState
    BY <1>2
  <2>2. Outcome(n, effect)
    BY <1>1, <1>5 DEF HandleModelResponse, TaskState
  <2> HIDE DEF n, effect
  <2> QED BY <2>1, <2>2, CommitOutcome
<1>6. CASE HandleAgentToolRequested(t, e)
  <2> DEFINE n == [s EXCEPT !.phase = "WaitingTool", !.pendingTool = e.ref]
             effect == MakeEffect("tool.dispatch", e.ref)
  <2>1. n \in TaskState
    BY <1>2
  <2>2. Outcome(n, effect)
    BY <1>1, <1>6 DEF HandleAgentToolRequested, TaskState
  <2> HIDE DEF n, effect
  <2> QED BY <2>1, <2>2, CommitOutcome
<1>7. CASE HandleToolCompleted(t, e)
  <2> DEFINE n == [s EXCEPT !.phase = "Running", !.pendingTool = NoRef]
             effect == MakeEffect("agent.resume", e.ref)
  <2>1. n \in TaskState
    BY <1>2
  <2>2. Outcome(n, effect)
    BY <1>1, <1>7 DEF HandleToolCompleted, TaskState
  <2> HIDE DEF n, effect
  <2> QED BY <2>1, <2>2, CommitOutcome
<1>8. CASE HandleAgentUserInputRequested(t, e)
  <2> DEFINE n == [s EXCEPT !.phase = "WaitingUserInput", !.pendingUserInput = e.ref]
             effect == MakeEffect("user_input.request", e.ref)
  <2>1. n \in TaskState
    BY <1>2
  <2>2. Outcome(n, effect)
    BY <1>1, <1>8 DEF HandleAgentUserInputRequested, TaskState
  <2> HIDE DEF n, effect
  <2> QED BY <2>1, <2>2, CommitOutcome
<1>9. CASE HandleUserInputReceived(t, e)
  <2> DEFINE n == [s EXCEPT !.phase = "Running", !.pendingUserInput = NoRef]
             effect == MakeEffect("agent.resume", e.ref)
  <2>1. n \in TaskState
    BY <1>2
  <2>2. Outcome(n, effect)
    BY <1>1, <1>9 DEF HandleUserInputReceived, TaskState
  <2> HIDE DEF n, effect
  <2> QED BY <2>1, <2>2, CommitOutcome
<1>10. CASE HandleAgentSubAgentRequested(t, e)
  <2> DEFINE n == [s EXCEPT !.phase = "WaitingSubAgent", !.pendingSubAgent = e.ref]
             effect == MakeEffect("sub_agent.dispatch", e.ref)
  <2>1. n \in TaskState
    BY <1>2
  <2>2. Outcome(n, effect)
    BY <1>1, <1>10 DEF HandleAgentSubAgentRequested, TaskState
  <2> HIDE DEF n, effect
  <2> QED BY <2>1, <2>2, CommitOutcome
<1>11. CASE HandleSubAgentCompleted(t, e)
  <2> DEFINE n == [s EXCEPT !.phase = "Running", !.pendingSubAgent = NoRef]
             effect == MakeEffect("agent.resume", e.ref)
  <2>1. n \in TaskState
    BY <1>2
  <2>2. Outcome(n, effect)
    BY <1>1, <1>11 DEF HandleSubAgentCompleted, TaskState
  <2> HIDE DEF n, effect
  <2> QED BY <2>1, <2>2, CommitOutcome
<1>12. CASE HandleAgentCompleted(t, e)
  <2> DEFINE n == [s EXCEPT !.phase = "Completed"]
             effect == MakeEffect("task.completed.emit", NoRef)
  <2>1. n \in TaskState
    BY <1>2
  <2>2. Outcome(n, effect)
    BY <1>1, <1>12 DEF HandleAgentCompleted, TaskState
  <2> HIDE DEF n, effect
  <2> QED BY <2>1, <2>2, CommitOutcome
<1>13. CASE HandleAgentFlow(t, e)
  <2>1. PICK tr \in CodeAgentFlow :
          Commit(t, e, [s EXCEPT !.agentPhase = tr.to], MakeEffect("agent.resume", NoRef))
    BY <1>13 DEF HandleAgentFlow, FlowTransitions
  <2> DEFINE n == [s EXCEPT !.agentPhase = tr.to]
  <2>2. n \in TaskState /\ n.phase = s.phase
    BY <1>1 DEF TaskState, CodeAgentFlow, AgentPhases, CodePhases
  <2>3. s.phase = "Running" /\ e.ref = NoRef /\ e.type # "task.start_requested"
    BY <1>1, <1>13 DEF HandleAgentFlow, Accepts, FlowEvents, CreationEvents, AnswerEvents, Event
  <2>4. Outcome(n, MakeEffect("agent.resume", NoRef))
    BY <2>1, <2>2, <2>3
  <2> HIDE DEF n
  <2> QED BY <2>2, <2>4, CommitOutcome
<1>14. CASE HandleTaskCreated(t, e) \/ HandleTaskStartRequested(t, e)
  <2> DEFINE c == ApplyCreationPayload(s, e)
  <2>1. s.phase = "Created"
    BY <1>1, <1>14 DEF HandleTaskCreated, HandleTaskStartRequested, Accepts, FlowEvents
  <2>2. c \in TaskState /\ c.phase = "Created"
    BY <1>1, <2>1, CreationPayload
  <2>3. CASE HandleTaskCreated(t, e)
    <3>1. Outcome(c, NoEffect)
      BY <2>2, <2>3 DEF HandleTaskCreated, NoEffect
    <3> QED BY <2>2, <3>1, CommitOutcome
  <2>4. CASE HandleTaskStartRequested(t, e)
    <3> DEFINE n == [c EXCEPT !.phase = "Running"]
    <3> HIDE DEF c
    <3>1. n \in TaskState /\ n.phase = "Running"
      BY <2>2 DEF TaskState
    <3>2. Commit(t, e, n, MakeEffect("agent.start", NoRef))
      BY <2>4 DEF HandleTaskStartRequested, c
    <3>3. Outcome(n, MakeEffect("agent.start", NoRef))
      BY <3>1, <3>2
    <3> HIDE DEF n
    <3> QED BY <3>1, <3>3, CommitOutcome
  <2> QED BY <1>14, <2>3, <2>4
<1>15. CASE HandleToolFailed(t, e) \/ HandleSubAgentFailed(t, e) \/ HandleAgentFailed(t, e)
  <2>1. ASSUME NEW c \in TaskState
        PROVE  CountFailure(c) \in TaskState /\ CountFailure(c).phase \in {"Failed", "Running"}
    <3>1. c.failureCount + 1 \in Nat /\ (IF OutOfBudget(c) THEN "Failed" ELSE "Running") \in Phases
      BY DEF TaskState
    <3>2. \A x \in Nat, p \in Phases :
            [c EXCEPT !.failureCount = x, !.phase = p] \in TaskState
      BY DEF TaskState
    <3>3. CountFailure(c) \in TaskState
      BY <3>1, <3>2, Zenon DEF CountFailure
    <3>4. CountFailure(c).phase = IF OutOfBudget(c) THEN "Failed" ELSE "Running"
      BY DEF CountFailure, TaskState
    <3> QED BY <3>3, <3>4
  <2>2. /\ e.type \in {"tool.failed", "sub_agent.failed", "agent.failed"}
        /\ FailureEffect(s, e).type = "agent.resume" => FailureEffect(s, e).ref = e.ref
    BY <1>15 DEF HandleToolFailed, HandleSubAgentFailed, HandleAgentFailed, FailureEffect
  <2>3. ASSUME NEW c \in TaskState, Commit(t, e, CountFailure(c), FailureEffect(s, e))
        PROVE  Outcome(CountFailure(c), FailureEffect(s, e))
    BY <2>1, <2>2, <2>3
  <2>4. /\ [s EXCEPT !.pendingTool = NoRef] \in TaskState
        /\ [s EXCEPT !.pendingSubAgent = NoRef] \in TaskState
        /\ ClearPendings(s) \in TaskState
    BY <1>1 DEF TaskState, ClearPendings
  <2> HIDE DEF Outcome
  <2>5. PICK c \in TaskState : Commit(t, e, CountFailure(c), FailureEffect(s, e))
    BY <1>15, <2>4, Zenon DEF HandleToolFailed, HandleSubAgentFailed, HandleAgentFailed
  <2>6. Outcome(CountFailure(c), FailureEffect(s, e)) /\ CountFailure(c) \in TaskState
    BY <2>1, <2>3, <2>5
  <2> QED BY <2>6, CommitOutcome DEF Outcome
<1> QED BY <1>3, <1>4, <1>5, <1>6, <1>7, <1>8, <1>9, <1>10, <1>11, <1>12, <1>13, <1>14, <1>15, Zenon DEF Handler

(* Nothing that arrives late moves a task that is over. *)
THEOREM TerminalStays == Spec => TerminalIsFinal
<1>1. IInv /\ [Next]_vars =>
        [\A t \in Tasks : st[t].phase \in TerminalPhases => st'[t] = st[t]]_vars
  <2> SUFFICES ASSUME IInv, Next, NEW t \in Tasks, st[t].phase \in TerminalPhases
               PROVE  st'[t] = st[t]
    BY Zenon
  <2>1. PICK u \in Tasks, e \in Event : Handler(u, e) \/ Silent(u, e)
    BY StepCases
  <2>2. CASE Silent(u, e)
    BY <2>2 DEF Silent, ReplayEvent, RejectEvent, StoreFails
  <2>3. CASE Handler(u, e)
    <3>1. ~Accepts(st[t], e)
      BY DEF Accepts, TerminalPhases, WaitingPhases, IsTerminal
    <3>2. u # t
      BY <2>3, <3>1, HandlerChanges
    <3>3. PICK s, effect : Commit(u, e, s, effect)
      BY <2>3, HandlerChanges
    <3> QED BY <3>2, <3>3 DEF Commit, IInv
  <2> QED BY <2>1, <2>2, <2>3
<1> QED BY <1>1, IInvInvariant, PTL DEF Spec, TerminalIsFinal

(* Delivering the last event again returns the effect it returned at first. *)
THEOREM ReplayRepeats == Spec => ReplayRepeatsEffect
<1> DEFINE Repeats == out'.verdict = "replayed"
                        /\ handled[out'.task].event.type \notin FlowEvents
                          => out'.effect = handled[out'.task].effect
<1>1. IInv /\ [Next]_vars => [Repeats]_vars
  <2> SUFFICES ASSUME IInv, Next PROVE Repeats
    BY Zenon
  <2>1. PICK t \in Tasks, e \in Event : HandleEvent(t, e) \/ StoreFails(t, e)
    BY DEF Next
  <2>2. CASE ReplayEvent(t, e) /\ Deliverable(t, e)
    <3>1. e = handled[t].event /\ out'.task = t
          /\ out'.effect = ReplayedEffect(st[t], e)
      BY <2>2 DEF ReplayEvent, Deliverable
    <3>2. ReplayOK(st[t], handled[t])
      BY DEF IInv, Good
    <3> QED BY <3>1, <3>2 DEF ReplayOK
  <2>3. CASE RejectEvent(t, e) \/ StoreFails(t, e)
    BY <2>3 DEF RejectEvent, StoreFails
  <2>4. CASE Handler(t, e)
    <3>1. PICK s, effect : Commit(t, e, s, effect)
      BY <2>4, HandlerChanges
    <3>2. out'.verdict = "handled"
      BY <3>1 DEF Commit
    <3> QED BY <3>2
  <2> QED BY <2>1, <2>2, <2>3, <2>4, Zenon DEF HandleEvent, Handler
<1> QED BY <1>1, IInvInvariant, PTL DEF Spec, ReplayRepeatsEffect

-----------------------------------------------------------------------------
(* The state machine implements TaskLifecycle. *)

LPhase    == [t \in Tasks |-> st[t].phase]
LFailures == [t \in Tasks |-> st[t].failureCount]
LBudget   == [t \in Tasks |-> st[t].maxFailures]

(* The abstract step from a task state s to n: the move it makes, if any. *)
CreateMove(s, n) ==
  /\ s.phase = "Created" /\ n.phase \in {"Created", "Running"}
  /\ n.failureCount = s.failureCount
  /\ n.maxFailures \in Budgets \cup {s.maxFailures, DefaultMaxFailures}
FailMove(s, n) ==
  /\ s.phase \in {"Running"} \cup WaitingPhases
  /\ n.phase = IF s.failureCount = s.maxFailures THEN "Failed" ELSE "Running"
  /\ n.failureCount = s.failureCount + 1 /\ n.maxFailures = s.maxFailures
PlainMove(s, n) ==
  /\ n.failureCount = s.failureCount /\ n.maxFailures = s.maxFailures
  /\ \/ n.phase = s.phase
     \/ s.phase = "Running" /\ n.phase \in WaitingPhases
     \/ s.phase \in WaitingPhases /\ n.phase = "Running"
     \/ s.phase = "Running" /\ n.phase = "Completed"
     \/ s.phase \in {"Created", "Running"} \cup WaitingPhases /\ n.phase = "Cancelled"

(* A committed move of one task is a step of the lifecycle, or none. *)
LEMMA MoveIsStep ==
  ASSUME IInv, NEW t \in Tasks, NEW e, NEW n \in TaskState, NEW effect,
         Commit(t, e, n, effect),
         CreateMove(st[t], n) \/ FailMove(st[t], n) \/ PlainMove(st[t], n)
  PROVE  [Lifecycle!Next]_(Lifecycle!lifecycleVars)
<1>1. \A u \in Tasks : st'[u] = IF u = t THEN Stored(e, n) ELSE st[u]
  BY DEF Commit, Stored, IInv
<1>2. /\ Stored(e, n).phase = n.phase /\ Stored(e, n).failureCount = n.failureCount
      /\ Stored(e, n).maxFailures = n.maxFailures
  BY DEF Stored, TaskState
<1>3. /\ LPhase' = [LPhase EXCEPT ![t] = n.phase]
      /\ LFailures' = [LFailures EXCEPT ![t] = n.failureCount]
      /\ LBudget' = [LBudget EXCEPT ![t] = n.maxFailures]
  BY <1>1, <1>2 DEF LPhase, LFailures, LBudget
<1>4. /\ LPhase[t] = st[t].phase /\ LFailures[t] = st[t].failureCount
      /\ LBudget[t] = st[t].maxFailures
  BY DEF LPhase, LFailures, LBudget
<1>5. CASE CreateMove(st[t], n)
  <2>1. LFailures' = LFailures
    BY <1>3, <1>4, <1>5 DEF CreateMove, LFailures
  <2>2. Lifecycle!Create(t)
    BY <1>3, <1>4, <1>5, <2>1
       DEF CreateMove, Lifecycle!Create, Lifecycle!Move, LPhase, LFailures, LBudget
  <2> QED BY <2>2 DEF Lifecycle!Next
<1>6. CASE FailMove(st[t], n)
  <2>1. LBudget' = LBudget
    BY <1>3, <1>4, <1>6 DEF FailMove, LBudget
  <2>2. Lifecycle!Fail(t)
    BY <1>3, <1>4, <1>6, <2>1
       DEF FailMove, Lifecycle!Fail, Lifecycle!Move, Lifecycle!Active, Lifecycle!Waiting,
           WaitingPhases, LPhase, LFailures, LBudget
  <2> QED BY <2>2 DEF Lifecycle!Next
<1>7. CASE PlainMove(st[t], n)
  <2>1. LFailures' = LFailures /\ LBudget' = LBudget
    BY <1>3, <1>4, <1>7 DEF PlainMove, LFailures, LBudget
  <2>2. CASE n.phase = st[t].phase
    <3>1. LPhase' = LPhase
      BY <1>3, <1>4, <2>2 DEF LPhase
    <3> QED BY <2>1, <3>1 DEF Lifecycle!lifecycleVars, LPhase, LFailures, LBudget
  <2>3. CASE n.phase # st[t].phase
    <3>1. Lifecycle!Ask(t) \/ Lifecycle!Answer(t) \/ Lifecycle!Finish(t)
          \/ Lifecycle!Cancel(t)
      BY <1>3, <1>4, <1>7, <2>1, <2>3
         DEF PlainMove, Lifecycle!Ask, Lifecycle!Answer, Lifecycle!Finish,
             Lifecycle!Cancel, Lifecycle!Move, Lifecycle!Active, Lifecycle!Waiting,
             WaitingPhases, LPhase, LFailures, LBudget
    <3> QED BY <3>1 DEF Lifecycle!Next
  <2> QED BY <2>2, <2>3
<1> QED BY <1>5, <1>6, <1>7

(* Every handler commits a move of the lifecycle. *)
LEMMA HandlerMove ==
  ASSUME IInv, NEW t \in Tasks, NEW e \in Event, Handler(t, e)
  PROVE  \E n \in TaskState : \E effect :
           /\ Commit(t, e, n, effect)
           /\ CreateMove(st[t], n) \/ FailMove(st[t], n) \/ PlainMove(st[t], n)
<1> DEFINE s == st[t]
           Moves(n) == CreateMove(s, n) \/ FailMove(s, n) \/ PlainMove(s, n)
<1>1. s \in TaskState /\ BudgetOK(s) /\ Accepts(s, e)
  BY HandlerChanges DEF IInv, Good
<1> USE DEF CreateMove, FailMove, PlainMove
<1>2. CASE HandleTaskCreated(t, e) \/ HandleTaskStartRequested(t, e)
  <2> DEFINE c == ApplyCreationPayload(s, e)
  <2>1. s.phase = "Created"
    BY <1>1, <1>2 DEF Handles, HandleTaskCreated, HandleTaskStartRequested, Accepts,
                      RequestEvents, FlowEvents
  <2>2. /\ c \in TaskState /\ c.phase = "Created" /\ c.failureCount = s.failureCount
        /\ c.maxFailures \in Budgets \cup {s.maxFailures, DefaultMaxFailures}
    BY <1>1, <2>1, CreationPayload
  <2>3. CASE HandleTaskCreated(t, e)
    BY <2>1, <2>2, <2>3 DEF HandleTaskCreated
  <2>4. CASE HandleTaskStartRequested(t, e)
    <3> DEFINE n == [c EXCEPT !.phase = "Running"]
    <3> HIDE DEF c
    <3>1. n \in TaskState /\ Moves(n)
      BY <2>1, <2>2 DEF TaskState, Phases
    <3>2. Commit(t, e, n, MakeEffect("agent.start", NoRef))
      BY <2>4 DEF HandleTaskStartRequested, c
    <3> QED BY <3>1, <3>2
  <2> QED BY <1>2, <2>3, <2>4
<1>3. CASE HandleTaskCancelRequested(t, e)
  <2> DEFINE n == [ClearPendings(s) EXCEPT !.phase = "Cancelled"]
  <2>1. s.phase \in {"Created", "Running"} \cup WaitingPhases
    BY <1>1, <1>3 DEF Handles, HandleTaskCancelRequested, Accepts, IsTerminal, TaskState,
                      Phases, WaitingPhases, RequestEvents, FlowEvents, TerminalPhases
  <2>2. n \in TaskState /\ Moves(n)
    BY <1>1, <2>1 DEF TaskState, Phases, TerminalPhases, ClearPendings
  <2> QED BY <1>3, <2>2 DEF HandleTaskCancelRequested
<1>4. CASE \/ HandleAgentModelRequested(t, e) \/ HandleAgentToolRequested(t, e)
           \/ HandleAgentUserInputRequested(t, e) \/ HandleAgentSubAgentRequested(t, e)
  <2>1. s.phase = "Running" /\ e.ref \in Refs \cup {NoRef}
    BY <1>1, <1>4, EventFields
       DEF Handles, HandleAgentModelRequested, HandleAgentToolRequested,
           HandleAgentUserInputRequested, HandleAgentSubAgentRequested, Accepts,
           FlowEvents, RequestEvents
  <2>2. \A p \in WaitingPhases :
          /\ [s EXCEPT !.phase = p, !.pendingModel = e.ref] \in TaskState
          /\ Moves([s EXCEPT !.phase = p, !.pendingModel = e.ref])
          /\ [s EXCEPT !.phase = p, !.pendingTool = e.ref] \in TaskState
          /\ Moves([s EXCEPT !.phase = p, !.pendingTool = e.ref])
          /\ [s EXCEPT !.phase = p, !.pendingUserInput = e.ref] \in TaskState
          /\ Moves([s EXCEPT !.phase = p, !.pendingUserInput = e.ref])
          /\ [s EXCEPT !.phase = p, !.pendingSubAgent = e.ref] \in TaskState
          /\ Moves([s EXCEPT !.phase = p, !.pendingSubAgent = e.ref])
    BY <1>1, <2>1 DEF TaskState, Phases
  <2> QED BY <1>4, <2>2
       DEF HandleAgentModelRequested, HandleAgentToolRequested,
           HandleAgentUserInputRequested, HandleAgentSubAgentRequested, WaitingPhases
<1>5. CASE \/ HandleModelResponse(t, e) \/ HandleToolCompleted(t, e)
           \/ HandleUserInputReceived(t, e) \/ HandleSubAgentCompleted(t, e)
  <2>1. s.phase \in {"Running"} \cup WaitingPhases
    BY <1>1, <1>5
       DEF Handles, HandleModelResponse, HandleToolCompleted, HandleUserInputReceived,
           HandleSubAgentCompleted, Accepts, FlowEvents, RequestEvents, WaitingPhases
  <2>2. ASSUME NEW n \in TaskState, n.phase = "Running",
               n.failureCount = s.failureCount, n.maxFailures = s.maxFailures
        PROVE  Moves(n)
    BY <2>1, <2>2
  <2>3. CASE HandleModelResponse(t, e)
    <3> DEFINE n == [s EXCEPT !.phase = "Running", !.pendingModel = NoRef]
    <3>1. /\ n \in TaskState /\ n.phase = "Running"
          /\ n.failureCount = s.failureCount /\ n.maxFailures = s.maxFailures
      BY <1>1 DEF TaskState, Phases
    <3> QED BY <2>2, <2>3, <3>1 DEF HandleModelResponse
  <2>4. CASE HandleToolCompleted(t, e)
    <3> DEFINE n == [s EXCEPT !.phase = "Running", !.pendingTool = NoRef]
    <3>1. /\ n \in TaskState /\ n.phase = "Running"
          /\ n.failureCount = s.failureCount /\ n.maxFailures = s.maxFailures
      BY <1>1 DEF TaskState, Phases
    <3> QED BY <2>2, <2>4, <3>1 DEF HandleToolCompleted
  <2>5. CASE HandleUserInputReceived(t, e)
    <3> DEFINE n == [s EXCEPT !.phase = "Running", !.pendingUserInput = NoRef]
    <3>1. /\ n \in TaskState /\ n.phase = "Running"
          /\ n.failureCount = s.failureCount /\ n.maxFailures = s.maxFailures
      BY <1>1 DEF TaskState, Phases
    <3> QED BY <2>2, <2>5, <3>1 DEF HandleUserInputReceived
  <2>6. CASE HandleSubAgentCompleted(t, e)
    <3> DEFINE n == [s EXCEPT !.phase = "Running", !.pendingSubAgent = NoRef]
    <3>1. /\ n \in TaskState /\ n.phase = "Running"
          /\ n.failureCount = s.failureCount /\ n.maxFailures = s.maxFailures
      BY <1>1 DEF TaskState, Phases
    <3> QED BY <2>2, <2>6, <3>1 DEF HandleSubAgentCompleted
  <2> QED BY <1>5, <2>3, <2>4, <2>5, <2>6
<1>6. CASE HandleToolFailed(t, e) \/ HandleSubAgentFailed(t, e) \/ HandleAgentFailed(t, e)
  <2>1. s.phase \in {"Running"} \cup WaitingPhases /\ s.failureCount <= s.maxFailures
    BY <1>1, <1>6
       DEF Handles, HandleToolFailed, HandleSubAgentFailed, HandleAgentFailed, Accepts,
           CreationEvents, FlowEvents, RequestEvents, WaitingPhases, BudgetOK
  <2>2. ASSUME NEW c \in TaskState, c.failureCount = s.failureCount,
               c.maxFailures = s.maxFailures
        PROVE  CountFailure(c) \in TaskState /\ FailMove(s, CountFailure(c))
    <3>1. c.failureCount \in Nat /\ c.maxFailures \in Nat /\ c.failureCount + 1 \in Nat
      BY DEF TaskState
    <3>2. OutOfBudget(c) <=> c.failureCount = c.maxFailures
      BY <2>1, <2>2, <3>1 DEF OutOfBudget
    <3>3. (IF OutOfBudget(c) THEN "Failed" ELSE "Running") \in Phases
      BY DEF Phases, TerminalPhases
    <3>4. \A x \in Nat, p \in Phases :
            [c EXCEPT !.failureCount = x, !.phase = p] \in TaskState
      BY DEF TaskState
    <3>5. CountFailure(c) \in TaskState
      BY <3>1, <3>3, <3>4, Zenon DEF CountFailure
    <3>6. /\ CountFailure(c).phase = IF OutOfBudget(c) THEN "Failed" ELSE "Running"
          /\ CountFailure(c).failureCount = c.failureCount + 1
          /\ CountFailure(c).maxFailures = c.maxFailures
      BY DEF CountFailure, TaskState
    <3> QED BY <2>1, <2>2, <3>2, <3>5, <3>6
  <2>3. /\ [s EXCEPT !.pendingTool = NoRef] \in TaskState
        /\ [s EXCEPT !.pendingTool = NoRef].failureCount = s.failureCount
        /\ [s EXCEPT !.pendingTool = NoRef].maxFailures = s.maxFailures
        /\ [s EXCEPT !.pendingSubAgent = NoRef] \in TaskState
        /\ [s EXCEPT !.pendingSubAgent = NoRef].failureCount = s.failureCount
        /\ [s EXCEPT !.pendingSubAgent = NoRef].maxFailures = s.maxFailures
        /\ ClearPendings(s) \in TaskState
        /\ ClearPendings(s).failureCount = s.failureCount
        /\ ClearPendings(s).maxFailures = s.maxFailures
    BY <1>1 DEF TaskState, ClearPendings
  <2>4. /\ CountFailure([s EXCEPT !.pendingTool = NoRef]) \in TaskState
        /\ Moves(CountFailure([s EXCEPT !.pendingTool = NoRef]))
        /\ CountFailure([s EXCEPT !.pendingSubAgent = NoRef]) \in TaskState
        /\ Moves(CountFailure([s EXCEPT !.pendingSubAgent = NoRef]))
        /\ CountFailure(ClearPendings(s)) \in TaskState
        /\ Moves(CountFailure(ClearPendings(s)))
    BY <2>2, <2>3
  <2> HIDE DEF Moves
  <2>5. \E n \in TaskState : \E effect : Commit(t, e, n, effect) /\ Moves(n)
    BY <1>6, <2>4, Zenon DEF HandleToolFailed, HandleSubAgentFailed, HandleAgentFailed
  <2> QED BY <2>5 DEF Moves
<1>7. CASE HandleAgentCompleted(t, e)
  <2> DEFINE n == [s EXCEPT !.phase = "Completed"]
  <2>1. s.phase = "Running"
    BY <1>1, <1>7 DEF Handles, HandleAgentCompleted, Accepts, CreationEvents, RequestEvents,
                      FlowEvents
  <2>2. n \in TaskState /\ Moves(n)
    BY <1>1, <2>1 DEF TaskState, Phases, TerminalPhases
  <2> QED BY <1>7, <2>2 DEF HandleAgentCompleted
<1>8. CASE HandleAgentFlow(t, e)
  <2>1. PICK tr \in CodeAgentFlow :
          Commit(t, e, [s EXCEPT !.agentPhase = tr.to], MakeEffect("agent.resume", NoRef))
    BY <1>8 DEF HandleAgentFlow, FlowTransitions
  <2>2. tr.to \in AgentPhases
    BY DEF CodeAgentFlow, AgentPhases, CodePhases
  <2>3. /\ [s EXCEPT !.agentPhase = tr.to] \in TaskState
        /\ Moves([s EXCEPT !.agentPhase = tr.to])
    BY <1>1, <2>2 DEF TaskState
  <2> QED BY <2>1, <2>3
<1> QED BY <1>2, <1>3, <1>4, <1>5, <1>6, <1>7, <1>8, Zenon DEF Handler

(* A client sees of a task only what TaskLifecycle allows: it starts once, asks for one
   thing at a time, is resumed by every failure its budget covers, and ends once. *)
THEOREM RefinesLifecycle == Spec => ImplementsLifecycle
<1>1. Init => Lifecycle!Init
  BY DEF Init, Lifecycle!Init, NewTaskState
<1>2. IInv /\ [Next]_vars => [Lifecycle!Next]_(Lifecycle!lifecycleVars)
  <2> SUFFICES ASSUME IInv, [Next]_vars
               PROVE  [Lifecycle!Next]_(Lifecycle!lifecycleVars)
    OBVIOUS
  <2>1. CASE UNCHANGED st
    BY <2>1 DEF Lifecycle!lifecycleVars
  <2>2. CASE \E t \in Tasks, e \in Event : Handler(t, e)
    BY <2>2, HandlerMove, MoveIsStep
  <2>3. CASE \E t \in Tasks, e \in Event : Silent(t, e)
    BY <2>1, <2>3 DEF Silent, ReplayEvent, RejectEvent, StoreFails
  <2> QED BY <2>1, <2>2, <2>3, StepCases DEF vars
<1> QED BY <1>1, <1>2, IInvInvariant, PTL DEF Spec, ImplementsLifecycle, Lifecycle!Spec
=============================================================================
