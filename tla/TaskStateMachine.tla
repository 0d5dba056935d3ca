-------------------------- MODULE TaskStateMachine --------------------------
(***************************************************************************)
(* statemachine.TaskStateMachine: the persisted state machine of a task.   *)
(* HandleEvent loads the state of the event's task, recognises the last    *)
(* event it handled and replays its effect, otherwise runs the handler of  *)
(* the event's type, records the event as the last one, saves the state    *)
(* and returns the effects for the reactor to dispatch.                    *)
(*                                                                         *)
(* The reactor holds the task's lock around HandleEvent, so one call is    *)
(* one step here.  The environment may deliver any event at any time:      *)
(* agents, executors and users race, and most of what they send is late.   *)
(*                                                                         *)
(* A definition named Slip... is the one it precedes with one mistake in   *)
(* it.  The model does not use it: the properties below must reject it.    *)
(*                                                                         *)
(* Call ids, request ids and sub task ids are abstract references; texts,  *)
(* timestamps, tool arguments and the lifecycle log are left out.          *)
(***************************************************************************)
EXTENDS Naturals, FiniteSets

CONSTANTS
  Tasks,              \* task ids
  EventIds,           \* event ids (eventbus.NewEvent draws them at random)
  NoEventId,          \* the empty LastEventID
  Refs,               \* model call ids, tool call ids, request ids, sub task ids
  NoRef,              \* the empty id of a payload; a nil Pending* of a state
  Agents,             \* agent names
  NoAgent,            \* the empty agent name
  FlowAgents,         \* the agents registered with the code agent flow
  DefaultMaxFailures, \* WithMaxFailures
  Budgets             \* the max_failures a creation payload may carry; 0 is none

ASSUME NamesAssumption ==
  /\ Tasks # {}
  /\ NoEventId \notin EventIds
  /\ NoRef \notin Refs
  /\ NoAgent \notin Agents
  /\ FlowAgents \subseteq Agents

ASSUME BudgetAssumption ==
  /\ DefaultMaxFailures \in Nat
  /\ Budgets \subseteq Nat
  /\ 0 \in Budgets

-----------------------------------------------------------------------------
(* Phases, events and effects *)

WaitingPhases  == {"WaitingModel", "WaitingTool", "WaitingUserInput", "WaitingSubAgent"}
TerminalPhases == {"Completed", "Failed", "Cancelled"}
Phases         == {"Created", "Running"} \cup WaitingPhases \cup TerminalPhases

AgentPhaseUnknown == "Unknown"
CodePhases  == {"InspectRepo", "EditCode", "RunTests", "FixErrors", "Report"}
AgentPhases == {AgentPhaseUnknown} \cup CodePhases
FlowInitial == "InspectRepo"

CodeAgentFlow ==
  { [from |-> "InspectRepo", on |-> "code.inspection_completed", to |-> "EditCode"],
    [from |-> "EditCode",    on |-> "code.edit_completed",       to |-> "RunTests"],
    [from |-> "RunTests",    on |-> "code.tests_failed",         to |-> "FixErrors"],
    [from |-> "FixErrors",   on |-> "code.fix_completed",        to |-> "RunTests"],
    [from |-> "RunTests",    on |-> "code.tests_passed",         to |-> "Report"] }

FlowEvents == {"code.inspection_completed", "code.edit_completed", "code.tests_failed",
               "code.fix_completed", "code.tests_passed"}

CreationEvents == {"task.created", "task.start_requested"}
RequestEvents  == {"agent.model_requested", "agent.tool_requested",
                   "agent.user_input_requested", "agent.sub_agent_requested"}
AnswerEvents   == {"model.response_received", "model.response_failed",
                   "tool.completed", "tool.failed", "user_input.received",
                   "sub_agent.completed", "sub_agent.failed"}
HandledEvents  == CreationEvents \cup RequestEvents \cup AnswerEvents \cup
                  {"task.cancel_requested", "agent.completed", "agent.failed"}
EventTypes     == HandledEvents \cup FlowEvents
UndecodedEvents == {"task.cancel_requested"} \cup FlowEvents

EffectTypes == {"agent.start", "agent.resume", "model.call", "tool.dispatch",
                "user_input.request", "sub_agent.dispatch",
                "task.completed.emit", "task.failed.emit", "task.cancelled.emit"}

(* An event; its ref is the call, request or sub task id of the payload, its
   agent and budget are those of a creation payload.  wellFormed is FALSE
   when the payload does not decode or lacks a field its handler requires
   besides the id (request, response, error). *)
AnyEvent == [id : EventIds, type : EventTypes, ref : Refs \cup {NoRef},
             agent : Agents \cup {NoAgent}, budget : Budgets,
             wellFormed : BOOLEAN]
Event == { e \in AnyEvent :
             /\ e.type \notin CreationEvents => e.agent = NoAgent /\ e.budget = 0
             /\ e.type \notin RequestEvents \cup AnswerEvents => e.ref = NoRef
             /\ e.type \in UndecodedEvents => e.wellFormed }
NoEvent == [id |-> NoEventId, type |-> "none", ref |-> NoRef, agent |-> NoAgent,
            budget |-> 0, wellFormed |-> TRUE]

Effect   == [type : EffectTypes, ref : Refs \cup {NoRef}]
NoEffect == [type |-> "none", ref |-> NoRef]
MakeEffect(type, ref) == [type |-> type, ref |-> ref]

TaskState == [saved : BOOLEAN, phase : Phases,
              agent : Agents \cup {NoAgent}, agentPhase : AgentPhases,
              pendingModel : Refs \cup {NoRef}, pendingTool : Refs \cup {NoRef},
              pendingUserInput : Refs \cup {NoRef}, pendingSubAgent : Refs \cup {NoRef},
              failureCount : Nat, maxFailures : Nat,
              lastEventID : EventIds \cup {NoEventId}]

-----------------------------------------------------------------------------
VARIABLES
  st,      \* st[t]: the TaskState of t in the StateStore (saved: it has a record)
  handled, \* history: the event st[t].lastEventID names, and the effect it had
  out      \* the StateResult of the last HandleEvent: task, verdict, effect

vars == <<st, handled, out>>

(* NewTaskState, with the failure budget HandleEvent gives it *)
NewTaskState ==
  [saved |-> FALSE, phase |-> "Created", agent |-> NoAgent,
   agentPhase |-> AgentPhaseUnknown, pendingModel |-> NoRef, pendingTool |-> NoRef,
   pendingUserInput |-> NoRef, pendingSubAgent |-> NoRef, failureCount |-> 0,
   maxFailures |-> DefaultMaxFailures, lastEventID |-> NoEventId]

SlipTerminalForgetsFailed(s) == s.phase \in {"Completed", "Cancelled"}
IsTerminal(s) == s.phase \in TerminalPhases

SlipClearKeepsTool(s) ==
  [s EXCEPT !.pendingModel = NoRef, !.pendingUserInput = NoRef, !.pendingSubAgent = NoRef]
ClearPendings(s) ==
  [s EXCEPT !.pendingModel = NoRef, !.pendingTool = NoRef,
            !.pendingUserInput = NoRef, !.pendingSubAgent = NoRef]

(* validatePendingModel, -Tool, -SubAgent: an empty id matches any pending call *)
MatchesPending(pending, ref) == pending # NoRef /\ ref \in {NoRef, pending}

(* handleUserInputReceived compares ids only while it waits for an answer *)
MatchesUserInput(s, ref) ==
  s.phase = "WaitingUserInput" /\ s.pendingUserInput # NoRef /\ ref # NoRef
    => ref = s.pendingUserInput

(* ConfiguredAgentFlow.HandleAgentEvent: the transition table of the agent's flow *)
CurrentAgentPhase(s) == IF s.agentPhase = AgentPhaseUnknown THEN FlowInitial ELSE s.agentPhase
FlowTransitions(s, e) ==
  { tr \in CodeAgentFlow : /\ s.agent \in FlowAgents
                           /\ tr.on = e.type
                           /\ tr.from = CurrentAgentPhase(s) }

(* What each handler accepts: its illegalEvent tests and payload checks *)
Accepts(s, e) ==
  /\ e.wellFormed
  /\ s.saved \/ e.type \in CreationEvents
  /\ \/ e.type = "task.created" /\ s.phase = "Created" /\ s.lastEventID = NoEventId
     \/ e.type = "task.start_requested" /\ s.phase = "Created"
     \/ e.type = "task.cancel_requested" /\ ~IsTerminal(s)
     \/ e.type \in RequestEvents /\ s.phase = "Running" /\ e.ref # NoRef
     \/ /\ e.type \in {"model.response_received", "model.response_failed"}
        /\ s.phase = "WaitingModel" /\ MatchesPending(s.pendingModel, e.ref)
     \/ /\ e.type \in {"tool.completed", "tool.failed"}
        /\ s.phase = "WaitingTool" /\ MatchesPending(s.pendingTool, e.ref)
     \/ /\ e.type = "user_input.received"
        /\ s.phase \in {"WaitingUserInput", "Running"} /\ MatchesUserInput(s, e.ref)
     \/ /\ e.type \in {"sub_agent.completed", "sub_agent.failed"}
        /\ s.phase = "WaitingSubAgent" /\ MatchesPending(s.pendingSubAgent, e.ref)
     \/ e.type = "agent.completed" /\ s.phase = "Running"
     \/ e.type = "agent.failed" /\ s.phase \in {"Running"} \cup WaitingPhases
     \/ e.type \in FlowEvents /\ s.phase = "Running" /\ FlowTransitions(s, e) # {}

(* applyCreationPayload *)
ApplyCreationPayload(s, e) ==
  LET name   == IF e.agent # NoAgent THEN e.agent ELSE s.agent
      given  == IF e.budget > 0 THEN e.budget ELSE s.maxFailures
      budget == IF given = 0 THEN DefaultMaxFailures ELSE given
      phase  == IF name \in FlowAgents /\ s.agentPhase = AgentPhaseUnknown
                THEN FlowInitial ELSE s.agentPhase
  IN  [s EXCEPT !.agent = name, !.maxFailures = budget, !.agentPhase = phase]

(* handleRecoverableFailure: one more failure ends the task or resumes the agent *)
SlipOutOfBudgetLate(s) == s.failureCount > s.maxFailures
OutOfBudget(s) == s.failureCount + 1 > s.maxFailures

SlipCountDown(s) ==
  [s EXCEPT !.failureCount = @ - 1,
            !.phase = IF OutOfBudget(s) THEN "Failed" ELSE "Running"]
SlipCountGivesUpEarly(s) ==
  [s EXCEPT !.failureCount = @ + 1,
            !.phase = IF s.failureCount + 1 >= s.maxFailures THEN "Failed" ELSE "Running"]
CountFailure(s) ==
  [s EXCEPT !.failureCount = @ + 1,
            !.phase = IF OutOfBudget(s) THEN "Failed" ELSE "Running"]
SlipFailureAlwaysResumes(s, e) == MakeEffect("agent.resume", e.ref)
FailureEffect(s, e) ==
  IF OutOfBudget(s) THEN MakeEffect("task.failed.emit", NoRef)
                    ELSE MakeEffect("agent.resume", e.ref)

Init ==
  /\ st = [t \in Tasks |-> NewTaskState]
  /\ handled = [t \in Tasks |-> [event |-> NoEvent, effect |-> NoEffect]]
  /\ out = [task |-> CHOOSE t \in Tasks : TRUE, verdict |-> "idle", effect |-> NoEffect]

-----------------------------------------------------------------------------
(* HandleEvent *)

IsReplay(t, e) == st[t].lastEventID = e.id

(* An id names one event: the environment redelivers it unchanged. *)
Deliverable(t, e) == IsReplay(t, e) => e = handled[t].event

(* The tail of HandleEvent: record the event, save the state, return the effect *)
Commit(t, e, s, effect) ==
  /\ st' = [st EXCEPT ![t] = [s EXCEPT !.saved = TRUE, !.lastEventID = e.id]]
  /\ handled' = [handled EXCEPT ![t] = [event |-> e, effect |-> effect]]
  /\ out' = [task |-> t, verdict |-> "handled", effect |-> effect]

(* The dispatch to the handler of a type, for an event not handled just before *)
Handles(t, e, types) ==
  /\ e.type \in types
  /\ ~IsReplay(t, e)
  /\ Accepts(st[t], e)

HandleTaskCreated(t, e) ==
  /\ Handles(t, e, {"task.created"})
  /\ Commit(t, e, ApplyCreationPayload(st[t], e), NoEffect)

HandleTaskStartRequested(t, e) ==
  /\ Handles(t, e, {"task.start_requested"})
  /\ Commit(t, e, [ApplyCreationPayload(st[t], e) EXCEPT !.phase = "Running"],
            MakeEffect("agent.start", NoRef))

HandleTaskCancelRequested(t, e) ==
  /\ Handles(t, e, {"task.cancel_requested"})
  /\ Commit(t, e, [ClearPendings(st[t]) EXCEPT !.phase = "Cancelled"],
            MakeEffect("task.cancelled.emit", NoRef))

HandleAgentModelRequested(t, e) ==
  /\ Handles(t, e, {"agent.model_requested"})
  /\ Commit(t, e, [st[t] EXCEPT !.phase = "WaitingModel", !.pendingModel = e.ref],
            MakeEffect("model.call", e.ref))

(* A failed model call resumes the agent too: it does not count as a failure. *)
HandleModelResponse(t, e) ==
  /\ Handles(t, e, {"model.response_received", "model.response_failed"})
  /\ Commit(t, e, [st[t] EXCEPT !.phase = "Running", !.pendingModel = NoRef],
            MakeEffect("agent.resume", e.ref))

HandleAgentToolRequested(t, e) ==
  /\ Handles(t, e, {"agent.tool_requested"})
  /\ Commit(t, e, [st[t] EXCEPT !.phase = "WaitingTool", !.pendingTool = e.ref],
            MakeEffect("tool.dispatch", e.ref))

HandleToolCompleted(t, e) ==
  /\ Handles(t, e, {"tool.completed"})
  /\ Commit(t, e, [st[t] EXCEPT !.phase = "Running", !.pendingTool = NoRef],
            MakeEffect("agent.resume", e.ref))

HandleToolFailed(t, e) ==
  /\ Handles(t, e, {"tool.failed"})
  /\ Commit(t, e, CountFailure([st[t] EXCEPT !.pendingTool = NoRef]), FailureEffect(st[t], e))

HandleAgentUserInputRequested(t, e) ==
  /\ Handles(t, e, {"agent.user_input_requested"})
  /\ Commit(t, e, [st[t] EXCEPT !.phase = "WaitingUserInput", !.pendingUserInput = e.ref],
            MakeEffect("user_input.request", e.ref))

(* Accepted while the agent runs as well: guidance nobody asked for. *)
HandleUserInputReceived(t, e) ==
  /\ Handles(t, e, {"user_input.received"})
  /\ Commit(t, e, [st[t] EXCEPT !.phase = "Running", !.pendingUserInput = NoRef],
            MakeEffect("agent.resume", e.ref))

HandleAgentSubAgentRequested(t, e) ==
  /\ Handles(t, e, {"agent.sub_agent_requested"})
  /\ Commit(t, e, [st[t] EXCEPT !.phase = "WaitingSubAgent", !.pendingSubAgent = e.ref],
            MakeEffect("sub_agent.dispatch", e.ref))

HandleSubAgentCompleted(t, e) ==
  /\ Handles(t, e, {"sub_agent.completed"})
  /\ Commit(t, e, [st[t] EXCEPT !.phase = "Running", !.pendingSubAgent = NoRef],
            MakeEffect("agent.resume", e.ref))

HandleSubAgentFailed(t, e) ==
  /\ Handles(t, e, {"sub_agent.failed"})
  /\ Commit(t, e, CountFailure([st[t] EXCEPT !.pendingSubAgent = NoRef]),
            FailureEffect(st[t], e))

(* The pendings are left alone: while Running there are none (PendingMatchesPhase). *)
HandleAgentCompleted(t, e) ==
  /\ Handles(t, e, {"agent.completed"})
  /\ Commit(t, e, [st[t] EXCEPT !.phase = "Completed"],
            MakeEffect("task.completed.emit", NoRef))

HandleAgentFailed(t, e) ==
  /\ Handles(t, e, {"agent.failed"})
  /\ Commit(t, e, CountFailure(ClearPendings(st[t])), FailureEffect(st[t], e))

HandleAgentFlow(t, e) ==
  /\ Handles(t, e, FlowEvents)
  /\ \E tr \in FlowTransitions(st[t], e) :
       Commit(t, e, [st[t] EXCEPT !.agentPhase = tr.to], MakeEffect("agent.resume", NoRef))

(* illegalEvent or a payload error: nothing is saved and no effect is returned. *)
RejectEvent(t, e) ==
  /\ ~IsReplay(t, e)
  /\ ~Accepts(st[t], e)
  /\ out' = [task |-> t, verdict |-> "rejected", effect |-> NoEffect]
  /\ UNCHANGED <<st, handled>>

(* replayEffects: the effect of the last event again, if the phase still asks for it *)
EffectIf(s, phase, type, ref) ==
  IF s.phase = phase THEN MakeEffect(type, ref) ELSE NoEffect

SlipReplayForgetsFailed(s, e) == EffectIf(s, "Running", "agent.resume", e.ref)
ReplayedFailure(s, e) ==
  IF s.phase = "Failed" THEN MakeEffect("task.failed.emit", NoRef)
                        ELSE EffectIf(s, "Running", "agent.resume", e.ref)

ReplayedEffect(s, e) ==
  CASE e.type = "task.start_requested" -> EffectIf(s, "Running", "agent.start", NoRef)
    [] e.type = "task.cancel_requested" ->
         EffectIf(s, "Cancelled", "task.cancelled.emit", NoRef)
    [] e.type = "agent.completed" -> EffectIf(s, "Completed", "task.completed.emit", NoRef)
    [] e.type = "agent.model_requested" -> EffectIf(s, "WaitingModel", "model.call", e.ref)
    [] e.type = "agent.tool_requested" -> EffectIf(s, "WaitingTool", "tool.dispatch", e.ref)
    [] e.type = "agent.user_input_requested" ->
         EffectIf(s, "WaitingUserInput", "user_input.request", e.ref)
    [] e.type = "agent.sub_agent_requested" ->
         EffectIf(s, "WaitingSubAgent", "sub_agent.dispatch", e.ref)
    [] e.type \in {"tool.failed", "sub_agent.failed", "agent.failed"} -> ReplayedFailure(s, e)
    [] e.type \in {"model.response_received", "model.response_failed", "tool.completed",
                  "user_input.received", "sub_agent.completed"} ->
         EffectIf(s, "Running", "agent.resume", e.ref)
    [] OTHER -> NoEffect   \* task.created and the agent flow events

ReplayEvent(t, e) ==
  /\ IsReplay(t, e)
  /\ out' = [task |-> t, verdict |-> "replayed", effect |-> ReplayedEffect(st[t], e)]
  /\ UNCHANGED <<st, handled>>

(* The StateStore fails to load or to save: the handler's work is discarded. *)
StoreFails(t, e) ==
  /\ Deliverable(t, e)
  /\ out' = [task |-> t, verdict |-> "failed", effect |-> NoEffect]
  /\ UNCHANGED <<st, handled>>

HandleEvent(t, e) ==
  /\ Deliverable(t, e)
  /\ \/ HandleTaskCreated(t, e)         \/ HandleTaskStartRequested(t, e)
     \/ HandleTaskCancelRequested(t, e) \/ HandleAgentModelRequested(t, e)
     \/ HandleModelResponse(t, e)       \/ HandleAgentToolRequested(t, e)
     \/ HandleToolCompleted(t, e)       \/ HandleToolFailed(t, e)
     \/ HandleAgentUserInputRequested(t, e) \/ HandleUserInputReceived(t, e)
     \/ HandleAgentSubAgentRequested(t, e)  \/ HandleSubAgentCompleted(t, e)
     \/ HandleSubAgentFailed(t, e)      \/ HandleAgentCompleted(t, e)
     \/ HandleAgentFailed(t, e)         \/ HandleAgentFlow(t, e)
     \/ ReplayEvent(t, e)               \/ RejectEvent(t, e)

Next == \E t \in Tasks, e \in Event : HandleEvent(t, e) \/ StoreFails(t, e)

Spec == Init /\ [][Next]_vars

-----------------------------------------------------------------------------
(* Correctness *)

(* Type correctness of the store, of the history and of the returned result. *)
TypeOK ==
  /\ st \in [Tasks -> TaskState]
  /\ handled \in [Tasks -> [event : Event \cup {NoEvent}, effect : Effect \cup {NoEffect}]]
  /\ out \in [task : Tasks, effect : Effect \cup {NoEffect},
              verdict : {"idle", "handled", "replayed", "rejected", "failed"}]

(* A task has a pending call exactly in the phase that waits for it: no handler
   leaves a call pending behind a phase it moved on from, and no task waits for
   a call nobody recorded.  handleAgentCompleted relies on it: it clears none. *)
PendingMatchesPhase ==
  \A t \in Tasks :
    /\ st[t].pendingModel     # NoRef <=> st[t].phase = "WaitingModel"
    /\ st[t].pendingTool      # NoRef <=> st[t].phase = "WaitingTool"
    /\ st[t].pendingUserInput # NoRef <=> st[t].phase = "WaitingUserInput"
    /\ st[t].pendingSubAgent  # NoRef <=> st[t].phase = "WaitingSubAgent"

(* handleRecoverableFailure gives up exactly on the failure after the last one
   allowed, and the budget a task fails against is the one it was created with. *)
FailureBudget ==
  \A t \in Tasks :
    /\ st[t].phase = "Failed" => st[t].failureCount = st[t].maxFailures + 1
    /\ st[t].phase # "Failed" => st[t].failureCount <= st[t].maxFailures
    /\ st[t].phase = "Created" => st[t].failureCount = 0

(* The effect of the last handled event is what the task's phase waits for: a
   running task has an agent turn dispatched for it, a waiting task the call
   whose id it recorded, a task that is over the announcement of its outcome.
   So every state HandleEvent saves has someone charged with the next event. *)
EffectDrivesPhase ==
  \A t \in Tasks :
    LET s == st[t]
        effect == handled[t].effect
    IN  /\ s.phase = "Created" => effect = NoEffect
        /\ s.phase = "Running" => effect.type \in {"agent.start", "agent.resume"}
        /\ s.phase = "WaitingModel" => effect = MakeEffect("model.call", s.pendingModel)
        /\ s.phase = "WaitingTool" => effect = MakeEffect("tool.dispatch", s.pendingTool)
        /\ s.phase = "WaitingUserInput" =>
             effect = MakeEffect("user_input.request", s.pendingUserInput)
        /\ s.phase = "WaitingSubAgent" =>
             effect = MakeEffect("sub_agent.dispatch", s.pendingSubAgent)
        /\ s.phase = "Completed" => effect = MakeEffect("task.completed.emit", NoRef)
        /\ s.phase = "Failed" => effect = MakeEffect("task.failed.emit", NoRef)
        /\ s.phase = "Cancelled" => effect = MakeEffect("task.cancelled.emit", NoRef)

(* The state of a completed, failed or cancelled task never changes again,
   whatever arrives late: nothing restarts it and nothing recounts its failures. *)
TerminalIsFinal ==
  [][\A t \in Tasks : st[t].phase \in TerminalPhases => st'[t] = st[t]]_vars

(* Handling the last event once more repeats its effect exactly: a reactor that
   lost the effect between the save and the dispatch gets it back by delivering
   the event again.  Agent flow events are the exception replayEffects makes. *)
ReplayRepeatsEffect ==
  [][out'.verdict = "replayed" /\ handled[out'.task].event.type \notin FlowEvents
       => out'.effect = handled[out'.task].effect]_vars

(* The task's life as a client of the runtime sees it (TaskLifecycle). *)
Lifecycle == INSTANCE TaskLifecycle WITH
  phase <- [t \in Tasks |-> st[t].phase],
  failures <- [t \in Tasks |-> st[t].failureCount],
  budget <- [t \in Tasks |-> st[t].maxFailures]

(* Every handler, replay and rejection is a step of the task's life or none. *)
ImplementsLifecycle == Lifecycle!Spec
=============================================================================
