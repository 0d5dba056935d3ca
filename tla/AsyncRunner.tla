---------------------------- MODULE AsyncRunner ------------------------------
(***************************************************************************)
(* app.AppAgentRunner: runs that outlive a process.  Submit, Advance,      *)
(* DispatchNextEffect, Work and Recover are commands of a CLI; between two *)
(* of them a run is only files: the state and the agent snapshot of its    *)
(* task, and a queue of events and one of effects.  A command pops an item *)
(* (it is marked done at once), then feeds an event to the state machine   *)
(* and queues the effect it asks for, or executes an effect and queues the *)
(* events it produces.                                                     *)
(*                                                                         *)
(* One process works on the queues; a second one may submit runs and user  *)
(* input at any time.  The process may die between any two writes.  The    *)
(* agents (builtinagents.agentRuntime), the model and the tools are here   *)
(* as the executors of the effects; the state machine is TaskStateMachine. *)
(* A definition named Slip... is the one it precedes with a mistake in it. *)
(***************************************************************************)
EXTENDS Naturals, Sequences, SequencesExt

CONSTANTS
  Tasks, EventIds, NoEventId, Refs, NoRef, Agents, NoAgent, DefaultMaxFailures,
  LlmRef,    \* an id the model likes to reuse for its tool calls and requests
  MaxTurns,  \* WithMaxTurns
  MaxItems   \* bound: users type only while fewer items than this are under way

ASSUME RunnerAssumption ==
  /\ Tasks # {}
  /\ NoEventId \notin EventIds /\ NoRef \notin Refs /\ NoAgent \notin Agents
  /\ LlmRef \in Refs
  /\ DefaultMaxFailures \in Nat /\ MaxTurns \in Nat \ {0} /\ MaxItems \in Nat

VARIABLES
  st, handled, out, \* the TaskStateMachine over the task state store
  runs,      \* the runtimes on disk, which Recover lists
  snap,      \* snap[a][t]: agent a's snapshot of t
  current,   \* the agent selected in the working process
  events,    \* the pending entries of queue/events.jsonl, oldest first
  effects,   \* the pending entries of queue/effects.jsonl, oldest first
  worker,    \* what the working process holds in memory only
  typed,     \* inputs whose request id was read and which are not queued yet
  disturbed, \* history: the runs an interruption or a setting stopped half way
  guided,    \* history: the runs that took an input they did not ask for
  rewound    \* history: the runs whose model set its step index itself

machine == <<st, handled, out>>
queues  == <<events, effects>>
history == <<disturbed, guided, rewound>>
vars == <<machine, runs, snap, current, queues, worker, typed, history>>

TSM == INSTANCE TaskStateMachine WITH FlowAgents <- {}, Budgets <- {0}

-----------------------------------------------------------------------------
(* Events, effects and snapshots *)

Idle == [pc |-> "idle"]

MakeEvent(id, type, ref, agent) ==
  [id |-> id, type |-> type, ref |-> ref, agent |-> agent, budget |-> 0, wellFormed |-> TRUE]

(* Entries of the queues: [task, event], and [task, type, ref, on], where a resume
   carries the payload of the event it answers and on is the type of that event. *)

(* The fields of an AgentSnapshot its control depends on *)
NoSnapshot == [saved |-> FALSE, pendingModel |-> NoRef, stepIndex |-> 0]

(* pendingEventsLocked and pendingEffectsLocked list the entries of a task, oldest first. *)
HasEntry(queue, t)    == \E i \in DOMAIN queue : queue[i].task = t
IsOldest(queue, i, t) == queue[i].task = t /\ \A j \in 1 .. i - 1 : queue[j].task # t

(* The items that carry a run on.  What the user types does not, until it is
   accepted, nor do the effects that tell somebody something. *)
IsInput(q) == q.event.type = "user_input.received"
Announcements == {"user_input.request", "task.completed.emit", "task.failed.emit",
                  "task.cancelled.emit"}
Carries(pc, q) == IF pc \in {"event", "produced"} THEN ~IsInput(q)
                                                  ELSE q.type \notin Announcements
Places(pc, queue, t) == { i \in DOMAIN queue : queue[i].task = t /\ Carries(pc, queue[i]) }
Held(t) == IF worker.pc # "idle" /\ worker.item.task = t /\ Carries(worker.pc, worker.item)
           THEN 1 ELSE 0
Outstanding(t) == Cardinality(Places("event", events, t)) +
                  Cardinality(Places("effect", effects, t)) + Held(t)

(* eventbus.NewEvent and newID draw random ids: none that anybody still holds *)
HeldEvents == IF worker.pc \in {"event", "produced"} THEN {worker.item} ELSE {}
QueuedEvents == ToSet(events) \cup HeldEvents
FreshIds == EventIds \ ({ st[t].lastEventID : t \in Tasks } \cup
                        { q.event.id : q \in QueuedEvents })
FreshId == CHOOSE id \in FreshIds : TRUE

HeldEffects == IF worker.pc \in {"effect", "enqueue"} THEN {worker.item} ELSE {}
UsedRefs ==
  { st[t].pendingModel : t \in Tasks } \cup { st[t].pendingTool : t \in Tasks } \cup
  { st[t].pendingUserInput : t \in Tasks } \cup { st[t].pendingSubAgent : t \in Tasks } \cup
  { snap[a][t].pendingModel : a \in Agents, t \in Tasks } \cup
  { q.event.ref : q \in QueuedEvents } \cup
  { q.ref : q \in ToSet(effects) \cup HeldEffects } \cup { u.ref : u \in typed }
FreshRefs == Refs \ (UsedRefs \cup {LlmRef})
FreshRef == CHOOSE ref \in FreshRefs : TRUE

(* Bound: nothing that needs a new id is done once EventIds or Refs are used up. *)
IdsLeft == FreshIds # {} /\ FreshRefs # {}

(* The reactor refuses to dispatch an effect no executor is registered for:
   setupRuntime registers none for sub agents. *)
HasExecutor(effect) == effect.type # "sub_agent.dispatch"

Over(t)     == TSM!IsTerminal(st[t])
AsksUser(t) == st[t].phase = "WaitingUserInput"
Live(t)     == t \in runs /\ ~Over(t)

IsIdle == worker.pc = "idle"
Hold(pc, item) == worker' = [pc |-> pc, item |-> item]
Release == worker' = Idle

Init ==
  /\ TSM!Init
  /\ runs = {}
  /\ snap = [a \in Agents |-> [t \in Tasks |-> NoSnapshot]]
  /\ current \in Agents
  /\ events = <<>> /\ effects = <<>>
  /\ worker = Idle
  /\ typed = {}
  /\ disturbed = {} /\ guided = {} /\ rewound = {}

-----------------------------------------------------------------------------
(* Other processes: they submit runs and user input *)

(* A process with agent a selected submits a run under a new task id. *)
Submit(t, a) ==
  /\ t \notin runs /\ IdsLeft
  /\ runs' = runs \cup {t}
  /\ events' = Append(events,
       [task |-> t, event |-> MakeEvent(FreshId, "task.start_requested", NoRef, a)])
  /\ UNCHANGED <<machine, snap, current, effects, worker, typed, history>>

(* It dies after it registered the runtime and before it queued the event. *)
SubmitDies(t) ==
  /\ t \notin runs
  /\ runs' = runs \cup {t}
  /\ disturbed' = disturbed \cup {t}
  /\ UNCHANGED <<machine, snap, current, queues, worker, typed, guided, rewound>>

(* submitUserEvent reads the id of the pending request, or draws a new one ... *)
Inputs == Cardinality(typed) + Len(SelectSeq(events, IsInput))
ReadRequest(t) ==
  /\ t \in runs /\ IdsLeft
  /\ Inputs + Len(effects) + Len(SelectSeq(events, LAMBDA q : ~IsInput(q)))
       + (IF IsIdle THEN 0 ELSE 1) < MaxItems
  /\ LET pending == st[t].pendingUserInput
     IN  typed' = typed \cup {[task |-> t, ref |-> IF pending # NoRef THEN pending ELSE FreshRef]}
  /\ UNCHANGED <<machine, runs, snap, current, queues, worker, history>>

(* ... and queues the answer under it later. *)
QueueInput(u) ==
  /\ IdsLeft
  /\ typed' = typed \ {u}
  /\ events' = Append(events,
       [task |-> u.task, event |-> MakeEvent(FreshId, "user_input.received", u.ref, NoAgent)])
  /\ UNCHANGED <<machine, runs, snap, current, effects, worker, history>>

-----------------------------------------------------------------------------
(* The working process: one command at a time *)

(* Snapshots are stored by agent name: the agents of the runs under way change. *)
SelectAgent(a) ==
  /\ IsIdle
  /\ a # current
  /\ current' = a
  /\ disturbed' = disturbed \cup { t \in Tasks : Live(t) /\ snap[current][t].saved }
  /\ UNCHANGED <<machine, runs, snap, queues, worker, typed, guided, rewound>>

(* The done record is appended before anything is done. *)
PopEvent(t) ==
  /\ \E i \in DOMAIN events :
       /\ IsOldest(events, i, t)
       /\ Hold("event", events[i])
       /\ events' = RemoveAt(events, i)
  /\ UNCHANGED effects

SlipPopKeepsEffect(t) ==
  /\ \E i \in DOMAIN effects : IsOldest(effects, i, t) /\ Hold("effect", effects[i])
  /\ UNCHANGED queues
PopEffect(t) ==
  /\ \E i \in DOMAIN effects :
       /\ IsOldest(effects, i, t)
       /\ Hold("effect", effects[i])
       /\ effects' = RemoveAt(effects, i)
  /\ UNCHANGED events

Advance(t) ==
  /\ IsIdle
  /\ PopEvent(t)
  /\ UNCHANGED <<machine, runs, snap, current, typed, history>>

DispatchNextEffect(t) ==
  /\ IsIdle
  /\ PopEffect(t)
  /\ UNCHANGED <<machine, runs, snap, current, typed, history>>

(* asyncWorkQueue.Next prefers any event to any effect. *)
Work ==
  \/ events # <<>> /\ Advance(Head(events).task)
  \/ events = <<>> /\ effects # <<>> /\ DispatchNextEffect(Head(effects).task)

(* The rest of Advance: publish the event to the state machine, which saves the
   state, and hand the effect to queueEffectDispatcher.  An error drops it. *)
Publish ==
  /\ worker.pc = "event"
  /\ LET t == worker.item.task
         e == worker.item.event
         unasked == IsInput(worker.item) /\ st[t].phase = "Running"
     IN  /\ TSM!HandleEvent(t, e)
         /\ IF out'.effect # TSM!NoEffect /\ HasExecutor(out'.effect)
            THEN Hold("enqueue", [task |-> t, type |-> out'.effect.type,
                                  ref |-> out'.effect.ref, on |-> e.type])
            ELSE Release
         /\ guided' = IF unasked THEN guided \cup {t} ELSE guided
         /\ disturbed' = IF HasExecutor(out'.effect) THEN disturbed ELSE disturbed \cup {t}
  /\ UNCHANGED <<runs, snap, current, queues, typed, rewound>>

EnqueueEffect ==
  /\ worker.pc = "enqueue"
  /\ effects' = Append(effects, worker.item)
  /\ Release
  /\ UNCHANGED <<machine, runs, snap, current, events, typed, history>>

EnqueueEvent ==
  /\ worker.pc = "produced"
  /\ events' = Append(events, worker.item)
  /\ Release
  /\ UNCHANGED <<machine, runs, snap, current, effects, typed, history>>

(* The process dies, or the command fails on I/O or a cancelled context. *)
Interrupt ==
  /\ ~IsIdle
  /\ Release
  /\ disturbed' = disturbed \cup {worker.item.task}
  /\ UNCHANGED <<machine, runs, snap, current, queues, typed, guided, rewound>>

-----------------------------------------------------------------------------
(* Executing an effect: executeEffect and the executors *)

Executes(types) == worker.pc = "effect" /\ worker.item.type \in types
Task == worker.item.task

Produce(type, ref) ==
  IdsLeft /\ Hold("produced", [task |-> Task, event |-> MakeEvent(FreshId, type, ref, NoAgent)])

Save(s) == snap' = [snap EXCEPT ![current][Task] = [s EXCEPT !.saved = TRUE]]

SlipRequestUnrecorded(s) ==
  \/ /\ s.stepIndex >= MaxTurns
     /\ Save(s)
     /\ Produce("agent.failed", NoRef)
  \/ /\ s.stepIndex < MaxTurns
     /\ Save(s)
     /\ Produce("agent.model_requested", FreshRef)
(* agentRuntime.requestDecision: call the model, unless the turns are used up *)
RequestDecision(s) ==
  \/ /\ s.stepIndex >= MaxTurns
     /\ Save(s)
     /\ Produce("agent.failed", NoRef)
  \/ /\ s.stepIndex < MaxTurns
     /\ Save([s EXCEPT !.pendingModel = FreshRef])
     /\ Produce("agent.model_requested", FreshRef)

AgentStart ==
  /\ Executes({"agent.start"})
  /\ RequestDecision(NoSnapshot)
  /\ UNCHANGED <<machine, runs, current, queues, typed, history>>

Own == snap[current][Task]
Resumes(on) == Executes({"agent.resume"}) /\ worker.item.on \in on

AnswersPending == NoRef \in {worker.item.ref, Own.pendingModel} \/ worker.item.ref = Own.pendingModel

(* agentRuntime.resume with a tool result, an answer, a failure: observe, ask again *)
AgentObserves ==
  /\ Resumes(TSM!EventTypes \ {"model.response_received", "model.response_failed"})
  /\ Own.saved
  /\ RequestDecision(Own)
  /\ UNCHANGED <<machine, runs, current, queues, typed, history>>

(* updated.StepIndex++ *)
SlipTurnNotCounted(step) == step
TurnDone(step) == step + 1

(* handleModelResponse and applyDecision: the model chose what to do next, and
   may have set the step index of the plan to any number. *)
AgentDecides ==
  /\ Resumes({"model.response_received"})
  /\ Own.saved /\ AnswersPending
  /\ \E step \in 0 .. MaxTurns - 1 :
       /\ Save([Own EXCEPT !.pendingModel = NoRef, !.stepIndex = TurnDone(step)])
       /\ rewound' = IF step # Own.stepIndex THEN rewound \cup {Task} ELSE rewound
  /\ \/ \E ref \in {FreshRef, LlmRef} :
          \/ Produce("agent.tool_requested", ref)
          \/ Produce("agent.user_input_requested", ref)
          \/ Produce("agent.sub_agent_requested", ref)
     \/ Produce("agent.completed", NoRef)
     \/ Produce("agent.failed", NoRef)
  /\ UNCHANGED <<machine, runs, current, queues, typed, disturbed, guided>>

(* failFromError: the model call failed or its decision is not usable *)
AgentFails ==
  /\ \/ Resumes({"model.response_failed"})
     \/ Resumes({"model.response_received"}) /\ AnswersPending
  /\ Own.saved
  /\ Save([Own EXCEPT !.pendingModel = NoRef])
  /\ Produce("agent.failed", NoRef)
  /\ UNCHANGED <<machine, runs, current, queues, typed, history>>

(* No snapshot of the selected agent, or a response to another call: an error,
   and the effect is gone. *)
AgentRefuses ==
  /\ Executes({"agent.resume"})
  /\ ~Own.saved \/ (worker.item.on = "model.response_received" /\ ~AnswersPending)
  /\ Release
  /\ UNCHANGED <<machine, runs, snap, current, queues, typed, history>>

SlipFailedCallSilent ==
  /\ Executes({"model.call"})
  /\ Produce("model.response_received", worker.item.ref) \/ Release
  /\ UNCHANGED <<machine, runs, snap, current, queues, typed, history>>
(* The model executor answers with the id it was called with: a response, or
   the failure of the call or of its decoding. *)
ModelAnswers ==
  /\ Executes({"model.call"})
  /\ \E type \in {"model.response_received", "model.response_failed"} :
       Produce(type, worker.item.ref)
  /\ UNCHANGED <<machine, runs, snap, current, queues, typed, history>>

SlipAnswerForgetsCall ==
  /\ Executes({"tool.dispatch"})
  /\ \E type \in {"tool.completed", "tool.failed"} : Produce(type, LlmRef)
  /\ UNCHANGED <<machine, runs, snap, current, queues, typed, history>>
(* The tools adapter does the same: an unknown tool, a refusal by the policy
   and an error of the tool are failures of the call. *)
ToolAnswers ==
  /\ Executes({"tool.dispatch"})
  /\ \E type \in {"tool.completed", "tool.failed"} : Produce(type, worker.item.ref)
  /\ UNCHANGED <<machine, runs, snap, current, queues, typed, history>>

(* userInputRequestExecutor: the question shows in the status of the run. *)
AskUser ==
  /\ Executes({"user_input.request"})
  /\ Release
  /\ UNCHANGED <<machine, runs, snap, current, queues, typed, history>>

(* terminalEffectExecutor: the outcome goes to a topic only the event recorder
   listens to. *)
Announce ==
  /\ Executes({"task.completed.emit", "task.failed.emit", "task.cancelled.emit"})
  /\ Release
  /\ UNCHANGED <<machine, runs, snap, current, queues, typed, history>>

(* Recover lists the runs that are not over or have something queued; it writes
   nothing.  (RecoverCommand makes it a step.) *)
Recoverable == { t \in runs : ~Over(t) \/ HasEntry(events, t) \/ HasEntry(effects, t) }

ExecuteEffect ==
  AgentStart \/ AgentObserves \/ AgentDecides \/ AgentFails \/ AgentRefuses
    \/ ModelAnswers \/ ToolAnswers \/ AskUser \/ Announce

Step == Work \/ Publish \/ EnqueueEffect \/ EnqueueEvent \/ ExecuteEffect

Next ==
  \/ Step
  \/ \E t \in Tasks : Advance(t) \/ DispatchNextEffect(t) \/ SubmitDies(t) \/ ReadRequest(t)
  \/ \E t \in Tasks, a \in Agents : Submit(t, a)
  \/ \E u \in typed : QueueInput(u)
  \/ \E a \in Agents : SelectAgent(a)
  \/ Interrupt

(* Somebody keeps calling work (Run does it in a loop), and a command returns. *)
Spec == Init /\ [][Next]_vars /\ WF_vars(Step)

-----------------------------------------------------------------------------
(* Correctness *)

Undisturbed == runs \ (disturbed \cup guided)

(* A run nothing disturbed has exactly one item of work under way, in a queue or
   in the hands of the command at work, until it is over or waits for the user:
   it never stops half way with nothing left to do, and never runs two turns. *)
RunGoesOn ==
  \A t \in Undisturbed :
    Outstanding(t) = IF Over(t) \/ AsksUser(t) THEN 0 ELSE 1

(* Whatever is interrupted, nothing is done twice: an item is popped before it is
   processed, so a run that takes no unasked input has at most one turn, call or
   event under way. *)
OneAtATime == \A t \in runs \ guided : Outstanding(t) <= 1

(* The agent's snapshot and the task's state are written by different commands
   and agree on the model call a task waits for. *)
SnapshotAgrees ==
  \A t \in Undisturbed :
    st[t].phase = "WaitingModel" => snap[current][t].pendingModel = st[t].pendingModel

(* Work queued earlier still fits when its turn comes: the state machine accepts
   the event and the agent the resume, although the state, the snapshot and the
   queue have been written by several commands since. *)
NothingRefused ==
  [][\A t \in (Undisturbed)' :
       worker # worker' /\ worker # Idle /\ worker.item.task = t =>
         /\ worker.pc = "event" /\ ~IsInput(worker.item) => out'.verdict = "handled"
         /\ worker.pc = "effect" /\ worker.item.type = "agent.resume"
              => worker'.pc = "produced"]_vars

(* Once the user stops typing, a run nothing disturbed and whose model does not
   set its own step index ends or asks the user something. *)
Settles ==
  \A t \in Tasks :
    <>[](Inputs = 0) =>
      (t \in runs ~> Over(t) \/ AsksUser(t) \/ t \in disturbed \cup guided \cup rewound)
=============================================================================
