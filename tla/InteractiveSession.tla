------------------------- MODULE InteractiveSession -------------------------
(***************************************************************************)
(* runtimecli.Session on an in-memory runtime.  The user types lines;      *)
(* HandlePlainInput reads the state of the session's task and starts a     *)
(* task, answers its question or guides it, by publishing an event that    *)
(* the reactor handles on the caller's own goroutine.  Meanwhile the bus   *)
(* worker hands the reactor the events that effects produced, and every    *)
(* effect runs on a goroutine of its own (AsyncEffectDispatcher) that      *)
(* publishes its answer when it has one.  Only HandleEvent is under the    *)
(* task's lock (TaskLockPool): everything else interleaves.                *)
(*                                                                         *)
(* A task can be cancelled at any time and an effect can time out; a done  *)
(* context makes Go's select publish an answer or drop it as it likes.     *)
(* Not here: a full queue and Close (EventBus), registration failures      *)
(* (TaskRegistration), the synchronous dispatcher of the tests, reactor    *)
(* limits, and lifecycle and error events, which the reactor ignores.      *)
(*                                                                         *)
(* A definition named Slip... is the one it precedes with a mistake in it. *)
(***************************************************************************)
EXTENDS Naturals, Sequences, SequencesExt

CONSTANTS
  MaxTasks,  \* bound: tasks are numbered by taskSeq up to this
  MaxInputs, \* bound: lines the user types
  EventIds, NoEventId, Refs, NoRef, Agent, NoAgent, DefaultMaxFailures,
  MaxTurns   \* WithMaxTurns

ASSUME SessionAssumption ==
  /\ MaxTasks \in Nat \ {0} /\ MaxInputs \in Nat
  /\ NoEventId \notin EventIds /\ NoRef \notin Refs /\ Agent # NoAgent
  /\ DefaultMaxFailures \in Nat /\ MaxTurns \in Nat \ {0}

Tasks  == 1 .. MaxTasks
NoTask == 0

VARIABLES
  st, handled, out, \* the TaskStateMachine over the MemoryStateStore
  snap,      \* snap[t]: the agent's snapshot in the MemorySnapshotStore
  queue,     \* the bus queue: events of tasks and outcomes, oldest first
  calls,     \* calls[c]: the Reactor.Advance under way on goroutine c
  effects,   \* the effect goroutines
  seq,       \* Session.taskSeq
  current,   \* the task of Session.taskRuntime
  owned,     \* Session.taskIDs
  session,   \* where HandlePlainInput is, and what it has read
  typed,     \* lines typed so far
  outcomes,  \* outcomes[t]: how often the outcome of t was printed
  question,  \* question[t]: the request whose prompt was printed last
  cancelled, \* history: the tasks CancelTask was called for
  dropped,   \* history: the tasks an answer or an effect of which was dropped
  refused,   \* history: the tasks whose agent refused to be resumed
  guided     \* history: guided[t]: how often t took an input while it ran

machine == <<st, handled, out>>
ui      == <<outcomes, question>>
history == <<cancelled, dropped, refused, guided>>
vars == <<machine, snap, queue, calls, effects, seq, current, owned, session, typed, ui, history>>

TSM == INSTANCE TaskStateMachine WITH
  Agents <- {Agent}, FlowAgents <- {}, Budgets <- {0}

-----------------------------------------------------------------------------
(* Events, calls and goroutines *)

Callers == {"session", "worker"}
Idle == [pc |-> "idle"]

MakeEvent(id, type, ref, agent) ==
  [id |-> id, type |-> type, ref |-> ref, agent |-> agent, budget |-> 0, wellFormed |-> TRUE]

TaskEvent(t, e)  == [task |-> t, event |-> e]
Outcome(t, type) == [task |-> t, outcome |-> type]
IsOutcome(q) == "outcome" \in DOMAIN q

Announcements == {"task.completed.emit", "task.failed.emit", "task.cancelled.emit"}
NoSnapshot == [saved |-> FALSE, pendingModel |-> NoRef, stepIndex |-> 0]

(* Random ids: none that anybody who deals with the task still holds *)
EventsOf(t) ==
  { q.event : q \in { r \in ToSet(queue) : r.task = t /\ ~IsOutcome(r) } }
    \cup { calls[c].event : c \in { d \in Callers : calls[d].pc = "advance" /\ calls[d].task = t } }
    \cup { g.event : g \in { h \in effects : h.task = t } }
FreshIds(t) ==
  { id \in EventIds : id # st[t].lastEventID /\ \A e \in EventsOf(t) : e.id # id }
FreshId(t) == CHOOSE id \in FreshIds(t) : TRUE

RefsOf(t) ==
  {st[t].pendingModel, st[t].pendingTool, st[t].pendingUserInput, st[t].pendingSubAgent,
   snap[t].pendingModel, question[t]}
    \cup { e.ref : e \in EventsOf(t) }
    \cup UNION { {g.ref, g.own.pendingModel} : g \in { h \in effects : h.task = t } }
    \cup { calls[c].effect.ref : c \in { d \in Callers : calls[d].pc = "dispatch" /\ calls[d].task = t } }
FreshRefs(t) == Refs \ RefsOf(t)
FreshRef(t) == CHOOSE ref \in FreshRefs(t) : TRUE

(* Bound: nothing that needs a new id is done once EventIds or Refs are used up. *)
IdsLeft(t) == FreshIds(t) # {} /\ FreshRefs(t) # {}

(* setupRuntime and NewSession register no executor for sub agents. *)
HasExecutor(effect) == effect.type # "sub_agent.dispatch"

Over(t)     == TSM!IsTerminal(st[t])
AsksUser(t) == st[t].phase = "WaitingUserInput"

Init ==
  /\ TSM!Init
  /\ snap = [t \in Tasks |-> NoSnapshot]
  /\ queue = <<>>
  /\ calls = [c \in Callers |-> Idle]
  /\ effects = {}
  /\ seq = 0 /\ current = NoTask /\ owned = {}
  /\ session = Idle /\ typed = 0
  /\ outcomes = [t \in Tasks |-> 0]
  /\ question = [t \in Tasks |-> NoRef]
  /\ cancelled = {} /\ dropped = {} /\ refused = {}
  /\ guided = [t \in Tasks |-> 0]

-----------------------------------------------------------------------------
(* HandlePlainInput, under the session's mutex from its first step to its last *)

Asking == [pc |-> "publishing", answers |-> FALSE, restore |-> NoTask]

Read ==
  /\ session = Idle
  /\ typed < MaxInputs
  /\ typed' = typed + 1
  /\ session' = IF current = NoTask THEN [pc |-> "start", restore |-> NoTask]
                                    ELSE [pc |-> "decide", state |-> st[current]]
  /\ UNCHANGED <<machine, snap, queue, calls, effects, seq, current, owned, ui, history>>

Decides(phases) ==
  /\ session.pc = "decide"
  /\ session.state.phase \in phases

(* Nothing was handled for the task yet: start it (once more). *)
DecideStart ==
  /\ Decides({"Created"})
  /\ session' = [pc |-> "start", restore |-> NoTask]
  /\ UNCHANGED current

DecideNext ==
  /\ Decides(TSM!TerminalPhases)
  /\ current' = NoTask
  /\ session' = [pc |-> "start", restore |-> NoTask]

(* publishUserInputLocked: the event is handled before Publish returns. *)
PublishUserInput(ref, answers) ==
  /\ IdsLeft(current)
  /\ calls' = [calls EXCEPT !["session"] = [pc |-> "advance", task |-> current,
                 event |-> MakeEvent(FreshId(current), "user_input.received", ref, NoAgent)]]
  /\ session' = [Asking EXCEPT !.answers = answers]

SlipAnswerWithNewId ==
  /\ Decides({"WaitingUserInput"})
  /\ PublishUserInput(FreshRef(current), TRUE)
  /\ UNCHANGED current
DecideAnswer ==
  /\ Decides({"WaitingUserInput"})
  /\ PublishUserInput(session.state.pendingUserInput, TRUE)
  /\ UNCHANGED current

(* handleRunningInputLocked: the analyzer routes the line to the task ... *)
DecideGuide ==
  /\ Decides({"Running"})
  /\ PublishUserInput(FreshRef(current), FALSE)
  /\ UNCHANGED current

(* ... or to a new one, or it fails. *)
DecideLeave ==
  /\ Decides({"Running"})
  /\ \/ session' = [pc |-> "start", restore |-> current] /\ current' = NoTask
     \/ session' = Idle /\ UNCHANGED current

(* The error "wait for the current step to finish" *)
DecideWait ==
  /\ Decides({"WaitingModel", "WaitingTool", "WaitingSubAgent"})
  /\ session' = Idle
  /\ UNCHANGED current

Decide ==
  /\ \/ (DecideStart \/ DecideNext \/ DecideLeave \/ DecideWait) /\ UNCHANGED calls
     \/ DecideAnswer \/ DecideGuide
  /\ UNCHANGED <<machine, snap, queue, effects, seq, owned, typed, ui, history>>

StartTask(t) ==
  /\ IdsLeft(t)
  /\ calls' = [calls EXCEPT !["session"] = [pc |-> "advance", task |-> t,
       event |-> MakeEvent(FreshId(t), "task.start_requested", NoRef, Agent)]]

SlipOwnsLastOnly(t) == {t}
Own(t) == owned \cup {t}

(* startNewTaskLocked: a task runtime under the next id, then its start event *)
StartNewTask ==
  /\ session.pc = "start"
  /\ \/ current # NoTask /\ StartTask(current) /\ UNCHANGED <<seq, current, owned>>
     \/ /\ current = NoTask
        /\ seq < MaxTasks
        /\ seq' = seq + 1
        /\ current' = seq + 1
        /\ owned' = Own(seq + 1)
        /\ StartTask(seq + 1)
  /\ session' = [Asking EXCEPT !.restore = session.restore]
  /\ UNCHANGED <<machine, snap, queue, effects, typed, ui, history>>

(* The runtime cannot be created: the number is spent, the old task stays. *)
StartFails ==
  /\ session.pc = "start" /\ current = NoTask
  /\ seq < MaxTasks
  /\ seq' = seq + 1
  /\ current' = session.restore
  /\ session' = Idle
  /\ UNCHANGED <<machine, snap, queue, calls, effects, owned, typed, ui, history>>

-----------------------------------------------------------------------------
(* Reactor.Advance on the goroutine of a caller *)

(* Publish returns to HandlePlainInput, which puts the old task back after an
   error of a start; a worker goes on with its queue. *)
Return(c, failed) ==
  /\ calls' = [calls EXCEPT ![c] = Idle]
  /\ session' = IF c = "session" THEN Idle ELSE session
  /\ current' = IF c = "session" /\ failed /\ session.restore # NoTask
                THEN session.restore ELSE current

(* resolveRuntime succeeds: the task is registered.  HandleEvent under its lock *)
Advance(c) ==
  /\ calls[c].pc = "advance"
  /\ LET t == calls[c].task
         e == calls[c].event
     IN  /\ TSM!HandleEvent(t, e)
         /\ IF out'.effect = TSM!NoEffect
            THEN Return(c, out'.verdict = "rejected")
            ELSE /\ calls' = [calls EXCEPT ![c] = [pc |-> "dispatch", task |-> t,
                                on |-> e.type, effect |-> out'.effect, done |-> FALSE]]
                 /\ UNCHANGED <<session, current>>
         /\ guided' = [guided EXCEPT ![t] =
              IF e.type = "user_input.received" /\ st[t].phase = "Running" THEN @ + 1 ELSE @]
  /\ UNCHANGED <<snap, queue, effects, seq, owned, typed, ui, cancelled, dropped, refused>>

EffectId == CHOOSE i \in 1 .. Cardinality(effects) + 1 : \A g \in effects : g.id # i
Goroutine(call) ==
  [id |-> EffectId, pc |-> "run", task |-> call.task, type |-> call.effect.type,
   ref |-> call.effect.ref, on |-> call.on, own |-> NoSnapshot, event |-> TSM!NoEvent,
   done |-> FALSE]

(* dispatchEffects, after the unlock: a goroutine of its own for the effect *)
Dispatch(c) ==
  /\ calls[c].pc = "dispatch" /\ ~calls[c].done /\ HasExecutor(calls[c].effect)
  /\ effects' = effects \cup {Goroutine(calls[c])}
  /\ Return(c, FALSE)
  /\ UNCHANGED dropped

(* No executor, or the call was cancelled since: the state is saved, and the
   effect it asked for is reported as failed to nobody who would act on it. *)
DispatchFails(c) ==
  /\ calls[c].pc = "dispatch" /\ (calls[c].done \/ ~HasExecutor(calls[c].effect))
  /\ Return(c, TRUE)
  /\ dropped' = dropped \cup {calls[c].task}
  /\ UNCHANGED effects

DispatchEffects(c) ==
  /\ Dispatch(c) \/ DispatchFails(c)
  /\ UNCHANGED <<machine, snap, queue, seq, owned, typed, ui, cancelled, refused, guided>>

-----------------------------------------------------------------------------
(* The bus worker: subscribers in the order they subscribed, the session first.
   A result without text is printed as nothing; it counts as printed here. *)

OwnsTask(t) == t \in owned

Deliver ==
  /\ calls["worker"] = Idle
  /\ queue # <<>>
  /\ LET q == Head(queue)
     IN  IF IsOutcome(q)
         THEN /\ outcomes' = [outcomes EXCEPT ![q.task] = IF OwnsTask(q.task) THEN @ + 1 ELSE @]
              /\ UNCHANGED <<calls, question>>
         ELSE /\ calls' = [calls EXCEPT !["worker"] =
                   [pc |-> "advance", task |-> q.task, event |-> q.event]]
              /\ question' = [question EXCEPT ![q.task] =
                   IF q.event.type = "agent.user_input_requested" /\ OwnsTask(q.task)
                   THEN q.event.ref ELSE @]
              /\ UNCHANGED outcomes
  /\ queue' = Tail(queue)
  /\ UNCHANGED <<machine, snap, effects, seq, current, owned, session, typed, history>>

-----------------------------------------------------------------------------
(* The effect goroutines *)

Becomes(g, h) == effects' = (effects \ {g}) \cup {h}
Ends(g) == effects' = effects \ {g}
Runs(g, types) == g.pc = "run" /\ g.type \in types
Produces(g, type, ref) ==
  /\ IdsLeft(g.task)
  /\ Becomes(g, [g EXCEPT !.pc = "answer", !.event = MakeEvent(FreshId(g.task), type, ref, NoAgent)])
Save(g, s) == snap' = [snap EXCEPT ![g.task] = [s EXCEPT !.saved = TRUE]]

(* agentRuntime.requestDecision: call the model, unless the turns are used up *)
RequestDecision(g, s) ==
  \/ /\ s.stepIndex >= MaxTurns
     /\ Save(g, s)
     /\ Produces(g, "agent.failed", NoRef)
  \/ /\ s.stepIndex < MaxTurns
     /\ LET ref == FreshRef(g.task)
        IN  Save(g, [s EXCEPT !.pendingModel = ref]) /\ Produces(g, "agent.model_requested", ref)

AgentStart(g) ==
  /\ Runs(g, {"agent.start"})
  /\ RequestDecision(g, NoSnapshot)
  /\ UNCHANGED refused

(* agentRuntime.resume works on the snapshot it loaded: a second turn of the
   same task may save another before this one does. *)
AgentLoads(g) ==
  /\ Runs(g, {"agent.resume"})
  /\ snap[g.task].saved
  /\ Becomes(g, [g EXCEPT !.pc = "loaded", !.own = snap[g.task]])
  /\ UNCHANGED <<snap, refused>>

Resumes(g, on) == g.pc = "loaded" /\ g.on \in on
AnswersPending(g) == NoRef \in {g.ref, g.own.pendingModel} \/ g.ref = g.own.pendingModel

AgentObserves(g) ==
  /\ Resumes(g, TSM!EventTypes \ {"model.response_received", "model.response_failed"})
  /\ RequestDecision(g, g.own)
  /\ UNCHANGED refused

(* handleModelResponse and applyDecision *)
AgentDecides(g) ==
  /\ Resumes(g, {"model.response_received"}) /\ AnswersPending(g)
  /\ \E step \in 0 .. MaxTurns - 1 :
       Save(g, [g.own EXCEPT !.pendingModel = NoRef, !.stepIndex = step + 1])
  /\ \/ \E type \in TSM!RequestEvents \ {"agent.model_requested"} :
          Produces(g, type, FreshRef(g.task))
     \/ \E type \in {"agent.completed", "agent.failed"} : Produces(g, type, NoRef)
  /\ UNCHANGED refused

(* failFromError: the model call failed or its decision is not usable *)
AgentFails(g) ==
  /\ \/ Resumes(g, {"model.response_failed"})
     \/ Resumes(g, {"model.response_received"}) /\ AnswersPending(g)
  /\ Save(g, [g.own EXCEPT !.pendingModel = NoRef])
  /\ Produces(g, "agent.failed", NoRef)
  /\ UNCHANGED refused

(* No snapshot yet, or a response to another call than the snapshot's: an error
   of the executor, so the task gets no event. *)
AgentRefuses(g) ==
  /\ \/ Runs(g, {"agent.resume"}) /\ ~snap[g.task].saved
     \/ Resumes(g, {"model.response_received"}) /\ ~AnswersPending(g)
  /\ Ends(g)
  /\ refused' = refused \cup {g.task}
  /\ UNCHANGED snap

SlipErrorsAreNotAnswers(g) ==
  /\ \/ /\ Runs(g, {"model.call"})
        /\ Produces(g, "model.response_received", g.ref) \/ Ends(g)
     \/ /\ Runs(g, {"tool.dispatch"})
        /\ Produces(g, "tool.completed", g.ref) \/ Ends(g)
  /\ UNCHANGED <<snap, refused>>
(* The model executor and the tools adapter turn every failure into an answer. *)
Answers(g) ==
  /\ \/ /\ Runs(g, {"model.call"})
        /\ \E type \in {"model.response_received", "model.response_failed"} :
             Produces(g, type, g.ref)
     \/ /\ Runs(g, {"tool.dispatch"})
        /\ \E type \in {"tool.completed", "tool.failed"} : Produces(g, type, g.ref)
  /\ UNCHANGED <<snap, refused>>

(* userInputRequestExecutor: the question is on the screen already. *)
AskUser(g) ==
  /\ Runs(g, {"user_input.request"})
  /\ Ends(g)
  /\ UNCHANGED <<snap, refused>>

(* terminalEffectExecutor makes the event of the outcome; it cannot fail. *)
Announce(g) ==
  /\ Runs(g, Announcements)
  /\ Becomes(g, [g EXCEPT !.pc = "answer"])
  /\ UNCHANGED <<snap, refused>>

ExecuteEffect(g) ==
  /\ \/ AgentStart(g) \/ AgentLoads(g) \/ AgentObserves(g) \/ AgentDecides(g)
     \/ AgentFails(g) \/ AgentRefuses(g) \/ Answers(g) \/ AskUser(g) \/ Announce(g)
  /\ UNCHANGED <<machine, queue, calls, seq, current, owned, session, typed, ui,
                 cancelled, dropped, guided>>

(* EffectResultEvents: PublishAsync *)
PublishAnswer(g) ==
  /\ g.pc = "answer"
  /\ queue' = Append(queue, IF g.type \in Announcements THEN Outcome(g.task, g.type)
                                                       ELSE TaskEvent(g.task, g.event))
  /\ Ends(g)
  /\ UNCHANGED <<machine, snap, calls, seq, current, owned, session, typed, ui, history>>

(* Its context is done: the semaphore or the queue is not entered, and the task
   hears nothing (EffectFailed is not an event of the task). *)
DropAnswer(g) ==
  /\ g.done /\ g.pc \in {"run", "answer"}
  /\ Ends(g)
  /\ dropped' = dropped \cup {g.task}
  /\ UNCHANGED <<machine, snap, queue, calls, seq, current, owned, session, typed, ui,
                 cancelled, refused, guided>>

(* CancelTask marks the contexts under way for the task, and nothing else.
   Bound: once a task. *)
CancelTask(t) ==
  /\ t \notin cancelled
  /\ \/ \E g \in effects : g.task = t
     \/ \E c \in Callers : calls[c].pc = "dispatch" /\ calls[c].task = t
  /\ cancelled' = cancelled \cup {t}
  /\ effects' = { IF g.task = t THEN [g EXCEPT !.done = TRUE] ELSE g : g \in effects }
  /\ calls' = [c \in Callers |-> IF calls[c].pc = "dispatch" /\ calls[c].task = t
                                 THEN [calls[c] EXCEPT !.done = TRUE] ELSE calls[c]]
  /\ UNCHANGED <<machine, snap, queue, seq, current, owned, session, typed, ui,
                 dropped, refused, guided>>

Next ==
  \/ Read \/ Decide \/ StartNewTask \/ StartFails \/ Deliver
  \/ \E c \in Callers : Advance(c) \/ DispatchEffects(c)
  \/ \E g \in effects : ExecuteEffect(g) \/ PublishAnswer(g) \/ DropAnswer(g)
  \/ \E t \in Tasks : CancelTask(t)

Spec == Init /\ [][Next]_vars

-----------------------------------------------------------------------------
(* Correctness *)

(* What is under way: entries of the queue, effects of some types, and calls that
   are about to be handled or to start such an effect *)
Queued(t, told)    == Cardinality({ i \in DOMAIN queue : queue[i].task = t /\ (IsOutcome(queue[i]) <=> told) })
Effects(t, types)  == Cardinality({ g \in effects : g.task = t /\ g.type \in types })
Starting(t, types) == { c \in Callers : /\ calls[c].pc = "dispatch" /\ calls[c].task = t
                                        /\ calls[c].effect.type \in types }
Advancing(t)       == { c \in Callers : /\ calls[c].pc = "advance" /\ calls[c].task = t
                                        /\ calls[c].event.type # "user_input.received" }

(* What may still move a task: events on their way to it and the effects that
   will produce one.  Input does not count until it was accepted. *)
Carrying == TSM!EffectTypes \ (Announcements \cup {"user_input.request"})
Carriers(t) == Queued(t, FALSE) + Effects(t, Carrying)
                 + Cardinality(Advancing(t) \cup Starting(t, Carrying))

(* A task is never left to itself while it runs or waits for the model or a tool:
   something is on its way to it, unless an effect or an answer was dropped, or
   its agent refused a resume.  And nothing runs twice: every carrier above the
   first is one the user started by guiding the task while it ran. *)
CarriedOn ==
  \A t \in owned :
    /\ Carriers(t) <= 1 + guided[t]
    /\ ~Over(t) /\ ~AsksUser(t) /\ t \notin dropped \cup refused => Carriers(t) >= 1
    /\ t \in refused => guided[t] > 0

(* The user sees the outcome of every task the session ever started, once, even
   when the session has moved on to another; and the question he has to answer
   was printed before the task started to wait for it. *)
Announcing(t) == Queued(t, TRUE) + Effects(t, Announcements)
                   + Cardinality(Starting(t, Announcements))
UserIsTold ==
  \A t \in Tasks :
    /\ outcomes[t] + Announcing(t) <= 1
    /\ Over(t) /\ t \notin dropped => outcomes[t] + Announcing(t) = 1
    /\ AsksUser(t) /\ guided[t] = 0 => question[t] = st[t].pendingUserInput

(* The state HandlePlainInput acts on was read without the task's lock and may be
   stale; yet an answer to the question it found is accepted, unless a second
   turn is about. *)
AnswerIsTaken ==
  [][LET call == calls["session"]
     IN  call.pc = "advance" /\ calls'["session"].pc # "advance"
         /\ session.answers /\ guided[call.task] = 0
           => out'.verdict = "handled"]_vars
=============================================================================
