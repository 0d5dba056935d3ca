----------------------- MODULE InteractiveSessionProofs -----------------------
(***************************************************************************)
(* What holds of InteractiveSession for any number of tasks, inputs, ids   *)
(* and turns: CarriedOn, UserIsTold and AnswerIsTaken, and that the        *)
(* session, the bus worker and the effect goroutines drive every task as   *)
(* TaskStateMachine allows.                                                *)
(*                                                                         *)
(* The inductive invariant IInv joins the state of a task to what is under *)
(* way for it.  Counting alone (Bounded) does not carry over a step: the   *)
(* one carrier must also be what the state waits for (Attended), and, of a *)
(* task the user never guided, nothing may be about that the state and the *)
(* snapshot of its agent do not wait for (Known).  A second turn exists    *)
(* only after guidance, so a task with one carrier has nothing else under  *)
(* way (Solitary), which is what makes the snapshot an agent loaded still  *)
(* the saved one when it acts on it.                                       *)
(***************************************************************************)
EXTENDS InteractiveSession, TLAPS, FiniteSetTheorems, SequenceTheorems

P == INSTANCE TaskStateMachineProofs WITH
  Agents <- {Agent}, FlowAgents <- {}, Budgets <- {0}

-----------------------------------------------------------------------------
(* The types of what the session keeps *)

ModelAnswers == {"model.response_received", "model.response_failed"}
ToolAnswers  == {"tool.completed", "tool.failed"}
TurnEvents   == TSM!RequestEvents \cup {"agent.completed", "agent.failed"}
Produced     == TurnEvents \cup ModelAnswers \cup ToolAnswers
Turns        == {"agent.start", "agent.resume"}

GoodEvent(types) ==
  { e \in TSM!Event : e.wellFormed /\ e.type \in types /\ (e.type \in TSM!RequestEvents => e.ref # NoRef) }

Snapshot == [saved : BOOLEAN, pendingModel : Refs \cup {NoRef}, stepIndex : Nat]
Entry    == [task : Tasks, event : GoodEvent(Produced)]
              \cup [task : Tasks, outcome : Announcements]

AdvanceCall(types) == [pc : {"advance"}, task : Tasks, event : GoodEvent(types)]
DispatchCall == [pc : {"dispatch"}, task : Tasks, on : TSM!EventTypes, effect : TSM!Effect, done : BOOLEAN]

EffectRecord ==
  [id : Nat, pc : {"run", "loaded", "answer"}, task : Tasks, type : TSM!EffectTypes,
   ref : Refs \cup {NoRef}, on : TSM!EventTypes, own : Snapshot,
   event : GoodEvent(Produced) \cup {TSM!NoEvent}, done : BOOLEAN]

Sensible(g) ==
  /\ g.pc = "loaded" => g.type = "agent.resume"
  /\ g.pc = "answer" /\ g.type \notin Announcements
       => g.type \in Carrying /\ g.event \in GoodEvent(Produced)
  /\ g.pc # "answer" \/ g.type \in Announcements => g.event = TSM!NoEvent

Steps ==
  {Idle} \cup [pc : {"start"}, restore : Tasks \cup {NoTask}]
         \cup [pc : {"decide"}, state : TSM!TaskState]
         \cup [pc : {"publishing"}, answers : BOOLEAN, restore : Tasks \cup {NoTask}]

Types ==
  /\ snap \in [Tasks -> Snapshot]
  /\ queue \in Seq(Entry)
  /\ calls \in [Callers -> {Idle} \cup DispatchCall
                              \cup AdvanceCall(Produced \cup {"task.start_requested", "user_input.received"})]
  /\ effects \subseteq EffectRecord /\ IsFiniteSet(effects)
  /\ seq \in 0 .. MaxTasks /\ current \in owned \cup {NoTask} /\ owned \subseteq 1 .. seq
  /\ session \in Steps /\ typed \in Nat
  /\ outcomes \in [Tasks -> Nat] /\ question \in [Tasks -> Refs \cup {NoRef}]
  /\ dropped \subseteq Tasks /\ refused \subseteq Tasks
  /\ guided \in [Tasks -> Nat]

(* Effects are told apart by their numbers, and produce what their type says. *)
Numbered ==
  /\ \A g, h \in effects : g.id = h.id => g = h
  /\ \A g \in effects : Sensible(g)

(* Only the session's tasks have anything under way, or a state of their own. *)
Owned ==
  /\ \A q \in ToSet(queue) : q.task \in owned
  /\ \A c \in Callers : calls[c].pc # "idle" => calls[c].task \in owned
  /\ \A g \in effects : g.task \in owned
  /\ \A t \in Tasks \ owned : st[t].phase = "Created" /\ outcomes[t] = 0 /\ t \notin refused
  /\ \A t \in Tasks : st[t].phase # "Created" => st[t].saved

(* Where HandlePlainInput is, and where its own call is *)
Handling ==
  /\ session.pc = "publishing" <=> calls["session"].pc # "idle"
  /\ session.pc = "publishing" => calls["session"].task = current
  /\ session.pc = "start" => current = NoTask
  /\ session.pc \in {"start", "publishing"} => session.restore \in owned \cup {NoTask}
  /\ session.pc = "decide" => current # NoTask /\ session.state.phase # "Created"
  /\ calls["session"].pc = "advance" =>
       /\ calls["session"].event.type \in {"task.start_requested", "user_input.received"}
       /\ session.answers => calls["session"].event.type = "user_input.received"
  /\ calls["worker"].pc = "advance" => calls["worker"].event.type \in Produced

(* A task of the session's that nothing was handled for is being started. *)
Starts(t) == /\ calls["session"].pc = "advance" /\ calls["session"].task = t
             /\ calls["session"].event.type = "task.start_requested"
Started == \A t \in owned : st[t].phase = "Created" <=> Starts(t)

(* No event is handled twice. *)
QueuedEvent(q, t) == q.task = t /\ ~IsOutcome(q)
CalledEvent(c, t) == calls[c].pc = "advance" /\ calls[c].task = t
EffectEvent(g, t) == g.task = t /\ g.event # TSM!NoEvent
DistinctIds(t) ==
  /\ \A i, j \in DOMAIN queue :
       QueuedEvent(queue[i], t) /\ QueuedEvent(queue[j], t) /\ queue[i].event.id = queue[j].event.id
         => i = j
  /\ \A q \in ToSet(queue) : QueuedEvent(q, t) =>
       /\ q.event.id # st[t].lastEventID
       /\ \A c \in Callers : CalledEvent(c, t) => calls[c].event.id # q.event.id
       /\ \A g \in effects : EffectEvent(g, t) => g.event.id # q.event.id
  /\ \A c \in Callers : CalledEvent(c, t) =>
       /\ calls[c].event.id # st[t].lastEventID
       /\ \A d \in Callers : CalledEvent(d, t) /\ calls[d].event.id = calls[c].event.id => c = d
       /\ \A g \in effects : EffectEvent(g, t) => g.event.id # calls[c].event.id
  /\ \A g \in effects : EffectEvent(g, t) =>
       /\ g.event.id # st[t].lastEventID
       /\ \A h \in effects : EffectEvent(h, t) /\ h.event.id = g.event.id => g = h

(* No more is under way than the user started, and one outcome is announced. *)
Bounded(t) ==
  /\ Carriers(t) <= guided[t] + (IF AsksUser(t) \/ Over(t) THEN 0 ELSE 1)
  /\ outcomes[t] + Announcing(t) <= IF Over(t) THEN 1 ELSE 0
  /\ Over(t) /\ t \notin dropped => outcomes[t] + Announcing(t) = 1

(* The events on their way to a task, and the effects that will produce one *)
Coming(t) == { e \in EventsOf(t) : e.type \notin {"none", "user_input.received"} }
Work(type, ref, on) == [type |-> type, ref |-> ref, on |-> on]
Doing(t) ==
  { Work(calls[c].effect.type, calls[c].effect.ref, calls[c].on) : c \in Starting(t, Carrying) }
    \cup { Work(g.type, g.ref, g.on) :
             g \in { h \in effects : h.task = t /\ h.type \in Carrying /\ h.pc # "answer" } }

(* What a task in state s waits for *)
EventFits(s, e) ==
  \/ s.phase = "Created" /\ e.type = "task.start_requested"
  \/ s.phase = "Running" /\ e.type \in TurnEvents
  \/ s.phase = "WaitingModel" /\ e.type \in ModelAnswers /\ e.ref = s.pendingModel
  \/ s.phase = "WaitingTool" /\ e.type \in ToolAnswers /\ e.ref = s.pendingTool
WorkFits(s, x) ==
  \/ s.phase = "Running" /\ x.type \in Turns
  \/ s.phase = "WaitingModel" /\ x.type = "model.call" /\ x.ref = s.pendingModel
  \/ s.phase = "WaitingTool" /\ x.type = "tool.dispatch" /\ x.ref = s.pendingTool
  \/ s.phase = "WaitingSubAgent" /\ x.type = "sub_agent.dispatch"

Attended(t) == \/ \E e \in Coming(t) : EventFits(st[t], e)
               \/ \E x \in Doing(t) : WorkFits(st[t], x)

(* Of a task the user never guided: all that is under way is what its state and the
   snapshot of its agent wait for. *)
EventKnown(s, n, e) ==
  /\ EventFits(s, e)
  /\ e.type # "task.start_requested" => n.saved
  /\ e.type \in {"agent.model_requested"} \cup ModelAnswers => e.ref = n.pendingModel
WorkKnown(s, n, x) ==
  /\ WorkFits(s, x)
  /\ x.type # "agent.start" => n.saved
  /\ x.type = "model.call" \/ (x.type = "agent.resume" /\ x.on \in ModelAnswers)
       => x.ref = n.pendingModel
Known(t) ==
  /\ t \notin refused
  /\ st[t].phase \in TSM!WaitingPhases => snap[t].saved
  /\ \A e \in Coming(t) : EventKnown(st[t], snap[t], e)
  /\ \A x \in Doing(t) : WorkKnown(st[t], snap[t], x)
  /\ \A g \in effects : g.task = t /\ g.pc = "loaded" => g.own = snap[t]

(* The question the task asks, or is about to ask, is on the screen ... *)
Shown(t) ==
  /\ AsksUser(t) => question[t] = st[t].pendingUserInput
  /\ \A c \in Callers : CalledEvent(c, t) /\ calls[c].event.type = "agent.user_input_requested"
       => question[t] = calls[c].event.ref

(* ... and what the session is about to answer, and answers, is this question. *)
Answering(t) ==
  /\ session.pc = "decide" /\ current = t /\ session.state.phase = "WaitingUserInput" =>
       AsksUser(t) /\ st[t].pendingUserInput = session.state.pendingUserInput
  /\ CalledEvent("session", t) /\ session.answers =>
       AsksUser(t) /\ st[t].pendingUserInput = calls["session"].event.ref

IInv ==
  /\ P!IInv
  /\ Types /\ Numbered /\ Owned /\ Handling /\ Started
  /\ \A t \in owned :
       /\ DistinctIds(t) /\ Bounded(t)
       /\ ~Over(t) /\ ~AsksUser(t) /\ t \notin dropped \cup refused => Attended(t)
       /\ guided[t] = 0 => Known(t) /\ Shown(t) /\ Answering(t)
-----------------------------------------------------------------------------
(* Counting *)

One(b) == IF b THEN 1 ELSE 0

Kind(q) == IF IsOutcome(q) THEN "outcome" ELSE "event"

Waiting(f, t, kind)   == { i \in DOMAIN f : f[i].task = t /\ Kind(f[i]) = kind }
OfTask(E, t, types)   == { g \in E : g.task = t /\ g.type \in types }
CarryingCalls(t)      == Advancing(t) \cup Starting(t, Carrying)

(* The entries of a task in a queue are finitely many. *)
LEMMA WaitingFinite ==
  ASSUME NEW S, NEW f \in Seq(S), NEW t, NEW kind
  PROVE  /\ Waiting(f, t, kind) \subseteq 1 .. Len(f)
         /\ IsFiniteSet(Waiting(f, t, kind))
         /\ Cardinality(Waiting(f, t, kind)) \in Nat
<1>1. DOMAIN f = 1 .. Len(f) /\ Len(f) \in Nat
  BY LenProperties
<1>2. Waiting(f, t, kind) \in SUBSET (1 .. Len(f))
  BY <1>1 DEF Waiting
<1>3. IsFiniteSet(1 .. Len(f))
  BY <1>1, FS_Interval
<1>4. IsFiniteSet(Waiting(f, t, kind))
  BY <1>2, <1>3, FS_Subset
<1> QED BY <1>2, <1>4, FS_CardinalityType

(* An entry at the end of the queue is one more of its task. *)
LEMMA WaitingAppend ==
  ASSUME NEW S, NEW f \in Seq(S), NEW x \in S, NEW t, NEW kind
  PROVE  Cardinality(Waiting(Append(f, x), t, kind)) =
           Cardinality(Waiting(f, t, kind)) + One(x.task = t /\ Kind(x) = kind)
<1> DEFINE n == Len(f) + 1
           longer == Append(f, x)
           counts == x.task = t /\ Kind(x) = kind
<1>1. /\ DOMAIN f = 1 .. Len(f) /\ Len(f) \in Nat
      /\ DOMAIN longer = 1 .. n
      /\ \A i \in 1 .. Len(f) : longer[i] = f[i]
      /\ longer[n] = x
  BY AppendProperties, LenProperties
<1> HIDE DEF longer
<1>2. CASE counts
  <2>1. Waiting(longer, t, kind) = Waiting(f, t, kind) \cup {n}
    BY <1>1, <1>2 DEF Waiting
  <2>2. n \notin Waiting(f, t, kind)
    BY <1>1 DEF Waiting
  <2>3. Cardinality(Waiting(f, t, kind) \cup {n}) = Cardinality(Waiting(f, t, kind)) + 1
    BY <2>2, WaitingFinite, FS_AddElement
  <2> QED BY <1>2, <2>1, <2>3 DEF One, longer
<1>3. CASE ~counts
  <2>1. Waiting(longer, t, kind) = Waiting(f, t, kind)
    BY <1>1, <1>3 DEF Waiting
  <2>2. Cardinality(Waiting(f, t, kind)) \in Nat
    BY WaitingFinite
  <2> QED BY <1>3, <2>1, <2>2 DEF One, longer
<1> QED BY <1>2, <1>3

(* The tail of a queue has its entries one place further to the front. *)
LEMMA TailEntries ==
  ASSUME NEW S, NEW f \in Seq(S), f # <<>>
  PROVE  /\ Tail(f) \in Seq(S) /\ Head(f) \in S /\ Head(f) = f[1]
         /\ Len(f) \in Nat /\ Len(f) >= 1 /\ DOMAIN f = 1 .. Len(f)
         /\ DOMAIN Tail(f) = 1 .. Len(f) - 1
         /\ \A i \in 1 .. Len(f) - 1 : Tail(f)[i] = f[i + 1]
         /\ ToSet(f) = ToSet(Tail(f)) \cup {Head(f)}
<1>1. /\ Tail(f) \in Seq(S) /\ Len(Tail(f)) = Len(f) - 1
      /\ \A i \in 1 .. Len(Tail(f)) : Tail(f)[i] = f[i + 1]
      /\ Head(f) \in S /\ Head(f) = f[1]
  BY HeadTailProperties
<1>2. Len(f) \in Nat /\ DOMAIN f = 1 .. Len(f) /\ DOMAIN Tail(f) = 1 .. Len(Tail(f))
  BY <1>1, LenProperties
<1>3. Len(f) >= 1
  BY <1>2, EmptySeq
<1>4. ToSet(f) = ToSet(Tail(f)) \cup {Head(f)}
  <2>1. ASSUME NEW i \in DOMAIN f PROVE f[i] \in ToSet(Tail(f)) \cup {Head(f)}
    <3>1. CASE i = 1
      BY <1>1, <3>1
    <3>2. CASE i # 1
      <4>1. i - 1 \in DOMAIN Tail(f) /\ Tail(f)[i - 1] = f[i]
        BY <1>1, <1>2, <3>2
      <4> QED BY <4>1 DEF ToSet
    <3> QED BY <3>1, <3>2
  <2>2. ASSUME NEW i \in DOMAIN Tail(f) PROVE Tail(f)[i] \in ToSet(f)
    <3>1. i + 1 \in DOMAIN f /\ Tail(f)[i] = f[i + 1]
      BY <1>1, <1>2
    <3> QED BY <3>1 DEF ToSet
  <2>3. Head(f) \in ToSet(f)
    BY <1>1, <1>2, <1>3 DEF ToSet
  <2> QED BY <2>1, <2>2, <2>3 DEF ToSet
<1> QED BY <1>1, <1>2, <1>3, <1>4

(* The first entry of the queue taken is one less of its task. *)
LEMMA WaitingTail ==
  ASSUME NEW S, NEW f \in Seq(S), f # <<>>, NEW t, NEW kind
  PROVE  Cardinality(Waiting(f, t, kind)) =
           Cardinality(Waiting(Tail(f), t, kind))
             + One(Head(f).task = t /\ Kind(Head(f)) = kind)
<1>0. PICK n : n = Len(f)
  OBVIOUS
<1>00. PICK shorter : shorter = Tail(f)
  OBVIOUS
<1> DEFINE from == Waiting(shorter, t, kind)
           to == Waiting(f, t, kind) \ {1}
           h == [i \in from |-> i + 1]
<1>1. /\ shorter \in Seq(S) /\ n \in Nat /\ n >= 1 /\ DOMAIN f = 1 .. n
      /\ DOMAIN shorter = 1 .. n - 1
      /\ \A i \in 1 .. n - 1 : shorter[i] = f[i + 1]
      /\ Head(f) = f[1]
  BY <1>0, <1>00, TailEntries
<1>2. h \in [from -> to]
  BY <1>1 DEF Waiting
<1>3. \A i, j \in from : h[i] = h[j] => i = j
  BY <1>1 DEF Waiting
<1>4. ASSUME NEW j \in to PROVE \E i \in from : h[i] = j
  <2>1. j \in 1 .. n /\ j # 1 /\ f[j].task = t /\ Kind(f[j]) = kind
    BY <1>1 DEF Waiting
  <2>2. j - 1 \in 1 .. n - 1 /\ (j - 1) + 1 = j
    BY <1>1, <2>1
  <2>3. shorter[j - 1] = f[j]
    BY <1>1, <2>2
  <2>4. j - 1 \in from
    BY <1>1, <2>1, <2>2, <2>3 DEF Waiting
  <2> QED BY <2>2, <2>4
<1>5. ExistsBijection(from, to)
  BY <1>2, <1>3, <1>4
     DEF ExistsBijection, Bijection, Injection, Surjection, IsInjective
<1>6. IsFiniteSet(from) /\ Cardinality(from) \in Nat
  BY <1>1, WaitingFinite
<1>7. Cardinality(to) = Cardinality(from)
  BY <1>5, <1>6, FS_Bijection
<1>8. IsFiniteSet(Waiting(f, t, kind)) /\ Cardinality(Waiting(f, t, kind)) \in Nat
  BY WaitingFinite
<1>9. Cardinality(to) = IF 1 \in Waiting(f, t, kind) THEN Cardinality(Waiting(f, t, kind)) - 1
                                                     ELSE Cardinality(Waiting(f, t, kind))
  BY <1>8, FS_RemoveElement
<1>10. 1 \in Waiting(f, t, kind) <=> Head(f).task = t /\ Kind(Head(f)) = kind
  BY <1>1 DEF Waiting
<1> HIDE DEF from, to
<1>11. Cardinality(Waiting(f, t, kind)) =
         Cardinality(from) + One(Head(f).task = t /\ Kind(Head(f)) = kind)
  BY <1>6, <1>7, <1>8, <1>9, <1>10 DEF One
<1> QED BY <1>00, <1>11 DEF from

(* One effect more, and one effect less *)
LEMMA OfTaskAdd ==
  ASSUME NEW E, IsFiniteSet(E), NEW g, g \notin E, NEW t, NEW types
  PROVE  /\ Cardinality(OfTask(E, t, types)) \in Nat
         /\ Cardinality(OfTask(E \cup {g}, t, types)) =
              Cardinality(OfTask(E, t, types)) + One(g.task = t /\ g.type \in types)
<1>1. IsFiniteSet(OfTask(E, t, types)) /\ Cardinality(OfTask(E, t, types)) \in Nat
  <2>1. OfTask(E, t, types) \in SUBSET E
    BY DEF OfTask
  <2> QED BY <2>1, FS_Subset, FS_CardinalityType
<1>2. CASE g.task = t /\ g.type \in types
  <2>1. OfTask(E \cup {g}, t, types) = OfTask(E, t, types) \cup {g} /\ g \notin OfTask(E, t, types)
    BY <1>2 DEF OfTask
  <2>2. Cardinality(OfTask(E, t, types) \cup {g}) = Cardinality(OfTask(E, t, types)) + 1
    BY <1>1, <2>1, FS_AddElement
  <2> QED BY <1>1, <1>2, <2>1, <2>2 DEF One
<1>3. CASE ~(g.task = t /\ g.type \in types)
  <2>1. OfTask(E \cup {g}, t, types) = OfTask(E, t, types)
    BY <1>3 DEF OfTask
  <2> QED BY <1>1, <1>3, <2>1 DEF One
<1> QED BY <1>1, <1>2, <1>3

(* A set of callers has as many members as it has of the two. *)
LEMMA TwoCallers ==
  ASSUME NEW X \in SUBSET Callers
  PROVE  Cardinality(X) = One("session" \in X) + One("worker" \in X)
<1>1. Cardinality({}) = 0 /\ IsFiniteSet({})
  BY FS_EmptySet
<1>2. \A c : Cardinality({c}) = 1 /\ IsFiniteSet({c})
  BY FS_Singleton
<1>3. Cardinality({"session", "worker"}) = 2
  <2>1. Cardinality({"session"} \cup {"worker"}) = Cardinality({"session"}) + 1
    BY <1>2, FS_AddElement
  <2>2. {"session"} \cup {"worker"} = {"session", "worker"}
    OBVIOUS
  <2> QED BY <1>2, <2>1, <2>2
<1>4. X = {} \/ X = {"session"} \/ X = {"worker"} \/ X = {"session", "worker"}
  BY DEF Callers
<1>5. CASE X = {}
  BY <1>1, <1>5 DEF One
<1>6. CASE X = {"session"}
  BY <1>2, <1>6 DEF One
<1>7. CASE X = {"worker"}
  <2>1. "session" \notin X /\ "worker" \in X
    BY <1>7
  <2>2. Cardinality(X) = 1
    BY <1>2, <1>7, Zenon
  <2>3. One("session" \in X) = 0 /\ One("worker" \in X) = 1
    BY <2>1 DEF One
  <2> QED BY <2>2, <2>3
<1>8. CASE X = {"session", "worker"}
  BY <1>3, <1>8 DEF One
<1> QED BY <1>4, <1>5, <1>6, <1>7, <1>8

(* Two sets of callers that differ in one of them at most *)
LEMMA CallersDiffer ==
  ASSUME NEW X \in SUBSET Callers, NEW Y \in SUBSET Callers, NEW c \in Callers,
         X \ {c} = Y \ {c}
  PROVE  Cardinality(Y) + One(c \in X) = Cardinality(X) + One(c \in Y)
<1>1. /\ Cardinality(X) = One("session" \in X) + One("worker" \in X)
      /\ Cardinality(Y) = One("session" \in Y) + One("worker" \in Y)
  BY TwoCallers
<1>2. CASE c = "session"
  <2>1. "worker" \in X <=> "worker" \in Y
    BY <1>2
  <2> QED BY <1>1, <1>2, <2>1 DEF One
<1>3. CASE c = "worker"
  <2>1. "session" \in X <=> "session" \in Y
    BY <1>3
  <2> QED BY <1>1, <1>3, <2>1 DEF One
<1> QED BY <1>2, <1>3 DEF Callers

-----------------------------------------------------------------------------
(* The state machine: P is TSM with what TaskStateMachineProofs proves of it. *)

(* The assumptions of TaskStateMachine hold for the session's. *)
LEMMA Names == P!NamesAssumption /\ P!BudgetAssumption
BY SessionAssumption DEF Tasks, P!NamesAssumption, P!BudgetAssumption

(* The types of the two instances are the same sets. *)
LEMMA SameTypes ==
  /\ TSM!Event = P!Event /\ TSM!EventTypes = P!EventTypes
  /\ TSM!EffectTypes = P!EffectTypes /\ TSM!NoEffect = P!NoEffect
  /\ TSM!RequestEvents = P!RequestEvents /\ TSM!WaitingPhases = P!WaitingPhases
  /\ TSM!TaskState = P!TaskState /\ TSM!Effect = P!Effect
BY Zenon DEF TSM!TaskState, P!TaskState, TSM!Phases, P!Phases, TSM!TerminalPhases, P!TerminalPhases,
       TSM!AgentPhases, P!AgentPhases, TSM!CodePhases, P!CodePhases,
       TSM!AgentPhaseUnknown, P!AgentPhaseUnknown, TSM!Effect, P!Effect,
       TSM!Event, P!Event, TSM!AnyEvent, P!AnyEvent, TSM!EventTypes, P!EventTypes,
       TSM!HandledEvents, P!HandledEvents, TSM!CreationEvents, P!CreationEvents,
       TSM!RequestEvents, P!RequestEvents, TSM!AnswerEvents, P!AnswerEvents,
       TSM!FlowEvents, P!FlowEvents, TSM!UndecodedEvents, P!UndecodedEvents,
       TSM!EffectTypes, P!EffectTypes, TSM!NoEffect, P!NoEffect,
       TSM!WaitingPhases, P!WaitingPhases

(* The machine starts in its invariant. *)
LEMMA MachineInit == TSM!Init => P!IInv
<1>1. TSM!Init => P!Init
  BY DEF TSM!Init, P!Init, TSM!NewTaskState, P!NewTaskState, TSM!NoEvent, P!NoEvent,
         TSM!NoEffect, P!NoEffect, TSM!AgentPhaseUnknown, P!AgentPhaseUnknown
<1> QED BY <1>1, Names, P!InitGood

(* What the reactor is given is handled by P's handlers. *)
LEMMA SameHandlers ==
  ASSUME NEW t \in Tasks, NEW e \in TSM!Event, TSM!HandleEvent(t, e)
  PROVE  P!HandleEvent(t, e)
BY Zenon
   DEF TSM!HandleEvent, P!HandleEvent,
       TSM!Deliverable, P!Deliverable, TSM!IsReplay, P!IsReplay,
       TSM!Handles, P!Handles, TSM!Accepts, P!Accepts, TSM!Commit, P!Commit,
       TSM!CreationEvents, P!CreationEvents, TSM!RequestEvents, P!RequestEvents,
       TSM!FlowEvents, P!FlowEvents, TSM!IsTerminal, P!IsTerminal,
       TSM!TerminalPhases, P!TerminalPhases, TSM!WaitingPhases, P!WaitingPhases,
       TSM!MatchesPending, P!MatchesPending, TSM!MatchesUserInput, P!MatchesUserInput,
       TSM!FlowTransitions, P!FlowTransitions, TSM!CodeAgentFlow, P!CodeAgentFlow,
       TSM!CurrentAgentPhase, P!CurrentAgentPhase, TSM!FlowInitial, P!FlowInitial,
       TSM!AgentPhaseUnknown, P!AgentPhaseUnknown,
       TSM!ApplyCreationPayload, P!ApplyCreationPayload, TSM!ClearPendings, P!ClearPendings,
       TSM!OutOfBudget, P!OutOfBudget, TSM!CountFailure, P!CountFailure,
       TSM!FailureEffect, P!FailureEffect, TSM!MakeEffect, P!MakeEffect,
       TSM!NoEffect, P!NoEffect, TSM!EffectIf, P!EffectIf,
       TSM!ReplayedFailure, P!ReplayedFailure, TSM!ReplayedEffect, P!ReplayedEffect,
       TSM!HandleTaskCreated, P!HandleTaskCreated,
       TSM!HandleTaskStartRequested, P!HandleTaskStartRequested,
       TSM!HandleTaskCancelRequested, P!HandleTaskCancelRequested,
       TSM!HandleAgentModelRequested, P!HandleAgentModelRequested,
       TSM!HandleModelResponse, P!HandleModelResponse,
       TSM!HandleAgentToolRequested, P!HandleAgentToolRequested,
       TSM!HandleToolCompleted, P!HandleToolCompleted,
       TSM!HandleToolFailed, P!HandleToolFailed,
       TSM!HandleAgentUserInputRequested, P!HandleAgentUserInputRequested,
       TSM!HandleUserInputReceived, P!HandleUserInputReceived,
       TSM!HandleAgentSubAgentRequested, P!HandleAgentSubAgentRequested,
       TSM!HandleSubAgentCompleted, P!HandleSubAgentCompleted,
       TSM!HandleSubAgentFailed, P!HandleSubAgentFailed,
       TSM!HandleAgentCompleted, P!HandleAgentCompleted,
       TSM!HandleAgentFailed, P!HandleAgentFailed,
       TSM!HandleAgentFlow, P!HandleAgentFlow,
       TSM!ReplayEvent, P!ReplayEvent, TSM!RejectEvent, P!RejectEvent

(* An event moves the machine within its invariant. *)
LEMMA MachineStep ==
  ASSUME P!IInv, NEW t \in Tasks, NEW e \in TSM!Event, TSM!HandleEvent(t, e)
  PROVE  P!IInv'
<1>1. P!HandleEvent(t, e) /\ e \in P!Event
  BY SameHandlers, SameTypes
<1>2. P!Next
  BY <1>1 DEF P!Next
<1> QED BY <1>2, Names, P!StepGood

(* An event that is not the last one again is rejected, or accepted and handled. *)
LEMMA MachineCases ==
  ASSUME NEW t \in Tasks, NEW e \in TSM!Event, TSM!HandleEvent(t, e),
         st[t].lastEventID # e.id
  PROVE  /\ e \in P!Event
         /\ \/ P!Handler(t, e) /\ P!Accepts(st[t], e)
            \/ P!RejectEvent(t, e) /\ ~P!Accepts(st[t], e)
<1>1. P!HandleEvent(t, e) /\ e \in P!Event
  BY SameHandlers, SameTypes
<1>2. ~P!ReplayEvent(t, e)
  BY DEF P!ReplayEvent, P!IsReplay
<1>3. P!Handler(t, e) \/ P!RejectEvent(t, e)
  BY <1>1, <1>2, Zenon DEF P!HandleEvent, P!Handler
<1>4. P!Handler(t, e) => P!Accepts(st[t], e)
  BY <1>1, Names, P!HandlerChanges
<1> QED BY <1>1, <1>3, <1>4 DEF P!RejectEvent

(* The machine's invariant is about its variables only. *)
LEMMA MachineKept ==
  ASSUME P!IInv, UNCHANGED machine
  PROVE  P!IInv'
<1>1. UNCHANGED P!vars
  BY DEF machine, P!vars
<1> QED BY <1>1, Names, P!StepGood

(* An event a task waits for is accepted. *)
LEMMA FittingIsAccepted ==
  ASSUME NEW s, P!PendingOK(s), s.phase # "Created" => s.saved,
         NEW e \in GoodEvent(TSM!EventTypes), EventFits(s, e)
  PROVE  P!Accepts(s, e)
<1>1. e.wellFormed /\ (e.type \in TSM!RequestEvents => e.ref # NoRef)
  BY DEF GoodEvent
<1> QED BY <1>1
  DEF EventFits, P!Accepts, P!PendingOK, P!MatchesPending, P!CreationEvents, P!RequestEvents,
      TSM!RequestEvents, P!FlowEvents, TurnEvents, ModelAnswers, ToolAnswers

(* What an event that is new to its task does. *)
LEMMA HandledEvent ==
  ASSUME P!IInv, NEW t \in Tasks, NEW e \in TSM!Event, TSM!HandleEvent(t, e),
         st[t].lastEventID # e.id
  PROVE  /\ P!IInv'
         /\ \A u \in Tasks : u # t => st'[u] = st[u]
         /\ \/ /\ ~P!Accepts(st[t], e) /\ st' = st
               /\ out'.effect = TSM!NoEffect /\ out'.verdict = "rejected"
            \/ /\ P!Accepts(st[t], e)
               /\ st'[t].saved /\ st'[t].lastEventID = e.id
               /\ out'.verdict = "handled"
               /\ out'.effect \in TSM!Effect \cup {TSM!NoEffect}
               /\ P!OutcomeOK(e, st'[t], out'.effect)
               /\ P!EffectOK(st'[t], out'.effect)
               /\ st'[t].phase \in P!Phases
<1>1. P!IInv'
  BY MachineStep
<1>2. CASE P!RejectEvent(t, e) /\ ~P!Accepts(st[t], e)
  BY <1>1, <1>2, SameTypes DEF P!RejectEvent
<1>3. CASE P!Handler(t, e) /\ P!Accepts(st[t], e)
  <2>1. /\ \A u \in Tasks : u # t => st'[u] = st[u]
        /\ st'[t].saved /\ st'[t].lastEventID = e.id
        /\ out'.verdict = "handled" /\ out'.effect = handled'[t].effect
        /\ P!OutcomeOK(e, st'[t], out'.effect)
    BY <1>3, SameTypes, Names, P!HandlerOutcome
  <2>2. P!EffectOK(st'[t], handled'[t].effect)
        /\ st'[t].phase \in P!Phases /\ handled'[t].effect \in P!Effect \cup {P!NoEffect}
    BY <1>1 DEF P!IInv, P!Good, P!TaskState, P!History
  <2> QED BY <1>1, <1>3, <2>1, <2>2, SameTypes
<1> QED BY <1>2, <1>3, MachineCases

(* An accepted event was waited for in its phase; the effect it has is what the new state
   waits for, or asks the user, or announces the outcome. *)
SessionEvents == Produced \cup {"task.start_requested", "user_input.received"}
(* An accepted event was one the task waited for, and leaves an effect that fits the state. *)
LEMMA AcceptedFits ==
  ASSUME NEW o, NEW s, NEW e, e.type \in SessionEvents, NEW x,
         P!Accepts(o, e), P!OutcomeOK(e, s, x), P!EffectOK(s, x), s.phase \in P!Phases
  PROVE  /\ ~TSM!IsTerminal(o)
         /\ e.type = "task.start_requested" => o.phase = "Created"
         /\ e.type = "user_input.received" => o.phase \in {"Running", "WaitingUserInput"}
         /\ s.phase # "Created"
         /\ x # TSM!NoEffect
         /\ \/ TSM!IsTerminal(s) /\ x.type \in Announcements
            \/ s.phase = "WaitingUserInput" /\ x.type = "user_input.request"
            \/ /\ ~TSM!IsTerminal(s) /\ s.phase # "WaitingUserInput"
               /\ x.type \in Carrying /\ WorkFits(s, Work(x.type, x.ref, e.type))
<1>1. e.type # "task.created"
  BY DEF SessionEvents, Produced, TurnEvents, ModelAnswers, ToolAnswers, TSM!RequestEvents
<1>2. /\ ~TSM!IsTerminal(o)
      /\ e.type = "task.start_requested" => o.phase = "Created"
      /\ e.type = "user_input.received" => o.phase \in {"Running", "WaitingUserInput"}
  BY <1>1 DEF P!Accepts, TSM!IsTerminal, TSM!TerminalPhases, P!IsTerminal, P!TerminalPhases,
              P!RequestEvents, P!FlowEvents, P!WaitingPhases
<1>3. s.phase # "Created"
  BY <1>1 DEF P!OutcomeOK
<1>4. Work(x.type, x.ref, e.type).type = x.type /\ Work(x.type, x.ref, e.type).ref = x.ref
  BY DEF Work
<1> USE <1>2, <1>3, <1>4 DEF TSM!IsTerminal, TSM!TerminalPhases, Announcements, Carrying, TSM!EffectTypes,
        P!EffectOK, P!MakeEffect, TSM!NoEffect, WorkFits, Turns
<1>5. CASE s.phase = "Running"
  BY <1>5
<1>6. CASE s.phase \in {"WaitingModel", "WaitingTool", "WaitingSubAgent"}
  BY <1>6
<1>7. CASE s.phase \in {"WaitingUserInput", "Completed", "Failed", "Cancelled"}
  BY <1>7
<1> QED BY <1>5, <1>6, <1>7 DEF P!Phases, P!WaitingPhases, P!TerminalPhases

-----------------------------------------------------------------------------
(* What is under way *)

(* The entries of the queue that are a task's events, and its outcomes *)
Messages(t) == Queued(t, FALSE)
Results(t)  == Queued(t, TRUE)

(* Sums of numbers are numbers. *)
LEMMA ThreeNumbers == \A a, b, c \in Nat : a + b + c \in Nat
OBVIOUS

(* Everything that is counted is a number. *)
LEMMA Counts ==
  Types => \A t :
    /\ Messages(t) \in Nat /\ Results(t) \in Nat
    /\ Effects(t, Carrying) \in Nat /\ Effects(t, Announcements) \in Nat
    /\ Cardinality(CarryingCalls(t)) = One("session" \in CarryingCalls(t)) + One("worker" \in CarryingCalls(t))
    /\ Cardinality(Starting(t, Announcements)) =
         One("session" \in Starting(t, Announcements)) + One("worker" \in Starting(t, Announcements))
    /\ Cardinality(CarryingCalls(t)) \in Nat /\ Cardinality(Starting(t, Announcements)) \in Nat
    /\ Carriers(t) = Messages(t) + Effects(t, Carrying) + Cardinality(CarryingCalls(t))
    /\ Announcing(t) = Results(t) + Effects(t, Announcements) + Cardinality(Starting(t, Announcements))
    /\ Carriers(t) \in Nat /\ Announcing(t) \in Nat
<1> SUFFICES ASSUME Types, NEW t
             PROVE  /\ Messages(t) \in Nat /\ Results(t) \in Nat
                    /\ Effects(t, Carrying) \in Nat /\ Effects(t, Announcements) \in Nat
                    /\ Cardinality(CarryingCalls(t)) =
                         One("session" \in CarryingCalls(t)) + One("worker" \in CarryingCalls(t))
                    /\ Cardinality(Starting(t, Announcements)) =
                         One("session" \in Starting(t, Announcements))
                           + One("worker" \in Starting(t, Announcements))
                    /\ Cardinality(CarryingCalls(t)) \in Nat
                    /\ Cardinality(Starting(t, Announcements)) \in Nat
                    /\ Carriers(t) =
                         Messages(t) + Effects(t, Carrying) + Cardinality(CarryingCalls(t))
                    /\ Announcing(t) = Results(t) + Effects(t, Announcements) + Cardinality(Starting(t, Announcements))
    /\ Carriers(t) \in Nat /\ Announcing(t) \in Nat
  OBVIOUS
<1>1. Messages(t) \in Nat /\ Results(t) \in Nat
  <2>1. ASSUME NEW kind PROVE Cardinality(Waiting(queue, t, kind)) \in Nat
    BY WaitingFinite DEF Types
  <2>2. /\ Results(t) = Cardinality(Waiting(queue, t, "outcome"))
        /\ Messages(t) = Cardinality(Waiting(queue, t, "event"))
    BY DEF Queued, Waiting, Kind, Messages, Results
  <2> QED BY <2>1, <2>2
<1>2. ASSUME NEW types PROVE Effects(t, types) \in Nat
  <2>1. { g \in effects : g.task = t /\ g.type \in types } \in SUBSET effects
    OBVIOUS
  <2> QED BY <2>1, FS_Subset, FS_CardinalityType DEF Effects, Types
<1>3. /\ CarryingCalls(t) \in SUBSET Callers /\ Starting(t, Announcements) \in SUBSET Callers
      /\ \A b : One(b) \in Nat
  BY DEF CarryingCalls, Advancing, Starting, One
<1>4. Carriers(t) = Messages(t) + Effects(t, Carrying) + Cardinality(CarryingCalls(t))
  BY Zenon DEF Carriers, CarryingCalls, Messages
<1>5. /\ Cardinality(CarryingCalls(t)) =
           One("session" \in CarryingCalls(t)) + One("worker" \in CarryingCalls(t))
      /\ Cardinality(Starting(t, Announcements)) =
           One("session" \in Starting(t, Announcements)) + One("worker" \in Starting(t, Announcements))
  BY <1>3, TwoCallers
<1>6. Cardinality(CarryingCalls(t)) \in Nat /\ Cardinality(Starting(t, Announcements)) \in Nat
  BY <1>3, <1>5
<1>7. Announcing(t) = Results(t) + Effects(t, Announcements) + Cardinality(Starting(t, Announcements))
  BY Zenon DEF Announcing, Results
<1>8. Carriers(t) \in Nat /\ Announcing(t) \in Nat
  <2>1. Effects(t, Carrying) \in Nat /\ Effects(t, Announcements) \in Nat
    BY <1>2, Zenon
  <2> QED BY <1>1, <1>4, <1>6, <1>7, <2>1, ThreeNumbers, Zenon
<1> QED BY <1>1, <1>2, <1>4, <1>5, <1>6, <1>7, <1>8

(* The same of the next state *)
LEMMA CountsNext ==
  (Types => \A t :
    /\ Messages(t) \in Nat /\ Results(t) \in Nat
    /\ Effects(t, Carrying) \in Nat /\ Effects(t, Announcements) \in Nat
    /\ Cardinality(CarryingCalls(t)) = One("session" \in CarryingCalls(t)) + One("worker" \in CarryingCalls(t))
    /\ Cardinality(Starting(t, Announcements)) =
         One("session" \in Starting(t, Announcements)) + One("worker" \in Starting(t, Announcements))
    /\ Cardinality(CarryingCalls(t)) \in Nat /\ Cardinality(Starting(t, Announcements)) \in Nat
    /\ Carriers(t) = Messages(t) + Effects(t, Carrying) + Cardinality(CarryingCalls(t))
    /\ Announcing(t) = Results(t) + Effects(t, Announcements) + Cardinality(Starting(t, Announcements))
    /\ Carriers(t) \in Nat /\ Announcing(t) \in Nat)'
BY Counts, PTL

(* Steps of the queue, of the effects and of the calls *)
LEMMA QueueGrows ==
  ASSUME queue \in Seq(Entry), NEW x \in Entry, queue' = Append(queue, x), NEW t
  PROVE  /\ Messages(t)' = Messages(t) + One(x.task = t /\ ~IsOutcome(x))
         /\ Results(t)' = Results(t) + One(x.task = t /\ IsOutcome(x))
<1>1. /\ Messages(t)' = Cardinality(Waiting(Append(queue, x), t, "event"))
      /\ Results(t)' = Cardinality(Waiting(Append(queue, x), t, "outcome"))
  BY DEF Queued, Waiting, Kind, Messages, Results
<1>2. /\ Messages(t) = Cardinality(Waiting(queue, t, "event"))
      /\ Results(t) = Cardinality(Waiting(queue, t, "outcome"))
  BY DEF Queued, Waiting, Kind, Messages, Results
<1>3. /\ Cardinality(Waiting(Append(queue, x), t, "event")) =
           Cardinality(Waiting(queue, t, "event")) + One(x.task = t /\ Kind(x) = "event")
      /\ Cardinality(Waiting(Append(queue, x), t, "outcome")) =
           Cardinality(Waiting(queue, t, "outcome")) + One(x.task = t /\ Kind(x) = "outcome")
  BY WaitingAppend DEF One
<1> QED BY <1>1, <1>2, <1>3 DEF One, Kind

(* The first entry of the queue is one message or one result less. *)
LEMMA QueueShrinks ==
  ASSUME queue \in Seq(Entry), queue # <<>>, queue' = Tail(queue), NEW t, NEW q, q = Head(queue)
  PROVE  /\ Messages(t) = Messages(t)' + One(q.task = t /\ ~IsOutcome(q))
         /\ Results(t) = Results(t)' + One(q.task = t /\ IsOutcome(q))
<1>1. /\ Messages(t)' = Cardinality(Waiting(Tail(queue), t, "event"))
      /\ Results(t)' = Cardinality(Waiting(Tail(queue), t, "outcome"))
  BY DEF Queued, Waiting, Kind, Messages, Results
<1>2. /\ Messages(t) = Cardinality(Waiting(queue, t, "event"))
      /\ Results(t) = Cardinality(Waiting(queue, t, "outcome"))
  BY DEF Queued, Waiting, Kind, Messages, Results
<1>3. /\ Cardinality(Waiting(queue, t, "event")) =
           Cardinality(Waiting(Tail(queue), t, "event")) + One(q.task = t /\ Kind(q) = "event")
      /\ Cardinality(Waiting(queue, t, "outcome")) =
           Cardinality(Waiting(Tail(queue), t, "outcome")) + One(q.task = t /\ Kind(q) = "outcome")
  BY WaitingTail DEF One
<1> QED BY <1>1, <1>2, <1>3 DEF One, Kind

(* One effect more *)
LEMMA EffectsGrow ==
  ASSUME IsFiniteSet(effects), NEW h, h \notin effects, effects' = effects \cup {h}, NEW t, NEW types
  PROVE  Effects(t, types)' = Effects(t, types) + One(h.task = t /\ h.type \in types)
<1>1. Effects(t, types)' = Cardinality(OfTask(effects \cup {h}, t, types))
  BY DEF Effects, OfTask
<1>2. Effects(t, types) = Cardinality(OfTask(effects, t, types))
  BY DEF Effects, OfTask
<1> QED BY <1>1, <1>2, OfTaskAdd DEF One

(* One effect less *)
LEMMA EffectsShrink ==
  ASSUME IsFiniteSet(effects), NEW g \in effects, effects' = effects \ {g}, NEW t, NEW types
  PROVE  Effects(t, types) = Effects(t, types)' + One(g.task = t /\ g.type \in types)
<1>1. IsFiniteSet(effects') /\ g \notin effects' /\ effects = effects' \cup {g}
  BY FS_RemoveElement
<1>2. Effects(t, types) = Cardinality(OfTask(effects' \cup {g}, t, types))
  BY <1>1 DEF Effects, OfTask
<1>3. Effects(t, types)' = Cardinality(OfTask(effects', t, types))
  BY DEF Effects, OfTask
<1>4. Cardinality(OfTask(effects' \cup {g}, t, types)) =
        Cardinality(OfTask(effects', t, types)) + One(g.task = t /\ g.type \in types)
  BY <1>1, OfTaskAdd DEF One
<1> QED BY <1>2, <1>3, <1>4

(* An effect that goes on is counted as before. *)
LEMMA EffectsReplaced ==
  ASSUME IsFiniteSet(effects), NEW g \in effects, NEW h, h \notin effects \ {g},
         h.task = g.task, h.type = g.type, effects' = (effects \ {g}) \cup {h}, NEW t, NEW types
  PROVE  Effects(t, types)' = Effects(t, types)
<1>1. PICK rest : rest = effects \ {g}
  OBVIOUS
<1>2. IsFiniteSet(rest) /\ g \notin rest /\ h \notin rest /\ effects = rest \cup {g}
      /\ effects' = rest \cup {h}
  BY <1>1, FS_RemoveElement
<1>3. Effects(t, types) = Cardinality(OfTask(rest \cup {g}, t, types))
  BY <1>2 DEF Effects, OfTask
<1>4. Effects(t, types)' = Cardinality(OfTask(rest \cup {h}, t, types))
  BY <1>2 DEF Effects, OfTask
<1>5. /\ Cardinality(OfTask(rest \cup {g}, t, types)) =
           Cardinality(OfTask(rest, t, types)) + One(g.task = t /\ g.type \in types)
      /\ Cardinality(OfTask(rest \cup {h}, t, types)) =
           Cardinality(OfTask(rest, t, types)) + One(h.task = t /\ h.type \in types)
  BY <1>2, OfTaskAdd
<1> QED BY <1>3, <1>4, <1>5

(* One caller changes the number of calls under way by its own. *)
LEMMA CallsChange ==
  ASSUME NEW c \in Callers, \A d \in Callers \ {c} : calls'[d] = calls[d], NEW t
  PROVE  /\ Cardinality(CarryingCalls(t)') + One(c \in CarryingCalls(t)) =
              Cardinality(CarryingCalls(t)) + One(c \in CarryingCalls(t)')
         /\ Cardinality(Starting(t, Announcements)') + One(c \in Starting(t, Announcements)) =
              Cardinality(Starting(t, Announcements)) + One(c \in Starting(t, Announcements)')
<1>1. /\ CarryingCalls(t) \in SUBSET Callers /\ CarryingCalls(t)' \in SUBSET Callers
      /\ CarryingCalls(t) \ {c} = CarryingCalls(t)' \ {c}
  BY DEF CarryingCalls, Advancing, Starting
<1>2. /\ Starting(t, Announcements) \in SUBSET Callers /\ Starting(t, Announcements)' \in SUBSET Callers
      /\ Starting(t, Announcements) \ {c} = Starting(t, Announcements)' \ {c}
  BY DEF Starting
<1> QED BY <1>1, <1>2, CallersDiffer

(* A call, an entry and an effect are of their kinds. *)
LEMMA CallKinds ==
  Types => \A c \in Callers :
    \/ calls[c] = Idle /\ calls[c].pc = "idle"
    \/ calls[c].pc = "dispatch" /\ calls[c] \in DispatchCall
    \/ calls[c].pc = "advance" /\ calls[c] \in AdvanceCall(SessionEvents)
<1> SUFFICES ASSUME Types, NEW c \in Callers
             PROVE  \/ calls[c] = Idle /\ calls[c].pc = "idle"
                    \/ calls[c].pc = "dispatch" /\ calls[c] \in DispatchCall
                    \/ calls[c].pc = "advance" /\ calls[c] \in AdvanceCall(SessionEvents)
  OBVIOUS
<1>1. calls[c] \in {Idle} \cup DispatchCall \cup AdvanceCall(SessionEvents)
  BY DEF Types, SessionEvents
<1>2. Idle.pc = "idle"
  BY DEF Idle
<1>3. \A k \in DispatchCall : k.pc = "dispatch"
  BY DEF DispatchCall
<1>4. \A k \in AdvanceCall(SessionEvents) : k.pc = "advance"
  BY DEF AdvanceCall
<1> QED BY <1>1, <1>2, <1>3, <1>4

(* An entry of the queue is an outcome or an event. *)
LEMMA EntryKinds ==
  ASSUME NEW q \in Entry
  PROVE  /\ q.task \in Tasks
         /\ IsOutcome(q) => q \in [task : Tasks, outcome : Announcements]
         /\ ~IsOutcome(q) => q \in [task : Tasks, event : GoodEvent(Produced)]
BY DEF Entry, IsOutcome

(* What PublishAnswer makes is an entry of its kind. *)
LEMMA MadeEntries ==
  /\ \A t \in Tasks, e \in GoodEvent(Produced) :
       TaskEvent(t, e) \in Entry /\ ~IsOutcome(TaskEvent(t, e))
       /\ TaskEvent(t, e).task = t /\ TaskEvent(t, e).event = e
  /\ \A t \in Tasks, type \in Announcements :
       Outcome(t, type) \in Entry /\ IsOutcome(Outcome(t, type)) /\ Outcome(t, type).task = t
BY DEF Entry, IsOutcome, TaskEvent, Outcome

-----------------------------------------------------------------------------
(* Steps and what they leave alone *)

(* What leaves and enters the queue, the effects and the calls, leaves and enters the total. *)
LEMMA Tally ==
  ASSUME Types, Types', NEW t, NEW qo \in Nat, NEW qi \in Nat, NEW eo \in Nat, NEW ei \in Nat,
         NEW co \in Nat, NEW ci \in Nat,
         Messages(t)' + qo = Messages(t) + qi,
         Effects(t, Carrying)' + eo = Effects(t, Carrying) + ei,
         Cardinality(CarryingCalls(t)') + co = Cardinality(CarryingCalls(t)) + ci
  PROVE  Carriers(t)' + (qo + eo + co) = Carriers(t) + (qi + ei + ci)
<1>1. /\ Messages(t) \in Nat /\ Effects(t, Carrying) \in Nat
      /\ Cardinality(CarryingCalls(t)) \in Nat
      /\ Carriers(t) = Messages(t) + Effects(t, Carrying) + Cardinality(CarryingCalls(t))
  BY Counts, Zenon
<1>2. /\ Messages(t)' \in Nat /\ Effects(t, Carrying)' \in Nat
      /\ Cardinality(CarryingCalls(t)') \in Nat
      /\ Carriers(t)' = Messages(t)' + Effects(t, Carrying)' + Cardinality(CarryingCalls(t)')
  BY CountsNext, Zenon
<1>3. PICK a, b, c, n : /\ a = Messages(t) /\ b = Effects(t, Carrying)
                       /\ c = Cardinality(CarryingCalls(t)) /\ n = Carriers(t)
  OBVIOUS
<1>4. PICK a1, b1, c1, n1 :
        /\ a1 = Messages(t)' /\ b1 = Effects(t, Carrying)'
        /\ c1 = Cardinality(CarryingCalls(t)') /\ n1 = Carriers(t)'
  OBVIOUS
<1>5. a \in Nat /\ b \in Nat /\ c \in Nat /\ n = a + b + c
  BY <1>1, <1>3
<1>6. a1 \in Nat /\ b1 \in Nat /\ c1 \in Nat /\ n1 = a1 + b1 + c1
  BY <1>2, <1>4
<1>7. a1 + qo = a + qi /\ b1 + eo = b + ei /\ c1 + co = c + ci
  BY <1>3, <1>4
<1>8. n1 + (qo + eo + co) = n + (qi + ei + ci)
  BY <1>5, <1>6, <1>7
<1> QED BY <1>3, <1>4, <1>8

(* The same of the outcomes that are announced *)
LEMMA TallyOutcomes ==
  ASSUME Types, Types', NEW t, NEW qo \in Nat, NEW qi \in Nat, NEW eo \in Nat, NEW ei \in Nat,
         NEW co \in Nat, NEW ci \in Nat,
         Results(t)' + qo = Results(t) + qi,
         Effects(t, Announcements)' + eo = Effects(t, Announcements) + ei,
         Cardinality(Starting(t, Announcements)') + co = Cardinality(Starting(t, Announcements)) + ci
  PROVE  Announcing(t)' + (qo + eo + co) = Announcing(t) + (qi + ei + ci)
<1>1. /\ Results(t) \in Nat /\ Effects(t, Announcements) \in Nat
      /\ Cardinality(Starting(t, Announcements)) \in Nat
      /\ Announcing(t) =
           Results(t) + Effects(t, Announcements) + Cardinality(Starting(t, Announcements))
  BY Counts, Zenon
<1>2. /\ Results(t)' \in Nat /\ Effects(t, Announcements)' \in Nat
      /\ Cardinality(Starting(t, Announcements)') \in Nat
      /\ Announcing(t)' =
           Results(t)' + Effects(t, Announcements)' + Cardinality(Starting(t, Announcements)')
  BY CountsNext, Zenon
<1>3. PICK a, b, c, n : /\ a = Results(t) /\ b = Effects(t, Announcements)
                       /\ c = Cardinality(Starting(t, Announcements)) /\ n = Announcing(t)
  OBVIOUS
<1>4. PICK a1, b1, c1, n1 :
        /\ a1 = Results(t)' /\ b1 = Effects(t, Announcements)'
        /\ c1 = Cardinality(Starting(t, Announcements)') /\ n1 = Announcing(t)'
  OBVIOUS
<1>5. a \in Nat /\ b \in Nat /\ c \in Nat /\ n = a + b + c
  BY <1>1, <1>3
<1>6. a1 \in Nat /\ b1 \in Nat /\ c1 \in Nat /\ n1 = a1 + b1 + c1
  BY <1>2, <1>4
<1>7. a1 + qo = a + qi /\ b1 + eo = b + ei /\ c1 + co = c + ci
  BY <1>3, <1>4
<1>8. n1 + (qo + eo + co) = n + (qi + ei + ci)
  BY <1>5, <1>6, <1>7
<1> QED BY <1>3, <1>4, <1>8

(* What is not touched is counted as before. *)
LEMMA CountsKept ==
  ASSUME NEW t, NEW types
  PROVE  /\ queue' = queue => Messages(t)' = Messages(t) /\ Results(t)' = Results(t)
         /\ effects' = effects => Effects(t, types)' = Effects(t, types)
         /\ calls' = calls => /\ CarryingCalls(t)' = CarryingCalls(t)
                              /\ Starting(t, types)' = Starting(t, types)
BY DEF Queued, Messages, Results, Effects, CarryingCalls, Advancing, Starting

(* A task that is not touched stays within its bounds. *)
LEMMA BoundedKept ==
  ASSUME NEW t, Bounded(t), st'[t] = st[t], guided'[t] = guided[t],
         Carriers(t) \in Nat, Carriers(t)' \in Nat, Carriers(t)' <= Carriers(t), guided[t] \in Nat,
         outcomes[t] + Announcing(t) \in Nat, outcomes'[t] + Announcing(t)' \in Nat,
         \/ outcomes'[t] + Announcing(t)' = outcomes[t] + Announcing(t)
         \/ outcomes'[t] + Announcing(t)' <= outcomes[t] + Announcing(t) /\ t \in dropped',
         dropped \subseteq dropped'
  PROVE  Bounded(t)'
<1>1. (Over(t)' <=> Over(t)) /\ (AsksUser(t)' <=> AsksUser(t))
  BY DEF Over, AsksUser, TSM!IsTerminal, TSM!TerminalPhases
<1>2. PICK a, b, c, d, g : /\ a = Carriers(t) /\ b = Carriers(t)' /\ c = outcomes[t] + Announcing(t)
                           /\ d = outcomes'[t] + Announcing(t)' /\ g = guided[t]
  OBVIOUS
<1>3. b <= g + (IF AsksUser(t)' \/ Over(t)' THEN 0 ELSE 1)
  <2>1. a <= g + (IF AsksUser(t) \/ Over(t) THEN 0 ELSE 1)
    BY <1>2 DEF Bounded
  <2>2. a \in Nat /\ b \in Nat /\ g \in Nat /\ b <= a
    BY <1>2
  <2> QED BY <1>1, <2>1, <2>2
<1>4. d <= IF Over(t)' THEN 1 ELSE 0
  <2>1. c <= IF Over(t) THEN 1 ELSE 0
    BY <1>2 DEF Bounded
  <2>2. c \in Nat /\ d \in Nat /\ d <= c
    BY <1>2
  <2> QED BY <1>1, <2>1, <2>2
<1>5. Over(t)' /\ t \notin dropped' => d = 1
  BY <1>1, <1>2 DEF Bounded
<1> QED BY <1>2, <1>3, <1>4, <1>5 DEF Bounded

(* What holds of a task whose state, snapshot and work are the same. *)
LEMMA TaskKept ==
  ASSUME NEW t, st'[t] = st[t], snap'[t] = snap[t],
         Coming(t)' \subseteq Coming(t), Doing(t)' \subseteq Doing(t),
         \A g \in effects' : g.task = t /\ g.pc = "loaded" => g.own = snap[t],
         t \notin refused'
  PROVE  Known(t) => Known(t)'
BY DEF Known

(* A task with no less on its way to it is as attended as before. *)
LEMMA AttendedKept ==
  ASSUME NEW t, st'[t] = st[t], Coming(t) \subseteq Coming(t)', Doing(t) \subseteq Doing(t)'
  PROVE  Attended(t) => Attended(t)'
BY DEF Attended

(* Steps of HandlePlainInput that publish nothing *)
LEMMA QuietPreserves ==
  ASSUME IInv, UNCHANGED <<machine, snap, queue, calls, effects, owned, ui, history>>,
         seq' \in 0 .. MaxTasks, seq <= seq', current' \in owned \cup {NoTask},
         session' \in Steps, typed' \in Nat, Handling',
         \A t \in owned : guided[t] = 0 => Answering(t)'
  PROVE  IInv'
<1>1. /\ st' = st /\ snap' = snap /\ queue' = queue /\ calls' = calls /\ effects' = effects
      /\ owned' = owned /\ outcomes' = outcomes /\ question' = question
      /\ dropped' = dropped /\ refused' = refused /\ guided' = guided
      /\ P!IInv'
  BY MachineKept DEF machine, ui, history, IInv
<1>2. Types'
  <2>1. 1 .. seq \subseteq 1 .. seq'
    BY DEF IInv, Types
  <2> QED BY <1>1, <2>1 DEF IInv, Types
<1>3. Numbered' /\ Owned' /\ Started'
  BY <1>1 DEF IInv, Numbered, Sensible, Owned, Started, Starts
<1>4. ASSUME NEW t \in owned
      PROVE  /\ DistinctIds(t)' /\ Bounded(t)' /\ (Over(t)' <=> Over(t)) /\ (AsksUser(t)' <=> AsksUser(t))
             /\ Attended(t) => Attended(t)'
             /\ Known(t) => Known(t)'
             /\ Shown(t) => Shown(t)'
  <2>1. Carriers(t)' = Carriers(t) /\ Announcing(t)' = Announcing(t)
    BY <1>1 DEF Carriers, Announcing, Queued, Effects, Starting, Advancing
  <2>2. Coming(t)' = Coming(t) /\ Doing(t)' = Doing(t)
    BY <1>1 DEF Coming, EventsOf, Doing, Starting
  <2>3. (Over(t)' <=> Over(t)) /\ (AsksUser(t)' <=> AsksUser(t))
    BY <1>1 DEF Over, AsksUser, TSM!IsTerminal, TSM!TerminalPhases
  <2>4. DistinctIds(t)'
    BY <1>1 DEF IInv, DistinctIds, CalledEvent, EffectEvent, QueuedEvent
  <2>5. Bounded(t)'
    BY <1>1, <2>1, <2>3 DEF IInv, Bounded
  <2>6. Attended(t) => Attended(t)'
    BY <1>1, <2>2, AttendedKept
  <2>7. Known(t) => Known(t)'
    BY <1>1, <2>2, TaskKept DEF Known
  <2>8. Shown(t) => Shown(t)'
    BY <1>1, <2>3 DEF Shown, CalledEvent
  <2> QED BY <2>3, <2>4, <2>5, <2>6, <2>7, <2>8
<1> QED BY <1>1, <1>2, <1>3, <1>4 DEF IInv

-----------------------------------------------------------------------------
(* HandlePlainInput *)

(* What the session reads when it reads the state of its task. *)
LEMMA SessionFacts ==
  ASSUME IInv
  PROVE  /\ NoTask \notin owned /\ owned \subseteq Tasks /\ seq \in Nat
         /\ seq + 1 \notin owned
         /\ \A t \in Tasks : st[t] \in TSM!TaskState
         /\ \A t \in owned : calls["session"].pc = "idle" => st[t].phase # "Created"
         /\ session.pc \in {"idle", "start", "decide", "publishing"}
         /\ session.pc = "decide" => session.state \in TSM!TaskState /\ current \in owned
<1>1. seq \in 0 .. MaxTasks /\ owned \subseteq 1 .. seq /\ current \in owned \cup {NoTask}
      /\ MaxTasks \in Nat
  BY SessionAssumption DEF IInv, Types
<1>2. NoTask \notin owned /\ owned \subseteq Tasks /\ seq \in Nat /\ seq + 1 \notin owned
  BY <1>1 DEF NoTask, Tasks
<1>3. \A t \in Tasks : st[t] \in TSM!TaskState
  BY SameTypes DEF IInv, P!IInv, P!Good
<1>4. \A t \in owned : calls["session"].pc = "idle" => st[t].phase # "Created"
  BY DEF IInv, Started, Starts
<1>5. session.pc \in {"idle", "start", "decide", "publishing"}
      /\ (session.pc = "decide" => session.state \in TSM!TaskState)
  <2>1. session \in Steps
    BY DEF IInv, Types
  <2>2. \A x \in [pc : {"start"}, restore : Tasks \cup {NoTask}] : x.pc = "start"
    OBVIOUS
  <2>3. \A x \in [pc : {"decide"}, state : TSM!TaskState] : x.pc = "decide" /\ x.state \in TSM!TaskState
    OBVIOUS
  <2>4. \A x \in [pc : {"publishing"}, answers : BOOLEAN, restore : Tasks \cup {NoTask}] : x.pc = "publishing"
    OBVIOUS
  <2> QED BY <2>1, <2>2, <2>3, <2>4 DEF Steps, Idle
<1>6. session.pc = "decide" => current \in owned
  BY <1>1 DEF IInv, Handling
<1> QED BY <1>2, <1>3, <1>4, <1>5, <1>6

(* Only a session that publishes has a call. *)
LEMMA NoCall ==
  ASSUME IInv, session.pc # "publishing"
  PROVE  calls["session"] = Idle /\ calls["session"].pc = "idle"
<1>1. calls["session"].pc = "idle"
  BY DEF IInv, Handling
<1> QED BY <1>1, CallKinds DEF IInv, Callers

(* A session without a call about to start a task, to decide, or idle *)
LEMMA QuietHandling ==
  ASSUME IInv, session.pc # "publishing", calls' = calls, st' = st, owned' = owned,
         \/ session' = Idle
         \/ /\ current' = NoTask
            /\ \E r \in owned \cup {NoTask} : session' = [pc |-> "start", restore |-> r]
         \/ /\ current' \in owned
            /\ session' = [pc |-> "decide", state |-> st[current']]
  PROVE  /\ Handling' /\ session' \in Steps
         /\ \A t \in owned : Answering(t)'
<1>1. calls["session"] = Idle /\ calls["session"].pc = "idle"
  BY NoCall
<1>2. \A t : ~CalledEvent("session", t)'
  BY <1>1 DEF CalledEvent
<1>3. calls'["worker"].pc = "advance" => calls'["worker"].event.type \in Produced
  BY DEF IInv, Handling
<1>4. CASE session' = Idle
  BY <1>1, <1>2, <1>3, <1>4 DEF Handling, Idle, Steps, Answering
<1>5. CASE /\ current' = NoTask
           /\ \E r \in owned \cup {NoTask} : session' = [pc |-> "start", restore |-> r]
  <2>1. PICK r \in owned \cup {NoTask} : session' = [pc |-> "start", restore |-> r]
    BY <1>5
  <2>2. session'.pc = "start" /\ session'.restore = r /\ session' \in Steps
    BY <2>1, SessionFacts DEF Steps
  <2> QED BY <1>1, <1>2, <1>3, <1>5, <2>2 DEF Handling, Answering
<1>6. CASE current' \in owned /\ session' = [pc |-> "decide", state |-> st[current']]
  <2>1. st[current'] \in TSM!TaskState /\ st[current'].phase # "Created" /\ current' # NoTask
    BY <1>1, <1>6, SessionFacts
  <2>2. session'.pc = "decide" /\ session'.state = st[current'] /\ session' \in Steps
    BY <1>6, <2>1 DEF Steps
  <2> QED BY <1>1, <1>2, <1>3, <2>1, <2>2 DEF Handling, Answering, AsksUser
<1> QED BY <1>4, <1>5, <1>6

(* HandlePlainInput reads the state of its task. *)
LEMMA ReadPreserves == IInv /\ Read => IInv'
<1> SUFFICES ASSUME IInv, Read PROVE IInv'
  OBVIOUS
<1>1. session.pc # "publishing" /\ st' = st
  BY DEF Read, Idle, machine
<1>2. /\ seq' \in 0 .. MaxTasks /\ seq <= seq' /\ current' \in owned \cup {NoTask}
      /\ typed' \in Nat
  BY SessionFacts DEF IInv, Types, Read
<1>3. \/ /\ current' = NoTask
         /\ \E r \in owned \cup {NoTask} : session' = [pc |-> "start", restore |-> r]
      \/ /\ current' \in owned
         /\ session' = [pc |-> "decide", state |-> st[current']]
  BY <1>2 DEF Read
<1>4. Handling' /\ session' \in Steps /\ \A t \in owned : Answering(t)'
  BY <1>1, <1>3, QuietHandling DEF Read
<1> QED BY <1>2, <1>4, QuietPreserves DEF Read

(* It starts a task, or does nothing. *)
LEMMA DecideQuietPreserves ==
  ASSUME IInv, DecideStart \/ DecideNext \/ DecideLeave \/ DecideWait, UNCHANGED calls,
         UNCHANGED <<machine, snap, queue, effects, seq, owned, typed, ui, history>>
  PROVE  IInv'
<1>1. /\ session.pc = "decide" /\ current \in owned /\ session.state.phase # "Created"
      /\ session.pc # "publishing" /\ st' = st
  BY SessionFacts DEF DecideStart, DecideNext, DecideLeave, DecideWait, Decides, IInv, Handling, machine
<1>2. \/ session' = Idle /\ current' = current
      \/ /\ current' = NoTask
         /\ \E r \in owned \cup {NoTask} : session' = [pc |-> "start", restore |-> r]
  BY <1>1 DEF DecideStart, DecideNext, DecideLeave, DecideWait, Decides
<1>3. Handling' /\ session' \in Steps /\ \A t \in owned : Answering(t)'
  BY <1>1, <1>2, QuietHandling
<1>4. seq' \in 0 .. MaxTasks /\ seq <= seq' /\ typed' \in Nat /\ current' \in owned \cup {NoTask}
  BY <1>1, <1>2, SessionFacts DEF IInv, Types
<1> QED BY <1>3, <1>4, QuietPreserves

(* A task runtime cannot be created. *)
LEMMA StartFailsPreserves == IInv /\ StartFails => IInv'
<1> SUFFICES ASSUME IInv, StartFails PROVE IInv'
  OBVIOUS
<1>1. session.pc # "publishing" /\ st' = st /\ session' = Idle
      /\ session.restore \in owned \cup {NoTask} /\ current' = session.restore
  BY DEF StartFails, machine, IInv, Handling
<1>2. seq' \in 0 .. MaxTasks /\ seq <= seq' /\ typed' \in Nat
  BY SessionAssumption DEF IInv, Types, StartFails
<1>3. Handling' /\ session' \in Steps /\ \A t \in owned : Answering(t)'
  BY <1>1, QuietHandling DEF StartFails
<1> QED BY <1>1, <1>2, <1>3, QuietPreserves DEF StartFails

-----------------------------------------------------------------------------
(* The session publishes an event of its own *)

(* Every event that anybody holds of a task is one of EventsOf. *)
LEMMA HeldEvents ==
  ASSUME NEW t
  PROVE  /\ \A q \in ToSet(queue) : QueuedEvent(q, t) => q.event \in EventsOf(t)
         /\ \A c \in Callers : CalledEvent(c, t) => calls[c].event \in EventsOf(t)
         /\ \A g \in effects : g.task = t => g.event \in EventsOf(t)
BY DEF QueuedEvent, CalledEvent, EventsOf

(* A fresh id is nobody's, a fresh reference is not the empty one. *)
LEMMA FreshIdIsNew ==
  ASSUME NEW t, IdsLeft(t)
  PROVE  /\ FreshId(t) \in EventIds /\ FreshId(t) # st[t].lastEventID
         /\ \A e \in EventsOf(t) : e.id # FreshId(t)
         /\ FreshRef(t) \in Refs /\ FreshRef(t) # NoRef
<1>1. FreshId(t) \in FreshIds(t) /\ FreshRef(t) \in FreshRefs(t)
  BY Zenon DEF IdsLeft, FreshId, FreshRef
<1> QED BY <1>1, SessionAssumption DEF FreshIds, FreshRefs

(* An event of the session's is an event of the machine. *)
LEMMA MadeEvents ==
  ASSUME NEW id \in EventIds, NEW types, NEW type \in types, type \in TSM!EventTypes,
         NEW ref \in Refs \cup {NoRef}, NEW agent \in {Agent, NoAgent},
         type \notin TSM!CreationEvents => agent = NoAgent,
         type \notin TSM!RequestEvents \cup TSM!AnswerEvents => ref = NoRef,
         type \in TSM!RequestEvents => ref # NoRef
  PROVE  /\ MakeEvent(id, type, ref, agent) \in GoodEvent(types)
         /\ MakeEvent(id, type, ref, agent).id = id
         /\ MakeEvent(id, type, ref, agent).type = type
         /\ MakeEvent(id, type, ref, agent).ref = ref
<1>1. MakeEvent(id, type, ref, agent) \in TSM!AnyEvent
  BY DEF MakeEvent, TSM!AnyEvent
<1>2. MakeEvent(id, type, ref, agent) \in TSM!Event
  BY <1>1 DEF MakeEvent, TSM!Event
<1> QED BY <1>2 DEF MakeEvent, GoodEvent

(* Nothing is under way for a task the session has not started. *)
LEMMA NothingUnderWay ==
  ASSUME IInv, NEW t \in Tasks \ owned
  PROVE  /\ DistinctIds(t) /\ Carriers(t) = 0 /\ Announcing(t) = 0
         /\ Coming(t) = {} /\ Doing(t) = {} /\ st[t].phase = "Created" /\ outcomes[t] = 0
         /\ t \notin refused /\ \A g \in effects : g.task # t
<1>1. /\ \A q \in ToSet(queue) : q.task # t
      /\ \A c \in Callers : calls[c].pc # "idle" => calls[c].task # t
      /\ \A g \in effects : g.task # t
      /\ st[t].phase = "Created" /\ outcomes[t] = 0 /\ t \notin refused
  BY DEF IInv, Owned
<1>2. \A i \in DOMAIN queue : queue[i].task # t
  BY <1>1 DEF ToSet
<1>3. DistinctIds(t)
  BY <1>1, <1>2 DEF DistinctIds, QueuedEvent, CalledEvent, EffectEvent
<1>4. EventsOf(t) = {} /\ Starting(t, Carrying) = {} /\ Starting(t, Announcements) = {} /\ Advancing(t) = {}
  BY <1>1 DEF EventsOf, Starting, Advancing
<1>5. Coming(t) = {} /\ Doing(t) = {}
  BY <1>1, <1>4 DEF Coming, Doing
<1>6. Cardinality({}) = 0
  BY FS_EmptySet
<1>7. /\ { i \in DOMAIN queue : queue[i].task = t /\ (IsOutcome(queue[i]) <=> FALSE) } = {}
      /\ { i \in DOMAIN queue : queue[i].task = t /\ (IsOutcome(queue[i]) <=> TRUE) } = {}
      /\ { g \in effects : g.task = t /\ g.type \in Carrying } = {}
      /\ { g \in effects : g.task = t /\ g.type \in Announcements } = {}
  BY <1>1, <1>2
<1>8. Messages(t) = 0 /\ Results(t) = 0 /\ Effects(t, Carrying) = 0 /\ Effects(t, Announcements) = 0
  BY <1>6, <1>7 DEF Queued, Messages, Results, Effects
<1>9. Carriers(t) = 0 /\ Announcing(t) = 0
  <2>1. CarryingCalls(t) = {}
    BY <1>4 DEF CarryingCalls
  <2>2. /\ Carriers(t) = Messages(t) + Effects(t, Carrying) + Cardinality(CarryingCalls(t))
        /\ Announcing(t) = Results(t) + Effects(t, Announcements) + Cardinality(Starting(t, Announcements))
    BY Counts, Zenon DEF IInv
  <2> QED BY <1>4, <1>6, <1>8, <2>1, <2>2
<1> QED BY <1>1, <1>3, <1>5, <1>9

(* A call of the session with a fresh event *)
SessionCalls(t, e) ==
  /\ calls["session"] = Idle
  /\ calls' = [calls EXCEPT !["session"] = [pc |-> "advance", task |-> t, event |-> e]]
  /\ UNCHANGED <<machine, snap, queue, effects, typed, ui, history>>

(* The call a publish of the session makes *)
LEMMA CallMade ==
  ASSUME IInv, NEW t \in Tasks, NEW e \in GoodEvent({"task.start_requested", "user_input.received"}),
         SessionCalls(t, e)
  PROVE  /\ calls'["session"].pc = "advance" /\ calls'["session"].task = t
         /\ calls'["session"].event = e /\ calls'["worker"] = calls["worker"]
         /\ calls["session"].pc = "idle"
         /\ calls' \in [Callers -> {Idle} \cup DispatchCall \cup AdvanceCall(SessionEvents)]
<1>1. calls \in [Callers -> {Idle} \cup DispatchCall \cup AdvanceCall(SessionEvents)]
  BY DEF IInv, Types, SessionEvents
<1>2. PICK k : k = [pc |-> "advance", task |-> t, event |-> e]
  OBVIOUS
<1>3. k \in AdvanceCall(SessionEvents)
  BY <1>2 DEF AdvanceCall, SessionEvents, GoodEvent
<1>4. k.pc = "advance" /\ k.task = t /\ k.event = e
  BY <1>2
<1>5. calls' = [calls EXCEPT !["session"] = k]
  BY <1>2 DEF SessionCalls
<1>6. calls["session"].pc = "idle"
  BY DEF SessionCalls, Idle
<1> QED BY <1>1, <1>3, <1>4, <1>5, <1>6 DEF Callers

(* Its event has an id of its own. *)
LEMMA CallIds ==
  ASSUME IInv, NEW t \in Tasks, NEW e \in GoodEvent({"task.start_requested", "user_input.received"}),
         SessionCalls(t, e), e.id # st[t].lastEventID, \A f \in EventsOf(t) : f.id # e.id,
         NEW u, DistinctIds(u)
  PROVE  DistinctIds(u)'
<1>1. st' = st /\ queue' = queue /\ effects' = effects
  BY DEF SessionCalls, machine
<1>2. /\ \A q \in ToSet(queue) : QueuedEvent(q, t) => q.event.id # e.id
      /\ \A c \in Callers : CalledEvent(c, t) => calls[c].event.id # e.id
      /\ \A g \in effects : EffectEvent(g, t) => g.event.id # e.id
  BY HeldEvents DEF EffectEvent
<1>3. \A c \in Callers : CalledEvent(c, u)' => \/ CalledEvent(c, u) /\ calls'[c] = calls[c]
                                               \/ c = "session" /\ t = u /\ calls'[c].event = e
  BY CallMade DEF CalledEvent, Callers
<1>4. ~CalledEvent("session", u)
  BY CallMade DEF CalledEvent
<1> QED BY <1>1, <1>2, <1>3, <1>4 DEF DistinctIds, QueuedEvent, EffectEvent

(* What the call adds to the work of a task *)
LEMMA CallAdds ==
  ASSUME IInv, Types', NEW t \in Tasks,
         NEW e \in GoodEvent({"task.start_requested", "user_input.received"}), SessionCalls(t, e), NEW u
  PROVE  /\ Carriers(u)' =
              Carriers(u) + (IF u = t /\ e.type = "task.start_requested" THEN 1 ELSE 0)
         /\ Announcing(u)' = Announcing(u)
         /\ Doing(u)' = Doing(u)
         /\ Coming(u)' = Coming(u) \cup (IF u = t /\ e.type = "task.start_requested" THEN {e} ELSE {})
<1>1. /\ calls'["session"].pc = "advance" /\ calls'["session"].task = t
      /\ calls'["session"].event = e /\ calls'["worker"] = calls["worker"]
      /\ calls["session"].pc = "idle" /\ queue' = queue /\ effects' = effects
      /\ e.type \in {"task.start_requested", "user_input.received"}
  BY CallMade DEF SessionCalls, GoodEvent
<1>2. "session" \in CarryingCalls(u)' <=> u = t /\ e.type = "task.start_requested"
  BY <1>1 DEF CarryingCalls, Advancing, Starting, Callers
<1>3. "session" \notin CarryingCalls(u)
  BY <1>1 DEF CarryingCalls, Advancing, Starting
<1>4. Starting(u, Announcements)' = Starting(u, Announcements) /\ Starting(u, Carrying)' = Starting(u, Carrying)
  BY <1>1 DEF Starting, Callers
<1>5. Messages(u)' = Messages(u) /\ Effects(u, Carrying)' = Effects(u, Carrying)
      /\ Announcing(u)' = Announcing(u)
  BY <1>1, <1>4 DEF Queued, Messages, Results, Effects, Announcing
<1>6. /\ Messages(u) \in Nat /\ Effects(u, Carrying) \in Nat
      /\ Cardinality(CarryingCalls(u)) \in Nat /\ Cardinality(CarryingCalls(u)') \in Nat
  BY Counts, CountsNext, Zenon DEF IInv
<1>7. Cardinality(CarryingCalls(u)') =
        Cardinality(CarryingCalls(u)) + (IF u = t /\ e.type = "task.start_requested" THEN 1 ELSE 0)
  <2>1. "session" \in Callers /\ \A d \in Callers \ {"session"} : calls'[d] = calls[d]
    BY <1>1 DEF Callers
  <2>2. Cardinality(CarryingCalls(u)') + One("session" \in CarryingCalls(u)) =
          Cardinality(CarryingCalls(u)) + One("session" \in CarryingCalls(u)')
    BY <2>1, CallsChange
  <2> QED BY <1>2, <1>3, <1>6, <2>2 DEF One
<1>8. Carriers(u)' = Carriers(u) + (IF u = t /\ e.type = "task.start_requested" THEN 1 ELSE 0)
  <2>1. PICK n \in {0, 1} : n = IF u = t /\ e.type = "task.start_requested" THEN 1 ELSE 0
    OBVIOUS
  <2>2. /\ Messages(u)' + 0 = Messages(u) + 0
        /\ Effects(u, Carrying)' + 0 = Effects(u, Carrying) + 0
        /\ Cardinality(CarryingCalls(u)') + 0 = Cardinality(CarryingCalls(u)) + n
    BY <1>5, <1>6, <1>7, <2>1
  <2>3. Carriers(u)' + (0 + 0 + 0) = Carriers(u) + (0 + 0 + n)
    BY <2>2, Tally DEF IInv
  <2>4. Carriers(u) \in Nat /\ Carriers(u)' \in Nat
    BY Counts, CountsNext, Zenon DEF IInv
  <2> QED BY <2>1, <2>3, <2>4
<1>9. Doing(u)' = Doing(u)
  <2>1. \A c \in Starting(u, Carrying) : calls'[c] = calls[c]
    BY <1>1 DEF Starting, Callers
  <2> QED BY <1>1, <1>4, <2>1 DEF Doing
<1>10. Coming(u)' = Coming(u) \cup (IF u = t /\ e.type = "task.start_requested" THEN {e} ELSE {})
  <2>1. EventsOf(u)' = EventsOf(u) \cup (IF u = t THEN {e} ELSE {})
    BY <1>1 DEF EventsOf, Callers
  <2> QED BY <1>1, <2>1 DEF Coming
<1> QED BY <1>5, <1>8, <1>9, <1>10

-----------------------------------------------------------------------------
(* A call of the session's keeps the invariant: input for the task it has, or the start of
   a new one. *)
LEMMA SessionCallPreserves ==
  ASSUME IInv, NEW t \in Tasks, NEW e \in GoodEvent({"task.start_requested", "user_input.received"}),
         SessionCalls(t, e), e.id # st[t].lastEventID, \A f \in EventsOf(t) : f.id # e.id,
         NEW a \in BOOLEAN, NEW r \in owned \cup {NoTask},
         session' = [pc |-> "publishing", answers |-> a, restore |-> r],
         current' = t, owned' = owned \cup {t}, seq' \in 0 .. MaxTasks, seq <= seq', t \in 1 .. seq',
         e.type = "task.start_requested" <=> t \notin owned,
         a => e.type = "user_input.received",
         a /\ guided[t] = 0 => AsksUser(t) /\ st[t].pendingUserInput = e.ref
  PROVE  IInv'
<1>1. /\ calls'["session"].pc = "advance" /\ calls'["session"].task = t
      /\ calls'["session"].event = e /\ calls'["worker"] = calls["worker"]
      /\ calls["session"].pc = "idle"
      /\ calls' \in [Callers -> {Idle} \cup DispatchCall \cup AdvanceCall(SessionEvents)]
  BY CallMade
<1>2. /\ st' = st /\ snap' = snap /\ queue' = queue /\ effects' = effects
      /\ typed' = typed /\ outcomes' = outcomes /\ question' = question
      /\ dropped' = dropped /\ refused' = refused /\ guided' = guided
      /\ P!IInv'
  BY MachineKept DEF SessionCalls, machine, ui, history, IInv
<1>3. session'.pc = "publishing" /\ session'.answers = a /\ session'.restore = r
      /\ session' \in Steps
  BY SessionFacts DEF Steps
<1>4. Types'
  <2>1. 1 .. seq \subseteq 1 .. seq' /\ owned' \subseteq 1 .. seq'
    BY DEF IInv, Types
  <2> QED BY <1>1, <1>2, <1>3, <2>1 DEF IInv, Types, SessionEvents
<1>5. Numbered'
  BY <1>2 DEF IInv, Numbered, Sensible
<1>6. Owned'
  <2>1. \A c \in Callers : calls'[c].pc # "idle" => calls'[c].task \in owned'
    BY <1>1 DEF IInv, Owned, Callers
  <2> QED BY <1>2, <2>1 DEF IInv, Owned
<1>7. Handling'
  <2>1. e.type \in {"task.start_requested", "user_input.received"}
    BY DEF GoodEvent
  <2>2. calls'["worker"].pc = "advance" => calls'["worker"].event.type \in Produced
    BY <1>1 DEF IInv, Handling
  <2> QED BY <1>1, <1>3, <2>1, <2>2 DEF Handling
<1>8. ASSUME NEW u \in owned', u # t
      PROVE  u \in owned /\ st[u].phase # "Created"
  BY <1>1, <1>8, SessionFacts
<1>9. e.type # "task.start_requested" => st[t].phase # "Created"
  BY <1>1, SessionFacts
<1>10. Started'
  <2>1. e.type = "task.start_requested" => st[t].phase = "Created"
    BY NothingUnderWay
  <2>2. ASSUME NEW u \in owned' PROVE st'[u].phase = "Created" <=> Starts(u)'
    BY <1>1, <1>2, <1>8, <1>9, <2>1 DEF Starts
  <2> QED BY <2>2 DEF Started
<1>11. ASSUME NEW u \in owned'
       PROVE  /\ DistinctIds(u)' /\ Bounded(u)'
              /\ (~Over(u) /\ ~AsksUser(u) /\ u \notin dropped \cup refused => Attended(u))'
              /\ (guided[u] = 0 => Known(u) /\ Shown(u) /\ Answering(u))'
  <2>1. /\ Carriers(u)' =
             Carriers(u) + (IF u = t /\ e.type = "task.start_requested" THEN 1 ELSE 0)
        /\ Announcing(u)' = Announcing(u)
        /\ Doing(u)' = Doing(u)
        /\ Coming(u)' = Coming(u) \cup (IF u = t /\ e.type = "task.start_requested" THEN {e} ELSE {})
    BY <1>4, CallAdds
  <2>2. /\ u \in Tasks /\ Carriers(u) \in Nat /\ Announcing(u) \in Nat /\ Carriers(u)' \in Nat
        /\ Announcing(u)' \in Nat /\ guided[u] \in Nat /\ outcomes[u] \in Nat
    <3>1. u \in Tasks
      BY SessionFacts
    <3> QED BY <1>4, <3>1, Counts, CountsNext DEF IInv, Types
  <2>3. (Over(u)' <=> Over(u)) /\ (AsksUser(u)' <=> AsksUser(u))
    BY <1>2 DEF Over, AsksUser, TSM!IsTerminal, TSM!TerminalPhases
  <2>4. \A c \in Callers : /\ calls'[c] = calls[c] \/ (c = "session" /\ calls'[c].event = e)
    BY <1>1 DEF Callers
  <2>5. e.type # "agent.user_input_requested"
    BY DEF GoodEvent
  <2>6. (Shown(u) => Shown(u)') /\ (u # t => Answering(u)')
    BY <1>1, <1>2, <1>3, <2>3, <2>4, <2>5 DEF Shown, Answering, CalledEvent
  <2>7. CASE u \in owned
    <3>1. DistinctIds(u)'
      BY <2>7, CallIds DEF IInv
    <3>2. ~(u = t /\ e.type = "task.start_requested")
      BY <2>7
    <3>3. Carriers(u)' = Carriers(u) /\ Coming(u)' = Coming(u)
      BY <2>1, <2>2, <3>2
    <3>4. Bounded(u)'
      BY <1>2, <2>1, <2>3, <2>7, <3>3 DEF IInv, Bounded
    <3>5. Attended(u) => Attended(u)'
      BY <1>2, <2>1, <3>3, AttendedKept
    <3>6. Known(u) => Known(u)'
      BY <1>2, <2>1, <3>3, TaskKept DEF Known
    <3>7. u = t /\ guided[u] = 0 => Answering(u)'
      BY <1>1, <1>2, <1>3, <2>3 DEF Answering, AsksUser
    <3> QED BY <1>2, <2>3, <2>6, <2>7, <3>1, <3>4, <3>5, <3>6, <3>7 DEF IInv
  <2>8. CASE u \notin owned
    <3>1. u = t /\ e.type = "task.start_requested" /\ u \in Tasks \ owned
      BY <2>2, <2>8
    <3>2. /\ DistinctIds(t) /\ Carriers(t) = 0 /\ Announcing(t) = 0
          /\ Coming(t) = {} /\ Doing(t) = {} /\ st[t].phase = "Created" /\ outcomes[t] = 0
          /\ t \notin refused /\ \A g \in effects : g.task # t
      BY <3>1, NothingUnderWay
    <3>3. DistinctIds(t)'
      BY <3>2, CallIds
    <3>4. ~Over(t)' /\ ~AsksUser(t)' /\ st'[t].phase \notin TSM!WaitingPhases
      BY <1>2, <3>2 DEF Over, AsksUser, TSM!IsTerminal, TSM!TerminalPhases, TSM!WaitingPhases
    <3>5. Carriers(t)' = 1 /\ Announcing(t)' = 0 /\ Coming(t)' = {e} /\ Doing(t)' = {}
      BY <2>1, <3>1, <3>2
    <3>6. Bounded(t)'
      <4>1. guided'[t] \in Nat /\ outcomes'[t] = 0
        BY <1>2, <2>2, <3>1, <3>2
      <4>2. Carriers(t)' <= guided'[t] + 1 /\ outcomes'[t] + Announcing(t)' <= 0
        BY <3>5, <4>1
      <4> QED BY <3>4, <4>2 DEF Bounded
    <3>7. EventKnown(st'[t], snap'[t], e) /\ EventFits(st'[t], e)
      BY <1>2, <3>1, <3>2 DEF EventKnown, EventFits, ModelAnswers
    <3>8. Attended(t)'
      BY <3>5, <3>7 DEF Attended
    <3>9. Known(t)'
      BY <1>2, <3>2, <3>4, <3>5, <3>7 DEF Known
    <3>10. Answering(t)'
      BY <1>1, <1>3, <3>1 DEF Answering
    <3>11. Shown(t)'
      <4>1. t \notin owned
        BY <3>1
      <4>2. ~CalledEvent("worker", t)'
        BY <1>1, <4>1 DEF CalledEvent, IInv, Owned, Callers
      <4>3. \A c \in Callers : CalledEvent(c, t)' => calls'[c].event.type # "agent.user_input_requested"
        BY <1>1, <2>5, <4>2 DEF Callers
      <4> QED BY <3>4, <4>3 DEF Shown
    <3> QED BY <3>1, <3>3, <3>6, <3>8, <3>9, <3>10, <3>11
  <2> QED BY <2>7, <2>8
<1> QED BY <1>2, <1>4, <1>5, <1>6, <1>7, <1>10, <1>11 DEF IInv

(* A start event for a new task *)
LEMMA StartNewTaskPreserves == IInv /\ StartNewTask => IInv'
<1> SUFFICES ASSUME IInv, StartNewTask PROVE IInv'
  OBVIOUS
<1>1. PICK t : t = seq + 1
  OBVIOUS
<1>2. PICK e : e = MakeEvent(FreshId(t), "task.start_requested", NoRef, Agent)
  OBVIOUS
<1>3. current = NoTask /\ session.restore \in owned \cup {NoTask} /\ session.pc = "start"
  BY DEF StartNewTask, IInv, Handling
<1>4. /\ seq < MaxTasks /\ seq' = t /\ current' = t /\ owned' = owned \cup {t}
      /\ IdsLeft(t)
      /\ calls' = [calls EXCEPT !["session"] = [pc |-> "advance", task |-> t, event |-> e]]
  BY <1>1, <1>2, <1>3 DEF StartNewTask, StartTask, Own
<1>5. t \in Tasks /\ t \notin owned /\ t \in 1 .. seq' /\ seq' \in 0 .. MaxTasks /\ seq <= seq'
  BY <1>1, <1>4, SessionFacts, SessionAssumption DEF Tasks
<1>6. FreshId(t) \in EventIds /\ FreshId(t) # st[t].lastEventID /\ \A f \in EventsOf(t) : f.id # FreshId(t)
  BY <1>4, FreshIdIsNew
<1>7. /\ e \in GoodEvent({"task.start_requested", "user_input.received"})
      /\ e.id = FreshId(t) /\ e.type = "task.start_requested" /\ e.ref = NoRef
  BY <1>2, <1>6, MadeEvents
     DEF TSM!EventTypes, TSM!HandledEvents, TSM!CreationEvents, TSM!RequestEvents
<1>8. SessionCalls(t, e)
  BY <1>3, <1>4, NoCall DEF SessionCalls, StartNewTask
<1>9. session' = [pc |-> "publishing", answers |-> FALSE, restore |-> session.restore]
  BY DEF StartNewTask, Asking
<1> QED BY <1>3, <1>4, <1>5, <1>6, <1>7, <1>8, <1>9, SessionCallPreserves

(* A line for the task: an answer, or guidance *)
LEMMA PublishInputPreserves ==
  ASSUME IInv, session.pc = "decide", UNCHANGED <<machine, snap, queue, effects, seq, owned, typed, ui, history>>,
         NEW ref \in Refs \cup {NoRef}, NEW answers \in BOOLEAN,
         PublishUserInput(ref, answers), current' = current,
         answers => session.state.phase = "WaitingUserInput" /\ ref = session.state.pendingUserInput
  PROVE  IInv'
<1>1. PICK t : t = current
  OBVIOUS
<1>2. PICK e : e = MakeEvent(FreshId(t), "user_input.received", ref, NoAgent)
  OBVIOUS
<1>3. /\ t \in owned /\ t \in Tasks /\ NoTask \notin owned
  BY <1>1, SessionFacts
<1>4. /\ IdsLeft(t)
      /\ calls' = [calls EXCEPT !["session"] = [pc |-> "advance", task |-> t, event |-> e]]
  BY <1>1, <1>2 DEF PublishUserInput
<1>5. t \in 1 .. seq' /\ seq' \in 0 .. MaxTasks /\ seq <= seq' /\ owned' = owned \cup {t}
  BY <1>3, SessionFacts DEF IInv, Types
<1>6. FreshId(t) \in EventIds /\ FreshId(t) # st[t].lastEventID /\ \A f \in EventsOf(t) : f.id # FreshId(t)
  BY <1>4, FreshIdIsNew
<1>7. /\ e \in GoodEvent({"task.start_requested", "user_input.received"})
      /\ e.id = FreshId(t) /\ e.type = "user_input.received" /\ e.ref = ref
  BY <1>2, <1>6, MadeEvents
     DEF TSM!EventTypes, TSM!HandledEvents, TSM!CreationEvents, TSM!RequestEvents, TSM!AnswerEvents
<1>8. SessionCalls(t, e)
  BY <1>4, NoCall DEF SessionCalls
<1>9. session' = [pc |-> "publishing", answers |-> answers, restore |-> NoTask]
  BY DEF PublishUserInput, Asking
<1>10. answers /\ guided[t] = 0 => AsksUser(t) /\ st[t].pendingUserInput = e.ref
  BY <1>1, <1>3, <1>7 DEF IInv, Answering
<1> QED BY <1>1, <1>3, <1>4, <1>5, <1>6, <1>7, <1>8, <1>9, <1>10, SessionCallPreserves

(* HandlePlainInput decides. *)
LEMMA DecidePreserves == IInv /\ Decide => IInv'
<1> SUFFICES ASSUME IInv, Decide PROVE IInv'
  OBVIOUS
<1>1. CASE (DecideStart \/ DecideNext \/ DecideLeave \/ DecideWait) /\ UNCHANGED calls
  BY <1>1, DecideQuietPreserves DEF Decide
<1>2. CASE DecideAnswer
  <2>1. session.pc = "decide" /\ session.state.phase = "WaitingUserInput"
        /\ session.state.pendingUserInput \in Refs \cup {NoRef}
    BY <1>2, SessionFacts DEF DecideAnswer, Decides, TSM!TaskState
  <2> QED BY <1>2, <2>1, PublishInputPreserves DEF DecideAnswer, Decide
<1>3. CASE DecideGuide
  <2>1. session.pc = "decide" /\ FreshRef(current) \in Refs
    BY <1>3, FreshIdIsNew DEF DecideGuide, Decides, PublishUserInput
  <2> QED BY <1>3, <2>1, PublishInputPreserves DEF DecideGuide, Decide
<1> QED BY <1>1, <1>2, <1>3 DEF Decide

-----------------------------------------------------------------------------
(* A task with one carrier has nothing else under way *)

(* A finite set with one element at most *)
LEMMA AtMostOne ==
  ASSUME NEW S, IsFiniteSet(S)
  PROVE  /\ Cardinality(S) \in Nat
         /\ Cardinality(S) = 0 => S = {}
         /\ Cardinality(S) <= 1 => \A x, y \in S : x = y
<1>1. Cardinality(S) \in Nat /\ (Cardinality(S) = 0 => S = {})
  BY FS_CardinalityType, FS_EmptySet
<1>2. Cardinality(S) = 1 => \E x : S = {x}
  BY FS_Singleton
<1>3. PICK n : n = Cardinality(S)
  OBVIOUS
<1>4. n \in Nat /\ (n <= 1 => n = 0 \/ n = 1)
  BY <1>1, <1>3
<1> QED BY <1>1, <1>2, <1>3, <1>4

(* Where the events and the work of a task are *)
LEMMA Sources ==
  Types /\ Numbered => \A t :
    /\ \A e \in Coming(t) :
         \/ \E q \in ToSet(queue) : QueuedEvent(q, t) /\ e = q.event
         \/ \E c \in CarryingCalls(t) : calls[c].pc = "advance" /\ e = calls[c].event
         \/ \E g \in effects : g.task = t /\ g.type \in Carrying /\ g.pc = "answer" /\ e = g.event
    /\ \A x \in Doing(t) :
         \/ \E c \in CarryingCalls(t) :
              /\ calls[c].pc = "dispatch"
              /\ x = Work(calls[c].effect.type, calls[c].effect.ref, calls[c].on)
         \/ \E g \in effects : /\ g.task = t /\ g.type \in Carrying /\ g.pc # "answer"
                               /\ x = Work(g.type, g.ref, g.on)
<1> SUFFICES ASSUME Types, Numbered, NEW t
             PROVE  /\ \A e \in Coming(t) :
                         \/ \E q \in ToSet(queue) : QueuedEvent(q, t) /\ e = q.event
                         \/ \E c \in CarryingCalls(t) : calls[c].pc = "advance" /\ e = calls[c].event
                         \/ \E g \in effects : /\ g.task = t /\ g.type \in Carrying
                                               /\ g.pc = "answer" /\ e = g.event
                    /\ \A x \in Doing(t) :
                         \/ \E c \in CarryingCalls(t) :
                              /\ calls[c].pc = "dispatch"
                              /\ x = Work(calls[c].effect.type, calls[c].effect.ref, calls[c].on)
                         \/ \E g \in effects : /\ g.task = t /\ g.type \in Carrying /\ g.pc # "answer"
                                               /\ x = Work(g.type, g.ref, g.on)
  OBVIOUS
<1>1. ASSUME NEW e \in Coming(t)
      PROVE  \/ \E q \in ToSet(queue) : QueuedEvent(q, t) /\ e = q.event
             \/ \E c \in CarryingCalls(t) : calls[c].pc = "advance" /\ e = calls[c].event
             \/ \E g \in effects : g.task = t /\ g.type \in Carrying /\ g.pc = "answer" /\ e = g.event
  <2>1. e \in EventsOf(t) /\ e.type # "none" /\ e.type # "user_input.received"
    BY DEF Coming
  <2>2. CASE \E q \in ToSet(queue) : q.task = t /\ ~IsOutcome(q) /\ e = q.event
    BY <2>2 DEF QueuedEvent
  <2>3. CASE \E c \in Callers : calls[c].pc = "advance" /\ calls[c].task = t /\ e = calls[c].event
    BY <2>1, <2>3 DEF CarryingCalls, Advancing
  <2>4. CASE \E g \in effects : g.task = t /\ e = g.event
    <3>1. PICK g \in effects : g.task = t /\ e = g.event
      BY <2>4
    <3>2. g.event # TSM!NoEvent
      BY <2>1, <3>1 DEF TSM!NoEvent
    <3>3. g.pc = "answer" /\ g.type \in Carrying
      BY <3>2 DEF Numbered, Sensible
    <3> QED BY <3>1, <3>3
  <2> QED BY <2>1, <2>2, <2>3, <2>4 DEF EventsOf
<1>2. ASSUME NEW x \in Doing(t)
      PROVE  \/ \E c \in CarryingCalls(t) :
                  /\ calls[c].pc = "dispatch"
                  /\ x = Work(calls[c].effect.type, calls[c].effect.ref, calls[c].on)
             \/ \E g \in effects : /\ g.task = t /\ g.type \in Carrying /\ g.pc # "answer"
                                   /\ x = Work(g.type, g.ref, g.on)
  BY DEF Doing, CarryingCalls, Starting
<1> QED BY <1>1, <1>2

(* The sets that are counted *)
Entries(t)   == { i \in DOMAIN queue : queue[i].task = t /\ (IsOutcome(queue[i]) <=> FALSE) }
Goroutines(t) == { g \in effects : g.task = t /\ g.type \in Carrying }

(* What Carriers counts is finite. *)
LEMMA Counted ==
  Types => \A t :
    /\ IsFiniteSet(Entries(t)) /\ IsFiniteSet(Goroutines(t)) /\ IsFiniteSet(CarryingCalls(t))
    /\ Carriers(t) = Cardinality(Entries(t)) + Cardinality(Goroutines(t)) + Cardinality(CarryingCalls(t))
    /\ \A q \in ToSet(queue) : QueuedEvent(q, t) <=> \E i \in Entries(t) : q = queue[i]
<1> SUFFICES ASSUME Types, NEW t
             PROVE  /\ IsFiniteSet(Entries(t)) /\ IsFiniteSet(Goroutines(t))
                    /\ IsFiniteSet(CarryingCalls(t))
                    /\ Carriers(t) = Cardinality(Entries(t)) + Cardinality(Goroutines(t))
                                       + Cardinality(CarryingCalls(t))
                    /\ \A q \in ToSet(queue) : QueuedEvent(q, t) <=> \E i \in Entries(t) : q = queue[i]
  OBVIOUS
<1>1. Entries(t) = Waiting(queue, t, "event")
  BY DEF Entries, Waiting, Kind
<1>2. IsFiniteSet(Entries(t))
  BY <1>1, WaitingFinite DEF Types
<1>3. Goroutines(t) \in SUBSET effects /\ CarryingCalls(t) \in SUBSET Callers
  BY DEF Goroutines, CarryingCalls, Advancing, Starting
<1>4. IsFiniteSet(Callers)
  <2>1. IsFiniteSet({"session"}) /\ Callers = {"session"} \cup {"worker"}
    BY FS_Singleton DEF Callers
  <2> QED BY <2>1, FS_AddElement
<1>5. IsFiniteSet(Goroutines(t)) /\ IsFiniteSet(CarryingCalls(t))
  BY <1>3, <1>4, FS_Subset DEF Types
<1>6. Carriers(t) = Cardinality(Entries(t)) + Cardinality(Goroutines(t)) + Cardinality(CarryingCalls(t))
  BY Zenon DEF Carriers, Queued, Entries, Effects, Goroutines, CarryingCalls
<1>7. \A q \in ToSet(queue) : QueuedEvent(q, t) <=> \E i \in Entries(t) : q = queue[i]
  BY DEF Entries, QueuedEvent, ToSet
<1> QED BY <1>2, <1>5, <1>6, <1>7

(* If a task has one carrier, everything that is under way for it is there. *)
Solitary(t) ==
  /\ Carriers(t) \in Nat
  /\ Carriers(t) = 0 => Coming(t) = {} /\ Doing(t) = {} /\ Goroutines(t) = {}
  /\ \A c \in CarryingCalls(t) : Carriers(t) >= 1
       /\ (Carriers(t) <= 1 =>
            /\ \A e \in Coming(t) : calls[c].pc = "advance" /\ e = calls[c].event
            /\ \A x \in Doing(t) : calls[c].pc = "dispatch"
                                   /\ x = Work(calls[c].effect.type, calls[c].effect.ref, calls[c].on)
            /\ Goroutines(t) = {})
  /\ \A g \in Goroutines(t) : Carriers(t) >= 1
       /\ (Carriers(t) <= 1 =>
            /\ \A e \in Coming(t) : g.pc = "answer" /\ e = g.event
            /\ \A x \in Doing(t) : g.pc # "answer" /\ x = Work(g.type, g.ref, g.on)
            /\ Goroutines(t) = {g})
  /\ \A q \in ToSet(queue) : QueuedEvent(q, t) => Carriers(t) >= 1
       /\ (Carriers(t) <= 1 =>
            /\ \A e \in Coming(t) : e = q.event
            /\ Doing(t) = {} /\ Goroutines(t) = {})

(* So it is: the sum is one and so one of its sets has one element and the others none. *)
LEMMA Alone == Types /\ Numbered => \A t : Solitary(t)
<1> SUFFICES ASSUME Types, Numbered, NEW t
             PROVE  Solitary(t)
  OBVIOUS
<1>1. PICK I, G, C : I = Entries(t) /\ G = Goroutines(t) /\ C = CarryingCalls(t)
  OBVIOUS
<1>2. /\ \A q \in ToSet(queue) : QueuedEvent(q, t) <=> \E i \in I : q = queue[i]
      /\ IsFiniteSet(I) /\ IsFiniteSet(G) /\ IsFiniteSet(C)
      /\ Carriers(t) = Cardinality(I) + Cardinality(G) + Cardinality(C)
  BY <1>1, Counted, Zenon
<1>3. /\ \A S \in {I, G, C} : Cardinality(S) \in Nat
      /\ \A S \in {I, G, C} : Cardinality(S) = 0 => S = {}
      /\ \A S \in {I, G, C} : Cardinality(S) <= 1 => \A x, y \in S : x = y
  BY <1>2, AtMostOne
<1>4. PICK a, b, c, n : a = Cardinality(I) /\ b = Cardinality(G) /\ c = Cardinality(C) /\ n = Carriers(t)
  OBVIOUS
<1>5. a \in Nat /\ b \in Nat /\ c \in Nat /\ n = a + b + c
  BY <1>2, <1>3, <1>4
<1>6. Cardinality({}) = 0
  BY FS_EmptySet
<1>7. (I # {} => a >= 1) /\ (G # {} => b >= 1) /\ (C # {} => c >= 1)
  BY <1>3, <1>4, <1>5
<1>8. n \in Nat
  BY <1>5
<1>9. /\ n = 0 => I = {} /\ G = {} /\ C = {}
      /\ C # {} => n >= 1 /\ (n <= 1 => I = {} /\ G = {})
      /\ G # {} => n >= 1 /\ (n <= 1 => I = {} /\ C = {})
      /\ I # {} => n >= 1 /\ (n <= 1 => G = {} /\ C = {})
      /\ n <= 1 => a <= 1 /\ b <= 1 /\ c <= 1
  BY <1>5, <1>7
<1>10. n <= 1 => /\ \A x, y \in I : x = y
                 /\ \A x, y \in G : x = y
                 /\ \A x, y \in C : x = y
  BY <1>3, <1>4, <1>9
<1>11. \A e \in Coming(t) :
         \/ \E i \in I : e = queue[i].event
         \/ \E d \in C : calls[d].pc = "advance" /\ e = calls[d].event
         \/ \E g \in G : g.pc = "answer" /\ e = g.event
  BY <1>1, <1>2, Sources DEF Goroutines
<1>12. \A x \in Doing(t) :
         \/ \E d \in C :
              calls[d].pc = "dispatch" /\ x = Work(calls[d].effect.type, calls[d].effect.ref, calls[d].on)
         \/ \E g \in G : g.pc # "answer" /\ x = Work(g.type, g.ref, g.on)
  BY <1>1, Sources DEF Goroutines
<1>13. n = 0 => Coming(t) = {} /\ Doing(t) = {} /\ G = {}
  BY <1>9, <1>11, <1>12
<1>14. ASSUME NEW d \in C
       PROVE  n >= 1 /\ (n <= 1 =>
                /\ \A e \in Coming(t) : calls[d].pc = "advance" /\ e = calls[d].event
                /\ \A x \in Doing(t) :
                     calls[d].pc = "dispatch" /\ x = Work(calls[d].effect.type, calls[d].effect.ref, calls[d].on)
                /\ G = {})
  <2>0. C # {}
    OBVIOUS
  <2>1. n >= 1 /\ (n <= 1 => I = {} /\ G = {} /\ \A x, y \in C : x = y)
    BY <1>9, <1>10, <2>0
  <2> QED BY <1>11, <1>12, <2>1
<1>15. ASSUME NEW g \in G
       PROVE  n >= 1 /\ (n <= 1 =>
                /\ \A e \in Coming(t) : g.pc = "answer" /\ e = g.event
                /\ \A x \in Doing(t) : g.pc # "answer" /\ x = Work(g.type, g.ref, g.on)
                /\ G = {g})
  <2>0. G # {}
    OBVIOUS
  <2>1. n >= 1 /\ (n <= 1 => I = {} /\ C = {} /\ \A x, y \in G : x = y)
    BY <1>9, <1>10, <2>0
  <2> QED BY <1>11, <1>12, <2>1
<1>16. ASSUME NEW q \in ToSet(queue), QueuedEvent(q, t)
       PROVE  n >= 1 /\ (n <= 1 => (\A e \in Coming(t) : e = q.event) /\ Doing(t) = {} /\ G = {})
  <2>1. PICK i \in I : q = queue[i]
    BY <1>2, <1>16
  <2>3. I # {}
    BY <2>1
  <2>2. n >= 1 /\ (n <= 1 => G = {} /\ C = {} /\ \A x, y \in I : x = y)
    BY <1>9, <1>10, <2>3
  <2> QED BY <1>11, <1>12, <2>1, <2>2
<1>17. n = Carriers(t) /\ G = Goroutines(t) /\ C = CarryingCalls(t)
  BY <1>1, <1>4
<1> QED BY ONLY <1>8, <1>13, <1>14, <1>15, <1>16, <1>17 DEF Solitary

(* The same of the next state *)
LEMMA AloneNext == (Types /\ Numbered => \A t : Solitary(t))'
BY Alone, PTL

-----------------------------------------------------------------------------
(* What holds of each task, and when a step keeps it *)

Settled(t) ==
  /\ DistinctIds(t) /\ Bounded(t)
  /\ ~Over(t) /\ ~AsksUser(t) /\ t \notin dropped \cup refused => Attended(t)
  /\ guided[t] = 0 => Known(t) /\ Shown(t) /\ Answering(t)

Concerns(c, t) == calls[c].pc # "idle" /\ calls[c].task = t
Untouched(u) ==
  /\ st'[u] = st[u] /\ snap'[u] = snap[u] /\ outcomes'[u] = outcomes[u]
  /\ question'[u] = question[u] /\ guided'[u] = guided[u]
  /\ (u \in dropped' <=> u \in dropped) /\ (u \in refused' <=> u \in refused)
  /\ Messages(u)' = Messages(u) /\ Results(u)' = Results(u)
  /\ \A q : QueuedEvent(q, u) => (q \in ToSet(queue)' <=> q \in ToSet(queue))
  /\ \A c \in Callers : Concerns(c, u)' <=> Concerns(c, u)
  /\ \A c \in Callers : Concerns(c, u) => calls'[c] = calls[c]
  /\ \A g : g.task = u => (g \in effects' <=> g \in effects)

(* The session's answer is as good as before if the session went on or came back. *)
LEMMA AnsweringKept ==
  ASSUME IInv, Handling', NEW u, Answering(u), st'[u] = st[u],
         \A c \in Callers : CalledEvent(c, u)' => CalledEvent(c, u) /\ calls'[c] = calls[c],
         \/ session' = session /\ current' = current
         \/ session' = Idle
  PROVE  Answering(u)'
<1>1. CASE session' = session /\ current' = current
  BY <1>1 DEF Answering, AsksUser, Callers
<1>2. CASE session' = Idle
  <2>1. session'.pc = "idle" /\ calls'["session"].pc = "idle"
    BY <1>2 DEF Idle, Handling
  <2> QED BY <2>1 DEF Answering, CalledEvent
<1> QED BY <1>1, <1>2

(* A task that a step does not touch *)
LEMMA UntouchedKept ==
  ASSUME IInv, Types', Handling', NEW u \in owned, Untouched(u), DistinctIds(u)',
         \/ session' = session /\ current' = current
         \/ session' = Idle
  PROVE  Settled(u)'
<1>1. /\ st'[u] = st[u] /\ snap'[u] = snap[u] /\ outcomes'[u] = outcomes[u]
      /\ question'[u] = question[u] /\ guided'[u] = guided[u]
      /\ (u \in dropped' <=> u \in dropped) /\ (u \in refused' <=> u \in refused)
  BY DEF Untouched
<1>2. \A types : { g \in effects' : g.task = u /\ g.type \in types }
        = { g \in effects : g.task = u /\ g.type \in types }
  BY DEF Untouched
<1>3. \A types : Effects(u, types)' = Effects(u, types)
  BY <1>2 DEF Effects
<1>4. /\ Advancing(u)' = Advancing(u)
      /\ \A types : Starting(u, types)' = Starting(u, types)
      /\ CarryingCalls(u)' = CarryingCalls(u)
  <2>1. \A c \in Callers : c \in Advancing(u)' <=> c \in Advancing(u)
    BY DEF Untouched, Concerns, Advancing
  <2>2. \A types, c : c \in Callers => (c \in Starting(u, types)' <=> c \in Starting(u, types))
    BY DEF Untouched, Concerns, Starting
  <2>3. Advancing(u)' = Advancing(u)
    BY <2>1 DEF Advancing
  <2>4. \A types : Starting(u, types)' = Starting(u, types)
    BY <2>2 DEF Starting
  <2> QED BY <2>3, <2>4 DEF CarryingCalls
<1>5. Carriers(u)' = Carriers(u) /\ Announcing(u)' = Announcing(u)
  <2>1. Carriers(u)' = Messages(u)' + Effects(u, Carrying)' + Cardinality(CarryingCalls(u)')
        /\ Carriers(u) = Messages(u) + Effects(u, Carrying) + Cardinality(CarryingCalls(u))
    BY Counts, CountsNext, Zenon DEF IInv
  <2>2. Announcing(u)' = Results(u)' + Effects(u, Announcements)' + Cardinality(Starting(u, Announcements)')
        /\ Announcing(u) = Results(u) + Effects(u, Announcements) + Cardinality(Starting(u, Announcements))
    BY Counts, CountsNext, Zenon DEF IInv
  <2>3. Messages(u)' = Messages(u) /\ Results(u)' = Results(u)
    BY DEF Untouched
  <2>4. Effects(u, Carrying)' = Effects(u, Carrying) /\ Effects(u, Announcements)' = Effects(u, Announcements)
    BY <1>3, Zenon
  <2>5. Starting(u, Announcements)' = Starting(u, Announcements)
    BY <1>4, Zenon
  <2> QED BY <1>4, <2>1, <2>2, <2>3, <2>4, <2>5
<1>6. Coming(u)' = Coming(u)
  <2>1. \A e : e \in EventsOf(u)' <=> e \in EventsOf(u)
    <3>1. \A e : (\E q \in ToSet(queue)' : QueuedEvent(q, u) /\ e = q.event)
            <=> (\E q \in ToSet(queue) : QueuedEvent(q, u) /\ e = q.event)
      BY DEF Untouched
    <3>2. \A e : (\E c \in Callers : CalledEvent(c, u)' /\ e = calls'[c].event)
            <=> (\E c \in Callers : CalledEvent(c, u) /\ e = calls[c].event)
      BY DEF Untouched, Concerns, CalledEvent
    <3>3. \A e : (\E g \in effects' : g.task = u /\ e = g.event)
            <=> (\E g \in effects : g.task = u /\ e = g.event)
      BY DEF Untouched
    <3>4. \A e : e \in EventsOf(u) <=> \/ \E q \in ToSet(queue) : QueuedEvent(q, u) /\ e = q.event
                                       \/ \E c \in Callers : CalledEvent(c, u) /\ e = calls[c].event
                                       \/ \E g \in effects : g.task = u /\ e = g.event
      BY DEF EventsOf, QueuedEvent, CalledEvent
    <3>5. \A e : e \in EventsOf(u)' <=> \/ \E q \in ToSet(queue)' : QueuedEvent(q, u) /\ e = q.event
                                        \/ \E c \in Callers : CalledEvent(c, u)' /\ e = calls'[c].event
                                        \/ \E g \in effects' : g.task = u /\ e = g.event
      BY DEF EventsOf, QueuedEvent, CalledEvent
    <3> QED BY <3>1, <3>2, <3>3, <3>4, <3>5
  <2> QED BY <2>1 DEF Coming
<1>7. Doing(u)' = Doing(u)
  <2>1. \A c \in Starting(u, Carrying) : calls'[c] = calls[c]
    BY DEF Starting, Untouched, Concerns
  <2>2. { Work(calls'[c].effect.type, calls'[c].effect.ref, calls'[c].on) : c \in Starting(u, Carrying)' }
          = { Work(calls[c].effect.type, calls[c].effect.ref, calls[c].on) : c \in Starting(u, Carrying) }
    BY <1>4, <2>1
  <2>3. { h \in effects' : h.task = u /\ h.type \in Carrying /\ h.pc # "answer" }
          = { h \in effects : h.task = u /\ h.type \in Carrying /\ h.pc # "answer" }
    BY DEF Untouched
  <2> QED BY <2>2, <2>3 DEF Doing
<1>8. (Over(u)' <=> Over(u)) /\ (AsksUser(u)' <=> AsksUser(u))
  BY <1>1 DEF Over, AsksUser, TSM!IsTerminal, TSM!TerminalPhases
<1>9. Bounded(u)'
  BY <1>1, <1>5, <1>8 DEF Bounded, IInv
<1>10. Attended(u) => Attended(u)'
  BY <1>1, <1>6, <1>7, AttendedKept
<1>11. Known(u) => Known(u)'
  <2>1. Known(u) => \A g \in effects' : g.task = u /\ g.pc = "loaded" => g.own = snap[u]
    BY DEF Known, Untouched
  <2> QED BY <1>1, <1>6, <1>7, <2>1, TaskKept DEF Known
<1>12. Shown(u) => Shown(u)'
  BY <1>1, <1>8 DEF Shown, CalledEvent, Untouched, Concerns
<1>13. Answering(u) => Answering(u)'
  <2>1. \A c \in Callers : CalledEvent(c, u)' => CalledEvent(c, u) /\ calls'[c] = calls[c]
    BY DEF Untouched, Concerns, CalledEvent
  <2> QED BY <1>1, <2>1, AnsweringKept
<1> QED BY <1>1, <1>8, <1>9, <1>10, <1>11, <1>12, <1>13 DEF IInv, Settled

(* A task that has no more under way than before, and less only if something was dropped
   or its agent refused to go on *)
LEMMA TaskLess ==
  ASSUME IInv, Handling', NEW t \in owned,
         st'[t] = st[t], snap'[t] = snap[t], guided'[t] = guided[t], question'[t] = question[t],
         DistinctIds(t)', Bounded(t)',
         Coming(t)' \subseteq Coming(t), Doing(t)' \subseteq Doing(t),
         \/ t \in dropped' \cup refused'
         \/ Coming(t) \subseteq Coming(t)' /\ Doing(t) \subseteq Doing(t)',
         dropped \subseteq dropped', refused \subseteq refused',
         guided[t] = 0 => t \notin refused',
         \A g \in effects' : g.task = t /\ g.pc = "loaded" => g.own = snap[t] \/ g \in effects,
         \A c \in Callers : CalledEvent(c, t)' => CalledEvent(c, t) /\ calls'[c] = calls[c],
         \/ session' = session /\ current' = current
         \/ session' = Idle
  PROVE  Settled(t)'
<1>1. (Over(t)' <=> Over(t)) /\ (AsksUser(t)' <=> AsksUser(t))
  BY DEF Over, AsksUser, TSM!IsTerminal, TSM!TerminalPhases
<1>2. t \notin (dropped \cup refused)' => t \notin dropped \cup refused /\ (Attended(t) => Attended(t)')
  BY AttendedKept
<1>3. Known(t) /\ guided[t] = 0 => Known(t)'
  <2>1. Known(t) => \A g \in effects' : g.task = t /\ g.pc = "loaded" => g.own = snap[t]
    BY DEF Known
  <2> QED BY <2>1, TaskKept
<1>4. Shown(t) => Shown(t)'
  BY <1>1 DEF Shown
<1>5. Answering(t) => Answering(t)'
  BY AnsweringKept
<1> QED BY <1>1, <1>2, <1>3, <1>4, <1>5 DEF IInv, Settled

-----------------------------------------------------------------------------
(* A call that is over, and a call that is handled *)

Returns(c) ==
  /\ calls' = [calls EXCEPT ![c] = Idle]
  /\ session' = IF c = "session" THEN Idle ELSE session
  /\ current' = current \/ (c = "session" /\ current' = session.restore)

Dispatched(t, e, x) == [pc |-> "dispatch", task |-> t, on |-> e.type, effect |-> x, done |-> FALSE]

(* A call that returns leaves a session that is idle or goes on. *)
LEMMA ReturnKeeps ==
  ASSUME IInv, NEW c \in Callers, calls[c].pc # "idle", Returns(c), owned' = owned
  PROVE  /\ calls'[c] = Idle /\ calls'[c].pc = "idle"
         /\ \A d \in Callers \ {c} : calls'[d] = calls[d]
         /\ calls' \in [Callers -> {Idle} \cup DispatchCall \cup AdvanceCall(SessionEvents)]
         /\ session' \in Steps /\ current' \in owned' \cup {NoTask}
         /\ Handling'
         /\ (session' = session /\ current' = current) \/ session' = Idle
<1>0. Idle.pc = "idle"
  BY DEF Idle
<1>1. calls \in [Callers -> {Idle} \cup DispatchCall \cup AdvanceCall(SessionEvents)]
  BY DEF IInv, Types, SessionEvents
<1>2. calls'[c] = Idle /\ \A d \in Callers \ {c} : calls'[d] = calls[d]
  BY <1>1 DEF Returns
<1>3. calls' \in [Callers -> {Idle} \cup DispatchCall \cup AdvanceCall(SessionEvents)]
  BY <1>1 DEF Returns
<1>4. CASE c = "session"
  <2>1. session.pc = "publishing"
    BY <1>4 DEF IInv, Handling
  <2>2. session' = Idle /\ current' \in owned \cup {NoTask}
    BY <1>4, <2>1 DEF Returns, IInv, Handling, Types
  <2>3. Handling'
    BY <1>0, <1>2, <1>4, <2>2 DEF Handling, IInv, Callers
  <2> QED BY <1>0, <1>2, <1>3, <2>2, <2>3 DEF Steps
<1>5. CASE c = "worker"
  <2>1. session' = session /\ current' = current /\ calls'["session"] = calls["session"]
    BY <1>2, <1>5 DEF Returns, Callers
  <2>2. Handling'
    BY <1>0, <1>2, <1>5, <2>1 DEF Handling, IInv
  <2> QED BY <1>0, <1>2, <1>3, <2>1, <2>2 DEF IInv, Types
<1> QED BY <1>4, <1>5 DEF Callers

(* What Advance does with the event of the call *)
LEMMA AdvanceCases ==
  ASSUME IInv, NEW c \in Callers, Advance(c), NEW t, t = calls[c].task, NEW e, e = calls[c].event
  PROVE  /\ t \in owned /\ t \in Tasks /\ calls[c].pc = "advance"
         /\ e \in GoodEvent(SessionEvents) /\ e \in GoodEvent(TSM!EventTypes)
         /\ P!IInv' /\ \A u \in Tasks : u # t => st'[u] = st[u]
         /\ UNCHANGED <<snap, queue, effects, seq, owned, typed, ui, cancelled, dropped, refused>>
         /\ \A u \in Tasks : u # t => guided'[u] = guided[u]
         /\ guided'[t] = IF e.type = "user_input.received" /\ st[t].phase = "Running"
                         THEN guided[t] + 1 ELSE guided[t]
         /\ guided' \in [Tasks -> Nat]
         /\ e.id # st[t].lastEventID
         /\ \/ /\ ~P!Accepts(st[t], e) /\ st' = st /\ out'.verdict = "rejected"
               /\ Returns(c)
            \/ /\ P!Accepts(st[t], e) /\ st'[t].saved /\ st'[t].lastEventID = e.id
               /\ out'.verdict = "handled" /\ out'.effect \in TSM!Effect
               /\ P!OutcomeOK(e, st'[t], out'.effect)
               /\ P!EffectOK(st'[t], out'.effect)
               /\ st'[t].phase \in P!Phases
               /\ calls' = [calls EXCEPT ![c] = Dispatched(t, e, out'.effect)]
               /\ session' = session /\ current' = current
<1>1. calls[c].pc = "advance" /\ t \in owned /\ t \in Tasks
  BY SessionFacts DEF Advance, IInv, Owned
<1>2. calls[c] \in AdvanceCall(SessionEvents)
  BY <1>1, CallKinds DEF IInv
<1>3. e \in GoodEvent(SessionEvents)
  BY <1>2 DEF AdvanceCall
<1>4. e \in TSM!Event /\ e \in GoodEvent(TSM!EventTypes)
  BY <1>3 DEF GoodEvent, TSM!Event, TSM!AnyEvent
<1>5. e.id # st[t].lastEventID
  BY <1>1 DEF IInv, DistinctIds, CalledEvent
<1>6. /\ TSM!HandleEvent(t, e)
      /\ IF out'.effect = TSM!NoEffect
         THEN Return(c, out'.verdict = "rejected")
         ELSE /\ calls' = [calls EXCEPT ![c] = Dispatched(t, e, out'.effect)]
              /\ UNCHANGED <<session, current>>
      /\ guided' = [guided EXCEPT ![t] = IF e.type = "user_input.received" /\ st[t].phase = "Running"
                                         THEN @ + 1 ELSE @]
      /\ UNCHANGED <<snap, queue, effects, seq, owned, typed, ui, cancelled, dropped, refused>>
  BY DEF Advance, Dispatched
<1>7. /\ \A u \in Tasks : u # t => guided'[u] = guided[u]
      /\ guided'[t] = IF e.type = "user_input.received" /\ st[t].phase = "Running"
                      THEN guided[t] + 1 ELSE guided[t]
      /\ guided' \in [Tasks -> Nat]
  BY <1>1, <1>6 DEF IInv, Types
<1>8. Return(c, out'.verdict = "rejected") => Returns(c)
  BY DEF Return, Returns
<1>9. /\ P!IInv'
      /\ \A u \in Tasks : u # t => st'[u] = st[u]
      /\ \/ /\ ~P!Accepts(st[t], e) /\ st' = st
            /\ out'.effect = TSM!NoEffect /\ out'.verdict = "rejected"
         \/ /\ P!Accepts(st[t], e)
            /\ st'[t].saved /\ st'[t].lastEventID = e.id
            /\ out'.verdict = "handled"
            /\ out'.effect \in TSM!Effect \cup {TSM!NoEffect}
            /\ P!OutcomeOK(e, st'[t], out'.effect)
            /\ P!EffectOK(st'[t], out'.effect)
            /\ st'[t].phase \in P!Phases
  BY <1>1, <1>4, <1>5, <1>6, HandledEvent DEF IInv
<1>10. CASE ~P!Accepts(st[t], e) /\ st' = st /\ out'.effect = TSM!NoEffect /\ out'.verdict = "rejected"
  BY <1>1, <1>3, <1>4, <1>5, <1>6, <1>7, <1>8, <1>9, <1>10
<1>11. CASE /\ P!Accepts(st[t], e)
            /\ st'[t].saved /\ st'[t].lastEventID = e.id
            /\ out'.verdict = "handled"
            /\ out'.effect \in TSM!Effect \cup {TSM!NoEffect}
            /\ P!OutcomeOK(e, st'[t], out'.effect)
            /\ P!EffectOK(st'[t], out'.effect)
            /\ st'[t].phase \in P!Phases
  <2>1. e.type \in SessionEvents
    BY <1>3 DEF GoodEvent
  <2>2. PICK o, s, x : o = st[t] /\ s = st'[t] /\ x = out'.effect
    OBVIOUS
  <2>3. x # TSM!NoEffect
    BY <1>11, <2>1, <2>2, AcceptedFits
  <2> QED BY <1>1, <1>3, <1>4, <1>5, <1>6, <1>7, <1>9, <1>11, <2>2, <2>3
<1> QED BY <1>9, <1>10, <1>11

-----------------------------------------------------------------------------
(* Advance: the caller gives its event up and takes an effect or returns. *)

(* The callers after Advance *)
LEMMA AdvanceCallers ==
  ASSUME IInv, NEW c \in Callers, Advance(c), NEW t, t = calls[c].task, NEW e, e = calls[c].event
  PROVE  /\ \A d \in Callers \ {c} : calls'[d] = calls[d]
         /\ calls'[c].pc # "advance" /\ (calls'[c].pc # "idle" => calls'[c].task = t)
         /\ calls' \in [Callers -> {Idle} \cup DispatchCall \cup AdvanceCall(SessionEvents)]
         /\ session' \in Steps /\ current' \in owned' \cup {NoTask}
         /\ Handling'
         /\ (session' = session /\ current' = current) \/ session' = Idle
<1>1. /\ t \in owned /\ t \in Tasks /\ calls[c].pc = "advance" /\ owned' = owned
      /\ e \in GoodEvent(SessionEvents) /\ e \in GoodEvent(TSM!EventTypes)
  BY AdvanceCases
<1>2. CASE Returns(c)
  BY <1>1, <1>2, ReturnKeeps
<1>3. CASE /\ out'.effect \in TSM!Effect
           /\ calls' = [calls EXCEPT ![c] = Dispatched(t, e, out'.effect)]
           /\ session' = session /\ current' = current
  <2>1. PICK k : k = Dispatched(t, e, out'.effect)
    OBVIOUS
  <2>2. k.pc = "dispatch" /\ k.task = t
    BY <2>1 DEF Dispatched
  <2>3. k \in DispatchCall
    BY <1>1, <1>3, <2>1 DEF Dispatched, DispatchCall, GoodEvent
  <2>4. calls \in [Callers -> {Idle} \cup DispatchCall \cup AdvanceCall(SessionEvents)]
    BY DEF IInv, Types, SessionEvents
  <2>5. calls'[c] = k /\ \A d \in Callers \ {c} : calls'[d] = calls[d]
    BY <1>3, <2>1, <2>4
  <2>6. calls' \in [Callers -> {Idle} \cup DispatchCall \cup AdvanceCall(SessionEvents)]
    BY <1>3, <2>1, <2>3, <2>4
  <2>7. session' \in Steps /\ current' \in owned' \cup {NoTask}
    BY <1>1, <1>3 DEF IInv, Types
  <2>8. Handling'
    BY <1>1, <1>3, <2>2, <2>5 DEF IInv, Handling, Callers
  <2> QED BY <1>3, <2>2, <2>5, <2>6, <2>7, <2>8
<1> QED BY <1>2, <1>3, AdvanceCases

(* No event becomes a second one, and the task remembers the one it has handled. *)
LEMMA AdvanceIds ==
  ASSUME IInv, NEW c \in Callers, Advance(c), NEW u \in owned
  PROVE  DistinctIds(u)'
<1>1. PICK t, e : t = calls[c].task /\ e = calls[c].event
  OBVIOUS
<1>2. /\ t \in owned /\ t \in Tasks /\ calls[c].pc = "advance"
      /\ queue' = queue /\ effects' = effects
      /\ \A v \in Tasks : v # t => st'[v] = st[v]
      /\ st'[t].lastEventID \in {st[t].lastEventID, e.id}
  BY <1>1, AdvanceCases
<1>3. \A d \in Callers : CalledEvent(d, u)' => d # c /\ CalledEvent(d, u) /\ calls'[d] = calls[d]
  BY <1>1, AdvanceCallers DEF CalledEvent
<1>4. DistinctIds(u)
  BY DEF IInv
<1>5. st'[u].lastEventID = st[u].lastEventID \/ (u = t /\ st'[u].lastEventID = e.id)
  BY <1>2, SessionFacts
<1>6. CalledEvent(c, t) /\ calls[c].event = e
  BY <1>1, <1>2 DEF CalledEvent
<1>7. /\ \A q \in ToSet(queue) : QueuedEvent(q, u) => q.event.id # st'[u].lastEventID
      /\ \A g \in effects : EffectEvent(g, u) => g.event.id # st'[u].lastEventID
      /\ \A d \in Callers : CalledEvent(d, u)' => calls'[d].event.id # st'[u].lastEventID
  BY <1>3, <1>4, <1>5, <1>6 DEF DistinctIds
<1> QED BY <1>2, <1>3, <1>4, <1>7 DEF DistinctIds, QueuedEvent, EffectEvent

(* What is under way for the task of the call *)
LEMMA AdvanceSums ==
  ASSUME IInv, NEW c \in Callers, Advance(c), Types', NEW t, t = calls[c].task, NEW e, e = calls[c].event
  PROVE  /\ Carriers(t)' + One(e.type # "user_input.received") =
              Carriers(t) + One(c \in CarryingCalls(t)')
         /\ Announcing(t)' = Announcing(t) + One(c \in Starting(t, Announcements)')
<1>1. /\ t \in owned /\ t \in Tasks /\ calls[c].pc = "advance"
      /\ queue' = queue /\ effects' = effects
  BY AdvanceCases
<1>2. \A d \in Callers \ {c} : calls'[d] = calls[d]
  BY AdvanceCallers
<1>3. c \in CarryingCalls(t) <=> e.type # "user_input.received"
  BY <1>1 DEF CarryingCalls, Advancing, Starting
<1>4. c \notin Starting(t, Announcements)
  BY <1>1 DEF Starting
<1>5. /\ Cardinality(CarryingCalls(t)') + One(c \in CarryingCalls(t)) =
           Cardinality(CarryingCalls(t)) + One(c \in CarryingCalls(t)')
      /\ Cardinality(Starting(t, Announcements)') + One(c \in Starting(t, Announcements)) =
           Cardinality(Starting(t, Announcements)) + One(c \in Starting(t, Announcements)')
  BY <1>2, CallsChange
<1>6. PICK j \in {0, 1}, k \in {0, 1}, l \in {0, 1} :
        /\ j = One(e.type # "user_input.received") /\ k = One(c \in CarryingCalls(t)')
        /\ l = One(c \in Starting(t, Announcements)')
  BY DEF One
<1>7. One(c \in CarryingCalls(t)) = j /\ One(c \in Starting(t, Announcements)) = 0
  BY <1>3, <1>4, <1>6 DEF One
<1>8. /\ Messages(t)' = Messages(t) /\ Results(t)' = Results(t)
      /\ Effects(t, Carrying)' = Effects(t, Carrying)
      /\ Effects(t, Announcements)' = Effects(t, Announcements)
  BY <1>1, CountsKept, Zenon
<1>9. /\ Messages(t) \in Nat /\ Results(t) \in Nat
      /\ Effects(t, Carrying) \in Nat /\ Effects(t, Announcements) \in Nat
      /\ Cardinality(CarryingCalls(t)) \in Nat /\ Cardinality(Starting(t, Announcements)) \in Nat
      /\ Cardinality(CarryingCalls(t)') \in Nat /\ Cardinality(Starting(t, Announcements)') \in Nat
      /\ Carriers(t) \in Nat /\ Carriers(t)' \in Nat /\ Announcing(t) \in Nat /\ Announcing(t)' \in Nat
  BY Counts, CountsNext, Zenon DEF IInv
<1>10. /\ Messages(t)' + 0 = Messages(t) + 0
       /\ Effects(t, Carrying)' + 0 = Effects(t, Carrying) + 0
       /\ Cardinality(CarryingCalls(t)') + j = Cardinality(CarryingCalls(t)) + k
  BY <1>5, <1>6, <1>7, <1>8, <1>9
<1>11. Carriers(t)' + (0 + 0 + j) = Carriers(t) + (0 + 0 + k)
  BY <1>10, Tally DEF IInv
<1>12. /\ Results(t)' + 0 = Results(t) + 0
       /\ Effects(t, Announcements)' + 0 = Effects(t, Announcements) + 0
       /\ Cardinality(Starting(t, Announcements)') + 0 = Cardinality(Starting(t, Announcements)) + l
  BY <1>5, <1>6, <1>7, <1>8, <1>9
<1>13. Announcing(t)' + (0 + 0 + 0) = Announcing(t) + (0 + 0 + l)
  BY <1>12, TallyOutcomes DEF IInv
<1> QED BY <1>6, <1>9, <1>11, <1>13

(* No other task is touched. *)
LEMMA AdvanceOthers ==
  ASSUME IInv, NEW c \in Callers, Advance(c), Types', NEW u \in owned, u # calls[c].task
  PROVE  Settled(u)'
<1>1. PICK t, e : t = calls[c].task /\ e = calls[c].event
  OBVIOUS
<1>2. /\ UNCHANGED <<snap, queue, effects, seq, owned, typed, ui, cancelled, dropped, refused>>
      /\ st'[u] = st[u] /\ guided'[u] = guided[u]
  BY <1>1, AdvanceCases, SessionFacts
<1>3. \A d \in Callers : Concerns(d, u)' <=> Concerns(d, u)
  BY <1>1, AdvanceCallers DEF Concerns
<1>4. \A d \in Callers : Concerns(d, u) => calls'[d] = calls[d]
  BY <1>1, AdvanceCallers DEF Concerns
<1>5. Messages(u)' = Messages(u) /\ Results(u)' = Results(u)
  BY <1>2, CountsKept, Zenon
<1>6. Untouched(u)
  BY <1>2, <1>3, <1>4, <1>5 DEF Untouched, ui
<1>7. DistinctIds(u)'
  BY AdvanceIds
<1> QED BY <1>1, <1>6, <1>7, AdvanceCallers, UntouchedKept

-----------------------------------------------------------------------------
(* An event the task waits for is not rejected, and a task that nothing was handled for
   accepts its start only. *)
LEMMA FitIsTaken ==
  ASSUME IInv, NEW t \in Tasks, NEW e \in GoodEvent(TSM!EventTypes), e.type \in SessionEvents
  PROVE  /\ EventFits(st[t], e) => P!Accepts(st[t], e)
         /\ P!Accepts(st[t], e) /\ st[t].phase = "Created" => e.type = "task.start_requested"
<1>1. P!PendingOK(st[t]) /\ (st[t].phase # "Created" => st[t].saved)
  BY DEF IInv, P!IInv, P!Good, Owned
<1>2. PICK s : s = st[t]
  OBVIOUS
<1>3. EventFits(s, e) => P!Accepts(s, e)
  BY <1>1, <1>2, FittingIsAccepted
<1>4. P!Accepts(s, e) /\ s.phase = "Created" => e.type = "task.start_requested"
  BY DEF P!Accepts, SessionEvents, Produced, TurnEvents, ModelAnswers, ToolAnswers, TSM!RequestEvents,
         P!RequestEvents, P!FlowEvents, P!WaitingPhases
<1> QED BY <1>2, <1>3, <1>4

(* The types and where everybody is, after a step of Advance *)
LEMMA AdvanceStructure ==
  ASSUME IInv, NEW c \in Callers, Advance(c)
  PROVE  Types' /\ Numbered' /\ Owned' /\ Handling' /\ Started'
<1>1. PICK t, e : t = calls[c].task /\ e = calls[c].event
  OBVIOUS
<1>2. /\ t \in owned /\ t \in Tasks /\ calls[c].pc = "advance"
      /\ UNCHANGED <<snap, queue, effects, seq, owned, typed, ui, cancelled, dropped, refused>>
      /\ guided' \in [Tasks -> Nat]
      /\ e \in GoodEvent(SessionEvents) /\ e \in GoodEvent(TSM!EventTypes)
      /\ \A u \in Tasks : u # t => st'[u] = st[u]
  BY <1>1, AdvanceCases
<1>3. /\ \A d \in Callers \ {c} : calls'[d] = calls[d]
      /\ calls'[c].pc # "advance" /\ (calls'[c].pc # "idle" => calls'[c].task = t)
      /\ calls' \in [Callers -> {Idle} \cup DispatchCall \cup AdvanceCall(SessionEvents)]
      /\ session' \in Steps /\ current' \in owned' \cup {NoTask}
      /\ Handling'
  BY <1>1, AdvanceCallers
<1>4. e.type \in SessionEvents
  BY <1>2 DEF GoodEvent
<1>5. /\ P!Accepts(st[t], e) \/ st' = st
      /\ \/ st'[t] = st[t] /\ ~P!Accepts(st[t], e)
         \/ st'[t].phase # "Created" /\ P!Accepts(st[t], e) /\ st'[t].saved
  <2>1. CASE ~P!Accepts(st[t], e) /\ st' = st
    BY <2>1
  <2>2. CASE /\ P!Accepts(st[t], e) /\ st'[t].saved
             /\ P!OutcomeOK(e, st'[t], out'.effect)
             /\ P!EffectOK(st'[t], out'.effect)
             /\ st'[t].phase \in P!Phases
    <3>1. PICK o, s, x : o = st[t] /\ s = st'[t] /\ x = out'.effect
      OBVIOUS
    <3>2. s.phase # "Created"
      BY <1>4, <2>2, <3>1, AcceptedFits
    <3> QED BY <2>2, <3>1, <3>2
  <2> QED BY <1>1, <2>1, <2>2, AdvanceCases
<1>6. Types'
  BY <1>2, <1>3 DEF IInv, Types, SessionEvents, ui
<1>7. Numbered'
  BY <1>2 DEF IInv, Numbered, Sensible
<1>8. Owned'
  <2>1. \A d \in Callers : calls'[d].pc # "idle" => calls'[d].task \in owned'
    BY <1>2, <1>3 DEF IInv, Owned
  <2>2. \A u \in Tasks \ owned : st'[u] = st[u]
    BY <1>2
  <2>3. \A u \in Tasks : st'[u].phase # "Created" => st'[u].saved
    BY <1>2, <1>5 DEF IInv, Owned
  <2> QED BY <1>2, <2>1, <2>2, <2>3 DEF IInv, Owned, ui
<1>9. Started'
  <2>1. ASSUME NEW u \in owned, u # t
        PROVE  st'[u].phase = "Created" <=> Starts(u)'
    <3>1. st'[u] = st[u]
      BY <1>2, <2>1, SessionFacts
    <3>2. Starts(u)' <=> Starts(u)
      BY <1>1, <1>3, <2>1 DEF Starts, Callers
    <3> QED BY <3>1, <3>2 DEF IInv, Started
  <2>2. st'[t].phase = "Created" <=> Starts(t)'
    <3>1. CASE c = "session"
      <4>1. ~Starts(t)'
        BY <1>3, <3>1 DEF Starts
      <4>2. st'[t].phase # "Created"
        <5>1. CASE st'[t] = st[t] /\ ~P!Accepts(st[t], e)
          <6>1. ~EventFits(st[t], e)
            BY <1>2, <1>4, <5>1, FitIsTaken
          <6>2. st[t].phase = "Created" => Starts(t)
            BY <1>2 DEF IInv, Started
          <6>3. Starts(t) => e.type = "task.start_requested"
            BY <1>1, <3>1 DEF Starts
          <6> QED BY <5>1, <6>1, <6>2, <6>3 DEF EventFits
        <5> QED BY <1>5, <5>1
      <4> QED BY <4>1, <4>2
    <3>2. CASE c = "worker"
      <4>1. Starts(t)' <=> Starts(t)
        BY <1>3, <3>2 DEF Starts, Callers
      <4>2. e.type # "task.start_requested"
        <5>1. e.type \in Produced
          BY <1>1, <1>2, <3>2 DEF IInv, Handling
        <5> QED BY <5>1 DEF Produced, TurnEvents, ModelAnswers, ToolAnswers, TSM!RequestEvents
      <4>3. P!Accepts(st[t], e) => st[t].phase # "Created"
        BY <1>2, <1>4, <4>2, FitIsTaken
      <4> QED BY <1>2, <1>5, <4>1, <4>3 DEF IInv, Started
    <3> QED BY <3>1, <3>2 DEF Callers
  <2> QED BY <1>2, <2>1, <2>2 DEF Started
<1> QED BY <1>3, <1>6, <1>7, <1>8, <1>9

-----------------------------------------------------------------------------
(* The task whose event Advance handles *)

(* Of the events on their way only the caller's is gone, of the work only an effect of
   the caller's can be new. *)
LEMMA AdvanceWork ==
  ASSUME IInv, NEW c \in Callers, Advance(c), NEW t, t = calls[c].task, NEW e, e = calls[c].event
  PROVE  /\ Coming(t)' \subseteq Coming(t) /\ Coming(t) \subseteq Coming(t)' \cup {e}
         /\ Doing(t) \subseteq Doing(t)'
         /\ c \notin Starting(t, Carrying)' => Doing(t)' = Doing(t)
         /\ c \in Starting(t, Carrying)' =>
              Work(calls'[c].effect.type, calls'[c].effect.ref, calls'[c].on) \in Doing(t)'
<1>1. /\ calls[c].pc = "advance" /\ queue' = queue /\ effects' = effects /\ st'[t] = st'[t]
  BY AdvanceCases
<1>2. (\A d \in Callers \ {c} : calls'[d] = calls[d]) /\ calls'[c].pc # "advance"
  BY AdvanceCallers
<1>3. EventsOf(t)' \subseteq EventsOf(t) /\ EventsOf(t) \subseteq EventsOf(t)' \cup {e}
  BY <1>1, <1>2 DEF EventsOf
<1>4. Coming(t)' \subseteq Coming(t) /\ Coming(t) \subseteq Coming(t)' \cup {e}
  BY <1>3 DEF Coming
<1>5. Starting(t, Carrying) \subseteq Starting(t, Carrying)' /\ c \notin Starting(t, Carrying)
      /\ Starting(t, Carrying)' \ {c} = Starting(t, Carrying)
  BY <1>1, <1>2 DEF Starting
<1>6. \A d \in Starting(t, Carrying) : calls'[d] = calls[d]
  BY <1>2, <1>5 DEF Starting
<1>7. Doing(t) \subseteq Doing(t)'
  BY <1>1, <1>5, <1>6 DEF Doing
<1>8. c \notin Starting(t, Carrying)' => Doing(t)' = Doing(t)
  BY <1>1, <1>5, <1>6 DEF Doing
<1>9. c \in Starting(t, Carrying)' => Work(calls'[c].effect.type, calls'[c].effect.ref, calls'[c].on) \in Doing(t)'
  BY DEF Doing
<1> QED BY <1>4, <1>7, <1>8, <1>9

(* The task of a rejected event *)
LEMMA AdvanceRejected ==
  ASSUME IInv, NEW c \in Callers, Advance(c), NEW t, t = calls[c].task, NEW e, e = calls[c].event,
         ~P!Accepts(st[t], e), Types', Handling'
  PROVE  Settled(t)'
<1>1. /\ t \in owned /\ t \in Tasks /\ calls[c].pc = "advance"
      /\ UNCHANGED <<snap, queue, effects, seq, owned, typed, ui, cancelled, dropped, refused>>
      /\ guided'[t] = IF e.type = "user_input.received" /\ st[t].phase = "Running"
                      THEN guided[t] + 1 ELSE guided[t]
      /\ e \in GoodEvent(SessionEvents) /\ e \in GoodEvent(TSM!EventTypes)
      /\ st' = st /\ Returns(c)
  BY AdvanceCases
<1>2. /\ calls'[c] = Idle /\ calls'[c].pc = "idle"
      /\ \A d \in Callers \ {c} : calls'[d] = calls[d]
      /\ (session' = session /\ current' = current) \/ session' = Idle
  BY <1>1, ReturnKeeps
<1>3. guided[t] \in Nat /\ guided'[t] \in Nat /\ guided[t] <= guided'[t]
  BY <1>1 DEF IInv, Types
<1>4. c \notin CarryingCalls(t)' /\ c \notin Starting(t, Announcements)' /\ c \notin Starting(t, Carrying)'
  BY <1>2 DEF CarryingCalls, Starting, Advancing
<1>5. Carriers(t)' <= Carriers(t) /\ Announcing(t)' = Announcing(t)
      /\ Carriers(t) \in Nat /\ Carriers(t)' \in Nat /\ Announcing(t) \in Nat
  <2>1. /\ Carriers(t)' + One(e.type # "user_input.received") =
              Carriers(t) + One(c \in CarryingCalls(t)')
        /\ Announcing(t)' = Announcing(t) + One(c \in Starting(t, Announcements)')
    BY AdvanceSums
  <2>2. One(c \in CarryingCalls(t)') = 0 /\ One(c \in Starting(t, Announcements)') = 0
        /\ One(e.type # "user_input.received") \in {0, 1}
    BY <1>4 DEF One
  <2>3. Carriers(t) \in Nat /\ Carriers(t)' \in Nat /\ Announcing(t) \in Nat /\ Announcing(t)' \in Nat
    BY Counts, CountsNext, Zenon DEF IInv
  <2> QED BY <2>1, <2>2, <2>3
<1>6. (Over(t)' <=> Over(t)) /\ (AsksUser(t)' <=> AsksUser(t))
  BY <1>1 DEF Over, AsksUser, TSM!IsTerminal, TSM!TerminalPhases
<1>7. Bounded(t)'
  <2>1. Bounded(t) /\ outcomes' = outcomes /\ dropped' = dropped
    BY <1>1 DEF IInv, ui
  <2>2. PICK a, b, g, h : a = Carriers(t) /\ b = Carriers(t)' /\ g = guided[t] /\ h = guided'[t]
    OBVIOUS
  <2>3. a <= g + (IF AsksUser(t) \/ Over(t) THEN 0 ELSE 1)
    BY <2>1, <2>2 DEF Bounded
  <2>4. b <= h + (IF AsksUser(t)' \/ Over(t)' THEN 0 ELSE 1)
    BY <1>3, <1>5, <1>6, <2>2, <2>3
  <2> QED BY <1>5, <1>6, <2>1, <2>2, <2>4 DEF Bounded
<1>8. /\ Coming(t)' \subseteq Coming(t) /\ Coming(t) \subseteq Coming(t)' \cup {e}
      /\ Doing(t)' = Doing(t)
  BY <1>4, AdvanceWork
<1>9. ~EventFits(st[t], e)
  <2>1. e.type \in SessionEvents
    BY <1>1 DEF GoodEvent
  <2> QED BY <1>1, <2>1, FitIsTaken
<1>10. Attended(t) => Attended(t)'
  BY <1>1, <1>8, <1>9 DEF Attended
<1>11. Known(t) => Known(t)'
  BY <1>1, <1>8, TaskKept DEF Known
<1>12. \A d \in Callers : CalledEvent(d, t)' => CalledEvent(d, t) /\ calls'[d] = calls[d]
  BY <1>2 DEF CalledEvent
<1>13. Shown(t) => Shown(t)'
  BY <1>1, <1>6, <1>12 DEF Shown, ui
<1>14. Answering(t) => Answering(t)'
  <2> QED BY <1>1, <1>2, <1>12, AnsweringKept
<1>15. DistinctIds(t)'
  BY <1>1, AdvanceIds
<1>16. guided'[t] = 0 => guided[t] = 0
  BY <1>3
<1> QED BY <1>1, <1>6, <1>7, <1>10, <1>11, <1>13, <1>14, <1>15, <1>16 DEF IInv, Settled

(* The task of an accepted event *)
LEMMA AdvanceAccepted ==
  ASSUME IInv, NEW c \in Callers, Advance(c), NEW t, t = calls[c].task, NEW e, e = calls[c].event,
         P!Accepts(st[t], e), Types', Numbered', Handling'
  PROVE  Settled(t)'
<1>1. /\ t \in owned /\ t \in Tasks /\ calls[c].pc = "advance"
      /\ UNCHANGED <<snap, queue, effects, seq, owned, typed, ui, cancelled, dropped, refused>>
      /\ guided'[t] = IF e.type = "user_input.received" /\ st[t].phase = "Running"
                      THEN guided[t] + 1 ELSE guided[t]
      /\ e \in GoodEvent(SessionEvents) /\ e \in GoodEvent(TSM!EventTypes)
      /\ P!OutcomeOK(e, st'[t], out'.effect) /\ out'.effect \in TSM!Effect
      /\ P!EffectOK(st'[t], out'.effect) /\ st'[t].phase \in P!Phases
      /\ calls' = [calls EXCEPT ![c] = Dispatched(t, e, out'.effect)]
      /\ session' = session /\ current' = current
  BY AdvanceCases
<1>2. PICK o, s, x : o = st[t] /\ s = st'[t] /\ x = out'.effect
  OBVIOUS
<1>3. e.type \in SessionEvents
  BY <1>1 DEF GoodEvent
<1>4. /\ ~TSM!IsTerminal(o)
      /\ e.type = "task.start_requested" => o.phase = "Created"
      /\ e.type = "user_input.received" => o.phase \in {"Running", "WaitingUserInput"}
      /\ \/ TSM!IsTerminal(s) /\ x.type \in Announcements
         \/ s.phase = "WaitingUserInput" /\ x.type = "user_input.request"
         \/ /\ ~TSM!IsTerminal(s) /\ s.phase # "WaitingUserInput"
            /\ x.type \in Carrying /\ WorkFits(s, Work(x.type, x.ref, e.type))
  BY <1>1, <1>2, <1>3, AcceptedFits
<1>5. /\ calls'[c].pc = "dispatch" /\ calls'[c].task = t /\ calls'[c].on = e.type /\ calls'[c].effect = x
      /\ \A d \in Callers \ {c} : calls'[d] = calls[d]
  <2>1. calls \in [Callers -> {Idle} \cup DispatchCall \cup AdvanceCall(SessionEvents)]
    BY DEF IInv, Types, SessionEvents
  <2> QED BY <1>1, <1>2, <2>1 DEF Dispatched
<1>6. "user_input.request" \notin Carrying /\ "user_input.request" \notin Announcements
      /\ Carrying \cap Announcements = {}
  BY DEF Carrying, Announcements
<1>7. /\ c \in CarryingCalls(t)' <=> x.type \in Carrying
      /\ c \in Starting(t, Carrying)' <=> x.type \in Carrying
      /\ c \in Starting(t, Announcements)' <=> x.type \in Announcements
  BY <1>5 DEF CarryingCalls, Starting, Advancing
<1>8. /\ ~Over(t)
      /\ Over(t)' <=> x.type \in Announcements
      /\ AsksUser(t)' \/ Over(t)' <=> x.type \notin Carrying
      /\ ~(AsksUser(t)' /\ Over(t)')
  BY <1>2, <1>4, <1>6 DEF Over, AsksUser, TSM!IsTerminal, TSM!TerminalPhases
<1>9. PICK j \in {0, 1}, k \in {0, 1}, l \in {0, 1} :
        /\ j = One(e.type # "user_input.received") /\ k = One(c \in CarryingCalls(t)')
        /\ l = One(c \in Starting(t, Announcements)')
  BY DEF One
<1>10. /\ Carriers(t)' + j = Carriers(t) + k /\ Announcing(t)' = Announcing(t) + l
       /\ Carriers(t) \in Nat /\ Carriers(t)' \in Nat /\ Announcing(t) \in Nat
       /\ outcomes[t] \in Nat /\ guided[t] \in Nat
  <2>1. Carriers(t) \in Nat /\ Carriers(t)' \in Nat /\ Announcing(t) \in Nat
    BY Counts, CountsNext, Zenon DEF IInv
  <2> QED BY <1>1, <1>9, <2>1, AdvanceSums DEF IInv, Types
<1>11. Bounded(t) /\ outcomes' = outcomes
  BY <1>1 DEF IInv, ui
<1>12. Bounded(t)'
  <2>1. PICK a, b, g, h, p, q, m : /\ a = Carriers(t) /\ b = Carriers(t)' /\ g = guided[t] /\ h = guided'[t]
                             /\ p = Announcing(t) /\ q = Announcing(t)' /\ m = outcomes[t]
    OBVIOUS
  <2>2. a <= g + (IF AsksUser(t) THEN 0 ELSE 1) /\ m + p <= 0
    BY <1>8, <1>11, <2>1 DEF Bounded
  <2>3. k = (IF AsksUser(t)' \/ Over(t)' THEN 0 ELSE 1) /\ l = (IF Over(t)' THEN 1 ELSE 0)
    BY <1>7, <1>8, <1>9 DEF One
  <2>4. \/ h = g /\ j = 1
        \/ h = g + 1 /\ j = 0
        \/ h = g /\ j = 0 /\ AsksUser(t)
    BY <1>1, <1>2, <1>4, <1>9, <2>1 DEF One, AsksUser
  <2>5. b + j = a + k /\ q = p + l /\ a \in Nat /\ b \in Nat /\ g \in Nat /\ p \in Nat /\ m \in Nat
    BY <1>10, <2>1
  <2>6. b <= h + k
    BY <2>2, <2>4, <2>5
  <2>7. m + q = l
    BY <2>2, <2>5
  <2> QED BY <1>11, <2>1, <2>3, <2>6, <2>7 DEF Bounded
<1>13. ~Over(t)' /\ ~AsksUser(t)' => Attended(t)'
  <2>1. SUFFICES ASSUME ~Over(t)', ~AsksUser(t)' PROVE Attended(t)'
    OBVIOUS
  <2>0. x.type \in Carrying
    BY <1>8, <2>1
  <2>2. x.type \in Carrying /\ WorkFits(s, Work(x.type, x.ref, e.type))
    BY <1>4, <1>6, <2>0
  <2>3. Work(x.type, x.ref, e.type) \in Doing(t)'
    BY <1>5, <1>7, <2>2, AdvanceWork
  <2> QED BY <1>2, <2>2, <2>3 DEF Attended
<1>14. ASSUME guided'[t] = 0 PROVE Known(t)' /\ Shown(t)' /\ Answering(t)'
  <2>1. /\ guided[t] = 0 /\ Known(t) /\ Shown(t) /\ Answering(t)
        /\ e.type = "user_input.received" => o.phase = "WaitingUserInput"
    BY <1>1, <1>2, <1>4, <1>10, <1>14 DEF IInv
  <2>2. Carriers(t) <= IF AsksUser(t) THEN 0 ELSE 1
    BY <1>8, <1>10, <1>11, <2>1 DEF Bounded
  <2>3. Carriers(t)' <= 1 /\ (x.type \notin Carrying => Carriers(t)' = 0)
    BY <1>8, <1>10, <1>12, <1>14 DEF Bounded
  <2>4. /\ \A f \in Coming(t)' : FALSE
        /\ \A y \in Doing(t)' : x.type \in Carrying /\ y = Work(x.type, x.ref, e.type)
        /\ Goroutines(t)' = {}
    <3>1. Solitary(t)'
      BY AloneNext
    <3>2. CASE x.type \in Carrying
      BY <1>5, <1>7, <2>3, <3>1, <3>2 DEF Solitary
    <3>3. CASE x.type \notin Carrying
      BY <2>3, <3>1, <3>3 DEF Solitary
    <3> QED BY <3>2, <3>3
  <2>5. e.type \notin {"task.start_requested", "user_input.received"} => EventKnown(o, snap[t], e)
    <3>1. SUFFICES ASSUME e.type \notin {"task.start_requested", "user_input.received"} PROVE e \in Coming(t)
      BY <1>2, <2>1 DEF Known
    <3>2. e.type # "none"
      BY <1>3 DEF SessionEvents, Produced, TurnEvents, ModelAnswers, ToolAnswers, TSM!RequestEvents
    <3> QED BY <1>1, <3>1, <3>2 DEF Coming, EventsOf
  <2>6. e.type # "task.start_requested" => snap[t].saved
    <3>1. CASE e.type = "user_input.received"
      BY <1>2, <2>1, <3>1 DEF Known, TSM!WaitingPhases
    <3>2. CASE e.type # "user_input.received"
      BY <2>5, <3>2 DEF EventKnown
    <3> QED BY <3>1, <3>2
  <2>7. x.type \in Carrying => WorkKnown(s, snap[t], Work(x.type, x.ref, e.type))
    <3>1. SUFFICES ASSUME x.type \in Carrying PROVE WorkKnown(s, snap[t], Work(x.type, x.ref, e.type))
      OBVIOUS
    <3>2. WorkFits(s, Work(x.type, x.ref, e.type))
      BY <1>4, <1>6, <3>1
    <3>3. PICK y : y = Work(x.type, x.ref, e.type)
      OBVIOUS
    <3>4. y.type = x.type /\ y.ref = x.ref /\ y.on = e.type
      BY <3>3 DEF Work
    <3>5. x.type # "agent.start" => snap[t].saved
      BY <1>1, <1>2, <2>6 DEF P!OutcomeOK
    <3>6. x.type = "model.call" => x.ref = snap[t].pendingModel
      <4>1. SUFFICES ASSUME x.type = "model.call" PROVE x.ref = snap[t].pendingModel
        OBVIOUS
      <4>2. s.phase = "WaitingModel" /\ x.ref = s.pendingModel
        BY <3>2, <4>1 DEF WorkFits, Turns, Work
      <4>3. e.type = "agent.model_requested" /\ s.pendingModel = e.ref
        BY <1>1, <1>2, <4>2 DEF P!OutcomeOK
      <4> QED BY <2>5, <4>2, <4>3 DEF EventKnown
    <3>7. x.type = "agent.resume" /\ e.type \in ModelAnswers => x.ref = snap[t].pendingModel
      <4>1. SUFFICES ASSUME x.type = "agent.resume", e.type \in ModelAnswers PROVE x.ref = snap[t].pendingModel
        OBVIOUS
      <4>2. x.ref = e.ref
        BY <1>1, <1>2, <4>1 DEF P!OutcomeOK
      <4> QED BY <2>5, <4>1, <4>2 DEF EventKnown, ModelAnswers
    <3> QED BY <3>2, <3>3, <3>4, <3>5, <3>6, <3>7 DEF WorkKnown
  <2>8. s.phase \in TSM!WaitingPhases => snap[t].saved
    <3>1. s.phase \in TSM!WaitingPhases => e.type \in TSM!RequestEvents
      BY <1>1, <1>2, SameTypes DEF P!OutcomeOK
    <3> QED BY <2>6, <3>1 DEF TSM!RequestEvents
  <2>9. Known(t)'
    <3>1. \A g \in effects' : g.task = t /\ g.pc = "loaded" => FALSE
      <4>1. \A g \in effects' : g.pc = "loaded" => g.type \in Carrying
        BY DEF Numbered, Sensible, Carrying, Announcements, TSM!EffectTypes
      <4> QED BY <2>4, <4>1 DEF Goroutines
    <3>2. t \notin refused' /\ snap' = snap
      BY <1>1, <2>1 DEF Known
    <3> QED BY <1>2, <2>4, <2>7, <2>8, <3>1, <3>2 DEF Known
  <2>10. Shown(t)'
    <3>1. AsksUser(t)' => question'[t] = st'[t].pendingUserInput
      <4>1. SUFFICES ASSUME AsksUser(t)' PROVE question'[t] = st'[t].pendingUserInput
        OBVIOUS
      <4>2. e.type = "agent.user_input_requested" /\ st'[t].pendingUserInput = e.ref
        BY <1>1, <4>1 DEF P!OutcomeOK, AsksUser
      <4>3. CalledEvent(c, t)
        BY <1>1 DEF CalledEvent
      <4> QED BY <1>1, <2>1, <4>2, <4>3 DEF Shown, ui
    <3>2. \A d \in Callers : CalledEvent(d, t)' => CalledEvent(d, t) /\ calls'[d] = calls[d]
      BY <1>5 DEF CalledEvent
    <3> QED BY <1>1, <2>1, <3>1, <3>2 DEF Shown, ui
  <2>11. Answering(t)'
    <3>1. c = "worker" => ~AsksUser(t)
      <4>1. SUFFICES ASSUME c = "worker", AsksUser(t) PROVE FALSE
        OBVIOUS
      <4>2. c \in CarryingCalls(t)
        <5>1. e.type \in Produced
          BY <1>1, <4>1 DEF IInv, Handling
        <5>2. e.type # "user_input.received"
          BY <5>1 DEF Produced, TurnEvents, ModelAnswers, ToolAnswers, TSM!RequestEvents
        <5> QED BY <1>1, <5>2 DEF CarryingCalls, Advancing
      <4>3. Carriers(t) >= 1
        BY <4>2, Alone DEF IInv, Solitary
      <4> QED BY <1>10, <2>2, <4>1, <4>3
    <3>2. CASE c = "worker"
      <4>1. calls'["session"] = calls["session"]
        BY <1>5, <3>2 DEF Callers
      <4> QED BY <1>1, <2>1, <3>1, <3>2, <4>1 DEF Answering, CalledEvent
    <3>3. CASE c = "session"
      <4>1. session.pc = "publishing"
        BY <1>1, <3>3 DEF IInv, Handling
      <4> QED BY <1>1, <1>5, <3>3, <4>1 DEF Answering, CalledEvent
    <3> QED BY <3>2, <3>3 DEF Callers
  <2> QED BY <2>9, <2>10, <2>11
<1>15. DistinctIds(t)'
  BY <1>1, AdvanceIds
<1> QED BY <1>12, <1>13, <1>14, <1>15 DEF Settled

(* Reactor.Advance handles an event. *)
LEMMA AdvancePreserves == \A c \in Callers : IInv /\ Advance(c) => IInv'
<1> SUFFICES ASSUME NEW c \in Callers, IInv, Advance(c) PROVE IInv'
  OBVIOUS
<1>1. Types' /\ Numbered' /\ Owned' /\ Handling' /\ Started'
  BY AdvanceStructure
<1>2. P!IInv' /\ owned' = owned
  BY AdvanceCases
<1>3. ASSUME NEW u \in owned PROVE Settled(u)'
  BY <1>1, AdvanceOthers, AdvanceRejected, AdvanceAccepted
<1> QED BY <1>1, <1>2, <1>3 DEF IInv, Settled

-----------------------------------------------------------------------------
(* DispatchEffects: the call ends, and a goroutine starts or nothing does. *)

(* There is always a number left for one more effect. *)
LEMMA EffectIdIsNew ==
  ASSUME IsFiniteSet(effects)
  PROVE  EffectId \in Nat /\ \A g \in effects : g.id # EffectId
<1>1. PICK n : n = Cardinality(effects)
  OBVIOUS
<1>2. n \in Nat
  BY <1>1, FS_CardinalityType
<1>3. IsFiniteSet(1 .. n + 1) /\ Cardinality(1 .. n + 1) = n + 1
  <2>1. IsFiniteSet(1 .. n + 1) /\ Cardinality(1 .. n + 1) = IF 1 > n + 1 THEN 0 ELSE n + 1 - 1 + 1
    BY <1>2, FS_Interval
  <2> QED BY <1>2, <2>1
<1>4. \E i \in 1 .. n + 1 : \A g \in effects : g.id # i
  <2>1. SUFFICES ASSUME \A i \in 1 .. n + 1 : \E g \in effects : g.id = i PROVE FALSE
    BY Zenon
  <2> DEFINE f == [i \in 1 .. n + 1 |-> CHOOSE g \in effects : g.id = i]
  <2>2. \A i \in 1 .. n + 1 : f[i] \in effects /\ f[i].id = i
    BY <2>1
  <2>3. f \in [1 .. n + 1 -> effects]
    BY <2>2
  <2> HIDE DEF f
  <2>4. Cardinality(effects) < Cardinality(1 .. n + 1)
    BY <1>1, <1>2, <1>3
  <2>5. \E i, j \in 1 .. n + 1 : i # j /\ f[i] = f[j]
    BY <1>3, <2>3, <2>4, FS_PigeonHole, Zenon
  <2> QED BY <2>2, <2>5
<1>5. EffectId = CHOOSE i \in 1 .. n + 1 : \A g \in effects : g.id # i
  BY <1>1 DEF EffectId
<1>6. EffectId \in 1 .. n + 1 /\ \A g \in effects : g.id # EffectId
  BY <1>4, <1>5, Zenon
<1> QED BY <1>2, <1>6

(* The goroutine does what the call asked for, and has no event yet. *)
LEMMA GoroutineMade ==
  ASSUME IInv, NEW c \in Callers, calls[c].pc = "dispatch", NEW h, h = Goroutine(calls[c])
  PROVE  /\ h \in EffectRecord /\ Sensible(h) /\ \A g \in effects : g.id # h.id
         /\ h.task = calls[c].task /\ h.type = calls[c].effect.type /\ h.pc = "run"
         /\ h.event = TSM!NoEvent /\ h \notin effects
         /\ Work(h.type, h.ref, h.on) = Work(calls[c].effect.type, calls[c].effect.ref, calls[c].on)
<1>1. calls[c] \in DispatchCall
  BY CallKinds DEF IInv
<1>2. /\ calls[c].task \in Tasks /\ calls[c].on \in TSM!EventTypes
      /\ calls[c].effect.type \in TSM!EffectTypes /\ calls[c].effect.ref \in Refs \cup {NoRef}
  BY <1>1 DEF DispatchCall, TSM!Effect
<1>3. EffectId \in Nat /\ \A g \in effects : g.id # EffectId
  BY EffectIdIsNew DEF IInv, Types
<1>4. NoSnapshot \in Snapshot
  BY DEF NoSnapshot, Snapshot
<1>5. /\ h.id = EffectId /\ h.pc = "run" /\ h.task = calls[c].task /\ h.type = calls[c].effect.type
      /\ h.ref = calls[c].effect.ref /\ h.on = calls[c].on /\ h.event = TSM!NoEvent
  BY DEF Goroutine
<1>6. h \in EffectRecord
  BY <1>2, <1>3, <1>4 DEF Goroutine, EffectRecord
<1>7. Sensible(h)
  BY <1>5 DEF Sensible
<1> QED BY <1>3, <1>5, <1>6, <1>7

(* A call that is dispatched was not an event's. *)
LEMMA DispatchCallers ==
  ASSUME IInv, NEW c \in Callers, calls[c].pc = "dispatch", Returns(c), owned' = owned
  PROVE  /\ \A d \in Callers : \A u : CalledEvent(d, u)' <=> CalledEvent(d, u)
         /\ \A d \in Callers : \A u : CalledEvent(d, u) => calls'[d] = calls[d]
         /\ \A u : Starts(u)' <=> Starts(u)
         /\ \A d \in Callers : calls'[d].pc # "idle" => calls[d].pc # "idle" /\ calls'[d] = calls[d]
<1>1. calls'[c].pc = "idle" /\ \A d \in Callers \ {c} : calls'[d] = calls[d]
  BY ReturnKeeps
<1> QED BY <1>1 DEF CalledEvent, Starts, Callers

(* What is counted of the call's task *)
LEMMA DispatchSums ==
  ASSUME IInv, NEW c \in Callers, calls[c].pc = "dispatch", Returns(c), owned' = owned, NEW t,
         t = calls[c].task, NEW x, x = calls[c].effect.type
  PROVE  /\ Cardinality(CarryingCalls(t)') + One(x \in Carrying) = Cardinality(CarryingCalls(t)) + 0
         /\ Cardinality(Starting(t, Announcements)') + One(x \in Announcements) =
              Cardinality(Starting(t, Announcements)) + 0
         /\ Starting(t, Carrying)' = Starting(t, Carrying) \ {c}
         /\ x \in Carrying => c \in Starting(t, Carrying)
<1>1. calls'[c].pc = "idle" /\ \A d \in Callers \ {c} : calls'[d] = calls[d]
  BY ReturnKeeps
<1>2. /\ c \in CarryingCalls(t) <=> x \in Carrying
      /\ c \in Starting(t, Carrying) <=> x \in Carrying
      /\ c \in Starting(t, Announcements) <=> x \in Announcements
      /\ c \notin CarryingCalls(t)' /\ c \notin Starting(t, Announcements)'
      /\ Starting(t, Carrying)' = Starting(t, Carrying) \ {c}
  BY <1>1 DEF CarryingCalls, Starting, Advancing
<1>3. /\ Cardinality(CarryingCalls(t)') + One(c \in CarryingCalls(t)) =
           Cardinality(CarryingCalls(t)) + One(c \in CarryingCalls(t)')
      /\ Cardinality(Starting(t, Announcements)') + One(c \in Starting(t, Announcements)) =
           Cardinality(Starting(t, Announcements)) + One(c \in Starting(t, Announcements)')
  BY <1>1, CallsChange
<1> QED BY <1>2, <1>3 DEF One

(* The step that is common to both, for everything but the effects *)
DispatchStep(c) ==
  /\ calls[c].pc = "dispatch" /\ Returns(c)
  /\ UNCHANGED <<machine, snap, queue, seq, owned, typed, ui, cancelled, refused, guided>>

(* The types and where everybody is, after a dispatch *)
LEMMA DispatchStructure ==
  ASSUME IInv, NEW c \in Callers, DispatchStep(c), dropped' \subseteq Tasks,
         effects' \subseteq EffectRecord /\ IsFiniteSet(effects'), Numbered',
         \A g \in effects' : g \in effects \/ g.task = calls[c].task
  PROVE  /\ Types' /\ Owned' /\ Handling' /\ Started' /\ P!IInv'
         /\ calls[c].task \in owned /\ calls[c].task \in Tasks
<1>1. /\ calls[c].pc = "dispatch" /\ Returns(c)
      /\ UNCHANGED <<snap, queue, seq, owned, typed, ui, cancelled, refused, guided>>
      /\ st' = st /\ P!IInv'
  BY MachineKept DEF DispatchStep, machine, IInv
<1>2. calls[c].task \in owned /\ calls[c].task \in Tasks
  BY <1>1, SessionFacts DEF IInv, Owned
<1>3. Handling' /\ session' \in Steps /\ current' \in owned' \cup {NoTask}
      /\ calls' \in [Callers -> {Idle} \cup DispatchCall \cup AdvanceCall(SessionEvents)]
  BY <1>1, ReturnKeeps
<1>4. Types'
  BY <1>1, <1>3 DEF IInv, Types, SessionEvents, ui
<1>5. Owned'
  <2>1. \A d \in Callers : calls'[d].pc # "idle" => calls'[d].task \in owned'
    BY <1>1, DispatchCallers DEF IInv, Owned
  <2> QED BY <1>1, <1>2, <2>1 DEF IInv, Owned, ui
<1>6. Started'
  BY <1>1, DispatchCallers DEF IInv, Started
<1> QED BY <1>1, <1>2, <1>3, <1>4, <1>5, <1>6

(* A dispatch makes no event. *)
LEMMA DispatchIds ==
  ASSUME IInv, NEW c \in Callers, DispatchStep(c), NEW u \in owned,
         \A g \in effects' : g \in effects \/ g.event = TSM!NoEvent
  PROVE  DistinctIds(u)'
<1>1. calls[c].pc = "dispatch" /\ Returns(c) /\ st' = st /\ queue' = queue /\ owned' = owned
  BY DEF DispatchStep, machine
<1>2. \A g \in effects' : EffectEvent(g, u) => g \in effects
  BY DEF EffectEvent
<1>3. \A d \in Callers : CalledEvent(d, u)' => CalledEvent(d, u) /\ calls'[d] = calls[d]
  BY <1>1, DispatchCallers
<1>4. DistinctIds(u)
  BY DEF IInv
<1> QED BY <1>1, <1>2, <1>3, <1>4 DEF DistinctIds, QueuedEvent, EffectEvent

(* The tasks whose effect it is not *)
LEMMA DispatchOthers ==
  ASSUME IInv, NEW c \in Callers, DispatchStep(c), Types', NEW u \in owned, u # calls[c].task,
         u \in dropped' <=> u \in dropped,
         \A g : g.task # calls[c].task => (g \in effects' <=> g \in effects),
         \A g \in effects' : g \in effects \/ g.event = TSM!NoEvent
  PROVE  Settled(u)'
<1>1. /\ calls[c].pc = "dispatch" /\ Returns(c) /\ owned' = owned /\ st' = st
      /\ UNCHANGED <<snap, queue, seq, owned, typed, ui, cancelled, refused, guided>>
  BY DEF DispatchStep, machine
<1>2. /\ calls'[c].pc = "idle" /\ \A d \in Callers \ {c} : calls'[d] = calls[d]
      /\ Handling'
      /\ (session' = session /\ current' = current) \/ session' = Idle
  BY <1>1, ReturnKeeps
<1>3. \A d \in Callers : Concerns(d, u)' <=> Concerns(d, u)
  BY <1>2 DEF Concerns
<1>4. \A d \in Callers : Concerns(d, u) => calls'[d] = calls[d]
  BY <1>2 DEF Concerns
<1>5. Messages(u)' = Messages(u) /\ Results(u)' = Results(u)
  BY <1>1, CountsKept, Zenon
<1>6. Untouched(u)
  BY <1>1, <1>3, <1>4, <1>5 DEF Untouched, ui
<1>7. DistinctIds(u)'
  BY DispatchIds
<1> QED BY <1>2, <1>6, <1>7, UntouchedKept

-----------------------------------------------------------------------------
(* The task of the call, when its effect starts *)
LEMMA DispatchTask ==
  ASSUME IInv, NEW c \in Callers, DispatchStep(c), Types', dropped' = dropped,
         NEW t, t = calls[c].task, t \in owned,
         NEW h, h = Goroutine(calls[c]), effects' = effects \cup {h}
  PROVE  Settled(t)'
<1>1. /\ calls[c].pc = "dispatch" /\ Returns(c) /\ owned' = owned /\ st' = st
      /\ UNCHANGED <<snap, queue, seq, owned, typed, ui, cancelled, refused, guided>>
  BY DEF DispatchStep, machine
<1>2. /\ Handling'
      /\ (session' = session /\ current' = current) \/ session' = Idle
  BY <1>1, ReturnKeeps
<1>3. PICK x : x = calls[c].effect.type
  OBVIOUS
<1>4. /\ h.task = t /\ h.type = x /\ h.pc = "run" /\ h.event = TSM!NoEvent /\ h \notin effects
      /\ Work(h.type, h.ref, h.on) = Work(calls[c].effect.type, calls[c].effect.ref, calls[c].on)
  BY <1>1, <1>3, GoroutineMade
<1>5. /\ Cardinality(CarryingCalls(t)') + One(x \in Carrying) = Cardinality(CarryingCalls(t)) + 0
      /\ Cardinality(Starting(t, Announcements)') + One(x \in Announcements) =
           Cardinality(Starting(t, Announcements)) + 0
      /\ Starting(t, Carrying)' = Starting(t, Carrying) \ {c}
      /\ x \in Carrying => c \in Starting(t, Carrying)
  BY <1>1, <1>3, DispatchSums
<1>6. /\ Effects(t, Carrying)' = Effects(t, Carrying) + One(x \in Carrying)
      /\ Effects(t, Announcements)' = Effects(t, Announcements) + One(x \in Announcements)
  <2>1. IsFiniteSet(effects)
    BY DEF IInv, Types
  <2>2. ASSUME NEW types
        PROVE  Effects(t, types)' = Effects(t, types) + One(x \in types)
    <3>1. Effects(t, types)' = Effects(t, types) + One(h.task = t /\ h.type \in types)
      BY <1>4, <2>1, EffectsGrow DEF One
    <3> QED BY <1>4, <3>1
  <2> QED BY <2>2, Zenon
<1>7. Messages(t)' = Messages(t) /\ Results(t)' = Results(t)
  BY <1>1, CountsKept, Zenon
<1>8. PICK j \in {0, 1}, l \in {0, 1} : j = One(x \in Carrying) /\ l = One(x \in Announcements)
  BY DEF One
<1>9. /\ Messages(t) \in Nat /\ Results(t) \in Nat
      /\ Effects(t, Carrying) \in Nat /\ Effects(t, Announcements) \in Nat
      /\ Cardinality(CarryingCalls(t)) \in Nat /\ Cardinality(Starting(t, Announcements)) \in Nat
      /\ Carriers(t) \in Nat /\ Carriers(t)' \in Nat /\ Announcing(t) \in Nat /\ Announcing(t)' \in Nat
  BY Counts, CountsNext, Zenon DEF IInv
<1>10. Carriers(t)' = Carriers(t)
  <2>1. /\ Messages(t)' + 0 = Messages(t) + 0
        /\ Effects(t, Carrying)' + 0 = Effects(t, Carrying) + j
        /\ Cardinality(CarryingCalls(t)') + j = Cardinality(CarryingCalls(t)) + 0
    BY <1>5, <1>6, <1>7, <1>8, <1>9
  <2>2. Carriers(t)' + (0 + 0 + j) = Carriers(t) + (0 + j + 0)
    BY <2>1, Tally DEF IInv
  <2> QED BY <1>9, <2>2
<1>11. Announcing(t)' = Announcing(t)
  <2>1. /\ Results(t)' + 0 = Results(t) + 0
        /\ Effects(t, Announcements)' + 0 = Effects(t, Announcements) + l
        /\ Cardinality(Starting(t, Announcements)') + l = Cardinality(Starting(t, Announcements)) + 0
    BY <1>5, <1>6, <1>7, <1>8, <1>9
  <2>2. Announcing(t)' + (0 + 0 + l) = Announcing(t) + (0 + l + 0)
    BY <2>1, TallyOutcomes DEF IInv
  <2> QED BY <1>9, <2>2
<1>12. Bounded(t)'
  <2>1. (Over(t)' <=> Over(t)) /\ (AsksUser(t)' <=> AsksUser(t))
    BY <1>1 DEF Over, AsksUser, TSM!IsTerminal, TSM!TerminalPhases
  <2> QED BY <1>1, <1>10, <1>11, <2>1 DEF IInv, Bounded, ui
<1>13. \A d \in Callers : /\ CalledEvent(d, t)' <=> CalledEvent(d, t)
                          /\ CalledEvent(d, t) => calls'[d] = calls[d]
  BY <1>1, DispatchCallers
<1>14. Coming(t)' = Coming(t)
  <2>1. \A e : e \in EventsOf(t)' => e \in EventsOf(t) \/ e = TSM!NoEvent
    BY <1>1, <1>4, <1>13 DEF EventsOf, CalledEvent
  <2>2. EventsOf(t) \subseteq EventsOf(t)'
    BY <1>1, <1>13 DEF EventsOf, CalledEvent
  <2> QED BY <2>1, <2>2 DEF Coming, TSM!NoEvent
<1>15. Doing(t)' = Doing(t)
  <2>1. \A d \in Starting(t, Carrying)' : calls'[d] = calls[d]
    BY <1>1, DispatchCallers DEF Starting
  <2>2. \A y : y \in Doing(t) <=>
          \/ \E d \in Starting(t, Carrying) : y = Work(calls[d].effect.type, calls[d].effect.ref, calls[d].on)
          \/ \E g \in effects : /\ g.task = t /\ g.type \in Carrying /\ g.pc # "answer"
                                /\ y = Work(g.type, g.ref, g.on)
    BY DEF Doing
  <2>3. \A y : y \in Doing(t)' <=>
          \/ \E d \in Starting(t, Carrying)' : y = Work(calls[d].effect.type, calls[d].effect.ref, calls[d].on)
          \/ \E g \in effects' : /\ g.task = t /\ g.type \in Carrying /\ g.pc # "answer"
                                 /\ y = Work(g.type, g.ref, g.on)
    BY <2>1 DEF Doing
  <2>4. c \in Starting(t, Carrying) => x \in Carrying
    BY <1>3 DEF Starting
  <2>5. \A y : y \in Doing(t)' <=> y \in Doing(t)
    BY <1>4, <1>5, <2>2, <2>3, <2>4
  <2> QED BY <2>5
<1>16. DistinctIds(t)'
  BY <1>4, DispatchIds
<1>17. \A g \in effects' : g.task = t /\ g.pc = "loaded" => g \in effects
  BY <1>4
<1>18. guided[t] = 0 => t \notin refused'
  BY <1>1 DEF IInv, Known
<1> QED BY <1>1, <1>2, <1>12, <1>13, <1>14, <1>15, <1>16, <1>17, <1>18, TaskLess DEF ui

(* An effect gets its goroutine. *)
LEMMA DispatchPreserves == \A c \in Callers :
  IInv /\ Dispatch(c) /\ UNCHANGED <<machine, snap, queue, seq, owned, typed, ui, cancelled, refused, guided>>
    => IInv'
<1> SUFFICES ASSUME NEW c \in Callers, IInv, Dispatch(c),
                    UNCHANGED <<machine, snap, queue, seq, owned, typed, ui, cancelled, refused, guided>>
             PROVE  IInv'
  OBVIOUS
<1>1. PICK t, h : t = calls[c].task /\ h = Goroutine(calls[c])
  OBVIOUS
<1>2. calls[c].pc = "dispatch" /\ effects' = effects \cup {h} /\ dropped' = dropped /\ DispatchStep(c)
  <2>1. Returns(c)
    BY DEF Dispatch, Return, Returns
  <2> QED BY <1>1, <2>1 DEF Dispatch, DispatchStep
<1>3. /\ h \in EffectRecord /\ Sensible(h) /\ \A g \in effects : g.id # h.id
      /\ h.task = t /\ h.event = TSM!NoEvent
  BY <1>1, <1>2, GoroutineMade
<1>4. effects' \subseteq EffectRecord /\ IsFiniteSet(effects') /\ dropped' \subseteq Tasks
  BY <1>2, <1>3, FS_AddElement DEF IInv, Types
<1>5. Numbered'
  <2>1. \A g \in effects' : Sensible(g)
    BY <1>2, <1>3 DEF IInv, Numbered
  <2>2. \A g, k \in effects' : g.id = k.id => g = k
    BY <1>2, <1>3 DEF IInv, Numbered
  <2> QED BY <2>1, <2>2 DEF Numbered, Sensible
<1>6. Types' /\ Owned' /\ Handling' /\ Started' /\ P!IInv' /\ t \in owned
  BY <1>1, <1>2, <1>3, <1>4, <1>5, DispatchStructure
<1>7. owned' = owned
  BY DEF DispatchStep
<1>8. ASSUME NEW u \in owned PROVE Settled(u)'
  <2>1. CASE u = t
    BY <1>1, <1>2, <1>6, <2>1, DispatchTask
  <2>2. CASE u # t
    BY <1>1, <1>2, <1>3, <1>6, <2>2, DispatchOthers
  <2> QED BY <2>1, <2>2
<1> QED BY <1>5, <1>6, <1>7, <1>8 DEF IInv, Settled

(* The task of the call, when nothing starts *)
LEMMA DispatchFailsTask ==
  ASSUME IInv, NEW c \in Callers, DispatchStep(c), Types', NEW t, t = calls[c].task, t \in owned,
         dropped' = dropped \cup {t}, effects' = effects
  PROVE  Settled(t)'
<1>1. /\ calls[c].pc = "dispatch" /\ Returns(c) /\ owned' = owned /\ st' = st
      /\ UNCHANGED <<snap, queue, seq, owned, typed, ui, cancelled, refused, guided>>
  BY DEF DispatchStep, machine
<1>2. /\ Handling'
      /\ (session' = session /\ current' = current) \/ session' = Idle
  BY <1>1, ReturnKeeps
<1>3. PICK x : x = calls[c].effect.type
  OBVIOUS
<1>5. /\ Cardinality(CarryingCalls(t)') + One(x \in Carrying) = Cardinality(CarryingCalls(t)) + 0
      /\ Cardinality(Starting(t, Announcements)') + One(x \in Announcements) =
           Cardinality(Starting(t, Announcements)) + 0
      /\ Starting(t, Carrying)' = Starting(t, Carrying) \ {c}
  BY <1>1, <1>3, DispatchSums
<1>7. /\ Messages(t)' = Messages(t) /\ Results(t)' = Results(t)
      /\ Effects(t, Carrying)' = Effects(t, Carrying)
      /\ Effects(t, Announcements)' = Effects(t, Announcements)
  BY <1>1, CountsKept, Zenon
<1>8. PICK j \in {0, 1}, l \in {0, 1} : j = One(x \in Carrying) /\ l = One(x \in Announcements)
  BY DEF One
<1>9. /\ Messages(t) \in Nat /\ Results(t) \in Nat
      /\ Effects(t, Carrying) \in Nat /\ Effects(t, Announcements) \in Nat
      /\ Cardinality(CarryingCalls(t)) \in Nat /\ Cardinality(Starting(t, Announcements)) \in Nat
      /\ Carriers(t) \in Nat /\ Carriers(t)' \in Nat /\ Announcing(t) \in Nat /\ Announcing(t)' \in Nat
      /\ guided[t] \in Nat /\ outcomes[t] \in Nat
  <2>1. guided[t] \in Nat /\ outcomes[t] \in Nat
    BY SessionFacts DEF IInv, Types
  <2> QED BY <2>1, Counts, CountsNext, Zenon DEF IInv
<1>10. Carriers(t)' <= Carriers(t)
  <2>1. /\ Messages(t)' + 0 = Messages(t) + 0
        /\ Effects(t, Carrying)' + 0 = Effects(t, Carrying) + 0
        /\ Cardinality(CarryingCalls(t)') + j = Cardinality(CarryingCalls(t)) + 0
    BY <1>5, <1>7, <1>8, <1>9
  <2>2. Carriers(t)' + (0 + 0 + j) = Carriers(t) + (0 + 0 + 0)
    BY <2>1, Tally DEF IInv
  <2> QED BY <1>9, <2>2
<1>11. Announcing(t)' <= Announcing(t)
  <2>1. /\ Results(t)' + 0 = Results(t) + 0
        /\ Effects(t, Announcements)' + 0 = Effects(t, Announcements) + 0
        /\ Cardinality(Starting(t, Announcements)') + l = Cardinality(Starting(t, Announcements)) + 0
    BY <1>5, <1>7, <1>8, <1>9
  <2>2. Announcing(t)' + (0 + 0 + l) = Announcing(t) + (0 + 0 + 0)
    BY <2>1, TallyOutcomes DEF IInv
  <2> QED BY <1>9, <2>2
<1>12. Bounded(t)'
  <2>1. /\ outcomes[t] + Announcing(t) \in Nat /\ outcomes'[t] + Announcing(t)' \in Nat
        /\ outcomes'[t] + Announcing(t)' <= outcomes[t] + Announcing(t)
    BY <1>1, <1>9, <1>11 DEF ui
  <2> QED BY <1>1, <1>9, <1>10, <2>1, BoundedKept DEF IInv
<1>13. \A d \in Callers : /\ CalledEvent(d, t)' <=> CalledEvent(d, t)
                          /\ CalledEvent(d, t) => calls'[d] = calls[d]
  BY <1>1, DispatchCallers
<1>14. Coming(t)' \subseteq Coming(t)
  <2>1. EventsOf(t)' \subseteq EventsOf(t)
    BY <1>1, <1>13 DEF EventsOf, CalledEvent
  <2> QED BY <2>1 DEF Coming
<1>15. Doing(t)' \subseteq Doing(t)
  <2>1. \A d \in Starting(t, Carrying)' : calls'[d] = calls[d]
    BY <1>1, DispatchCallers DEF Starting
  <2> QED BY <1>5, <2>1 DEF Doing
<1>16. DistinctIds(t)'
  BY DispatchIds
<1>18. guided[t] = 0 => t \notin refused'
  BY <1>1 DEF IInv, Known
<1> QED BY <1>1, <1>2, <1>12, <1>13, <1>14, <1>15, <1>16, <1>18, TaskLess DEF ui

(* No goroutine: the effect is dropped. *)
LEMMA DispatchFailsPreserves == \A c \in Callers :
  IInv /\ DispatchFails(c) /\ UNCHANGED <<machine, snap, queue, seq, owned, typed, ui, cancelled, refused, guided>>
    => IInv'
<1> SUFFICES ASSUME NEW c \in Callers, IInv, DispatchFails(c),
                    UNCHANGED <<machine, snap, queue, seq, owned, typed, ui, cancelled, refused, guided>>
             PROVE  IInv'
  OBVIOUS
<1>1. PICK t : t = calls[c].task
  OBVIOUS
<1>2. calls[c].pc = "dispatch" /\ effects' = effects /\ dropped' = dropped \cup {t} /\ DispatchStep(c)
  <2>1. Returns(c)
    BY DEF DispatchFails, Return, Returns
  <2> QED BY <1>1, <2>1 DEF DispatchFails, DispatchStep
<1>3. t \in owned /\ t \in Tasks
  BY <1>1, <1>2, SessionFacts DEF IInv, Owned
<1>4. effects' \subseteq EffectRecord /\ IsFiniteSet(effects') /\ dropped' \subseteq Tasks /\ Numbered'
  BY <1>2, <1>3 DEF IInv, Types, Numbered, Sensible
<1>6. Types' /\ Owned' /\ Handling' /\ Started' /\ P!IInv'
  BY <1>1, <1>2, <1>4, DispatchStructure
<1>7. owned' = owned
  BY DEF DispatchStep
<1>8. ASSUME NEW u \in owned PROVE Settled(u)'
  <2>1. CASE u = t
    BY <1>1, <1>2, <1>3, <1>6, <2>1, DispatchFailsTask
  <2>2. CASE u # t
    BY <1>1, <1>2, <1>6, <2>2, DispatchOthers
  <2> QED BY <2>1, <2>2
<1> QED BY <1>4, <1>6, <1>7, <1>8 DEF IInv, Settled

-----------------------------------------------------------------------------
(* Deliver: the worker takes the first entry of the queue. *)

(* The queue and the callers after Deliver *)
LEMMA DeliverCases ==
  ASSUME IInv, Deliver, NEW q, q = Head(queue)
  PROVE  /\ queue # <<>> /\ queue' = Tail(queue) /\ q \in Entry /\ q.task \in owned /\ q.task \in Tasks
         /\ ToSet(queue) = ToSet(queue') \cup {q} /\ queue' \in Seq(Entry)
         /\ \A i \in DOMAIN queue' : i + 1 \in DOMAIN queue /\ i + 1 # 1 /\ queue'[i] = queue[i + 1]
         /\ 1 \in DOMAIN queue /\ queue[1] = q
         /\ calls["worker"] = Idle /\ calls["worker"].pc = "idle" /\ calls'["session"] = calls["session"]
         /\ UNCHANGED <<machine, snap, effects, seq, current, owned, session, typed, history>>
         /\ \/ /\ IsOutcome(q) /\ calls' = calls /\ question' = question
               /\ outcomes' = [outcomes EXCEPT ![q.task] = outcomes[q.task] + 1]
            \/ /\ ~IsOutcome(q) /\ q.event \in GoodEvent(Produced) /\ outcomes' = outcomes
               /\ calls'["worker"] \in AdvanceCall(SessionEvents)
               /\ calls' = [calls EXCEPT !["worker"] = calls'["worker"]]
               /\ calls'["worker"].pc = "advance" /\ calls'["worker"].task = q.task
               /\ calls'["worker"].event = q.event
               /\ question' = [question EXCEPT ![q.task] =
                    IF q.event.type = "agent.user_input_requested" THEN q.event.ref ELSE question[q.task]]
<1>1. queue # <<>> /\ queue' = Tail(queue) /\ queue \in Seq(Entry) /\ calls["worker"] = Idle
      /\ UNCHANGED <<machine, snap, effects, seq, current, owned, session, typed, history>>
  BY DEF Deliver, IInv, Types
<1>2. /\ queue' \in Seq(Entry) /\ q \in Entry /\ q = queue[1]
      /\ ToSet(queue) = ToSet(queue') \cup {q}
      /\ Len(queue) \in Nat /\ Len(queue) >= 1 /\ DOMAIN queue = 1 .. Len(queue)
      /\ DOMAIN queue' = 1 .. Len(queue) - 1
      /\ \A i \in 1 .. Len(queue) - 1 : queue'[i] = queue[i + 1]
  BY <1>1, TailEntries
<1>3. /\ \A i \in DOMAIN queue' : i + 1 \in DOMAIN queue /\ i + 1 # 1 /\ queue'[i] = queue[i + 1]
      /\ 1 \in DOMAIN queue
  BY <1>2
<1>4. q.task \in owned /\ q.task \in Tasks
  BY <1>2, SessionFacts DEF IInv, Owned
<1>5. calls["worker"].pc = "idle"
  BY <1>1 DEF Idle
<1>6. calls \in [Callers -> {Idle} \cup DispatchCall \cup AdvanceCall(SessionEvents)]
  BY DEF IInv, Types, SessionEvents
<1>7. CASE IsOutcome(q)
  <2>1. /\ calls' = calls /\ question' = question
        /\ outcomes' = [outcomes EXCEPT ![q.task] = outcomes[q.task] + 1]
    BY <1>4, <1>7 DEF Deliver, OwnsTask
  <2> QED BY <1>1, <1>2, <1>3, <1>4, <1>5, <1>7, <2>1
<1>8. CASE ~IsOutcome(q)
  <2>1. q.event \in GoodEvent(Produced)
    BY <1>2, <1>8, EntryKinds
  <2>2. PICK k : k = [pc |-> "advance", task |-> q.task, event |-> q.event]
    OBVIOUS
  <2>3. k.pc = "advance" /\ k.task = q.task /\ k.event = q.event
    BY <2>2
  <2>4. k \in AdvanceCall(SessionEvents)
    BY <1>4, <2>1, <2>2 DEF AdvanceCall, GoodEvent, SessionEvents
  <2>5. /\ calls' = [calls EXCEPT !["worker"] = k] /\ outcomes' = outcomes
        /\ question' = [question EXCEPT ![q.task] =
             IF q.event.type = "agent.user_input_requested" THEN q.event.ref ELSE question[q.task]]
    BY <1>4, <1>8, <2>2 DEF Deliver, OwnsTask
  <2>6. calls'["worker"] = k /\ calls'["session"] = calls["session"]
    BY <1>6, <2>5 DEF Callers
  <2> QED BY <1>1, <1>2, <1>3, <1>4, <1>5, <1>8, <2>1, <2>3, <2>4, <2>5, <2>6
<1> QED BY <1>7, <1>8

(* The types and where everybody is, after the worker took an entry *)
LEMMA DeliverStructure ==
  ASSUME IInv, Deliver
  PROVE  Types' /\ Numbered' /\ Owned' /\ Handling' /\ Started' /\ P!IInv'
<1>1. PICK q : q = Head(queue)
  OBVIOUS
<1>2. /\ q \in Entry /\ q.task \in owned /\ q.task \in Tasks
      /\ ToSet(queue) = ToSet(queue') \cup {q} /\ queue' \in Seq(Entry)
      /\ calls["worker"].pc = "idle" /\ calls'["session"] = calls["session"]
      /\ UNCHANGED <<snap, effects, seq, current, owned, session, typed, history>>
      /\ st' = st
  BY <1>1, DeliverCases DEF machine
<1>3. P!IInv'
  BY MachineKept DEF IInv, Deliver
<1>4. calls \in [Callers -> {Idle} \cup DispatchCall \cup AdvanceCall(SessionEvents)]
  BY DEF IInv, Types, SessionEvents
<1>5. /\ calls' \in [Callers -> {Idle} \cup DispatchCall \cup AdvanceCall(SessionEvents)]
      /\ outcomes' \in [Tasks -> Nat] /\ question' \in [Tasks -> Refs \cup {NoRef}]
      /\ calls'["worker"].pc # "idle" =>
           /\ calls'["worker"].pc = "advance" /\ calls'["worker"].task = q.task
           /\ calls'["worker"].event.type \in Produced
      /\ \A t \in Tasks \ owned : outcomes'[t] = outcomes[t]
  <2>1. CASE /\ calls' = calls /\ question' = question
             /\ outcomes' = [outcomes EXCEPT ![q.task] = outcomes[q.task] + 1]
    BY <1>2, <1>4, <2>1 DEF IInv, Types
  <2>2. CASE /\ q.event \in GoodEvent(Produced) /\ outcomes' = outcomes
             /\ calls'["worker"] \in AdvanceCall(SessionEvents)
             /\ calls' = [calls EXCEPT !["worker"] = calls'["worker"]]
             /\ calls'["worker"].pc = "advance" /\ calls'["worker"].task = q.task
             /\ calls'["worker"].event = q.event
             /\ question' = [question EXCEPT ![q.task] =
                  IF q.event.type = "agent.user_input_requested" THEN q.event.ref ELSE question[q.task]]
    <3>1. q.event.ref \in Refs \cup {NoRef} /\ q.event.type \in Produced
      BY <2>2 DEF GoodEvent, TSM!Event, TSM!AnyEvent
    <3> QED BY <1>2, <1>4, <2>2, <3>1 DEF IInv, Types
  <2> QED BY <1>1, <2>1, <2>2, DeliverCases
<1>6. Types'
  BY <1>2, <1>5 DEF IInv, Types, SessionEvents, history
<1>7. Numbered'
  BY <1>2 DEF IInv, Numbered, Sensible
<1>8. Owned'
  <2>1. \A c \in Callers : calls'[c].pc # "idle" => calls'[c].task \in owned
    BY <1>2, <1>5 DEF IInv, Owned, Callers
  <2> QED BY <1>2, <1>5, <2>1 DEF IInv, Owned, history
<1>9. Handling'
  BY <1>2, <1>5 DEF IInv, Handling
<1>10. Started'
  BY <1>2 DEF IInv, Started, Starts
<1> QED BY <1>3, <1>6, <1>7, <1>8, <1>9, <1>10

(* The event of the entry is in the call, and no longer in the queue. *)
LEMMA DeliverIds ==
  ASSUME IInv, Deliver, NEW u \in owned
  PROVE  DistinctIds(u)'
<1>1. PICK q : q = Head(queue)
  OBVIOUS
<1>2. /\ ToSet(queue) = ToSet(queue') \cup {q}
      /\ \A i \in DOMAIN queue' : i + 1 \in DOMAIN queue /\ i + 1 # 1 /\ queue'[i] = queue[i + 1]
      /\ 1 \in DOMAIN queue /\ queue[1] = q
      /\ calls["worker"].pc = "idle" /\ calls'["session"] = calls["session"]
      /\ st' = st /\ effects' = effects /\ queue' \in Seq(Entry)
  BY <1>1, DeliverCases DEF machine
<1>3. DistinctIds(u)
  BY DEF IInv
<1>4. \A c \in Callers : CalledEvent(c, u)' =>
        \/ c = "session" /\ CalledEvent(c, u) /\ calls'[c] = calls[c]
        \/ c = "worker" /\ QueuedEvent(q, u) /\ calls'[c].event = q.event
  <2>1. CASE calls' = calls
    BY <1>2, <2>1 DEF CalledEvent, Callers
  <2>2. CASE ~IsOutcome(q) /\ calls'["worker"].task = q.task /\ calls'["worker"].event = q.event
    BY <1>2, <2>2 DEF CalledEvent, Callers, QueuedEvent
  <2> QED BY <1>1, <2>1, <2>2, DeliverCases
<1>5. \A i, j \in DOMAIN queue' :
        QueuedEvent(queue'[i], u) /\ QueuedEvent(queue'[j], u) /\ queue'[i].event.id = queue'[j].event.id
          => i = j
  <2>1. SUFFICES ASSUME NEW i \in DOMAIN queue', NEW j \in DOMAIN queue',
                        QueuedEvent(queue'[i], u), QueuedEvent(queue'[j], u),
                        queue'[i].event.id = queue'[j].event.id
                 PROVE  i = j
    OBVIOUS
  <2>2. i + 1 = j + 1
    BY <1>2, <1>3, <2>1 DEF DistinctIds
  <2>3. i \in Int /\ j \in Int
    BY <1>2, LenProperties
  <2> QED BY <2>2, <2>3
<1>6. \A r \in ToSet(queue') : QueuedEvent(r, u) /\ QueuedEvent(q, u) => r.event.id # q.event.id
  <2>1. SUFFICES ASSUME NEW r \in ToSet(queue'), QueuedEvent(r, u), QueuedEvent(q, u), r.event.id = q.event.id
                 PROVE  FALSE
    OBVIOUS
  <2>2. PICK i \in DOMAIN queue' : r = queue'[i]
    BY DEF ToSet
  <2>3. i + 1 \in DOMAIN queue /\ i + 1 # 1 /\ r = queue[i + 1]
    BY <1>2, <2>2
  <2> QED BY <1>2, <1>3, <2>1, <2>3 DEF DistinctIds
<1>7. /\ \A r \in ToSet(queue') : QueuedEvent(r, u) =>
           /\ r.event.id # st[u].lastEventID
           /\ CalledEvent("session", u) => calls["session"].event.id # r.event.id
           /\ \A g \in effects : EffectEvent(g, u) => g.event.id # r.event.id
      /\ QueuedEvent(q, u) =>
           /\ q.event.id # st[u].lastEventID
           /\ CalledEvent("session", u) => calls["session"].event.id # q.event.id
           /\ \A g \in effects : EffectEvent(g, u) => g.event.id # q.event.id
      /\ CalledEvent("session", u) =>
           /\ calls["session"].event.id # st[u].lastEventID
           /\ \A g \in effects : EffectEvent(g, u) => g.event.id # calls["session"].event.id
      /\ \A g \in effects : EffectEvent(g, u) =>
           /\ g.event.id # st[u].lastEventID
           /\ \A h \in effects : EffectEvent(h, u) /\ h.event.id = g.event.id => g = h
  BY <1>2, <1>3 DEF DistinctIds, Callers
<1>8. \A r \in ToSet(queue') : QueuedEvent(r, u) =>
        /\ r.event.id # st'[u].lastEventID
        /\ \A c \in Callers : CalledEvent(c, u)' => calls'[c].event.id # r.event.id
        /\ \A g \in effects' : EffectEvent(g, u) => g.event.id # r.event.id
  BY <1>2, <1>4, <1>6, <1>7
<1>9. \A c \in Callers : CalledEvent(c, u)' =>
        /\ calls'[c].event.id # st'[u].lastEventID
        /\ \A d \in Callers : CalledEvent(d, u)' /\ calls'[d].event.id = calls'[c].event.id => c = d
        /\ \A g \in effects' : EffectEvent(g, u) => g.event.id # calls'[c].event.id
  BY <1>2, <1>4, <1>7
<1> QED BY <1>2, <1>5, <1>7, <1>8, <1>9 DEF DistinctIds, QueuedEvent, EffectEvent

-----------------------------------------------------------------------------
(* What Deliver takes from the queue of a task *)
LEMMA DeliverSums ==
  ASSUME IInv, Deliver, NEW q, q = Head(queue), Types', NEW t
  PROVE  /\ Messages(t) = Messages(t)' + One(q.task = t /\ ~IsOutcome(q))
         /\ Results(t) = Results(t)' + One(q.task = t /\ IsOutcome(q))
         /\ Effects(t, Carrying)' = Effects(t, Carrying)
         /\ Effects(t, Announcements)' = Effects(t, Announcements)
         /\ Starting(t, Announcements)' = Starting(t, Announcements)
         /\ Starting(t, Carrying)' = Starting(t, Carrying)
         /\ Cardinality(CarryingCalls(t)') =
              Cardinality(CarryingCalls(t)) + One(q.task = t /\ ~IsOutcome(q))
<1>1. queue \in Seq(Entry) /\ queue # <<>> /\ queue' = Tail(queue) /\ effects' = effects
      /\ calls["worker"].pc = "idle" /\ calls'["session"] = calls["session"]
  BY DeliverCases DEF IInv, Types
<1>2. /\ Messages(t) = Messages(t)' + One(q.task = t /\ ~IsOutcome(q))
      /\ Results(t) = Results(t)' + One(q.task = t /\ IsOutcome(q))
  BY <1>1, QueueShrinks DEF One
<1>3. /\ Effects(t, Carrying)' = Effects(t, Carrying)
      /\ Effects(t, Announcements)' = Effects(t, Announcements)
  BY <1>1, CountsKept, Zenon
<1>4. \/ calls' = calls /\ IsOutcome(q)
      \/ /\ calls'["worker"].pc = "advance" /\ calls'["worker"].task = q.task
         /\ calls'["worker"].event.type \in Produced /\ ~IsOutcome(q)
  BY DeliverCases DEF GoodEvent
<1>5. \A types : Starting(t, types)' = Starting(t, types)
  BY <1>1, <1>4 DEF Starting, Callers
<1>6. "user_input.received" \notin Produced
  BY DEF Produced, TurnEvents, ModelAnswers, ToolAnswers, TSM!RequestEvents
<1>7. /\ "worker" \notin CarryingCalls(t)
      /\ "worker" \in CarryingCalls(t)' <=> q.task = t /\ ~IsOutcome(q)
  BY <1>1, <1>4, <1>6 DEF CarryingCalls, Advancing, Starting, Callers
<1>8. Cardinality(CarryingCalls(t)') = Cardinality(CarryingCalls(t)) + One(q.task = t /\ ~IsOutcome(q))
  <2>1. "worker" \in Callers /\ \A d \in Callers \ {"worker"} : calls'[d] = calls[d]
    BY <1>1 DEF Callers
  <2>2. Cardinality(CarryingCalls(t)') + One("worker" \in CarryingCalls(t)) =
          Cardinality(CarryingCalls(t)) + One("worker" \in CarryingCalls(t)')
    BY <2>1, CallsChange
  <2>3. Cardinality(CarryingCalls(t)) \in Nat /\ Cardinality(CarryingCalls(t)') \in Nat
    BY Counts, CountsNext, Zenon DEF IInv
  <2> QED BY <1>7, <2>2, <2>3 DEF One
<1>9. /\ Starting(t, Announcements)' = Starting(t, Announcements)
      /\ Starting(t, Carrying)' = Starting(t, Carrying)
  BY <1>5, Zenon
<1> QED BY <1>2, <1>3, <1>8, <1>9

(* The tasks whose entry it is not *)
LEMMA DeliverOthers ==
  ASSUME IInv, Deliver, Types', Handling', NEW u \in owned, u # Head(queue).task
  PROVE  Settled(u)'
<1>1. PICK q : q = Head(queue)
  OBVIOUS
<1>2. /\ q.task \in Tasks /\ u \in Tasks /\ ToSet(queue) = ToSet(queue') \cup {q}
      /\ calls["worker"].pc = "idle" /\ calls'["session"] = calls["session"]
      /\ UNCHANGED <<snap, effects, seq, current, owned, session, typed, history>>
      /\ st' = st
  BY <1>1, DeliverCases, SessionFacts DEF machine
<1>3. outcomes'[u] = outcomes[u] /\ question'[u] = question[u]
      /\ (calls'["worker"].pc # "idle" => calls'["worker"].task = q.task)
  <2>1. CASE /\ calls' = calls /\ question' = question
             /\ outcomes' = [outcomes EXCEPT ![q.task] = outcomes[q.task] + 1]
    BY <1>1, <1>2, <2>1 DEF IInv, Types
  <2>2. CASE /\ outcomes' = outcomes /\ calls'["worker"].task = q.task
             /\ question' = [question EXCEPT ![q.task] =
                  IF q.event.type = "agent.user_input_requested" THEN q.event.ref ELSE question[q.task]]
    BY <1>1, <1>2, <2>2 DEF IInv, Types
  <2> QED BY <1>1, <2>1, <2>2, DeliverCases
<1>4. Messages(u)' = Messages(u) /\ Results(u)' = Results(u)
  <2>1. /\ Messages(u) = Messages(u)' + One(q.task = u /\ ~IsOutcome(q))
        /\ Results(u) = Results(u)' + One(q.task = u /\ IsOutcome(q))
    BY <1>1, DeliverSums
  <2>2. Messages(u) \in Nat /\ Results(u) \in Nat /\ Messages(u)' \in Nat /\ Results(u)' \in Nat
    BY Counts, CountsNext, Zenon DEF IInv
  <2> QED BY <1>1, <2>1, <2>2 DEF One
<1>5. /\ \A c \in Callers : Concerns(c, u)' <=> Concerns(c, u)
      /\ \A c \in Callers : Concerns(c, u) => calls'[c] = calls[c]
  BY <1>1, <1>2, <1>3 DEF Concerns, Callers
<1>6. \A r : QueuedEvent(r, u) => (r \in ToSet(queue)' <=> r \in ToSet(queue))
  BY <1>1, <1>2 DEF QueuedEvent
<1>7. Untouched(u)
  BY <1>2, <1>3, <1>4, <1>5, <1>6 DEF Untouched, history
<1>8. DistinctIds(u)'
  BY DeliverIds
<1> QED BY <1>2, <1>7, <1>8, UntouchedKept

(* The work of the entry's task *)
LEMMA DeliverWork ==
  ASSUME IInv, Deliver, Types', NEW q, q = Head(queue), NEW t, t = q.task
  PROVE  /\ Carriers(t)' = Carriers(t) /\ Coming(t)' = Coming(t) /\ Doing(t)' = Doing(t)
         /\ outcomes'[t] + Announcing(t)' = outcomes[t] + Announcing(t)
<1>1. /\ ToSet(queue) = ToSet(queue') \cup {q} /\ t \in Tasks
      /\ calls["worker"].pc = "idle" /\ calls'["session"] = calls["session"] /\ effects' = effects
  BY DeliverCases
<1>2. /\ Messages(t) = Messages(t)' + One(~IsOutcome(q))
      /\ Results(t) = Results(t)' + One(IsOutcome(q))
      /\ Effects(t, Carrying)' = Effects(t, Carrying)
      /\ Effects(t, Announcements)' = Effects(t, Announcements)
      /\ Starting(t, Announcements)' = Starting(t, Announcements)
      /\ Starting(t, Carrying)' = Starting(t, Carrying)
      /\ Cardinality(CarryingCalls(t)') = Cardinality(CarryingCalls(t)) + One(~IsOutcome(q))
  BY DeliverSums DEF One
<1>3. /\ Messages(t) \in Nat /\ Results(t) \in Nat /\ Messages(t)' \in Nat /\ Results(t)' \in Nat
      /\ Effects(t, Carrying) \in Nat /\ Effects(t, Announcements) \in Nat
      /\ Cardinality(CarryingCalls(t)) \in Nat /\ Cardinality(Starting(t, Announcements)) \in Nat
      /\ Carriers(t) \in Nat /\ Carriers(t)' \in Nat /\ Announcing(t) \in Nat /\ Announcing(t)' \in Nat
  BY Counts, CountsNext, Zenon DEF IInv
<1>4. PICK j \in {0, 1}, l \in {0, 1} : j = One(~IsOutcome(q)) /\ l = One(IsOutcome(q))
  BY DEF One
<1>5. Carriers(t)' = Carriers(t)
  <2>1. /\ Messages(t)' + j = Messages(t) + 0
        /\ Effects(t, Carrying)' + 0 = Effects(t, Carrying) + 0
        /\ Cardinality(CarryingCalls(t)') + 0 = Cardinality(CarryingCalls(t)) + j
    BY <1>2, <1>3, <1>4
  <2>2. Carriers(t)' + (j + 0 + 0) = Carriers(t) + (0 + 0 + j)
    BY <2>1, Tally DEF IInv
  <2> QED BY <1>3, <2>2
<1>6. Announcing(t)' + l = Announcing(t)
  <2>1. /\ Results(t)' + l = Results(t) + 0
        /\ Effects(t, Announcements)' + 0 = Effects(t, Announcements) + 0
        /\ Cardinality(Starting(t, Announcements)') + 0 = Cardinality(Starting(t, Announcements)) + 0
    BY <1>2, <1>3, <1>4
  <2>2. Announcing(t)' + (l + 0 + 0) = Announcing(t) + (0 + 0 + 0)
    BY <2>1, TallyOutcomes DEF IInv
  <2> QED BY <1>3, <2>2
<1>7. outcomes'[t] = outcomes[t] + l /\ outcomes[t] \in Nat
  <2>1. outcomes \in [Tasks -> Nat]
    BY DEF IInv, Types
  <2>2. \/ IsOutcome(q) /\ outcomes' = [outcomes EXCEPT ![t] = outcomes[t] + 1]
        \/ ~IsOutcome(q) /\ outcomes' = outcomes
    BY DeliverCases
  <2> QED BY <1>1, <1>4, <2>1, <2>2 DEF One
<1>8. Coming(t)' = Coming(t)
  <2>1. CASE IsOutcome(q) /\ calls' = calls
    <3>1. EventsOf(t)' = EventsOf(t)
      BY <1>1, <2>1 DEF EventsOf
    <3> QED BY <3>1 DEF Coming
  <2>2. CASE /\ ~IsOutcome(q) /\ calls'["worker"].pc = "advance" /\ calls'["worker"].task = q.task
             /\ calls'["worker"].event = q.event
    <3>1. EventsOf(t)' = EventsOf(t)
      <4>1. \A e : e \in EventsOf(t) <=>
              \/ \E r \in ToSet(queue) : r.task = t /\ ~IsOutcome(r) /\ e = r.event
              \/ \E c \in Callers : calls[c].pc = "advance" /\ calls[c].task = t /\ e = calls[c].event
              \/ \E g \in effects : g.task = t /\ e = g.event
        BY DEF EventsOf
      <4>2. \A e : e \in EventsOf(t)' <=>
              \/ \E r \in ToSet(queue') : r.task = t /\ ~IsOutcome(r) /\ e = r.event
              \/ \E c \in Callers : calls'[c].pc = "advance" /\ calls'[c].task = t /\ e = calls'[c].event
              \/ \E g \in effects' : g.task = t /\ e = g.event
        BY DEF EventsOf
      <4>3. \A e : (\E r \in ToSet(queue) : r.task = t /\ ~IsOutcome(r) /\ e = r.event) <=>
              \/ \E r \in ToSet(queue') : r.task = t /\ ~IsOutcome(r) /\ e = r.event
              \/ e = q.event
        BY <1>1, <2>2
      <4>4. \A e : (\E c \in Callers : calls'[c].pc = "advance" /\ calls'[c].task = t /\ e = calls'[c].event) <=>
              \/ \E c \in Callers : calls[c].pc = "advance" /\ calls[c].task = t /\ e = calls[c].event
              \/ e = q.event
        BY <1>1, <2>2 DEF Callers
      <4>5. \A e : e \in EventsOf(t)' <=> e \in EventsOf(t)
        BY <1>1, <4>1, <4>2, <4>3, <4>4
      <4> QED BY <4>5
    <3> QED BY <3>1 DEF Coming
  <2> QED BY <2>1, <2>2, DeliverCases
<1>9. Doing(t)' = Doing(t)
  <2>1. \A d \in Starting(t, Carrying) : calls'[d] = calls[d]
    BY <1>1 DEF Starting, Callers
  <2> QED BY <1>1, <1>2, <2>1 DEF Doing
<1>10. outcomes'[t] + Announcing(t)' = outcomes[t] + Announcing(t)
  BY <1>3, <1>6, <1>7
<1> QED BY <1>5, <1>8, <1>9, <1>10

(* The task of the entry *)
LEMMA DeliverTask ==
  ASSUME IInv, Deliver, Types', Handling', NEW t \in owned, t = Head(queue).task
  PROVE  Settled(t)'
<1>1. PICK q : q = Head(queue)
  OBVIOUS
<1>2. /\ t = q.task /\ t \in Tasks /\ ToSet(queue) = ToSet(queue') \cup {q}
      /\ calls["worker"].pc = "idle" /\ calls'["session"] = calls["session"]
      /\ UNCHANGED <<snap, effects, seq, current, owned, session, typed, history>>
      /\ st' = st
  BY <1>1, DeliverCases, SessionFacts DEF machine
<1>3. /\ Carriers(t)' = Carriers(t) /\ Coming(t)' = Coming(t) /\ Doing(t)' = Doing(t)
      /\ outcomes'[t] + Announcing(t)' = outcomes[t] + Announcing(t)
  BY <1>1, <1>2, DeliverWork
<1>4. (Over(t)' <=> Over(t)) /\ (AsksUser(t)' <=> AsksUser(t))
  BY <1>2 DEF Over, AsksUser, TSM!IsTerminal, TSM!TerminalPhases
<1>5. Bounded(t)'
  BY <1>2, <1>3, <1>4 DEF IInv, Bounded, history
<1>6. Attended(t) => Attended(t)'
  BY <1>2, <1>3, AttendedKept
<1>7. Known(t) => Known(t)'
  <2>1. Known(t) => (\A g \in effects' : g.task = t /\ g.pc = "loaded" => g.own = snap[t]) /\ t \notin refused'
    BY <1>2 DEF Known, history
  <2> QED BY <1>2, <1>3, <2>1, TaskKept DEF Known
<1>8. Answering(t) => Answering(t)'
  BY <1>2, <1>4 DEF Answering, CalledEvent
<1>9. guided[t] = 0 /\ Shown(t) => Shown(t)'
  <2>1. SUFFICES ASSUME guided[t] = 0, Shown(t) PROVE Shown(t)'
    OBVIOUS
  <2>2. CASE IsOutcome(q) /\ calls' = calls /\ question' = question
    BY <1>2, <1>4, <2>1, <2>2 DEF Shown, CalledEvent
  <2>3. CASE /\ ~IsOutcome(q) /\ calls'["worker"].pc = "advance" /\ calls'["worker"].task = q.task
             /\ calls'["worker"].event = q.event
             /\ question' = [question EXCEPT ![q.task] =
                  IF q.event.type = "agent.user_input_requested" THEN q.event.ref ELSE question[q.task]]
    <3>1. ~AsksUser(t)
      <4>1. q \in ToSet(queue) /\ QueuedEvent(q, t)
        BY <1>2, <2>3 DEF QueuedEvent
      <4>2. Carriers(t) >= 1 /\ Carriers(t) \in Nat
        BY <4>1, Alone DEF IInv, Solitary
      <4>3. AsksUser(t) => Carriers(t) <= 0
        BY <2>1 DEF IInv, Bounded
      <4> QED BY <4>2, <4>3
    <3>2. question'[t] = IF q.event.type = "agent.user_input_requested" THEN q.event.ref ELSE question[t]
      BY <1>2, <2>3 DEF IInv, Types
    <3>3. CalledEvent("session", t) => calls["session"].event.type # "agent.user_input_requested"
      <4>1. calls["session"].pc = "advance" =>
              calls["session"].event.type \in {"task.start_requested", "user_input.received"}
        BY DEF IInv, Handling
      <4> QED BY <4>1 DEF CalledEvent
    <3>4. \A c \in Callers : CalledEvent(c, t)' /\ calls'[c].event.type = "agent.user_input_requested"
             => question'[t] = calls'[c].event.ref
      BY <1>2, <2>3, <3>2, <3>3 DEF CalledEvent, Callers
    <3> QED BY <1>4, <3>1, <3>4 DEF Shown
  <2> QED BY <1>1, <2>2, <2>3, DeliverCases
<1>10. DistinctIds(t)'
  BY DeliverIds
<1> QED BY <1>2, <1>4, <1>5, <1>6, <1>7, <1>8, <1>9, <1>10 DEF IInv, Settled, history

(* The bus worker hands out an entry. *)
LEMMA DeliverPreserves == IInv /\ Deliver => IInv'
<1> SUFFICES ASSUME IInv, Deliver PROVE IInv'
  OBVIOUS
<1>1. Types' /\ Numbered' /\ Owned' /\ Handling' /\ Started' /\ P!IInv'
  BY DeliverStructure
<1>2. owned' = owned
  BY DEF Deliver
<1>3. ASSUME NEW u \in owned PROVE Settled(u)'
  BY <1>1, DeliverOthers, DeliverTask
<1> QED BY <1>1, <1>2, <1>3 DEF IInv, Settled

-----------------------------------------------------------------------------
(* What every step of an effect goroutine leaves alone *)
EffectFrame == UNCHANGED <<machine, calls, seq, current, owned, session, typed, ui, cancelled, guided>>

(* The types and where everybody is, after a step of an effect *)
LEMMA EffectStructure ==
  ASSUME IInv, EffectFrame, NEW t \in owned, snap' \in [Tasks -> Snapshot], queue' \in Seq(Entry),
         effects' \subseteq EffectRecord, IsFiniteSet(effects'), dropped' \subseteq Tasks, refused' \subseteq Tasks,
         \A q \in ToSet(queue') : q \in ToSet(queue) \/ q.task = t,
         \A g \in effects' : g \in effects \/ g.task = t,
         \A u \in refused' : u \in refused \/ u = t
  PROVE  Types' /\ Owned' /\ Handling' /\ Started' /\ P!IInv' /\ st' = st
<1>1. /\ UNCHANGED <<calls, seq, current, owned, session, typed, outcomes, question, guided>>
      /\ st' = st /\ P!IInv'
  BY MachineKept DEF EffectFrame, machine, ui, IInv
<1>2. Types'
  BY <1>1 DEF IInv, Types
<1>3. Owned'
  BY <1>1 DEF IInv, Owned
<1>4. Handling'
  BY <1>1 DEF IInv, Handling
<1>5. Started'
  BY <1>1 DEF IInv, Started, Starts
<1> QED BY <1>1, <1>2, <1>3, <1>4, <1>5

(* The tasks whose effect it is not *)
LEMMA EffectOthers ==
  ASSUME IInv, EffectFrame, Types', Handling', NEW t, NEW u \in owned, u # t, snap'[u] = snap[u],
         u \in dropped' <=> u \in dropped, u \in refused' <=> u \in refused,
         \A g : g.task # t => (g \in effects' <=> g \in effects),
         \A q : q.task # t => (q \in ToSet(queue)' <=> q \in ToSet(queue)),
         Messages(u)' = Messages(u), Results(u)' = Results(u), DistinctIds(u)'
  PROVE  Settled(u)'
<1>1. /\ UNCHANGED <<calls, seq, current, owned, session, typed, outcomes, question, guided>>
      /\ st' = st
  BY DEF EffectFrame, machine, ui
<1>2. Untouched(u)
  BY <1>1 DEF Untouched, Concerns, QueuedEvent
<1> QED BY <1>1, <1>2, UntouchedKept

(* An effect goes on under its number. *)
LEMMA EffectGoesOn ==
  ASSUME IInv, NEW g \in effects, NEW h \in EffectRecord, h.id = g.id, h.task = g.task, h.type = g.type,
         Sensible(h), Becomes(g, h)
  PROVE  /\ effects' \subseteq EffectRecord /\ IsFiniteSet(effects') /\ Numbered'
         /\ h \in effects' /\ h \notin effects \ {g}
         /\ \A k \in effects' : k = h \/ (k \in effects /\ k # g)
         /\ \A k \in effects : k = g \/ k \in effects'
         /\ \A k : k.task # g.task => (k \in effects' <=> k \in effects)
         /\ \A u, types : Effects(u, types)' = Effects(u, types)
<1>1. effects' = (effects \ {g}) \cup {h} /\ effects \subseteq EffectRecord /\ IsFiniteSet(effects)
  BY DEF Becomes, IInv, Types
<1>2. IsFiniteSet(effects')
  <2>1. IsFiniteSet(effects \ {g})
    BY <1>1, FS_RemoveElement
  <2> QED BY <1>1, <2>1, FS_AddElement
<1>3. h \notin effects \ {g}
  BY DEF IInv, Numbered
<1>4. Numbered'
  <2>1. \A k \in effects' : Sensible(k)
    BY <1>1 DEF IInv, Numbered
  <2>2. \A j, k \in effects' : j.id = k.id => j = k
    BY <1>1 DEF IInv, Numbered
  <2> QED BY <2>1, <2>2 DEF Numbered, Sensible
<1>5. ASSUME NEW u, NEW types PROVE Effects(u, types)' = Effects(u, types)
  BY <1>1, <1>3, EffectsReplaced
<1>6. /\ effects' \subseteq EffectRecord /\ h \in effects'
      /\ \A k \in effects' : k = h \/ (k \in effects /\ k # g)
      /\ \A k \in effects : k = g \/ k \in effects'
      /\ \A k : k.task # g.task => (k \in effects' <=> k \in effects)
  BY <1>1
<1> QED BY <1>2, <1>3, <1>4, <1>5, <1>6

(* An effect ends. *)
LEMMA EffectEnds ==
  ASSUME IInv, NEW g \in effects, Ends(g)
  PROVE  /\ effects' \subseteq EffectRecord /\ IsFiniteSet(effects') /\ Numbered'
         /\ \A k \in effects' : k \in effects /\ k # g
         /\ \A k \in effects : k = g \/ k \in effects'
         /\ \A k : k.task # g.task => (k \in effects' <=> k \in effects)
         /\ \A u, types : Effects(u, types) = Effects(u, types)' + One(g.task = u /\ g.type \in types)
<1>1. effects' = effects \ {g} /\ effects \subseteq EffectRecord /\ IsFiniteSet(effects)
  BY DEF Ends, IInv, Types
<1>2. IsFiniteSet(effects')
  BY <1>1, FS_RemoveElement
<1>3. Numbered'
  BY <1>1 DEF IInv, Numbered, Sensible
<1>4. ASSUME NEW u, NEW types
      PROVE  Effects(u, types) = Effects(u, types)' + One(g.task = u /\ g.type \in types)
  BY <1>1, EffectsShrink DEF One
<1>5. /\ effects' \subseteq EffectRecord
      /\ \A k \in effects' : k \in effects /\ k # g
      /\ \A k \in effects : k = g \/ k \in effects'
      /\ \A k : k.task # g.task => (k \in effects' <=> k \in effects)
  BY <1>1
<1> QED BY <1>2, <1>3, <1>4, <1>5

(* An effect is of a task of the session's, and of its types. *)
LEMMA EffectFacts ==
  ASSUME IInv, NEW g \in effects
  PROVE  /\ g \in EffectRecord /\ g.task \in owned /\ g.task \in Tasks /\ g.type \in TSM!EffectTypes
         /\ Sensible(g)
         /\ g.type \notin Carrying \/ g.pc # "answer" => g.event = TSM!NoEvent
<1>1. g \in EffectRecord /\ g.task \in owned /\ Sensible(g)
  BY DEF IInv, Types, Owned, Numbered
<1>2. g.type \in TSM!EffectTypes
  BY <1>1 DEF EffectRecord
<1> QED BY <1>1, <1>2, SessionFacts DEF Sensible

(* Without a new event, none is doubled. *)
LEMMA IdsKept ==
  ASSUME IInv, NEW u \in owned, st' = st, queue' = queue, calls' = calls,
         \A g \in effects' : EffectEvent(g, u) => g \in effects
  PROVE  DistinctIds(u)'
<1>1. DistinctIds(u)
  BY DEF IInv
<1> QED BY <1>1 DEF DistinctIds, QueuedEvent, CalledEvent, EffectEvent

(* Where a task's events and its work are, when the effects alone change *)
LEMMA EffectWork ==
  ASSUME NEW t, queue' = queue, calls' = calls
  PROVE  /\ (\A g \in effects' : g.task = t /\ g.event.type # "none" => \E h \in effects : h.task = t /\ h.event = g.event)
              => Coming(t)' \subseteq Coming(t)
         /\ (\A g \in effects : g.task = t /\ g.event.type # "none" => \E h \in effects' : h.task = t /\ h.event = g.event)
              => Coming(t) \subseteq Coming(t)'
         /\ (\A g \in effects' : g.task = t /\ g.type \in Carrying /\ g.pc # "answer" =>
               \E h \in effects : /\ h.task = t /\ h.type \in Carrying /\ h.pc # "answer"
                                  /\ Work(h.type, h.ref, h.on) = Work(g.type, g.ref, g.on))
              => Doing(t)' \subseteq Doing(t)
         /\ (\A g \in effects : g.task = t /\ g.type \in Carrying /\ g.pc # "answer" =>
               \E h \in effects' : /\ h.task = t /\ h.type \in Carrying /\ h.pc # "answer"
                                   /\ Work(h.type, h.ref, h.on) = Work(g.type, g.ref, g.on))
              => Doing(t) \subseteq Doing(t)'
<1>1. \A e : e \in EventsOf(t) <=> \/ \E r \in ToSet(queue) : r.task = t /\ ~IsOutcome(r) /\ e = r.event
                                   \/ \E c \in Callers : calls[c].pc = "advance" /\ calls[c].task = t /\ e = calls[c].event
                                   \/ \E g \in effects : g.task = t /\ e = g.event
  BY DEF EventsOf
<1>2. \A e : e \in EventsOf(t)' <=>
        \/ \E r \in ToSet(queue) : r.task = t /\ ~IsOutcome(r) /\ e = r.event
        \/ \E c \in Callers : calls[c].pc = "advance" /\ calls[c].task = t /\ e = calls[c].event
        \/ \E g \in effects' : g.task = t /\ e = g.event
  BY DEF EventsOf
<1>3. Starting(t, Carrying)' = Starting(t, Carrying)
  BY DEF Starting
<1>4. \A y : y \in Doing(t) <=>
        \/ \E d \in Starting(t, Carrying) : y = Work(calls[d].effect.type, calls[d].effect.ref, calls[d].on)
        \/ \E g \in effects : /\ g.task = t /\ g.type \in Carrying /\ g.pc # "answer"
                              /\ y = Work(g.type, g.ref, g.on)
  BY DEF Doing
<1>5. \A y : y \in Doing(t)' <=>
        \/ \E d \in Starting(t, Carrying) : y = Work(calls[d].effect.type, calls[d].effect.ref, calls[d].on)
        \/ \E g \in effects' : /\ g.task = t /\ g.type \in Carrying /\ g.pc # "answer"
                               /\ y = Work(g.type, g.ref, g.on)
  BY <1>3 DEF Doing
<1>6. \A e : e \in Coming(t) <=> e \in EventsOf(t) /\ e.type \notin {"none", "user_input.received"}
  BY DEF Coming
<1>7. \A e : e \in Coming(t)' <=> e \in EventsOf(t)' /\ e.type \notin {"none", "user_input.received"}
  BY DEF Coming
<1>8. (\A g \in effects' : g.task = t /\ g.event.type # "none" => \E h \in effects : h.task = t /\ h.event = g.event)
        => Coming(t)' \subseteq Coming(t)
  BY <1>1, <1>2, <1>6, <1>7
<1>9. (\A g \in effects : g.task = t /\ g.event.type # "none" => \E h \in effects' : h.task = t /\ h.event = g.event)
        => Coming(t) \subseteq Coming(t)'
  BY <1>1, <1>2, <1>6, <1>7
<1>10. (\A g \in effects' : g.task = t /\ g.type \in Carrying /\ g.pc # "answer" =>
          \E h \in effects : /\ h.task = t /\ h.type \in Carrying /\ h.pc # "answer"
                             /\ Work(h.type, h.ref, h.on) = Work(g.type, g.ref, g.on))
         => Doing(t)' \subseteq Doing(t)
  BY <1>4, <1>5
<1>11. (\A g \in effects : g.task = t /\ g.type \in Carrying /\ g.pc # "answer" =>
          \E h \in effects' : /\ h.task = t /\ h.type \in Carrying /\ h.pc # "answer"
                              /\ Work(h.type, h.ref, h.on) = Work(g.type, g.ref, g.on))
         => Doing(t) \subseteq Doing(t)'
  BY <1>4, <1>5
<1> QED BY <1>8, <1>9, <1>10, <1>11

-----------------------------------------------------------------------------
(* The sums of a task whose effects are as many as before *)
LEMMA SumsKept ==
  ASSUME Types, Types', NEW u, queue' = queue, calls' = calls,
         Effects(u, Carrying)' = Effects(u, Carrying), Effects(u, Announcements)' = Effects(u, Announcements)
  PROVE  Carriers(u)' = Carriers(u) /\ Announcing(u)' = Announcing(u)
<1>1. /\ Messages(u)' = Messages(u) /\ Results(u)' = Results(u)
      /\ CarryingCalls(u)' = CarryingCalls(u)
      /\ Starting(u, Announcements)' = Starting(u, Announcements)
  BY CountsKept, Zenon
<1>2. /\ Carriers(u)' = Messages(u)' + Effects(u, Carrying)' + Cardinality(CarryingCalls(u)')
      /\ Carriers(u) = Messages(u) + Effects(u, Carrying) + Cardinality(CarryingCalls(u))
      /\ Announcing(u)' = Results(u)' + Effects(u, Announcements)' + Cardinality(Starting(u, Announcements)')
      /\ Announcing(u) = Results(u) + Effects(u, Announcements) + Cardinality(Starting(u, Announcements))
  BY Counts, CountsNext, Zenon
<1> QED BY <1>1, <1>2

(* A goroutine goes on and has nothing to say yet, or says what it had to say. *)
LEMMA QuietGoesOn ==
  ASSUME IInv, EffectFrame, UNCHANGED <<queue, snap, dropped, refused>>,
         NEW g \in effects, NEW h \in EffectRecord, h.id = g.id, h.task = g.task, h.type = g.type,
         Sensible(h), Becomes(g, h),
         h.ref = g.ref, h.on = g.on, h.event = g.event,
         h.type \in Carrying => h.pc # "answer" /\ g.pc # "answer",
         h.pc = "loaded" => h.own = snap[g.task]
  PROVE  IInv'
<1>1. /\ effects' \subseteq EffectRecord /\ IsFiniteSet(effects') /\ Numbered'
      /\ h \in effects'
      /\ \A k \in effects' : k = h \/ (k \in effects /\ k # g)
      /\ \A k \in effects : k = g \/ k \in effects'
      /\ \A k : k.task # g.task => (k \in effects' <=> k \in effects)
  BY EffectGoesOn
<1>2. \A u, types : Effects(u, types)' = Effects(u, types)
  BY EffectGoesOn
<1>3. g.task \in owned /\ g.task \in Tasks
  BY EffectFacts
<1>4. Types' /\ Owned' /\ Handling' /\ Started' /\ P!IInv' /\ st' = st
  BY <1>1, <1>3, EffectStructure DEF IInv, Types
<1>5. ASSUME NEW u \in owned PROVE DistinctIds(u)'
  <2>1. calls' = calls
    BY DEF EffectFrame
  <2>2. DistinctIds(u)
    BY DEF IInv
  <2>3. \A k \in effects' : EffectEvent(k, u) =>
          \E j \in effects : EffectEvent(j, u) /\ j.event = k.event /\ (j = k \/ (j = g /\ k = h))
    BY <1>1 DEF EffectEvent
  <2>4. \A k \in effects' : EffectEvent(k, u) =>
          /\ k.event.id # st[u].lastEventID
          /\ \A q \in ToSet(queue) : QueuedEvent(q, u) => k.event.id # q.event.id
          /\ \A c \in Callers : CalledEvent(c, u) => k.event.id # calls[c].event.id
    BY <2>2, <2>3 DEF DistinctIds
  <2>5. \A k, m \in effects' : EffectEvent(k, u) /\ EffectEvent(m, u) /\ k.event.id = m.event.id => k = m
    BY <1>1, <2>2, <2>3 DEF DistinctIds
  <2> QED BY <1>4, <2>1, <2>2, <2>4, <2>5 DEF DistinctIds, QueuedEvent, CalledEvent, EffectEvent
<1>6. ASSUME NEW u \in owned, u # g.task PROVE Settled(u)'
  <2>1. Messages(u)' = Messages(u) /\ Results(u)' = Results(u)
    BY CountsKept, Zenon
  <2> QED BY <1>1, <1>4, <1>5, <1>6, <2>1, EffectOthers
<1>7. ASSUME NEW t, t = g.task PROVE Settled(t)'
  <2>1. Effects(t, Carrying)' = Effects(t, Carrying) /\ Effects(t, Announcements)' = Effects(t, Announcements)
    BY <1>2, Zenon
  <2>2. calls' = calls /\ guided' = guided /\ outcomes' = outcomes /\ question' = question
        /\ session' = session /\ current' = current
    BY DEF EffectFrame, ui
  <2>3. Carriers(t)' = Carriers(t) /\ Announcing(t)' = Announcing(t)
    BY <1>4, <2>1, <2>2, SumsKept DEF IInv
  <2>4. (Over(t)' <=> Over(t)) /\ (AsksUser(t)' <=> AsksUser(t))
    BY <1>4 DEF Over, AsksUser, TSM!IsTerminal, TSM!TerminalPhases
  <2>5. Bounded(t)'
    BY <1>3, <1>7, <2>2, <2>3, <2>4 DEF IInv, Bounded
  <2>6. Work(h.type, h.ref, h.on) = Work(g.type, g.ref, g.on)
    OBVIOUS
  <2>7. Coming(t)' \subseteq Coming(t) /\ Coming(t) \subseteq Coming(t)'
    <3>1. \A k \in effects' : k.task = t /\ k.event.type # "none" => \E j \in effects : j.task = t /\ j.event = k.event
      BY <1>1
    <3>2. \A k \in effects : k.task = t /\ k.event.type # "none" => \E j \in effects' : j.task = t /\ j.event = k.event
      BY <1>1
    <3> QED BY <2>2, <3>1, <3>2, EffectWork
  <2>8. Doing(t)' \subseteq Doing(t) /\ Doing(t) \subseteq Doing(t)'
    <3>1. \A k \in effects' : k.task = t /\ k.type \in Carrying /\ k.pc # "answer" =>
            \E j \in effects : /\ j.task = t /\ j.type \in Carrying /\ j.pc # "answer"
                               /\ Work(j.type, j.ref, j.on) = Work(k.type, k.ref, k.on)
      BY <1>1, <2>6
    <3>2. \A k \in effects : k.task = t /\ k.type \in Carrying /\ k.pc # "answer" =>
            \E j \in effects' : /\ j.task = t /\ j.type \in Carrying /\ j.pc # "answer"
                                /\ Work(j.type, j.ref, j.on) = Work(k.type, k.ref, k.on)
      BY <1>1, <2>6
    <3> QED BY <2>2, <3>1, <3>2, EffectWork
  <2>9. \A c \in Callers : CalledEvent(c, t)' => CalledEvent(c, t) /\ calls'[c] = calls[c]
    BY <2>2 DEF CalledEvent
  <2>10. \A k \in effects' : k.task = t /\ k.pc = "loaded" => k.own = snap[t] \/ k \in effects
    BY <1>1, <1>7
  <2>11. guided[t] = 0 => t \notin refused'
    BY <1>3, <1>7 DEF IInv, Known
  <2> QED BY <1>3, <1>4, <1>5, <1>7, <2>2, <2>5, <2>7, <2>8, <2>9, <2>10, <2>11, TaskLess
<1>8. owned' = owned
  BY DEF EffectFrame
<1> QED BY <1>1, <1>4, <1>6, <1>7, <1>8 DEF IInv, Settled

(* A goroutine ends without a word: its task has lost it, or did not need it. *)
LEMMA QuietEnds ==
  ASSUME IInv, EffectFrame, UNCHANGED <<queue, snap>>, NEW g \in effects, Ends(g),
         \/ dropped' = dropped \cup {g.task} /\ refused' = refused
         \/ /\ dropped' = dropped /\ refused' = refused \cup {g.task}
            /\ g.type \notin Announcements /\ guided[g.task] # 0
         \/ dropped' = dropped /\ refused' = refused /\ g.type \notin Announcements \cup Carrying
  PROVE  IInv'
<1>1. /\ effects' \subseteq EffectRecord /\ IsFiniteSet(effects') /\ Numbered'
      /\ \A k \in effects' : k \in effects /\ k # g
      /\ \A k \in effects : k = g \/ k \in effects'
      /\ \A k : k.task # g.task => (k \in effects' <=> k \in effects)
  BY EffectEnds
<1>2. \A u, types : Effects(u, types) = Effects(u, types)' + One(g.task = u /\ g.type \in types)
  BY EffectEnds DEF One
<1>3. g.task \in owned /\ g.task \in Tasks /\ (g.type \notin Carrying => g.event = TSM!NoEvent)
  BY EffectFacts
<1>4. Types' /\ Owned' /\ Handling' /\ Started' /\ P!IInv' /\ st' = st
  <2>1. dropped' \subseteq Tasks /\ refused' \subseteq Tasks /\ \A u \in refused' : u \in refused \/ u = g.task
    BY <1>3 DEF IInv, Types
  <2> QED BY <1>1, <1>3, <2>1, EffectStructure DEF IInv, Types
<1>5. ASSUME NEW u \in owned PROVE DistinctIds(u)'
  <2>1. calls' = calls
    BY DEF EffectFrame
  <2> QED BY <1>1, <1>4, <2>1, IdsKept
<1>6. ASSUME NEW u \in owned, u # g.task PROVE Settled(u)'
  <2>1. Messages(u)' = Messages(u) /\ Results(u)' = Results(u)
    BY CountsKept, Zenon
  <2> QED BY <1>1, <1>4, <1>5, <1>6, <2>1, EffectOthers
<1>7. ASSUME NEW t, t = g.task PROVE Settled(t)'
  <2>1. calls' = calls /\ guided' = guided /\ outcomes' = outcomes /\ question' = question
        /\ session' = session /\ current' = current
    BY DEF EffectFrame, ui
  <2>2. PICK j \in {0, 1}, l \in {0, 1} : j = One(g.type \in Carrying) /\ l = One(g.type \in Announcements)
    BY DEF One
  <2>3. Effects(t, Carrying) = Effects(t, Carrying)' + j /\ Effects(t, Announcements) = Effects(t, Announcements)' + l
    <3>1. ASSUME NEW types PROVE Effects(t, types) = Effects(t, types)' + One(g.type \in types)
      <4>1. Effects(t, types) = Effects(t, types)' + One(g.task = t /\ g.type \in types)
        BY <1>2, Zenon
      <4> QED BY <1>7, <4>1
    <3>2. Effects(t, Carrying) = Effects(t, Carrying)' + One(g.type \in Carrying)
          /\ Effects(t, Announcements) = Effects(t, Announcements)' + One(g.type \in Announcements)
      BY <3>1, Zenon
    <3> QED BY <2>2, <3>2
  <2>4. /\ Messages(t)' = Messages(t) /\ Results(t)' = Results(t)
        /\ CarryingCalls(t)' = CarryingCalls(t)
        /\ Starting(t, Announcements)' = Starting(t, Announcements)
    BY <2>1, CountsKept, Zenon
  <2>5. /\ Messages(t) \in Nat /\ Results(t) \in Nat
        /\ Effects(t, Carrying) \in Nat /\ Effects(t, Announcements) \in Nat
        /\ Effects(t, Carrying)' \in Nat /\ Effects(t, Announcements)' \in Nat
        /\ Cardinality(CarryingCalls(t)) \in Nat /\ Cardinality(Starting(t, Announcements)) \in Nat
        /\ Carriers(t) \in Nat /\ Carriers(t)' \in Nat /\ Announcing(t) \in Nat /\ Announcing(t)' \in Nat
    BY <1>4, Counts, CountsNext, Zenon DEF IInv
  <2>6. Carriers(t)' + j = Carriers(t)
    <3>1. /\ Messages(t)' + 0 = Messages(t) + 0
          /\ Effects(t, Carrying)' + j = Effects(t, Carrying) + 0
          /\ Cardinality(CarryingCalls(t)') + 0 = Cardinality(CarryingCalls(t)) + 0
      BY <2>3, <2>4, <2>5
    <3>2. Carriers(t)' + (0 + j + 0) = Carriers(t) + (0 + 0 + 0)
      BY <1>4, <3>1, Tally DEF IInv
    <3> QED BY <2>5, <3>2
  <2>7. Announcing(t)' + l = Announcing(t)
    <3>1. /\ Results(t)' + 0 = Results(t) + 0
          /\ Effects(t, Announcements)' + l = Effects(t, Announcements) + 0
          /\ Cardinality(Starting(t, Announcements)') + 0 = Cardinality(Starting(t, Announcements)) + 0
      BY <2>3, <2>4, <2>5
    <3>2. Announcing(t)' + (0 + l + 0) = Announcing(t) + (0 + 0 + 0)
      BY <1>4, <3>1, TallyOutcomes DEF IInv
    <3> QED BY <2>5, <3>2
  <2>8. Bounded(t)'
    <3>1. guided[t] \in Nat /\ outcomes[t] \in Nat
      BY <1>3, <1>7 DEF IInv, Types
    <3>2. g.type \notin Announcements => l = 0
      BY <2>2 DEF One
    <3>3. /\ outcomes[t] + Announcing(t) \in Nat /\ outcomes'[t] + Announcing(t)' \in Nat
          /\ Carriers(t)' <= Carriers(t)
          /\ \/ outcomes'[t] + Announcing(t)' = outcomes[t] + Announcing(t)
             \/ outcomes'[t] + Announcing(t)' <= outcomes[t] + Announcing(t) /\ t \in dropped'
      BY <1>7, <2>1, <2>5, <2>6, <2>7, <3>1, <3>2
    <3> QED BY <1>3, <1>4, <1>7, <2>1, <2>5, <3>1, <3>3, BoundedKept DEF IInv
  <2>9. /\ Coming(t)' \subseteq Coming(t)
        /\ g.type \notin Carrying => Coming(t) \subseteq Coming(t)'
    <3>1. \A k \in effects' : k.task = t /\ k.event.type # "none" => \E m \in effects : m.task = t /\ m.event = k.event
      BY <1>1
    <3>2. g.type \notin Carrying =>
            \A k \in effects : k.task = t /\ k.event.type # "none" => \E m \in effects' : m.task = t /\ m.event = k.event
      BY <1>1, <1>3 DEF TSM!NoEvent
    <3> QED BY <2>1, <3>1, <3>2, EffectWork
  <2>10. /\ Doing(t)' \subseteq Doing(t)
         /\ g.type \notin Carrying => Doing(t) \subseteq Doing(t)'
    <3>1. \A k \in effects' : k.task = t /\ k.type \in Carrying /\ k.pc # "answer" =>
            \E m \in effects : /\ m.task = t /\ m.type \in Carrying /\ m.pc # "answer"
                               /\ Work(m.type, m.ref, m.on) = Work(k.type, k.ref, k.on)
      BY <1>1
    <3>2. g.type \notin Carrying =>
            \A k \in effects : k.task = t /\ k.type \in Carrying /\ k.pc # "answer" =>
              \E m \in effects' : /\ m.task = t /\ m.type \in Carrying /\ m.pc # "answer"
                                  /\ Work(m.type, m.ref, m.on) = Work(k.type, k.ref, k.on)
      BY <1>1
    <3> QED BY <2>1, <3>1, <3>2, EffectWork
  <2>11. \A c \in Callers : CalledEvent(c, t)' => CalledEvent(c, t) /\ calls'[c] = calls[c]
    BY <2>1 DEF CalledEvent
  <2>12. \A k \in effects' : k.task = t /\ k.pc = "loaded" => k.own = snap[t] \/ k \in effects
    BY <1>1
  <2>13. guided[t] = 0 => t \notin refused'
    BY <1>3, <1>7 DEF IInv, Known
  <2>14. dropped \subseteq dropped' /\ refused \subseteq refused'
         /\ (t \in dropped' \cup refused' \/ g.type \notin Carrying)
    BY <1>7
  <2> QED BY <1>3, <1>4, <1>5, <1>7, <2>1, <2>8, <2>9, <2>10, <2>11, <2>12, <2>13, <2>14, TaskLess
<1>8. owned' = owned
  BY DEF EffectFrame
<1> QED BY <1>1, <1>4, <1>6, <1>7, <1>8 DEF IInv, Settled

-----------------------------------------------------------------------------
(* What ExecuteEffect leaves alone *)
ExecuteFrame == UNCHANGED <<machine, queue, calls, seq, current, owned, session, typed, ui,
                            cancelled, dropped, guided>>

(* The agent reads the snapshot of its task, and sees it as it is. *)
LEMMA AgentLoadsPreserves == \A g \in effects : IInv /\ AgentLoads(g) /\ ExecuteFrame => IInv'
<1> SUFFICES ASSUME NEW g \in effects, IInv, AgentLoads(g), ExecuteFrame PROVE IInv'
  OBVIOUS
<1>1. g \in EffectRecord /\ g.task \in Tasks /\ Sensible(g) /\ g.pc = "run" /\ g.type = "agent.resume"
  BY EffectFacts DEF AgentLoads, Runs
<1>2. snap[g.task] \in Snapshot
  BY <1>1 DEF IInv, Types
<1>3. PICK h : h = [g EXCEPT !.pc = "loaded", !.own = snap[g.task]]
  OBVIOUS
<1>4. /\ h \in EffectRecord /\ h.id = g.id /\ h.task = g.task /\ h.type = g.type
      /\ h.ref = g.ref /\ h.on = g.on /\ h.event = g.event /\ h.pc = "loaded" /\ h.own = snap[g.task]
  BY <1>1, <1>2, <1>3 DEF EffectRecord
<1>5. Sensible(h)
  BY <1>1, <1>4 DEF Sensible
<1>6. Becomes(g, h) /\ EffectFrame /\ UNCHANGED <<queue, snap, dropped, refused>>
  BY <1>3 DEF AgentLoads, ExecuteFrame, EffectFrame
<1> QED BY <1>1, <1>4, <1>5, <1>6, QuietGoesOn

(* The announcement of an outcome is made. *)
LEMMA AnnouncePreserves == \A g \in effects : IInv /\ Announce(g) /\ ExecuteFrame => IInv'
<1> SUFFICES ASSUME NEW g \in effects, IInv, Announce(g), ExecuteFrame PROVE IInv'
  OBVIOUS
<1>1. g \in EffectRecord /\ Sensible(g) /\ g.pc = "run" /\ g.type \in Announcements
  BY EffectFacts DEF Announce, Runs
<1>2. PICK h : h = [g EXCEPT !.pc = "answer"]
  OBVIOUS
<1>3. /\ h \in EffectRecord /\ h.id = g.id /\ h.task = g.task /\ h.type = g.type
      /\ h.ref = g.ref /\ h.on = g.on /\ h.event = g.event /\ h.pc = "answer"
  BY <1>1, <1>2 DEF EffectRecord
<1>4. Sensible(h) /\ h.type \notin Carrying
  BY <1>1, <1>3 DEF Sensible, Carrying
<1>5. Becomes(g, h) /\ EffectFrame /\ UNCHANGED <<queue, snap, dropped, refused>>
  BY <1>2 DEF Announce, ExecuteFrame, EffectFrame
<1> QED BY <1>1, <1>3, <1>4, <1>5, QuietGoesOn

(* The question was asked. *)
LEMMA AskUserPreserves == \A g \in effects : IInv /\ AskUser(g) /\ ExecuteFrame => IInv'
<1> SUFFICES ASSUME NEW g \in effects, IInv, AskUser(g), ExecuteFrame PROVE IInv'
  OBVIOUS
<1>1. g.type \notin Announcements \cup Carrying
  BY DEF AskUser, Runs, Announcements, Carrying
<1>2. Ends(g) /\ EffectFrame /\ UNCHANGED <<queue, snap, dropped, refused>>
  BY DEF AskUser, ExecuteFrame, EffectFrame
<1> QED BY <1>1, <1>2, QuietEnds

(* An effect whose context is done may end without a word. *)
LEMMA DropAnswerPreserves == \A g \in effects : IInv /\ DropAnswer(g) => IInv'
<1> SUFFICES ASSUME NEW g \in effects, IInv, DropAnswer(g) PROVE IInv'
  OBVIOUS
<1>1. Ends(g) /\ EffectFrame /\ UNCHANGED <<queue, snap, refused>> /\ dropped' = dropped \cup {g.task}
  BY DEF DropAnswer, EffectFrame
<1> QED BY <1>1, QuietEnds

(* An agent refuses a resume only if another turn of its task is about, and that takes
   a user who guided the task. *)
LEMMA OnlyGuidedRefuse ==
  ASSUME IInv, NEW g \in effects, AgentRefuses(g)
  PROVE  guided[g.task] # 0 /\ g.type \notin Announcements
<1>1. g \in EffectRecord /\ g.task \in owned /\ Sensible(g)
  BY EffectFacts
<1>2. g.type = "agent.resume" /\ g.pc \in {"run", "loaded"}
  BY <1>1 DEF AgentRefuses, Runs, Resumes, Sensible
<1>3. g.type \in Carrying /\ g.type \notin Announcements
  BY <1>2 DEF Carrying, Announcements, TSM!EffectTypes
<1>4. ASSUME guided[g.task] = 0 PROVE FALSE
  <2>1. Known(g.task)
    BY <1>1, <1>4 DEF IInv
  <2>2. PICK x : x = Work(g.type, g.ref, g.on)
    OBVIOUS
  <2>3. x \in Doing(g.task)
    BY <1>2, <1>3, <2>2 DEF Doing
  <2>4. x.type = "agent.resume" /\ x.ref = g.ref /\ x.on = g.on
    BY <1>2, <2>2 DEF Work
  <2>5. snap[g.task].saved /\ (g.on \in ModelAnswers => g.ref = snap[g.task].pendingModel)
    BY <2>1, <2>3, <2>4 DEF Known, WorkKnown
  <2>6. CASE Runs(g, {"agent.resume"}) /\ ~snap[g.task].saved
    BY <2>5, <2>6
  <2>7. CASE Resumes(g, {"model.response_received"}) /\ ~AnswersPending(g)
    <3>1. g.own = snap[g.task]
      BY <2>1, <2>7 DEF Known, Resumes
    <3>2. g.ref # g.own.pendingModel
      BY <2>7 DEF AnswersPending
    <3> QED BY <2>5, <2>7, <3>1, <3>2 DEF Resumes, ModelAnswers
  <2> QED BY <2>6, <2>7 DEF AgentRefuses
<1> QED BY <1>3, <1>4

(* The agent refuses a resume. *)
LEMMA AgentRefusesPreserves == \A g \in effects : IInv /\ AgentRefuses(g) /\ ExecuteFrame => IInv'
<1> SUFFICES ASSUME NEW g \in effects, IInv, AgentRefuses(g), ExecuteFrame PROVE IInv'
  OBVIOUS
<1>1. Ends(g) /\ EffectFrame /\ UNCHANGED <<queue, snap, dropped>> /\ refused' = refused \cup {g.task}
  BY DEF AgentRefuses, ExecuteFrame, EffectFrame
<1> QED BY <1>1, OnlyGuidedRefuse, QuietEnds

-----------------------------------------------------------------------------
(* A goroutine that has an event to publish *)
Spoken(g, e) == [g EXCEPT !.pc = "answer", !.event = e]

(* What a goroutine is to publish takes the place of its work. *)
LEMMA SpokenWork ==
  ASSUME IInv, EffectFrame, queue' = queue, NEW g \in effects, g.type \in Carrying, g.pc # "answer",
         NEW e \in GoodEvent(Produced), NEW h, h.task = g.task, h.event = e, Becomes(g, h), NEW t, t = g.task
  PROVE  /\ Coming(t) \subseteq Coming(t)' /\ e \in Coming(t)'
         /\ Doing(t) \subseteq Doing(t)' \cup {Work(g.type, g.ref, g.on)}
<1>1. calls' = calls /\ effects' = (effects \ {g}) \cup {h} /\ g.event = TSM!NoEvent
  BY EffectFacts DEF EffectFrame, Becomes
<1>2. Coming(t) \subseteq Coming(t)'
  <2>1. \A k \in effects : k.task = t /\ k.event.type # "none" => \E j \in effects' : j.task = t /\ j.event = k.event
    BY <1>1 DEF TSM!NoEvent
  <2> QED BY <1>1, <2>1, EffectWork
<1>3. e \in Coming(t)'
  <2>1. e.type \notin {"none", "user_input.received"}
    BY DEF GoodEvent, Produced, TurnEvents, ModelAnswers, ToolAnswers, TSM!RequestEvents
  <2>2. e \in EventsOf(t)'
    BY <1>1 DEF EventsOf
  <2> QED BY <2>1, <2>2 DEF Coming
<1>4. Starting(t, Carrying)' = Starting(t, Carrying)
  BY <1>1 DEF Starting
<1>5. Doing(t) \subseteq Doing(t)' \cup {Work(g.type, g.ref, g.on)}
  BY <1>1, <1>4 DEF Doing
<1> QED BY <1>2, <1>3, <1>5

(* An event with an id of its own is held once. *)
LEMMA SpokenIds ==
  ASSUME IInv, EffectFrame, queue' = queue, NEW g \in effects, g.type \in Carrying, g.pc # "answer",
         NEW e \in GoodEvent(Produced), NEW h, h.task = g.task, h.event = e, Becomes(g, h),
         e.id # st[g.task].lastEventID, \A f \in EventsOf(g.task) : f.id # e.id, NEW u \in owned
  PROVE  DistinctIds(u)'
<1>1. calls' = calls /\ st' = st /\ effects' = (effects \ {g}) \cup {h} /\ g.event = TSM!NoEvent
  BY EffectFacts DEF EffectFrame, machine, Becomes
<1>2. DistinctIds(u)
  BY DEF IInv
<1>3. CASE u # g.task
  BY <1>1, <1>2, <1>3, IdsKept DEF EffectEvent
<1>4. CASE u = g.task
  <2>1. /\ \A q \in ToSet(queue) : QueuedEvent(q, u) => q.event.id # e.id
        /\ \A c \in Callers : CalledEvent(c, u) => calls[c].event.id # e.id
        /\ \A k \in effects : k.task = u => k.event.id # e.id
    BY <1>4, HeldEvents
  <2>2. \A k \in effects' : EffectEvent(k, u) => k = h \/ (k \in effects /\ EffectEvent(k, u))
    BY <1>1
  <2>3. /\ \A k \in effects' : EffectEvent(k, u) =>
             /\ k.event.id # st[u].lastEventID
             /\ \A q \in ToSet(queue) : QueuedEvent(q, u) => k.event.id # q.event.id
             /\ \A c \in Callers : CalledEvent(c, u) => k.event.id # calls[c].event.id
    BY <1>2, <1>4, <2>1, <2>2 DEF DistinctIds
  <2>4. \A k, m \in effects' : EffectEvent(k, u) /\ EffectEvent(m, u) /\ k.event.id = m.event.id => k = m
    BY <1>2, <2>1, <2>2 DEF DistinctIds, EffectEvent
  <2> QED BY <1>1, <1>2, <2>3, <2>4 DEF DistinctIds, QueuedEvent, CalledEvent, EffectEvent
<1> QED BY <1>3, <1>4

(* An effect made an event, and left its agent's snapshot as s. *)
LEMMA SpeaksPreserves ==
  ASSUME IInv, EffectFrame, UNCHANGED <<queue, dropped, refused>>,
         NEW g \in effects, g.type \in Carrying, g.pc # "answer", NEW t, t = g.task,
         NEW e \in GoodEvent(Produced), Becomes(g, Spoken(g, e)),
         e.id # st[t].lastEventID, \A f \in EventsOf(t) : f.id # e.id,
         NEW s \in Snapshot, snap' = [snap EXCEPT ![t] = s],
         WorkFits(st[t], Work(g.type, g.ref, g.on)) => EventFits(st[t], e),
         guided[t] = 0 => s.saved /\ EventKnown(st[t], s, e)
  PROVE  IInv'
<1>1. PICK h : h = Spoken(g, e)
  OBVIOUS
<1>2. t \in owned /\ t \in Tasks /\ g \in EffectRecord /\ Sensible(g)
  BY EffectFacts
<1>3. /\ h \in EffectRecord /\ h.id = g.id /\ h.task = t /\ h.type = g.type
      /\ h.event = e /\ h.pc = "answer"
  BY <1>1, <1>2 DEF EffectRecord, Spoken
<1>4. Sensible(h) /\ Becomes(g, h)
  BY <1>1, <1>2, <1>3 DEF Sensible, Carrying
<1>5. /\ effects' \subseteq EffectRecord /\ IsFiniteSet(effects') /\ Numbered'
      /\ h \in effects'
      /\ \A k \in effects' : k = h \/ (k \in effects /\ k # g)
      /\ \A k : k.task # g.task => (k \in effects' <=> k \in effects)
  BY <1>3, <1>4, EffectGoesOn
<1>6. \A u, types : Effects(u, types)' = Effects(u, types)
  BY <1>3, <1>4, EffectGoesOn
<1>7. /\ snap' \in [Tasks -> Snapshot] /\ snap'[t] = s /\ \A u \in Tasks \ {t} : snap'[u] = snap[u]
  BY <1>2 DEF IInv, Types
<1>8. Types' /\ Owned' /\ Handling' /\ Started' /\ P!IInv' /\ st' = st
  BY <1>2, <1>3, <1>5, <1>7, EffectStructure DEF IInv, Types
<1>9. ASSUME NEW u \in owned PROVE DistinctIds(u)'
  BY <1>3, <1>4, SpokenIds
<1>10. ASSUME NEW u \in owned, u # t PROVE Settled(u)'
  <2>1. Messages(u)' = Messages(u) /\ Results(u)' = Results(u)
    BY CountsKept, Zenon
  <2>2. snap'[u] = snap[u]
    BY <1>7, <1>10, SessionFacts
  <2> QED BY <1>5, <1>8, <1>9, <1>10, <2>1, <2>2, EffectOthers
<1>11. calls' = calls /\ guided' = guided /\ outcomes' = outcomes /\ question' = question
       /\ session' = session /\ current' = current
  BY DEF EffectFrame, ui
<1>12. Carriers(t)' = Carriers(t) /\ Announcing(t)' = Announcing(t)
  <2>1. Effects(t, Carrying)' = Effects(t, Carrying) /\ Effects(t, Announcements)' = Effects(t, Announcements)
    BY <1>6, Zenon
  <2> QED BY <1>8, <1>11, <2>1, SumsKept DEF IInv
<1>13. (Over(t)' <=> Over(t)) /\ (AsksUser(t)' <=> AsksUser(t))
  BY <1>8 DEF Over, AsksUser, TSM!IsTerminal, TSM!TerminalPhases
<1>14. Bounded(t)'
  BY <1>2, <1>11, <1>12, <1>13 DEF IInv, Bounded
<1>15. Attended(t) => Attended(t)'
  <2>1. /\ Coming(t) \subseteq Coming(t)' /\ e \in Coming(t)'
        /\ Doing(t) \subseteq Doing(t)' \cup {Work(g.type, g.ref, g.on)}
    BY <1>3, <1>4, SpokenWork
  <2> QED BY <1>8, <2>1 DEF Attended
<1>16. guided[t] = 0 => Known(t)'
  <2>1. SUFFICES ASSUME guided[t] = 0 PROVE Known(t)'
    OBVIOUS
  <2>2. Known(t) /\ Bounded(t)
    BY <1>2, <2>1 DEF IInv
  <2>3. Carriers(t)' <= 1
    <3>1. Carriers(t)' \in Nat
      BY <1>8, CountsNext, Zenon
    <3> QED BY <1>12, <2>1, <2>2, <3>1 DEF Bounded
  <2>4. h \in Goroutines(t)'
    BY <1>3, <1>5 DEF Goroutines
  <2>5. /\ \A f \in Coming(t)' : f = e
        /\ \A x \in Doing(t)' : FALSE
        /\ Goroutines(t)' = {h}
    <3>1. Solitary(t)'
      BY <1>5, <1>8, AloneNext
    <3> QED BY <1>3, <2>3, <2>4, <3>1 DEF Solitary
  <2>6. \A k \in effects' : k.task = t /\ k.pc = "loaded" => FALSE
    <3>1. \A k \in effects' : k.pc = "loaded" => k.type \in Carrying
      BY <1>5 DEF Numbered, Sensible, Carrying, Announcements, TSM!EffectTypes
    <3> QED BY <1>3, <2>5, <3>1 DEF Goroutines
  <2> QED BY <1>7, <1>8, <2>1, <2>2, <2>5, <2>6 DEF Known
<1>17. (Shown(t) => Shown(t)') /\ (Answering(t) => Answering(t)')
  BY <1>8, <1>11, <1>13 DEF Shown, Answering, CalledEvent
<1>18. Settled(t)'
  BY <1>2, <1>8, <1>9, <1>11, <1>13, <1>14, <1>15, <1>16, <1>17 DEF IInv, Settled
<1>19. owned' = owned
  BY DEF EffectFrame
<1> QED BY <1>5, <1>8, <1>10, <1>18, <1>19 DEF IInv, Settled

-----------------------------------------------------------------------------
(* Produces makes an event of the session's kind, under an id nobody holds. *)
LEMMA ProducedEvent ==
  ASSUME IInv, NEW g \in effects, NEW type \in Produced, NEW ref \in Refs \cup {NoRef},
         type \in {"agent.completed", "agent.failed"} => ref = NoRef,
         type \in TSM!RequestEvents => ref # NoRef,
         Produces(g, type, ref)
  PROVE  \E e \in GoodEvent(Produced) :
           /\ e.type = type /\ e.ref = ref
           /\ e.id # st[g.task].lastEventID /\ \A f \in EventsOf(g.task) : f.id # e.id
           /\ Becomes(g, Spoken(g, e))
<1>1. PICK id : id = FreshId(g.task)
  OBVIOUS
<1>2. PICK e : e = MakeEvent(id, type, ref, NoAgent)
  OBVIOUS
<1>3. id \in EventIds /\ id # st[g.task].lastEventID /\ \A f \in EventsOf(g.task) : f.id # id
  BY <1>1, FreshIdIsNew DEF Produces
<1>4. type \in TSM!EventTypes /\ (type \notin TSM!RequestEvents \cup TSM!AnswerEvents => ref = NoRef)
  BY DEF Produced, TurnEvents, ModelAnswers, ToolAnswers, TSM!RequestEvents, TSM!AnswerEvents,
         TSM!EventTypes, TSM!HandledEvents
<1>5. NoAgent \in {Agent, NoAgent}
  OBVIOUS
<1>6. e \in GoodEvent(Produced) /\ e.id = id /\ e.type = type /\ e.ref = ref
  BY <1>2, <1>3, <1>4, <1>5, MadeEvents
<1>7. Becomes(g, Spoken(g, e))
  BY <1>1, <1>2 DEF Produces, Spoken
<1> QED BY <1>3, <1>6, <1>7

(* A turn of the agent ends with its event, and with its snapshot saved. *)
LEMMA TurnSpeaks ==
  ASSUME IInv, ExecuteFrame, refused' = refused, NEW g \in effects, g.type \in Turns, g.pc # "answer",
         NEW type \in TurnEvents, NEW ref \in Refs \cup {NoRef},
         type \in {"agent.completed", "agent.failed"} => ref = NoRef,
         type \in TSM!RequestEvents => ref # NoRef,
         Produces(g, type, ref),
         NEW s \in Snapshot, Save(g, s), type = "agent.model_requested" => s.pendingModel = ref
  PROVE  IInv'
<1>1. type \in Produced /\ type \notin ModelAnswers /\ type # "task.start_requested"
  BY DEF Produced, TurnEvents, ModelAnswers, TSM!RequestEvents
<1>2. PICK e \in GoodEvent(Produced) :
           /\ e.type = type /\ e.ref = ref
           /\ e.id # st[g.task].lastEventID /\ \A f \in EventsOf(g.task) : f.id # e.id
           /\ Becomes(g, Spoken(g, e))
  BY <1>1, ProducedEvent
<1>3. PICK n : n = [s EXCEPT !.saved = TRUE]
  OBVIOUS
<1>4. n \in Snapshot /\ n.saved /\ n.pendingModel = s.pendingModel /\ snap' = [snap EXCEPT ![g.task] = n]
  BY <1>3 DEF Snapshot, Save
<1>5. PICK x : x = Work(g.type, g.ref, g.on)
  OBVIOUS
<1>6. x.type \in Turns
  BY <1>5 DEF Work
<1>7. WorkFits(st[g.task], x) => EventFits(st[g.task], e)
  BY <1>2, <1>6 DEF WorkFits, EventFits, Turns
<1>8. g.type \in Carrying /\ g.task \in owned
  BY EffectFacts DEF Turns, Carrying, Announcements, TSM!EffectTypes
<1>9. guided[g.task] = 0 => EventKnown(st[g.task], n, e)
  <2>1. SUFFICES ASSUME guided[g.task] = 0 PROVE EventKnown(st[g.task], n, e)
    OBVIOUS
  <2>2. Known(g.task)
    BY <1>8, <2>1 DEF IInv
  <2>3. x \in Doing(g.task)
    BY <1>5, <1>8 DEF Doing
  <2>4. WorkFits(st[g.task], x)
    BY <2>2, <2>3 DEF Known, WorkKnown
  <2> QED BY <1>1, <1>2, <1>4, <1>7, <2>4 DEF EventKnown
<1>10. EffectFrame /\ UNCHANGED <<queue, dropped, refused>>
  BY DEF ExecuteFrame, EffectFrame
<1> QED BY <1>2, <1>4, <1>5, <1>7, <1>8, <1>9, <1>10, SpeaksPreserves

(* The agent asks the model, or has used up its turns. *)
LEMMA RequestPreserves ==
  ASSUME IInv, ExecuteFrame, refused' = refused, NEW g \in effects, g.type \in Turns, g.pc # "answer",
         NEW s \in Snapshot, RequestDecision(g, s)
  PROVE  IInv'
<1>1. CASE Save(g, s) /\ Produces(g, "agent.failed", NoRef)
  BY <1>1, TurnSpeaks DEF TurnEvents, TSM!RequestEvents
<1>2. ASSUME NEW ref, ref = FreshRef(g.task), Save(g, [s EXCEPT !.pendingModel = ref]),
             Produces(g, "agent.model_requested", ref)
      PROVE  IInv'
  <2>1. ref \in Refs /\ ref # NoRef
    BY <1>2, FreshIdIsNew DEF Produces
  <2>2. PICK n : n = [s EXCEPT !.pendingModel = ref]
    OBVIOUS
  <2>3. n \in Snapshot /\ n.pendingModel = ref /\ Save(g, n)
    BY <1>2, <2>1, <2>2 DEF Snapshot
  <2> QED BY <1>2, <2>1, <2>3, TurnSpeaks DEF TurnEvents, TSM!RequestEvents
<1> QED BY <1>1, <1>2 DEF RequestDecision

(* The agent starts. *)
LEMMA AgentStartPreserves == \A g \in effects : IInv /\ AgentStart(g) /\ ExecuteFrame => IInv'
<1> SUFFICES ASSUME NEW g \in effects, IInv, AgentStart(g), ExecuteFrame PROVE IInv'
  OBVIOUS
<1>1. NoSnapshot \in Snapshot
  BY DEF NoSnapshot, Snapshot
<1>2. g.type \in Turns /\ g.pc # "answer"
  BY DEF AgentStart, Runs, Turns
<1> QED BY <1>1, <1>2, RequestPreserves DEF AgentStart

(* A turn that read its snapshot is a resume, and works on a snapshot. *)
LEMMA LoadedTurn ==
  ASSUME IInv, NEW g \in effects, g.pc = "loaded"
  PROVE  g.type \in Turns /\ g.pc # "answer" /\ g.own \in Snapshot
<1>1. g \in EffectRecord /\ Sensible(g)
  BY EffectFacts
<1> QED BY <1>1 DEF EffectRecord, Sensible, Turns

(* The agent takes in an answer and asks the model again. *)
LEMMA AgentObservesPreserves == \A g \in effects : IInv /\ AgentObserves(g) /\ ExecuteFrame => IInv'
<1> SUFFICES ASSUME NEW g \in effects, IInv, AgentObserves(g), ExecuteFrame PROVE IInv'
  OBVIOUS
<1>1. g.pc = "loaded" /\ refused' = refused /\ RequestDecision(g, g.own)
  BY DEF AgentObserves, Resumes
<1> QED BY <1>1, LoadedTurn, RequestPreserves

(* The agent does what the model decided. *)
LEMMA AgentDecidesPreserves == \A g \in effects : IInv /\ AgentDecides(g) /\ ExecuteFrame => IInv'
<1> SUFFICES ASSUME NEW g \in effects, IInv, AgentDecides(g), ExecuteFrame PROVE IInv'
  OBVIOUS
<1>1. g.pc = "loaded" /\ refused' = refused
  BY DEF AgentDecides, Resumes
<1>2. PICK step \in 0 .. MaxTurns - 1 : Save(g, [g.own EXCEPT !.pendingModel = NoRef, !.stepIndex = step + 1])
  BY DEF AgentDecides
<1>3. PICK n : n = [g.own EXCEPT !.pendingModel = NoRef, !.stepIndex = step + 1]
  OBVIOUS
<1>4. n \in Snapshot /\ Save(g, n)
  <2>1. step + 1 \in Nat
    OBVIOUS
  <2> QED BY <1>1, <1>2, <1>3, <2>1, LoadedTurn DEF Snapshot
<1>5. ASSUME NEW type \in TSM!RequestEvents \ {"agent.model_requested"}, Produces(g, type, FreshRef(g.task))
      PROVE  IInv'
  <2>1. PICK ref : ref = FreshRef(g.task)
    OBVIOUS
  <2>2. ref \in Refs /\ ref # NoRef
    BY <1>5, <2>1, FreshIdIsNew DEF Produces
  <2>3. type \in TurnEvents /\ type \notin {"agent.completed", "agent.failed"}
    BY DEF TurnEvents, TSM!RequestEvents
  <2> QED BY <1>1, <1>4, <1>5, <2>1, <2>2, <2>3, LoadedTurn, TurnSpeaks
<1>6. ASSUME NEW type \in {"agent.completed", "agent.failed"}, Produces(g, type, NoRef) PROVE IInv'
  BY <1>1, <1>4, <1>6, LoadedTurn, TurnSpeaks DEF TurnEvents, TSM!RequestEvents
<1> QED BY <1>5, <1>6 DEF AgentDecides

(* The model call failed, or what the model said is of no use. *)
LEMMA AgentFailsPreserves == \A g \in effects : IInv /\ AgentFails(g) /\ ExecuteFrame => IInv'
<1> SUFFICES ASSUME NEW g \in effects, IInv, AgentFails(g), ExecuteFrame PROVE IInv'
  OBVIOUS
<1>1. g.pc = "loaded" /\ refused' = refused /\ Produces(g, "agent.failed", NoRef)
  BY DEF AgentFails, Resumes
<1>2. PICK n : n = [g.own EXCEPT !.pendingModel = NoRef]
  OBVIOUS
<1>3. n \in Snapshot /\ Save(g, n)
  BY <1>1, <1>2, LoadedTurn DEF Snapshot, AgentFails
<1> QED BY <1>1, <1>3, LoadedTurn, TurnSpeaks DEF TurnEvents, TSM!RequestEvents

(* The model or a tool answers, or its failure does. *)
LEMMA AnswersPreserves == \A g \in effects : IInv /\ Answers(g) /\ ExecuteFrame => IInv'
<1> SUFFICES ASSUME NEW g \in effects, IInv, Answers(g), ExecuteFrame PROVE IInv'
  OBVIOUS
<1>1. /\ g \in EffectRecord /\ g.task \in owned /\ g.task \in Tasks /\ g.pc = "run" /\ g.ref \in Refs \cup {NoRef}
      /\ EffectFrame /\ UNCHANGED <<queue, dropped, refused>> /\ snap' = snap /\ g.pc # "answer"
  BY EffectFacts DEF Answers, Runs, ExecuteFrame, EffectFrame, EffectRecord
<1>2. PICK type : /\ Produces(g, type, g.ref)
                  /\ \/ g.type = "model.call" /\ type \in ModelAnswers
                     \/ g.type = "tool.dispatch" /\ type \in ToolAnswers
  BY DEF Answers, Runs, ModelAnswers, ToolAnswers
<1>3. /\ type \in Produced /\ type \notin {"agent.completed", "agent.failed"} /\ type \notin TSM!RequestEvents
      /\ type # "agent.model_requested" /\ g.type \in Carrying
      /\ g.type # "agent.start" /\ (type \in ModelAnswers => g.type = "model.call")
  BY <1>2 DEF Produced, TurnEvents, ModelAnswers, ToolAnswers, TSM!RequestEvents,
                   Carrying, Announcements, TSM!EffectTypes
<1>4. PICK e \in GoodEvent(Produced) :
           /\ e.type = type /\ e.ref = g.ref
           /\ e.id # st[g.task].lastEventID /\ \A f \in EventsOf(g.task) : f.id # e.id
           /\ Becomes(g, Spoken(g, e))
  BY <1>1, <1>2, <1>3, ProducedEvent
<1>5. PICK n : n = snap[g.task]
  OBVIOUS
<1>6. n \in Snapshot /\ snap' = [snap EXCEPT ![g.task] = n]
  BY <1>1, <1>5 DEF IInv, Types
<1>7. PICK x : x = Work(g.type, g.ref, g.on)
  OBVIOUS
<1>8. x.type = g.type /\ x.ref = g.ref
  BY <1>7 DEF Work
<1>9. WorkFits(st[g.task], x) => EventFits(st[g.task], e)
  BY <1>2, <1>4, <1>8 DEF WorkFits, EventFits, Turns
<1>10. guided[g.task] = 0 => n.saved /\ EventKnown(st[g.task], n, e)
  <2>1. SUFFICES ASSUME guided[g.task] = 0 PROVE n.saved /\ EventKnown(st[g.task], n, e)
    OBVIOUS
  <2>2. Known(g.task)
    BY <1>1, <2>1 DEF IInv
  <2>3. x \in Doing(g.task)
    BY <1>1, <1>3, <1>7 DEF Doing
  <2>4. WorkFits(st[g.task], x) /\ n.saved /\ (g.type = "model.call" => g.ref = n.pendingModel)
    BY <1>3, <1>5, <1>8, <2>2, <2>3 DEF Known, WorkKnown
  <2> QED BY <1>3, <1>4, <1>9, <2>4 DEF EventKnown
<1>11. WorkFits(st[g.task], Work(g.type, g.ref, g.on)) => EventFits(st[g.task], e)
  BY <1>7, <1>9
<1>12. e \in GoodEvent(Produced) /\ Becomes(g, Spoken(g, e))
  BY <1>4
<1>13. e.id # st[g.task].lastEventID /\ \A f \in EventsOf(g.task) : f.id # e.id
  BY <1>4
<1>14. g.type \in Carrying /\ g.pc # "answer" /\ EffectFrame /\ UNCHANGED <<queue, dropped, refused>>
  BY <1>1, <1>3
<1> QED BY <1>6, <1>10, <1>11, <1>12, <1>13, <1>14, SpeaksPreserves

(* A step of an effect *)
LEMMA ExecutePreserves == \A g \in effects : IInv /\ ExecuteEffect(g) => IInv'
<1> SUFFICES ASSUME NEW g \in effects, IInv, ExecuteEffect(g) PROVE IInv'
  OBVIOUS
<1>1. ExecuteFrame
  BY DEF ExecuteEffect, ExecuteFrame
<1> QED
  BY <1>1, AgentStartPreserves, AgentLoadsPreserves, AgentObservesPreserves, AgentDecidesPreserves,
     AgentFailsPreserves, AgentRefusesPreserves, AnswersPreserves, AskUserPreserves, AnnouncePreserves
     DEF ExecuteEffect

-----------------------------------------------------------------------------
(* A longer queue has its entries where they were, and the new one at its end. *)
LEMMA AppendEntries ==
  ASSUME NEW S, NEW f \in Seq(S), NEW x \in S
  PROVE  /\ Append(f, x) \in Seq(S) /\ Len(f) \in Nat
         /\ DOMAIN f = 1 .. Len(f) /\ DOMAIN Append(f, x) = 1 .. Len(f) + 1
         /\ \A i \in 1 .. Len(f) : Append(f, x)[i] = f[i]
         /\ Append(f, x)[Len(f) + 1] = x
         /\ ToSet(Append(f, x)) = ToSet(f) \cup {x}
<1>1. /\ Append(f, x) \in Seq(S) /\ Len(f) \in Nat
      /\ DOMAIN f = 1 .. Len(f) /\ DOMAIN Append(f, x) = 1 .. Len(f) + 1
      /\ \A i \in 1 .. Len(f) : Append(f, x)[i] = f[i]
      /\ Append(f, x)[Len(f) + 1] = x
  BY AppendProperties, LenProperties
<1>2. PICK n, h : n = Len(f) /\ h = Append(f, x)
  OBVIOUS
<1>3. /\ n \in Nat /\ DOMAIN f = 1 .. n /\ DOMAIN h = 1 .. n + 1
      /\ \A i \in 1 .. n : h[i] = f[i]
      /\ h[n + 1] = x
  BY <1>1, <1>2
<1>4. \A i \in 1 .. n + 1 : i \in 1 .. n \/ i = n + 1
  BY <1>3
<1>5. n + 1 \in 1 .. n + 1 /\ \A i \in 1 .. n : i \in 1 .. n + 1
  BY <1>3
<1>6. ToSet(h) = ToSet(f) \cup {x}
  BY <1>3, <1>4, <1>5 DEF ToSet
<1> QED BY <1>1, <1>2, <1>6

(* What PublishAnswer puts into the queue *)
LEMMA PublishedEntry ==
  ASSUME IInv, NEW g \in effects, PublishAnswer(g)
  PROVE  \E x \in Entry :
           /\ queue' = Append(queue, x) /\ x.task = g.task /\ Ends(g) /\ EffectFrame
           /\ UNCHANGED <<dropped, refused>> /\ snap' = snap /\ g.pc = "answer"
           /\ \/ /\ IsOutcome(x) /\ g.type \in Announcements /\ g.type \notin Carrying
                 /\ g.event = TSM!NoEvent
              \/ /\ ~IsOutcome(x) /\ g.type \in Carrying /\ g.type \notin Announcements
                 /\ g.event \in GoodEvent(Produced) /\ x.event = g.event
<1>1. /\ Ends(g) /\ EffectFrame /\ UNCHANGED <<dropped, refused>> /\ snap' = snap /\ g.pc = "answer"
  BY DEF PublishAnswer, EffectFrame, history
<1>2. g \in EffectRecord /\ g.task \in Tasks /\ Sensible(g) /\ (g.type \notin Carrying => g.event = TSM!NoEvent)
  BY EffectFacts
<1>3. CASE g.type \in Announcements
  <2>1. PICK x : x = Outcome(g.task, g.type)
    OBVIOUS
  <2>2. x \in Entry /\ IsOutcome(x) /\ x.task = g.task
    BY <1>2, <1>3, <2>1, MadeEntries
  <2>3. g.type \notin Carrying
    BY <1>3 DEF Carrying
  <2>4. queue' = Append(queue, x)
    BY <1>3, <2>1 DEF PublishAnswer
  <2> QED BY <1>1, <1>2, <1>3, <2>2, <2>3, <2>4
<1>4. CASE g.type \notin Announcements
  <2>1. PICK x : x = TaskEvent(g.task, g.event)
    OBVIOUS
  <2>2. g.type \in Carrying /\ g.event \in GoodEvent(Produced)
    BY <1>1, <1>2, <1>4 DEF Sensible
  <2>3. x \in Entry /\ ~IsOutcome(x) /\ x.task = g.task /\ x.event = g.event
    BY <1>2, <2>1, <2>2, MadeEntries
  <2>4. queue' = Append(queue, x)
    BY <1>4, <2>1 DEF PublishAnswer
  <2> QED BY <1>1, <1>4, <2>2, <2>3, <2>4
<1> QED BY <1>3, <1>4

(* The event is in the queue now, and nowhere else. *)
LEMMA PublishedIds ==
  ASSUME IInv, NEW g \in effects, PublishAnswer(g), NEW u \in owned
  PROVE  DistinctIds(u)'
<1>1. PICK x \in Entry :
           /\ queue' = Append(queue, x) /\ x.task = g.task /\ Ends(g) /\ EffectFrame
           /\ \/ /\ IsOutcome(x)
              \/ /\ ~IsOutcome(x) /\ g.event \in GoodEvent(Produced) /\ x.event = g.event
  BY PublishedEntry
<1>2. calls' = calls /\ st' = st /\ effects' = effects \ {g}
  BY <1>1 DEF EffectFrame, machine, Ends
<1>3. DistinctIds(u)
  BY DEF IInv
<1>4. PICK n : n = Len(queue)
  OBVIOUS
<1>5. queue \in Seq(Entry)
  BY DEF IInv, Types
<1>6. /\ n \in Nat /\ DOMAIN queue = 1 .. n /\ DOMAIN queue' = 1 .. n + 1
      /\ \A i \in 1 .. n : queue'[i] = queue[i]
      /\ queue'[n + 1] = x
      /\ ToSet(queue') = ToSet(queue) \cup {x}
  BY <1>1, <1>4, <1>5, AppendEntries
<1>7. \A i \in DOMAIN queue' : i = n + 1 \/ (i \in DOMAIN queue /\ queue'[i] = queue[i] /\ queue[i] \in ToSet(queue))
  BY <1>6 DEF ToSet
<1>8. QueuedEvent(x, u) => EffectEvent(g, u) /\ x.event = g.event
  <2>1. g.event \in GoodEvent(Produced) => g.event # TSM!NoEvent
    BY DEF GoodEvent, TSM!NoEvent, Produced, TurnEvents, ModelAnswers, ToolAnswers, TSM!RequestEvents
  <2> QED BY <1>1, <2>1 DEF QueuedEvent, EffectEvent
<1>9. QueuedEvent(x, u) =>
        /\ x.event.id # st[u].lastEventID
        /\ \A q \in ToSet(queue) : QueuedEvent(q, u) => q.event.id # x.event.id
        /\ \A c \in Callers : CalledEvent(c, u) => calls[c].event.id # x.event.id
        /\ \A k \in effects' : EffectEvent(k, u) => k.event.id # x.event.id
  BY <1>2, <1>3, <1>8 DEF DistinctIds
<1>10. \A i, j \in DOMAIN queue' :
         QueuedEvent(queue'[i], u) /\ QueuedEvent(queue'[j], u) /\ queue'[i].event.id = queue'[j].event.id
           => i = j
  BY <1>3, <1>6, <1>7, <1>9 DEF DistinctIds
<1>11. \A q \in ToSet(queue') : QueuedEvent(q, u) =>
         /\ q.event.id # st[u].lastEventID
         /\ \A c \in Callers : CalledEvent(c, u) => calls[c].event.id # q.event.id
         /\ \A k \in effects' : EffectEvent(k, u) => k.event.id # q.event.id
  BY <1>2, <1>3, <1>6, <1>9 DEF DistinctIds
<1>12. /\ \A c \in Callers : CalledEvent(c, u) =>
            /\ calls[c].event.id # st[u].lastEventID
            /\ \A d \in Callers : CalledEvent(d, u) /\ calls[d].event.id = calls[c].event.id => c = d
            /\ \A k \in effects' : EffectEvent(k, u) => k.event.id # calls[c].event.id
       /\ \A k \in effects' : EffectEvent(k, u) =>
            /\ k.event.id # st[u].lastEventID
            /\ \A m \in effects' : EffectEvent(m, u) /\ m.event.id = k.event.id => k = m
  BY <1>2, <1>3 DEF DistinctIds
<1> QED BY <1>2, <1>10, <1>11, <1>12 DEF DistinctIds, QueuedEvent, CalledEvent, EffectEvent

-----------------------------------------------------------------------------
(* As much is under way for every task as before. *)
LEMMA PublishedSums ==
  ASSUME IInv, NEW g \in effects, PublishAnswer(g), Types', NEW u
  PROVE  /\ u # g.task => Messages(u)' = Messages(u) /\ Results(u)' = Results(u)
         /\ Carriers(u)' = Carriers(u) /\ Announcing(u)' = Announcing(u)
<1>1. PICK x \in Entry :
           /\ queue' = Append(queue, x) /\ x.task = g.task /\ Ends(g) /\ EffectFrame
           /\ \/ IsOutcome(x) /\ g.type \in Announcements /\ g.type \notin Carrying
              \/ ~IsOutcome(x) /\ g.type \in Carrying /\ g.type \notin Announcements
  BY PublishedEntry
<1>2. calls' = calls
  BY <1>1 DEF EffectFrame
<1>3. /\ Messages(u)' = Messages(u) + One(x.task = u /\ ~IsOutcome(x))
      /\ Results(u)' = Results(u) + One(x.task = u /\ IsOutcome(x))
  BY <1>1, QueueGrows DEF One, IInv, Types
<1>4. ASSUME NEW types
      PROVE  Effects(u, types) = Effects(u, types)' + One(g.task = u /\ g.type \in types)
  BY <1>1, EffectEnds DEF One
<1>5. PICK j \in {0, 1}, l \in {0, 1} : /\ j = One(g.task = u /\ g.type \in Carrying)
                                        /\ l = One(g.task = u /\ g.type \in Announcements)
  BY DEF One
<1>6. Effects(u, Carrying) = Effects(u, Carrying)' + j /\ Effects(u, Announcements) = Effects(u, Announcements)' + l
  <2>1. /\ Effects(u, Carrying) = Effects(u, Carrying)' + One(g.task = u /\ g.type \in Carrying)
        /\ Effects(u, Announcements) = Effects(u, Announcements)' + One(g.task = u /\ g.type \in Announcements)
    BY <1>4, Zenon
  <2> QED BY <1>5, <2>1
<1>7. One(x.task = u /\ ~IsOutcome(x)) = j /\ One(x.task = u /\ IsOutcome(x)) = l
  BY <1>1, <1>5 DEF One
<1>8. Messages(u)' = Messages(u) + j /\ Results(u)' = Results(u) + l
  BY <1>3, <1>7
<1>9. /\ CarryingCalls(u)' = CarryingCalls(u)
      /\ Starting(u, Announcements)' = Starting(u, Announcements)
  BY <1>2, CountsKept, Zenon
<1>10. /\ Messages(u) \in Nat /\ Results(u) \in Nat
       /\ Effects(u, Carrying) \in Nat /\ Effects(u, Announcements) \in Nat
       /\ Effects(u, Carrying)' \in Nat /\ Effects(u, Announcements)' \in Nat
       /\ Cardinality(CarryingCalls(u)) \in Nat /\ Cardinality(Starting(u, Announcements)) \in Nat
       /\ Carriers(u) \in Nat /\ Carriers(u)' \in Nat /\ Announcing(u) \in Nat /\ Announcing(u)' \in Nat
  BY Counts, CountsNext, Zenon DEF IInv
<1>11. Carriers(u)' = Carriers(u)
  <2>1. /\ Messages(u)' + 0 = Messages(u) + j
        /\ Effects(u, Carrying)' + j = Effects(u, Carrying) + 0
        /\ Cardinality(CarryingCalls(u)') + 0 = Cardinality(CarryingCalls(u)) + 0
    BY <1>6, <1>8, <1>9, <1>10
  <2>2. Carriers(u)' + (0 + j + 0) = Carriers(u) + (j + 0 + 0)
    BY <2>1, Tally DEF IInv
  <2> QED BY <1>10, <2>2
<1>12. Announcing(u)' = Announcing(u)
  <2>1. /\ Results(u)' + 0 = Results(u) + l
        /\ Effects(u, Announcements)' + l = Effects(u, Announcements) + 0
        /\ Cardinality(Starting(u, Announcements)') + 0 = Cardinality(Starting(u, Announcements)) + 0
    BY <1>6, <1>8, <1>9, <1>10
  <2>2. Announcing(u)' + (0 + l + 0) = Announcing(u) + (l + 0 + 0)
    BY <2>1, TallyOutcomes DEF IInv
  <2> QED BY <1>10, <2>2
<1>13. u # g.task => Messages(u)' = Messages(u) /\ Results(u)' = Results(u)
  BY <1>5, <1>8, <1>10 DEF One
<1> QED BY <1>11, <1>12, <1>13

(* The event that left the effect is in the queue. *)
LEMMA PublishedWork ==
  ASSUME IInv, NEW g \in effects, PublishAnswer(g), NEW t, t = g.task
  PROVE  Coming(t)' = Coming(t) /\ Doing(t)' = Doing(t)
<1>1. PICK x \in Entry :
           /\ queue' = Append(queue, x) /\ x.task = g.task /\ Ends(g) /\ EffectFrame /\ g.pc = "answer"
           /\ \/ IsOutcome(x) /\ g.event = TSM!NoEvent
              \/ ~IsOutcome(x) /\ x.event = g.event
  BY PublishedEntry
<1>2. calls' = calls /\ effects' = effects \ {g}
  BY <1>1 DEF EffectFrame, Ends
<1>3. ToSet(queue') = ToSet(queue) \cup {x}
  <2>1. queue \in Seq(Entry)
    BY DEF IInv, Types
  <2> QED BY <1>1, <2>1, AppendEntries
<1>4. Doing(t)' = Doing(t)
  <2>1. Starting(t, Carrying)' = Starting(t, Carrying)
    BY <1>2 DEF Starting
  <2>2. { h \in effects' : h.task = t /\ h.type \in Carrying /\ h.pc # "answer" }
          = { h \in effects : h.task = t /\ h.type \in Carrying /\ h.pc # "answer" }
    BY <1>1, <1>2
  <2> QED BY <1>2, <2>1, <2>2 DEF Doing
<1>5. Coming(t)' = Coming(t)
  <2>1. \A e : e \in EventsOf(t) <=>
          \/ \E r \in ToSet(queue) : r.task = t /\ ~IsOutcome(r) /\ e = r.event
          \/ \E c \in Callers : calls[c].pc = "advance" /\ calls[c].task = t /\ e = calls[c].event
          \/ \E h \in effects : h.task = t /\ e = h.event
    BY DEF EventsOf
  <2>2. \A e : e \in EventsOf(t)' <=>
          \/ \E r \in ToSet(queue') : r.task = t /\ ~IsOutcome(r) /\ e = r.event
          \/ \E c \in Callers : calls[c].pc = "advance" /\ calls[c].task = t /\ e = calls[c].event
          \/ \E h \in effects' : h.task = t /\ e = h.event
    BY <1>2 DEF EventsOf
  <2>3. \A e : e \in EventsOf(t)' => e \in EventsOf(t)
    BY <1>1, <1>2, <1>3, <2>1, <2>2
  <2>4. \A e : e \in EventsOf(t) /\ e.type # "none" => e \in EventsOf(t)'
    <3>1. SUFFICES ASSUME NEW e, e \in EventsOf(t), e.type # "none" PROVE e \in EventsOf(t)'
      OBVIOUS
    <3>2. CASE \E h \in effects : h.task = t /\ e = h.event
      <4>1. PICK h \in effects : h.task = t /\ e = h.event
        BY <3>2
      <4>2. CASE h = g
        <5>1. e # TSM!NoEvent
          BY <3>1 DEF TSM!NoEvent
        <5> QED BY <1>1, <1>3, <2>2, <4>1, <4>2, <5>1
      <4>3. CASE h # g
        BY <1>2, <2>2, <4>1, <4>3
      <4> QED BY <4>2, <4>3
    <3>3. CASE \E r \in ToSet(queue) : r.task = t /\ ~IsOutcome(r) /\ e = r.event
      BY <1>3, <2>2, <3>3
    <3>4. CASE \E c \in Callers : calls[c].pc = "advance" /\ calls[c].task = t /\ e = calls[c].event
      BY <2>2, <3>4
    <3> QED BY <2>1, <3>1, <3>2, <3>3, <3>4
  <2>5. /\ \A e : e \in Coming(t) <=> e \in EventsOf(t) /\ e.type \notin {"none", "user_input.received"}
        /\ \A e : e \in Coming(t)' <=> e \in EventsOf(t)' /\ e.type \notin {"none", "user_input.received"}
    BY DEF Coming
  <2>6. \A e : e \in Coming(t)' <=> e \in Coming(t)
    BY <2>3, <2>4, <2>5
  <2> QED BY <2>6
<1> QED BY <1>4, <1>5

(* An effect publishes its answer. *)
LEMMA PublishAnswerPreserves == \A g \in effects : IInv /\ PublishAnswer(g) => IInv'
<1> SUFFICES ASSUME NEW g \in effects, IInv, PublishAnswer(g) PROVE IInv'
  OBVIOUS
<1>1. PICK x \in Entry :
           /\ queue' = Append(queue, x) /\ x.task = g.task /\ Ends(g) /\ EffectFrame
           /\ UNCHANGED <<dropped, refused>> /\ snap' = snap
  BY PublishedEntry
<1>2. /\ effects' \subseteq EffectRecord /\ IsFiniteSet(effects') /\ Numbered'
      /\ \A k \in effects' : k \in effects /\ k # g
      /\ \A k : k.task # g.task => (k \in effects' <=> k \in effects)
  BY <1>1, EffectEnds
<1>3. g.task \in owned /\ g.task \in Tasks
  BY EffectFacts
<1>4. queue' \in Seq(Entry) /\ ToSet(queue') = ToSet(queue) \cup {x}
  <2>1. queue \in Seq(Entry)
    BY DEF IInv, Types
  <2> QED BY <1>1, <2>1, AppendEntries
<1>5. Types' /\ Owned' /\ Handling' /\ Started' /\ P!IInv' /\ st' = st
  <2>1. /\ snap' \in [Tasks -> Snapshot] /\ dropped' \subseteq Tasks /\ refused' \subseteq Tasks
        /\ \A u \in refused' : u \in refused \/ u = g.task
        /\ \A q \in ToSet(queue') : q \in ToSet(queue) \/ q.task = g.task
        /\ \A k \in effects' : k \in effects \/ k.task = g.task
    BY <1>1, <1>2, <1>4 DEF IInv, Types
  <2> QED BY <1>1, <1>2, <1>3, <1>4, <2>1, EffectStructure
<1>6. ASSUME NEW u \in owned PROVE DistinctIds(u)'
  BY PublishedIds
<1>7. ASSUME NEW u \in owned, u # g.task PROVE Settled(u)'
  <2>1. Messages(u)' = Messages(u) /\ Results(u)' = Results(u)
    BY <1>5, <1>7, PublishedSums
  <2>2. /\ snap'[u] = snap[u] /\ (u \in dropped' <=> u \in dropped) /\ (u \in refused' <=> u \in refused)
        /\ \A q : q.task # g.task => (q \in ToSet(queue)' <=> q \in ToSet(queue))
    BY <1>1, <1>4
  <2> QED BY <1>1, <1>2, <1>5, <1>6, <1>7, <2>1, <2>2, EffectOthers
<1>8. ASSUME NEW t, t = g.task PROVE Settled(t)'
  <2>1. calls' = calls /\ guided' = guided /\ outcomes' = outcomes /\ question' = question
        /\ session' = session /\ current' = current
    BY <1>1 DEF EffectFrame, ui
  <2>2. Carriers(t)' = Carriers(t) /\ Announcing(t)' = Announcing(t)
    BY <1>5, PublishedSums
  <2>3. (Over(t)' <=> Over(t)) /\ (AsksUser(t)' <=> AsksUser(t))
    BY <1>5 DEF Over, AsksUser, TSM!IsTerminal, TSM!TerminalPhases
  <2>4. Bounded(t)'
    BY <1>1, <1>3, <1>8, <2>1, <2>2, <2>3 DEF IInv, Bounded
  <2>5. Coming(t)' = Coming(t) /\ Doing(t)' = Doing(t)
    BY <1>8, PublishedWork
  <2>6. \A c \in Callers : CalledEvent(c, t)' => CalledEvent(c, t) /\ calls'[c] = calls[c]
    BY <2>1 DEF CalledEvent
  <2>7. \A k \in effects' : k.task = t /\ k.pc = "loaded" => k.own = snap[t] \/ k \in effects
    BY <1>2
  <2>8. guided[t] = 0 => t \notin refused'
    BY <1>1, <1>3, <1>8 DEF IInv, Known
  <2>9. snap'[t] = snap[t] /\ dropped \subseteq dropped' /\ refused \subseteq refused'
    BY <1>1
  <2> QED BY <1>3, <1>5, <1>6, <1>8, <2>1, <2>4, <2>5, <2>6, <2>7, <2>8, <2>9, TaskLess
<1>9. owned' = owned
  BY <1>1 DEF EffectFrame
<1> QED BY <1>2, <1>5, <1>7, <1>8, <1>9 DEF IInv, Settled

-----------------------------------------------------------------------------
(* An effect whose context may be done *)
Marked(g, t) == IF g.task = t THEN [g EXCEPT !.done = TRUE] ELSE g

(* The mark changes nothing else of an effect. *)
LEMMA MarkedEffect ==
  ASSUME NEW g \in EffectRecord, NEW t
  PROVE  /\ Marked(g, t) \in EffectRecord
         /\ Marked(g, t).id = g.id /\ Marked(g, t).pc = g.pc /\ Marked(g, t).task = g.task
         /\ Marked(g, t).type = g.type /\ Marked(g, t).ref = g.ref /\ Marked(g, t).on = g.on
         /\ Marked(g, t).own = g.own /\ Marked(g, t).event = g.event
         /\ g.task # t => Marked(g, t) = g
<1>1. CASE g.task = t
  <2>1. Marked(g, t) = [g EXCEPT !.done = TRUE]
    BY <1>1 DEF Marked
  <2> QED BY <1>1, <2>1 DEF EffectRecord
<1>2. CASE g.task # t
  BY <1>2 DEF Marked
<1> QED BY <1>1, <1>2

(* A cancelled task has the effects it had, marked. *)
LEMMA CancelEffects ==
  ASSUME IInv, NEW t \in Tasks, CancelTask(t)
  PROVE  /\ \A k \in effects' : \E g \in effects : k = Marked(g, t)
         /\ \A g \in effects : Marked(g, t) \in effects'
         /\ effects' \subseteq EffectRecord /\ IsFiniteSet(effects') /\ Numbered'
         /\ \A u, types : Effects(u, types)' = Effects(u, types)
<1>1. effects' = { Marked(g, t) : g \in effects } /\ effects \subseteq EffectRecord /\ IsFiniteSet(effects)
  BY DEF CancelTask, Marked, IInv, Types
<1>2. /\ \A g \in effects : /\ Marked(g, t) \in EffectRecord
                            /\ Marked(g, t).id = g.id /\ Marked(g, t).pc = g.pc /\ Marked(g, t).task = g.task
                            /\ Marked(g, t).type = g.type /\ Marked(g, t).event = g.event
  BY <1>1, MarkedEffect
<1>3. IsFiniteSet(effects')
  <2> DEFINE f == [g \in effects |-> Marked(g, t)]
  <2>1. f \in Surjection(effects, effects')
    BY <1>1 DEF Surjection
  <2> QED BY <1>1, <2>1, FS_Surjection
<1>4. Numbered'
  BY <1>1, <1>2 DEF IInv, Numbered, Sensible
<1>5. ASSUME NEW u, NEW types PROVE Effects(u, types)' = Effects(u, types)
  <2>1. PICK A, B : A = OfTask(effects, u, types) /\ B = OfTask(effects', u, types)
    OBVIOUS
  <2> DEFINE f == [g \in A |-> Marked(g, t)]
  <2>2. /\ A \in SUBSET effects
        /\ \A g \in effects : g \in A <=> g.task = u /\ g.type \in types
        /\ \A k : k \in B <=> k \in effects' /\ k.task = u /\ k.type \in types
    BY <2>1 DEF OfTask
  <2>3. f \in [A -> B]
    BY <1>1, <1>2, <2>2
  <2>4. \A g, h \in A : f[g] = f[h] => g = h
    <3>1. \A g, h \in effects : g.id = h.id => g = h
      BY DEF IInv, Numbered
    <3>2. \A g \in A : g \in effects /\ f[g].id = g.id
      BY <1>2, <2>2
    <3> QED BY <3>1, <3>2
  <2>5. ASSUME NEW k \in B PROVE \E g \in A : f[g] = k
    <3>1. PICK g \in effects : k = Marked(g, t)
      BY <1>1, <2>2
    <3>2. g \in A
      BY <1>2, <2>2, <3>1
    <3> QED BY <3>1, <3>2
  <2>6. ExistsBijection(A, B)
    BY <2>3, <2>4, <2>5 DEF ExistsBijection, Bijection, Injection, Surjection, IsInjective
  <2>7. IsFiniteSet(A)
    BY <1>1, <2>2, FS_Subset
  <2>8. Cardinality(A) = Cardinality(B)
    BY <2>6, <2>7, FS_Bijection
  <2>9. /\ Effects(u, types) = Cardinality(OfTask(effects, u, types))
        /\ Effects(u, types)' = Cardinality(OfTask(effects', u, types))
    BY DEF Effects, OfTask
  <2> QED BY <2>1, <2>8, <2>9
<1> QED BY <1>1, <1>2, <1>3, <1>4, <1>5

(* The calls that dispatch for it are marked, the others go on. *)
LEMMA CancelCalls ==
  ASSUME IInv, NEW t \in Tasks, CancelTask(t)
  PROVE  /\ calls' \in [Callers -> {Idle} \cup DispatchCall \cup AdvanceCall(SessionEvents)]
         /\ \A c \in Callers : /\ calls'[c].pc = calls[c].pc
                               /\ calls[c].pc # "idle" => calls'[c].task = calls[c].task
                               /\ calls[c].pc # "dispatch" => calls'[c] = calls[c]
                               /\ calls[c].pc = "dispatch" =>
                                    calls'[c].effect = calls[c].effect /\ calls'[c].on = calls[c].on
<1> DEFINE ended(c) == [calls[c] EXCEPT !.done = TRUE]
<1>1. calls' = [c \in Callers |-> IF calls[c].pc = "dispatch" /\ calls[c].task = t
                                  THEN ended(c) ELSE calls[c]]
  BY DEF CancelTask
<1>2. ASSUME NEW c \in Callers
      PROVE  /\ calls'[c] \in {Idle} \cup DispatchCall \cup AdvanceCall(SessionEvents)
             /\ calls'[c].pc = calls[c].pc
             /\ calls[c].pc # "idle" => calls'[c].task = calls[c].task
             /\ calls[c].pc # "dispatch" => calls'[c] = calls[c]
             /\ calls[c].pc = "dispatch" =>
                  calls'[c].effect = calls[c].effect /\ calls'[c].on = calls[c].on
  <2>1. \/ calls[c] = Idle /\ calls[c].pc = "idle"
        \/ calls[c].pc = "dispatch" /\ calls[c] \in DispatchCall
        \/ calls[c].pc = "advance" /\ calls[c] \in AdvanceCall(SessionEvents)
    BY CallKinds DEF IInv
  <2>2. CASE calls[c].pc = "dispatch" /\ calls[c].task = t
    <3>1. calls'[c] = ended(c) /\ calls[c] \in DispatchCall
      BY <1>1, <2>1, <2>2
    <3>2. /\ ended(c) \in DispatchCall /\ ended(c).pc = calls[c].pc /\ ended(c).task = calls[c].task
          /\ ended(c).effect = calls[c].effect /\ ended(c).on = calls[c].on
      BY <3>1 DEF DispatchCall
    <3> HIDE DEF ended
    <3> QED BY <2>2, <3>1, <3>2
  <2>3. CASE ~(calls[c].pc = "dispatch" /\ calls[c].task = t)
    <3>1. calls'[c] = calls[c]
      BY <1>1, <2>3
    <3> QED BY <2>1, <3>1
  <2> QED BY <2>2, <2>3
<1>3. calls' \in [Callers -> {Idle} \cup DispatchCall \cup AdvanceCall(SessionEvents)]
  <2>1. calls' = [c \in Callers |-> calls'[c]]
    BY <1>1
  <2> QED BY <1>2, <2>1
<1> QED BY <1>2, <1>3

-----------------------------------------------------------------------------
(* The callers do what they did. *)
LEMMA CancelCallers ==
  ASSUME IInv, NEW t \in Tasks, CancelTask(t)
  PROVE  /\ \A c \in Callers : \A u : CalledEvent(c, u)' <=> CalledEvent(c, u)
         /\ \A c \in Callers : \A u : CalledEvent(c, u) => calls'[c] = calls[c]
         /\ \A u, types : Starting(u, types)' = Starting(u, types)
         /\ \A u : CarryingCalls(u)' = CarryingCalls(u)
         /\ \A u, types : \A c \in Starting(u, types) :
              calls'[c].effect = calls[c].effect /\ calls'[c].on = calls[c].on
<1>1. \A c \in Callers : /\ calls'[c].pc = calls[c].pc
                         /\ calls[c].pc # "idle" => calls'[c].task = calls[c].task
                         /\ calls[c].pc # "dispatch" => calls'[c] = calls[c]
                         /\ calls[c].pc = "dispatch" =>
                              calls'[c].effect = calls[c].effect /\ calls'[c].on = calls[c].on
  BY CancelCalls
<1>2. /\ \A c \in Callers : \A u : CalledEvent(c, u)' <=> CalledEvent(c, u)
      /\ \A c \in Callers : \A u : CalledEvent(c, u) => calls'[c] = calls[c]
  BY <1>1 DEF CalledEvent
<1>3. \A u, types : Starting(u, types)' = Starting(u, types)
  BY <1>1 DEF Starting
<1>4. \A u : Advancing(u)' = Advancing(u)
  BY <1>1 DEF Advancing
<1>5. \A u : CarryingCalls(u)' = CarryingCalls(u)
  BY <1>3, <1>4 DEF CarryingCalls
<1>6. \A u, types : \A c \in Starting(u, types) :
        calls'[c].effect = calls[c].effect /\ calls'[c].on = calls[c].on
  BY <1>1 DEF Starting
<1> QED BY <1>2, <1>3, <1>5, <1>6

(* The types and where everybody is, after CancelTask *)
LEMMA CancelStructure ==
  ASSUME IInv, NEW t \in Tasks, CancelTask(t)
  PROVE  Types' /\ Numbered' /\ Owned' /\ Handling' /\ Started' /\ P!IInv'
<1>1. /\ UNCHANGED <<snap, queue, seq, current, owned, session, typed, outcomes, question,
                    dropped, refused, guided>>
      /\ st' = st /\ UNCHANGED machine
  BY DEF CancelTask, machine, ui
<1>2. P!IInv'
  BY <1>1, MachineKept DEF IInv
<1>3. effects' \subseteq EffectRecord /\ IsFiniteSet(effects') /\ Numbered'
  BY CancelEffects
<1>4. /\ calls' \in [Callers -> {Idle} \cup DispatchCall \cup AdvanceCall(SessionEvents)]
      /\ \A c \in Callers : /\ calls'[c].pc = calls[c].pc
                            /\ calls[c].pc # "idle" => calls'[c].task = calls[c].task
                            /\ calls[c].pc # "dispatch" => calls'[c] = calls[c]
  BY CancelCalls
<1>5. Types'
  BY <1>1, <1>3, <1>4 DEF IInv, Types, SessionEvents
<1>6. Owned'
  <2>1. \A g \in effects' : g.task \in owned
    <3>1. \A g \in effects : g \in EffectRecord /\ g.task \in owned
      BY DEF IInv, Types, Owned
    <3>2. \A g \in effects : Marked(g, t).task = g.task
      BY <3>1, MarkedEffect
    <3> QED BY <3>1, <3>2, CancelEffects
  <2> QED BY <1>1, <1>4, <2>1 DEF IInv, Owned
<1>7. Handling'
  BY <1>1, <1>4 DEF IInv, Handling, Callers
<1>8. Started'
  BY <1>1, <1>4 DEF IInv, Started, Starts, Callers
<1> QED BY <1>2, <1>3, <1>5, <1>6, <1>7, <1>8

(* The events of the effects stay what they are. *)
LEMMA CancelIds ==
  ASSUME IInv, NEW t \in Tasks, CancelTask(t), NEW u \in owned
  PROVE  DistinctIds(u)'
<1>1. DistinctIds(u) /\ st' = st /\ queue' = queue
  BY DEF IInv, CancelTask, machine
<1>2. /\ \A c \in Callers : CalledEvent(c, u)' <=> CalledEvent(c, u)
      /\ \A c \in Callers : CalledEvent(c, u) => calls'[c] = calls[c]
  BY CancelCallers
<1>3. \A k \in effects' : EffectEvent(k, u) =>
        \E g \in effects : EffectEvent(g, u) /\ g.event = k.event /\ k = Marked(g, t)
  <2>1. \A g \in effects : Marked(g, t).task = g.task /\ Marked(g, t).event = g.event
    BY MarkedEffect DEF IInv, Types
  <2> QED BY <2>1, CancelEffects DEF EffectEvent
<1>4. /\ \A k \in effects' : EffectEvent(k, u) =>
           /\ k.event.id # st[u].lastEventID
           /\ \A q \in ToSet(queue) : QueuedEvent(q, u) => k.event.id # q.event.id
           /\ \A c \in Callers : CalledEvent(c, u) => k.event.id # calls[c].event.id
  BY <1>1, <1>3 DEF DistinctIds
<1>5. \A k, m \in effects' : EffectEvent(k, u) /\ EffectEvent(m, u) /\ k.event.id = m.event.id => k = m
  BY <1>1, <1>3 DEF DistinctIds
<1>6. /\ \A c \in Callers : CalledEvent(c, u)' =>
           /\ calls'[c].event.id # st[u].lastEventID
           /\ \A d \in Callers : CalledEvent(d, u)' /\ calls'[d].event.id = calls'[c].event.id => c = d
           /\ \A k \in effects' : EffectEvent(k, u) => k.event.id # calls'[c].event.id
  BY <1>1, <1>2, <1>4 DEF DistinctIds
<1>7. \A q \in ToSet(queue) : QueuedEvent(q, u) =>
        /\ q.event.id # st[u].lastEventID
        /\ \A c \in Callers : CalledEvent(c, u)' => calls'[c].event.id # q.event.id
        /\ \A k \in effects' : EffectEvent(k, u) => k.event.id # q.event.id
  BY <1>1, <1>2, <1>4 DEF DistinctIds
<1> QED BY <1>1, <1>4, <1>5, <1>6, <1>7 DEF DistinctIds, QueuedEvent, EffectEvent

(* So does the work. *)
LEMMA CancelWork ==
  ASSUME IInv, NEW t \in Tasks, CancelTask(t), NEW u
  PROVE  /\ Coming(u)' = Coming(u) /\ Doing(u)' = Doing(u)
         /\ \A k \in effects' : \E g \in effects : k.task = g.task /\ k.pc = g.pc /\ k.own = g.own
<1>1. \A g \in effects : /\ Marked(g, t).pc = g.pc /\ Marked(g, t).task = g.task
                         /\ Marked(g, t).type = g.type /\ Marked(g, t).ref = g.ref /\ Marked(g, t).on = g.on
                         /\ Marked(g, t).own = g.own /\ Marked(g, t).event = g.event
  BY MarkedEffect DEF IInv, Types
<1>2. /\ \A k \in effects' : \E g \in effects : k = Marked(g, t)
      /\ \A g \in effects : Marked(g, t) \in effects'
  BY CancelEffects
<1>3. queue' = queue
  BY DEF CancelTask
<1>4. EventsOf(u)' = EventsOf(u)
  <2>1. \A e : e \in EventsOf(u) <=>
          \/ \E r \in ToSet(queue) : r.task = u /\ ~IsOutcome(r) /\ e = r.event
          \/ \E c \in Callers : CalledEvent(c, u) /\ e = calls[c].event
          \/ \E h \in effects : h.task = u /\ e = h.event
    BY DEF EventsOf, CalledEvent
  <2>2. \A e : e \in EventsOf(u)' <=>
          \/ \E r \in ToSet(queue) : r.task = u /\ ~IsOutcome(r) /\ e = r.event
          \/ \E c \in Callers : CalledEvent(c, u)' /\ e = calls'[c].event
          \/ \E h \in effects' : h.task = u /\ e = h.event
    BY <1>3 DEF EventsOf, CalledEvent
  <2>3. \A e : (\E c \in Callers : CalledEvent(c, u)' /\ e = calls'[c].event)
          <=> (\E c \in Callers : CalledEvent(c, u) /\ e = calls[c].event)
    BY CancelCallers
  <2>4. \A e : (\E h \in effects' : h.task = u /\ e = h.event)
          <=> (\E h \in effects : h.task = u /\ e = h.event)
    BY <1>1, <1>2
  <2>5. \A e : e \in EventsOf(u)' <=> e \in EventsOf(u)
    BY <2>1, <2>2, <2>3, <2>4
  <2> QED BY <2>5
<1>5. Doing(u)' = Doing(u)
  <2>1. \A y : y \in Doing(u) <=>
          \/ \E d \in Starting(u, Carrying) : y = Work(calls[d].effect.type, calls[d].effect.ref, calls[d].on)
          \/ \E g \in effects : /\ g.task = u /\ g.type \in Carrying /\ g.pc # "answer"
                                /\ y = Work(g.type, g.ref, g.on)
    BY DEF Doing
  <2>2. \A y : y \in Doing(u)' <=>
          \/ \E d \in Starting(u, Carrying)' : y = Work(calls'[d].effect.type, calls'[d].effect.ref, calls'[d].on)
          \/ \E g \in effects' : /\ g.task = u /\ g.type \in Carrying /\ g.pc # "answer"
                                 /\ y = Work(g.type, g.ref, g.on)
    BY DEF Doing
  <2>3. /\ Starting(u, Carrying)' = Starting(u, Carrying)
        /\ \A d \in Starting(u, Carrying) : calls'[d].effect = calls[d].effect /\ calls'[d].on = calls[d].on
    BY CancelCallers, Zenon
  <2>4. \A y : (\E g \in effects' : /\ g.task = u /\ g.type \in Carrying /\ g.pc # "answer"
                                    /\ y = Work(g.type, g.ref, g.on))
               <=> (\E g \in effects : /\ g.task = u /\ g.type \in Carrying /\ g.pc # "answer"
                                       /\ y = Work(g.type, g.ref, g.on))
    BY <1>1, <1>2
  <2>5. \A y : y \in Doing(u)' <=> y \in Doing(u)
    BY <2>1, <2>2, <2>3, <2>4
  <2> QED BY <2>5
<1> QED BY <1>1, <1>2, <1>4, <1>5 DEF Coming

(* CancelTask marks what is under way. *)
LEMMA CancelTaskPreserves == \A t \in Tasks : IInv /\ CancelTask(t) => IInv'
<1> SUFFICES ASSUME NEW t \in Tasks, IInv, CancelTask(t) PROVE IInv'
  OBVIOUS
<1>1. Types' /\ Numbered' /\ Owned' /\ Handling' /\ Started' /\ P!IInv'
  BY CancelStructure
<1>2. /\ UNCHANGED <<snap, queue, seq, current, owned, session, typed, outcomes, question,
                    dropped, refused, guided>>
      /\ st' = st
  BY DEF CancelTask, machine, ui
<1>3. ASSUME NEW u \in owned PROVE Settled(u)'
  <2>1. Carriers(u)' = Carriers(u) /\ Announcing(u)' = Announcing(u)
    <3>1. Messages(u)' = Messages(u) /\ Results(u)' = Results(u)
      BY <1>2, CountsKept, Zenon
    <3>2. Effects(u, Carrying)' = Effects(u, Carrying) /\ Effects(u, Announcements)' = Effects(u, Announcements)
      BY CancelEffects, Zenon
    <3>3. CarryingCalls(u)' = CarryingCalls(u) /\ Starting(u, Announcements)' = Starting(u, Announcements)
      BY CancelCallers, Zenon
    <3>4. /\ Carriers(u)' = Messages(u)' + Effects(u, Carrying)' + Cardinality(CarryingCalls(u)')
          /\ Carriers(u) = Messages(u) + Effects(u, Carrying) + Cardinality(CarryingCalls(u))
          /\ Announcing(u)' = Results(u)' + Effects(u, Announcements)' + Cardinality(Starting(u, Announcements)')
          /\ Announcing(u) = Results(u) + Effects(u, Announcements) + Cardinality(Starting(u, Announcements))
      BY <1>1, Counts, CountsNext, Zenon DEF IInv
    <3> QED BY <3>1, <3>2, <3>3, <3>4
  <2>2. (Over(u)' <=> Over(u)) /\ (AsksUser(u)' <=> AsksUser(u))
    BY <1>2 DEF Over, AsksUser, TSM!IsTerminal, TSM!TerminalPhases
  <2>3. Bounded(u)'
    BY <1>2, <2>1, <2>2 DEF IInv, Bounded
  <2>4. Coming(u)' = Coming(u) /\ Doing(u)' = Doing(u)
    BY CancelWork, Zenon
  <2>5. Attended(u) => Attended(u)'
    BY <1>2, <2>4, AttendedKept
  <2>6. Known(u) => Known(u)'
    <3>1. Known(u) => \A k \in effects' : k.task = u /\ k.pc = "loaded" => k.own = snap[u]
      BY CancelWork DEF Known
    <3>2. Known(u) => u \notin refused'
      BY <1>2 DEF Known
    <3> QED BY <1>2, <2>4, <3>1, <3>2, TaskKept
  <2>7. \A c \in Callers : CalledEvent(c, u)' => CalledEvent(c, u) /\ calls'[c] = calls[c]
    BY CancelCallers
  <2>8. Shown(u) => Shown(u)'
    BY <1>2, <2>2, <2>7 DEF Shown
  <2>9. Answering(u) => Answering(u)'
    BY <1>1, <1>2, <2>7, AnsweringKept
  <2>10. DistinctIds(u)'
    BY CancelIds
  <2> QED BY <1>2, <2>2, <2>3, <2>5, <2>6, <2>8, <2>9, <2>10 DEF IInv, Settled
<1> QED BY <1>1, <1>2, <1>3 DEF IInv, Settled

-----------------------------------------------------------------------------
(* Nothing is under way in a new session. *)
LEMMA InitInv == Init => IInv
<1> SUFFICES ASSUME Init PROVE IInv
  OBVIOUS
<1>1. P!IInv
  BY MachineInit DEF Init
<1>2. NoSnapshot \in Snapshot /\ Idle.pc = "idle"
  BY DEF NoSnapshot, Snapshot, Idle
<1>3. snap \in [Tasks -> Snapshot] /\ outcomes \in [Tasks -> Nat] /\ guided \in [Tasks -> Nat]
      /\ question \in [Tasks -> Refs \cup {NoRef}]
  BY <1>2 DEF Init
<1>4. calls \in [Callers -> {Idle}] /\ \A c \in Callers : calls[c].pc = "idle"
  BY <1>2 DEF Init
<1>5. queue = <<>> /\ queue \in Seq(Entry) /\ ToSet(queue) = {}
  BY DEF Init, ToSet
<1>6. effects = {} /\ IsFiniteSet(effects)
  BY FS_EmptySet DEF Init
<1>7. seq = 0 /\ seq \in 0 .. MaxTasks /\ current = NoTask /\ owned = {} /\ session = Idle /\ session \in Steps
  BY SessionAssumption DEF Init, Steps
<1>8. Types
  BY <1>3, <1>4, <1>5, <1>6, <1>7 DEF Init, Types
<1>9. Numbered
  BY <1>6 DEF Numbered
<1>10. Owned
  <2>1. \A t \in Tasks : st[t].phase = "Created" /\ outcomes[t] = 0 /\ t \notin refused
    BY DEF Init, TSM!Init, TSM!NewTaskState
  <2> QED BY <1>4, <1>5, <1>6, <2>1 DEF Owned
<1>11. Handling
  BY <1>2, <1>4, <1>7 DEF Handling, Callers
<1>12. Started
  BY <1>7 DEF Started
<1> QED BY <1>1, <1>7, <1>8, <1>9, <1>10, <1>11, <1>12 DEF IInv

(* Every step keeps the invariant. *)
LEMMA StepInv == IInv /\ [Next]_vars => IInv'
<1> SUFFICES ASSUME IInv, [Next]_vars PROVE IInv'
  OBVIOUS
<1>1. CASE Read
  BY <1>1, ReadPreserves
<1>2. CASE Decide
  BY <1>2, DecidePreserves
<1>3. CASE StartNewTask
  BY <1>3, StartNewTaskPreserves
<1>4. CASE StartFails
  BY <1>4, StartFailsPreserves
<1>5. CASE Deliver
  BY <1>5, DeliverPreserves
<1>6. CASE \E c \in Callers : Advance(c) \/ DispatchEffects(c)
  BY <1>6, AdvancePreserves, DispatchPreserves, DispatchFailsPreserves DEF DispatchEffects
<1>7. CASE \E g \in effects : ExecuteEffect(g) \/ PublishAnswer(g) \/ DropAnswer(g)
  BY <1>7, ExecutePreserves, PublishAnswerPreserves, DropAnswerPreserves
<1>8. CASE \E t \in Tasks : CancelTask(t)
  BY <1>8, CancelTaskPreserves
<1>9. CASE UNCHANGED vars
  <2>1. /\ UNCHANGED <<machine, snap, queue, calls, effects, owned, ui, history>>
        /\ UNCHANGED <<seq, current, session, typed>> /\ st' = st
    BY <1>9 DEF vars, machine
  <2>2. /\ seq' \in 0 .. MaxTasks /\ seq <= seq' /\ current' \in owned \cup {NoTask}
        /\ session' \in Steps /\ typed' \in Nat
    BY <2>1 DEF IInv, Types
  <2>3. Handling'
    BY <2>1 DEF IInv, Handling
  <2>4. \A t \in owned : guided[t] = 0 => Answering(t)'
    BY <2>1 DEF IInv, Answering, AsksUser, CalledEvent
  <2> QED BY <2>1, <2>2, <2>3, <2>4, QuietPreserves
<1> QED BY <1>1, <1>2, <1>3, <1>4, <1>5, <1>6, <1>7, <1>8, <1>9 DEF Next

(* The invariant holds whatever the user types and however the goroutines interleave. *)
THEOREM IInvInvariant == Spec => []IInv
BY InitInv, StepInv, PTL DEF Spec

-----------------------------------------------------------------------------
(* A task that neither is over nor asks its user is never left to itself, and nothing of
   it runs twice unless the user started it by guiding the task. *)
THEOREM TasksCarriedOn == Spec => []CarriedOn
<1>1. IInv => CarriedOn
  <2> SUFFICES ASSUME IInv, NEW t \in owned
               PROVE  /\ Carriers(t) <= 1 + guided[t]
                      /\ ~Over(t) /\ ~AsksUser(t) /\ t \notin dropped \cup refused => Carriers(t) >= 1
                      /\ t \in refused => guided[t] > 0
    BY DEF CarriedOn
  <2>1. Carriers(t) \in Nat /\ guided[t] \in Nat
    <3>1. t \in Tasks
      BY SessionFacts
    <3>2. Carriers(t) \in Nat
      BY Counts, Zenon DEF IInv
    <3> QED BY <3>1, <3>2 DEF IInv, Types
  <2>2. Carriers(t) <= guided[t] + (IF AsksUser(t) \/ Over(t) THEN 0 ELSE 1)
    BY DEF IInv, Bounded
  <2>3. Carriers(t) <= 1 + guided[t]
    BY <2>1, <2>2
  <2>4. ~Over(t) /\ ~AsksUser(t) /\ t \notin dropped \cup refused => Carriers(t) >= 1
    <3>1. Carriers(t) = 0 => Coming(t) = {} /\ Doing(t) = {}
      BY Alone DEF IInv, Solitary
    <3>2. Attended(t) => Carriers(t) # 0
      BY <3>1 DEF Attended
    <3> QED BY <2>1, <3>2 DEF IInv
  <2>5. t \in refused => guided[t] > 0
    <3>1. guided[t] = 0 => t \notin refused
      BY DEF IInv, Known
    <3> QED BY <2>1, <3>1
  <2> QED BY <2>3, <2>4, <2>5
<1> QED BY <1>1, IInvInvariant, PTL

(* The outcome of every task is announced once, and the question a task waits for was
   printed before. *)
THEOREM UserHears == Spec => []UserIsTold
<1>1. IInv => UserIsTold
  <2> SUFFICES ASSUME IInv, NEW t \in Tasks
               PROVE  /\ outcomes[t] + Announcing(t) <= 1
                      /\ Over(t) /\ t \notin dropped => outcomes[t] + Announcing(t) = 1
                      /\ AsksUser(t) /\ guided[t] = 0 => question[t] = st[t].pendingUserInput
    BY DEF UserIsTold
  <2>1. CASE t \in owned
    <3>1. Bounded(t) /\ (guided[t] = 0 => Shown(t))
      BY <2>1 DEF IInv
    <3>2. outcomes[t] + Announcing(t) \in Nat
      <4>1. Announcing(t) \in Nat
        BY Counts, Zenon DEF IInv
      <4> QED BY <4>1 DEF IInv, Types
    <3> QED BY <3>1, <3>2 DEF Bounded, Shown
  <2>2. CASE t \notin owned
    <3>1. Announcing(t) = 0 /\ outcomes[t] = 0 /\ st[t].phase = "Created"
      BY <2>2, NothingUnderWay
    <3>2. ~Over(t) /\ ~AsksUser(t)
      BY <3>1 DEF Over, AsksUser, TSM!IsTerminal, TSM!TerminalPhases
    <3> QED BY <3>1, <3>2
  <2> QED BY <2>1, <2>2
<1> QED BY <1>1, IInvInvariant, PTL

(* An answer to the question a task asks is accepted. *)
LEMMA QuestionAccepts ==
  ASSUME IInv, NEW t \in Tasks, AsksUser(t), NEW e \in GoodEvent(TSM!EventTypes),
         e.type = "user_input.received", e.ref = st[t].pendingUserInput
  PROVE  P!Accepts(st[t], e)
<1>1. P!PendingOK(st[t]) /\ st[t].saved
  BY DEF IInv, P!IInv, P!Good, Owned, AsksUser
<1>2. PICK s : s = st[t]
  OBVIOUS
<1>3. e.wellFormed
  BY DEF GoodEvent
<1> QED BY <1>1, <1>2, <1>3 DEF AsksUser, P!PendingOK, P!Accepts, P!MatchesPending, P!MatchesUserInput

(* A user's answer to the question its task asks is taken, however long ago the session
   looked at the task. *)
THEOREM AnswersAreTaken == Spec => AnswerIsTaken
<1> DEFINE Taken == calls["session"].pc = "advance" /\ calls'["session"].pc # "advance"
                    /\ session.answers /\ guided[calls["session"].task] = 0
                      => out'.verdict = "handled"
<1>1. IInv /\ [Next]_vars => [Taken]_vars
  <2> SUFFICES ASSUME IInv, Next, calls["session"].pc = "advance", calls'["session"].pc # "advance",
                      session.answers, guided[calls["session"].task] = 0
               PROVE  out'.verdict = "handled"
    BY Zenon
  <2>1. session.pc = "publishing" /\ "session" \in Callers
    BY DEF IInv, Handling, Callers
  <2>2. PICK t, e : t = calls["session"].task /\ e = calls["session"].event
    OBVIOUS
  <2>3. CASE Advance("session")
    <3>1. /\ t \in owned /\ t \in Tasks /\ e \in GoodEvent(TSM!EventTypes)
          /\ P!Accepts(st[t], e) => out'.verdict = "handled"
      BY <2>1, <2>2, <2>3, AdvanceCases
    <3>2. CalledEvent("session", t) /\ Answering(t)
      BY <2>2, <3>1 DEF CalledEvent, IInv
    <3>3. AsksUser(t) /\ st[t].pendingUserInput = e.ref /\ e.type = "user_input.received"
      BY <2>2, <3>2 DEF Answering, IInv, Handling
    <3> QED BY <3>1, <3>3, QuestionAccepts
  <2>4. CASE \/ Read \/ Decide \/ StartNewTask \/ StartFails
    BY <2>1, <2>4 DEF Read, Decide, DecideStart, DecideNext, DecideLeave, DecideWait, DecideAnswer,
                      DecideGuide, Decides, StartNewTask, StartFails, Idle
  <2>5. CASE Deliver
    BY <2>5, DeliverCases
  <2>6. CASE Advance("worker")
    <3>1. "worker" \in Callers /\ "session" \in Callers \ {"worker"}
      BY DEF Callers
    <3> QED BY <2>6, <3>1, AdvanceCallers
  <2>7. CASE \E c \in Callers : DispatchEffects(c)
    <3>1. PICK c \in Callers : calls[c].pc = "dispatch" /\ calls' = [calls EXCEPT ![c] = Idle]
      BY <2>7 DEF DispatchEffects, Dispatch, DispatchFails, Return
    <3>2. c # "session"
      BY <3>1
    <3>3. calls'["session"] = calls["session"]
      BY <3>1, <3>2
    <3> QED BY <3>3
  <2>8. CASE \E g \in effects : ExecuteEffect(g) \/ PublishAnswer(g) \/ DropAnswer(g)
    BY <2>8 DEF ExecuteEffect, PublishAnswer, DropAnswer
  <2>9. CASE \E u \in Tasks : CancelTask(u)
    BY <2>1, <2>9, CancelCalls
  <2> QED BY <2>3, <2>4, <2>5, <2>6, <2>7, <2>8, <2>9 DEF Next, Callers
<1> QED BY <1>1, IInvInvariant, PTL DEF Spec, AnswerIsTaken

-----------------------------------------------------------------------------
(* What the session and its goroutines do to a task is what TaskStateMachine says may be
   done to it: everything proved of the state machine holds of the session's tasks. *)
THEOREM SessionDrivesMachine == Spec => P!Spec
<1>1. Init => P!Init
  BY Zenon DEF Init, TSM!Init, P!Init, TSM!NewTaskState, P!NewTaskState, TSM!NoEvent, P!NoEvent,
               TSM!NoEffect, P!NoEffect, TSM!AgentPhaseUnknown, P!AgentPhaseUnknown
<1>2. IInv /\ [Next]_vars => [P!Next]_(P!vars)
  <2> SUFFICES ASSUME IInv, [Next]_vars PROVE P!Next \/ UNCHANGED P!vars
    BY Zenon
  <2>1. CASE \E c \in Callers : Advance(c)
    <3>1. PICK c \in Callers : Advance(c)
      BY <2>1
    <3>2. PICK t, e : t = calls[c].task /\ e = calls[c].event
      OBVIOUS
    <3>3. t \in Tasks /\ e \in TSM!Event
      BY <3>1, <3>2, AdvanceCases DEF GoodEvent
    <3>4. TSM!HandleEvent(t, e)
      BY <3>1, <3>2 DEF Advance
    <3>5. P!HandleEvent(t, e) /\ e \in P!Event
      BY <3>3, <3>4, SameHandlers, SameTypes
    <3> QED BY <3>3, <3>5 DEF P!Next
  <2>2. CASE UNCHANGED machine
    BY <2>2 DEF machine, P!vars
  <2>3. (\E c \in Callers : Advance(c)) \/ UNCHANGED machine
    <3>1. Read \/ Decide \/ StartNewTask \/ StartFails \/ Deliver \/ UNCHANGED vars => UNCHANGED machine
      BY DEF Read, Decide, StartNewTask, StartFails, Deliver, vars
    <3>2. /\ \A c \in Callers : DispatchEffects(c) => UNCHANGED machine
          /\ \A g \in effects : ExecuteEffect(g) \/ PublishAnswer(g) \/ DropAnswer(g) => UNCHANGED machine
          /\ \A t \in Tasks : CancelTask(t) => UNCHANGED machine
      BY DEF DispatchEffects, ExecuteEffect, PublishAnswer, DropAnswer, CancelTask
    <3> QED BY <3>1, <3>2 DEF Next
  <2> QED BY <2>1, <2>2, <2>3
<1> QED BY <1>1, <1>2, IInvInvariant, PTL DEF Spec, P!Spec

(* So no late answer, cancelled or not, moves a task of the session that is over. *)
THEOREM SessionTasksStayOver == Spec => P!TerminalIsFinal
BY SessionDrivesMachine, P!TerminalStays, Names, PTL

(* And the user's client sees of each task a life that TaskLifecycle allows. *)
THEOREM SessionTasksLive == Spec => P!ImplementsLifecycle
BY SessionDrivesMachine, P!RefinesLifecycle, Names, PTL
=============================================================================
