-------------------------- MODULE AsyncRunnerProofs --------------------------
(***************************************************************************)
(* Theorems about AsyncRunner, for any number of runs, agents and ids.     *)
(*                                                                         *)
(* A run goes on because the item under way, wherever it is, is the one    *)
(* its state waits for.  IInv says so of every place an item can be in:    *)
(* the queues, the hands of the working process and, through the agent's   *)
(* snapshot, the files the agents keep.  What the state machine does with  *)
(* an event is taken from TaskStateMachineProofs, instantiated as P.       *)
(***************************************************************************)
EXTENDS AsyncRunner, TLAPS, FiniteSetTheorems, SequenceTheorems

P == INSTANCE TaskStateMachineProofs WITH FlowAgents <- {}, Budgets <- {0}

(* The entries of the queues, an agent's snapshot and what a process holds *)
EventEntry  == [task : Tasks, event : { e \in TSM!Event : e.wellFormed }]
EffectEntry == [task : Tasks, type : TSM!EffectTypes, ref : Refs \cup {NoRef},
                on : TSM!EventTypes]
Snapshot    == [saved : BOOLEAN, pendingModel : Refs \cup {NoRef}, stepIndex : Nat]
InHand      == {Idle} \cup [pc : {"event", "produced"}, item : EventEntry]
                      \cup [pc : {"effect", "enqueue"}, item : EffectEntry]

(* Every effect under way *)
QueuedEffects == ToSet(effects) \cup HeldEffects

(* The types of what the runner keeps *)
Types ==
  /\ runs \subseteq Tasks /\ current \in Agents
  /\ snap \in [Agents -> [Tasks -> Snapshot]]
  /\ events \in Seq(EventEntry) /\ effects \in Seq(EffectEntry)
  /\ worker \in InHand
  /\ typed \subseteq [task : Tasks, ref : Refs \cup {NoRef}]

(* Only submitted runs have anything under way, or a state of their own. *)
Submitted ==
  /\ \A q \in QueuedEvents \cup QueuedEffects : q.task \in runs
  /\ \A u \in typed : u.task \in runs
  /\ \A t \in Tasks \ runs : st[t].phase = "Created"

(* A task that left its first phase has a record in the store. *)
Saved == \A t \in Tasks : st[t].phase # "Created" => st[t].saved

(* No event waits twice, nor was it the last one handled: nothing is a replay. *)
NotHandledYet(q) == \A t \in Tasks : st[t].lastEventID # q.event.id
DistinctIds ==
  /\ \A q \in QueuedEvents : NotHandledYet(q)
  /\ \A i, j \in DOMAIN events : events[i].event.id = events[j].event.id => i = j
  /\ \A q \in HeldEvents : \A i \in DOMAIN events : events[i].event.id # q.event.id

(* At most one item is under way, and none while the user is asked. *)
Alone(t) == Outstanding(t) <= 1 /\ (AsksUser(t) => Outstanding(t) = 0)

(* RunGoesOn of one run *)
Advances(t) == Outstanding(t) = IF Over(t) \/ AsksUser(t) THEN 0 ELSE 1

(* An event, and an effect, that the state and the snapshot of a run wait for *)
EventFits(t, e) ==
  \/ st[t].phase = "Created" /\ e.type = "task.start_requested"
  \/ /\ st[t].phase = "Running"
     /\ e.type \in TSM!RequestEvents \cup {"agent.completed", "agent.failed"}
     /\ e.type \in TSM!RequestEvents => e.ref # NoRef
     /\ e.type = "agent.model_requested" => e.ref = snap[current][t].pendingModel
     /\ snap[current][t].saved
  \/ /\ st[t].phase = "WaitingModel" /\ e.ref = st[t].pendingModel
     /\ e.type \in {"model.response_received", "model.response_failed"}
  \/ /\ st[t].phase = "WaitingTool" /\ e.ref = st[t].pendingTool
     /\ e.type \in {"tool.completed", "tool.failed"}

EffectFits(t, q) ==
  \/ st[t].phase = "Running" /\ q.type = "agent.start"
  \/ /\ st[t].phase = "Running" /\ q.type = "agent.resume"
     /\ snap[current][t].saved
     /\ q.on = "model.response_received" => q.ref = snap[current][t].pendingModel
  \/ st[t].phase = "WaitingModel" /\ q.type = "model.call" /\ q.ref = st[t].pendingModel
  \/ st[t].phase = "WaitingTool" /\ q.type = "tool.dispatch" /\ q.ref = st[t].pendingTool

(* An agent that waits has saved, and knows the model call it waits for. *)
SnapshotFits(t) ==
  /\ st[t].phase \in TSM!WaitingPhases => snap[current][t].saved
  /\ st[t].phase = "WaitingModel" => snap[current][t].pendingModel = st[t].pendingModel

(* Everything under way fits. *)
Fits(t) ==
  /\ \A q \in QueuedEvents : q.task = t /\ Carries("event", q) => EventFits(t, q.event)
  /\ \A q \in QueuedEffects : q.task = t /\ Carries("effect", q) => EffectFits(t, q)
  /\ SnapshotFits(t)

(* The inductive invariant: the state machine's own, and what the runner adds. *)
IInv ==
  /\ P!IInv
  /\ Types
  /\ Submitted
  /\ Saved
  /\ DistinctIds
  /\ \A t \in runs \ guided : Alone(t)
  /\ \A t \in Undisturbed : Advances(t) /\ Fits(t)
-----------------------------------------------------------------------------
(* The queues *)

(* The places of a queue are finitely many. *)
LEMMA PlacesFinite ==
  ASSUME NEW S, NEW queue \in Seq(S), NEW pc, NEW t
  PROVE  /\ Places(pc, queue, t) \subseteq 1 .. Len(queue)
         /\ IsFiniteSet(Places(pc, queue, t))
         /\ Cardinality(Places(pc, queue, t)) \in Nat
<1>1. DOMAIN queue = 1 .. Len(queue) /\ Len(queue) \in Nat
  BY LenProperties
<1>2. Places(pc, queue, t) \in SUBSET (1 .. Len(queue))
  BY <1>1 DEF Places
<1>3. IsFiniteSet(1 .. Len(queue))
  BY <1>1, FS_Interval
<1>4. IsFiniteSet(Places(pc, queue, t))
  BY <1>2, <1>3, FS_Subset
<1> QED BY <1>2, <1>4, FS_CardinalityType

(* An entry added to a queue is one place more for its task, if it carries the run on. *)
LEMMA PlacesAppend ==
  ASSUME NEW S, NEW queue \in Seq(S), NEW x \in S, NEW pc, NEW t
  PROVE  Cardinality(Places(pc, Append(queue, x), t)) =
           Cardinality(Places(pc, queue, t))
             + (IF x.task = t /\ Carries(pc, x) THEN 1 ELSE 0)
<1> DEFINE n == Len(queue) + 1
           longer == Append(queue, x)
<1>1. /\ DOMAIN queue = 1 .. Len(queue) /\ Len(queue) \in Nat
      /\ DOMAIN longer = 1 .. n
      /\ \A i \in 1 .. Len(queue) : longer[i] = queue[i]
      /\ longer[n] = x
  BY AppendProperties, LenProperties
<1> HIDE DEF longer
<1>2. Places(pc, longer, t) =
        Places(pc, queue, t) \cup (IF x.task = t /\ Carries(pc, x) THEN {n} ELSE {})
  BY <1>1 DEF Places
<1>3. n \notin Places(pc, queue, t)
  BY <1>1 DEF Places
<1>4. /\ IsFiniteSet(Places(pc, queue, t)) /\ Cardinality(Places(pc, queue, t)) \in Nat
      /\ Cardinality(Places(pc, queue, t) \cup {n}) = Cardinality(Places(pc, queue, t)) + 1
  BY <1>3, PlacesFinite, FS_AddElement
<1>5. CASE x.task = t /\ Carries(pc, x)
  BY <1>2, <1>4, <1>5 DEF longer
<1>6. CASE ~(x.task = t /\ Carries(pc, x))
  <2>1. Places(pc, longer, t) = Places(pc, queue, t)
    BY <1>2, <1>6
  <2>2. (IF x.task = t /\ Carries(pc, x) THEN 1 ELSE 0) = 0
    BY <1>6
  <2> QED BY <1>4, <2>1, <2>2 DEF longer
<1> QED BY <1>5, <1>6

(* RemoveAt keeps the other entries, in their order. *)
LEMMA RemoveAtEntries ==
  ASSUME NEW S, NEW queue \in Seq(S), NEW k \in DOMAIN queue
  PROVE  /\ RemoveAt(queue, k) \in Seq(S)
         /\ DOMAIN queue = 1 .. Len(queue) /\ Len(queue) \in Nat
         /\ DOMAIN RemoveAt(queue, k) = 1 .. Len(queue) - 1
         /\ \A i \in 1 .. Len(queue) - 1 :
              RemoveAt(queue, k)[i] = queue[IF i < k THEN i ELSE i + 1]
<1> DEFINE before == SubSeq(queue, 1, k - 1)
           after  == SubSeq(queue, k + 1, Len(queue))
<1>1. DOMAIN queue = 1 .. Len(queue) /\ Len(queue) \in Nat /\ k \in 1 .. Len(queue)
  BY LenProperties
<1>2. \A i \in 1 .. Len(queue) : queue[i] \in S
  BY <1>1, ElementOfSeq
<1>3. /\ before \in Seq(S) /\ Len(before) = k - 1
      /\ \A i \in 1 .. k - 1 : before[i] = queue[i]
  <2>1. \A i \in 1 .. k - 1 : queue[i] \in S
    BY <1>1, <1>2
  <2> QED BY <1>1, <2>1, SubSeqProperties
<1>4. /\ after \in Seq(S) /\ Len(after) = Len(queue) - k
      /\ \A i \in 1 .. Len(queue) - k : after[i] = queue[k + i]
  <2>1. \A i \in k + 1 .. Len(queue) : queue[i] \in S
    BY <1>1, <1>2
  <2>2. k + 1 \in Int /\ Len(queue) \in Int
    BY <1>1
  <2>3. /\ SubSeq(queue, k + 1, Len(queue)) \in Seq(S)
        /\ Len(SubSeq(queue, k + 1, Len(queue))) =
             IF k + 1 <= Len(queue) THEN Len(queue) - (k + 1) + 1 ELSE 0
        /\ \A i \in 1 .. Len(queue) - (k + 1) + 1 :
             SubSeq(queue, k + 1, Len(queue))[i] = queue[k + 1 + i - 1]
    BY <2>1, <2>2, SubSeqProperties
  <2> QED BY <1>1, <2>3
<1> HIDE DEF before, after
<1>5. /\ before \o after \in Seq(S)
      /\ Len(before \o after) = Len(before) + Len(after)
      /\ \A i \in 1 .. Len(before) + Len(after) :
           (before \o after)[i] =
             IF i <= Len(before) THEN before[i] ELSE after[i - Len(before)]
  BY <1>3, <1>4, ConcatProperties
<1>6. RemoveAt(queue, k) = before \o after
  BY DEF RemoveAt, before, after
<1>7. /\ Len(before) + Len(after) = Len(queue) - 1
      /\ DOMAIN (before \o after) = 1 .. Len(queue) - 1
      /\ \A i \in 1 .. Len(queue) - 1 :
           (before \o after)[i] = IF i <= k - 1 THEN before[i] ELSE after[i - (k - 1)]
  <2>1. Len(before) + Len(after) = Len(queue) - 1
    BY <1>1, <1>3, <1>4
  <2>2. DOMAIN (before \o after) = 1 .. Len(before \o after)
    BY <1>5, LenProperties
  <2>3. Len(before) = k - 1
    BY <1>3
  <2> QED BY <1>5, <2>1, <2>2, <2>3
<1>8. ASSUME NEW i \in 1 .. Len(queue) - 1
      PROVE  (before \o after)[i] = queue[IF i < k THEN i ELSE i + 1]
  <2>1. CASE i < k
    <3>1. i <= k - 1 /\ i \in 1 .. k - 1
      BY <1>1, <2>1
    <3>2. before[i] = queue[i]
      BY <1>3, <3>1
    <3> QED BY <1>7, <2>1, <3>1, <3>2
  <2>2. CASE ~(i < k)
    <3>1. (before \o after)[i] = after[i - (k - 1)]
      <4>1. ~(i <= k - 1)
        BY <1>1, <2>2
      <4> QED BY <1>7, <4>1
    <3>2. i - (k - 1) \in 1 .. Len(queue) - k /\ k + (i - (k - 1)) = i + 1
      BY <1>1, <2>2
    <3> QED BY <1>4, <2>2, <3>1, <3>2
  <2> QED BY <2>1, <2>2
<1> QED BY <1>1, <1>5, <1>6, <1>7, <1>8

(* An entry taken out of a queue is one place less for its task. *)
LEMMA PlacesRemove ==
  ASSUME NEW S, NEW queue \in Seq(S), NEW k \in DOMAIN queue, NEW pc, NEW t
  PROVE  Cardinality(Places(pc, queue, t)) =
           Cardinality(Places(pc, RemoveAt(queue, k), t))
             + (IF queue[k].task = t /\ Carries(pc, queue[k]) THEN 1 ELSE 0)
<1> DEFINE n == Len(queue)
           shorter == RemoveAt(queue, k)
           Old(i) == IF i < k THEN i ELSE i + 1
           from == Places(pc, shorter, t)
           to == Places(pc, queue, t) \ {k}
           f == [i \in from |-> Old(i)]
<1>1. /\ shorter \in Seq(S) /\ n \in Nat /\ DOMAIN queue = 1 .. n /\ k \in 1 .. n
      /\ DOMAIN shorter = 1 .. n - 1
      /\ \A i \in 1 .. n - 1 : shorter[i] = queue[Old(i)]
  BY RemoveAtEntries
<1> HIDE DEF shorter, n
<1>2. f \in [from -> to]
  BY <1>1 DEF Places
<1>3. \A i, j \in from : f[i] = f[j] => i = j
  BY <1>1 DEF Places
<1>4. ASSUME NEW j \in to
      PROVE  \E i \in from : f[i] = j
  <2>3. j \in 1 .. n /\ j # k
    BY <1>1 DEF Places
  <2>1. CASE j < k
    <3>1. j \in from /\ Old(j) = j
      BY <1>1, <2>1 DEF Places
    <3> QED BY <3>1
  <2>2. CASE j > k
    <3>1. j - 1 \in from /\ Old(j - 1) = j
      BY <1>1, <2>2 DEF Places
    <3> QED BY <3>1
  <2> QED BY <1>1, <2>1, <2>2, <2>3
<1>5. ExistsBijection(from, to)
  BY <1>2, <1>3, <1>4
     DEF ExistsBijection, Bijection, Injection, Surjection, IsInjective
<1>6. IsFiniteSet(from) /\ Cardinality(from) \in Nat
  BY <1>1, PlacesFinite
<1>7. Cardinality(to) = Cardinality(from)
  BY <1>5, <1>6, FS_Bijection
<1>8. IsFiniteSet(Places(pc, queue, t)) /\ Cardinality(Places(pc, queue, t)) \in Nat
  BY PlacesFinite
<1>9. Cardinality(to) = IF k \in Places(pc, queue, t) THEN Cardinality(Places(pc, queue, t)) - 1
                                                     ELSE Cardinality(Places(pc, queue, t))
  BY <1>8, FS_RemoveElement
<1>10. k \in Places(pc, queue, t) <=> queue[k].task = t /\ Carries(pc, queue[k])
  BY DEF Places
<1> HIDE DEF from, to
<1>11. Cardinality(Places(pc, queue, t)) =
         Cardinality(from) + (IF queue[k].task = t /\ Carries(pc, queue[k]) THEN 1 ELSE 0)
  BY <1>6, <1>7, <1>8, <1>9, <1>10
<1> QED BY <1>11 DEF from, shorter

(* No place, no entry that carries the run on. *)
LEMMA NoPlaces ==
  ASSUME NEW S, NEW queue \in Seq(S), NEW pc, NEW t,
         Cardinality(Places(pc, queue, t)) = 0
  PROVE  \A q \in ToSet(queue) : ~(q.task = t /\ Carries(pc, q))
<1>1. Places(pc, queue, t) = {}
  BY PlacesFinite, FS_EmptySet
<1> QED BY <1>1 DEF Places, ToSet
-----------------------------------------------------------------------------
(* The state machine: P is TSM with what TaskStateMachineProofs proves of it. *)

(* The assumptions of TaskStateMachine hold for the runner's. *)
LEMMA Names == P!NamesAssumption /\ P!BudgetAssumption
BY RunnerAssumption DEF P!NamesAssumption, P!BudgetAssumption

(* The types of the two instances are the same sets. *)
LEMMA SameTypes ==
  /\ TSM!Event = P!Event /\ TSM!EventTypes = P!EventTypes
  /\ TSM!EffectTypes = P!EffectTypes /\ TSM!NoEffect = P!NoEffect
  /\ TSM!RequestEvents = P!RequestEvents /\ TSM!WaitingPhases = P!WaitingPhases
BY Zenon DEF TSM!Event, P!Event, TSM!AnyEvent, P!AnyEvent, TSM!EventTypes, P!EventTypes,
       TSM!HandledEvents, P!HandledEvents, TSM!CreationEvents, P!CreationEvents,
       TSM!RequestEvents, P!RequestEvents, TSM!AnswerEvents, P!AnswerEvents,
       TSM!FlowEvents, P!FlowEvents, TSM!UndecodedEvents, P!UndecodedEvents,
       TSM!EffectTypes, P!EffectTypes, TSM!NoEffect, P!NoEffect,
       TSM!WaitingPhases, P!WaitingPhases

(* The machine starts in its invariant. *)
LEMMA MachineInit == TSM!Init => P!IInv
<1>1. TSM!Init => P!Init
  BY DEF TSM!Init, P!Init, TSM!NewTaskState, P!NewTaskState, TSM!NoEvent, P!NoEvent,
         TSM!NoEffect, P!NoEffect, TSM!AgentPhaseUnknown, P!AgentPhaseUnknown
<1> QED BY <1>1, Names, P!InitGood

(* What the runner publishes is handled by P's handlers. *)
LEMMA SameHandlers ==
  ASSUME NEW t \in Tasks, NEW e \in TSM!Event, TSM!HandleEvent(t, e)
  PROVE  P!HandleEvent(t, e)
BY Zenon
   DEF TSM!HandleEvent, P!HandleEvent,
       TSM!Deliverable, P!Deliverable, TSM!IsReplay, P!IsReplay,
       TSM!Handles, P!Handles, TSM!Accepts, P!Accepts, TSM!Commit, P!Commit,
       TSM!CreationEvents, P!CreationEvents, TSM!RequestEvents, P!RequestEvents,
       TSM!FlowEvents, P!FlowEvents, TSM!IsTerminal, P!IsTerminal,
       TSM!TerminalPhases, P!TerminalPhases, TSM!WaitingPhases, P!WaitingPhases,
       TSM!MatchesPending, P!MatchesPending, TSM!MatchesUserInput, P!MatchesUserInput,
       TSM!FlowTransitions, P!FlowTransitions, TSM!CodeAgentFlow, P!CodeAgentFlow,
       TSM!CurrentAgentPhase, P!CurrentAgentPhase, TSM!FlowInitial, P!FlowInitial,
       TSM!AgentPhaseUnknown, P!AgentPhaseUnknown,
       TSM!ApplyCreationPayload, P!ApplyCreationPayload, TSM!ClearPendings, P!ClearPendings,
       TSM!OutOfBudget, P!OutOfBudget, TSM!CountFailure, P!CountFailure,
       TSM!FailureEffect, P!FailureEffect, TSM!MakeEffect, P!MakeEffect,
       TSM!NoEffect, P!NoEffect, TSM!EffectIf, P!EffectIf,
       TSM!ReplayedFailure, P!ReplayedFailure, TSM!ReplayedEffect, P!ReplayedEffect,
       TSM!HandleTaskCreated, P!HandleTaskCreated,
       TSM!HandleTaskStartRequested, P!HandleTaskStartRequested,
       TSM!HandleTaskCancelRequested, P!HandleTaskCancelRequested,
       TSM!HandleAgentModelRequested, P!HandleAgentModelRequested,
       TSM!HandleModelResponse, P!HandleModelResponse,
       TSM!HandleAgentToolRequested, P!HandleAgentToolRequested,
       TSM!HandleToolCompleted, P!HandleToolCompleted,
       TSM!HandleToolFailed, P!HandleToolFailed,
       TSM!HandleAgentUserInputRequested, P!HandleAgentUserInputRequested,
       TSM!HandleUserInputReceived, P!HandleUserInputReceived,
       TSM!HandleAgentSubAgentRequested, P!HandleAgentSubAgentRequested,
       TSM!HandleSubAgentCompleted, P!HandleSubAgentCompleted,
       TSM!HandleSubAgentFailed, P!HandleSubAgentFailed,
       TSM!HandleAgentCompleted, P!HandleAgentCompleted,
       TSM!HandleAgentFailed, P!HandleAgentFailed,
       TSM!HandleAgentFlow, P!HandleAgentFlow,
       TSM!ReplayEvent, P!ReplayEvent, TSM!RejectEvent, P!RejectEvent

(* An event moves the machine within its invariant. *)
LEMMA MachineStep ==
  ASSUME P!IInv, NEW t \in Tasks, NEW e \in TSM!Event, TSM!HandleEvent(t, e)
  PROVE  P!IInv'
<1>1. P!HandleEvent(t, e) /\ e \in P!Event
  BY SameHandlers, SameTypes
<1>2. P!Next
  BY <1>1 DEF P!Next
<1> QED BY <1>2, Names, P!StepGood

(* An event that is not the last one again is rejected, or accepted and handled. *)
LEMMA MachineCases ==
  ASSUME NEW t \in Tasks, NEW e \in TSM!Event, TSM!HandleEvent(t, e),
         st[t].lastEventID # e.id
  PROVE  /\ e \in P!Event
         /\ \/ P!Handler(t, e) /\ P!Accepts(st[t], e)
            \/ P!RejectEvent(t, e) /\ ~P!Accepts(st[t], e)
<1>1. P!HandleEvent(t, e) /\ e \in P!Event
  BY SameHandlers, SameTypes
<1>2. ~P!ReplayEvent(t, e)
  BY DEF P!ReplayEvent, P!IsReplay
<1>3. P!Handler(t, e) \/ P!RejectEvent(t, e)
  BY <1>1, <1>2, Zenon DEF P!HandleEvent, P!Handler
<1>4. P!Handler(t, e) => P!Accepts(st[t], e)
  BY <1>1, Names, P!HandlerChanges
<1> QED BY <1>1, <1>3, <1>4 DEF P!RejectEvent
-----------------------------------------------------------------------------
(* Items, in a queue or in hand *)

(* A process holds nothing, an event or an effect. *)
LEMMA InHandCases ==
  ASSUME worker \in InHand
  PROVE  \/ worker = Idle /\ worker.pc = "idle"
         \/ worker.pc \in {"event", "produced"} /\ worker.item \in EventEntry
         \/ worker.pc \in {"effect", "enqueue"} /\ worker.item \in EffectEntry
BY DEF InHand, Idle

(* Whatever is under way is an entry of its kind. *)
LEMMA ItemTypes ==
  ASSUME Types
  PROVE  QueuedEvents \subseteq EventEntry /\ QueuedEffects \subseteq EffectEntry
<1>1. ToSet(events) \subseteq EventEntry /\ ToSet(effects) \subseteq EffectEntry
  BY ElementOfSeq, LenProperties DEF Types, ToSet
<1>2. HeldEvents \subseteq EventEntry /\ HeldEffects \subseteq EffectEntry
  BY InHandCases DEF Types, HeldEvents, HeldEffects
<1> QED BY <1>1, <1>2 DEF QueuedEvents, QueuedEffects

(* The number of items under way is a number. *)
LEMMA OutstandingIsNat ==
  ASSUME Types, NEW t
  PROVE  /\ Cardinality(Places("event", events, t)) \in Nat
         /\ Cardinality(Places("effect", effects, t)) \in Nat
         /\ Held(t) \in {0, 1} /\ Outstanding(t) \in Nat
<1>1. /\ Cardinality(Places("event", events, t)) \in Nat
      /\ Cardinality(Places("effect", effects, t)) \in Nat
  BY PlacesFinite DEF Types
<1>2. Held(t) \in {0, 1}
  BY DEF Held
<1> QED BY <1>1, <1>2 DEF Outstanding

(* A task whose only item is in hand has none in the queues. *)
LEMMA OnlyItem ==
  ASSUME Types, NEW t, Outstanding(t) <= Held(t)
  PROVE  /\ \A q \in ToSet(events) : ~(q.task = t /\ Carries("event", q))
         /\ \A q \in ToSet(effects) : ~(q.task = t /\ Carries("effect", q))
<1>1. /\ Cardinality(Places("event", events, t)) = 0
      /\ Cardinality(Places("effect", effects, t)) = 0
  BY OutstandingIsNat DEF Outstanding
<1> QED BY <1>1, NoPlaces DEF Types

(* A fresh id is nobody's. *)
LEMMA FreshIdIsNew ==
  ASSUME IdsLeft
  PROVE  /\ FreshId \in EventIds
         /\ \A q \in QueuedEvents : q.event.id # FreshId
         /\ \A t \in Tasks : st[t].lastEventID # FreshId
<1>1. FreshId \in FreshIds
  BY Zenon DEF IdsLeft, FreshId
<1> QED BY <1>1 DEF FreshIds

(* A fresh reference is not the empty one. *)
LEMMA FreshRefIsRef ==
  ASSUME IdsLeft
  PROVE  FreshRef \in Refs /\ FreshRef # NoRef
<1>1. FreshRef \in FreshRefs
  BY Zenon DEF IdsLeft, FreshRef
<1> QED BY <1>1, RunnerAssumption DEF FreshRefs

(* An event of the runner is an event of the machine. *)
LEMMA MadeEvents ==
  ASSUME NEW id \in EventIds, NEW type \in TSM!EventTypes, NEW ref \in Refs \cup {NoRef},
         NEW agent \in Agents \cup {NoAgent},
         type \notin TSM!CreationEvents => agent = NoAgent,
         type \notin TSM!RequestEvents \cup TSM!AnswerEvents => ref = NoRef
  PROVE  /\ MakeEvent(id, type, ref, agent) \in { e \in TSM!Event : e.wellFormed }
         /\ MakeEvent(id, type, ref, agent).id = id
         /\ MakeEvent(id, type, ref, agent).type = type
         /\ MakeEvent(id, type, ref, agent).ref = ref
<1>1. MakeEvent(id, type, ref, agent) \in TSM!AnyEvent
  BY DEF MakeEvent, TSM!AnyEvent
<1> QED BY <1>1 DEF MakeEvent, TSM!Event

(* A step that leaves a task's state, snapshot and items alone, and adds only input
   and announcements, leaves what holds of the task alone. *)
LEMMA TaskKept ==
  ASSUME NEW t, Outstanding(t)' = Outstanding(t), st'[t] = st[t],
         snap'[current'][t] = snap[current][t],
         \A q \in QueuedEvents' :
           q.task = t /\ Carries("event", q) => q \in QueuedEvents,
         \A q \in QueuedEffects' :
           q.task = t /\ Carries("effect", q) => q \in QueuedEffects
  PROVE  /\ Alone(t) => Alone(t)'
         /\ Advances(t) => Advances(t)'
         /\ Fits(t) => Fits(t)'
<1>1. Alone(t) => Alone(t)'
  BY DEF Alone, AsksUser
<1>2. Advances(t) => Advances(t)'
  BY DEF Advances, AsksUser, Over, TSM!IsTerminal, TSM!TerminalPhases
<1>3. \A e : EventFits(t, e)' <=> EventFits(t, e)
  BY DEF EventFits
<1>4. \A q : EffectFits(t, q)' <=> EffectFits(t, q)
  BY DEF EffectFits
<1>5. SnapshotFits(t)' <=> SnapshotFits(t)
  BY DEF SnapshotFits
<1>6. Fits(t) => Fits(t)'
  BY <1>3, <1>4, <1>5 DEF Fits, Carries
<1> QED BY <1>1, <1>2, <1>6

(* The machine's invariant is about its variables only. *)
LEMMA MachineKept ==
  ASSUME P!IInv, UNCHANGED machine
  PROVE  P!IInv'
<1>1. UNCHANGED P!vars
  BY DEF machine, P!vars
<1> QED BY <1>1, Names, P!StepGood
-----------------------------------------------------------------------------
(* Commands that leave the state machine alone *)

(* An item in hand is dropped: what it carried on is disturbed, or it carried nothing. *)
LEMMA DropPreserves ==
  ASSUME IInv, ~IsIdle, Release,
         UNCHANGED <<machine, runs, snap, current, queues, typed, guided>>,
         disturbed \subseteq disturbed',
         Carries(worker.pc, worker.item) => worker.item.task \notin Undisturbed'
  PROVE  IInv'
<1> USE DEF queues
<1>1. P!IInv /\ P!IInv' /\ Types /\ st' = st
  BY MachineKept DEF IInv, machine
<1>2. Types'
  BY <1>1 DEF Types, Release, InHand
<1>3. /\ HeldEvents' = {} /\ HeldEffects' = {}
      /\ QueuedEvents' \subseteq QueuedEvents /\ QueuedEffects' \subseteq QueuedEffects
  BY DEF Release, Idle, HeldEvents, HeldEffects, QueuedEvents, QueuedEffects
<1>4. Submitted' /\ Saved'
  BY <1>1, <1>3 DEF IInv, Submitted, Saved
<1>5. DistinctIds'
  BY <1>1, <1>3 DEF IInv, DistinctIds, NotHandledYet
<1>6. ASSUME NEW t PROVE Outstanding(t)' = Outstanding(t) - Held(t)
  BY <1>1, OutstandingIsNat DEF Outstanding, Held, Release, Idle
<1>7. ASSUME NEW t \in (runs \ guided)' PROVE Alone(t)'
  <2>1. Alone(t)
    BY DEF IInv
  <2>2. Outstanding(t)' <= Outstanding(t) /\ Outstanding(t)' \in Nat
    BY <1>1, <1>6, OutstandingIsNat DEF Outstanding
  <2> QED BY <1>1, <2>1, <2>2, OutstandingIsNat DEF Alone, AsksUser
<1>8. ASSUME NEW t \in Undisturbed' PROVE (Advances(t) /\ Fits(t))'
  <2>1. t \in Undisturbed /\ Advances(t) /\ Fits(t)
    BY DEF Undisturbed, IInv
  <2>2. Held(t) = 0
    BY DEF Held
  <2>3. Outstanding(t)' = Outstanding(t)
    BY <1>1, <1>6, <2>2, OutstandingIsNat
  <2> QED BY <1>1, <1>3, <2>1, <2>3, TaskKept
<1> QED BY <1>1, <1>2, <1>4, <1>5, <1>7, <1>8 DEF IInv

(* What the executors produce. *)
ProducedTypes == TSM!RequestEvents \cup {"agent.completed", "agent.failed",
  "model.response_received", "model.response_failed", "tool.completed", "tool.failed"}

(* An executed effect becomes the event it produced, which must fit the task. *)
LEMMA ExecutePreserves ==
  ASSUME IInv, worker.pc = "effect", worker.item.type \notin Announcements,
         NEW type \in ProducedTypes, NEW ref \in Refs \cup {NoRef}, Produce(type, ref),
         type \in {"agent.completed", "agent.failed"} => ref = NoRef,
         UNCHANGED <<machine, runs, current, queues, typed, disturbed, guided>>,
         NEW s \in Snapshot,
         snap' = snap \/ snap' = [snap EXCEPT ![current][Task] = s],
         NEW task, task = Task, NEW e, e = MakeEvent(FreshId, type, ref, NoAgent),
         task \in Undisturbed => EventFits(task, e)' /\ SnapshotFits(task)'
  PROVE  IInv'
<1> USE DEF queues
<1> DEFINE new == [task |-> Task, event |-> e]
<1>1. /\ P!IInv /\ P!IInv' /\ Types /\ st' = st /\ IdsLeft
      /\ worker.item \in EffectEntry /\ Task \in Tasks
  BY MachineKept, InHandCases DEF IInv, machine, Produce, Types, Task, EffectEntry
<1>2. e \in { f \in TSM!Event : f.wellFormed } /\ e.id = FreshId /\ e.type = type
  <2>1. /\ type \in TSM!EventTypes /\ type \notin TSM!CreationEvents
        /\ type \notin TSM!RequestEvents \cup TSM!AnswerEvents => ref = NoRef
    BY DEF ProducedTypes, TSM!EventTypes, TSM!HandledEvents, TSM!RequestEvents,
           TSM!AnswerEvents, TSM!CreationEvents
  <2> QED BY <1>1, <2>1, FreshIdIsNew, MadeEvents
<1>3. worker' = [pc |-> "produced", item |-> new] /\ new \in EventEntry
  BY <1>1, <1>2 DEF Produce, Hold, EventEntry
<1>4. snap' \in [Agents -> [Tasks -> Snapshot]]
  BY <1>1 DEF Types
<1>5. Types'
  BY <1>1, <1>3, <1>4 DEF Types, InHand
<1>6. /\ HeldEvents = {} /\ HeldEvents' = {new} /\ HeldEffects' = {}
      /\ HeldEffects = {worker.item}
      /\ QueuedEvents = ToSet(events) /\ QueuedEvents' = ToSet(events) \cup {new}
      /\ QueuedEffects' = ToSet(effects) /\ QueuedEffects' \subseteq QueuedEffects
  BY <1>3 DEF HeldEvents, HeldEffects, QueuedEvents, QueuedEffects
<1>7. Submitted' /\ Saved'
  <2>1. Task \in runs
    BY <1>6 DEF IInv, Submitted, QueuedEffects, Task
  <2> QED BY <1>1, <1>6, <2>1 DEF IInv, Submitted, Saved
<1>8. DistinctIds'
  <2>1. DistinctIds /\ new.event.id = FreshId
    BY <1>2 DEF IInv
  <2>2. \A q \in ToSet(events) : q.event.id # FreshId
    BY <1>1, <1>6, FreshIdIsNew
  <2>3. \A i \in DOMAIN events : events[i].event.id # FreshId
    BY <2>2 DEF ToSet
  <2>4. \A t \in Tasks : st[t].lastEventID # FreshId
    BY <1>1, FreshIdIsNew
  <2> QED BY <1>1, <1>6, <2>1, <2>3, <2>4 DEF DistinctIds, NotHandledYet
<1>9. ~IsInput(new) /\ Carries("event", new) /\ Carries("produced", new)
      /\ Carries("effect", worker.item)
  BY <1>2 DEF ProducedTypes, TSM!RequestEvents, IsInput, Carries
<1>10. ASSUME NEW t PROVE Held(t)' = Held(t) /\ Outstanding(t)' = Outstanding(t)
  <2>1. Held(t)' = Held(t)
    BY <1>3, <1>9 DEF Held, Task
  <2> QED BY <2>1 DEF Outstanding
<1>11. ASSUME NEW t \in (runs \ guided)' PROVE Alone(t)'
  BY <1>1, <1>10 DEF IInv, Alone, AsksUser
<1>12. ASSUME NEW t \in Undisturbed' PROVE (Advances(t) /\ Fits(t))'
  <2>1. t \in Undisturbed /\ Advances(t) /\ Fits(t)
    BY DEF Undisturbed, IInv
  <2>2. CASE t # Task
    <3>1. snap'[current'][t] = snap[current][t]
      <4>1. CASE snap' = snap
        BY <4>1
      <4>2. CASE snap' = [snap EXCEPT ![current][Task] = s]
        <5>1. current \in Agents /\ t \in Tasks
          BY <1>1, <2>1 DEF Types, Undisturbed
        <5> QED BY <1>1, <2>2, <4>2, <5>1 DEF Types
      <4> QED BY <4>1, <4>2
    <3> QED BY <1>1, <1>6, <1>10, <2>1, <2>2, <3>1, TaskKept
  <2>3. CASE t = Task
    <3>1. Advances(t)'
      BY <1>1, <1>10, <2>1 DEF Advances, AsksUser, Over, TSM!IsTerminal, TSM!TerminalPhases
    <3>2. Held(t) = 1 /\ Outstanding(t) <= 1
      BY <1>9, <2>1, <2>3 DEF Held, Task, Advances
    <3>3. /\ \A q \in ToSet(events) : ~(q.task = t /\ Carries("event", q))
          /\ \A q \in ToSet(effects) : ~(q.task = t /\ Carries("effect", q))
      BY <1>1, <3>2, OnlyItem
    <3>4. EventFits(t, new.event)' /\ SnapshotFits(t)'
      <4>1. t = task /\ new.event = e
        BY <2>3
      <4> QED BY <2>1, <4>1
    <3>5. Fits(t)'
      BY <1>6, <3>3, <3>4 DEF Fits, Carries
    <3> QED BY <3>1, <3>5
  <2> QED BY <2>2, <2>3
<1> QED BY <1>1, <1>5, <1>7, <1>8, <1>11, <1>12 DEF IInv

(* The effect in hand of a run nothing disturbed is the one its state waits for. *)
LEMMA EffectInHand ==
  ASSUME IInv, worker.pc = "effect", worker.item.type \notin Announcements,
         NEW task, task = Task, task \in Undisturbed
  PROVE  EffectFits(task, worker.item) /\ SnapshotFits(task)
<1>1. worker.item \in QueuedEffects /\ worker.item.task = task
  BY DEF QueuedEffects, HeldEffects, Task
<1>2. Carries("effect", worker.item) /\ Fits(task)
  BY DEF Carries, IInv
<1> QED BY <1>1, <1>2 DEF Fits

(* An agent that asks its model, or gives up, with the snapshot it saves. *)
LEMMA RequestDecisionPreserves ==
  ASSUME IInv, worker.pc = "effect", worker.item.type \notin Announcements,
         NEW s \in Snapshot, RequestDecision(s),
         UNCHANGED <<machine, runs, current, queues, typed, disturbed, guided>>,
         NEW task, task = Task,
         task \in Undisturbed => st[task].phase = "Running"
  PROVE  IInv'
<1>1. /\ st' = st /\ current' = current /\ current \in Agents /\ task \in Tasks
      /\ snap \in [Agents -> [Tasks -> Snapshot]]
  BY InHandCases DEF IInv, machine, Types, Task, EffectEntry
<1>2. CASE Save(s) /\ Produce("agent.failed", NoRef)
  <2> DEFINE n == [s EXCEPT !.saved = TRUE]
  <2>1. n \in Snapshot /\ n.saved
    BY DEF Snapshot
  <2> HIDE DEF n
  <2>2. snap' = [snap EXCEPT ![current][Task] = n]
    BY <1>2 DEF Save, n
  <2>3. snap'[current'][task] = n
    BY <1>1, <2>2
  <2>4. PICK e : e = MakeEvent(FreshId, "agent.failed", NoRef, NoAgent)
    OBVIOUS
  <2>5. e.type = "agent.failed"
    BY <2>4 DEF MakeEvent
  <2>6. task \in Undisturbed => EventFits(task, e)' /\ SnapshotFits(task)'
    BY <1>1, <2>1, <2>3, <2>5 DEF EventFits, SnapshotFits, TSM!RequestEvents, TSM!WaitingPhases
  <2> QED BY <1>2, <2>1, <2>2, <2>4, <2>6, ExecutePreserves DEF ProducedTypes
<1>3. CASE Save([s EXCEPT !.pendingModel = FreshRef]) /\ Produce("agent.model_requested", FreshRef)
  <2>1. PICK ref : ref = FreshRef
    OBVIOUS
  <2>2. ref \in Refs /\ ref # NoRef
    BY <1>3, <2>1, FreshRefIsRef DEF Produce
  <2> DEFINE n == [[s EXCEPT !.pendingModel = ref] EXCEPT !.saved = TRUE]
  <2>3. n \in Snapshot /\ n.saved /\ n.pendingModel = ref
    BY <2>2 DEF Snapshot
  <2>4. snap' = [snap EXCEPT ![current][Task] = n]
    BY <1>3, <2>1 DEF Save
  <2> HIDE DEF n
  <2>5. snap'[current'][task] = n
    BY <1>1, <2>4
  <2>6. PICK e : e = MakeEvent(FreshId, "agent.model_requested", ref, NoAgent)
    OBVIOUS
  <2>7. e.type = "agent.model_requested" /\ e.ref = ref
    BY <2>6 DEF MakeEvent
  <2>8. task \in Undisturbed => EventFits(task, e)' /\ SnapshotFits(task)'
    BY <1>1, <2>2, <2>3, <2>5, <2>7
       DEF EventFits, SnapshotFits, TSM!RequestEvents, TSM!WaitingPhases
  <2>9. "agent.model_requested" \in ProducedTypes /\ Produce("agent.model_requested", ref)
    BY <1>3, <2>1 DEF ProducedTypes, TSM!RequestEvents
  <2> QED BY <2>2, <2>3, <2>4, <2>6, <2>8, <2>9, ExecutePreserves
<1> QED BY <1>2, <1>3, Zenon DEF RequestDecision

(* The first turn of an agent. *)
LEMMA AgentStartPreserves == IInv /\ AgentStart => IInv'
<1> SUFFICES ASSUME IInv, AgentStart PROVE IInv'
  OBVIOUS
<1>1. /\ worker.pc = "effect" /\ worker.item.type = "agent.start"
      /\ worker.item.type \notin Announcements
      /\ UNCHANGED <<machine, runs, current, queues, typed, disturbed, guided>>
  BY DEF AgentStart, Executes, Announcements, history
<1>2. NoSnapshot \in Snapshot
  BY DEF NoSnapshot, Snapshot
<1>3. PICK task : task = Task
  OBVIOUS
<1>4. task \in Undisturbed => st[task].phase = "Running"
  BY <1>1, <1>3, EffectInHand DEF EffectFits
<1> QED BY <1>1, <1>2, <1>3, <1>4, RequestDecisionPreserves DEF AgentStart

(* The selected agent's snapshot of the task at work. *)
LEMMA OwnSnapshot ==
  ASSUME IInv, worker.pc = "effect"
  PROVE  Task \in Tasks /\ Own \in Snapshot
BY InHandCases DEF IInv, Types, Task, Own, EffectEntry

(* A turn after an answer. *)
LEMMA AgentObservesPreserves == IInv /\ AgentObserves => IInv'
<1> SUFFICES ASSUME IInv, AgentObserves PROVE IInv'
  OBVIOUS
<1>1. /\ worker.pc = "effect" /\ worker.item.type = "agent.resume"
      /\ worker.item.type \notin Announcements
      /\ UNCHANGED <<machine, runs, current, queues, typed, disturbed, guided>>
  BY DEF AgentObserves, Resumes, Executes, Announcements, history
<1>2. PICK s : s = Own
  OBVIOUS
<1>3. PICK task : task = Task
  OBVIOUS
<1>4. task \in Undisturbed => st[task].phase = "Running"
  BY <1>1, <1>3, EffectInHand DEF EffectFits
<1>5. s \in Snapshot /\ RequestDecision(s)
  BY <1>1, <1>2, OwnSnapshot DEF AgentObserves
<1> QED BY <1>1, <1>3, <1>4, <1>5, RequestDecisionPreserves

(* The agent acts on its model's decision. *)
LEMMA AgentDecidesPreserves == IInv /\ AgentDecides => IInv'
<1> SUFFICES ASSUME IInv, AgentDecides PROVE IInv'
  OBVIOUS
<1>1. /\ worker.pc = "effect" /\ worker.item.type = "agent.resume"
      /\ worker.item.type \notin Announcements
      /\ UNCHANGED <<machine, runs, current, queues, typed, disturbed, guided>>
      /\ st' = st /\ current' = current /\ current \in Agents
      /\ snap \in [Agents -> [Tasks -> Snapshot]]
  BY DEF AgentDecides, Resumes, Executes, Announcements, machine, IInv, Types
<1>2. PICK step \in 0 .. MaxTurns - 1 :
        Save([Own EXCEPT !.pendingModel = NoRef, !.stepIndex = TurnDone(step)])
  BY DEF AgentDecides
<1>3. PICK n : n = [[Own EXCEPT !.pendingModel = NoRef, !.stepIndex = TurnDone(step)]
                     EXCEPT !.saved = TRUE]
  OBVIOUS
<1>4. PICK task : task = Task
  OBVIOUS
<1>5. n \in Snapshot /\ n.saved /\ task \in Tasks
  <2>1. step + 1 \in Nat
    BY RunnerAssumption
  <2> QED BY <1>1, <1>3, <1>4, <2>1, OwnSnapshot DEF Snapshot, TurnDone
<1>6. snap' = [snap EXCEPT ![current][Task] = n] /\ snap'[current'][task] = n
  BY <1>1, <1>2, <1>3, <1>4, <1>5 DEF Save
<1>7. task \in Undisturbed => st[task].phase = "Running"
  BY <1>1, <1>4, EffectInHand DEF EffectFits
<1>8. PICK type, ref :
        /\ Produce(type, ref)
        /\ \/ /\ type \in {"agent.tool_requested", "agent.user_input_requested",
                          "agent.sub_agent_requested"}
              /\ ref \in {FreshRef, LlmRef}
           \/ type \in {"agent.completed", "agent.failed"} /\ ref = NoRef
  BY Zenon DEF AgentDecides
<1>9. /\ type \in ProducedTypes /\ ref \in Refs \cup {NoRef}
      /\ type \in {"agent.completed", "agent.failed"} => ref = NoRef
      /\ type \in TSM!RequestEvents => ref # NoRef
      /\ type # "agent.model_requested"
      /\ type \in TSM!RequestEvents \cup {"agent.completed", "agent.failed"}
  BY <1>8, FreshRefIsRef, RunnerAssumption DEF Produce, ProducedTypes, TSM!RequestEvents
<1>10. PICK e : e = MakeEvent(FreshId, type, ref, NoAgent)
  OBVIOUS
<1>11. e.type = type /\ e.ref = ref
  BY <1>10 DEF MakeEvent
<1>12. task \in Undisturbed => EventFits(task, e)' /\ SnapshotFits(task)'
  BY <1>1, <1>5, <1>6, <1>7, <1>9, <1>11 DEF EventFits, SnapshotFits, TSM!WaitingPhases
<1>13. Produce(type, ref)
  BY <1>8
<1> QED BY <1>1, <1>4, <1>5, <1>6, <1>9, <1>10, <1>12, <1>13, ExecutePreserves

(* The agent fails on an error or an unusable decision. *)
LEMMA AgentFailsPreserves == IInv /\ AgentFails => IInv'
<1> SUFFICES ASSUME IInv, AgentFails PROVE IInv'
  OBVIOUS
<1>1. /\ worker.pc = "effect" /\ worker.item.type = "agent.resume"
      /\ worker.item.type \notin Announcements
      /\ UNCHANGED <<machine, runs, current, queues, typed, disturbed, guided>>
      /\ st' = st /\ current' = current /\ current \in Agents
      /\ snap \in [Agents -> [Tasks -> Snapshot]]
      /\ Save([Own EXCEPT !.pendingModel = NoRef]) /\ Produce("agent.failed", NoRef)
  BY DEF AgentFails, Resumes, Executes, Announcements, machine, history, IInv, Types
<1>2. PICK n : n = [[Own EXCEPT !.pendingModel = NoRef] EXCEPT !.saved = TRUE]
  OBVIOUS
<1>3. PICK task : task = Task
  OBVIOUS
<1>4. n \in Snapshot /\ n.saved /\ task \in Tasks
  BY <1>1, <1>2, <1>3, OwnSnapshot DEF Snapshot
<1>5. snap' = [snap EXCEPT ![current][Task] = n] /\ snap'[current'][task] = n
  BY <1>1, <1>2, <1>3, <1>4 DEF Save
<1>6. task \in Undisturbed => st[task].phase = "Running"
  BY <1>1, <1>3, EffectInHand DEF EffectFits
<1>7. PICK e : e = MakeEvent(FreshId, "agent.failed", NoRef, NoAgent)
  OBVIOUS
<1>8. e.type = "agent.failed"
  BY <1>7 DEF MakeEvent
<1>9. task \in Undisturbed => EventFits(task, e)' /\ SnapshotFits(task)'
  BY <1>1, <1>4, <1>5, <1>6, <1>8 DEF EventFits, SnapshotFits, TSM!RequestEvents, TSM!WaitingPhases
<1>10. "agent.failed" \in ProducedTypes /\ Produce("agent.failed", NoRef)
  BY <1>1 DEF ProducedTypes
<1> QED BY <1>1, <1>3, <1>4, <1>5, <1>7, <1>9, <1>10, ExecutePreserves

(* The model and the tools answer the call they were given. *)
LEMMA CallAnswered ==
  ASSUME IInv, ModelAnswers \/ ToolAnswers
  PROVE  IInv'
<1>1. /\ worker.pc = "effect" /\ worker.item.type \in {"model.call", "tool.dispatch"}
      /\ worker.item.type \notin Announcements
      /\ UNCHANGED <<machine, runs, current, queues, typed, disturbed, guided>>
      /\ st' = st /\ snap' = snap /\ current' = current
  BY DEF ModelAnswers, ToolAnswers, Executes, Announcements, history, machine
<1>2. worker.item \in EffectEntry
  BY <1>1, InHandCases DEF IInv, Types
<1>3. PICK type, ref :
        /\ Produce(type, ref) /\ ref = worker.item.ref
        /\ \/ /\ worker.item.type = "model.call"
              /\ type \in {"model.response_received", "model.response_failed"}
           \/ /\ worker.item.type = "tool.dispatch"
              /\ type \in {"tool.completed", "tool.failed"}
  BY DEF ModelAnswers, ToolAnswers, Executes
<1>4. /\ type \in ProducedTypes /\ ref \in Refs \cup {NoRef}
      /\ type \notin {"agent.completed", "agent.failed"}
  BY <1>2, <1>3 DEF ProducedTypes, EffectEntry
<1>5. PICK task : task = Task
  OBVIOUS
<1>6. PICK e : e = MakeEvent(FreshId, type, ref, NoAgent)
  OBVIOUS
<1>7. e.type = type /\ e.ref = ref
  BY <1>6 DEF MakeEvent
<1>8. task \in Undisturbed => EventFits(task, e)' /\ SnapshotFits(task)'
  <2> SUFFICES ASSUME task \in Undisturbed
               PROVE  EventFits(task, e)' /\ SnapshotFits(task)'
    OBVIOUS
  <2>1. EffectFits(task, worker.item) /\ SnapshotFits(task)
    BY <1>1, <1>5, EffectInHand
  <2>2. EventFits(task, e)'
    BY <1>1, <1>3, <1>7, <2>1 DEF EffectFits, EventFits
  <2> QED BY <1>1, <2>1, <2>2 DEF SnapshotFits
<1>9. NoSnapshot \in Snapshot
  BY DEF NoSnapshot, Snapshot
<1>10. Produce(type, ref)
  BY <1>3
<1> QED BY <1>1, <1>4, <1>5, <1>6, <1>8, <1>9, <1>10, ExecutePreserves

(* A resume of a run nothing disturbed is not refused. *)
LEMMA ResumeTaken ==
  ASSUME IInv, AgentRefuses
  PROVE  Task \notin Undisturbed
<1>1. worker.pc = "effect" /\ worker.item.type = "agent.resume"
      /\ worker.item.type \notin Announcements
  BY DEF AgentRefuses, Executes, Announcements
<1>2. SUFFICES ASSUME Task \in Undisturbed PROVE FALSE
  OBVIOUS
<1>3. PICK task : task = Task
  OBVIOUS
<1>4. EffectFits(task, worker.item)
  BY <1>1, <1>2, <1>3, EffectInHand
<1> QED BY <1>1, <1>3, <1>4 DEF AgentRefuses, EffectFits, Own, AnswersPending

(* Announcements, questions, refusals and interruptions end with nothing in hand. *)
LEMMA ReleasePreserves ==
  ASSUME IInv, AgentRefuses \/ AskUser \/ Announce \/ Interrupt
  PROVE  IInv'
<1>1. CASE AgentRefuses
  <2>1. Task \notin Undisturbed'
    BY <1>1, ResumeTaken DEF AgentRefuses, history, Undisturbed
  <2> QED BY <1>1, <2>1, DropPreserves DEF AgentRefuses, Executes, IsIdle, history, Task
<1>2. CASE AskUser \/ Announce
  <2>1. ~Carries(worker.pc, worker.item)
    BY <1>2 DEF AskUser, Announce, Executes, Carries, Announcements
  <2> QED BY <1>2, <2>1, DropPreserves DEF AskUser, Announce, Executes, IsIdle, history
<1>3. CASE Interrupt
  <2>1. worker.item.task \notin Undisturbed'
    BY <1>3 DEF Interrupt, Undisturbed
  <2> QED BY <1>3, <2>1, DropPreserves DEF Interrupt
<1> QED BY <1>1, <1>2, <1>3

(* Popping moves the oldest entry of a task from the queue to the process. *)
LEMMA PopEventPreserves ==
  ASSUME IInv, IsIdle, NEW t, PopEvent(t),
         UNCHANGED <<machine, runs, snap, current, typed, history>>
  PROVE  IInv'
<1>1. PICK k \in DOMAIN events :
        /\ Hold("event", events[k]) /\ events' = RemoveAt(events, k) /\ effects' = effects
  BY DEF PopEvent
<1> DEFINE x == events[k]
<1>2. /\ P!IInv' /\ Types /\ st' = st /\ snap' = snap /\ current' = current
      /\ runs' = runs /\ guided' = guided /\ Undisturbed' = Undisturbed /\ typed' = typed
      /\ events \in Seq(EventEntry)
  BY MachineKept DEF IInv, machine, history, Undisturbed, Types
<1>3. /\ events' \in Seq(EventEntry)
      /\ DOMAIN events = 1 .. Len(events) /\ Len(events) \in Nat
      /\ DOMAIN events' = 1 .. Len(events) - 1
      /\ \A i \in 1 .. Len(events) - 1 : events'[i] = events[IF i < k THEN i ELSE i + 1]
  BY <1>1, <1>2, RemoveAtEntries
<1>4. x \in EventEntry /\ x \in ToSet(events)
  BY <1>2, ItemTypes DEF QueuedEvents, ToSet
<1>5. worker' = [pc |-> "event", item |-> x]
  BY <1>1 DEF Hold
<1> HIDE DEF x
<1>6. Types'
  BY <1>1, <1>2, <1>3, <1>4, <1>5 DEF Types, InHand
<1>7. ToSet(events') \subseteq ToSet(events)
  BY <1>3 DEF ToSet
<1>8. /\ HeldEvents = {} /\ HeldEffects = {} /\ HeldEvents' = {x} /\ HeldEffects' = {}
      /\ QueuedEvents' \subseteq QueuedEvents /\ QueuedEffects' = QueuedEffects
  BY <1>1, <1>4, <1>5, <1>7
     DEF IsIdle, HeldEvents, HeldEffects, QueuedEvents, QueuedEffects
<1>9. Submitted' /\ Saved'
  BY <1>2, <1>8 DEF IInv, Submitted, Saved
<1>10. DistinctIds'
  <2>1. DistinctIds
    BY DEF IInv
  <2>2. \A q \in QueuedEvents' : NotHandledYet(q)'
    BY <1>2, <1>8, <2>1 DEF DistinctIds, NotHandledYet
  <2>3. ASSUME NEW i \in DOMAIN events', NEW j \in DOMAIN events',
               events'[i].event.id = events'[j].event.id
        PROVE  i = j
    <3>1. (IF i < k THEN i ELSE i + 1) = (IF j < k THEN j ELSE j + 1)
      BY <1>3, <2>1, <2>3 DEF DistinctIds
    <3> QED BY <1>3, <3>1
  <2>4. ASSUME NEW i \in DOMAIN events' PROVE events'[i].event.id # x.event.id
    <3>1. (IF i < k THEN i ELSE i + 1) \in DOMAIN events /\ (IF i < k THEN i ELSE i + 1) # k
      BY <1>3
    <3> QED BY <1>3, <2>1, <3>1 DEF DistinctIds, x
  <2> QED BY <1>8, <2>2, <2>3, <2>4 DEF DistinctIds
<1>11. ASSUME NEW u PROVE Outstanding(u)' = Outstanding(u)
  <2>1. Held(u) = 0 /\ Held(u)' = IF x.task = u /\ Carries("event", x) THEN 1 ELSE 0
    BY <1>5 DEF Held, IsIdle, Carries
  <2>2. Cardinality(Places("event", events, u)) =
          Cardinality(Places("event", events', u)) + Held(u)'
    BY <1>1, <1>2, <2>1, PlacesRemove DEF x
  <2>3. /\ Cardinality(Places("event", events', u)) \in Nat
        /\ Cardinality(Places("effect", effects, u)) \in Nat
    BY <1>2, <1>3, PlacesFinite, OutstandingIsNat
  <2> QED BY <1>1, <2>1, <2>2, <2>3 DEF Outstanding
<1>12. ASSUME NEW u
       PROVE  /\ Alone(u) => Alone(u)'
              /\ Advances(u) => Advances(u)'
              /\ Fits(u) => Fits(u)'
  BY <1>2, <1>8, <1>11, TaskKept
<1> QED BY <1>2, <1>6, <1>9, <1>10, <1>12 DEF IInv

(* The same of an effect. *)
LEMMA PopEffectPreserves ==
  ASSUME IInv, IsIdle, NEW t, PopEffect(t),
         UNCHANGED <<machine, runs, snap, current, typed, history>>
  PROVE  IInv'
<1>1. PICK k \in DOMAIN effects :
        /\ Hold("effect", effects[k]) /\ effects' = RemoveAt(effects, k) /\ events' = events
  BY DEF PopEffect
<1> DEFINE x == effects[k]
<1>2. /\ P!IInv' /\ Types /\ st' = st /\ snap' = snap /\ current' = current
      /\ runs' = runs /\ guided' = guided /\ Undisturbed' = Undisturbed /\ typed' = typed
      /\ effects \in Seq(EffectEntry)
  BY MachineKept DEF IInv, machine, history, Undisturbed, Types
<1>3. /\ effects' \in Seq(EffectEntry)
      /\ DOMAIN effects = 1 .. Len(effects) /\ Len(effects) \in Nat
      /\ DOMAIN effects' = 1 .. Len(effects) - 1
      /\ \A i \in 1 .. Len(effects) - 1 : effects'[i] = effects[IF i < k THEN i ELSE i + 1]
  BY <1>1, <1>2, RemoveAtEntries
<1>4. x \in EffectEntry /\ x \in ToSet(effects)
  BY <1>2, ItemTypes DEF QueuedEffects, ToSet
<1>5. worker' = [pc |-> "effect", item |-> x]
  BY <1>1 DEF Hold
<1> HIDE DEF x
<1>6. Types'
  BY <1>1, <1>2, <1>3, <1>4, <1>5 DEF Types, InHand
<1>7. ToSet(effects') \subseteq ToSet(effects)
  BY <1>3 DEF ToSet
<1>8. /\ HeldEvents = {} /\ HeldEffects = {} /\ HeldEvents' = {} /\ HeldEffects' = {x}
      /\ QueuedEvents' = QueuedEvents /\ QueuedEffects' \subseteq QueuedEffects
  BY <1>1, <1>4, <1>5, <1>7
     DEF IsIdle, HeldEvents, HeldEffects, QueuedEvents, QueuedEffects
<1>9. Submitted' /\ Saved'
  BY <1>2, <1>8 DEF IInv, Submitted, Saved
<1>10. DistinctIds'
  BY <1>1, <1>2, <1>8 DEF IInv, DistinctIds, NotHandledYet
<1>11. ASSUME NEW u PROVE Outstanding(u)' = Outstanding(u)
  <2>1. Held(u) = 0 /\ Held(u)' = IF x.task = u /\ Carries("effect", x) THEN 1 ELSE 0
    BY <1>5 DEF Held, IsIdle, Carries
  <2>2. Cardinality(Places("effect", effects, u)) =
          Cardinality(Places("effect", effects', u)) + Held(u)'
    BY <1>1, <1>2, <2>1, PlacesRemove DEF x
  <2>3. /\ Cardinality(Places("effect", effects', u)) \in Nat
        /\ Cardinality(Places("event", events, u)) \in Nat
    BY <1>2, <1>3, PlacesFinite, OutstandingIsNat
  <2> QED BY <1>1, <2>1, <2>2, <2>3 DEF Outstanding
<1>12. ASSUME NEW u
       PROVE  /\ Alone(u) => Alone(u)'
              /\ Advances(u) => Advances(u)'
              /\ Fits(u) => Fits(u)'
  BY <1>2, <1>8, <1>11, TaskKept
<1> QED BY <1>2, <1>6, <1>9, <1>10, <1>12 DEF IInv

(* A queued item has left the process. *)
LEMMA EnqueuePreserves ==
  ASSUME IInv, EnqueueEvent \/ EnqueueEffect
  PROVE  IInv'
<1>1. /\ P!IInv' /\ Types /\ st' = st /\ snap' = snap /\ current' = current
      /\ runs' = runs /\ guided' = guided /\ Undisturbed' = Undisturbed /\ typed' = typed
      /\ worker' = Idle
  BY MachineKept
     DEF IInv, machine, history, Undisturbed, EnqueueEvent, EnqueueEffect, Release
<1>2. events \in Seq(EventEntry) /\ effects \in Seq(EffectEntry)
  BY <1>1 DEF Types
<1>3. HeldEvents' = {} /\ HeldEffects' = {} /\ \A u : Held(u)' = 0
  BY <1>1 DEF Idle, HeldEvents, HeldEffects, Held
<1>4. CASE EnqueueEvent
  <2> DEFINE x == worker.item
  <2>1. /\ worker.pc = "produced" /\ x \in EventEntry
        /\ events' = Append(events, x) /\ effects' = effects
    BY <1>1, <1>4, InHandCases DEF EnqueueEvent, Types
  <2> HIDE DEF x
  <2>2. /\ events' \in Seq(EventEntry) /\ DOMAIN events = 1 .. Len(events)
        /\ Len(events) \in Nat /\ DOMAIN events' = 1 .. Len(events) + 1
        /\ \A i \in 1 .. Len(events) : events'[i] = events[i]
        /\ events'[Len(events) + 1] = x
    BY <1>2, <2>1, AppendProperties, LenProperties
  <2>3. Types'
    BY <1>1, <2>1, <2>2 DEF Types, InHand
  <2>4. HeldEvents = {x} /\ HeldEffects = {}
    BY <2>1 DEF HeldEvents, HeldEffects, x
  <2>5. ToSet(events') \subseteq ToSet(events) \cup {x}
    BY <2>2 DEF ToSet
  <2>6. QueuedEvents' \subseteq QueuedEvents /\ QueuedEffects' \subseteq QueuedEffects
    BY <1>3, <2>1, <2>4, <2>5 DEF QueuedEvents, QueuedEffects
  <2>7. Submitted' /\ Saved'
    BY <1>1, <2>6 DEF IInv, Submitted, Saved
  <2>8. DistinctIds'
    <3>1. DistinctIds
      BY DEF IInv
    <3>2. \A q \in QueuedEvents' : NotHandledYet(q)'
      BY <1>1, <2>6, <3>1 DEF DistinctIds, NotHandledYet
    <3>3. \A i, j \in DOMAIN events' : events'[i].event.id = events'[j].event.id => i = j
      BY <2>2, <2>4, <3>1 DEF DistinctIds
    <3> QED BY <1>3, <3>2, <3>3 DEF DistinctIds
  <2>9. ASSUME NEW u PROVE Outstanding(u)' = Outstanding(u)
    <3>1. Held(u) = IF x.task = u /\ Carries("event", x) THEN 1 ELSE 0
      BY <2>1 DEF Held, Carries, x
    <3>2. Cardinality(Places("event", events', u)) =
            Cardinality(Places("event", events, u)) + Held(u)
      BY <1>2, <2>1, <3>1, PlacesAppend
    <3> QED BY <1>1, <1>3, <2>1, <3>2, OutstandingIsNat DEF Outstanding
  <2>10. ASSUME NEW u
         PROVE  /\ Alone(u) => Alone(u)'
                /\ Advances(u) => Advances(u)'
                /\ Fits(u) => Fits(u)'
    BY <1>1, <2>6, <2>9, TaskKept
  <2> QED BY <1>1, <2>3, <2>7, <2>8, <2>10 DEF IInv
<1>5. CASE EnqueueEffect
  <2> DEFINE x == worker.item
  <2>1. /\ worker.pc = "enqueue" /\ x \in EffectEntry
        /\ effects' = Append(effects, x) /\ events' = events
    BY <1>1, <1>5, InHandCases DEF EnqueueEffect, Types
  <2> HIDE DEF x
  <2>2. /\ effects' \in Seq(EffectEntry) /\ DOMAIN effects = 1 .. Len(effects)
        /\ Len(effects) \in Nat /\ DOMAIN effects' = 1 .. Len(effects) + 1
        /\ \A i \in 1 .. Len(effects) : effects'[i] = effects[i]
        /\ effects'[Len(effects) + 1] = x
    BY <1>2, <2>1, AppendProperties, LenProperties
  <2>3. Types'
    BY <1>1, <2>1, <2>2 DEF Types, InHand
  <2>4. HeldEvents = {} /\ HeldEffects = {x}
    BY <2>1 DEF HeldEvents, HeldEffects, x
  <2>5. ToSet(effects') \subseteq ToSet(effects) \cup {x}
    BY <2>2 DEF ToSet
  <2>6. QueuedEvents' \subseteq QueuedEvents /\ QueuedEffects' \subseteq QueuedEffects
    BY <1>3, <2>1, <2>4, <2>5 DEF QueuedEvents, QueuedEffects
  <2>7. Submitted' /\ Saved'
    BY <1>1, <2>6 DEF IInv, Submitted, Saved
  <2>8. DistinctIds'
    BY <1>1, <1>3, <2>1, <2>6 DEF IInv, DistinctIds, NotHandledYet
  <2>9. ASSUME NEW u PROVE Outstanding(u)' = Outstanding(u)
    <3>1. Held(u) = IF x.task = u /\ Carries("effect", x) THEN 1 ELSE 0
      BY <2>1 DEF Held, Carries, x
    <3>2. Cardinality(Places("effect", effects', u)) =
            Cardinality(Places("effect", effects, u)) + Held(u)
      BY <1>2, <2>1, <3>1, PlacesAppend
    <3> QED BY <1>1, <1>3, <2>1, <3>2, OutstandingIsNat DEF Outstanding
  <2>10. ASSUME NEW u
         PROVE  /\ Alone(u) => Alone(u)'
                /\ Advances(u) => Advances(u)'
                /\ Fits(u) => Fits(u)'
    BY <1>1, <2>6, <2>9, TaskKept
  <2> QED BY <1>1, <2>3, <2>7, <2>8, <2>10 DEF IInv
<1> QED BY <1>4, <1>5
-----------------------------------------------------------------------------
(* Submitted runs and input *)

(* A task that was not submitted has nothing under way. *)
LEMMA NotSubmitted ==
  ASSUME IInv, NEW t \in Tasks \ runs
  PROVE  /\ Outstanding(t) = 0 /\ st[t].phase = "Created"
         /\ \A q \in QueuedEvents \cup QueuedEffects : q.task # t
<1>1. /\ Types /\ st[t].phase = "Created"
      /\ \A q \in QueuedEvents \cup QueuedEffects : q.task # t
  BY DEF IInv, Submitted
<1>2. Places("event", events, t) = {} /\ Places("effect", effects, t) = {}
  BY <1>1 DEF Places, QueuedEvents, QueuedEffects, ToSet
<1>3. Held(t) = 0
  BY <1>1, InHandCases
     DEF Types, Held, QueuedEvents, QueuedEffects, HeldEvents, HeldEffects
<1> QED BY <1>1, <1>2, <1>3, FS_EmptySet DEF Outstanding

(* An event with a fresh id is added to the queue. *)
LEMMA AppendEvent ==
  ASSUME IInv, IdsLeft, NEW x \in EventEntry, x.event.id = FreshId,
         events' = Append(events, x), UNCHANGED <<st, effects, worker>>
  PROVE  /\ events' \in Seq(EventEntry)
         /\ QueuedEvents' = QueuedEvents \cup {x} /\ QueuedEffects' = QueuedEffects
         /\ DistinctIds'
         /\ \A u : Outstanding(u)' =
              Outstanding(u) + (IF x.task = u /\ Carries("event", x) THEN 1 ELSE 0)
<1>1. Types /\ DistinctIds /\ events \in Seq(EventEntry)
  BY DEF IInv, Types
<1>2. /\ events' \in Seq(EventEntry) /\ DOMAIN events = 1 .. Len(events)
      /\ Len(events) \in Nat /\ DOMAIN events' = 1 .. Len(events) + 1
      /\ \A i \in 1 .. Len(events) : events'[i] = events[i]
      /\ events'[Len(events) + 1] = x
  BY <1>1, AppendProperties, LenProperties
<1>3. ToSet(events') = ToSet(events) \cup {x}
  BY <1>2 DEF ToSet
<1>4. HeldEvents' = HeldEvents /\ HeldEffects' = HeldEffects
  BY DEF HeldEvents, HeldEffects
<1>5. QueuedEvents' = QueuedEvents \cup {x} /\ QueuedEffects' = QueuedEffects
  BY <1>3, <1>4 DEF QueuedEvents, QueuedEffects
<1>6. DistinctIds'
  <2>1. /\ \A q \in QueuedEvents : q.event.id # x.event.id
        /\ NotHandledYet(x)
    BY FreshIdIsNew DEF NotHandledYet
  <2>2. \A q \in QueuedEvents' : NotHandledYet(q)'
    BY <1>1, <1>5, <2>1 DEF DistinctIds, NotHandledYet
  <2>3. \A i \in DOMAIN events : events[i].event.id # x.event.id
    BY <2>1 DEF QueuedEvents, ToSet
  <2>4. \A i, j \in DOMAIN events' : events'[i].event.id = events'[j].event.id => i = j
    BY <1>1, <1>2, <2>3 DEF DistinctIds
  <2>5. \A q \in HeldEvents : x.event.id # q.event.id
    BY <2>1 DEF QueuedEvents
  <2>6. \A q \in HeldEvents' : \A i \in DOMAIN events' : events'[i].event.id # q.event.id
    BY <1>1, <1>2, <1>4, <2>5 DEF DistinctIds
  <2> QED BY <2>2, <2>4, <2>6 DEF DistinctIds
<1>7. ASSUME NEW u
      PROVE  Outstanding(u)' =
               Outstanding(u) + (IF x.task = u /\ Carries("event", x) THEN 1 ELSE 0)
  <2>1. Cardinality(Places("event", events', u)) =
          Cardinality(Places("event", events, u))
            + (IF x.task = u /\ Carries("event", x) THEN 1 ELSE 0)
    BY <1>1, PlacesAppend
  <2>2. Held(u)' = Held(u)
    BY DEF Held
  <2> QED BY <1>1, <2>1, <2>2, OutstandingIsNat DEF Outstanding
<1> QED BY <1>2, <1>5, <1>6, <1>7

(* A submitted run has its first event under way. *)
LEMMA SubmitPreserves ==
  ASSUME IInv, NEW t \in Tasks, NEW a \in Agents, Submit(t, a)
  PROVE  IInv'
<1>1. PICK e : e = MakeEvent(FreshId, "task.start_requested", NoRef, a)
  OBVIOUS
<1> DEFINE x == [task |-> t, event |-> e]
<1>2. /\ P!IInv' /\ Types /\ st' = st /\ snap' = snap /\ current' = current
      /\ guided' = guided /\ disturbed' = disturbed /\ typed' = typed /\ worker' = worker
      /\ effects' = effects /\ events' = Append(events, x)
      /\ IdsLeft /\ t \notin runs /\ runs' = runs \cup {t}
  BY <1>1, MachineKept DEF IInv, machine, history, Submit
<1>3. /\ e \in { f \in TSM!Event : f.wellFormed } /\ e.id = FreshId
      /\ e.type = "task.start_requested"
  BY <1>1, <1>2, FreshIdIsNew, MadeEvents
     DEF TSM!EventTypes, TSM!HandledEvents, TSM!CreationEvents, TSM!RequestEvents,
         TSM!AnswerEvents
<1>4. /\ x \in EventEntry /\ x.event = e /\ x.task = t /\ x.event.id = FreshId
      /\ Carries("event", x)
  BY <1>3 DEF EventEntry, Carries, IsInput
<1> HIDE DEF x
<1>5. /\ events' \in Seq(EventEntry)
      /\ QueuedEvents' = QueuedEvents \cup {x} /\ QueuedEffects' = QueuedEffects
      /\ DistinctIds'
      /\ \A u : Outstanding(u)' =
           Outstanding(u) + (IF x.task = u /\ Carries("event", x) THEN 1 ELSE 0)
  BY <1>2, <1>4, AppendEvent
<1>6. Types'
  BY <1>2, <1>5 DEF Types
<1>7. Submitted' /\ Saved'
  BY <1>2, <1>4, <1>5 DEF IInv, Submitted, Saved
<1>8. ASSUME NEW u, u # t
      PROVE  /\ Alone(u) => Alone(u)'
             /\ Advances(u) => Advances(u)'
             /\ Fits(u) => Fits(u)'
  <2>1. Outstanding(u)' = Outstanding(u)
    BY <1>2, <1>4, <1>5, <1>8, OutstandingIsNat
  <2> QED BY <1>2, <1>4, <1>5, <1>8, <2>1, TaskKept
<1>9. /\ Outstanding(t)' = 1 /\ st'[t].phase = "Created"
      /\ \A q \in QueuedEvents \cup QueuedEffects : q.task # t
  BY <1>2, <1>4, <1>5, NotSubmitted
<1>10. Alone(t)' /\ Advances(t)'
  BY <1>9 DEF Alone, Advances, AsksUser, Over, TSM!IsTerminal, TSM!TerminalPhases
<1>11. Fits(t)'
  <2>1. EventFits(t, e)' /\ SnapshotFits(t)'
    BY <1>3, <1>9 DEF EventFits, SnapshotFits, TSM!WaitingPhases
  <2> QED BY <1>4, <1>5, <1>9, <2>1 DEF Fits
<1>12. ASSUME NEW u \in (runs \ guided)' PROVE Alone(u)'
  BY <1>2, <1>8, <1>10 DEF IInv
<1>13. ASSUME NEW u \in Undisturbed' PROVE (Advances(u) /\ Fits(u))'
  BY <1>2, <1>8, <1>10, <1>11 DEF IInv, Undisturbed
<1> QED BY <1>2, <1>5, <1>6, <1>7, <1>12, <1>13 DEF IInv

(* A run whose process died before it queued the first event. *)
LEMMA SubmitDiesPreserves ==
  ASSUME IInv, NEW t \in Tasks, SubmitDies(t)
  PROVE  IInv'
<1>1. /\ P!IInv' /\ Types /\ st' = st /\ snap' = snap /\ current' = current
      /\ guided' = guided /\ disturbed' = disturbed \cup {t} /\ typed' = typed
      /\ worker' = worker /\ effects' = effects /\ events' = events
      /\ t \notin runs /\ runs' = runs \cup {t}
  BY MachineKept DEF IInv, machine, history, queues, SubmitDies
<1>2. /\ HeldEvents' = HeldEvents /\ HeldEffects' = HeldEffects
      /\ QueuedEvents' = QueuedEvents /\ QueuedEffects' = QueuedEffects
  BY <1>1 DEF HeldEvents, HeldEffects, QueuedEvents, QueuedEffects
<1>3. Types' /\ Submitted' /\ Saved' /\ DistinctIds'
  BY <1>1, <1>2 DEF IInv, Types, Submitted, Saved, DistinctIds, NotHandledYet
<1>4. ASSUME NEW u PROVE Outstanding(u)' = Outstanding(u)
  BY <1>1 DEF Outstanding, Held
<1>5. ASSUME NEW u
      PROVE  /\ Alone(u) => Alone(u)'
             /\ Advances(u) => Advances(u)'
             /\ Fits(u) => Fits(u)'
  BY <1>1, <1>2, <1>4, TaskKept
<1>6. Alone(t)
  BY <1>1, NotSubmitted DEF Alone
<1> QED BY <1>1, <1>3, <1>5, <1>6 DEF IInv, Undisturbed

(* Reading the pending request changes nothing under way. *)
LEMMA ReadRequestPreserves ==
  ASSUME IInv, NEW t \in Tasks, ReadRequest(t)
  PROVE  IInv'
<1>1. /\ P!IInv /\ P!IInv' /\ Types /\ st' = st /\ snap' = snap /\ current' = current
      /\ guided' = guided /\ disturbed' = disturbed /\ runs' = runs
      /\ worker' = worker /\ effects' = effects /\ events' = events
      /\ t \in runs /\ IdsLeft
  BY MachineKept DEF IInv, machine, history, queues, ReadRequest
<1>2. PICK ref : /\ ref \in {st[t].pendingUserInput, FreshRef}
                 /\ typed' = typed \cup {[task |-> t, ref |-> ref]}
  BY DEF ReadRequest
<1>3. ref \in Refs \cup {NoRef}
  <2>1. st[t].pendingUserInput \in Refs \cup {NoRef}
    BY <1>1 DEF P!IInv, P!Good, P!TaskState
  <2> QED BY <1>1, <1>2, <2>1, FreshRefIsRef
<1>4. /\ HeldEvents' = HeldEvents /\ HeldEffects' = HeldEffects
      /\ QueuedEvents' = QueuedEvents /\ QueuedEffects' = QueuedEffects
  BY <1>1 DEF HeldEvents, HeldEffects, QueuedEvents, QueuedEffects
<1>5. typed' \subseteq [task : Tasks, ref : Refs \cup {NoRef}]
  BY <1>1, <1>2, <1>3 DEF Types
<1>6. Types' /\ Submitted' /\ Saved' /\ DistinctIds'
  BY <1>1, <1>2, <1>4, <1>5 DEF IInv, Types, Submitted, Saved, DistinctIds, NotHandledYet
<1>7. ASSUME NEW u PROVE Outstanding(u)' = Outstanding(u)
  BY <1>1 DEF Outstanding, Held
<1>8. ASSUME NEW u
      PROVE  /\ Alone(u) => Alone(u)'
             /\ Advances(u) => Advances(u)'
             /\ Fits(u) => Fits(u)'
  BY <1>1, <1>4, <1>7, TaskKept
<1> QED BY <1>1, <1>6, <1>8 DEF IInv, Undisturbed

(* Input in the queue carries nothing on until it is accepted. *)
LEMMA QueueInputPreserves ==
  ASSUME IInv, NEW u \in typed, QueueInput(u)
  PROVE  IInv'
<1>1. PICK e : e = MakeEvent(FreshId, "user_input.received", u.ref, NoAgent)
  OBVIOUS
<1> DEFINE x == [task |-> u.task, event |-> e]
<1>2. /\ P!IInv' /\ Types /\ st' = st /\ snap' = snap /\ current' = current
      /\ guided' = guided /\ disturbed' = disturbed /\ runs' = runs /\ worker' = worker
      /\ effects' = effects /\ events' = Append(events, x)
      /\ IdsLeft /\ typed' \subseteq typed /\ Undisturbed' = Undisturbed
  BY <1>1, MachineKept DEF IInv, machine, history, QueueInput, Undisturbed
<1>3. u.task \in Tasks /\ u.ref \in Refs \cup {NoRef} /\ u.task \in runs
  BY <1>2 DEF Types, IInv, Submitted
<1>4. /\ e \in { f \in TSM!Event : f.wellFormed } /\ e.id = FreshId
      /\ e.type = "user_input.received"
  BY <1>1, <1>2, <1>3, FreshIdIsNew, MadeEvents
     DEF TSM!EventTypes, TSM!HandledEvents, TSM!CreationEvents, TSM!RequestEvents,
         TSM!AnswerEvents
<1>5. /\ x \in EventEntry /\ x.task = u.task /\ x.event.id = FreshId /\ ~Carries("event", x)
  BY <1>3, <1>4 DEF EventEntry, Carries, IsInput
<1> HIDE DEF x
<1>6. /\ events' \in Seq(EventEntry)
      /\ QueuedEvents' = QueuedEvents \cup {x} /\ QueuedEffects' = QueuedEffects
      /\ DistinctIds'
      /\ \A t : Outstanding(t)' =
           Outstanding(t) + (IF x.task = t /\ Carries("event", x) THEN 1 ELSE 0)
  BY <1>2, <1>5, AppendEvent
<1>7. Types'
  BY <1>2, <1>6 DEF Types
<1>8. Submitted' /\ Saved'
  BY <1>2, <1>3, <1>5, <1>6 DEF IInv, Submitted, Saved
<1>9. ASSUME NEW t
      PROVE  /\ Alone(t) => Alone(t)'
             /\ Advances(t) => Advances(t)'
             /\ Fits(t) => Fits(t)'
  <2>1. Outstanding(t)' = Outstanding(t)
    BY <1>2, <1>5, <1>6, OutstandingIsNat
  <2> QED BY <1>2, <1>5, <1>6, <2>1, TaskKept
<1> QED BY <1>2, <1>6, <1>7, <1>8, <1>9 DEF IInv

(* Selecting another agent leaves alone the runs whose agent has saved nothing yet. *)
LEMMA SelectAgentPreserves ==
  ASSUME IInv, NEW a \in Agents, SelectAgent(a)
  PROVE  IInv'
<1>1. /\ P!IInv' /\ Types /\ st' = st /\ snap' = snap /\ current' = a
      /\ guided' = guided /\ runs' = runs /\ typed' = typed
      /\ worker' = worker /\ effects' = effects /\ events' = events
      /\ disturbed' = disturbed \cup { t \in Tasks : Live(t) /\ snap[current][t].saved }
      /\ worker.pc = "idle"
  BY MachineKept DEF IInv, machine, queues, SelectAgent, IsIdle
<1>2. /\ HeldEvents' = HeldEvents /\ HeldEffects' = HeldEffects
      /\ HeldEvents = {} /\ HeldEffects = {}
      /\ QueuedEvents' = QueuedEvents /\ QueuedEffects' = QueuedEffects
      /\ QueuedEvents = ToSet(events) /\ QueuedEffects = ToSet(effects)
  BY <1>1 DEF HeldEvents, HeldEffects, QueuedEvents, QueuedEffects
<1>3. Types' /\ Submitted' /\ Saved' /\ DistinctIds'
  BY <1>1, <1>2 DEF IInv, Types, Submitted, Saved, DistinctIds, NotHandledYet
<1>4. ASSUME NEW u PROVE Outstanding(u)' = Outstanding(u)
  BY <1>1 DEF Outstanding, Held
<1>5. ASSUME NEW u \in (runs \ guided)' PROVE Alone(u)'
  BY <1>1, <1>4 DEF IInv, Alone, AsksUser
<1>6. ASSUME NEW t \in Undisturbed' PROVE (Advances(t) /\ Fits(t))'
  <2>1. /\ t \in Undisturbed /\ Advances(t) /\ Fits(t)
        /\ Over(t) \/ ~snap[current][t].saved
    BY <1>1 DEF Undisturbed, IInv, Live, Types
  <2>2. Advances(t)'
    BY <1>1, <1>4, <2>1 DEF Advances, AsksUser, Over, TSM!IsTerminal, TSM!TerminalPhases
  <2>3. CASE Over(t)
    <3>1. Outstanding(t) <= Held(t)
      BY <1>1, <2>1, <2>3, OutstandingIsNat DEF Advances, Held
    <3>2. /\ \A q \in ToSet(events) : ~(q.task = t /\ Carries("event", q))
          /\ \A q \in ToSet(effects) : ~(q.task = t /\ Carries("effect", q))
      BY <1>1, <3>1, OnlyItem
    <3>3. SnapshotFits(t)'
      BY <1>1, <2>3
         DEF SnapshotFits, Over, TSM!IsTerminal, TSM!TerminalPhases, TSM!WaitingPhases
    <3> QED BY <1>2, <2>2, <3>2, <3>3 DEF Fits, Carries
  <2>4. CASE ~snap[current][t].saved
    <3>1. st[t].phase \notin TSM!WaitingPhases
      BY <2>1, <2>4 DEF Fits, SnapshotFits
    <3>2. SnapshotFits(t)'
      BY <1>1, <3>1 DEF SnapshotFits, TSM!WaitingPhases
    <3>3. \A e : EventFits(t, e) => EventFits(t, e)'
      BY <1>1, <2>4, <3>1 DEF EventFits, TSM!WaitingPhases
    <3>4. \A q : EffectFits(t, q) => EffectFits(t, q)'
      BY <1>1, <2>4, <3>1 DEF EffectFits, TSM!WaitingPhases
    <3>5. Fits(t)'
      BY <1>2, <2>1, <3>2, <3>3, <3>4 DEF Fits, Carries
    <3> QED BY <2>2, <3>5
  <2> QED BY <2>1, <2>3, <2>4
<1> QED BY <1>1, <1>3, <1>5, <1>6 DEF IInv
-----------------------------------------------------------------------------
(* Publishing an event to the state machine *)

(* An event that fits a run is one its state machine accepts. *)
LEMMA FittingIsAccepted ==
  ASSUME P!IInv, Saved, NEW t \in Tasks, NEW e \in TSM!Event, e.wellFormed, EventFits(t, e)
  PROVE  P!Accepts(st[t], e)
<1>1. P!PendingOK(st[t]) /\ (st[t].phase # "Created" => st[t].saved)
  BY DEF P!IInv, P!Good, Saved
<1>2. e.ref = NoRef \/ e.ref # NoRef
  OBVIOUS
<1> QED BY <1>1, <1>2
  DEF EventFits, P!Accepts, P!PendingOK, P!MatchesPending, P!CreationEvents, P!RequestEvents,
      TSM!RequestEvents, P!FlowEvents

(* What an event in hand does to the state of its task. *)
LEMMA PublishedEvent ==
  ASSUME IInv, Publish, NEW t, t = worker.item.task, NEW e, e = worker.item.event
  PROVE  /\ t \in Tasks /\ e \in TSM!Event /\ e.wellFormed /\ st[t].lastEventID # e.id
         /\ P!IInv'
         /\ \A u \in Tasks : u # t => st'[u] = st[u]
         /\ \/ /\ ~P!Accepts(st[t], e) /\ st' = st /\ out'.effect = TSM!NoEffect
            \/ /\ P!Accepts(st[t], e)
               /\ st'[t].saved /\ st'[t].lastEventID = e.id
               /\ out'.verdict = "handled"
               /\ out'.effect \in P!Effect \cup {P!NoEffect}
               /\ P!OutcomeOK(e, st'[t], out'.effect)
               /\ P!EffectOK(st'[t], out'.effect)
               /\ st'[t].phase \in P!Phases
<1>1. /\ worker.pc = "event" /\ worker.item \in EventEntry
      /\ TSM!HandleEvent(t, e) /\ P!IInv
  BY InHandCases DEF Publish, IInv, Types
<1>2. t \in Tasks /\ e \in TSM!Event /\ e.wellFormed
  BY <1>1 DEF EventEntry
<1>3. st[t].lastEventID # e.id
  BY <1>1, <1>2 DEF IInv, DistinctIds, NotHandledYet, QueuedEvents, HeldEvents
<1>4. P!IInv'
  BY <1>1, <1>2, MachineStep
<1>5. CASE P!RejectEvent(t, e) /\ ~P!Accepts(st[t], e)
  BY <1>2, <1>3, <1>4, <1>5, SameTypes DEF P!RejectEvent
<1>6. CASE P!Handler(t, e) /\ P!Accepts(st[t], e)
  <2>1. /\ \A u \in Tasks : u # t => st'[u] = st[u]
        /\ st'[t].saved /\ st'[t].lastEventID = e.id
        /\ out'.verdict = "handled" /\ out'.effect = handled'[t].effect
        /\ P!OutcomeOK(e, st'[t], out'.effect)
    BY <1>1, <1>2, <1>6, SameTypes, Names, P!HandlerOutcome
  <2>2. P!EffectOK(st'[t], handled'[t].effect)
        /\ st'[t].phase \in P!Phases /\ handled'[t].effect \in P!Effect \cup {P!NoEffect}
    BY <1>2, <1>4 DEF P!IInv, P!Good, P!TaskState, P!History
  <2> QED BY <1>2, <1>3, <1>4, <1>6, <2>1, <2>2
<1> QED BY <1>1, <1>2, <1>3, <1>5, <1>6, MachineCases

(* The queue of effects gets what the machine returned, if anything. *)
LEMMA PublishedHold ==
  ASSUME IInv, Publish, NEW t, t = worker.item.task, NEW e, e = worker.item.event,
         NEW x, x = [task |-> t, type |-> out'.effect.type, ref |-> out'.effect.ref,
                     on |-> e.type]
  PROVE  \/ /\ out'.effect # TSM!NoEffect /\ HasExecutor(out'.effect)
            /\ worker' = [pc |-> "enqueue", item |-> x] /\ x \in EffectEntry
         \/ /\ out'.effect = TSM!NoEffect \/ ~HasExecutor(out'.effect)
            /\ worker' = Idle
<1>1. CASE out'.effect # TSM!NoEffect /\ HasExecutor(out'.effect)
  <2>1. worker' = [pc |-> "enqueue", item |-> x]
    BY <1>1 DEF Publish, Hold
  <2>2. t \in Tasks /\ e \in TSM!Event /\ out'.effect \in P!Effect
    BY <1>1, PublishedEvent, SameTypes
  <2>3. e.type \in TSM!EventTypes
    BY <2>2 DEF TSM!Event, TSM!AnyEvent
  <2>4. x \in EffectEntry
    BY <2>2, <2>3, SameTypes DEF EffectEntry, P!Effect
  <2> QED BY <1>1, <2>1, <2>4
<1>2. CASE ~(out'.effect # TSM!NoEffect /\ HasExecutor(out'.effect))
  BY <1>2 DEF Publish, Release
<1> QED BY <1>1, <1>2

(* The effects of an accepted event that fits the run drive it on. *)
LEMMA AcceptedFits ==
  ASSUME IInv, NEW t \in Undisturbed, NEW e,
         EventFits(t, e) \/ (AsksUser(t) /\ e.type = "user_input.received"),
         snap' = snap, current' = current,
         P!OutcomeOK(e, st'[t], out'.effect), P!EffectOK(st'[t], out'.effect),
         st'[t].phase \in P!Phases, HasExecutor(out'.effect),
         NEW x, x = [task |-> t, type |-> out'.effect.type, ref |-> out'.effect.ref,
                     on |-> e.type]
  PROVE  /\ SnapshotFits(t)'
         /\ \/ /\ Over(t)' \/ AsksUser(t)'
               /\ out'.effect.type \in Announcements
            \/ /\ ~(Over(t)' \/ AsksUser(t)') /\ out'.effect.type \notin Announcements
               /\ out'.effect # TSM!NoEffect /\ EffectFits(t, x)'
<1>1. SnapshotFits(t)
  BY DEF IInv, Fits
<1>2. st[t].phase # "Created" /\ st'[t].phase = "Running" /\ out'.effect.type = "agent.resume"
        => snap[current][t].saved
  BY <1>1 DEF EventFits, SnapshotFits, AsksUser, TSM!WaitingPhases
<1>3. st[t].phase = "Created" => e.type = "task.start_requested"
  BY DEF EventFits, AsksUser
<1>4. SnapshotFits(t)'
  <2>1. st'[t].phase \in TSM!WaitingPhases => e.type \in TSM!RequestEvents
    BY SameTypes DEF P!OutcomeOK
  <2>2. e.type \in TSM!RequestEvents => EventFits(t, e) /\ st[t].phase = "Running"
    BY DEF TSM!RequestEvents, EventFits
  <2>3. st'[t].phase \in TSM!WaitingPhases => snap[current][t].saved
    BY <2>1, <2>2 DEF EventFits
  <2>4. st'[t].phase = "WaitingModel" => snap[current][t].pendingModel = st'[t].pendingModel
    BY <2>2 DEF P!OutcomeOK, EventFits, TSM!RequestEvents
  <2> QED BY <2>3, <2>4 DEF SnapshotFits
<1>5. x.type = out'.effect.type /\ x.ref = out'.effect.ref /\ x.on = e.type
  OBVIOUS
<1> USE DEF Over, AsksUser, TSM!IsTerminal, TSM!TerminalPhases, Announcements, P!EffectOK,
            P!MakeEffect, TSM!NoEffect
<1>6. CASE st'[t].phase = "Created"
  BY <1>6 DEF P!OutcomeOK, EventFits, TSM!RequestEvents
<1>7. CASE st'[t].phase = "Running"
  <2>1. out'.effect.type \in {"agent.start", "agent.resume"}
    BY <1>7
  <2>2. CASE out'.effect.type = "agent.start"
    BY <1>4, <1>5, <1>7, <2>2 DEF EffectFits
  <2>3. CASE out'.effect.type = "agent.resume"
    <3>1. st[t].phase # "Created" /\ snap[current][t].saved
      BY <1>2, <1>3, <1>7, <2>3 DEF P!OutcomeOK
    <3>2. out'.effect.ref = e.ref
      BY <2>3 DEF P!OutcomeOK
    <3>3. e.type = "model.response_received" => e.ref = snap[current][t].pendingModel
      BY <1>1 DEF EventFits, SnapshotFits, TSM!RequestEvents
    <3>4. EffectFits(t, x)'
      BY <1>5, <1>7, <2>3, <3>1, <3>2, <3>3 DEF EffectFits
    <3> QED BY <1>4, <1>7, <2>3, <3>4
  <2> QED BY <2>1, <2>2, <2>3
<1>8. CASE st'[t].phase \in {"WaitingModel", "WaitingTool"}
  BY <1>4, <1>5, <1>8 DEF EffectFits
<1>9. CASE st'[t].phase = "WaitingSubAgent"
  BY <1>9 DEF HasExecutor
<1>10. CASE st'[t].phase \in {"WaitingUserInput", "Completed", "Failed", "Cancelled"}
  BY <1>4, <1>10
<1> QED BY <1>6, <1>7, <1>8, <1>9, <1>10
     DEF P!Phases, P!WaitingPhases, P!TerminalPhases

(* A run takes an input it did not ask for only as guidance. *)
LEMMA AcceptedAlone ==
  ASSUME IInv, Publish, NEW t, t = worker.item.task, NEW e, e = worker.item.event,
         P!Accepts(st[t], e), t \in (runs \ guided)'
  PROVE  /\ Outstanding(t) <= Held(t)
         /\ IsInput(worker.item) => AsksUser(t)
<1>1. t \in runs \ guided /\ Alone(t) /\ Types /\ worker.pc = "event"
  BY DEF IInv, Publish
<1>2. CASE IsInput(worker.item)
  <2>1. st[t].phase # "Running"
    BY <1>2 DEF Publish
  <2>2. AsksUser(t)
    BY <1>2, <2>1
       DEF IsInput, AsksUser, P!Accepts, P!CreationEvents, P!RequestEvents, P!FlowEvents
  <2>3. Outstanding(t) = 0
    BY <1>1, <2>2 DEF Alone
  <2> QED BY <1>1, <2>2, <2>3, OutstandingIsNat
<1>3. CASE ~IsInput(worker.item)
  <2>1. Held(t) = 1
    BY <1>1, <1>3 DEF Held, Carries
  <2> QED BY <1>1, <1>3, <2>1 DEF Alone
<1> QED BY <1>2, <1>3

(* Publishing moves the run on by one item: an event taken, at most one effect held. *)
LEMMA PublishPreserves == IInv /\ Publish => IInv'
<1> SUFFICES ASSUME IInv, Publish PROVE IInv'
  OBVIOUS
<1>1. PICK t : t = worker.item.task
  OBVIOUS
<1>2. PICK e : e = worker.item.event
  OBVIOUS
<1>3. PICK x : x = [task |-> t, type |-> out'.effect.type, ref |-> out'.effect.ref,
                    on |-> e.type]
  OBVIOUS
<1>4. /\ worker.pc = "event" /\ worker.item \in EventEntry /\ Types
      /\ runs' = runs /\ snap' = snap /\ current' = current /\ events' = events
      /\ effects' = effects /\ typed' = typed
      /\ disturbed \subseteq disturbed' /\ guided \subseteq guided'
      /\ ~HasExecutor(out'.effect) => t \in disturbed'
  BY <1>1, InHandCases DEF IInv, Types, Publish, queues
<1>5. /\ t \in Tasks /\ e \in TSM!Event /\ e.wellFormed /\ P!IInv'
      /\ \A u \in Tasks : u # t => st'[u] = st[u]
  BY <1>1, <1>2, PublishedEvent
<1> DEFINE Rejected == ~P!Accepts(st[t], e) /\ st' = st /\ out'.effect = TSM!NoEffect
           Accepted == /\ P!Accepts(st[t], e)
                       /\ st'[t].saved /\ st'[t].lastEventID = e.id
                       /\ P!OutcomeOK(e, st'[t], out'.effect)
                       /\ P!EffectOK(st'[t], out'.effect)
                       /\ st'[t].phase \in P!Phases
<1>6. Rejected \/ Accepted
  BY <1>1, <1>2, PublishedEvent, Zenon
<1>7. \/ /\ out'.effect # TSM!NoEffect /\ HasExecutor(out'.effect)
         /\ worker' = [pc |-> "enqueue", item |-> x] /\ x \in EffectEntry
      \/ /\ out'.effect = TSM!NoEffect \/ ~HasExecutor(out'.effect)
         /\ worker' = Idle
  BY <1>1, <1>2, <1>3, PublishedHold, Zenon
<1> HIDE DEF Rejected, Accepted
<1>8. Types'
  BY <1>4, <1>7 DEF Types, InHand
<1>9. /\ HeldEvents = {worker.item} /\ HeldEvents' = {} /\ HeldEffects = {}
      /\ HeldEffects' \subseteq {x}
      /\ QueuedEvents' = ToSet(events) /\ QueuedEvents' \subseteq QueuedEvents
      /\ QueuedEffects = ToSet(effects) /\ QueuedEffects' = QueuedEffects \cup HeldEffects'
  BY <1>4, <1>7 DEF Idle, HeldEvents, HeldEffects, QueuedEvents, QueuedEffects
<1>10. x.task = t /\ x.type = out'.effect.type
  BY <1>3
<1>11. Submitted'
  <2>1. t \in runs
    BY <1>1, <1>9 DEF IInv, Submitted, QueuedEvents
  <2> QED BY <1>4, <1>5, <1>9, <1>10, <2>1 DEF IInv, Submitted
<1>12. Saved'
  BY <1>5, <1>6 DEF IInv, Saved, Rejected, Accepted
<1>13. DistinctIds'
  <2>1. DistinctIds
    BY DEF IInv
  <2>2. \A q \in ToSet(events) : q.event.id # e.id
    BY <1>2, <1>9, <2>1 DEF DistinctIds, ToSet
  <2>3. ASSUME NEW q \in ToSet(events), NEW u \in Tasks PROVE st'[u].lastEventID # q.event.id
    <3>1. st[u].lastEventID # q.event.id
      BY <1>9, <2>1 DEF DistinctIds, NotHandledYet
    <3> QED BY <1>5, <1>6, <2>2, <3>1 DEF Rejected, Accepted
  <2> QED BY <1>4, <1>9, <2>1, <2>3 DEF DistinctIds, NotHandledYet
<1>14. ASSUME NEW u \in Tasks, u # t
       PROVE  /\ Alone(u) => Alone(u)'
              /\ Advances(u) => Advances(u)'
              /\ Fits(u) => Fits(u)'
  <2>1. Held(u) = 0 /\ Held(u)' = 0
    BY <1>1, <1>7, <1>10, <1>14 DEF Held, Idle
  <2>2. Outstanding(u)' = Outstanding(u)
    BY <1>4, <2>1 DEF Outstanding
  <2>3. /\ \A q \in QueuedEvents' :
             q.task = u /\ Carries("event", q) => q \in QueuedEvents
        /\ \A q \in QueuedEffects' :
             q.task = u /\ Carries("effect", q) => q \in QueuedEffects
    BY <1>9, <1>10, <1>14
  <2> QED BY <1>4, <1>5, <1>14, <2>2, <2>3, TaskKept
<1>15. ASSUME Rejected
       PROVE  worker' = Idle /\ Held(t)' = 0
  BY <1>7, <1>15 DEF Rejected, Held, Idle
<1>16. ASSUME Accepted, t \in (runs \ guided)'
       PROVE  /\ Outstanding(t) <= Held(t) /\ Outstanding(t)' = Held(t)'
              /\ IsInput(worker.item) => AsksUser(t)
  <2>1. Outstanding(t) <= Held(t) /\ (IsInput(worker.item) => AsksUser(t))
    BY <1>1, <1>2, <1>16, AcceptedAlone DEF Accepted
  <2>2. /\ Cardinality(Places("event", events, t)) = 0
        /\ Cardinality(Places("effect", effects, t)) = 0
    BY <1>4, <2>1, OutstandingIsNat DEF Outstanding
  <2>3. Held(t)' \in {0, 1}
    BY DEF Held
  <2> QED BY <1>4, <2>1, <2>2, <2>3 DEF Outstanding
<1>17. ASSUME t \in (runs \ guided)' PROVE Alone(t)'
  <2>1. CASE Rejected
    <3>1. Alone(t)
      BY <1>4, <1>17 DEF IInv
    <3>2. Outstanding(t)' <= Outstanding(t) /\ Outstanding(t)' \in Nat
      BY <1>4, <1>15, <2>1, OutstandingIsNat DEF Outstanding
    <3> QED BY <1>4, <2>1, <3>1, <3>2, OutstandingIsNat DEF Rejected, Alone, AsksUser
  <2>2. CASE Accepted
    <3>1. Outstanding(t)' = Held(t)' /\ Held(t)' \in {0, 1}
      BY <1>16, <1>17, <2>2 DEF Held
    <3>2. ASSUME AsksUser(t)' PROVE Held(t)' = 0
      <4>1. out'.effect.type = "user_input.request"
        BY <2>2, <3>2 DEF Accepted, AsksUser, P!EffectOK, P!MakeEffect
      <4> QED BY <1>7, <1>10, <4>1 DEF Held, Idle, Carries, Announcements
    <3> QED BY <3>1, <3>2 DEF Alone
  <2> QED BY <1>6, <2>1, <2>2
<1>18. ASSUME t \in Undisturbed' PROVE (Advances(t) /\ Fits(t))'
  <2>1. /\ t \in Undisturbed /\ HasExecutor(out'.effect) /\ t \in (runs \ guided)'
        /\ Advances(t) /\ Fits(t)
    BY <1>4, <1>18 DEF Undisturbed, IInv
  <2>2. ~IsInput(worker.item) => EventFits(t, e)
    BY <1>1, <1>2, <1>9, <2>1 DEF Fits, QueuedEvents, Carries
  <2>3. CASE Rejected
    <3>1. IsInput(worker.item)
      BY <1>5, <2>2, <2>3, FittingIsAccepted DEF Rejected, IInv
    <3>2. Held(t) = 0
      BY <1>4, <3>1 DEF Held, Carries
    <3>3. Outstanding(t)' = Outstanding(t)
      BY <1>4, <1>15, <2>3, <3>2 DEF Outstanding
    <3>4. HeldEffects' = {}
      BY <1>15, <2>3 DEF HeldEffects, Idle
    <3> QED BY <1>4, <1>9, <2>1, <2>3, <3>3, <3>4, TaskKept DEF Rejected
  <2>4. CASE Accepted
    <3>1. Outstanding(t) <= Held(t) /\ Outstanding(t)' = Held(t)'
          /\ (IsInput(worker.item) => AsksUser(t))
      BY <1>16, <2>1, <2>4
    <3>2. EventFits(t, e) \/ (AsksUser(t) /\ e.type = "user_input.received")
      BY <1>2, <2>2, <3>1 DEF IsInput
    <3>3. /\ SnapshotFits(t)'
          /\ \/ /\ Over(t)' \/ AsksUser(t)'
                /\ out'.effect.type \in Announcements
             \/ /\ ~(Over(t)' \/ AsksUser(t)') /\ out'.effect.type \notin Announcements
                /\ out'.effect # TSM!NoEffect /\ EffectFits(t, x)'
      BY <1>3, <1>4, <2>1, <2>4, <3>2, AcceptedFits DEF Accepted
    <3>4. /\ \A q \in ToSet(events) : ~(q.task = t /\ Carries("event", q))
          /\ \A q \in ToSet(effects) : ~(q.task = t /\ Carries("effect", q))
      BY <1>4, <3>1, OnlyItem
    <3>5. CASE (Over(t)' \/ AsksUser(t)') /\ out'.effect.type \in Announcements
      <4>1. Held(t)' = 0
        BY <1>7, <1>10, <3>5 DEF Held, Idle, Carries
      <4>2. Advances(t)'
        BY <3>1, <3>5, <4>1 DEF Advances
      <4>3. \A q \in HeldEffects' : ~Carries("effect", q)
        BY <1>9, <1>10, <3>5 DEF Carries
      <4> QED BY <1>9, <3>3, <3>4, <4>2, <4>3 DEF Fits, Carries
    <3>6. CASE /\ ~(Over(t)' \/ AsksUser(t)') /\ out'.effect.type \notin Announcements
               /\ out'.effect # TSM!NoEffect /\ EffectFits(t, x)'
      <4>1. worker' = [pc |-> "enqueue", item |-> x]
        BY <1>7, <2>1, <3>6
      <4>2. Held(t)' = 1
        BY <1>10, <3>6, <4>1 DEF Held, Carries
      <4>3. Advances(t)'
        BY <3>1, <3>6, <4>2 DEF Advances
      <4> QED BY <1>9, <3>3, <3>4, <3>6, <4>3 DEF Fits, Carries
    <3> QED BY <3>3, <3>5, <3>6
  <2> QED BY <1>6, <2>3, <2>4
<1>19. ASSUME NEW u \in (runs \ guided)' PROVE Alone(u)'
  BY <1>4, <1>8, <1>14, <1>17 DEF IInv, Types
<1>20. ASSUME NEW u \in Undisturbed' PROVE (Advances(u) /\ Fits(u))'
  BY <1>4, <1>8, <1>14, <1>18 DEF IInv, Types, Undisturbed
<1> QED BY <1>5, <1>8, <1>11, <1>12, <1>13, <1>19, <1>20 DEF IInv
-----------------------------------------------------------------------------
(* Every step *)

(* A program with no run yet. *)
LEMMA InitInv == Init => IInv
<1> SUFFICES ASSUME Init PROVE IInv
  OBVIOUS
<1>1. P!IInv
  BY MachineInit DEF Init
<1>2. NoSnapshot \in Snapshot
  BY DEF NoSnapshot, Snapshot
<1>3. /\ worker = Idle /\ worker.pc = "idle" /\ events = <<>> /\ effects = <<>>
      /\ runs = {} /\ typed = {}
  BY DEF Init, Idle
<1>4. Types
  BY <1>2, <1>3 DEF Init, Types, InHand
<1>5. ToSet(events) = {} /\ ToSet(effects) = {} /\ DOMAIN events = {}
  BY <1>3 DEF ToSet
<1>6. QueuedEvents = {} /\ QueuedEffects = {} /\ HeldEvents = {}
  BY <1>3, <1>5 DEF QueuedEvents, QueuedEffects, HeldEvents, HeldEffects
<1>7. \A t \in Tasks : st[t].phase = "Created"
  BY DEF Init, TSM!Init, TSM!NewTaskState
<1> QED BY <1>1, <1>3, <1>4, <1>5, <1>6, <1>7
        DEF IInv, Submitted, Saved, DistinctIds, Undisturbed

(* A step that changes nothing. *)
LEMMA StutterPreserves == IInv /\ UNCHANGED vars => IInv'
<1> SUFFICES ASSUME IInv, UNCHANGED vars PROVE IInv'
  OBVIOUS
<1>1. /\ P!IInv' /\ st' = st /\ snap' = snap /\ current' = current /\ runs' = runs
      /\ events' = events /\ effects' = effects /\ worker' = worker /\ typed' = typed
      /\ disturbed' = disturbed /\ guided' = guided
  BY MachineKept DEF vars, machine, queues, history, IInv
<1>2. /\ HeldEvents' = HeldEvents /\ HeldEffects' = HeldEffects
      /\ QueuedEvents' = QueuedEvents /\ QueuedEffects' = QueuedEffects
  BY <1>1 DEF HeldEvents, HeldEffects, QueuedEvents, QueuedEffects
<1>3. Types' /\ Submitted' /\ Saved' /\ DistinctIds'
  BY <1>1, <1>2 DEF IInv, Types, Submitted, Saved, DistinctIds, NotHandledYet
<1>4. ASSUME NEW t
      PROVE  /\ Alone(t) => Alone(t)'
             /\ Advances(t) => Advances(t)'
             /\ Fits(t) => Fits(t)'
  <2>1. Outstanding(t)' = Outstanding(t)
    BY <1>1 DEF Outstanding, Held
  <2> QED BY <1>1, <1>2, <2>1, TaskKept
<1> QED BY <1>1, <1>3, <1>4 DEF IInv, Undisturbed

(* Every step of every process preserves the invariant. *)
LEMMA StepInv == IInv /\ [Next]_vars => IInv'
<1> SUFFICES ASSUME IInv, [Next]_vars PROVE IInv'
  OBVIOUS
<1>1. ASSUME NEW t, Advance(t) PROVE IInv'
  BY <1>1, PopEventPreserves DEF Advance
<1>2. ASSUME NEW t, DispatchNextEffect(t) PROVE IInv'
  BY <1>2, PopEffectPreserves DEF DispatchNextEffect
<1>3. CASE Work
  BY <1>1, <1>2, <1>3 DEF Work
<1>4. CASE Publish
  BY <1>4, PublishPreserves
<1>5. CASE EnqueueEffect \/ EnqueueEvent
  BY <1>5, EnqueuePreserves
<1>6. CASE ExecuteEffect
  BY <1>6, AgentStartPreserves, AgentObservesPreserves, AgentDecidesPreserves,
     AgentFailsPreserves, CallAnswered, ReleasePreserves DEF ExecuteEffect
<1>7. ASSUME NEW t \in Tasks, SubmitDies(t) PROVE IInv'
  BY <1>7, SubmitDiesPreserves
<1>8. ASSUME NEW t \in Tasks, ReadRequest(t) PROVE IInv'
  BY <1>8, ReadRequestPreserves
<1>9. ASSUME NEW t \in Tasks, NEW a \in Agents, Submit(t, a) PROVE IInv'
  BY <1>9, SubmitPreserves
<1>10. ASSUME NEW u \in typed, QueueInput(u) PROVE IInv'
  BY <1>10, QueueInputPreserves
<1>11. ASSUME NEW a \in Agents, SelectAgent(a) PROVE IInv'
  BY <1>11, SelectAgentPreserves
<1>12. CASE Interrupt
  BY <1>12, ReleasePreserves
<1>13. CASE UNCHANGED vars
  BY <1>13, StutterPreserves
<1> QED BY <1>1, <1>2, <1>3, <1>4, <1>5, <1>6, <1>7, <1>8, <1>9, <1>10, <1>11, <1>12, <1>13
        DEF Next, Step

(* IInv holds of the runner for every number of runs, agents and ids. *)
LEMMA IInvInvariant == Spec => []IInv
BY InitInv, StepInv, PTL DEF Spec
-----------------------------------------------------------------------------
(* What the runner promises *)

(* A run nothing disturbed always has exactly one item of work under way, until it is
   over or asks the user. *)
THEOREM RunsGoOn == Spec => []RunGoesOn
<1>1. IInv => RunGoesOn
  BY DEF IInv, Advances, RunGoesOn
<1> QED BY <1>1, IInvInvariant, PTL

(* Whatever is interrupted, a run has at most one item of work under way. *)
THEOREM OnlyOneAtATime == Spec => []OneAtATime
<1>1. IInv => OneAtATime
  BY DEF IInv, Alone, OneAtATime
<1> QED BY <1>1, IInvInvariant, PTL

(* The agent's snapshot and the task's state agree on the model call they wait for. *)
THEOREM SnapshotsAgree == Spec => []SnapshotAgrees
<1>1. IInv => SnapshotAgrees
  BY DEF IInv, Fits, SnapshotFits, SnapshotAgrees
<1> QED BY <1>1, IInvInvariant, PTL

(* The state machine accepts the queued events and the agent the queued resumes. *)
THEOREM NothingIsRefused == Spec => NothingRefused
<1> DEFINE Taken(t) ==
      worker # worker' /\ worker # Idle /\ worker.item.task = t =>
        /\ worker.pc = "event" /\ ~IsInput(worker.item) => out'.verdict = "handled"
        /\ worker.pc = "effect" /\ worker.item.type = "agent.resume"
             => worker'.pc = "produced"
<1>1. IInv /\ [Next]_vars => [\A t \in (Undisturbed)' : Taken(t)]_vars
  <2> SUFFICES ASSUME IInv, Next, NEW t \in Undisturbed', worker # worker', worker # Idle,
                      worker.item.task = t
               PROVE  /\ worker.pc = "event" /\ ~IsInput(worker.item)
                           => out'.verdict = "handled"
                      /\ worker.pc = "effect" /\ worker.item.type = "agent.resume"
                           => worker'.pc = "produced"
    BY Zenon
  <2>1. worker.pc # "idle"
    BY InHandCases DEF IInv, Types
  <2>2. ~Interrupt
    BY DEF Interrupt, Undisturbed
  <2>3. Publish \/ EnqueueEffect \/ EnqueueEvent \/ ExecuteEffect
    BY <2>1, <2>2
       DEF Next, Step, Work, Advance, DispatchNextEffect, IsIdle, SubmitDies, ReadRequest,
           Submit, QueueInput, SelectAgent
  <2>4. CASE Publish
    <3>1. PICK e : e = worker.item.event
      OBVIOUS
    <3>2. t \in Undisturbed /\ worker.pc = "event"
      BY <2>4 DEF Publish, Undisturbed
    <3>3. worker.item \in QueuedEvents /\ Fits(t)
      BY <3>2 DEF IInv, QueuedEvents, HeldEvents
    <3>4. ~IsInput(worker.item) => EventFits(t, e)
      BY <3>1, <3>3 DEF Fits, Carries
    <3>5. ~IsInput(worker.item) => P!Accepts(st[t], e)
      BY <2>4, <3>1, <3>4, PublishedEvent, FittingIsAccepted DEF IInv
    <3> QED BY <2>4, <3>1, <3>2, <3>5, PublishedEvent
  <2>5. CASE EnqueueEffect \/ EnqueueEvent
    BY <2>5 DEF EnqueueEffect, EnqueueEvent
  <2>6. CASE ExecuteEffect
    <3>1. worker.pc = "effect"
      BY <2>6 DEF ExecuteEffect, AgentStart, AgentObserves, AgentDecides, AgentFails,
                  AgentRefuses, ModelAnswers, ToolAnswers, AskUser, Announce, Resumes, Executes
    <3>2. worker.item.type = "agent.resume"
            => AgentObserves \/ AgentDecides \/ AgentFails \/ AgentRefuses
      BY <2>6 DEF ExecuteEffect, AgentStart, ModelAnswers, ToolAnswers, AskUser, Announce,
                  Executes
    <3>3. ASSUME NEW type, NEW ref, Produce(type, ref) PROVE worker'.pc = "produced"
      BY <3>3 DEF Produce, Hold
    <3>4. AgentObserves \/ AgentDecides \/ AgentFails => worker'.pc = "produced"
      BY <3>3 DEF AgentObserves, AgentDecides, AgentFails, RequestDecision
    <3>5. ASSUME AgentRefuses PROVE FALSE
      <4>1. Undisturbed' = Undisturbed
        BY <3>5 DEF AgentRefuses, Undisturbed, history
      <4> QED BY <3>5, <4>1, ResumeTaken DEF Task
    <3> QED BY <3>1, <3>2, <3>4, <3>5
  <2> QED BY <2>3, <2>4, <2>5, <2>6
<1> QED BY <1>1, IInvInvariant, PTL DEF Spec, NothingRefused

(* The runner drives every task by the events of the state machine alone. *)
THEOREM RunnerDrivesMachine == Spec => P!Spec
<1>1. Init => P!Init
  BY DEF Init, TSM!Init, P!Init, TSM!NewTaskState, P!NewTaskState, TSM!NoEvent, P!NoEvent,
         TSM!NoEffect, P!NoEffect, TSM!AgentPhaseUnknown, P!AgentPhaseUnknown
<1>2. IInv /\ [Next]_vars => [P!Next]_(P!vars)
  <2> SUFFICES ASSUME IInv, [Next]_vars PROVE [P!Next]_(P!vars)
    OBVIOUS
  <2>1. CASE Publish
    <3>1. PICK t, e : t = worker.item.task /\ e = worker.item.event
      OBVIOUS
    <3>2. t \in Tasks /\ e \in TSM!Event /\ TSM!HandleEvent(t, e)
      BY <2>1, <3>1, PublishedEvent DEF Publish
    <3> QED BY <3>2, SameHandlers, SameTypes DEF P!Next
  <2>2. CASE ~Publish
    <3>1. UNCHANGED machine
      BY <2>2 DEF Next, Step, Work, Advance, DispatchNextEffect, EnqueueEffect, EnqueueEvent,
                  ExecuteEffect, AgentStart, AgentObserves, AgentDecides, AgentFails,
                  AgentRefuses, ModelAnswers, ToolAnswers, AskUser, Announce, SubmitDies,
                  ReadRequest, Submit, QueueInput, SelectAgent, Interrupt, vars
    <3> QED BY <3>1 DEF machine, P!vars
  <2> QED BY <2>1, <2>2
<1> QED BY <1>1, <1>2, IInvInvariant, PTL DEF Spec, P!Spec

(* So a run that is over stays as it is: no late item and no other process revives it. *)
THEOREM OverForGood == Spec => P!TerminalIsFinal
BY RunnerDrivesMachine, Names, P!TerminalStays, PTL
=============================================================================
