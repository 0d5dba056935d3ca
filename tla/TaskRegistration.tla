--------------------------- MODULE TaskRegistration ---------------------------
(***************************************************************************)
(* Runtime.RegisterAgent and Runtime.Close.  To register a task takes five *)
(* steps on four maps with a mutex each (and a file); none is held from    *)
(* one step to the next, and a step that fails undoes those before it.     *)
(* Other goroutines register the same or other tasks, or close the         *)
(* runtime, in between.                                                    *)
(*                                                                         *)
(* A caller stands for the agent it brings and for the entries that refer  *)
(* to it.  A runtime without a storage is one whose records nobody reads.  *)
(* A definition named Slip... is the one it precedes with a mistake in it. *)
(***************************************************************************)
EXTENDS Naturals

CONSTANTS
  Callers,   \* goroutines that call RegisterAgent
  NoCaller,
  Stranger,  \* a subscriber of the bus that no runtime registered here
  OldRun,    \* the process that wrote a record before this one started
  Tasks,
  Names      \* what Agent.Name() returns

ASSUME RegistrationAssumption ==
  /\ NoCaller \notin Callers /\ Stranger \notin Callers /\ OldRun \notin Callers
  /\ Stranger # NoCaller /\ OldRun # NoCaller

VARIABLES
  pc,        \* pc[p]: the last step of RegisterAgent p has done, or the next to undo
  task,      \* task[p]: the task p registers
  name,      \* name[p]: the name of p's agent
  agents,    \* taskAgents: by task and name
  runtimes,  \* runtimes: by task
  record,    \* storage.Runtimes(): by task
  route,     \* the writable subscription of the bus for the events of a task
  subs,      \* the tasks in subscriptionByID
  closed,    \* r.closed
  todo,      \* what Close has still to unsubscribe
  busClosed,
  wins,      \* history: wins[t], how many registrations of t have succeeded
  faulty     \* history: the tasks one of whose records could not be written or deleted

maps == <<agents, runtimes, record, route, subs>>
vars == <<pc, task, name, maps, closed, todo, busClosed, wins, faulty>>

Stages == {"idle", "called", "checked", "agent", "runtime", "saved", "attached",
           "undoRoute", "undoRecord", "undoRuntime", "undoAgent"}

(* Where p counts on an entry of its own *)
HasRoute   == {"attached", "undoRoute"}
HasRuntime == {"runtime", "saved", "undoRecord", "undoRuntime"} \cup HasRoute
HasAgent   == {"agent", "undoAgent"} \cup HasRuntime
AtWork(t)  == { p \in Callers : pc[p] # "idle" /\ task[p] = t }

Key(p) == <<task[p], name[p]>>

Init ==
  /\ pc = [p \in Callers |-> "idle"]
  /\ task \in [Callers -> Tasks]
  /\ name \in [Callers -> Names]
  /\ agents = [k \in Tasks \X Names |-> NoCaller]
  /\ runtimes = [t \in Tasks |-> NoCaller]
  /\ record \in [Tasks -> {NoCaller, OldRun}]
  /\ route = [t \in Tasks |-> NoCaller]
  /\ subs = {} /\ todo = {}
  /\ closed = FALSE /\ busClosed = FALSE
  /\ wins = [t \in Tasks |-> 0]
  /\ faulty = {}

Go(p, from, to) == pc[p] = from /\ pc' = [pc EXCEPT ![p] = to]

Call(p, t) ==
  /\ Go(p, "idle", "called")
  /\ task' = [task EXCEPT ![p] = t]
  /\ UNCHANGED <<name, maps, closed, todo, busClosed, wins, faulty>>

(* Under r.mu: neither closed nor registered, which may change as soon as it is read *)
CheckRegistered(p) ==
  /\ Go(p, "called", IF closed \/ task[p] \in subs THEN "idle" ELSE "checked")
  /\ UNCHANGED <<task, name, maps, closed, todo, busClosed, wins, faulty>>

(* taskAgentRegistry.Register *)
SlipRegisterTaskAgentUndoes(p) ==
  /\ IF agents[Key(p)] = NoCaller
     THEN Go(p, "checked", "agent") /\ agents' = [agents EXCEPT ![Key(p)] = p]
     ELSE Go(p, "checked", "undoAgent") /\ UNCHANGED agents
  /\ UNCHANGED <<task, name, runtimes, record, route, subs, closed, todo, busClosed, wins, faulty>>
RegisterTaskAgent(p) ==
  /\ IF agents[Key(p)] = NoCaller
     THEN Go(p, "checked", "agent") /\ agents' = [agents EXCEPT ![Key(p)] = p]
     ELSE Go(p, "checked", "idle") /\ UNCHANGED agents
  /\ UNCHANGED <<task, name, runtimes, record, route, subs, closed, todo, busClosed, wins, faulty>>

(* RuntimeRegistry.Register; another agent may have been registered for the task *)
SlipRegisterRuntimeUndoesAll(p) ==
  /\ IF runtimes[task[p]] = NoCaller
     THEN Go(p, "agent", "runtime") /\ runtimes' = [runtimes EXCEPT ![task[p]] = p]
     ELSE Go(p, "agent", "undoRoute") /\ UNCHANGED runtimes
  /\ UNCHANGED <<task, name, agents, record, route, subs, closed, todo, busClosed, wins, faulty>>
SlipRegisterRuntimeUndoesRuntime(p) ==
  /\ IF runtimes[task[p]] = NoCaller
     THEN Go(p, "agent", "runtime") /\ runtimes' = [runtimes EXCEPT ![task[p]] = p]
     ELSE Go(p, "agent", "undoRecord") /\ UNCHANGED runtimes
  /\ UNCHANGED <<task, name, agents, record, route, subs, closed, todo, busClosed, wins, faulty>>
RegisterRuntime(p) ==
  /\ IF runtimes[task[p]] = NoCaller
     THEN Go(p, "agent", "runtime") /\ runtimes' = [runtimes EXCEPT ![task[p]] = p]
     ELSE Go(p, "agent", "undoAgent") /\ UNCHANGED runtimes
  /\ UNCHANGED <<task, name, agents, record, route, subs, closed, todo, busClosed, wins, faulty>>

(* storage.Runtimes().Save; one that fails may have written its line all the same *)
SaveRecord(p) ==
  /\ Go(p, "runtime", "saved")
  /\ record' = [record EXCEPT ![task[p]] = p]
  /\ UNCHANGED <<task, name, agents, runtimes, route, subs, closed, todo, busClosed, wins, faulty>>
SaveFails(p) ==
  /\ Go(p, "runtime", "undoRuntime")
  /\ record' \in {record, [record EXCEPT ![task[p]] = p]}
  /\ faulty' = faulty \cup {task[p]}
  /\ UNCHANGED <<task, name, agents, runtimes, route, subs, closed, todo, busClosed, wins>>

(* Reactor.Attach: the bus is closed, or has a writable subscriber for the task *)
SlipAttachKeepsRecord(p) ==
  /\ IF ~busClosed /\ route[task[p]] = NoCaller
     THEN Go(p, "saved", "attached") /\ route' = [route EXCEPT ![task[p]] = p]
     ELSE Go(p, "saved", "undoRuntime") /\ UNCHANGED route
  /\ UNCHANGED <<task, name, agents, runtimes, record, subs, closed, todo, busClosed, wins, faulty>>
Attach(p) ==
  /\ IF ~busClosed /\ route[task[p]] = NoCaller
     THEN Go(p, "saved", "attached") /\ route' = [route EXCEPT ![task[p]] = p]
     ELSE Go(p, "saved", "undoRecord") /\ UNCHANGED route
  /\ UNCHANGED <<task, name, agents, runtimes, record, subs, closed, todo, busClosed, wins, faulty>>

(* Under r.mu again: enter the subscription, unless the runtime was closed meanwhile. *)
Succeeds(p) ==
  /\ Go(p, "attached", "idle")
  /\ subs' = subs \cup {task[p]}
  /\ wins' = [wins EXCEPT ![task[p]] = @ + 1]
  /\ UNCHANGED <<task, name, agents, runtimes, record, route, closed, todo, busClosed, faulty>>
SlipEnterUnchecked(p) == Succeeds(p)
SlipEnterKeepsRoute(p) ==
  IF closed
  THEN Go(p, "attached", "undoRecord")
       /\ UNCHANGED <<task, name, maps, closed, todo, busClosed, wins, faulty>>
  ELSE Succeeds(p)
EnterSubscription(p) ==
  IF closed
  THEN Go(p, "attached", "undoRoute")
       /\ UNCHANGED <<task, name, maps, closed, todo, busClosed, wins, faulty>>
  ELSE Succeeds(p)

(* The way back: whatever was done is undone, last first. *)
UndoRoute(p) ==
  /\ Go(p, "undoRoute", "undoRecord")
  /\ route' = [route EXCEPT ![task[p]] = NoCaller]
  /\ UNCHANGED <<task, name, agents, runtimes, record, subs, closed, todo, busClosed, wins, faulty>>
UndoRecord(p) ==  \* the error of Delete is dropped
  /\ Go(p, "undoRecord", "undoRuntime")
  /\ \/ record' = [record EXCEPT ![task[p]] = NoCaller] /\ UNCHANGED faulty
     \/ UNCHANGED record /\ faulty' = faulty \cup {task[p]}
  /\ UNCHANGED <<task, name, agents, runtimes, route, subs, closed, todo, busClosed, wins>>
UndoRuntime(p) ==
  /\ Go(p, "undoRuntime", "undoAgent")
  /\ runtimes' = [runtimes EXCEPT ![task[p]] = NoCaller]
  /\ UNCHANGED <<task, name, agents, record, route, subs, closed, todo, busClosed, wins, faulty>>
UndoAgent(p) ==
  /\ Go(p, "undoAgent", "idle")
  /\ agents' = [agents EXCEPT ![Key(p)] = NoCaller]
  /\ UNCHANGED <<task, name, runtimes, record, route, subs, closed, todo, busClosed, wins, faulty>>

Step(p) ==
  \/ CheckRegistered(p) \/ RegisterTaskAgent(p) \/ RegisterRuntime(p)
  \/ SaveRecord(p) \/ SaveFails(p) \/ Attach(p) \/ EnterSubscription(p)
  \/ UndoRoute(p) \/ UndoRecord(p) \/ UndoRuntime(p) \/ UndoAgent(p)

(* Close: the second call and later ones return at once. *)
Close ==
  /\ ~closed
  /\ closed' = TRUE /\ todo' = subs /\ subs' = {}
  /\ UNCHANGED <<pc, task, name, agents, runtimes, record, route, busClosed, wins, faulty>>
Unsubscribe(t) ==
  /\ t \in todo
  /\ todo' = todo \ {t}
  /\ route' = [route EXCEPT ![t] = NoCaller]
  /\ UNCHANGED <<pc, task, name, agents, runtimes, record, subs, closed, busClosed, wins, faulty>>
CloseBus ==  \* if the runtime made its bus itself
  /\ closed /\ todo = {} /\ ~busClosed
  /\ busClosed' = TRUE
  /\ UNCHANGED <<pc, task, name, maps, closed, todo, wins, faulty>>

(* Somebody else subscribes to the task's events through EventBus(). *)
StrangerComes(t) ==
  /\ ~busClosed /\ route[t] = NoCaller
  /\ route' = [route EXCEPT ![t] = Stranger]
  /\ UNCHANGED <<pc, task, name, agents, runtimes, record, subs, closed, todo, busClosed, wins, faulty>>
StrangerLeaves(t) ==
  /\ route[t] = Stranger
  /\ route' = [route EXCEPT ![t] = NoCaller]
  /\ UNCHANGED <<pc, task, name, agents, runtimes, record, subs, closed, todo, busClosed, wins, faulty>>

Next ==
  \/ \E p \in Callers : Step(p) \/ \E t \in Tasks : Call(p, t)
  \/ \E t \in Tasks : Unsubscribe(t) \/ StrangerComes(t) \/ StrangerLeaves(t)
  \/ Close \/ CloseBus

Spec == Init /\ [][Next]_vars

-----------------------------------------------------------------------------
(* Correctness *)

(* Type correctness; of all the calls for one task at most one ever succeeds. *)
TypeOK ==
  /\ pc \in [Callers -> Stages]
  /\ task \in [Callers -> Tasks]
  /\ name \in [Callers -> Names]
  /\ agents \in [Tasks \X Names -> Callers \cup {NoCaller}]
  /\ runtimes \in [Tasks -> Callers \cup {NoCaller}]
  /\ record \in [Tasks -> Callers \cup {NoCaller, OldRun}]
  /\ route \in [Tasks -> Callers \cup {NoCaller, Stranger}]
  /\ subs \subseteq Tasks /\ todo \subseteq Tasks /\ faulty \subseteq Tasks
  /\ closed \in BOOLEAN /\ busClosed \in BOOLEAN
  /\ wins \in [Tasks -> 0 .. 1]

(* A call that fails undoes what it did itself: the entries it is about to take
   out are its own, whoever else registered, failed or closed in the meantime. *)
UndoesItsOwn ==
  \A p \in Callers :
    /\ pc[p] \in HasAgent   => agents[Key(p)] = p
    /\ pc[p] \in HasRuntime => runtimes[task[p]] = p
    /\ pc[p] \in HasRoute   => route[task[p]] = p

(* An event the bus routes to the reactor finds the task's runtime and, under the
   runtime's agent name, its agent, at any moment of a registration or roll-back. *)
RoutedIsServed ==
  \A t \in Tasks :
    route[t] \in Callers =>
      /\ runtimes[t] = route[t]
      /\ agents[<<t, name[route[t]]>>] = route[t]

(* Once RegisterAgent has returned nil the task has its agent, its runtime and its
   record for good, and its subscription until Close, whatever other calls do. *)
RegistrationStands ==
  \A t \in Tasks :
    wins[t] = 1 =>
      LET p == runtimes[t]
      IN  /\ p \in Callers
          /\ agents[<<t, name[p]>>] = p
          /\ record[t] = p
          /\ ~closed => t \in subs /\ route[t] = p

(* When no call for a task is under way, nothing is left of the calls that failed:
   neither agent, runtime nor subscription, and no record unless the storage failed. *)
NothingLeft ==
  \A t \in Tasks :
    AtWork(t) = {} =>
      /\ runtimes[t] = NoCaller <=> wins[t] = 0
      /\ \A n \in Names : agents[<<t, n>>] \in {NoCaller, runtimes[t]}
      /\ route[t] \in {NoCaller, Stranger, runtimes[t]}
      /\ record[t] \in {NoCaller, OldRun, runtimes[t]} \/ t \in faulty

(* When Close is through and the calls that overlapped it have returned, no task
   is routed to the runtime any more. *)
ClosedIsQuiet ==
  closed /\ todo = {} =>
    \A t \in Tasks : AtWork(t) = {} => route[t] \notin Callers
=============================================================================
