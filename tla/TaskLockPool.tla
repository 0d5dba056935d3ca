---------------------------- MODULE TaskLockPool -----------------------------
(***************************************************************************)
(* reactor.taskLockPool under Reactor.Advance: the bus and its callers     *)
(* advance tasks from many goroutines, and the state machine loads, works  *)
(* on and saves the state of one task at a time.  The pool keeps a counted *)
(* mutex per task and forgets it when nobody uses it any more, so a task   *)
(* may be guarded by one mutex now and by another a moment later.          *)
(*                                                                         *)
(* The pool's own mutex makes each of Register and Forget one step.  The   *)
(* event semaphore bounds the goroutines inside Advance.                   *)
(* A definition named Slip... is the one it precedes with a mistake in it. *)
(***************************************************************************)
EXTENDS Naturals, FiniteSets

CONSTANTS
  Procs,  \* goroutines that call Advance
  NoProc,
  Tasks,
  Locks,  \* the taskLock objects there may be at a time
  NoLock,
  MaxConcurrentEvents  \* the size of the event semaphore

ASSUME PoolAssumption ==
  /\ IsFiniteSet(Procs) /\ NoProc \notin Procs
  /\ NoLock \notin Locks
  /\ MaxConcurrentEvents \in Nat \ {0}

VARIABLES
  pc,     \* pc[p]: where p is in Advance
  task,   \* task[p]: the task of p's event
  mine,   \* mine[p]: the taskLock p registered with
  locks,  \* locks[t]: the pool's map, NoLock where it has no entry
  refs,   \* refs[l]: the reference count of l
  owner   \* owner[l]: who holds the mutex of l

vars == <<pc, task, mine, locks, refs, owner>>

Stages == {"idle", "calling", "entered", "waiting", "handling", "unlocked", "dispatching"}

(* The places where p refers to its lock *)
Registered == {"waiting", "handling", "unlocked"}
Users(l) == { p \in Procs : pc[p] \in Registered /\ mine[p] = l }
Inside   == { p \in Procs : pc[p] \notin {"idle", "calling"} }

Init ==
  /\ pc = [p \in Procs |-> "idle"]
  /\ task \in [Procs -> Tasks]
  /\ mine = [p \in Procs |-> NoLock]
  /\ locks = [t \in Tasks |-> NoLock]
  /\ refs = [l \in Locks |-> 0]
  /\ owner = [l \in Locks |-> NoProc]

Go(p, from, to) == pc[p] = from /\ pc' = [pc EXCEPT ![p] = to]

(* Advance is called with an event of t ... *)
Call(p, t) ==
  /\ Go(p, "idle", "calling")
  /\ task' = [task EXCEPT ![p] = t]
  /\ UNCHANGED <<mine, locks, refs, owner>>

(* ... and acquire(ctx, r.eventSem) gets it a slot. *)
Enter(p) ==
  /\ Go(p, "calling", "entered")
  /\ Cardinality(Inside) < MaxConcurrentEvents
  /\ UNCHANGED <<task, mine, locks, refs, owner>>

(* A taskLock nobody refers to: the allocator may hand it out (again). *)
Unused(l) == Users(l) = {} /\ \A t \in Tasks : locks[t] # l

(* The first half of lock: the task's entry, or a new one, one reference more *)
SlipRegisterUncounted(p) ==
  /\ Go(p, "entered", "waiting")
  /\ \E l \in Locks :
       /\ IF locks[task[p]] = NoLock THEN Unused(l) ELSE l = locks[task[p]]
       /\ mine' = [mine EXCEPT ![p] = l]
       /\ locks' = [locks EXCEPT ![task[p]] = l]
       /\ refs' = [refs EXCEPT ![l] = 1]
  /\ UNCHANGED <<task, owner>>
Register(p) ==
  /\ Go(p, "entered", "waiting")
  /\ \E l \in Locks :
       /\ IF locks[task[p]] = NoLock THEN Unused(l) ELSE l = locks[task[p]]
       /\ mine' = [mine EXCEPT ![p] = l]
       /\ locks' = [locks EXCEPT ![task[p]] = l]
       /\ refs' = [refs EXCEPT ![l] = IF locks[task[p]] = NoLock THEN 1 ELSE @ + 1]
  /\ UNCHANGED <<task, owner>>

(* lock.mu.Lock(), after the pool's mutex is released *)
Lock(p) ==
  /\ Go(p, "waiting", "handling")
  /\ owner[mine[p]] = NoProc
  /\ owner' = [owner EXCEPT ![mine[p]] = p]
  /\ UNCHANGED <<task, mine, locks, refs>>

(* The state machine has returned: unlockTask releases the task's mutex first ... *)
Unlock(p) ==
  /\ Go(p, "handling", "unlocked")
  /\ owner' = [owner EXCEPT ![mine[p]] = NoProc]
  /\ UNCHANGED <<task, mine, locks, refs>>

(* ... and gives up its reference, the last one with the entry. *)
SlipForgetKeepsEntry(p) ==
  /\ Go(p, "unlocked", "dispatching")
  /\ refs' = [refs EXCEPT ![mine[p]] = @ - 1]
  /\ UNCHANGED <<task, mine, locks, owner>>
SlipForgetAlways(p) ==
  /\ Go(p, "unlocked", "dispatching")
  /\ refs' = [refs EXCEPT ![mine[p]] = @ - 1]
  /\ locks' = [locks EXCEPT ![task[p]] = NoLock]
  /\ UNCHANGED <<task, mine, owner>>
Forget(p) ==
  /\ Go(p, "unlocked", "dispatching")
  /\ refs' = [refs EXCEPT ![mine[p]] = @ - 1]
  /\ locks' = IF refs[mine[p]] = 1 THEN [locks EXCEPT ![task[p]] = NoLock] ELSE locks
  /\ UNCHANGED <<task, mine, owner>>

(* The effects are dispatched and the slot is released. *)
SlipLeaveNever(p) ==
  /\ pc[p] = "dispatching"
  /\ UNCHANGED vars
Leave(p) ==
  /\ Go(p, "dispatching", "idle")
  /\ UNCHANGED <<task, mine, locks, refs, owner>>

Move(p) == Enter(p) \/ Register(p) \/ Lock(p) \/ Unlock(p) \/ Forget(p) \/ Leave(p)

Next == \E p \in Procs : Move(p) \/ \E t \in Tasks : Call(p, t)

(* Every call returns, sync.Mutex lets no waiter starve (starvation mode), and *)
(* whoever waits to send on a channel, as the semaphore is, does so in turn.   *)
Fairness == \A p \in Procs : WF_vars(Register(p) \/ Unlock(p) \/ Forget(p) \/ Leave(p))
                              /\ SF_vars(Lock(p)) /\ SF_vars(Enter(p))
Spec == Init /\ [][Next]_vars /\ Fairness

-----------------------------------------------------------------------------
(* Correctness *)

(* Type correctness of the pool and of the goroutines. *)
TypeOK ==
  /\ pc \in [Procs -> Stages]
  /\ task \in [Procs -> Tasks]
  /\ mine \in [Procs -> Locks \cup {NoLock}]
  /\ locks \in [Tasks -> Locks \cup {NoLock}]
  /\ refs \in [Locks -> Nat]
  /\ owner \in [Locks -> Procs \cup {NoProc}]

(* The state machine never works on one task from two goroutines, although the
   mutex that guards a task comes and goes with its users. *)
OneHandlerPerTask ==
  \A p, q \in Procs :
    pc[p] = "handling" /\ pc[q] = "handling" /\ task[p] = task[q] => p = q

(* The pool has an entry for a task exactly while some goroutine uses its lock,
   and they all use that one: no entry outlives its users, none is replaced. *)
EntryWhileUsed ==
  \A t \in Tasks :
    LET users == { p \in Procs : pc[p] \in Registered /\ task[p] = t }
    IN  /\ locks[t] = NoLock <=> users = {}
        /\ \A p \in users : mine[p] = locks[t]

(* Every event is handled, although those that wait for the lock of one task may
   hold all the slots of the semaphore, and keep out the events of other tasks. *)
Served == \A p \in Procs : pc[p] = "calling" ~> pc[p] = "idle"
=============================================================================
