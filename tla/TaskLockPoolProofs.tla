------------------------- MODULE TaskLockPoolProofs --------------------------
(***************************************************************************)
(* Mutual exclusion of the task lock pool, for any number of goroutines,   *)
(* tasks and lock objects.  What makes it inductive: the reference count   *)
(* of a lock is the number of goroutines that use it, all users of a task  *)
(* use the lock of its entry, and no lock is the entry of two tasks.       *)
(***************************************************************************)
EXTENDS TaskLockPool, FiniteSetTheorems, TLAPS

CountsUsers == \A l \in Locks : refs[l] = Cardinality(Users(l))

UsersShareEntry ==
  \A p \in Procs : pc[p] \in Registered => mine[p] \in Locks /\ mine[p] = locks[task[p]]

EntryHasUser ==
  \A t \in Tasks : locks[t] # NoLock =>
    \E p \in Procs : pc[p] \in Registered /\ task[p] = t

EntriesDiffer ==
  \A t, u \in Tasks : locks[t] = locks[u] /\ locks[t] # NoLock => t = u

HandlerOwns == \A p \in Procs : pc[p] = "handling" => owner[mine[p]] = p

IInv ==
  /\ TypeOK
  /\ CountsUsers
  /\ UsersShareEntry
  /\ EntryHasUser
  /\ EntriesDiffer
  /\ HandlerOwns

-----------------------------------------------------------------------------
(* Users are finitely many, so their number tells none from some. *)
LEMMA UsersFinite ==
  ASSUME NEW l
  PROVE  IsFiniteSet(Users(l))
<1>1. Users(l) \subseteq Procs  BY DEF Users
<1> QED  BY <1>1, FS_Subset, PoolAssumption

(* At first nobody uses a lock and the pool is empty. *)
LEMMA InitIInv == Init => IInv
<1> SUFFICES ASSUME Init PROVE IInv  OBVIOUS
<1>1. TypeOK  BY DEF Init, TypeOK, Stages
<1>2. \A l : Users(l) = {}  BY DEF Init, Users, Registered
<1>3. CountsUsers  BY <1>2, FS_EmptySet DEF Init, CountsUsers
<1>4. UsersShareEntry /\ EntryHasUser /\ EntriesDiffer /\ HandlerOwns
  BY DEF Init, UsersShareEntry, EntryHasUser, EntriesDiffer, HandlerOwns, Registered
<1> QED  BY <1>1, <1>3, <1>4 DEF IInv

(* Moving between two places on the same side of the pool leaves the users. *)
LEMMA UsersKept ==
  ASSUME TypeOK, NEW p \in Procs, NEW to \in Stages,
         pc' = [pc EXCEPT ![p] = to], mine' = mine,
         pc[p] \in Registered <=> to \in Registered
  PROVE  \A l : Users(l)' = Users(l)
BY DEF TypeOK, Users

(* Calling Advance touches no lock, and a goroutine takes another task only then. *)
LEMMA CallIInv ==
  ASSUME IInv, NEW p \in Procs, NEW t \in Tasks, Call(p, t)
  PROVE  IInv'
<1> USE DEF IInv, Call, Go
<1>1. TypeOK'  BY DEF TypeOK, Stages
<1>2. \A l : Users(l)' = Users(l)
  <2>1. "calling" \in Stages /\ "calling" \notin Registered /\ pc[p] \notin Registered
    BY DEF Stages, Registered
  <2> QED  BY <2>1, UsersKept
<1>3. CountsUsers'  BY <1>2 DEF CountsUsers
<1>4. UsersShareEntry'  BY DEF UsersShareEntry, TypeOK, Registered
<1>5. EntryHasUser'  BY DEF EntryHasUser, TypeOK, Registered
<1>6. EntriesDiffer'  BY DEF EntriesDiffer
<1>7. HandlerOwns'  BY DEF HandlerOwns, TypeOK
<1> QED  BY <1>1, <1>3, <1>4, <1>5, <1>6, <1>7

(* Neither does getting a slot. *)
LEMMA EnterIInv ==
  ASSUME IInv, NEW p \in Procs, Enter(p)
  PROVE  IInv'
<1> USE DEF IInv, Enter, Go
<1>1. TypeOK'  BY DEF TypeOK, Stages
<1>2. \A l : Users(l)' = Users(l)
  <2>1. "entered" \in Stages /\ "entered" \notin Registered /\ pc[p] \notin Registered
    BY DEF Stages, Registered
  <2> QED  BY <2>1, UsersKept
<1>3. CountsUsers'  BY <1>2 DEF CountsUsers
<1>4. UsersShareEntry'  BY DEF UsersShareEntry, TypeOK, Registered
<1>5. EntryHasUser'  BY DEF EntryHasUser, TypeOK, Registered
<1>6. EntriesDiffer'  BY DEF EntriesDiffer
<1>7. HandlerOwns'  BY DEF HandlerOwns, TypeOK
<1> QED  BY <1>1, <1>3, <1>4, <1>5, <1>6, <1>7

(* Registering counts one user more, of the entry there is or of a new one. *)
LEMMA RegisterIInv ==
  ASSUME IInv, NEW p \in Procs, Register(p)
  PROVE  IInv'
<1> USE DEF IInv
<1>1. PICK l \in Locks :
        /\ pc[p] = "entered" /\ pc' = [pc EXCEPT ![p] = "waiting"]
        /\ IF locks[task[p]] = NoLock THEN Unused(l) ELSE l = locks[task[p]]
        /\ mine' = [mine EXCEPT ![p] = l]
        /\ locks' = [locks EXCEPT ![task[p]] = l]
        /\ refs' = [refs EXCEPT ![l] = IF locks[task[p]] = NoLock THEN 1 ELSE @ + 1]
        /\ task' = task /\ owner' = owner
  BY DEF Register, Go
<1>2. TypeOK'  BY <1>1 DEF TypeOK, Stages
<1>3. task[p] \in Tasks /\ l # NoLock  BY PoolAssumption DEF TypeOK
<1>4. Users(l)' = Users(l) \cup {p} /\ p \notin Users(l)
  BY <1>1 DEF Users, Registered, TypeOK
<1>5. \A k \in Locks \ {l} : Users(k)' = Users(k)
  BY <1>1 DEF Users, Registered, TypeOK
<1>6. CountsUsers'
  <2>1. Cardinality(Users(l)') = Cardinality(Users(l)) + 1
    BY <1>4, UsersFinite, FS_AddElement
  <2>2. CASE locks[task[p]] = NoLock
    <3>1. Users(l) = {}  BY <1>1, <2>2 DEF Unused
    <3>2. Cardinality(Users(l)) = 0  BY <3>1, FS_EmptySet
    <3>3. refs'[l] = 1 /\ \A k \in Locks \ {l} : refs'[k] = refs[k]
      BY <1>1, <2>2 DEF TypeOK
    <3> QED  BY <1>5, <2>1, <3>2, <3>3 DEF CountsUsers
  <2>3. CASE locks[task[p]] # NoLock
    <3>1. refs'[l] = refs[l] + 1 /\ \A k \in Locks \ {l} : refs'[k] = refs[k]
      BY <1>1, <2>3 DEF TypeOK
    <3> QED  BY <1>5, <2>1, <3>1 DEF CountsUsers
  <2> QED  BY <2>2, <2>3
<1>7. UsersShareEntry'
  <2> SUFFICES ASSUME NEW q \in Procs, pc'[q] \in Registered
               PROVE  mine'[q] \in Locks /\ mine'[q] = locks'[task'[q]]
    BY DEF UsersShareEntry
  <2>1. CASE q = p  BY <1>1, <1>3, <2>1 DEF TypeOK
  <2>2. CASE q # p
    <3>1. pc[q] \in Registered /\ mine'[q] = mine[q] /\ mine[q] \in Locks
          /\ mine[q] = locks[task[q]] /\ task[q] \in Tasks
      BY <1>1, <2>2 DEF UsersShareEntry, TypeOK
    <3>2. task[q] = task[p] => locks[task[p]] = l
      BY <1>1, <3>1, PoolAssumption
    <3> QED  BY <1>1, <3>1, <3>2, <1>3 DEF TypeOK
  <2> QED  BY <2>1, <2>2
<1>8. EntryHasUser'  BY <1>1 DEF EntryHasUser, TypeOK, Registered
<1>9. EntriesDiffer'
  <2>1. CASE locks[task[p]] = NoLock
    <3>1. \A t \in Tasks : locks[t] # l  BY <1>1, <2>1 DEF Unused
    <3> QED  BY <1>1, <3>1 DEF EntriesDiffer, TypeOK
  <2>2. CASE locks[task[p]] # NoLock
    <3>1. locks' = locks  BY <1>1, <2>2 DEF TypeOK
    <3> QED  BY <3>1 DEF EntriesDiffer
  <2> QED  BY <2>1, <2>2
<1>10. HandlerOwns'  BY <1>1 DEF HandlerOwns, TypeOK
<1> QED  BY <1>2, <1>6, <1>7, <1>8, <1>9, <1>10

(* Taking the mutex of one's lock makes one its owner. *)
LEMMA LockIInv ==
  ASSUME IInv, NEW p \in Procs, Lock(p)
  PROVE  IInv'
<1> USE DEF IInv, Lock, Go
<1>0. mine[p] \in Locks  BY DEF UsersShareEntry, Registered
<1>1. TypeOK'  BY DEF TypeOK, Stages
<1>2. \A l : Users(l)' = Users(l)
  <2>1. "handling" \in Stages /\ "handling" \in Registered /\ pc[p] \in Registered
    BY DEF Stages, Registered
  <2> QED  BY <2>1, UsersKept
<1>3. CountsUsers'  BY <1>2 DEF CountsUsers
<1>4. UsersShareEntry'  BY DEF UsersShareEntry, TypeOK, Registered
<1>5. EntryHasUser'  BY DEF EntryHasUser, TypeOK, Registered
<1>6. EntriesDiffer'  BY DEF EntriesDiffer
<1>7. HandlerOwns'
  <2> SUFFICES ASSUME NEW q \in Procs, pc'[q] = "handling" PROVE owner'[mine'[q]] = q
    BY DEF HandlerOwns
  <2>1. CASE q = p  BY <1>0, <2>1 DEF TypeOK
  <2>2. CASE q # p
    <3>1. pc[q] = "handling" /\ owner[mine[q]] = q  BY <2>2 DEF HandlerOwns, TypeOK
    <3>2. mine[q] # mine[p]  BY <3>1, PoolAssumption
    <3> QED  BY <3>1, <3>2 DEF TypeOK
  <2> QED  BY <2>1, <2>2
<1> QED  BY <1>1, <1>3, <1>4, <1>5, <1>6, <1>7

(* Only the owner of a lock unlocks it. *)
LEMMA UnlockIInv ==
  ASSUME IInv, NEW p \in Procs, Unlock(p)
  PROVE  IInv'
<1> USE DEF IInv, Unlock, Go
<1>0. mine[p] \in Locks  BY DEF UsersShareEntry, Registered
<1>1. TypeOK'  BY DEF TypeOK, Stages
<1>2. \A l : Users(l)' = Users(l)
  <2>1. "unlocked" \in Stages /\ "unlocked" \in Registered /\ pc[p] \in Registered
    BY DEF Stages, Registered
  <2> QED  BY <2>1, UsersKept
<1>3. CountsUsers'  BY <1>2 DEF CountsUsers
<1>4. UsersShareEntry'  BY DEF UsersShareEntry, TypeOK, Registered
<1>5. EntryHasUser'  BY DEF EntryHasUser, TypeOK, Registered
<1>6. EntriesDiffer'  BY DEF EntriesDiffer
<1>7. HandlerOwns'
  <2> SUFFICES ASSUME NEW q \in Procs, pc'[q] = "handling" PROVE owner'[mine'[q]] = q
    BY DEF HandlerOwns
  <2>1. q # p /\ pc[q] = "handling"  BY DEF TypeOK
  <2>2. owner[mine[q]] = q /\ owner[mine[p]] = p  BY <2>1 DEF HandlerOwns
  <2> QED  BY <2>1, <2>2 DEF TypeOK
<1> QED  BY <1>1, <1>3, <1>4, <1>5, <1>6, <1>7

(* The entry goes with its last user, and only then. *)
LEMMA ForgetIInv ==
  ASSUME IInv, NEW p \in Procs, Forget(p)
  PROVE  IInv'
<1> USE DEF IInv
<1> DEFINE l == mine[p]
           t == task[p]
<1>1. /\ pc[p] = "unlocked" /\ pc' = [pc EXCEPT ![p] = "dispatching"]
      /\ refs' = [refs EXCEPT ![l] = @ - 1]
      /\ locks' = IF refs[l] = 1 THEN [locks EXCEPT ![t] = NoLock] ELSE locks
      /\ task' = task /\ mine' = mine /\ owner' = owner
  BY DEF Forget, Go
<1>2. pc[p] \in Registered /\ p \in Users(l)  BY <1>1 DEF Registered, Users
<1>3. l \in Locks /\ l = locks[t] /\ t \in Tasks  BY <1>2 DEF UsersShareEntry, TypeOK
<1>4. Users(l)' = Users(l) \ {p}  BY <1>1 DEF Users, Registered, TypeOK
<1>5. \A k \in Locks \ {l} : Users(k)' = Users(k)  BY <1>1 DEF Users, Registered, TypeOK
<1>6. /\ refs[l] = Cardinality(Users(l)) /\ refs[l] \in Nat
      /\ Cardinality(Users(l)') = refs[l] - 1
  <2>1. refs[l] = Cardinality(Users(l)) /\ refs[l] \in Nat
    BY <1>3 DEF CountsUsers, TypeOK
  <2>2. Cardinality(Users(l) \ {p}) = Cardinality(Users(l)) - 1
    BY <1>2, UsersFinite, FS_RemoveElement
  <2> QED  BY <2>1, <2>2, <1>4
<1>7. refs[l] # 0
  <2>1. Users(l) # {}  BY <1>2
  <2> QED  BY <2>1, <1>6, UsersFinite, FS_EmptySet
<1>8. TypeOK'
  <2>1. refs[l] - 1 \in Nat  BY <1>6, <1>7
  <2>2. refs' \in [Locks -> Nat]  BY <1>1, <2>1 DEF TypeOK
  <2>3. locks' \in [Tasks -> Locks \cup {NoLock}]  BY <1>1 DEF TypeOK
  <2> QED  BY <1>1, <2>2, <2>3 DEF TypeOK, Stages
<1>9. CountsUsers'
  <2>1. refs'[l] = refs[l] - 1 /\ \A k \in Locks \ {l} : refs'[k] = refs[k]
    BY <1>1, <1>3 DEF TypeOK
  <2>2. refs'[l] = Cardinality(Users(l)')  BY <2>1, <1>6
  <2>3. \A k \in Locks \ {l} : refs'[k] = Cardinality(Users(k)')
    BY <2>1, <1>5 DEF CountsUsers
  <2>4. l' = l  BY <1>1
  <2>5. \A k \in Locks : refs'[k] = Cardinality(Users(k)')  BY <2>2, <2>3, <2>4
  <2> QED  BY <2>5 DEF CountsUsers
<1>10. (* Without the entry, nobody is left; with it, somebody else is. *)
       /\ refs[l] = 1 => Users(l)' = {}
       /\ refs[l] # 1 => \E q \in Procs \ {p} : q \in Users(l)
  <2>0. IsFiniteSet(Users(l) \ {p})  BY UsersFinite, FS_RemoveElement
  <2>1. ASSUME refs[l] = 1 PROVE Users(l)' = {}
    BY <2>0, <2>1, <1>4, <1>6, FS_EmptySet
  <2>2. ASSUME refs[l] # 1 PROVE \E q \in Procs \ {p} : q \in Users(l)
    <3>1. Cardinality(Users(l) \ {p}) # 0  BY <1>4, <1>6, <2>2
    <3>2. Users(l) \ {p} # {}  BY <3>1, FS_EmptySet
    <3> QED  BY <3>2 DEF Users
  <2> QED  BY <2>1, <2>2
<1>11. UsersShareEntry'
  <2> SUFFICES ASSUME NEW q \in Procs, pc'[q] \in Registered
               PROVE  mine'[q] \in Locks /\ mine'[q] = locks'[task'[q]]
    BY DEF UsersShareEntry
  <2>1. q # p /\ pc[q] \in Registered /\ mine[q] \in Locks /\ mine[q] = locks[task[q]]
    BY <1>1 DEF UsersShareEntry, Registered, TypeOK
  <2>2. CASE refs[l] = 1
    <3>1. q \notin Users(l)'  BY <1>10, <2>2
    <3>2. mine[q] # l  BY <3>1, <1>1 DEF Users
    <3>3. task[q] # t  BY <3>2, <2>1, <1>3
    <3> QED  BY <3>3, <2>1, <1>1 DEF TypeOK
  <2>3. CASE refs[l] # 1  BY <1>1, <2>1, <2>3
  <2> QED  BY <2>2, <2>3
<1>12. EntryHasUser'
  <2> SUFFICES ASSUME NEW u \in Tasks, locks'[u] # NoLock
               PROVE  \E q \in Procs : pc'[q] \in Registered /\ task'[q] = u
    BY DEF EntryHasUser
  <2>1. locks[u] # NoLock /\ (u = t => refs[l] # 1)  BY <1>1, <1>3 DEF TypeOK
  <2>2. CASE u = t
    <3>1. PICK q \in Procs \ {p} : q \in Users(l)  BY <1>10, <2>1, <2>2
    <3>2. pc[q] \in Registered /\ mine[q] = l /\ l = locks[task[q]] /\ task[q] \in Tasks
      BY <3>1 DEF Users, UsersShareEntry, TypeOK
    <3>3. task[q] = t  BY <3>2, <1>3, PoolAssumption DEF EntriesDiffer
    <3> QED  BY <3>1, <3>2, <3>3, <2>2, <1>1 DEF TypeOK
  <2>3. CASE u # t
    <3>1. PICK q \in Procs : pc[q] \in Registered /\ task[q] = u
      BY <2>1 DEF EntryHasUser
    <3> QED  BY <3>1, <2>3, <1>1 DEF TypeOK
  <2> QED  BY <2>2, <2>3
<1>13. EntriesDiffer'  BY <1>1 DEF EntriesDiffer, TypeOK
<1>14. HandlerOwns'  BY <1>1 DEF HandlerOwns, TypeOK
<1> QED  BY <1>8, <1>9, <1>11, <1>12, <1>13, <1>14

(* Leaving Advance touches no lock. *)
LEMMA LeaveIInv ==
  ASSUME IInv, NEW p \in Procs, Leave(p)
  PROVE  IInv'
<1> USE DEF IInv, Leave, Go
<1>1. TypeOK'  BY DEF TypeOK, Stages
<1>2. \A l : Users(l)' = Users(l)
  <2>1. "idle" \in Stages /\ "idle" \notin Registered /\ pc[p] \notin Registered
    BY DEF Stages, Registered
  <2> QED  BY <2>1, UsersKept
<1>3. CountsUsers'  BY <1>2 DEF CountsUsers
<1>4. UsersShareEntry'  BY DEF UsersShareEntry, TypeOK, Registered
<1>5. EntryHasUser'  BY DEF EntryHasUser, TypeOK, Registered
<1>6. EntriesDiffer' /\ HandlerOwns'  BY DEF EntriesDiffer, HandlerOwns, TypeOK
<1> QED  BY <1>1, <1>3, <1>4, <1>5, <1>6

(* Every step preserves the invariant. *)
LEMMA NextIInv == IInv /\ [Next]_vars => IInv'
<1> SUFFICES ASSUME IInv, [Next]_vars PROVE IInv'  OBVIOUS
<1>1. CASE UNCHANGED vars
  <2>1. \A l : Users(l)' = Users(l)  BY <1>1 DEF vars, Users
  <2> QED  BY <1>1, <2>1 DEF vars, IInv, TypeOK, CountsUsers, UsersShareEntry,
                             EntryHasUser, EntriesDiffer, HandlerOwns
<1>2. ASSUME NEW p \in Procs, Move(p) PROVE IInv'
  BY <1>2, EnterIInv, RegisterIInv, LockIInv, UnlockIInv, ForgetIInv, LeaveIInv DEF Move
<1>3. ASSUME NEW p \in Procs, NEW t \in Tasks, Call(p, t) PROVE IInv'
  BY <1>3, CallIInv
<1> QED  BY <1>1, <1>2, <1>3 DEF Next

(* The invariant holds in every behaviour. *)
LEMMA IInvAlways == Spec => []IInv
BY InitIInv, NextIInv, PTL DEF Spec

-----------------------------------------------------------------------------
(* Type correctness of the pool, in every reachable state. *)
THEOREM PoolTypeCorrect == Spec => []TypeOK
<1>1. IInv => TypeOK  BY DEF IInv
<1> QED  BY <1>1, IInvAlways, PTL

(* unlockTask := r.taskLocks.lock(...) serializes the state machine by task: two
   handlers of a task hold the mutex of its entry, and a mutex has one owner. *)
THEOREM MutualExclusion == Spec => []OneHandlerPerTask
<1>1. IInv => OneHandlerPerTask
  BY DEF IInv, HandlerOwns, UsersShareEntry, Registered, OneHandlerPerTask
<1> QED  BY <1>1, IInvAlways, PTL

(* delete(p.locks, taskID) at refs == 0 removes an entry nobody uses, and only
   such an entry: the pool does not leak, and no user is left with a stale lock. *)
THEOREM NoLeakNoStaleLock == Spec => []EntryWhileUsed
<1>1. IInv => EntryWhileUsed
  <2> SUFFICES ASSUME IInv, NEW t \in Tasks
               PROVE  LET users == { p \in Procs : pc[p] \in Registered /\ task[p] = t }
                      IN  /\ locks[t] = NoLock <=> users = {}
                          /\ \A p \in users : mine[p] = locks[t]
    BY DEF EntryWhileUsed
  <2>1. \A p \in Procs : pc[p] \in Registered /\ task[p] = t
          => mine[p] = locks[t] /\ locks[t] # NoLock
    BY PoolAssumption DEF IInv, UsersShareEntry
  <2>2. locks[t] # NoLock => \E p \in Procs : pc[p] \in Registered /\ task[p] = t
    BY DEF IInv, EntryHasUser
  <2> QED  BY <2>1, <2>2
<1> QED  BY <1>1, IInvAlways, PTL
=============================================================================
