------------------------ MODULE TaskRegistrationProofs ------------------------
(***************************************************************************)
(* Proofs about TaskRegistration.  The properties speak of a call that     *)
(* rests, or of one entry; what makes them inductive is that every entry   *)
(* has a reason: a call that has made it and not undone it, or the one     *)
(* registration of the task that has succeeded.                            *)
(***************************************************************************)
EXTENDS TaskRegistration, TLAPS

(* The record of p's task is p's own, and will be if p succeeds. *)
Recorded == {"saved", "attached"}
(* The stages at which p may have left a record that it is still to delete *)
MayHaveRecord == {"saved", "undoRecord"} \cup HasRoute

Unfinished ==
  \A p \in Callers :
    /\ pc[p] \in HasRuntime => wins[task[p]] = 0
    /\ pc[p] \in HasAgent   => ~(wins[task[p]] = 1 /\ runtimes[task[p]] = p)

Saved == \A p \in Callers : pc[p] \in Recorded => record[task[p]] = p

AgentReason ==
  \A t \in Tasks, n \in Names, q \in Callers :
    agents[<<t, n>>] = q =>
      /\ name[q] = n
      /\ \/ pc[q] \in HasAgent /\ task[q] = t
         \/ wins[t] = 1 /\ runtimes[t] = q

RuntimeReason ==
  \A t \in Tasks, q \in Callers :
    runtimes[t] = q => wins[t] = 1 \/ (pc[q] \in HasRuntime /\ task[q] = t)

RecordReason ==
  \A t \in Tasks, q \in Callers :
    record[t] = q =>
      \/ t \in faulty
      \/ wins[t] = 1 /\ runtimes[t] = q
      \/ pc[q] \in MayHaveRecord /\ task[q] = t

RouteReason ==
  \A t \in Tasks, q \in Callers :
    route[t] = q =>
      \/ pc[q] \in HasRoute /\ task[q] = t
      \/ wins[t] = 1 /\ runtimes[t] = q /\ t \in subs \cup todo

SubscriptionReason ==
  /\ \A t \in subs : ~closed /\ wins[t] = 1 /\ route[t] = runtimes[t]
  /\ \A t \in todo : closed /\ wins[t] = 1 /\ route[t] = runtimes[t]

IInv ==
  /\ TypeOK /\ UndoesItsOwn /\ RegistrationStands /\ Unfinished /\ Saved
  /\ AgentReason /\ RuntimeReason /\ RecordReason /\ RouteReason /\ SubscriptionReason





-----------------------------------------------------------------------------
(* Initially there are no entries but records of earlier runs. *)
LEMMA InitIInv == Init => IInv
<1> SUFFICES ASSUME Init PROVE IInv
  OBVIOUS
<1>0. TypeOK
  <2>1. record \in [Tasks -> Callers \cup {NoCaller, OldRun}]
    BY DEF Init
  <2>2. wins \in [Tasks -> 0 .. 1]
    BY DEF Init
  <2> QED
    BY <2>1, <2>2 DEF Init, TypeOK, Stages
<1>1. UndoesItsOwn
  BY DEF Init, UndoesItsOwn, HasAgent, HasRuntime, HasRoute, Key
<1>2. RegistrationStands
  BY DEF Init, RegistrationStands
<1>3. Unfinished
  BY RegistrationAssumption DEF Init, Unfinished, HasRuntime
<1>4. Saved
  BY DEF Init, Saved, Recorded
<1>5. AgentReason
  BY RegistrationAssumption DEF Init, AgentReason, HasAgent
<1>6. RuntimeReason
  BY RegistrationAssumption DEF Init, RuntimeReason, HasRuntime
<1>7. RecordReason
  BY RegistrationAssumption DEF Init, RecordReason, MayHaveRecord
<1>8. RouteReason
  BY RegistrationAssumption DEF Init, RouteReason, HasRoute
<1>9. SubscriptionReason
  BY DEF Init, SubscriptionReason
<1> QED
  BY <1>0, <1>1, <1>2, <1>3, <1>4, <1>5, <1>6, <1>7, <1>8, <1>9 DEF IInv

(* A task without a runtime has no success, no subscription and no call far enough. *)
LEMMA NoRuntime ==
  ASSUME IInv, NEW t \in Tasks, runtimes[t] = NoCaller
  PROVE  /\ wins[t] = 0
         /\ t \notin subs /\ t \notin todo
         /\ \A q \in Callers : task[q] = t => pc[q] \notin HasRuntime
<1>1. wins[t] = 0
  <2>1. wins[t] \in 0 .. 1
    BY DEF IInv, TypeOK
  <2>2. wins[t] # 1
    BY RegistrationAssumption DEF IInv, RegistrationStands
  <2> QED
    BY <2>1, <2>2
<1>2. t \notin subs /\ t \notin todo
  BY <1>1 DEF IInv, SubscriptionReason
<1>3. \A q \in Callers : task[q] = t => pc[q] \notin HasRuntime
  BY RegistrationAssumption DEF IInv, UndoesItsOwn
<1> QED
  BY <1>1, <1>2, <1>3

(* While a call holds the runtime of its task, no call for it has succeeded. *)
LEMMA NoSuccessYet ==
  ASSUME IInv, NEW p \in Callers, pc[p] \in HasRuntime
  PROVE  /\ wins[task[p]] = 0 /\ runtimes[task[p]] = p
         /\ task[p] \notin subs /\ task[p] \notin todo
BY RegistrationAssumption DEF IInv, TypeOK, UndoesItsOwn, Unfinished, SubscriptionReason

(* A new call has done nothing yet. *)
LEMMA CallStep ==
  ASSUME NEW p \in Callers, NEW t \in Tasks, IInv, Call(p, t)
  PROVE  IInv'
<1>0. TypeOK'
  BY DEF IInv, TypeOK, Call, Go, maps, Stages
<1>1. UndoesItsOwn'
  BY <1>0 DEF IInv, TypeOK, UndoesItsOwn, Call, Go, maps, HasAgent, HasRuntime, HasRoute, Key
<1>2. RegistrationStands'
  BY <1>0 DEF IInv, TypeOK, RegistrationStands, Call, Go, maps
<1>3. Unfinished'
  BY <1>0 DEF IInv, TypeOK, Unfinished, Call, Go, maps, HasAgent, HasRuntime, HasRoute
<1>4. Saved'
  BY <1>0 DEF IInv, TypeOK, Saved, Call, Go, maps, Recorded
<1>5. AgentReason'
  <2> SUFFICES ASSUME NEW u \in Tasks, NEW n \in Names, NEW q \in Callers
               PROVE  (agents[<<u, n>>] = q =>
                       /\ name[q] = n
                       /\ \/ pc[q] \in HasAgent /\ task[q] = u
                          \/ wins[u] = 1 /\ runtimes[u] = q)'
    BY <1>0 DEF AgentReason, TypeOK
  <2>1. CASE q = p
    BY <2>1, <1>0 DEF IInv, TypeOK, AgentReason, Call, Go, maps, HasAgent, HasRuntime, HasRoute
  <2>2. CASE q # p
    BY <2>2, <1>0 DEF IInv, TypeOK, AgentReason, Call, Go, maps, HasAgent
  <2> QED
    BY <2>1, <2>2
<1>6. RuntimeReason'
  BY <1>0 DEF IInv, TypeOK, RuntimeReason, Call, Go, maps, HasRuntime, HasRoute
<1>7. RecordReason'
  BY <1>0 DEF IInv, TypeOK, RecordReason, Call, Go, maps, HasRoute, MayHaveRecord
<1>8. RouteReason'
  BY <1>0 DEF IInv, TypeOK, RouteReason, Call, Go, maps, HasRoute
<1>9. SubscriptionReason'
  BY <1>0 DEF IInv, TypeOK, SubscriptionReason, Call, Go, maps
<1> QED
  BY <1>0, <1>1, <1>2, <1>3, <1>4, <1>5, <1>6, <1>7, <1>8, <1>9 DEF IInv

(* Nor has one that has only looked. *)
LEMMA CheckRegisteredStep ==
  ASSUME NEW p \in Callers, IInv, CheckRegistered(p)
  PROVE  IInv'
<1>0. TypeOK'
  BY DEF IInv, TypeOK, CheckRegistered, Go, maps, Stages
<1>1. UndoesItsOwn'
  BY <1>0 DEF IInv, TypeOK, UndoesItsOwn, CheckRegistered, Go, maps, HasAgent, HasRuntime,
     HasRoute, Key
<1>2. RegistrationStands'
  BY <1>0 DEF IInv, TypeOK, RegistrationStands, CheckRegistered, Go, maps
<1>3. Unfinished'
  BY <1>0 DEF IInv, TypeOK, Unfinished, CheckRegistered, Go, maps, HasAgent, HasRuntime, HasRoute
<1>4. Saved'
  BY <1>0 DEF IInv, TypeOK, Saved, CheckRegistered, Go, maps, Recorded
<1>5. AgentReason'
  BY <1>0 DEF IInv, TypeOK, AgentReason, CheckRegistered, Go, maps, HasAgent, HasRuntime, HasRoute
<1>6. RuntimeReason'
  BY <1>0 DEF IInv, TypeOK, RuntimeReason, CheckRegistered, Go, maps, HasRuntime, HasRoute
<1>7. RecordReason'
  BY <1>0 DEF IInv, TypeOK, RecordReason, CheckRegistered, Go, maps, HasRoute, MayHaveRecord
<1>8. RouteReason'
  BY <1>0 DEF IInv, TypeOK, RouteReason, CheckRegistered, Go, maps, HasRoute
<1>9. SubscriptionReason'
  BY <1>0 DEF IInv, TypeOK, SubscriptionReason, CheckRegistered, Go, maps
<1> QED
  BY <1>0, <1>1, <1>2, <1>3, <1>4, <1>5, <1>6, <1>7, <1>8, <1>9 DEF IInv

(* The key was free, so no winner and nobody at work relies on it. *)
LEMMA RegisterTaskAgentStep ==
  ASSUME NEW p \in Callers, IInv, RegisterTaskAgent(p)
  PROVE  IInv'
<1>0. TypeOK'
  BY DEF IInv, TypeOK, RegisterTaskAgent, Go, Stages
<1>1. UndoesItsOwn'
  <2> SUFFICES ASSUME NEW q \in Callers
               PROVE  (/\ pc[q] \in HasAgent   => agents[Key(q)] = q
                       /\ pc[q] \in HasRuntime => runtimes[task[q]] = q
                       /\ pc[q] \in HasRoute   => route[task[q]] = q)'
    BY <1>0 DEF UndoesItsOwn, TypeOK
  <2>1. CASE q = p
    BY <2>1, <1>0 DEF IInv, TypeOK, UndoesItsOwn, RegisterTaskAgent, Go, HasAgent, HasRuntime,
       HasRoute, Key
  <2>2. CASE q # p
    BY <2>2, <1>0, RegistrationAssumption DEF IInv, TypeOK, UndoesItsOwn, RegisterTaskAgent, Go,
       HasAgent, HasRuntime, HasRoute, Key
  <2> QED
    BY <2>1, <2>2
<1>2. RegistrationStands'
  BY RegistrationAssumption, <1>0 DEF IInv, TypeOK, RegistrationStands, RegisterTaskAgent, Go
<1>3. Unfinished'
  BY RegistrationAssumption, <1>0 DEF IInv, TypeOK, RegistrationStands, Unfinished,
     RegisterTaskAgent, Go, HasAgent, HasRuntime, HasRoute, Key
<1>4. Saved'
  BY <1>0 DEF IInv, TypeOK, Saved, RegisterTaskAgent, Go, Recorded
<1>5. AgentReason'
  <2> SUFFICES ASSUME NEW t \in Tasks, NEW n \in Names, NEW q \in Callers
               PROVE  (agents[<<t, n>>] = q =>
                       /\ name[q] = n
                       /\ \/ pc[q] \in HasAgent /\ task[q] = t
                          \/ wins[t] = 1 /\ runtimes[t] = q)'
    BY <1>0 DEF AgentReason, TypeOK
  <2>1. CASE <<t, n>> = Key(p)
    BY <2>1, <1>0 DEF IInv, TypeOK, AgentReason, RegisterTaskAgent, Go, HasAgent, HasRuntime,
       HasRoute, Key
  <2>2. CASE <<t, n>> # Key(p)
    BY <2>2, <1>0 DEF IInv, TypeOK, Saved, AgentReason, RegisterTaskAgent, Go, HasAgent, Key
  <2> QED
    BY <2>1, <2>2
<1>6. RuntimeReason'
  BY <1>0 DEF IInv, TypeOK, RuntimeReason, RegisterTaskAgent, Go, HasRuntime, HasRoute
<1>7. RecordReason'
  BY <1>0 DEF IInv, TypeOK, RecordReason, RegisterTaskAgent, Go, HasRoute, MayHaveRecord
<1>8. RouteReason'
  BY <1>0 DEF IInv, TypeOK, RouteReason, RegisterTaskAgent, Go, HasRoute
<1>9. SubscriptionReason'
  BY <1>0 DEF IInv, TypeOK, SubscriptionReason, RegisterTaskAgent, Go
<1> QED
  BY <1>0, <1>1, <1>2, <1>3, <1>4, <1>5, <1>6, <1>7, <1>8, <1>9 DEF IInv

(* No runtime, so no registration of the task has succeeded. *)
LEMMA RegisterRuntimeStep ==
  ASSUME NEW p \in Callers, IInv, RegisterRuntime(p)
  PROVE  IInv'
<1>0. TypeOK'
  BY DEF IInv, TypeOK, RegisterRuntime, Go, Stages
<1>1. UndoesItsOwn'
  BY RegistrationAssumption, <1>0 DEF IInv, TypeOK, UndoesItsOwn, RegisterRuntime, Go, HasAgent,
     HasRuntime, HasRoute, Key
<1>2. RegistrationStands'
  <2> SUFFICES ASSUME NEW t \in Tasks
               PROVE  (wins[t] = 1 =>
                         /\ runtimes[t] \in Callers
                         /\ agents[<<t, name[runtimes[t]]>>] = runtimes[t]
                         /\ record[t] = runtimes[t]
                         /\ ~closed => t \in subs /\ route[t] = runtimes[t])'
    BY <1>0 DEF RegistrationStands, TypeOK
  <2>1. CASE t = task[p]
    BY <2>1, <1>0, NoRuntime DEF IInv, TypeOK, RegistrationStands, RegisterRuntime, Go
  <2>2. CASE t # task[p]
    BY <2>2, <1>0 DEF IInv, TypeOK, RegistrationStands, RegisterRuntime, Go
  <2> QED
    BY <2>1, <2>2
<1>3. Unfinished'
  <2> SUFFICES ASSUME NEW q \in Callers
               PROVE  (/\ pc[q] \in HasRuntime => wins[task[q]] = 0
                       /\ pc[q] \in HasAgent   => ~(wins[task[q]] = 1 /\ runtimes[task[q]] = q))'
    BY <1>0 DEF Unfinished, TypeOK
  <2>1. CASE q = p
    BY <2>1, <1>0, NoRuntime DEF IInv, TypeOK, Unfinished, RegisterRuntime, Go, HasAgent,
       HasRuntime, HasRoute
  <2>2. CASE q # p
    BY <2>2, <1>0 DEF IInv, TypeOK, Unfinished, RegisterRuntime, Go, HasRuntime
  <2> QED
    BY <2>1, <2>2
<1>4. Saved'
  BY <1>0 DEF IInv, TypeOK, Saved, RegisterRuntime, Go, Recorded
<1>5. AgentReason'
  BY RegistrationAssumption, <1>0 DEF IInv, TypeOK, AgentReason, RegisterRuntime, Go, HasAgent,
     HasRuntime
<1>6. RuntimeReason'
  BY <1>0 DEF IInv, TypeOK, RuntimeReason, RegisterRuntime, Go, HasRuntime, HasRoute
<1>7. RecordReason'
  BY RegistrationAssumption, <1>0 DEF IInv, TypeOK, RecordReason, RegisterRuntime, Go, HasRoute,
     MayHaveRecord
<1>8. RouteReason'
  BY RegistrationAssumption, <1>0 DEF IInv, TypeOK, RouteReason, RegisterRuntime, Go, HasRoute
<1>9. SubscriptionReason'
  <2> SUFFICES ASSUME NEW t \in Tasks
               PROVE  (/\ t \in subs => ~closed /\ wins[t] = 1 /\ route[t] = runtimes[t]
                       /\ t \in todo => closed /\ wins[t] = 1 /\ route[t] = runtimes[t])'
    BY <1>0 DEF SubscriptionReason, TypeOK
  <2>1. CASE t = task[p]
    BY <2>1, <1>0, NoRuntime DEF IInv, TypeOK, SubscriptionReason, RegisterRuntime, Go
  <2>2. CASE t # task[p]
    BY <2>2, <1>0 DEF IInv, TypeOK, SubscriptionReason, RegisterRuntime, Go
  <2> QED
    BY <2>1, <2>2
<1> QED
  BY <1>0, <1>1, <1>2, <1>3, <1>4, <1>5, <1>6, <1>7, <1>8, <1>9 DEF IInv

(* The record replaced is not that of a success. *)
LEMMA SaveRecordStep ==
  ASSUME NEW p \in Callers, IInv, SaveRecord(p)
  PROVE  IInv'
<1>0. TypeOK'
  BY DEF IInv, TypeOK, SaveRecord, Go, Stages
<1>1. UndoesItsOwn'
  BY <1>0 DEF IInv, TypeOK, UndoesItsOwn, SaveRecord, Go, HasAgent, HasRuntime, HasRoute, Key
<1>2. RegistrationStands'
  BY <1>0 DEF IInv, TypeOK, UndoesItsOwn, RegistrationStands, SaveRecord, Go, HasRuntime
<1>3. Unfinished'
  BY <1>0 DEF IInv, TypeOK, Unfinished, SaveRecord, Go, HasRuntime
<1>4. Saved'
  <2> SUFFICES ASSUME NEW q \in Callers
               PROVE  (pc[q] \in Recorded => record[task[q]] = q)'
    BY <1>0 DEF Saved, TypeOK
  <2>1. CASE q = p
    BY <2>1, <1>0 DEF IInv, TypeOK, Saved, SaveRecord, Go, Recorded
  <2>2. CASE q # p
    BY <2>2, <1>0, NoSuccessYet DEF IInv, TypeOK, Saved, SaveRecord, Go, HasRuntime, HasRoute,
       Recorded
  <2> QED
    BY <2>1, <2>2
<1>5. AgentReason'
  BY <1>0 DEF IInv, TypeOK, AgentReason, SaveRecord, Go, HasAgent, HasRuntime
<1>6. RuntimeReason'
  BY <1>0 DEF IInv, TypeOK, RuntimeReason, SaveRecord, Go, HasRuntime
<1>7. RecordReason'
  BY <1>0 DEF IInv, TypeOK, RecordReason, SaveRecord, Go, MayHaveRecord
<1>8. RouteReason'
  BY <1>0 DEF IInv, TypeOK, RouteReason, SaveRecord, Go, HasRoute
<1>9. SubscriptionReason'
  BY <1>0 DEF IInv, TypeOK, SubscriptionReason, SaveRecord, Go
<1> QED
  BY <1>0, <1>1, <1>2, <1>3, <1>4, <1>5, <1>6, <1>7, <1>8, <1>9 DEF IInv

(* Whether or not the line was written. *)
LEMMA SaveFailsStep ==
  ASSUME NEW p \in Callers, IInv, SaveFails(p)
  PROVE  IInv'
<1>0. TypeOK'
  BY DEF IInv, TypeOK, SaveFails, Go, Stages
<1>1. UndoesItsOwn'
  BY <1>0 DEF IInv, TypeOK, UndoesItsOwn, SaveFails, Go, HasAgent, HasRuntime, HasRoute, Key
<1>2. RegistrationStands'
  BY <1>0 DEF IInv, TypeOK, UndoesItsOwn, RegistrationStands, SaveFails, Go, HasRuntime
<1>3. Unfinished'
  BY <1>0 DEF IInv, TypeOK, Unfinished, SaveFails, Go, HasRuntime
<1>4. Saved'
  <2> SUFFICES ASSUME NEW q \in Callers
               PROVE  (pc[q] \in Recorded => record[task[q]] = q)'
    BY <1>0 DEF Saved, TypeOK
  <2>1. CASE q = p
    BY <2>1, <1>0 DEF IInv, TypeOK, Saved, SaveFails, Go, Recorded
  <2>2. CASE q # p
    BY <2>2, <1>0, NoSuccessYet DEF IInv, TypeOK, Saved, SaveFails, Go, HasRuntime, HasRoute,
       Recorded
  <2> QED
    BY <2>1, <2>2
<1>5. AgentReason'
  BY <1>0 DEF IInv, TypeOK, AgentReason, SaveFails, Go, HasAgent, HasRuntime
<1>6. RuntimeReason'
  BY <1>0 DEF IInv, TypeOK, RuntimeReason, SaveFails, Go, HasRuntime
<1>7. RecordReason'
  BY <1>0 DEF IInv, TypeOK, RecordReason, SaveFails, Go, MayHaveRecord
<1>8. RouteReason'
  BY <1>0 DEF IInv, TypeOK, RouteReason, SaveFails, Go, HasRoute
<1>9. SubscriptionReason'
  BY <1>0 DEF IInv, TypeOK, SubscriptionReason, SaveFails, Go
<1> QED
  BY <1>0, <1>1, <1>2, <1>3, <1>4, <1>5, <1>6, <1>7, <1>8, <1>9 DEF IInv

(* The task had no subscription. *)
LEMMA AttachStep ==
  ASSUME NEW p \in Callers, IInv, Attach(p)
  PROVE  IInv'
<1>0. TypeOK'
  BY DEF IInv, TypeOK, Attach, Go, Stages
<1>1. UndoesItsOwn'
  BY RegistrationAssumption, <1>0 DEF IInv, TypeOK, UndoesItsOwn, Attach, Go, HasAgent,
     HasRuntime, HasRoute, Key
<1>2. RegistrationStands'
  BY RegistrationAssumption, <1>0 DEF IInv, TypeOK, RegistrationStands, Attach, Go
<1>3. Unfinished'
  BY <1>0 DEF IInv, TypeOK, Unfinished, Attach, Go, HasRuntime
<1>4. Saved'
  BY <1>0 DEF IInv, TypeOK, Saved, Attach, Go, Recorded
<1>5. AgentReason'
  BY <1>0 DEF IInv, TypeOK, AgentReason, Attach, Go, HasAgent, HasRuntime, HasRoute
<1>6. RuntimeReason'
  BY <1>0 DEF IInv, TypeOK, RuntimeReason, Attach, Go, HasRuntime, HasRoute
<1>7. RecordReason'
  BY <1>0 DEF IInv, TypeOK, RecordReason, Attach, Go, HasRoute, MayHaveRecord
<1>8. RouteReason'
  BY <1>0 DEF IInv, TypeOK, RouteReason, Attach, Go, HasRoute
<1>9. SubscriptionReason'
  BY <1>0 DEF IInv, TypeOK, UndoesItsOwn, SubscriptionReason, Attach, Go, HasRuntime
<1> QED
  BY <1>0, <1>1, <1>2, <1>3, <1>4, <1>5, <1>6, <1>7, <1>8, <1>9 DEF IInv

(* The first success for the task, or the way back. *)
LEMMA EnterSubscriptionStep ==
  ASSUME NEW p \in Callers, IInv, EnterSubscription(p)
  PROVE  IInv'
<1>0. TypeOK'
  BY DEF IInv, TypeOK, EnterSubscription, Succeeds, Go, maps, Stages, Unfinished, HasRuntime,
     HasRoute
<1>1. UndoesItsOwn'
  BY <1>0 DEF IInv, TypeOK, UndoesItsOwn, EnterSubscription, Succeeds, Go, maps, HasAgent,
     HasRuntime, HasRoute, Key
<1>2. RegistrationStands'
  <2> SUFFICES ASSUME NEW t \in Tasks
               PROVE  (wins[t] = 1 =>
                         /\ runtimes[t] \in Callers
                         /\ agents[<<t, name[runtimes[t]]>>] = runtimes[t]
                         /\ record[t] = runtimes[t]
                         /\ ~closed => t \in subs /\ route[t] = runtimes[t])'
    BY <1>0 DEF RegistrationStands, TypeOK
  <2>1. CASE t = task[p]
    BY <2>1, <1>0, NoSuccessYet DEF IInv, TypeOK, UndoesItsOwn, RegistrationStands, Saved,
       EnterSubscription, Succeeds, Go, HasAgent, HasRuntime, HasRoute, Recorded, Key
  <2>2. CASE t # task[p]
    BY <2>2, <1>0 DEF IInv, TypeOK, RegistrationStands, EnterSubscription, Succeeds, Go, maps
  <2> QED
    BY <2>1, <2>2
<1>3. Unfinished'
  <2> SUFFICES ASSUME NEW q \in Callers
               PROVE  (/\ pc[q] \in HasRuntime => wins[task[q]] = 0
                       /\ pc[q] \in HasAgent   => ~(wins[task[q]] = 1 /\ runtimes[task[q]] = q))'
    BY <1>0 DEF Unfinished, TypeOK
  <2>1. CASE q = p
    BY <2>1, <1>0 DEF IInv, TypeOK, Unfinished, EnterSubscription, Succeeds, Go, HasAgent,
       HasRuntime, HasRoute
  <2>2. CASE q # p
    BY <2>2, <1>0, NoSuccessYet DEF IInv, TypeOK, Unfinished, EnterSubscription, Succeeds, Go,
       maps, HasRuntime, HasRoute
  <2> QED
    BY <2>1, <2>2
<1>4. Saved'
  BY <1>0 DEF IInv, TypeOK, Saved, EnterSubscription, Succeeds, Go, maps, Recorded
<1>5. AgentReason'
  BY <1>0 DEF IInv, TypeOK, UndoesItsOwn, AgentReason, EnterSubscription, Succeeds, Go, maps,
     HasAgent, HasRuntime, HasRoute
<1>6. RuntimeReason'
  BY <1>0 DEF IInv, TypeOK, RuntimeReason, EnterSubscription, Succeeds, Go, maps, HasRuntime,
     HasRoute
<1>7. RecordReason'
  <2> SUFFICES ASSUME NEW t \in Tasks, NEW q \in Callers
               PROVE  (record[t] = q =>
                       \/ t \in faulty
                       \/ wins[t] = 1 /\ runtimes[t] = q
                       \/ pc[q] \in MayHaveRecord /\ task[q] = t)'
    BY <1>0 DEF RecordReason, TypeOK
  <2>1. CASE t = task[p]
    BY <2>1, <1>0, NoSuccessYet DEF IInv, TypeOK, RecordReason, EnterSubscription, Succeeds, Go,
       maps, HasRuntime, HasRoute, MayHaveRecord
  <2>2. CASE t # task[p]
    BY <2>2, <1>0 DEF IInv, TypeOK, RecordReason, EnterSubscription, Succeeds, Go, maps,
       MayHaveRecord
  <2> QED
    BY <2>1, <2>2
<1>8. RouteReason'
  <2> SUFFICES ASSUME NEW t \in Tasks, NEW q \in Callers
               PROVE  (route[t] = q =>
                       \/ pc[q] \in HasRoute /\ task[q] = t
                       \/ wins[t] = 1 /\ runtimes[t] = q /\ t \in subs \cup todo)'
    BY <1>0 DEF RouteReason, TypeOK
  <2>1. CASE t = task[p]
    BY <2>1, <1>0, NoSuccessYet DEF IInv, TypeOK, RouteReason, EnterSubscription, Succeeds, Go,
       maps, HasRuntime, HasRoute
  <2>2. CASE t # task[p]
    BY <2>2, <1>0 DEF IInv, TypeOK, RouteReason, EnterSubscription, Succeeds, Go, maps, HasRoute
  <2> QED
    BY <2>1, <2>2
<1>9. SubscriptionReason'
  <2>1. CASE closed
    BY <2>1, <1>0 DEF IInv, TypeOK, SubscriptionReason, EnterSubscription, Go, maps
  <2>2. CASE ~closed
    <3>1. task[p] \notin todo /\ runtimes[task[p]] = p /\ route[task[p]] = p /\ wins[task[p]] = 0
      BY NoSuccessYet DEF IInv, UndoesItsOwn, EnterSubscription, Succeeds, Go, HasRuntime,
         HasRoute
    <3>2. wins' = [wins EXCEPT ![task[p]] = 1]
      BY <2>2, <3>1 DEF EnterSubscription, Succeeds, IInv, TypeOK
    <3>3. todo = {}
      BY <2>2 DEF IInv, SubscriptionReason
    <3> QED
      BY <2>2, <3>1, <3>2, <3>3 DEF IInv, TypeOK, SubscriptionReason, EnterSubscription,
         Succeeds, Go
  <2> QED
    BY <2>1, <2>2
<1> QED
  BY <1>0, <1>1, <1>2, <1>3, <1>4, <1>5, <1>6, <1>7, <1>8, <1>9 DEF IInv

(* The subscription was p's own and not yet entered. *)
LEMMA UndoRouteStep ==
  ASSUME NEW p \in Callers, IInv, UndoRoute(p)
  PROVE  IInv'
<1>0. TypeOK'
  BY DEF IInv, TypeOK, UndoRoute, Go, Stages
<1>1. UndoesItsOwn'
  <2> SUFFICES ASSUME NEW q \in Callers
               PROVE  (/\ pc[q] \in HasAgent   => agents[Key(q)] = q
                       /\ pc[q] \in HasRuntime => runtimes[task[q]] = q
                       /\ pc[q] \in HasRoute   => route[task[q]] = q)'
    BY <1>0 DEF UndoesItsOwn, TypeOK
  <2>1. CASE q = p
    BY <2>1, <1>0 DEF IInv, TypeOK, UndoesItsOwn, UndoRoute, Go, HasAgent, HasRuntime, HasRoute,
       Key
  <2>2. CASE q # p
    BY <2>2, <1>0 DEF IInv, TypeOK, UndoesItsOwn, UndoRoute, Go, HasAgent, HasRuntime, HasRoute,
       Key
  <2> QED
    BY <2>1, <2>2
<1>2. RegistrationStands'
  BY <1>0 DEF IInv, TypeOK, RegistrationStands, Unfinished, UndoRoute, Go, HasRuntime, HasRoute
<1>3. Unfinished'
  BY <1>0 DEF IInv, TypeOK, Unfinished, UndoRoute, Go, HasRuntime, HasRoute
<1>4. Saved'
  BY <1>0 DEF IInv, TypeOK, Saved, UndoRoute, Go, Recorded
<1>5. AgentReason'
  BY <1>0 DEF IInv, TypeOK, AgentReason, UndoRoute, Go, HasAgent, HasRuntime
<1>6. RuntimeReason'
  BY <1>0 DEF IInv, TypeOK, RuntimeReason, UndoRoute, Go, HasRuntime
<1>7. RecordReason'
  BY <1>0 DEF IInv, TypeOK, RecordReason, UndoRoute, Go, MayHaveRecord
<1>8. RouteReason'
  BY RegistrationAssumption, <1>0 DEF IInv, TypeOK, RouteReason, UndoRoute, Go, HasRoute
<1>9. SubscriptionReason'
  BY <1>0 DEF IInv, TypeOK, Unfinished, SubscriptionReason, UndoRoute, Go, HasRuntime, HasRoute
<1> QED
  BY <1>0, <1>1, <1>2, <1>3, <1>4, <1>5, <1>6, <1>7, <1>8, <1>9 DEF IInv

(* Nobody has succeeded, so the record was not that of a success. *)
LEMMA UndoRecordStep ==
  ASSUME NEW p \in Callers, IInv, UndoRecord(p)
  PROVE  IInv'
<1>0. TypeOK'
  BY DEF IInv, TypeOK, UndoRecord, Go, Stages
<1>1. UndoesItsOwn'
  BY <1>0 DEF IInv, TypeOK, UndoesItsOwn, UndoRecord, Go, HasAgent, HasRuntime, HasRoute, Key
<1>2. RegistrationStands'
  BY <1>0 DEF IInv, TypeOK, RegistrationStands, Unfinished, UndoRecord, Go, HasRuntime
<1>3. Unfinished'
  BY <1>0 DEF IInv, TypeOK, Unfinished, UndoRecord, Go, HasRuntime
<1>4. Saved'
  <2> SUFFICES ASSUME NEW q \in Callers
               PROVE  (pc[q] \in Recorded => record[task[q]] = q)'
    BY <1>0 DEF Saved, TypeOK
  <2>1. CASE q = p
    BY <2>1, <1>0 DEF IInv, TypeOK, Saved, UndoRecord, Go, Recorded
  <2>2. CASE q # p
    BY <2>2, <1>0, NoSuccessYet DEF IInv, TypeOK, Saved, UndoRecord, Go, HasRuntime, HasRoute,
       Recorded
  <2> QED
    BY <2>1, <2>2
<1>5. AgentReason'
  BY <1>0 DEF IInv, TypeOK, AgentReason, UndoRecord, Go, HasAgent, HasRuntime
<1>6. RuntimeReason'
  BY <1>0 DEF IInv, TypeOK, RuntimeReason, UndoRecord, Go, HasRuntime
<1>7. RecordReason'
  BY RegistrationAssumption, <1>0 DEF IInv, TypeOK, RecordReason, UndoRecord, Go, MayHaveRecord
<1>8. RouteReason'
  BY <1>0 DEF IInv, TypeOK, RouteReason, UndoRecord, Go, HasRoute
<1>9. SubscriptionReason'
  BY <1>0 DEF IInv, TypeOK, SubscriptionReason, UndoRecord, Go
<1> QED
  BY <1>0, <1>1, <1>2, <1>3, <1>4, <1>5, <1>6, <1>7, <1>8, <1>9 DEF IInv

(* The runtime was p's own and nothing is routed to it. *)
LEMMA UndoRuntimeStep ==
  ASSUME NEW p \in Callers, IInv, UndoRuntime(p)
  PROVE  IInv'
<1>0. TypeOK'
  BY DEF IInv, TypeOK, UndoRuntime, Go, Stages
<1>1. UndoesItsOwn'
  <2> SUFFICES ASSUME NEW q \in Callers
               PROVE  (/\ pc[q] \in HasAgent   => agents[Key(q)] = q
                       /\ pc[q] \in HasRuntime => runtimes[task[q]] = q
                       /\ pc[q] \in HasRoute   => route[task[q]] = q)'
    BY <1>0 DEF UndoesItsOwn, TypeOK
  <2>1. CASE q = p
    BY <2>1, <1>0 DEF IInv, TypeOK, UndoesItsOwn, UndoRuntime, Go, HasAgent, HasRuntime,
       HasRoute, Key
  <2>2. CASE q # p
    BY <2>2, <1>0 DEF IInv, TypeOK, UndoesItsOwn, UndoRuntime, Go, HasAgent, HasRuntime,
       HasRoute, Key
  <2> QED
    BY <2>1, <2>2
<1>2. RegistrationStands'
  BY <1>0 DEF IInv, TypeOK, RegistrationStands, Unfinished, UndoRuntime, Go, HasRuntime
<1>3. Unfinished'
  BY <1>0 DEF IInv, TypeOK, Unfinished, UndoRuntime, Go, HasRuntime
<1>4. Saved'
  BY <1>0 DEF IInv, TypeOK, Saved, UndoRuntime, Go, Recorded
<1>5. AgentReason'
  BY <1>0 DEF IInv, TypeOK, UndoesItsOwn, AgentReason, UndoRuntime, Go, HasAgent, HasRuntime
<1>6. RuntimeReason'
  BY RegistrationAssumption, <1>0 DEF IInv, TypeOK, RuntimeReason, UndoRuntime, Go, HasRuntime
<1>7. RecordReason'
  BY <1>0 DEF IInv, TypeOK, Unfinished, RecordReason, UndoRuntime, Go, HasRuntime, HasRoute,
     MayHaveRecord
<1>8. RouteReason'
  BY <1>0 DEF IInv, TypeOK, Unfinished, RouteReason, UndoRuntime, Go, HasRuntime, HasRoute
<1>9. SubscriptionReason'
  BY <1>0 DEF IInv, TypeOK, Unfinished, SubscriptionReason, UndoRuntime, Go, HasRuntime
<1> QED
  BY <1>0, <1>1, <1>2, <1>3, <1>4, <1>5, <1>6, <1>7, <1>8, <1>9 DEF IInv

(* The agent was p's own. *)
LEMMA UndoAgentStep ==
  ASSUME NEW p \in Callers, IInv, UndoAgent(p)
  PROVE  IInv'
<1>0. TypeOK'
  BY DEF IInv, TypeOK, UndoAgent, Go, Stages
<1>1. UndoesItsOwn'
  BY <1>0 DEF IInv, TypeOK, UndoesItsOwn, UndoAgent, Go, HasAgent, HasRuntime, HasRoute, Key
<1>2. RegistrationStands'
  <2> SUFFICES ASSUME NEW t \in Tasks
               PROVE  (wins[t] = 1 =>
                         /\ runtimes[t] \in Callers
                         /\ agents[<<t, name[runtimes[t]]>>] = runtimes[t]
                         /\ record[t] = runtimes[t]
                         /\ ~closed => t \in subs /\ route[t] = runtimes[t])'
    BY <1>0 DEF RegistrationStands, TypeOK
  <2>1. CASE t = task[p]
    BY <2>1, <1>0 DEF IInv, TypeOK, UndoesItsOwn, RegistrationStands, Unfinished, UndoAgent, Go,
       HasAgent
  <2>2. CASE t # task[p]
    BY <2>2, <1>0 DEF IInv, TypeOK, RegistrationStands, UndoAgent, Go, Key
  <2> QED
    BY <2>1, <2>2
<1>3. Unfinished'
  BY <1>0 DEF IInv, TypeOK, Unfinished, UndoAgent, Go, HasAgent, HasRuntime, HasRoute
<1>4. Saved'
  BY <1>0 DEF IInv, TypeOK, Saved, UndoAgent, Go, Recorded
<1>5. AgentReason'
  BY RegistrationAssumption, <1>0 DEF IInv, TypeOK, AgentReason, UndoAgent, Go, HasAgent, Key
<1>6. RuntimeReason'
  BY <1>0 DEF IInv, TypeOK, RuntimeReason, UndoAgent, Go, HasRuntime, HasRoute
<1>7. RecordReason'
  BY <1>0 DEF IInv, TypeOK, RecordReason, UndoAgent, Go, HasRoute, MayHaveRecord
<1>8. RouteReason'
  BY <1>0 DEF IInv, TypeOK, RouteReason, UndoAgent, Go, HasRoute
<1>9. SubscriptionReason'
  BY <1>0 DEF IInv, TypeOK, SubscriptionReason, UndoAgent, Go
<1> QED
  BY <1>0, <1>1, <1>2, <1>3, <1>4, <1>5, <1>6, <1>7, <1>8, <1>9 DEF IInv

(* Subscriptions pass from the map to what is left to do. *)
LEMMA CloseStep ==
  ASSUME IInv, Close
  PROVE  IInv'
<1>0. TypeOK'
  BY DEF IInv, TypeOK, Close, Go, Stages
<1>1. UndoesItsOwn'
  BY <1>0 DEF IInv, TypeOK, UndoesItsOwn, Close, Go, HasAgent, HasRuntime, HasRoute, Key
<1>2. RegistrationStands'
  BY <1>0 DEF IInv, TypeOK, RegistrationStands, Close, Go
<1>3. Unfinished'
  BY <1>0 DEF IInv, TypeOK, Unfinished, Close, Go, HasRuntime
<1>4. Saved'
  BY <1>0 DEF IInv, TypeOK, Saved, Close, Go, Recorded
<1>5. AgentReason'
  BY <1>0 DEF IInv, TypeOK, AgentReason, Close, Go, HasAgent
<1>6. RuntimeReason'
  BY <1>0 DEF IInv, TypeOK, RuntimeReason, Close, Go, HasRuntime
<1>7. RecordReason'
  BY <1>0 DEF IInv, TypeOK, RecordReason, Close, Go, MayHaveRecord
<1>8. RouteReason'
  BY <1>0 DEF IInv, TypeOK, RegistrationStands, RouteReason, Close, Go, HasRoute
<1>9. SubscriptionReason'
  BY <1>0 DEF IInv, TypeOK, SubscriptionReason, Close, Go
<1> QED
  BY <1>0, <1>1, <1>2, <1>3, <1>4, <1>5, <1>6, <1>7, <1>8, <1>9 DEF IInv

(* Only after closing. *)
LEMMA UnsubscribeStep ==
  ASSUME NEW t \in Tasks, IInv, Unsubscribe(t)
  PROVE  IInv'
<1>0. TypeOK'
  BY DEF IInv, TypeOK, Unsubscribe, Go, Stages
<1>1. UndoesItsOwn'
  BY <1>0 DEF IInv, TypeOK, UndoesItsOwn, Unfinished, SubscriptionReason, Unsubscribe, Go,
     HasAgent, HasRuntime, HasRoute, Key
<1>2. RegistrationStands'
  BY <1>0 DEF IInv, TypeOK, RegistrationStands, SubscriptionReason, Unsubscribe, Go
<1>3. Unfinished'
  BY <1>0 DEF IInv, TypeOK, Unfinished, Unsubscribe, Go, HasRuntime
<1>4. Saved'
  BY <1>0 DEF IInv, TypeOK, Saved, Unsubscribe, Go, Recorded
<1>5. AgentReason'
  BY <1>0 DEF IInv, TypeOK, AgentReason, Unsubscribe, Go, HasAgent
<1>6. RuntimeReason'
  BY <1>0 DEF IInv, TypeOK, RuntimeReason, Unsubscribe, Go, HasRuntime
<1>7. RecordReason'
  BY <1>0 DEF IInv, TypeOK, RecordReason, Unsubscribe, Go, MayHaveRecord
<1>8. RouteReason'
  BY RegistrationAssumption, <1>0 DEF IInv, TypeOK, RouteReason, Unsubscribe, Go, HasRoute
<1>9. SubscriptionReason'
  BY <1>0 DEF IInv, TypeOK, SubscriptionReason, Unsubscribe, Go
<1> QED
  BY <1>0, <1>1, <1>2, <1>3, <1>4, <1>5, <1>6, <1>7, <1>8, <1>9 DEF IInv

(* The bus is not in the invariant. *)
LEMMA CloseBusStep ==
  ASSUME IInv, CloseBus
  PROVE  IInv'
<1>0. TypeOK'
  BY DEF IInv, TypeOK, CloseBus, Go, maps, Stages
<1>1. UndoesItsOwn'
  BY <1>0 DEF IInv, TypeOK, UndoesItsOwn, CloseBus, Go, maps, HasAgent, HasRuntime, HasRoute, Key
<1>2. RegistrationStands'
  BY <1>0 DEF IInv, TypeOK, RegistrationStands, CloseBus, Go, maps
<1>3. Unfinished'
  BY <1>0 DEF IInv, TypeOK, Unfinished, CloseBus, Go, maps, HasRuntime
<1>4. Saved'
  BY <1>0 DEF IInv, TypeOK, Saved, CloseBus, Go, maps, Recorded
<1>5. AgentReason'
  BY <1>0 DEF IInv, TypeOK, AgentReason, CloseBus, Go, maps, HasAgent
<1>6. RuntimeReason'
  BY <1>0 DEF IInv, TypeOK, RuntimeReason, CloseBus, Go, maps, HasRuntime
<1>7. RecordReason'
  BY <1>0 DEF IInv, TypeOK, RecordReason, CloseBus, Go, maps, MayHaveRecord
<1>8. RouteReason'
  BY <1>0 DEF IInv, TypeOK, RouteReason, CloseBus, Go, maps, HasRoute
<1>9. SubscriptionReason'
  BY <1>0 DEF IInv, TypeOK, SubscriptionReason, CloseBus, Go, maps
<1> QED
  BY <1>0, <1>1, <1>2, <1>3, <1>4, <1>5, <1>6, <1>7, <1>8, <1>9 DEF IInv

(* Only where there is no subscription. *)
LEMMA StrangerComesStep ==
  ASSUME NEW t \in Tasks, IInv, StrangerComes(t)
  PROVE  IInv'
<1>0. TypeOK'
  BY DEF IInv, TypeOK, StrangerComes, Go, Stages
<1>1. UndoesItsOwn'
  BY RegistrationAssumption, <1>0 DEF IInv, TypeOK, UndoesItsOwn, StrangerComes, Go, HasAgent,
     HasRuntime, HasRoute, Key
<1>2. RegistrationStands'
  BY RegistrationAssumption, <1>0 DEF IInv, TypeOK, RegistrationStands, StrangerComes, Go
<1>3. Unfinished'
  BY <1>0 DEF IInv, TypeOK, Unfinished, StrangerComes, Go, HasRuntime
<1>4. Saved'
  BY <1>0 DEF IInv, TypeOK, Saved, StrangerComes, Go, Recorded
<1>5. AgentReason'
  BY <1>0 DEF IInv, TypeOK, AgentReason, StrangerComes, Go, HasAgent
<1>6. RuntimeReason'
  BY <1>0 DEF IInv, TypeOK, RuntimeReason, StrangerComes, Go, HasRuntime
<1>7. RecordReason'
  BY <1>0 DEF IInv, TypeOK, RecordReason, StrangerComes, Go, MayHaveRecord
<1>8. RouteReason'
  BY RegistrationAssumption, <1>0 DEF IInv, TypeOK, RouteReason, StrangerComes, Go, HasRoute
<1>9. SubscriptionReason'
  <2> SUFFICES ASSUME NEW u \in Tasks
               PROVE  (/\ u \in subs => ~closed /\ wins[u] = 1 /\ route[u] = runtimes[u]
                       /\ u \in todo => closed /\ wins[u] = 1 /\ route[u] = runtimes[u])'
    BY <1>0 DEF SubscriptionReason, TypeOK
  <2>1. CASE u = t
    BY <2>1, <1>0, NoRuntime DEF IInv, TypeOK, SubscriptionReason, StrangerComes, Go
  <2>2. CASE u # t
    BY <2>2, <1>0 DEF IInv, TypeOK, SubscriptionReason, StrangerComes, Go
  <2> QED
    BY <2>1, <2>2
<1> QED
  BY <1>0, <1>1, <1>2, <1>3, <1>4, <1>5, <1>6, <1>7, <1>8, <1>9 DEF IInv

(* No subscription of this runtime. *)
LEMMA StrangerLeavesStep ==
  ASSUME NEW t \in Tasks, IInv, StrangerLeaves(t)
  PROVE  IInv'
<1>0. TypeOK'
  BY DEF IInv, TypeOK, StrangerLeaves, Go, Stages
<1>1. UndoesItsOwn'
  BY RegistrationAssumption, <1>0 DEF IInv, TypeOK, UndoesItsOwn, StrangerLeaves, Go, HasAgent,
     HasRuntime, HasRoute, Key
<1>2. RegistrationStands'
  BY RegistrationAssumption, <1>0 DEF IInv, TypeOK, RegistrationStands, StrangerLeaves, Go
<1>3. Unfinished'
  BY <1>0 DEF IInv, TypeOK, Unfinished, StrangerLeaves, Go, HasRuntime
<1>4. Saved'
  BY <1>0 DEF IInv, TypeOK, Saved, StrangerLeaves, Go, Recorded
<1>5. AgentReason'
  BY <1>0 DEF IInv, TypeOK, AgentReason, StrangerLeaves, Go, HasAgent
<1>6. RuntimeReason'
  BY <1>0 DEF IInv, TypeOK, RuntimeReason, StrangerLeaves, Go, HasRuntime
<1>7. RecordReason'
  BY <1>0 DEF IInv, TypeOK, RecordReason, StrangerLeaves, Go, MayHaveRecord
<1>8. RouteReason'
  BY RegistrationAssumption, <1>0 DEF IInv, TypeOK, RouteReason, StrangerLeaves, Go, HasRoute
<1>9. SubscriptionReason'
  BY RegistrationAssumption, <1>0 DEF IInv, TypeOK, SubscriptionReason, StrangerLeaves, Go
<1> QED
  BY <1>0, <1>1, <1>2, <1>3, <1>4, <1>5, <1>6, <1>7, <1>8, <1>9 DEF IInv

LEMMA StepIInv == IInv /\ [Next]_vars => IInv'
<1> SUFFICES ASSUME IInv, [Next]_vars PROVE IInv'
  OBVIOUS
<1>1. CASE UNCHANGED vars
  BY <1>1 DEF vars, maps, IInv, TypeOK, UndoesItsOwn, RegistrationStands, Unfinished, Saved,
     AgentReason, RuntimeReason, RecordReason, RouteReason, SubscriptionReason, Key
<1>2. ASSUME NEW p \in Callers, Step(p) PROVE IInv'
  BY <1>2, CheckRegisteredStep, RegisterTaskAgentStep, RegisterRuntimeStep, SaveRecordStep,
     SaveFailsStep, AttachStep, EnterSubscriptionStep, UndoRouteStep, UndoRecordStep,
     UndoRuntimeStep, UndoAgentStep DEF Step
<1>3. ASSUME NEW p \in Callers, NEW t \in Tasks, Call(p, t) PROVE IInv'
  BY <1>3, CallStep
<1>4. ASSUME NEW t \in Tasks, Unsubscribe(t) \/ StrangerComes(t) \/ StrangerLeaves(t) PROVE IInv'
  BY <1>4, UnsubscribeStep, StrangerComesStep, StrangerLeavesStep
<1>5. CASE Close \/ CloseBus
  BY <1>5, CloseStep, CloseBusStep
<1> QED
  BY <1>1, <1>2, <1>3, <1>4, <1>5 DEF Next

(* The inductive invariant holds: every entry has its reason. *)
THEOREM Inductive == Spec => []IInv
BY InitIInv, StepIInv, PTL DEF Spec

-----------------------------------------------------------------------------
(* The maps and the calls have their types, and no task is registered twice. *)
THEOREM TypeCorrect == Spec => []TypeOK
<1>1. IInv => TypeOK
  BY DEF IInv
<1> QED
  BY <1>1, Inductive, PTL

(* A call that fails takes out only what it put in. *)
THEOREM RollBackIsLocal == Spec => []UndoesItsOwn
<1>1. IInv => UndoesItsOwn
  BY DEF IInv
<1> QED
  BY <1>1, Inductive, PTL

(* What has been registered stays. *)
THEOREM RegistrationIsFinal == Spec => []RegistrationStands
<1>1. IInv => RegistrationStands
  BY DEF IInv
<1> QED
  BY <1>1, Inductive, PTL

(* A routed event finds the runtime and the agent of its task. *)
THEOREM RoutesAreServed == Spec => []RoutedIsServed
<1>1. IInv => RoutedIsServed
  <2> SUFFICES ASSUME IInv, NEW t \in Tasks, route[t] \in Callers
               PROVE  /\ runtimes[t] = route[t]
                      /\ agents[<<t, name[route[t]]>>] = route[t]
    BY DEF RoutedIsServed
  <2>1. CASE wins[t] = 1 /\ runtimes[t] = route[t]
    BY <2>1 DEF IInv, RegistrationStands
  <2>2. CASE pc[route[t]] \in HasRoute /\ task[route[t]] = t
    BY <2>2 DEF IInv, UndoesItsOwn, HasRuntime, HasAgent, Key
  <2> QED
    BY <2>1, <2>2 DEF IInv, RouteReason
<1> QED
  BY <1>1, Inductive, PTL

(* Failed calls leave nothing behind. *)
THEOREM FailuresLeaveNothing == Spec => []NothingLeft
<1>1. IInv => NothingLeft
  <2> SUFFICES ASSUME IInv, NEW t \in Tasks, AtWork(t) = {}
               PROVE  /\ runtimes[t] = NoCaller <=> wins[t] = 0
                      /\ \A n \in Names : agents[<<t, n>>] \in {NoCaller, runtimes[t]}
                      /\ route[t] \in {NoCaller, Stranger, runtimes[t]}
                      /\ record[t] \in {NoCaller, OldRun, runtimes[t]} \/ t \in faulty
    BY DEF NothingLeft
  <2>1. \A q \in Callers : task[q] = t => pc[q] = "idle"
    BY DEF AtWork
  <2>2. \A q \in Callers : runtimes[t] = q => wins[t] = 1
    BY <2>1 DEF IInv, RuntimeReason, HasRuntime, HasRoute
  <2>3. runtimes[t] = NoCaller <=> wins[t] = 0
    BY <2>2, NoRuntime DEF IInv, TypeOK
  <2>4. \A n \in Names : agents[<<t, n>>] \in {NoCaller, runtimes[t]}
    BY <2>1 DEF IInv, TypeOK, AgentReason, HasAgent, HasRuntime, HasRoute
  <2>5. route[t] \in {NoCaller, Stranger, runtimes[t]}
    BY <2>1 DEF IInv, TypeOK, RouteReason, HasRoute
  <2>6. record[t] \in {NoCaller, OldRun, runtimes[t]} \/ t \in faulty
    BY <2>1 DEF IInv, TypeOK, RecordReason, MayHaveRecord, HasRoute
  <2> QED
    BY <2>3, <2>4, <2>5, <2>6
<1> QED
  BY <1>1, Inductive, PTL

(* Close leaves no route to the runtime, even against calls that overlap it. *)
THEOREM CloseSilences == Spec => []ClosedIsQuiet
<1>1. IInv => ClosedIsQuiet
  BY DEF IInv, ClosedIsQuiet, RouteReason, SubscriptionReason, AtWork, HasRoute
<1> QED
  BY <1>1, Inductive, PTL
=============================================================================
