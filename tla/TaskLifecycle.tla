--------------------------- MODULE TaskLifecycle ----------------------------
(***************************************************************************)
(* What the runtime promises of a task, without events, ids or effects: it *)
(* is started once, then its agent asks for one thing at a time and goes   *)
(* on when it is answered, failures are counted against a budget fixed at  *)
(* the start, and it ends once, for good.                                  *)
(***************************************************************************)
EXTENDS Naturals

CONSTANTS Tasks, DefaultMaxFailures, Budgets

VARIABLES phase, failures, budget
lifecycleVars == <<phase, failures, budget>>

Waiting == {"WaitingModel", "WaitingTool", "WaitingUserInput", "WaitingSubAgent"}
Active  == {"Running"} \cup Waiting

Init ==
  /\ phase = [t \in Tasks |-> "Created"]
  /\ failures = [t \in Tasks |-> 0]
  /\ budget = [t \in Tasks |-> DefaultMaxFailures]

Move(t, from, to) ==
  /\ phase[t] \in from
  /\ phase' = [phase EXCEPT ![t] = to]

(* A creation event sets the budget; the start makes it final. *)
Create(t) ==
  /\ \E to \in {"Created", "Running"} : Move(t, {"Created"}, to)
  /\ \E b \in Budgets \cup {budget[t], DefaultMaxFailures} : budget' = [budget EXCEPT ![t] = b]
  /\ UNCHANGED failures

Ask(t) ==
  /\ \E to \in Waiting : Move(t, {"Running"}, to)
  /\ UNCHANGED <<failures, budget>>

Answer(t) ==
  /\ Move(t, Waiting, "Running")
  /\ UNCHANGED <<failures, budget>>

(* A failure resumes the agent while the budget lasts, and then ends the task. *)
Fail(t) ==
  /\ failures' = [failures EXCEPT ![t] = @ + 1]
  /\ Move(t, Active, IF failures[t] = budget[t] THEN "Failed" ELSE "Running")
  /\ UNCHANGED budget

Finish(t) ==
  /\ Move(t, {"Running"}, "Completed")
  /\ UNCHANGED <<failures, budget>>

Cancel(t) ==
  /\ Move(t, {"Created"} \cup Active, "Cancelled")
  /\ UNCHANGED <<failures, budget>>

Next == \E t \in Tasks :
  Create(t) \/ Ask(t) \/ Answer(t) \/ Fail(t) \/ Finish(t) \/ Cancel(t)

Spec == Init /\ [][Next]_lifecycleVars
=============================================================================
