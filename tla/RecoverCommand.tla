--------------------------- MODULE RecoverCommand ----------------------------
(***************************************************************************)
(* The recover command next to the commands of AsyncRunner.                *)
(***************************************************************************)
EXTENDS AsyncRunner

VARIABLE listed  \* the runs the command executed last listed as recovered

RecoverInit == Init /\ listed = {}

Recover ==
  /\ IsIdle
  /\ listed' = Recoverable
  /\ UNCHANGED vars

OtherCommand == Next /\ listed' = {}

RecoverSpec == RecoverInit /\ [][Recover \/ OtherCommand]_<<vars, listed>>

(* The command's description (and the help text) promise a resume event for a
   persisted run: a run it lists as recovered has something to go on with, or
   waits for its user.  Recover only lists. *)
RecoveredRunsGoOn == \A t \in listed : AsksUser(t) \/ Outstanding(t) > 0
=============================================================================
