------------------------ MODULE MCInteractiveSession ------------------------
(* States that differ in what the last event was and did are one state: no
   action reads out, and handled matters only to an event that is delivered
   twice, which fresh ids exclude here. *)
EXTENDS InteractiveSession

View == <<st, snap, queue, calls, effects, seq, current, owned, session, typed, ui, history>>
=============================================================================
