------------------------------ MODULE Persistence ------------------------------
(***************************************************************************)
(* The files a run lives in between commands: the stores of task states,   *)
(* agent snapshots, runtimes and events, and the work queue.  All of them  *)
(* append a JSON line for a call and read the whole file to answer one.    *)
(* The mutex of a store excludes the callers of one process; two processes *)
(* (two commands, two terminals) share nothing but the file, and each may  *)
(* die at any point.                                                       *)
(*                                                                         *)
(* One file is looked at, of a kind that is chosen at first.  A record is  *)
(* written by one write to a file opened with O_APPEND; a process that     *)
(* dies may have written a part of it.                                     *)
(* A definition named Slip... is the one it precedes with a mistake in it. *)
(***************************************************************************)
EXTENDS JsonlFile, FiniteSets

CONSTANTS
  Procs,      \* processes
  Keys,       \* task ids, agents with a task id, event ids or effect ids
  MaxCalls,   \* how many calls that may write are made
  MaxCrashes  \* how many processes die

ASSUME PersistenceAssumption == Keys # {} /\ MaxCalls \in Nat /\ MaxCrashes \in Nat

VARIABLES
  kind,     \* which store it is
  file,     \* its file
  pc,       \* pc[p]: what the call of p does next, "idle" if p makes none
  op,       \* op[p]: the record the call of p is to write
  memory,   \* memory[p]: what the memory store of p's mirror holds, by key
  calls,    \* how many calls were made
  crashes,  \* how many processes died
  acked,    \* history: the records whose call returned without an error
  taken,    \* history: taken[k], how often k was popped
  torn,     \* history: a process died and left a line without its newline
  between,  \* history: stamps of the calls that were about to write just then
  raced,    \* history: the keys two processes read at a time to write them both
  foreign   \* history: foreign[p], keys that others changed since p knows them

history == <<acked, taken, torn, between, raced, foreign>>
vars == <<kind, file, pc, op, memory, calls, crashes, history>>

Kinds == {"states", "snapshots", "runtimes", "events", "queue"}
Mirrored == {"states", "snapshots"}
Record(k, n, gone) == [key |-> k, stamp |-> n, gone |-> gone]
NoOp == Record(CHOOSE k \in Keys : TRUE, NoRecord, FALSE)

Init ==
  /\ kind \in Kinds
  /\ file = EmptyFile
  /\ pc = [p \in Procs |-> "idle"]
  /\ op = [p \in Procs |-> NoOp]
  /\ memory = [p \in Procs |-> [k \in Keys |-> NoRecord]]
  /\ calls = 0 /\ crashes = 0
  /\ acked = {} /\ torn = FALSE /\ between = {} /\ raced = {}
  /\ taken = [k \in Keys |-> 0]
  /\ foreign = [p \in Procs |-> {}]

-----------------------------------------------------------------------------

(* A call of p that writes rec in the end, if anything *)
Calls(p, rec, first) ==
  /\ pc[p] = "idle" /\ calls < MaxCalls
  /\ calls' = calls + 1
  /\ pc' = [pc EXCEPT ![p] = first]
  /\ op' = [op EXCEPT ![p] = rec]
  /\ UNCHANGED <<kind, file, memory, crashes, history>>

SaveState(p, k)     == kind = "states" /\ Calls(p, Record(k, calls + 1, FALSE), "check")
SaveSnapshot(p, k)  == kind = "snapshots" /\ Calls(p, Record(k, calls + 1, FALSE), "check")
SaveRuntime(p, k)   == kind = "runtimes" /\ Calls(p, Record(k, calls + 1, FALSE), "check")
DeleteRuntime(p, k) == kind = "runtimes" /\ Calls(p, Record(k, calls + 1, TRUE), "check")
AppendEvent(p, k)   == kind = "events" /\ Calls(p, Record(k, calls + 1, FALSE), "read")
Enqueue(p, k)       == kind = "queue" /\ Calls(p, Record(k, calls + 1, FALSE), "write")
Pop(p)              == kind = "queue" /\ Calls(p, [NoOp EXCEPT !.stamp = calls + 1], "read")

(* Others that have read and are about to write the same of k *)
Rivals(p, k, gone) ==
  { q \in Procs \ {p} : pc[q] \in {"check", "write"} /\ op[q].key = k /\ op[q].gone = gone }
Race(p, k, gone) == raced' = IF Rivals(p, k, gone) = {} THEN raced ELSE raced \cup {k}

(* fileEventStore.Append writes no event it finds in the file *)
SlipReadEvents(p) ==
  LET k == op[p].key
      known == \E i \in LinesOf(file, k) : \A j \in WholeLines(file) : j <= i
  IN /\ kind = "events" /\ pc[p] = "read"
     /\ pc' = [pc EXCEPT ![p] = IF known THEN "idle" ELSE "check"]
     /\ IF known THEN UNCHANGED raced ELSE Race(p, k, FALSE)
     /\ UNCHANGED <<kind, file, op, memory, calls, crashes, acked, taken, torn, between, foreign>>
ReadEvents(p) ==
  LET k == op[p].key
      known == LinesOf(file, k) # {}
  IN /\ kind = "events" /\ pc[p] = "read"
     /\ pc' = [pc EXCEPT ![p] = IF known THEN "idle" ELSE "check"]
     /\ IF known THEN UNCHANGED raced ELSE Race(p, k, FALSE)
     /\ UNCHANGED <<kind, file, op, memory, calls, crashes, acked, taken, torn, between, foreign>>

(* PopEvent and PopEffect: readQueueRecords fails on a line it cannot parse; *)
(* else the first that is pending is to be marked as done                    *)
Fails(p) ==
  /\ pc' = [pc EXCEPT ![p] = "idle"]
  /\ UNCHANGED <<kind, file, op, memory, calls, crashes, history>>
Chooses(p, k) ==
  /\ pc' = [pc EXCEPT ![p] = "write"]
  /\ op' = [op EXCEPT ![p].key = k, ![p].gone = TRUE]
  /\ Race(p, k, TRUE)
  /\ UNCHANGED <<kind, file, memory, calls, crashes, acked, taken, torn, between, foreign>>
ReadQueue(p) ==
  /\ kind = "queue" /\ pc[p] = "read"
  /\ IF Corrupt(file) \/ \A k \in Keys : ~IsPending(file, k)
     THEN Fails(p)
     ELSE \E k \in Keys : IsNext(file, k) /\ Chooses(p, k)

(* appendJSONLRecord looks at the end of the file *)
CheckEnd(p) ==
  /\ pc[p] = "check"
  /\ file' = EnsureTrailingNewline(file)
  /\ pc' = [pc EXCEPT ![p] = "write"]
  /\ UNCHANGED <<kind, op, memory, calls, crashes, history>>

(* The keys the store answers differently for *)
Changed(new) == { k \in Keys : Load(new, k) # Load(file, k) }

(* appendJSONLRecord or appendQueueRecord writes, and the call returns; the *)
(* mirrored store then puts the state into memory too                       *)
Write(p) ==
  LET rec == op[p]
      new == PutLine(file, rec)
  IN /\ pc[p] = "write"
     /\ file' = new
     /\ pc' = [pc EXCEPT ![p] = "idle"]
     /\ acked' = acked \cup {rec}
     /\ taken' = IF kind = "queue" /\ rec.gone THEN [taken EXCEPT ![rec.key] = @ + 1] ELSE taken
     /\ memory' = IF kind \in Mirrored THEN [memory EXCEPT ![p][rec.key] = rec.stamp] ELSE memory
     /\ foreign' = [q \in Procs |->
          IF q # p THEN foreign[q] \cup Changed(new)
          ELSE IF Len(new[Len(file)]) > 1 THEN foreign[q] \cup Changed(new) \cup {rec.key}
          ELSE foreign[q] \ {rec.key}]
     /\ UNCHANGED <<kind, op, calls, crashes, torn, between, raced>>

(* The mirrored stores' Load: what is not in memory is read and put there.    *)
(* The stores have no lock around the three, but a process saves and loads a  *)
(* key from one goroutine at a time (the runner's, or one under the lock of   *)
(* the task); what another process writes between the read and the end of the *)
(* call might as well be written after the call: k is foreign either way.     *)
LoadMirrored(p, k) ==
  /\ kind \in Mirrored /\ pc[p] = "idle"
  /\ memory[p][k] = NoRecord /\ Load(file, k) # NoRecord
  /\ memory' = [memory EXCEPT ![p][k] = Load(file, k)]
  /\ foreign' = [foreign EXCEPT ![p] = @ \ {k}]
  /\ UNCHANGED <<kind, file, pc, op, calls, crashes, acked, taken, torn, between, raced>>

(* p dies and is started again; what it was about to write is there in full,  *)
(* without its newline, in part or not at all                                 *)
Crash(p) ==
  /\ crashes < MaxCrashes /\ crashes' = crashes + 1
  /\ file' \in {file}
       \cup (IF pc[p] = "check" THEN {EnsureTrailingNewline(file)} ELSE {})
       \cup (IF pc[p] = "write"
             THEN {Put(file, Torn), Put(file, op[p]), PutLine(file, op[p])} ELSE {})
  /\ pc' = [pc EXCEPT ![p] = "idle"]
  /\ memory' = [memory EXCEPT ![p] = [k \in Keys |-> NoRecord]]
  /\ LET open == LastLine(file') # <<>> IN
     /\ torn' = (torn \/ open)
     /\ between' = between \cup { op[q].stamp : q \in { r \in Procs \ {p} : open /\ pc[r] = "write" } }
  /\ foreign' = [q \in Procs |-> IF q = p THEN {} ELSE foreign[q] \cup Changed(file')]
  /\ UNCHANGED <<kind, op, calls, acked, taken, raced>>

Next == \E p \in Procs :
  \/ \E k \in Keys : \/ SaveState(p, k) \/ SaveSnapshot(p, k)
                     \/ SaveRuntime(p, k) \/ DeleteRuntime(p, k)
                     \/ AppendEvent(p, k) \/ Enqueue(p, k) \/ LoadMirrored(p, k)
  \/ Pop(p) \/ ReadEvents(p) \/ ReadQueue(p) \/ CheckEnd(p) \/ Write(p) \/ Crash(p)

Spec == Init /\ [][Next]_vars

-----------------------------------------------------------------------------

(* A record whose call returned without an error stays readable, whatever    *)
(* dies afterwards: ensureTrailingNewline keeps the next record off the line *)
(* of a dead process.  The exceptions are the records that were about to be  *)
(* written when another process died, and the queue, which has no such check.*)
AckedIsKept ==
  \A r \in acked :
    \/ \E i \in WholeLines(file) : RecordOn(file, i) = r
    \/ r.stamp \in between
    \/ kind = "queue" /\ torn

Rows == List(file, Keys)
T == INSTANCE RecordTable WITH rows <- Rows, Stamps <- 0..MaxCalls

(* The two readers of a store, Load from the end of the file and List with   *)
(* its maps from the beginning, answer the same of every key, a deleted one   *)
(* and one that was saved again included; and the state a process holds in    *)
(* memory is the one in the file until another process changes it.            *)
ReadersAgree ==
  kind \in Mirrored \cup {"runtimes"} =>
    \A k \in Keys :
      /\ Load(file, k) = T!Lookup(k)
      /\ \A p \in Procs : memory[p][k] \in {NoRecord, Load(file, k)} \/ k \in foreign[p]

Count(f, k, gone) == Cardinality({ i \in LinesOf(f, k) : RecordOn(f, i).gone = gone })

(* An event is stored once, and an item of the queue is popped at most once   *)
(* for each time it was put there, through every crash and restart, unless    *)
(* two processes read the file before either wrote.                           *)
OnceUnlessRaced ==
  \A k \in Keys \ raced :
    /\ kind = "events" => Count(file, k, FALSE) <= 1
    /\ kind = "queue"  => taken[k] <= Count(file, k, FALSE) \/ torn

(* A file store is a table of one row for a key: each step that changes what  *)
(* List answers is the save, the deletion or the insertion of one call.  The  *)
(* exceptions: a record that lands on the line of a dead process spoils the   *)
(* one that stood there, and an event two processes stored at a time.         *)
FileIsTable ==
  [][ \/ kind = "queue" \/ LastLine(file) # <<>>
      \/ \E p \in Procs :
           LET r == op[p] IN
           /\ pc[p] = "write"
           /\ \/ r.gone /\ T!Delete(r.key)
              \/ kind # "events" /\ ~r.gone /\ T!Save(r.key, r.stamp)
              \/ kind = "events" /\ (T!AppendOnce(r.key, r.stamp) \/ r.key \in raced)
    ]_Rows
=============================================================================
