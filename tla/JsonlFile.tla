------------------------------ MODULE JsonlFile ------------------------------
(***************************************************************************)
(* A file of JSON lines, as the file stores and the work queue append to   *)
(* it and read it.  A file is the sequence of its lines, the last without  *)
(* its newline: <<>> if the file ends with one.  A line is the sequence of *)
(* what was written to it: whole records, and Torn, the beginning of one   *)
(* whose writer died.  Only a line of one whole record can be parsed.      *)
(*                                                                         *)
(* A record is [key, stamp, gone]: gone says deleted, or done.             *)
(* A definition named Slip... is the one it precedes with a mistake in it. *)
(***************************************************************************)
EXTENDS Naturals, Sequences

Torn == [key |-> "torn", stamp |-> 0, gone |-> FALSE]
NoRecord == 0
EmptyFile == << <<>> >>

LastLine(file) == file[Len(file)]
Newline(file) == Append(file, <<>>)
Put(file, piece) == [file EXCEPT ![Len(file)] = Append(@, piece)]
PutLine(file, piece) == Newline(Put(file, piece))

Parses(line) == Len(line) = 1 /\ line[1] # Torn
Corrupt(file) == \E i \in DOMAIN file : file[i] # <<>> /\ ~Parses(file[i])

(* ensureTrailingNewline *)
SlipEnsureTrailingNewline(file) == file
EnsureTrailingNewline(file) == IF LastLine(file) = <<>> THEN file ELSE Newline(file)

(* readJSONLRecords passes over what it cannot parse. *)
WholeLines(file)   == { i \in DOMAIN file : Parses(file[i]) }
RecordOn(file, i)  == file[i][1]
LinesOf(file, key) == { i \in WholeLines(file) : RecordOn(file, i).key = key }

(* Load: from the end, the first record of the key; none if it says deleted *)
Value(rec) == IF rec.gone THEN NoRecord ELSE rec.stamp
Latest(file, lines) ==
  LET last == CHOOSE i \in lines : \A j \in lines : j <= i
  IN IF lines = {} THEN NoRecord ELSE Value(RecordOn(file, last))
Load(file, key) == Latest(file, LinesOf(file, key))

(* List: from the beginning, with a map of the latest record of each key *)
SlipList(file, keys) ==
  LET latest[i \in 0..Len(file)] ==
        IF i = 0 THEN [k \in keys |-> NoRecord]
        ELSE IF ~Parses(file[i]) \/ RecordOn(file, i).gone THEN latest[i - 1]
        ELSE [latest[i - 1] EXCEPT ![RecordOn(file, i).key] = RecordOn(file, i).stamp]
  IN latest[Len(file)]
List(file, keys) ==
  LET latest[i \in 0..Len(file)] ==
        IF i = 0 THEN [k \in keys |-> NoRecord]
        ELSE IF ~Parses(file[i]) THEN latest[i - 1]
        ELSE [latest[i - 1] EXCEPT ![RecordOn(file, i).key] = Value(RecordOn(file, i))]
  IN latest[Len(file)]

(* pendingEventsLocked and pendingEffectsLocked: the ids whose latest record   *)
(* does not say done, in the order in which they were put there at first      *)
Puts(file, key) == { i \in LinesOf(file, key) : ~RecordOn(file, i).gone }
SlipIsPending(file, key) == Puts(file, key) # {}
IsPending(file, key) == \E i \in Puts(file, key) : \A j \in LinesOf(file, key) : j <= i
IsNext(file, key) ==
  /\ IsPending(file, key)
  /\ \E i \in Puts(file, key) :
       \A j \in 1 .. i - 1 :
         j \in WholeLines(file) /\ ~RecordOn(file, j).gone
           => ~IsPending(file, RecordOn(file, j).key)
=============================================================================
