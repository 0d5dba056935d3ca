----------------------------- MODULE RecordTable -----------------------------
(***************************************************************************)
(* What a store of records promises its callers, as the SQLite backend     *)
(* keeps it: one row for a key, written by one statement a call.           *)
(***************************************************************************)
EXTENDS Naturals

CONSTANTS
  Keys,    \* task ids, agents with a task id, or event ids
  Stamps   \* what tells one version of a record from another

VARIABLE rows  \* rows[k]: the version stored for k, 0 if there is none

Lookup(k) == rows[k]

Upsert(r, k, v)         == [r EXCEPT ![k] = v]
DeleteRow(r, k)         == [r EXCEPT ![k] = 0]
InsertOrIgnore(r, k, v) == IF r[k] = 0 THEN [r EXCEPT ![k] = v] ELSE r

Init == rows = [k \in Keys |-> 0]

Save(k, v)      == rows' = Upsert(rows, k, v)
Delete(k)       == rows' = DeleteRow(rows, k)
AppendOnce(k, v) == rows' = InsertOrIgnore(rows, k, v)

Next == \E k \in Keys : Delete(k) \/ \E v \in Stamps : Save(k, v) \/ AppendOnce(k, v)

Spec == Init /\ [][Next]_rows
=============================================================================
