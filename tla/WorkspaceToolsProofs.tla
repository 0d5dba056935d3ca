------------------------- MODULE WorkspaceToolsProofs -------------------------
(***************************************************************************)
(* Proofs about WorkspaceTools and, after them, about WorkspaceRead.  What *)
(* a change needs was looked at when it was prepared, some steps before it *)
(* is made; the invariant IInv says that it still holds of every change a  *)
(* call has prepared and not yet made, as long as nobody else touched the  *)
(* call's targets.  A walk is at one path while the user edits another;    *)
(* the invariant ReadInv says that all a result is to show is in it or     *)
(* below what is still to be visited, of the paths that nobody touched.    *)
(***************************************************************************)
EXTENDS WorkspaceTools, WorkspaceRead, SequenceTheorems, FiniteSetTheorems, WellFoundedInduction, TLAPS

IsSequence(s) == \E S : s \in Seq(S)

(* The policy let the call pass, or the user did. *)
Allowed(c) ==
  LET decision == Check(scene.mode, PolicyRequest(Req(c)))
  IN decision = "allow" \/ (decision = "ask" /\ confirmed[c])

Shapes ==
  /\ scene \in Scenarios
  /\ IsTree(fs)
  /\ DOMAIN pc = Calls /\ DOMAIN confirmed = Calls /\ DOMAIN cancelled = Calls
  /\ DOMAIN files = Calls /\ DOMAIN changes = Calls /\ DOMAIN written = Calls
  /\ \A c \in Calls : IsSequence(changes[c]) /\ written[c] \in Nat
  /\ \A h \in changed : h.call \in Calls

(* How far a call is says what was decided about it and what it has done. *)
Stages(c) ==
  /\ pc[c] \in {"idle", "asked", "ready", "preparing", "writing", "completed", "failed"}
  /\ pc[c] = "asked" => Check(scene.mode, PolicyRequest(Req(c))) = "ask"
  /\ pc[c] \in {"asked", "ready"} \cup AtWork => Req(c).tool \in WriteTools
  /\ pc[c] \in {"ready"} \cup AtWork => Allowed(c)
  /\ pc[c] \in {"idle", "asked", "ready"} => changes[c] = <<>>
  /\ pc[c] \in {"idle", "asked", "ready", "preparing"} =>
       written[c] = 0 /\ \A h \in changed : h.call # c
  /\ pc[c] \in AtWork => files[c] = FilesOf(Req(c))
  /\ pc[c] = "writing" => ~DryRun(Req(c)) /\ written[c] < Len(changes[c])

(* What the checks of the request and the path leave of a change *)
Checked(c, i) ==
  LET change == changes[c][i]
      p      == change.path
  IN /\ i \in DOMAIN files[c] /\ p = TargetPath(files[c][i])
     /\ p \in Paths \ (Git \cup Outside)
     /\ p \in HighRisk => Req(c).confirm
     /\ change.op = "delete" => /\ Req(c).tool = "apply_patch" /\ Req(c).allowDelete
                                /\ Operation(files[c][i]) = "delete"
     /\ Req(c).tool = "write_file" => p = FilePath(Req(c))
     /\ \A j \in DOMAIN changes[c] : j # i => changes[c][j].path # p

(* What the look at the tree leaves of it, until the tree changes *)
Feasible(c, i) ==
  LET change == changes[c][i]
      p      == change.path
  IN /\ fs[p] # Dir
     /\ \A q \in Above[p] : ~IsFile(fs[q])
     /\ change.op = "delete" => fs[p] # Absent
     /\ Req(c).tool = "write_file" /\ fs[p] # Absent => Req(c).overwrite

Prepared(c) ==
  pc[c] \in AtWork =>
    \A i \in DOMAIN changes[c] :
      /\ Checked(c, i)
      /\ c \notin disturbed /\ ~Nested(c) /\ written[c] < i => Feasible(c, i)

IInv ==
  /\ Shapes
  /\ \A c \in Calls : Stages(c) /\ Prepared(c)
  /\ FailureChangesNothing
  /\ EveryChangeAuthorised

-----------------------------------------------------------------------------
(* Sequences and requests *)

(* Append adds an element at the end and changes nothing before it. *)
LEMMA AppendGrows ==
  ASSUME NEW s, IsSequence(s), NEW e
  PROVE  /\ IsSequence(Append(s, e))
         /\ Len(s) \in Nat /\ DOMAIN s = 1 .. Len(s)
         /\ Len(Append(s, e)) = Len(s) + 1 /\ DOMAIN Append(s, e) = 1 .. Len(s) + 1
         /\ Append(s, e)[Len(s) + 1] = e
         /\ \A i \in 1 .. Len(s) : Append(s, e)[i] = s[i]
<1>1. PICK S : s \in Seq(S)  BY DEF IsSequence
<1>2. s \in Seq(S \cup {e})  BY <1>1, SeqMonotonic
<1>3. Append(s, e) \in Seq(S \cup {e})  BY <1>2, AppendProperties
<1>4. /\ Len(s) \in Nat /\ DOMAIN s = 1 .. Len(s)
      /\ DOMAIN Append(s, e) = 1 .. Len(Append(s, e))
  BY <1>2, <1>3, LenProperties
<1>5. /\ Len(Append(s, e)) = Len(s) + 1
      /\ Append(s, e)[Len(s) + 1] = e
      /\ \A i \in 1 .. Len(s) : Append(s, e)[i] = s[i]
  BY <1>2, AppendProperties
<1> QED  BY <1>3, <1>4, <1>5 DEF IsSequence

(* The empty sequence is a sequence. *)
LEMMA EmptyIsSequence == IsSequence(<<>>) /\ Len(<<>>) = 0 /\ DOMAIN <<>> = {}
<1>1. <<>> \in Seq({}) /\ Len(<<>>) = 0  BY EmptySeq
<1>2. DOMAIN <<>> = 1 .. Len(<<>>)  BY <1>1, LenProperties
<1> QED  BY <1>1, <1>2 DEF IsSequence

(* A write that is no dry run passes the policy in the modify mode only, and
   is asked about if it deletes or is of high risk. *)
LEMMA PolicyOfWrites ==
  ASSUME NEW mode, NEW req,
         req.tool \in WriteTools, req.risk \in {"write", "delete"}, ~req.dryRun,
         Check(mode, req) \in {"allow", "ask"}
  PROVE  /\ ParseMode(mode) = "modify"
         /\ req.risk = "delete" \/ IsHighRiskWrite(req) => Check(mode, req) = "ask"
<1>1. RiskOf(req) = req.risk  BY DEF RiskOf
<1>2. ~IsReadAllowed(req) /\ ~IsDryRunWriteAllowed(req)
  BY <1>1 DEF IsReadAllowed, IsDryRunWriteAllowed
<1>3. ParseMode(mode) \in {"read", "validate", "modify"}  BY DEF ParseMode
<1>4. CASE ParseMode(mode) = "read"
  BY <1>2, <1>4 DEF Check, CheckReadOnly
<1>5. CASE ParseMode(mode) = "validate"
  BY <1>1, <1>2, <1>5 DEF Check, CheckValidate
<1>6. CASE ParseMode(mode) = "modify"
  <2>1. Check(mode, req) = CheckModify(req)  BY <1>6 DEF Check
  <2>2. CASE req.risk = "delete"
    BY <1>1, <1>2, <1>6, <2>1, <2>2 DEF CheckModify, WriteTools
  <2>3. CASE req.risk = "write"
    BY <1>1, <1>2, <1>6, <2>1, <2>3 DEF CheckModify, WriteTools
  <2> QED  BY <2>2, <2>3
<1> QED  BY <1>3, <1>4, <1>5, <1>6

(* write_file works on one file at most, the one at the path it reads. *)
LEMMA FileOfWrite ==
  ASSUME NEW req, req.tool = "write_file"
  PROVE  \A i \in DOMAIN FilesOf(req) : i = 1 /\ TargetPath(FilesOf(req)[i]) = FilePath(req)
<1>1. FilesOf(req) \in {<<>>, <<[old |-> FilePath(req), new |-> FilePath(req), hunks |-> <<>>]>>}
  BY DEF FilesOf
<1> QED  BY <1>1 DEF TargetPath

(* What the policy is told of a call: whether it is a dry run as the policy reads
   the input, that it deletes if a file of the patch does, and the paths the tool
   works on if the policy reads the same. *)
LEMMA RequestOfCall ==
  ASSUME NEW req, req.tool \in WriteTools
  PROVE  LET asked == PolicyRequest(req) IN
         /\ asked.tool = req.tool /\ asked.risk \in {"write", "delete"}
         /\ asked.dryRun = InputBoolField(req.dryRun)
         /\ req.tool = "apply_patch" =>
              \A i \in DOMAIN FilesOf(req) :
                Operation(FilesOf(req)[i]) = "delete" => asked.risk = "delete"
         /\ ReadsSamePath(req) => \A p \in Targets(FilesOf(req)) :
              p \in HighRisk \ {NoPath} => IsHighRiskWrite(asked)
<1> DEFINE asked == PolicyRequest(req)
<1>1. /\ asked.tool = req.tool /\ asked.dryRun = InputBoolField(req.dryRun)
      /\ asked.paths = (IF req.tool = "apply_patch" THEN Targets(FilesOf(req))
                        ELSE {InputStringField(req.path)}) \ {NoPath}
  BY DEF PolicyRequest
<1>2. asked.risk = IF req.tool = "apply_patch"
                      /\ \E i \in DOMAIN FilesOf(req) : Operation(FilesOf(req)[i]) = "delete"
                   THEN "delete" ELSE "write"
  BY DEF PolicyRequest
<1>3. ASSUME ReadsSamePath(req), NEW p \in Targets(FilesOf(req)), p \in HighRisk \ {NoPath}
      PROVE  IsHighRiskWrite(asked)
  <2>1. CASE req.tool = "apply_patch"
    BY <1>1, <1>3, <2>1 DEF IsHighRiskWrite
  <2>2. CASE req.tool = "write_file"
    <3>1. p = InputStringField(req.path)
      BY <1>3, <2>2, FileOfWrite DEF Targets, ReadsSamePath
    <3> QED  BY <1>1, <1>3, <2>2, <3>1 DEF IsHighRiskWrite
  <2> QED  BY <2>1, <2>2 DEF WriteTools
<1> QED  BY <1>1, <1>2, <1>3

-----------------------------------------------------------------------------
(* What a step leaves alone *)

Same(d) ==
  /\ pc'[d] = pc[d] /\ confirmed'[d] = confirmed[d] /\ files'[d] = files[d]
  /\ changes'[d] = changes[d] /\ written'[d] = written[d]

(* A call that a step is not of keeps its part of the invariant: either none of
   its targets was touched, or it is among the disturbed. *)
LEMMA Bystander ==
  ASSUME NEW d \in Calls, Shapes, IsTree(fs)', scene' = scene,
         Stages(d), Prepared(d), Same(d),
         disturbed \subseteq disturbed',
         pc[d] \in AtWork /\ Hits(d) => d \in disturbed',
         \A h \in changed' : h.call = d => h \in changed
  PROVE  Stages(d)' /\ Prepared(d)'
<1>1. Req(d)' = Req(d) /\ Allowed(d)' = Allowed(d) /\ Nested(d)' = Nested(d)
  BY DEF Same, Req, Allowed, Nested
<1>2. Stages(d)'
  BY <1>1 DEF Stages, Same
<1>3. ASSUME pc[d] \in AtWork, NEW i \in DOMAIN changes[d]
      PROVE  Checked(d, i)' /\ (d \notin disturbed' /\ ~Nested(d) /\ written[d] < i => Feasible(d, i)')
  <2>1. Checked(d, i) /\ (d \notin disturbed /\ ~Nested(d) /\ written[d] < i => Feasible(d, i))
    BY <1>3 DEF Prepared
  <2>2. Checked(d, i)'
    BY <2>1, <1>1 DEF Checked, Same
  <2>3. ASSUME d \notin disturbed', ~Nested(d), written[d] < i
        PROVE  Feasible(d, i)'
    <3>1. ~Hits(d) /\ Feasible(d, i)
      BY <1>3, <2>1, <2>3
    <3> DEFINE p == changes[d][i].path
    <3>2. p \in Targets(files[d]) \cap Paths
      BY <2>1 DEF Checked, Targets
    <3>3. fs'[p] = fs[p] /\ \A q \in Above[p] : fs'[q] = fs[q] \/ ~IsFile(fs'[q])
      BY <3>1, <3>2 DEF Hits
    <3>4. changes'[d] = changes[d]
      BY DEF Same
    <3> QED
      BY <1>1, <3>1, <3>3, <3>4 DEF Feasible
  <2> QED  BY <2>2, <2>3
<1>4. Prepared(d)'
  BY <1>1, <1>3 DEF Prepared, Same
<1> QED  BY <1>2, <1>4

(* A step of one call that leaves the tree alone *)
LEMMA Bookkeeping ==
  ASSUME IInv, NEW c \in Calls,
         UNCHANGED <<fs, scene, changed, disturbed>>,
         Shapes', Stages(c)', Prepared(c)',
         \A d \in Calls \ {c} : Same(d) /\ cancelled'[d] = cancelled[d],
         confirmed[c] => confirmed'[c],
         cancelled[c] => cancelled'[c],
         pc'[c] = "failed" => pc[c] \in {"idle", "asked", "ready", "preparing"}
  PROVE  IInv'
<1>1. ASSUME NEW d \in Calls PROVE Stages(d)' /\ Prepared(d)'
  <2>1. CASE d = c  BY <2>1
  <2>2. CASE d # c
    <3>1. Same(d)  BY <2>2
    <3>2. ~Hits(d)  BY DEF Hits
    <3>3. IsTree(fs)'  BY DEF IInv, Shapes
    <3> QED
      BY <3>1, <3>2, <3>3, Bystander DEF IInv
  <2> QED  BY <2>1, <2>2
<1>2. FailureChangesNothing'
  <2> SUFFICES ASSUME NEW d \in Calls,
                      pc'[d] = "failed", ~cancelled'[d], d \notin disturbed', ~Nested(d)'
               PROVE  \A h \in changed : h.call # d
    BY DEF FailureChangesNothing
  <2>1. CASE d = c
    BY <2>1 DEF IInv, Stages
  <2>2. CASE d # c
    <3>1. pc[d] = "failed" /\ ~cancelled[d] /\ d \notin disturbed /\ ~Nested(d)
      BY <2>2 DEF Same, Nested
    <3> QED  BY <3>1 DEF IInv, FailureChangesNothing
  <2> QED  BY <2>1, <2>2
<1>3. EveryChangeAuthorised'
  <2>1. \A d \in Calls : confirmed[d] => confirmed'[d]
    BY DEF Same
  <2>2. \A h \in changed : h.call \in Calls
    BY DEF IInv, Shapes
  <2> QED
    BY <2>1, <2>2 DEF IInv, EveryChangeAuthorised, Req
<1> QED  BY <1>1, <1>2, <1>3 DEF IInv

-----------------------------------------------------------------------------
(* The tree *)

(* Writing a file that can be written, with the directories above it, leaves a
   tree. *)
LEMMA WithFileIsTree ==
  ASSUME IsTree(fs), NEW p \in Paths, NEW t, CanWrite(p)
  PROVE  IsTree(WithFile(p, t))
<1> DEFINE after == WithFile(p, t)
<1>1. DOMAIN after = Paths
      /\ \A q \in Paths : after[q] = IF q = p THEN Text(t) ELSE IF q \in Above[p] THEN Dir ELSE fs[q]
  BY DEF WithFile
<1>2. /\ Text(t).kind = "text" /\ Absent.kind = "absent" /\ Dir.kind = "dir"
  BY DEF Text, Absent, Dir, Node
<1>3. ASSUME NEW q \in Paths
      PROVE  after[q] \in {Absent, Dir} \/ IsFile(after[q])
  BY <1>1, <1>2 DEF IsTree, IsFile
<1>4. ASSUME NEW q \in Paths, after[q] # Absent, NEW r \in Above[q]
      PROVE  after[r] = Dir
  <2>1. r \in Paths /\ Above[r] \subseteq Above[q] /\ p \notin Above[p]
    BY WorkspaceAssumption
  <2>2. CASE q = p
    BY <1>1, <1>4, <2>1, <2>2
  <2>3. CASE q \in Above[p]
    <3>1. r \in Above[p]
      BY <2>3, WorkspaceAssumption
    <3> QED  BY <1>1, <2>1, <3>1
  <2>4. CASE q # p /\ q \notin Above[p]
    <3>1. fs[q] # Absent /\ fs[r] = Dir
      BY <1>1, <1>4, <2>4 DEF IsTree
    <3>2. r # p
      BY <3>1 DEF CanWrite
    <3> QED  BY <1>1, <2>1, <3>1, <3>2
  <2> QED  BY <2>2, <2>3, <2>4
<1> QED  BY <1>1, <1>3, <1>4 DEF IsTree

(* Removing a file, or a directory nothing is in, leaves a tree. *)
LEMMA WithoutIsTree ==
  ASSUME IsTree(fs), NEW p \in Paths, CanRemove(p)
  PROVE  IsTree(Without(p))
<1> DEFINE after == Without(p)
<1>1. DOMAIN after = Paths /\ \A q \in Paths : after[q] = IF q = p THEN Absent ELSE fs[q]
  BY DEF Without, IsTree
<1>2. ASSUME NEW q \in Paths
      PROVE  after[q] \in {Absent, Dir} \/ IsFile(after[q])
  BY <1>1 DEF IsTree
<1>3. ASSUME NEW q \in Paths, after[q] # Absent, NEW r \in Above[q]
      PROVE  after[r] = Dir
  <2>1. r \in Paths /\ q # p /\ fs[q] # Absent /\ fs[r] = Dir
    BY <1>1, <1>3, WorkspaceAssumption DEF IsTree
  <2>2. r # p
    BY <2>1 DEF CanRemove
  <2> QED  BY <1>1, <2>1, <2>2
<1> QED  BY <1>1, <1>2, <1>3 DEF IsTree

-----------------------------------------------------------------------------
(* The steps *)

(* No call has begun in the initial states. *)
LEMMA InitIInv == Init => IInv
<1> SUFFICES ASSUME Init PROVE IInv
  OBVIOUS
<1>1. Shapes
  BY ScenarioAssumption, EmptyIsSequence DEF Init, Shapes
<1>2. ASSUME NEW c \in Calls PROVE Stages(c) /\ Prepared(c)
  BY DEF Init, Stages, Prepared, AtWork
<1>3. FailureChangesNothing /\ EveryChangeAuthorised
  BY DEF Init, FailureChangesNothing, EveryChangeAuthorised
<1> QED  BY <1>1, <1>2, <1>3 DEF IInv

(* The policy decides: what passes is allowed, what is asked about was decided so. *)
LEMMA ExecuteStep == ASSUME IInv, NEW c \in Calls, Execute(c) PROVE IInv'
<1> DEFINE decision == Check(scene.mode, PolicyRequest(Req(c)))
<1>1. pc[c] = "idle" /\ pc' = [pc EXCEPT ![c] =
        IF Req(c).tool \notin Registered \/ decision = "deny" THEN "failed"
        ELSE IF decision = "ask" THEN "asked" ELSE "ready"]
  BY DEF Execute, Go
<1>2. DOMAIN pc = Calls /\ scene \in Scenarios /\ Stages(c)
  BY DEF IInv, Shapes
<1>3. decision \in {"allow", "ask", "deny"}
  BY DEF Check, CheckReadOnly, CheckValidate, CheckModify, ParseMode
<1>4. Req(c).tool \in Registered => Req(c).tool \in WriteTools
  BY <1>2, ScenarioAssumption DEF Req, Registered, ReadTools, WriteTools
<1>5. \/ pc'[c] = "failed"
      \/ pc'[c] = "asked" /\ decision = "ask" /\ Req(c).tool \in WriteTools
      \/ pc'[c] = "ready" /\ decision = "allow" /\ Req(c).tool \in WriteTools
  BY <1>1, <1>2, <1>3, <1>4
<1>6. Shapes'
  BY <1>1 DEF Execute, IInv, Shapes, ghost
<1>7. Stages(c)' /\ Prepared(c)'
  BY <1>1, <1>2, <1>5 DEF Execute, Stages, Prepared, AtWork, Allowed, Req, ghost
<1>8. \A d \in Calls \ {c} : Same(d) /\ cancelled'[d] = cancelled[d]
  BY <1>1, <1>2 DEF Execute, Same
<1> QED  BY <1>1, <1>6, <1>7, <1>8, Bookkeeping DEF Execute, ghost

(* The user's yes allows the call. *)
LEMMA ConfirmStep == ASSUME IInv, NEW c \in Calls, Confirm(c) PROVE IInv'
<1>1. pc[c] = "asked" /\ pc' = [pc EXCEPT ![c] = "ready"]
  BY DEF Confirm, Go
<1>2. DOMAIN pc = Calls /\ DOMAIN confirmed = Calls /\ Stages(c)
  BY DEF IInv, Shapes
<1>3. Shapes'
  BY <1>1 DEF Confirm, IInv, Shapes, ghost
<1>4. Stages(c)' /\ Prepared(c)'
  BY <1>1, <1>2 DEF Confirm, Stages, Prepared, AtWork, Allowed, Req, ghost
<1>5. \A d \in Calls \ {c} : Same(d) /\ cancelled'[d] = cancelled[d]
  BY <1>1, <1>2 DEF Confirm, Same
<1> QED  BY <1>1, <1>2, <1>3, <1>4, <1>5, Bookkeeping DEF Confirm, ghost

(* A declined call ends before it changed anything. *)
LEMMA DeclineStep == ASSUME IInv, NEW c \in Calls, Decline(c) PROVE IInv'
<1>1. pc[c] = "asked" /\ pc' = [pc EXCEPT ![c] = "failed"]
  BY DEF Decline, Go
<1>2. DOMAIN pc = Calls /\ Stages(c)
  BY DEF IInv, Shapes
<1>3. Shapes'
  BY <1>1 DEF Decline, IInv, Shapes, ghost
<1>4. Stages(c)' /\ Prepared(c)'
  BY <1>1, <1>2 DEF Decline, Stages, Prepared, AtWork
<1>5. \A d \in Calls \ {c} : Same(d) /\ cancelled'[d] = cancelled[d]
  BY <1>1, <1>2 DEF Decline, Same
<1> QED  BY <1>1, <1>3, <1>4, <1>5, Bookkeeping DEF Decline, ghost

(* The tool parses its input: the files are those the policy was told of. *)
LEMMA BeginStep == ASSUME IInv, NEW c \in Calls, Begin(c) PROVE IInv'
<1>1. pc[c] = "ready" /\ pc' \in { [pc EXCEPT ![c] = to] : to \in {"failed", "preparing"} }
  BY DEF Begin, Go
<1>2. DOMAIN pc = Calls /\ DOMAIN files = Calls /\ Stages(c)
  BY DEF IInv, Shapes
<1>3. pc'[c] \in {"failed", "preparing"} /\ files'[c] = FilesOf(Req(c)) /\ DOMAIN files' = Calls
  BY <1>1, <1>2 DEF Begin
<1>4. Shapes'
  BY <1>1, <1>3 DEF Begin, IInv, Shapes, ghost
<1>5. Stages(c)' /\ Prepared(c)'
  <2>1. DOMAIN changes'[c] = {}
    BY <1>1, <1>2, EmptyIsSequence DEF Begin, Stages
  <2> QED
    BY <1>1, <1>2, <1>3, <2>1 DEF Begin, Stages, Prepared, AtWork, Allowed, Req, ghost
<1>6. \A d \in Calls \ {c} : Same(d) /\ cancelled'[d] = cancelled[d]
  BY <1>1, <1>2 DEF Begin, Same
<1> QED  BY <1>1, <1>4, <1>5, <1>6, Bookkeeping DEF Begin, ghost

(* Cancelling only sets the mark. *)
LEMMA CancelStep == ASSUME IInv, NEW c \in Calls, Cancel(c) PROVE IInv'
<1>1. pc[c] \in {"asked", "ready"} \cup AtWork /\ cancelled' = [cancelled EXCEPT ![c] = TRUE]
  BY DEF Cancel
<1>2. DOMAIN cancelled = Calls /\ Stages(c) /\ Prepared(c)
  BY DEF IInv, Shapes
<1>3. Shapes'
  BY <1>1 DEF Cancel, IInv, Shapes, ghost
<1>4. Stages(c)'
  BY <1>2 DEF Cancel, Stages, AtWork, Allowed, Req, ghost
<1>5. Prepared(c)'
  BY <1>2 DEF Cancel, Prepared, Checked, Feasible, Nested, Req, ghost
<1>6. \A d \in Calls \ {c} : Same(d) /\ cancelled'[d] = cancelled[d]
  BY <1>1, <1>2 DEF Cancel, Same
<1> QED  BY <1>1, <1>2, <1>3, <1>4, <1>5, <1>6, Bookkeeping DEF Cancel, ghost, AtWork

(* One more file was looked at: what the look found holds of its change. *)
LEMMA PrepareStep == ASSUME IInv, NEW c \in Calls, Prepare(c) PROVE IInv'
<1> DEFINE req     == Req(c)
           next    == Len(changes[c]) + 1
           file    == files[c][next]
           seen    == { changes[c][i].path : i \in DOMAIN changes[c] }
           patches == req.tool = "apply_patch"
           fine    == IF patches THEN ~cancelled[c] /\ Patchable(req, file, seen)
                      ELSE Replaceable(req)
           change  == IF patches THEN PatchChange(file)
                      ELSE [path |-> FilePath(req), op |-> "write", text |-> req.text]
<1>1. /\ pc[c] = "preparing" /\ next \in DOMAIN files[c]
      /\ pc' = [pc EXCEPT ![c] = IF ~fine THEN "failed"
                 ELSE IF next < Len(files[c]) THEN "preparing"
                 ELSE IF DryRun(req) THEN "completed" ELSE "writing"]
      /\ changes' = IF ~fine THEN changes ELSE [changes EXCEPT ![c] = Append(@, change)]
      /\ UNCHANGED <<fs, scene, confirmed, cancelled, files, written, edits, changed, disturbed>>
  BY DEF Prepare, Go, ghost
<1>2. /\ DOMAIN pc = Calls /\ DOMAIN changes = Calls /\ IsSequence(changes[c])
      /\ Stages(c) /\ Prepared(c) /\ IsTree(fs)
  BY DEF IInv, Shapes
<1>3. /\ req.tool \in WriteTools /\ files[c] = FilesOf(req) /\ written[c] = 0
      /\ \A h \in changed : h.call # c
  BY <1>1, <1>2 DEF Stages, AtWork
<1>4. Shapes'
  <2>1. IsSequence(changes'[c])
    BY <1>1, <1>2, AppendGrows
  <2> QED  BY <1>1, <1>2, <2>1 DEF IInv, Shapes
<1>5. CASE ~fine
  <2>1. pc'[c] = "failed" /\ changes' = changes
    BY <1>1, <1>2, <1>5
  <2>2. Stages(c)' /\ Prepared(c)'
    BY <1>1, <2>1 DEF Stages, Prepared, AtWork
  <2>3. \A d \in Calls \ {c} : Same(d) /\ cancelled'[d] = cancelled[d]
    BY <1>1, <1>2, <2>1 DEF Same
  <2> QED  BY <1>1, <1>4, <2>2, <2>3, Bookkeeping
<1>6. CASE fine
  <2>1. /\ pc'[c] \in {"preparing", "completed", "writing"}
        /\ pc'[c] = "writing" => ~DryRun(req)
        /\ changes'[c] = Append(changes[c], change)
    BY <1>1, <1>2, <1>6
  <2>2. /\ Len(changes[c]) \in Nat /\ DOMAIN changes[c] = 1 .. Len(changes[c])
        /\ Len(changes'[c]) = next /\ DOMAIN changes'[c] = 1 .. next
        /\ changes'[c][next] = change
        /\ \A i \in 1 .. Len(changes[c]) : changes'[c][i] = changes[c][i]
    BY <1>2, <2>1, AppendGrows
  <2>3. Stages(c)'
    BY <1>1, <1>2, <1>3, <2>1, <2>2 DEF Stages, AtWork, Allowed, Req
  <2>4. /\ change.path = TargetPath(file) /\ Writable(req, change.path)
        /\ change.path \notin seen
        /\ change.op = "delete" => /\ patches /\ req.allowDelete /\ Operation(file) = "delete"
        /\ req.tool = "write_file" => change.path = FilePath(req)
    <3>1. CASE patches
      BY <1>6, <3>1 DEF Patchable, PatchChange
    <3>2. CASE ~patches
      <4>1. req.tool = "write_file"
        BY <1>3, <3>2 DEF WriteTools
      <4>2. next = 1 /\ seen = {} /\ TargetPath(file) = FilePath(req)
        BY <1>1, <1>3, <2>2, <4>1, FileOfWrite
      <4> QED  BY <1>6, <3>2, <4>2 DEF Replaceable
    <3> QED  BY <3>1, <3>2
  <2>5. /\ fs[change.path] # Dir
        /\ change.op = "delete" => fs[change.path] # Absent
        /\ req.tool = "write_file" /\ fs[change.path] # Absent => req.overwrite
    <3>1. CASE patches
      BY <1>6, <3>1 DEF Patchable, PatchChange, Operation, Absent, Dir, Node
    <3>2. CASE ~patches
      BY <1>6, <3>2 DEF Replaceable, Absent, Dir, Node
    <3> QED  BY <3>1, <3>2
  <2>6. /\ change.path \in Paths \ (Git \cup Outside)
        /\ change.path \in HighRisk => req.confirm
        /\ \A q \in Above[change.path] : ~IsFile(fs[q])
    BY <2>4 DEF Writable, Resolves
  <2>7. /\ fs' = fs /\ files' = files /\ written' = written /\ disturbed' = disturbed
        /\ Req(c)' = req /\ Nested(c)' = Nested(c)
    BY <1>1 DEF Req, Nested
  <2>8. \A j \in 1 .. Len(changes[c]) : changes'[c][j].path # change.path
    BY <2>2, <2>4
  <2> HIDE DEF change, seen, fine
  <2>9. ASSUME NEW i, i = next PROVE Checked(c, i)' /\ Feasible(c, i)'
    <3>1. changes'[c][i] = change /\ \A j \in 1 .. next : j # i => changes'[c][j].path # change.path
      BY <2>2, <2>8, <2>9
    <3>2. Checked(c, i)'
      BY <1>1, <2>2, <2>4, <2>6, <2>7, <2>9, <3>1 DEF Checked
    <3>3. Feasible(c, i)'
      BY <2>5, <2>6, <2>7, <3>1 DEF Feasible
    <3> QED  BY <3>2, <3>3
  <2>10. ASSUME NEW i \in DOMAIN changes[c]
         PROVE  Checked(c, i)' /\ (c \notin disturbed /\ ~Nested(c) => Feasible(c, i)')
    <3>1. Checked(c, i) /\ (c \notin disturbed /\ ~Nested(c) => Feasible(c, i))
      BY <1>1, <1>2, <1>3, <2>2 DEF Prepared, AtWork
    <3>2. changes'[c][i] = changes[c][i]
      BY <2>2
    <3>3. \A j \in 1 .. next : j # i => changes'[c][j].path # changes[c][i].path
      <4>1. \A j \in 1 .. Len(changes[c]) : j # i => changes'[c][j].path # changes[c][i].path
        BY <2>2, <3>1 DEF Checked
      <4>2. changes'[c][next].path # changes[c][i].path
        BY <2>2, <2>8
      <4> QED  BY <2>2, <4>1, <4>2
    <3>4. Checked(c, i)'
      BY <2>2, <2>7, <3>1, <3>2, <3>3 DEF Checked
    <3>5. c \notin disturbed /\ ~Nested(c) => Feasible(c, i)'
      BY <2>7, <3>1, <3>2 DEF Feasible
    <3> QED  BY <3>4, <3>5
  <2>11. Prepared(c)'
    <3> SUFFICES ASSUME NEW i \in 1 .. next
                 PROVE  Checked(c, i)' /\ (c \notin disturbed /\ ~Nested(c) => Feasible(c, i)')
      BY <2>2, <2>7 DEF Prepared
    <3>1. CASE i = next  BY <2>9, <3>1
    <3>2. CASE i # next  BY <2>2, <2>10, <3>2
    <3> QED  BY <3>1, <3>2
  <2>12. \A d \in Calls \ {c} : Same(d) /\ cancelled'[d] = cancelled[d]
    BY <1>1, <1>2, <1>6 DEF Same
  <2> QED  BY <1>1, <1>4, <2>1, <2>3, <2>11, <2>12, Bookkeeping
<1> QED  BY <1>5, <1>6
(* What a write that works does to the tree *)
Written(c, k) ==
  LET change == changes[c][k] IN
  /\ fs' # fs => pc'[c] # "failed"
  /\ \A q \in Paths : fs'[q] # fs[q] =>
       \/ q = change.path /\ change.op = "delete" /\ fs'[q] = Absent
       \/ q = change.path /\ fs'[q] # Absent
       \/ q \in Above[change.path] /\ fs[q] = Absent /\ fs'[q] = Dir

(* The effect of Write on the tree: it stays a tree, only the path of the change
   and the directories above it are touched, and the write fails only if it could
   not be done. *)
LEMMA WriteEffect ==
  ASSUME IsTree(fs), NEW c \in Calls, NEW k, k = written[c] + 1, Write(c),
         DOMAIN pc = Calls, changes[c][k].path \in Paths
  PROVE  /\ IsTree(fs)' /\ Written(c, k)
         /\ pc'[c] = "failed" =>
              \/ cancelled[c]
              \/ changes[c][k].op = "delete" /\ ~CanRemove(changes[c][k].path)
              \/ changes[c][k].op # "delete" /\ ~CanWrite(changes[c][k].path)
<1> DEFINE change  == changes[c][k]
           p       == change.path
           removes == change.op = "delete"
           fine    == ~cancelled[c] /\ IF removes THEN CanRemove(p) ELSE CanWrite(p)
           last    == k = Len(changes[c])
<1>1. /\ pc' = [pc EXCEPT ![c] = IF ~fine THEN "failed" ELSE IF last THEN "completed" ELSE "writing"]
      /\ fs' = IF ~fine THEN fs ELSE IF removes THEN Without(p) ELSE WithFile(p, change.text)
  BY DEF Write, Go
<1>2. pc'[c] = "failed" <=> ~fine
  BY <1>1
<1> HIDE DEF change
<1>3. Absent # Dir /\ \A t : Text(t) # Absent
  BY DEF Text, Absent, Dir, Node
<1>4. CASE ~fine
  BY <1>1, <1>2, <1>4 DEF Written, change
<1>5. CASE fine /\ removes
  <2>1. fs' = Without(p) /\ CanRemove(p)
    BY <1>1, <1>5
  <2>2. IsTree(Without(p))
    BY <2>1, WithoutIsTree DEF change
  <2>3. IsTree(fs)'
    BY <2>1, <2>2 DEF IsTree
  <2>4. \A q \in Paths : fs'[q] = IF q = p THEN Absent ELSE fs[q]
    BY <2>1 DEF Without, IsTree
  <2> QED  BY <1>2, <1>5, <2>3, <2>4 DEF Written, change
<1>6. CASE fine /\ ~removes
  <2>1. fs' = WithFile(p, change.text) /\ CanWrite(p)
    BY <1>1, <1>6
  <2>2. IsTree(WithFile(p, change.text))
    BY <2>1, WithFileIsTree DEF change
  <2>3. IsTree(fs)'
    BY <2>1, <2>2 DEF IsTree
  <2>4. \A q \in Paths :
          fs'[q] = IF q = p THEN Text(change.text) ELSE IF q \in Above[p] THEN Dir ELSE fs[q]
    BY <2>1 DEF WithFile
  <2>5. \A q \in Above[p] : q \in Paths /\ ~IsFile(fs[q])
    BY <2>1, WorkspaceAssumption DEF CanWrite, change
  <2>6. \A q \in Above[p] : fs[q] \in {Absent, Dir}
    BY <2>5 DEF IsTree
  <2> QED  BY <1>2, <1>3, <1>6, <2>3, <2>4, <2>6 DEF Written, change
<1> QED  BY <1>4, <1>5, <1>6

(* A change that was prepared, and whose targets nobody else touched, can be made. *)
LEMMA FeasibleIsDone ==
  ASSUME IsTree(fs), NEW c, NEW k, changes[c][k].path \in Paths, Feasible(c, k)
  PROVE  /\ CanWrite(changes[c][k].path)
         /\ changes[c][k].op = "delete" => CanRemove(changes[c][k].path)
<1>1. CanWrite(changes[c][k].path)
  BY DEF Feasible, CanWrite
<1>2. ASSUME changes[c][k].op = "delete" PROVE CanRemove(changes[c][k].path)
  BY <1>2 DEF Feasible, CanRemove, IsTree
<1> QED  BY <1>1, <1>2

(* A call that may write is in the modify mode, and the user said yes to a removal
   or a high-risk path, unless the policy read another input than the tool. *)
LEMMA AllowedWrite ==
  ASSUME NEW c, Req(c).tool \in WriteTools, ~DryRun(Req(c)), ~TakenForDryRun(Req(c)),
         Allowed(c), files[c] = FilesOf(Req(c))
  PROVE  /\ ParseMode(scene.mode) = "modify"
         /\ \A i \in DOMAIN files[c] :
              /\ Req(c).tool = "apply_patch" /\ Operation(files[c][i]) = "delete" => confirmed[c]
              /\ ReadsSamePath(Req(c)) /\ TargetPath(files[c][i]) \in HighRisk \ {NoPath} => confirmed[c]
<1> DEFINE asked == PolicyRequest(Req(c))
<1>1. /\ asked.tool \in WriteTools /\ asked.risk \in {"write", "delete"} /\ ~asked.dryRun
      /\ Check(scene.mode, asked) \in {"allow", "ask"}
  BY RequestOfCall DEF Allowed, TakenForDryRun
<1>2. /\ ParseMode(scene.mode) = "modify"
      /\ asked.risk = "delete" \/ IsHighRiskWrite(asked) => Check(scene.mode, asked) = "ask"
  BY <1>1, PolicyOfWrites
<1>3. asked.risk = "delete" \/ IsHighRiskWrite(asked) => confirmed[c]
  BY <1>2 DEF Allowed
<1>4. ASSUME NEW i \in DOMAIN files[c]
      PROVE  /\ Req(c).tool = "apply_patch" /\ Operation(files[c][i]) = "delete" => asked.risk = "delete"
             /\ ReadsSamePath(Req(c)) /\ TargetPath(files[c][i]) \in HighRisk \ {NoPath} => IsHighRiskWrite(asked)
  BY RequestOfCall DEF Targets
<1> QED  BY <1>2, <1>3, <1>4

(* write_file has one target. *)
LEMMA WriteFileIsNotNested ==
  ASSUME NEW c, files[c] = FilesOf(Req(c)), Req(c).tool = "write_file"
  PROVE  ~Nested(c)
<1>1. \A p \in Targets(files[c]) : p = FilePath(Req(c))
  BY FileOfWrite DEF Targets
<1> QED  BY <1>1, WorkspaceAssumption DEF Nested

(* One change is written, or the context or the tree forbids it. *)
LEMMA WriteStep == ASSUME IInv, NEW c \in Calls, Write(c) PROVE IInv'
<1> DEFINE k == written[c] + 1
           p == changes[c][k].path
<1>1. /\ pc[c] = "writing" /\ pc'[c] \in {"writing", "completed", "failed"}
      /\ DOMAIN pc' = Calls /\ DOMAIN written' = Calls
      /\ \A d \in Calls \ {c} : pc'[d] = pc[d] /\ written'[d] = written[d]
      /\ pc'[c] = "writing" => k # Len(changes[c]) /\ written'[c] = k
      /\ written'[c] \in {written[c], k}
      /\ UNCHANGED <<scene, confirmed, cancelled, files, changes, edits>>
  BY DEF Write, Go, IInv, Shapes
<1>2. /\ changed \subseteq changed' /\ disturbed \subseteq disturbed'
      /\ \A h \in changed' : h \in changed \/
           (h.call = c /\ h.path \in Paths /\ h.was = fs[h.path] /\ h.is = fs'[h.path] /\ h.is # h.was)
      /\ \A d \in Calls \ {c} : pc[d] \in AtWork /\ Hits(d) => d \in disturbed'
      /\ c \in disturbed' => c \in disturbed
  <2>1. disturbed' = disturbed \cup { d \in Calls \ {c} : pc[d] \in AtWork /\ Hits(d) }
    BY DEF Write, Notice
  <2>2. changed' = changed \cup
          { [call |-> c, path |-> q, was |-> fs[q], is |-> fs'[q]] : q \in { q \in Paths : fs'[q] # fs[q] } }
    BY DEF Write
  <2>3. \A h \in changed' : h \in changed \/
          (h.call = c /\ h.path \in Paths /\ h.was = fs[h.path] /\ h.is = fs'[h.path] /\ h.is # h.was)
    BY <2>2
  <2> QED  BY <2>1, <2>2, <2>3
<1>3. /\ Shapes /\ Stages(c) /\ Prepared(c) /\ IsTree(fs) /\ DOMAIN pc = Calls
      /\ written[c] \in Nat /\ IsSequence(changes[c])
      /\ FailureChangesNothing /\ EveryChangeAuthorised
  BY DEF IInv, Shapes
<1>4. /\ Req(c).tool \in WriteTools /\ ~DryRun(Req(c)) /\ Allowed(c) /\ files[c] = FilesOf(Req(c))
      /\ k \in DOMAIN changes[c] /\ DOMAIN changes[c] = 1 .. Len(changes[c]) /\ Len(changes[c]) \in Nat
  BY <1>1, <1>3, AppendGrows DEF Stages, AtWork
<1>5. /\ Checked(c, k) /\ p \in Paths
      /\ c \notin disturbed /\ ~Nested(c) => Feasible(c, k)
  BY <1>1, <1>3, <1>4 DEF Prepared, AtWork, Checked
<1>6. /\ IsTree(fs)' /\ Written(c, k)
      /\ pc'[c] = "failed" =>
           \/ cancelled[c]
           \/ changes[c][k].op = "delete" /\ ~CanRemove(p)
           \/ changes[c][k].op # "delete" /\ ~CanWrite(p)
  BY <1>3, <1>5, WriteEffect
<1>7. Shapes'
  <2>1. \A d \in Calls : written'[d] \in Nat
    BY <1>1, <1>3 DEF Shapes
  <2> QED  BY <1>1, <1>2, <1>3, <1>6, <2>1 DEF Shapes
<1>8. Stages(c)'
  <2>1. Req(c)' = Req(c) /\ Allowed(c)' = Allowed(c)
    BY <1>1 DEF Req, Allowed
  <2> QED  BY <1>1, <1>3, <1>4, <2>1 DEF Stages, AtWork
<1>9. Prepared(c)'
  <2> SUFFICES ASSUME NEW i \in DOMAIN changes[c], pc'[c] \in AtWork
               PROVE  /\ Checked(c, i)'
                      /\ c \notin disturbed' /\ ~Nested(c)' /\ written'[c] < i => Feasible(c, i)'
    BY <1>1 DEF Prepared
  <2>1. /\ Req(c)' = Req(c) /\ Nested(c)' = Nested(c) /\ written'[c] = k
        /\ changes' = changes /\ files' = files
    BY <1>1 DEF Req, Nested, AtWork
  <2>2. Checked(c, i) /\ (c \notin disturbed /\ ~Nested(c) /\ written[c] < i => Feasible(c, i))
    BY <1>1, <1>3 DEF Prepared, AtWork
  <2>3. Checked(c, i)'
    BY <2>1, <2>2 DEF Checked
  <2>4. ASSUME c \notin disturbed', ~Nested(c)', k < i
        PROVE  Feasible(c, i)'
    <3> DEFINE q == changes[c][i].path
    <3>1. Feasible(c, i) /\ q \in Paths /\ q # p
      BY <1>2, <1>3, <1>4, <2>1, <2>2, <2>4 DEF Checked
    <3>2. q \in Targets(files[c]) \cap Paths /\ p \in Targets(files[c]) \cap Paths
      BY <1>5, <2>2 DEF Checked, Targets
    <3>3. q \notin Above[p] /\ p \notin Above[q]
      BY <2>1, <2>4, <3>2 DEF Nested
    <3>4. fs'[q] = fs[q]
      BY <1>6, <3>1, <3>3 DEF Written
    <3>5. \A r \in Above[q] : ~IsFile(fs'[r])
      <4> SUFFICES ASSUME NEW r \in Above[q] PROVE ~IsFile(fs'[r])
        OBVIOUS
      <4>1. r \in Paths /\ r # p /\ ~IsFile(fs[r])
        BY <3>1, <3>3, WorkspaceAssumption DEF Feasible
      <4>2. fs'[r] = fs[r] \/ fs'[r] = Dir
        BY <1>6, <4>1 DEF Written
      <4> QED  BY <4>1, <4>2 DEF IsFile, Dir, Node
    <3> QED  BY <2>1, <3>1, <3>4, <3>5 DEF Feasible
  <2> QED  BY <2>1, <2>3, <2>4
<1>10. ASSUME NEW d \in Calls PROVE Stages(d)' /\ Prepared(d)'
  <2>1. CASE d = c  BY <1>8, <1>9, <2>1
  <2>2. CASE d # c
    <3>1. Same(d)  BY <1>1, <2>2 DEF Same
    <3>2. \A h \in changed' : h.call = d => h \in changed  BY <1>2, <2>2
    <3> QED  BY <1>1, <1>2, <1>6, <2>2, <3>1, <3>2, Bystander DEF IInv
  <2> QED  BY <2>1, <2>2
<1>11. FailureChangesNothing'
  <2> SUFFICES ASSUME NEW d \in Calls,
                      pc'[d] = "failed", ~cancelled[d], d \notin disturbed', ~Nested(d)
               PROVE  \A h \in changed' : h.call # d
    BY <1>1 DEF FailureChangesNothing, Nested
  <2>1. d \notin disturbed
    BY <1>2
  <2>2. CASE d = c
    BY <1>3, <1>5, <1>6, <2>1, <2>2, FeasibleIsDone
  <2>3. CASE d # c
    <3>1. pc[d] = "failed"  BY <1>1, <2>3
    <3> QED  BY <1>2, <1>3, <2>1, <2>3, <3>1 DEF FailureChangesNothing
  <2> QED  BY <2>2, <2>3
<1>12. EveryChangeAuthorised'
  <2> SUFFICES ASSUME NEW h \in changed'
               PROVE  /\ ~DryRun(Req(h.call))
                      /\ h.path \notin Git \cup Outside
                      /\ h.is = Absent => Req(h.call).allowDelete
                      /\ h.is # Dir /\ h.path \in HighRisk => Req(h.call).confirm
                      /\ Req(h.call).tool = "write_file" /\ h.was # Absent
                           => Req(h.call).overwrite \/ h.call \in disturbed'
                      /\ ~TakenForDryRun(Req(h.call)) =>
                           /\ ParseMode(scene.mode) = "modify"
                           /\ h.is = Absent => confirmed[h.call]
                           /\ h.is # Dir /\ h.path \in HighRisk /\ ReadsSamePath(Req(h.call)) => confirmed[h.call]
    BY <1>1 DEF EveryChangeAuthorised, Req
  <2>1. CASE h \in changed
    BY <1>2, <1>3, <2>1 DEF EveryChangeAuthorised
  <2>2. CASE h \notin changed
    <3>1. /\ h.call = c /\ h.path \in Paths /\ h.was = fs[h.path] /\ h.is = fs'[h.path]
          /\ h.is # h.was
      BY <1>2, <2>2
    <3>2. \/ h.path = p /\ changes[c][k].op = "delete" /\ h.is = Absent
          \/ h.path = p /\ h.is # Absent
          \/ h.path \in Above[p] /\ h.was = Absent /\ h.is = Dir
      BY <1>6, <3>1 DEF Written
    <3>3. ~TakenForDryRun(Req(c)) =>
          /\ ParseMode(scene.mode) = "modify"
          /\ Req(c).tool = "apply_patch" /\ Operation(files[c][k]) = "delete" => confirmed[c]
          /\ ReadsSamePath(Req(c)) /\ p \in HighRisk \ {NoPath} => confirmed[c]
      BY <1>4, <1>5, AllowedWrite DEF Checked
    <3>4. h.path \notin Git \cup Outside
      BY <1>5, <3>2, WorkspaceAssumption DEF Checked
    <3>5. h.is = Absent => Req(c).allowDelete /\ (~TakenForDryRun(Req(c)) => confirmed[c])
      BY <1>5, <3>2, <3>3 DEF Checked, Absent, Dir, Node
    <3>6. h.is # Dir /\ h.path \in HighRisk =>
            Req(c).confirm /\ (~TakenForDryRun(Req(c)) /\ ReadsSamePath(Req(c)) => confirmed[c])
      BY <1>5, <3>2, <3>3, WorkspaceAssumption DEF Checked
    <3>7. Req(c).tool = "write_file" /\ h.was # Absent => Req(c).overwrite \/ c \in disturbed'
      <4> SUFFICES ASSUME Req(c).tool = "write_file", h.was # Absent, c \notin disturbed'
                   PROVE  Req(c).overwrite
        OBVIOUS
      <4>1. Feasible(c, k)
        BY <1>2, <1>4, <1>5, WriteFileIsNotNested
      <4> QED  BY <3>1, <3>2, <4>1 DEF Feasible
    <3> QED  BY <1>4, <3>1, <3>3, <3>4, <3>5, <3>6, <3>7
  <2> QED  BY <2>1, <2>2
<1> QED  BY <1>7, <1>10, <1>11, <1>12 DEF IInv

(* The user changes the tree: every call at work on the path is disturbed. *)
LEMMA EditStep == ASSUME IInv, NEW p \in Paths, Edit(p) PROVE IInv'
<1>1. /\ UNCHANGED <<scene, pc, confirmed, cancelled, files, changes, written, changed>>
      /\ disturbed \subseteq disturbed'
      /\ \A d \in Calls : pc[d] \in AtWork /\ Hits(d) => d \in disturbed'
  BY DEF Edit, Notice
<1>2. IsTree(fs)'
  <2>1. IsTree(fs)
    BY DEF IInv, Shapes
  <2>2. CASE \E t \in Typed : CanWrite(p) /\ fs' = WithFile(p, t)
    BY <2>1, <2>2, WithFileIsTree DEF IsTree
  <2>3. CASE CanRemove(p) /\ fs' = Without(p)
    BY <2>1, <2>3, WithoutIsTree DEF IsTree
  <2> QED  BY <2>2, <2>3 DEF Edit
<1>3. Shapes'
  BY <1>1, <1>2 DEF IInv, Shapes
<1>4. ASSUME NEW d \in Calls PROVE Stages(d)' /\ Prepared(d)'
  <2>1. Same(d)  BY <1>1 DEF Same
  <2> QED  BY <1>1, <1>2, <2>1, Bystander DEF IInv
<1>5. FailureChangesNothing'
  BY <1>1 DEF IInv, FailureChangesNothing, Nested
<1>6. EveryChangeAuthorised'
  BY <1>1 DEF IInv, EveryChangeAuthorised, Req
<1> QED  BY <1>3, <1>4, <1>5, <1>6 DEF IInv

(* A stuttering step *)
LEMMA StutterStep == ASSUME IInv, UNCHANGED vars PROVE IInv'
  BY DEF IInv, Shapes, Stages, Prepared, Checked, Feasible, Allowed, Req, Nested, IsTree,
         FailureChangesNothing, EveryChangeAuthorised, vars, ghost

-----------------------------------------------------------------------------
(* The theorems *)

(* In every reachable state what was found out about a change when it was
   prepared still holds, unless somebody else touched the call's targets. *)
THEOREM PreparedChangesStay == Spec => []IInv
<1>1. ASSUME IInv, [Next]_vars PROVE IInv'
  <2>1. CASE \E c \in Calls : Execute(c) \/ Confirm(c) \/ Decline(c) \/ Begin(c) \/ Prepare(c) \/ Write(c)
    BY <1>1, <2>1, ExecuteStep, ConfirmStep, DeclineStep, BeginStep, PrepareStep, WriteStep
  <2>2. CASE \E c \in Calls : Cancel(c)
    BY <1>1, <2>2, CancelStep
  <2>3. CASE \E p \in Paths : Edit(p)
    BY <1>1, <2>3, EditStep
  <2>4. CASE UNCHANGED vars
    BY <1>1, <2>4, StutterStep
  <2> QED  BY <1>1, <2>1, <2>2, <2>3, <2>4 DEF Next
<1> QED  BY <1>1, InitIInv, PTL DEF Spec

(* For any tree, any requests in any spelling and any number of calls: a change
   was no dry run to the tool and carried the flags for what it did; it was made
   in the modify mode and was confirmed where the policy asks, unless the policy
   read another dry_run, or another path, than the tool
   (builtin/workspace/policy.go, write.go). *)
THEOREM ChangesAreAuthorised == Spec => []EveryChangeAuthorised
<1>1. IInv => EveryChangeAuthorised  BY DEF IInv
<1> QED  BY <1>1, PreparedChangesStay, PTL

(* A patch of any number of files that fails has written none of them, except
   when it was cancelled, disturbed or has nested targets (write.go,
   preparePatchChanges before writePatchChanges). *)
THEOREM FailedCallsChangeNothing == Spec => []FailureChangesNothing
<1>1. IInv => FailureChangesNothing  BY DEF IInv
<1> QED  BY <1>1, PreparedChangesStay, PTL

-----------------------------------------------------------------------------

(* WorkspaceRead: the invariant of a call *)

Spots == Places \cup {<<>>}

(* p is d, or in it. *)
Under(d, p) == Len(d) <= Len(p) /\ Front(p, Len(d)) = d

(* What the walk will come to by way of an item *)
Covers(c, p) == Under(c.path, p) /\ (c.do = "read" => p # c.path)

Distinct(s) == IsSequence(s) /\ IsInjective(s)
Pending(k, l, t) == Range(k) \cup Range(l) \cup Range(t)
Visits(items) == { c \in items : c.do = "visit" }

IsCall ==
  /\ call.path \in Spots
  /\ CASE call.tool = "list"    -> call.depth \in Int /\ call.limit \in Int
       [] call.tool = "search"  -> call.limit \in Int
       [] call.tool = "read"    -> call.from \in Int /\ call.to \in Int
       [] OTHER                 -> call.tool = "summary"

ReadTypes ==
  /\ IsWorkspace(tree)
  /\ IsCall
  /\ \E n \in Nat : DOMAIN rules = 1 .. n
  /\ step \in {"start", "walk", "done", "failed"}
  /\ touched \subseteq Places /\ \A p \in touched : Below(p) \subseteq touched

(* An item of the walk was found in a directory that is not hidden, ... *)
Entered(c) == \A n \in Len(call.path) .. Len(c.path) - 1 : ~Hidden(Front(c.path, n), TRUE)
ItemOK(c) ==
  /\ c \in [do : {"visit", "read"}, path : Spots, isDir : BOOLEAN, depth : Nat]
  /\ Under(call.path, c.path) /\ c.depth = Len(c.path) - Len(call.path)
  /\ Entered(c)
  /\ c.do = "read" => call.tool = "list" \/ ~Hidden(c.path, TRUE)
  /\ c.do = "visit" =>
       /\ c.path # call.path
       /\ call.tool = "list" => c.depth <= call.depth
       /\ c.path \notin touched => tree[c.path] # None /\ c.isDir = (tree[c.path] = Directory)

(* ... and in list_files has been looked at. *)
Picked(c) ==
  /\ ~Hidden(c.path, c.isDir)
  /\ c.path \notin touched => tree[c.path] # Binary

(* Nothing is come to by two ways, or once more. *)
Apart(items) == \A c, d \in items : c # d => ~Under(c.path, d.path)
Ahead(items, o) == \A c \in items : \A e \in Range(o) : ~Covers(c, e.path)

(* All that is to be shown is shown, or will be come to; or list_files gives *)
(* up, after more entries than it may show.                                   *)
Enough(t, o) == Len(o) + Cardinality(Visits(Range(t))) > ListLimit
Complete(k, l, t, o) ==
  \A e \in Expected :
    \/ e \in Range(o)
    \/ Unsure(e.path)
    \/ call.tool = "list" /\ (ListLimit = MaxListLimit \/ Enough(t, o))
    \/ \E c \in Pending(k, l, t) : Covers(c, e.path)

Right(e) == e.path \in Places /\ (e \in Expected \/ Unsure(e.path))
Shows(o) == Distinct(o) /\ Len(o) <= Most /\ \A e \in Range(o) : Right(e)

(* The list of a summary *)
ShortList(o) == Len(o) <= MaxImportantDirs /\ \A e \in Range(o) : e.isDir

Fits(k, l, t, o) ==
  /\ Distinct(k) /\ Distinct(l) /\ Distinct(t)
  /\ call.tool # "list" => l = <<>>
  /\ l = <<>> => k = <<>>
  /\ Range(k) \cap Range(l) = {} /\ (Range(k) \cup Range(l)) \cap Range(t) = {}
  /\ \A c \in Pending(k, l, t) : ItemOK(c)
  /\ \A c \in Range(k) \cup Range(l) : c.do = "visit"
  /\ call.tool = "list" => \A c \in Visits(Range(k) \cup Range(t)) : Picked(c)
  /\ Apart(Pending(k, l, t))
  /\ Ahead(Pending(k, l, t), o)
  /\ Shows(o)
  /\ Complete(k, l, t, o)

Begun ==
  /\ call.tool # "read" /\ ~Refused /\ ~truncated
  /\ call.path \notin touched => At(call.path) = Directory

ReadInv ==
  /\ ReadTypes
  /\ step = "start" => look = <<>> /\ kept = <<>> /\ out = <<>> /\ touched = {} /\ ~truncated
  /\ step = "walk" => Begun /\ Fits(kept, look, todo, out)
  /\ step = "done" => Shows(out) /\ (call.tool = "summary" => ShortList(out))
  /\ NothingHidden

-----------------------------------------------------------------------------

(* Sets of numbers in order, paths, and what the rules say of them *)

(* A set of numbers that is not empty has a smallest member. *)
LEMMA Smallest ==
  ASSUME NEW S, S \subseteq Nat, S # {}
  PROVE  \E m \in S : \A j \in S : m <= j
<1>1. PICK m \in S : \A j \in S : ~(<<j, m>> \in OpToRel(<, Nat))
  BY NatLessThanWellFounded, WFMin
<1>2. \A j \in S : ~(j < m)
  BY <1>1 DEF OpToRel
<1> QED BY <1>2

(* A set of numbers with a bound has a largest member. *)
LEMMA Largest ==
  ASSUME NEW n \in Nat, NEW S, S \subseteq 0 .. n, S # {}
  PROVE  \E m \in S : \A j \in S : j <= m
<1> DEFINE Gaps == { n - i : i \in S }
<1>1. Gaps \subseteq Nat /\ Gaps # {}
  <2>1. \A i \in S : n - i \in Nat
    OBVIOUS
  <2> QED BY <2>1
<1>2. PICK t \in Gaps : \A j \in Gaps : t <= j
  BY <1>1, Smallest
<1>3. PICK m \in S : t = n - m
  BY <1>2
<1>4. ASSUME NEW j \in S PROVE j <= m
  <2>1. t <= n - j
    BY <1>2
  <2> QED BY <1>3, <2>1
<1> QED BY <1>4

(* InOrder lists the members of the set, each once. *)
LEMMA InOrderIs ==
  ASSUME NEW n \in Nat, NEW S, S \subseteq 1 .. n
  PROVE  /\ InOrder(n, S) \in Seq(S)
         /\ Range(InOrder(n, S)) = S
         /\ IsInjective(InOrder(n, S))
<1> DEFINE Step(g, i) ==
             IF i = 0 THEN <<>> ELSE IF i \in S THEN Append(g[i - 1], i) ELSE g[i - 1]
           upTo == CHOOSE g : g = [i \in 0 .. n |-> Step(g, i)]
           Lists(s, i) == /\ s \in Seq(S) /\ Range(s) = S \cap 1 .. i
                          /\ \A j, k \in DOMAIN s : s[j] = s[k] => j = k
<1>1. InOrder(n, S) = upTo[n]
  BY DEF InOrder
<1>2. \A m \in 0 .. n : \E g : g = [i \in 0 .. m |-> Step(g, i)]
  <2> DEFINE None_ == { m \in 0 .. n : ~\E g : g = [i \in 0 .. m |-> Step(g, i)] }
  <2> SUFFICES ASSUME None_ # {} PROVE FALSE
    OBVIOUS
  <2>1. PICK m \in None_ : \A j \in None_ : m <= j
    <3>1. None_ \subseteq Nat
      OBVIOUS
    <3> HIDE DEF None_
    <3> QED BY <3>1, Smallest
  <2>2. CASE m = 0
    <3> DEFINE g == [i \in 0 .. m |-> <<>>]
    <3>1. g = [i \in 0 .. m |-> Step(g, i)]
      BY <2>2
    <3> QED BY <3>1
  <2>3. CASE m # 0
    <3>1. m - 1 \in 0 .. n /\ m - 1 \notin None_
      BY <2>1, <2>3
    <3>2. PICK f : f = [i \in 0 .. m - 1 |-> Step(f, i)]
      BY <3>1
    <3> DEFINE g == [i \in 0 .. m |-> IF i = m THEN Step(f, m) ELSE f[i]]
    <3>3. \A i \in 0 .. m - 1 : g[i] = f[i] /\ f[i] = Step(f, i)
      <4>1. \A i \in 0 .. m - 1 : g[i] = f[i]
        BY <2>1
      <4> HIDE DEF g, Step
      <4>2. \A i \in 0 .. m - 1 : f[i] = Step(f, i)
        BY <3>2
      <4> QED BY <4>1, <4>2
    <3>4. \A i \in 0 .. m : Step(g, i) = Step(f, i)
      <4> HIDE DEF g
      <4> SUFFICES ASSUME NEW i \in 0 .. m PROVE Step(g, i) = Step(f, i)
        OBVIOUS
      <4>1. i # 0 => i - 1 \in 0 .. m - 1
        BY <2>1
      <4> QED BY <3>3, <4>1
    <3>5. \A i \in 0 .. m : g[i] = Step(g, i)
      <4> SUFFICES ASSUME NEW i \in 0 .. m PROVE g[i] = Step(g, i)
        OBVIOUS
      <4>1. CASE i = m
        <5>1. g[i] = Step(f, m)
          BY <4>1
        <5> HIDE DEF g, Step
        <5> QED BY <3>4, <4>1, <5>1
      <4>2. CASE i # m
        <5>1. i \in 0 .. m - 1
          BY <2>1, <4>2
        <5> HIDE DEF g, Step
        <5> QED BY <3>3, <3>4, <5>1
      <4> QED BY <4>1, <4>2
    <3>6. g = [i \in 0 .. m |-> g[i]]
      OBVIOUS
    <3> HIDE DEF g, Step
    <3>7. g = [i \in 0 .. m |-> Step(g, i)]
      BY <3>5, <3>6
    <3> QED BY <2>1, <3>7
  <2> QED BY <2>2, <2>3
<1>3. upTo = [i \in 0 .. n |-> Step(upTo, i)]
  <2>0. n \in 0 .. n
    OBVIOUS
  <2>1. \E g : g = [i \in 0 .. n |-> Step(g, i)]
    <3> HIDE DEF Step
    <3> QED BY <1>2, <2>0
  <2> HIDE DEF Step
  <2> QED BY <2>1
<1>4. \A i \in 0 .. n : upTo[i] = Step(upTo, i)
  <2> HIDE DEF Step, upTo
  <2> QED BY <1>3
<1>5. \A i \in 0 .. n : Lists(upTo[i], i)
  <2> DEFINE Not == { i \in 0 .. n : ~Lists(upTo[i], i) }
  <2> HIDE DEF upTo
  <2> SUFFICES ASSUME Not # {} PROVE FALSE
    OBVIOUS
  <2>1. PICK i \in Not : \A j \in Not : i <= j
    <3>1. Not \subseteq Nat
      OBVIOUS
    <3> HIDE DEF Not
    <3> QED BY <3>1, Smallest
  <2>2. CASE i = 0
    <3>1. upTo[i] = <<>>
      <4>1. 0 \in 0 .. n
        OBVIOUS
      <4> QED BY <1>4, <2>2, <4>1
    <3>2. Lists(<<>>, 0)
      BY EmptySeq DEF Range
    <3> QED BY <2>1, <2>2, <3>1, <3>2
  <2>3. CASE i # 0
    <3>1. i - 1 \in 0 .. n /\ Lists(upTo[i - 1], i - 1)
      BY <2>1, <2>3
    <3>2. PICK s : s = upTo[i - 1]
      OBVIOUS
    <3>3. s \in Seq(S) /\ Range(s) = S \cap 1 .. (i - 1) /\ \A j, k \in DOMAIN s : s[j] = s[k] => j = k
      BY <3>1, <3>2
    <3>4. upTo[i] = IF i \in S THEN Append(s, i) ELSE s
      BY <1>4, <2>1, <2>3, <3>2
    <3>5. CASE i \notin S
      <4>1. S \cap 1 .. i = S \cap 1 .. (i - 1)
        BY <2>1, <3>5
      <4> QED BY <2>1, <3>3, <3>4, <3>5, <4>1
    <3>6. CASE i \in S
      <4>1. Append(s, i) \in Seq(S) /\ Len(Append(s, i)) = Len(s) + 1 /\ Len(s) \in Nat
            /\ DOMAIN s = 1 .. Len(s) /\ DOMAIN Append(s, i) = 1 .. Len(s) + 1
            /\ Append(s, i)[Len(s) + 1] = i
            /\ \A j \in 1 .. Len(s) : Append(s, i)[j] = s[j]
        BY <3>3, <3>6, AppendProperties, LenProperties
      <4>2. Range(Append(s, i)) = Range(s) \cup {i}
        BY <4>1 DEF Range
      <4>3. S \cap 1 .. i = (S \cap 1 .. (i - 1)) \cup {i}
        BY <2>1, <3>6
      <4>4. \A j \in DOMAIN s : s[j] # i
        <5>1. \A j \in DOMAIN s : s[j] \in Range(s)
          BY DEF Range
        <5> QED BY <2>1, <3>3, <5>1
      <4>5. ASSUME NEW j \in DOMAIN Append(s, i), NEW k \in DOMAIN Append(s, i),
                   Append(s, i)[j] = Append(s, i)[k]
            PROVE  j = k
        BY <3>3, <4>1, <4>4, <4>5
      <4>6. Lists(Append(s, i), i)
        BY <3>3, <4>1, <4>2, <4>3, <4>5
      <4> QED BY <2>1, <3>4, <3>6, <4>6
    <3> QED BY <3>5, <3>6
  <2> QED BY <2>2, <2>3
<1>6. Lists(upTo[n], n)
  <2>1. n \in 0 .. n
    OBVIOUS
  <2> HIDE DEF upTo, Lists
  <2> QED BY <1>5, <2>1
<1>7. S \cap 1 .. n = S
  OBVIOUS
<1> HIDE DEF upTo
<1> QED BY <1>1, <1>6, <1>7 DEF IsInjective

(* The first names of a path *)
LEMMA FrontOf ==
  ASSUME NEW S, NEW p \in Seq(S), NEW n \in 0 .. Len(p)
  PROVE  /\ Front(p, n) \in Seq(S) /\ Len(Front(p, n)) = n
         /\ DOMAIN Front(p, n) = 1 .. n
         /\ \A i \in 1 .. n : Front(p, n)[i] = p[i]
<1>1. Len(p) \in Nat
  OBVIOUS
<1>2. \A i \in 1 .. n : i \in 1 .. Len(p)
  BY <1>1
<1> QED BY <1>1, <1>2, SubSeqProperties DEF Front

(* The last names of a path *)
LEMMA RestOf ==
  ASSUME NEW S, NEW p \in Seq(S), NEW b \in 0 .. Len(p)
  PROVE  LET r == SubSeq(p, b + 1, Len(p)) IN
         /\ r \in Seq(S) /\ Len(r) = Len(p) - b
         /\ DOMAIN r = 1 .. Len(p) - b
         /\ \A i \in 1 .. Len(p) - b : r[i] = p[b + i]
<1>1. Len(p) \in Nat
  OBVIOUS
<1>2. \A i \in (b + 1) .. Len(p) : i \in 1 .. Len(p)
  BY <1>1
<1>3. CASE b + 1 <= Len(p) + 1
  <2>1. Len(p) - (b + 1) + 1 = Len(p) - b /\ b + 1 \in Int /\ Len(p) \in Int
    BY <1>1
  <2>2. \A i \in 1 .. Len(p) - b : (b + 1) + i - 1 = b + i
    BY <1>1
  <2>3. SubSeq(p, b + 1, Len(p)) \in Seq(S)
    BY <1>1, <1>2, <2>1, SubSeqProperties
  <2>4. Len(SubSeq(p, b + 1, Len(p))) = IF b + 1 <= Len(p) THEN Len(p) - (b + 1) + 1 ELSE 0
    BY <1>1, <1>2, <2>1, SubSeqProperties
  <2>5. \A i \in 1 .. Len(p) - b : SubSeq(p, b + 1, Len(p))[i] = p[b + i]
    BY <1>1, <1>2, <2>1, <2>2, SubSeqProperties
  <2> QED BY <1>1, <2>3, <2>4, <2>5, LenProperties
<1> QED BY <1>1, <1>3

(* Two paths with the same names are the same. *)
LEMMA SamePath ==
  ASSUME NEW S, NEW p \in Seq(S), NEW q \in Seq(S), Len(p) = Len(q),
         \A i \in 1 .. Len(p) : p[i] = q[i]
  PROVE  p = q
BY SeqEqual

(* The first names of the first names *)
LEMMA FrontFront ==
  ASSUME NEW S, NEW p \in Seq(S), NEW n \in 0 .. Len(p), NEW m \in 0 .. n
  PROVE  Front(Front(p, n), m) = Front(p, m)
<1>1. Len(p) \in Nat /\ m \in 0 .. Len(p)
  OBVIOUS
<1>2. Front(p, n) \in Seq(S) /\ Len(Front(p, n)) = n /\ \A i \in 1 .. n : Front(p, n)[i] = p[i]
  BY FrontOf
<1>3. /\ Front(Front(p, n), m) \in Seq(S) /\ Len(Front(Front(p, n), m)) = m
      /\ \A i \in 1 .. m : Front(Front(p, n), m)[i] = Front(p, n)[i]
  <2>1. PICK f : f = Front(p, n)
    OBVIOUS
  <2>2. f \in Seq(S) /\ m \in 0 .. Len(f)
    BY <1>2, <2>1
  <2> QED BY <2>1, <2>2, FrontOf
<1>4. Front(p, m) \in Seq(S) /\ Len(Front(p, m)) = m /\ \A i \in 1 .. m : Front(p, m)[i] = p[i]
  BY <1>1, FrontOf
<1>5. \A i \in 1 .. m : i \in 1 .. n
  OBVIOUS
<1> QED BY <1>2, <1>3, <1>4, <1>5, SamePath

(* All of a path is its first names. *)
LEMMA FrontAll ==
  ASSUME NEW S, NEW p \in Seq(S)
  PROVE  Front(p, Len(p)) = p
<1>1. Len(p) \in Nat /\ Len(p) \in 0 .. Len(p)
  OBVIOUS
<1> QED BY <1>1, FrontOf, SamePath

(* A path is a sequence of names, and each beginning of it is one too. *)
LEMMA SpotIs ==
  ASSUME NEW p \in Spots
  PROVE  /\ p \in Seq(FileNames) /\ Len(p) \in Nat /\ DOMAIN p = 1 .. Len(p)
         /\ p = <<>> <=> Len(p) = 0
         /\ p \in Places <=> p # <<>>
         /\ \A n \in 0 .. Len(p) : Front(p, n) \in Spots
<1>1. p \in Seq(FileNames) /\ (p \in Places <=> p # <<>>)
  <2>1. <<>> \in Seq(FileNames)
    BY EmptySeq
  <2> QED BY <2>1, WorkspaceReadAssumption DEF Spots
<1>2. Len(p) \in Nat /\ DOMAIN p = 1 .. Len(p) /\ (p = <<>> <=> Len(p) = 0)
  BY <1>1, EmptySeq
<1>3. ASSUME NEW n \in 0 .. Len(p) PROVE Front(p, n) \in Spots
  <2>1. CASE n = 0
    <3>1. Front(p, 0) \in Seq(FileNames) /\ Len(Front(p, 0)) = 0
      BY <1>1, <1>2, FrontOf
    <3>2. Front(p, 0) = <<>>
      BY <3>1, EmptySeq
    <3> QED BY <2>1, <3>2 DEF Spots
  <2>2. CASE n # 0
    <3>1. p \in Places /\ n \in 1 .. Len(p)
      BY <1>1, <1>2, <2>2
    <3> QED BY <3>1, WorkspaceReadAssumption DEF Spots, Prefixes
  <2> QED BY <2>1, <2>2
<1> QED BY <1>1, <1>2, <1>3

(* What it is for one path to be below another *)
LEMMA UnderIs ==
  ASSUME NEW d \in Spots, NEW p \in Spots
  PROVE  /\ Under(d, p) <=> Len(d) <= Len(p) /\ \A i \in 1 .. Len(d) : d[i] = p[i]
         /\ Under(d, p) /\ d # p => Len(d) < Len(p)
         /\ p \in Below(d) <=> Under(d, p) /\ p # d
<1>1. d \in Seq(FileNames) /\ p \in Seq(FileNames) /\ Len(d) \in Nat /\ Len(p) \in Nat
  BY SpotIs
<1>2. Under(d, p) <=> Len(d) <= Len(p) /\ \A i \in 1 .. Len(d) : d[i] = p[i]
  <2>1. CASE Len(d) <= Len(p)
    <3>1. Len(d) \in 0 .. Len(p)
      BY <1>1, <2>1
    <3>2. /\ Front(p, Len(d)) \in Seq(FileNames) /\ Len(Front(p, Len(d))) = Len(d)
          /\ \A i \in 1 .. Len(d) : Front(p, Len(d))[i] = p[i]
      BY <1>1, <3>1, FrontOf
    <3>3. (\A i \in 1 .. Len(d) : d[i] = p[i]) => Front(p, Len(d)) = d
      BY <1>1, <3>2, SamePath
    <3> QED BY <2>1, <3>2, <3>3 DEF Under
  <2> QED BY <2>1 DEF Under
<1>3. Under(d, p) /\ d # p => Len(d) < Len(p)
  BY <1>1, <1>2, SamePath
<1>4. p \in Below(d) <=> Under(d, p) /\ p # d
  <2>1. Under(d, p) /\ p # d => p \in Places
    <3>1. Len(d) < Len(p) => p # <<>>
      BY <1>1, SpotIs
    <3> QED BY <1>3, <3>1, SpotIs
  <2> QED BY <1>1, <1>3, <2>1 DEF Below, Under
<1> QED BY <1>2, <1>3, <1>4

(* Everything is under itself, ... *)
LEMMA UnderItself == ASSUME NEW p \in Spots PROVE Under(p, p)
<1>1. Len(p) \in Nat
  BY SpotIs
<1> QED BY <1>1, UnderIs

(* ... and what is above the same path is in a row. *)
LEMMA UnderChain ==
  ASSUME NEW a \in Spots, NEW b \in Spots, NEW c \in Spots, Under(b, c)
  PROVE  /\ Under(a, b) => Under(a, c)
         /\ Under(a, c) /\ Len(a) <= Len(b) => Under(a, b)
<1>1. Len(a) \in Nat /\ Len(b) \in Nat /\ Len(c) \in Nat
  BY SpotIs
<1>2. Len(b) <= Len(c) /\ \A i \in 1 .. Len(b) : b[i] = c[i]
  BY UnderIs
<1>3. Len(a) <= Len(b) => \A i \in 1 .. Len(a) : i \in 1 .. Len(b)
  BY <1>1
<1>4. Under(a, b) => Len(a) <= Len(b) /\ \A i \in 1 .. Len(a) : a[i] = b[i]
  BY UnderIs
<1>5. Under(a, c) => Len(a) <= Len(c) /\ \A i \in 1 .. Len(a) : a[i] = c[i]
  BY UnderIs
<1>6. Under(a, b) => Under(a, c)
  <2> SUFFICES ASSUME Under(a, b) PROVE Len(a) <= Len(c) /\ \A i \in 1 .. Len(a) : a[i] = c[i]
    BY UnderIs
  <2> QED BY <1>1, <1>2, <1>3, <1>4
<1>7. ASSUME Under(a, c), Len(a) <= Len(b) PROVE Under(a, b)
  <2>1. \A i \in 1 .. Len(a) : a[i] = b[i]
    BY <1>2, <1>3, <1>5, <1>7
  <2> QED BY <1>7, <2>1, UnderIs
<1> QED BY <1>6, <1>7

(* What the first names of a path are: what it is below *)
LEMMA FrontIs ==
  ASSUME NEW p \in Spots, NEW n \in 0 .. Len(p)
  PROVE  /\ Front(p, n) \in Spots /\ Len(Front(p, n)) = n /\ Under(Front(p, n), p)
         /\ n # Len(p) => Front(p, n) # p
         /\ Front(p, Len(p)) = p
         /\ \A m \in 0 .. n : Front(Front(p, n), m) = Front(p, m)
         /\ \A i \in 1 .. n : Front(p, n)[i] = p[i]
<1>1. p \in Seq(FileNames) /\ Len(p) \in Nat
  BY SpotIs
<1>2. Front(p, n) \in Spots /\ Len(Front(p, n)) = n /\ \A i \in 1 .. n : Front(p, n)[i] = p[i]
  BY <1>1, FrontOf, SpotIs
<1>3. Under(Front(p, n), p)
  BY <1>1, <1>2 DEF Under
<1> QED BY <1>1, <1>2, <1>3, FrontAll, FrontFront

(* What is directly in a directory *)
LEMMA ChildIs ==
  ASSUME NEW d \in Spots, NEW i \in DOMAIN NamesInOrder, Append(d, NamesInOrder[i]) \in Places
  PROVE  LET c == Append(d, NamesInOrder[i]) IN
         c \in Spots /\ Len(c) = Len(d) + 1 /\ Under(d, c) /\ c # d /\ Front(c, Len(d)) = d
<1>1. NamesInOrder[i] \in FileNames
  <2>1. DOMAIN NamesInOrder = 1 .. Len(NamesInOrder)
    BY WorkspaceReadAssumption
  <2> QED BY <2>1 DEF FileNames
<1>2. d \in Seq(FileNames) /\ Len(d) \in Nat
  BY SpotIs
<1> DEFINE c == Append(d, NamesInOrder[i])
<1>3. c \in Spots
  BY DEF Spots
<1>4. Len(c) = Len(d) + 1 /\ \A j \in 1 .. Len(d) : d[j] = c[j]
  BY <1>1, <1>2, AppendProperties
<1> HIDE DEF c
<1>5. Under(d, c)
  BY <1>2, <1>3, <1>4, UnderIs
<1>6. c # d
  BY <1>2, <1>4
<1>7. Front(c, Len(d)) = d
  BY <1>5 DEF Under
<1> QED BY <1>3, <1>4, <1>5, <1>6, <1>7 DEF c

(* A rule that names what a path is in, or is, matches the path. *)
LEMMA NamesMatches ==
  ASSUME NEW S, NEW path \in Seq(S), NEW rule, NEW isDir, NEW n \in 1 .. Len(path),
         Names(rule, Front(path, n), n # Len(path) \/ isDir)
  PROVE  Matches(rule, path, isDir)
<1>1. Len(path) \in Nat /\ n \in 0 .. Len(path)
  OBVIOUS
<1>2. PICK q : q = Front(path, n)
  OBVIOUS
<1>3. Len(q) = n /\ DOMAIN q = 1 .. n
  BY <1>1, <1>2, FrontOf
<1>4. MatchPath(rule, q)
  <2>1. CASE rule.anchored \/ rule.hasSlash
    BY <1>2, <2>1 DEF Names, MatchPath
  <2>2. CASE ~(rule.anchored \/ rule.hasSlash)
    <3>1. MatchPattern(rule.pattern, <<q[n]>>) /\ n \in DOMAIN q
      BY <1>1, <1>2, <1>3, <2>2 DEF Names
    <3> QED BY <2>2, <3>1 DEF MatchPath
  <2> QED BY <2>1, <2>2
<1>5. CASE isDir
  <2>1. q \in DirCandidates(path, isDir)
    BY <1>1, <1>2, <1>5 DEF DirCandidates
  <2> QED BY <1>4, <2>1 DEF Matches
<1>6. CASE n # Len(path)
  <2>1. q \in DirCandidates(path, isDir)
    BY <1>1, <1>2, <1>6 DEF DirCandidates
  <2> QED BY <1>4, <2>1 DEF Matches
<1>7. CASE ~isDir /\ n = Len(path)
  <2>1. q = path
    BY <1>2, <1>7, FrontAll
  <2>2. ~rule.dirOnly
    BY <1>2, <1>7 DEF Names
  <2> QED BY <1>4, <2>1, <2>2 DEF Matches
<1> QED BY <1>5, <1>6, <1>7

(* A rule that matches what a path begins with names one of its beginnings. *)
LEMMA MatchPathNames ==
  ASSUME NEW S, NEW path \in Seq(S), NEW rule, NEW n \in 1 .. Len(path), MatchPath(rule, Front(path, n))
  PROVE  \E m \in 1 .. n : \A isDir : (rule.dirOnly => isDir) => Names(rule, Front(path, m), isDir)
<1>1. Len(path) \in Nat /\ n \in 0 .. Len(path)
  OBVIOUS
<1>2. PICK q : q = Front(path, n)
  OBVIOUS
<1>3. Len(q) = n /\ DOMAIN q = 1 .. n /\ \A i \in 1 .. n : q[i] = path[i]
  BY <1>1, <1>2, FrontOf
<1>4. CASE rule.anchored \/ rule.hasSlash
  <2>1. MatchPattern(rule.pattern, Front(path, n))
    BY <1>4 DEF MatchPath
  <2>2. n \in 1 .. n
    BY <1>1
  <2> QED BY <1>4, <2>1, <2>2 DEF Names
<1>5. CASE ~(rule.anchored \/ rule.hasSlash)
  <2>1. PICK m \in 1 .. n : MatchPattern(rule.pattern, <<q[m]>>)
    BY <1>2, <1>3, <1>5 DEF MatchPath
  <2>2. m \in 0 .. Len(path) /\ m \in 1 .. m
    BY <1>1
  <2>3. PICK r : r = Front(path, m)
    OBVIOUS
  <2>4. Len(r) = m /\ r[m] = path[m]
    BY <2>2, <2>3, FrontOf
  <2>5. r[Len(r)] = q[m]
    BY <1>3, <2>4
  <2>6. MatchPattern(rule.pattern, <<r[Len(r)]>>)
    BY <2>1, <2>5
  <2>7. ASSUME NEW isDir, rule.dirOnly => isDir PROVE Names(rule, r, isDir)
    BY <1>5, <2>6, <2>7 DEF Names
  <2> QED BY <2>3, <2>7
<1> QED BY <1>4, <1>5

(* A rule that matches a path names what it is in, or the path itself. *)
LEMMA MatchesNames ==
  ASSUME NEW S, NEW path \in Seq(S), NEW rule, NEW isDir, path # <<>>, Matches(rule, path, isDir)
  PROVE  \E n \in 1 .. Len(path) : Names(rule, Front(path, n), n # Len(path) \/ isDir)
<1>1. Len(path) \in Nat /\ Len(path) \in 1 .. Len(path)
  BY EmptySeq
<1>2. CASE ~rule.dirOnly /\ MatchPath(rule, path)
  <2>1. MatchPath(rule, Front(path, Len(path)))
    BY <1>2, FrontAll
  <2>2. \E m \in 1 .. Len(path) : \A b : (rule.dirOnly => b) => Names(rule, Front(path, m), b)
    BY <1>1, <2>1, MatchPathNames
  <2>3. PICK m \in 1 .. Len(path) : \A b : (rule.dirOnly => b) => Names(rule, Front(path, m), b)
    BY <2>2
  <2>4. PICK b : b = (m # Len(path) \/ isDir)
    OBVIOUS
  <2>5. Names(rule, Front(path, m), b)
    BY <1>2, <2>3
  <2> QED BY <2>4, <2>5
<1>3. ASSUME NEW c \in DirCandidates(path, isDir), MatchPath(rule, c)
      PROVE  \E n \in 1 .. Len(path) : Names(rule, Front(path, n), n # Len(path) \/ isDir)
  <2>1. PICK n \in 1 .. (IF isDir THEN Len(path) ELSE Len(path) - 1) : c = Front(path, n)
    BY DEF DirCandidates
  <2>2. n \in 1 .. Len(path) /\ (~isDir => n # Len(path))
    BY <1>1, <2>1
  <2>3. MatchPath(rule, Front(path, n))
    BY <1>3, <2>1
  <2>4. \E m \in 1 .. n : \A b : (rule.dirOnly => b) => Names(rule, Front(path, m), b)
    BY <2>2, <2>3, MatchPathNames
  <2>5. PICK m \in 1 .. n : \A b : (rule.dirOnly => b) => Names(rule, Front(path, m), b)
    BY <2>4
  <2>6. m \in 1 .. Len(path) /\ (m # Len(path) \/ isDir)
    BY <1>1, <2>2
  <2>7. PICK b : b = (m # Len(path) \/ isDir)
    OBVIOUS
  <2>8. Names(rule, Front(path, m), b)
    BY <2>5, <2>6, <2>7
  <2> QED BY <2>6, <2>7, <2>8
<1> QED BY <1>2, <1>3 DEF Matches

(* What is hidden, and not by default, is hidden for git. *)
LEMMA IgnoredHides ==
  ASSUME NEW S, NEW path \in Seq(S), NEW theRules, NEW isDir,
         Ignored(theRules, path, isDir), ~DefaultIgnored(path)
  PROVE  GitHides(theRules, path, isDir)
<1> DEFINE hits == { i \in DOMAIN theRules : Matches(theRules[i], path, isDir) }
<1>1. path # <<>> /\ \E i \in hits : \A j \in hits : j <= i /\ ~theRules[i].negated
  BY DEF Ignored
<1>2. PICK i \in hits : \A j \in hits : j <= i /\ ~theRules[i].negated
  BY <1>1
<1>3. ~theRules[i].negated
  BY <1>2
<1>4. PICK n \in 1 .. Len(path) : Names(theRules[i], Front(path, n), n # Len(path) \/ isDir)
  BY <1>1, <1>2, MatchesNames
<1>5. Len(path) \in Nat /\ n \in 0 .. Len(path)
  OBVIOUS
<1>6. Front(path, n) # path <=> n # Len(path)
  BY <1>5, FrontOf, FrontAll
<1>7. \A j \in DOMAIN theRules : Names(theRules[j], Front(path, n), n # Len(path) \/ isDir) => j \in hits
  BY NamesMatches
<1>8. PICK b : b = (n # Len(path) \/ isDir)
  OBVIOUS
<1>9. Excluded(theRules, Front(path, n), b)
  <2> HIDE DEF hits
  <2>1. i \in DOMAIN theRules
    BY <1>2 DEF hits
  <2>2. Names(theRules[i], Front(path, n), b)
    BY <1>4, <1>8
  <2>3. \A j \in DOMAIN theRules : Names(theRules[j], Front(path, n), b) => j <= i
    BY <1>2, <1>7, <1>8
  <2> QED BY <1>3, <2>1, <2>2, <2>3 DEF Excluded
<1>10. (Front(path, n) # path \/ isDir) <=> b
  BY <1>6, <1>8
<1>11. PICK d : d = (Front(path, n) # path \/ isDir)
  OBVIOUS
<1>12. b = d
  BY <1>8, <1>10, <1>11
<1>13. Front(path, n) \in Prefixes(path)
  BY DEF Prefixes
<1> QED BY <1>9, <1>11, <1>12, <1>13 DEF GitHides

(* A line with ! names what the path is in, or it names the path itself, and *)
(* git excludes what the path is in.                                         *)
LetsIn(theRules, path, isDir) ==
  \E i \in DOMAIN theRules :
    /\ theRules[i].negated
    /\ \E n \in 1 .. Len(path) :
         /\ Names(theRules[i], Front(path, n), n # Len(path) \/ isDir)
         /\ n = Len(path) => \E m \in 1 .. Len(path) - 1 : Excluded(theRules, Front(path, m), TRUE)

(* Such a line lets in what git hides and the code does not. *)
LEMMA LetIn ==
  ASSUME NEW S, NEW path \in Seq(S), NEW theRules, NEW size \in Nat, DOMAIN theRules = 1 .. size,
         NEW isDir, path # <<>>,
         GitHides(theRules, path, isDir), ~Ignored(theRules, path, isDir)
  PROVE  LetsIn(theRules, path, isDir)
<1> DEFINE hits == { i \in DOMAIN theRules : Matches(theRules[i], path, isDir) }
           named(n) == { i \in DOMAIN theRules : Names(theRules[i], Front(path, n), n # Len(path) \/ isDir) }
<1>0. Len(path) \in Nat /\ \A n \in 1 .. Len(path) : n \in 0 .. Len(path)
  OBVIOUS
<1>1. PICK q \in Prefixes(path) : Excluded(theRules, q, q # path \/ isDir)
  BY DEF GitHides
<1>2. PICK k \in 1 .. Len(path) : q = Front(path, k)
  BY <1>1 DEF Prefixes
<1>3. q # path <=> k # Len(path)
  BY <1>0, <1>2, FrontOf, FrontAll
<1>4. PICK b : b = (k # Len(path) \/ isDir)
  OBVIOUS
<1>5. Excluded(theRules, Front(path, k), b)
  <2>1. PICK d : d = (q # path \/ isDir)
    OBVIOUS
  <2>2. (q # path \/ isDir) <=> (k # Len(path) \/ isDir)
    BY <1>3
  <2>3. d = b
    BY <1>4, <2>1, <2>2
  <2> QED BY <1>1, <1>2, <2>1, <2>3
<1>6. PICK j \in DOMAIN theRules : Names(theRules[j], Front(path, k), b)
                                  /\ (\A h \in DOMAIN theRules : Names(theRules[h], Front(path, k), b) => h <= j)
                                  /\ ~theRules[j].negated
  BY <1>5 DEF Excluded
<1>7. j \in hits
  BY <1>4, <1>6, NamesMatches
<1>8. PICK i \in hits : \A h \in hits : h <= i
  <2>1. hits \subseteq 0 .. size
    OBVIOUS
  <2> HIDE DEF hits
  <2> QED BY <1>7, <2>1, Largest
<1>9. theRules[i].negated
  <2>1. CASE \E h \in hits : ~(h <= i /\ ~theRules[i].negated)
    BY <1>8, <2>1
  <2>2. CASE \A h \in hits : h <= i /\ ~theRules[i].negated
    <3> HIDE DEF hits
    <3>1. Ignored(theRules, path, isDir)
      BY <1>8, <2>2 DEF Ignored, hits
    <3> QED BY <3>1
  <2> QED BY <2>1, <2>2
<1>10. PICK n \in 1 .. Len(path) : Names(theRules[i], Front(path, n), n # Len(path) \/ isDir)
  BY <1>8, MatchesNames
<1>11. ASSUME n = Len(path) PROVE k \in 1 .. Len(path) - 1 /\ Excluded(theRules, Front(path, k), TRUE)
  <2>1. CASE k = Len(path)
    <3>1. Names(theRules[i], Front(path, k), b)
      BY <1>4, <1>10, <1>11, <2>1
    <3>2. i <= j /\ j <= i
      BY <1>6, <1>7, <1>8, <3>1
    <3>3. i = j
      BY <1>6, <1>8, <3>2
    <3> QED BY <1>6, <1>9, <3>3
  <2>2. CASE k # Len(path)
    <3>1. b = TRUE
      BY <1>4, <2>2
    <3>2. Excluded(theRules, Front(path, k), TRUE)
      BY <1>5, <3>1
    <3>3. k \in 1 .. Len(path) - 1
      BY <1>0, <2>2
    <3> QED BY <3>2, <3>3
  <2> QED BY <2>1, <2>2
<1> QED BY <1>8, <1>9, <1>10, <1>11 DEF LetsIn

(* ignored hides nothing but what git's reading of the .gitignore hides and   *)
(* what the defaults do, and all of it but what a line with ! lets in: there  *)
(* the code, which asks each rule about all that a path is in and takes the   *)
(* last that matches, differs from git, which never looks into a directory    *)
(* that is excluded (foundation/workspace/ignore.go).                         *)
THEOREM IgnoreIsGit ==
  ASSUME NEW S, NEW path \in Seq(S), path # <<>>, NEW isDir,
         NEW theRules, NEW size \in Nat, DOMAIN theRules = 1 .. size
  PROVE  /\ Ignored(theRules, path, isDir) => DefaultIgnored(path) \/ GitHides(theRules, path, isDir)
         /\ DefaultIgnored(path) => Ignored(theRules, path, isDir)
         /\ GitHides(theRules, path, isDir) /\ ~LetsIn(theRules, path, isDir) => Ignored(theRules, path, isDir)
<1>1. DefaultIgnored(path) => Ignored(theRules, path, isDir)
  BY DEF Ignored
<1>2. ASSUME Ignored(theRules, path, isDir), ~DefaultIgnored(path) PROVE GitHides(theRules, path, isDir)
  BY <1>2, IgnoredHides
<1>3. ASSUME GitHides(theRules, path, isDir), ~LetsIn(theRules, path, isDir) PROVE Ignored(theRules, path, isDir)
  BY <1>3, LetIn
<1> QED BY <1>1, <1>2, <1>3

(* Where a path leads from the root of the call's workspace *)
LEMMA RelIs ==
  ASSUME call.path \in Spots, NEW p \in Spots, Under(call.path, p)
  PROVE  /\ Base \in Spots /\ Len(Base) \in Nat /\ Len(Base) <= Len(call.path)
         /\ Len(call.path) \in Nat /\ Len(call.path) <= Len(p) /\ Len(p) \in Nat
         /\ Rel(p) \in Seq(FileNames) /\ Len(Rel(p)) = Len(p) - Len(Base)
         /\ Len(Rel(call.path)) = Len(call.path) - Len(Base)
         /\ Rel(p) = <<>> <=> Len(p) = Len(Base)
         /\ \A n \in Len(Base) .. Len(p) : Rel(Front(p, n)) = Front(Rel(p), n - Len(Base))
<1>1. Base \in Spots /\ Len(Base) \in Nat /\ Len(Base) <= Len(call.path) /\ Len(call.path) \in Nat
  <2>1. <<>> \in Spots
    BY DEF Spots
  <2>2. Len(call.path) \in Nat /\ Len(<<>>) = 0
    BY SpotIs, EmptySeq
  <2>3. CASE call.tool = "summary"
    BY <2>2, <2>3 DEF Base
  <2>4. CASE call.tool # "summary"
    BY <2>1, <2>2, <2>4 DEF Base
  <2> QED BY <2>3, <2>4
<1>2. PICK b : b = Len(Base)
  OBVIOUS
<1>3. p \in Seq(FileNames) /\ Len(p) \in Nat /\ call.path \in Seq(FileNames) /\ Len(call.path) <= Len(p)
  BY SpotIs DEF Under
<1>4. b \in 0 .. Len(p) /\ b \in 0 .. Len(call.path)
  BY <1>1, <1>2, <1>3
<1>5. Rel(p) \in Seq(FileNames) /\ Len(Rel(p)) = Len(p) - b /\ \A i \in 1 .. Len(p) - b : Rel(p)[i] = p[b + i]
  BY <1>2, <1>3, <1>4, RestOf DEF Rel
<1>6. Len(Rel(call.path)) = Len(call.path) - b
  BY <1>2, <1>3, <1>4, RestOf DEF Rel
<1>7. Rel(p) = <<>> <=> Len(p) = b
  <2>1. Rel(p) = <<>> <=> Len(Rel(p)) = 0
    BY <1>5, EmptySeq
  <2> QED BY <1>3, <1>4, <1>5, <2>1
<1>8. ASSUME NEW n \in b .. Len(p) PROVE Rel(Front(p, n)) = Front(Rel(p), n - b)
  <2>1. n \in 0 .. Len(p) /\ n - b \in 0 .. Len(p) - b
    BY <1>3, <1>4
  <2>2. PICK f : f = Front(p, n)
    OBVIOUS
  <2>3. f \in Seq(FileNames) /\ Len(f) = n /\ \A i \in 1 .. n : f[i] = p[i]
    BY <1>3, <2>1, <2>2, FrontOf
  <2>4. b \in 0 .. Len(f)
    BY <1>3, <1>4, <2>3
  <2>5. Rel(f) \in Seq(FileNames) /\ Len(Rel(f)) = n - b /\ \A i \in 1 .. n - b : Rel(f)[i] = f[b + i]
    <3>1. /\ SubSeq(f, b + 1, Len(f)) \in Seq(FileNames) /\ Len(SubSeq(f, b + 1, Len(f))) = Len(f) - b
          /\ \A i \in 1 .. Len(f) - b : SubSeq(f, b + 1, Len(f))[i] = f[b + i]
      BY <2>3, <2>4, RestOf
    <3> QED BY <1>2, <2>3, <3>1 DEF Rel
  <2>6. PICK r : r = Rel(p)
    OBVIOUS
  <2>7. /\ Front(r, n - b) \in Seq(FileNames) /\ Len(Front(r, n - b)) = n - b
        /\ \A i \in 1 .. n - b : Front(r, n - b)[i] = r[i]
    BY <1>5, <2>1, <2>6, FrontOf
  <2>8. \A i \in 1 .. n - b : b + i \in 1 .. n /\ i \in 1 .. Len(p) - b
    BY <1>3, <1>4
  <2>9. \A i \in 1 .. n - b : Rel(f)[i] = Front(r, n - b)[i]
    BY <1>5, <2>3, <2>5, <2>6, <2>7, <2>8
  <2> QED BY <2>2, <2>5, <2>6, <2>7, <2>9, SamePath
<1> QED BY <1>1, <1>2, <1>3, <1>5, <1>6, <1>7, <1>8

(* What is reached through directories that are not hidden, and is not hidden *)
(* itself, is to be shown, or nothing is said of it.                          *)
LEMMA ReachedIsVisible ==
  ASSUME call.path \in Spots, NEW size \in Nat, DOMAIN rules = 1 .. size,
         NEW p \in Spots, Under(call.path, p),
         \A n \in Len(call.path) .. Len(p) - 1 : ~Hidden(Front(p, n), TRUE),
         NEW isDir, isDir = (At(p) = Directory), ~Hidden(p, isDir)
  PROVE  Visible(p) \/ Unsure(p)
<1>1. PICK q : q = Rel(p)
  OBVIOUS
<1>2. PICK b : b = Len(Base)
  OBVIOUS
<1>3. /\ b \in Nat /\ b <= Len(call.path)
      /\ Len(call.path) \in Nat /\ Len(call.path) <= Len(p) /\ Len(p) \in Nat
      /\ q \in Seq(FileNames) /\ Len(q) = Len(p) - b
      /\ Len(Rel(call.path)) = Len(call.path) - b
      /\ q = <<>> <=> Len(p) = b
      /\ \A n \in b .. Len(p) : Rel(Front(p, n)) = Front(q, n - b)
  BY <1>1, <1>2, RelIs
<1>4. CASE q = <<>>
  BY <1>1, <1>4 DEF Visible
<1>5. ASSUME q # <<>>, NEW a \in Prefixes(q), Len(a) >= Len(Rel(call.path)), DefaultIgnored(a) PROVE FALSE
  <2>1. PICK m \in 1 .. Len(q) : a = Front(q, m)
    BY <1>5 DEF Prefixes
  <2>2. Len(a) = m /\ m + b \in Len(call.path) .. Len(p) /\ m + b \in b .. Len(p) /\ (m + b) - b = m
    BY <1>3, <1>5, <2>1, FrontOf
  <2>3. a # <<>>
    BY <2>1, <2>2, EmptySeq
  <2>4. CASE m = Len(q)
    <3>1. a = q
      BY <1>3, <2>1, <2>4, FrontAll
    <3> QED BY <1>1, <1>5, <3>1 DEF Hidden, Ignored
  <2>5. CASE m # Len(q)
    <3>1. m + b \in Len(call.path) .. Len(p) - 1
      BY <1>3, <2>2, <2>5
    <3>2. Rel(Front(p, m + b)) = a
      BY <1>3, <2>1, <2>2
    <3>3. ~Ignored(rules, a, TRUE)
      BY <3>1, <3>2 DEF Hidden
    <3> QED BY <1>5, <2>3, <3>3 DEF Ignored
  <2> QED BY <2>4, <2>5
<1>6. ASSUME q # <<>>, GitHides(rules, q, isDir) PROVE Unsure(p)
  <2>1. LetsIn(rules, q, isDir)
    <3>1. ~Ignored(rules, q, isDir)
      BY <1>1 DEF Hidden
    <3> QED BY <1>3, <1>6, <3>1, LetIn
  <2>2. PICK i \in DOMAIN rules :
          /\ rules[i].negated
          /\ \E n \in 1 .. Len(q) :
               /\ Names(rules[i], Front(q, n), n # Len(q) \/ isDir)
               /\ n = Len(q) => \E m \in 1 .. Len(q) - 1 : Excluded(rules, Front(q, m), TRUE)
    BY <2>1 DEF LetsIn
  <2>3. PICK n \in 1 .. Len(q) :
               /\ Names(rules[i], Front(q, n), n # Len(q) \/ isDir)
               /\ n = Len(q) => \E m \in 1 .. Len(q) - 1 : Excluded(rules, Front(q, m), TRUE)
    BY <2>2
  <2>4. ASSUME NEW j \in DOMAIN rules, rules[j].negated, NEW k \in 1 .. Len(q),
               Names(rules[j], Front(q, k), k # Len(q) \/ isDir), k # Len(q) \/ p = call.path
        PROVE  Unsure(p)
    <3>1. PICK r : r = Front(q, k)
      OBVIOUS
    <3>2. r \in Prefixes(Rel(p))
      BY <1>1, <3>1 DEF Prefixes
    <3>3. r # Rel(p) <=> k # Len(q)
      <4>1. k \in 0 .. Len(q) /\ Len(q) \in Nat
        BY <1>3
      <4>2. Len(Front(q, k)) = k
        BY <1>3, <4>1, FrontOf
      <4>3. Front(q, Len(q)) = q
        BY <1>3, FrontAll
      <4> QED BY <1>1, <3>1, <4>2, <4>3
    <3>4. PICK d : d = (r # Rel(p) \/ At(p) = Directory)
      OBVIOUS
    <3>5. d = (k # Len(q) \/ isDir)
      BY <3>3, <3>4
    <3>6. Names(rules[j], r, d)
      BY <2>4, <3>1, <3>5
    <3>7. r # Rel(p) \/ p = call.path
      BY <2>4, <3>3
    <3> QED BY <2>4, <3>2, <3>4, <3>6, <3>7 DEF Unsure
  <2>5. CASE n # Len(q) \/ p = call.path
    BY <2>2, <2>3, <2>4, <2>5
  <2>6. CASE n = Len(q) /\ p # call.path
    <3>1. PICK m \in 1 .. Len(q) - 1 : Excluded(rules, Front(q, m), TRUE)
      BY <2>3, <2>6
    <3>2. Len(call.path) < Len(p)
      BY <1>3, <2>6, UnderIs
    <3>3. PICK a : a = Front(q, Len(q) - 1)
      OBVIOUS
    <3>4. Len(q) - 1 \in 0 .. Len(q) /\ m \in 0 .. Len(q) - 1 /\ Len(q) \in Nat
      BY <1>3
    <3>5. a \in Seq(FileNames) /\ Len(a) = Len(q) - 1
      <4>1. q \in Seq(FileNames)
        BY <1>3
      <4>2. PICK l : l = Len(q) - 1
        OBVIOUS
      <4>3. Front(q, l) \in Seq(FileNames) /\ Len(Front(q, l)) = l
        <5>1. l \in 0 .. Len(q)
          BY <3>4, <4>2
        <5> QED BY <4>1, <5>1, FrontOf
      <4> QED BY <3>3, <4>2, <4>3
    <3>6. \A k \in 0 .. Len(q) - 1 : Front(a, k) = Front(q, k)
      BY <1>3, <3>3, <3>4, FrontFront
    <3>7. a # <<>>
      BY <3>1, <3>4, <3>5, EmptySeq
    <3>8. ~Ignored(rules, a, TRUE)
      <4>1. Len(p) - 1 \in Len(call.path) .. Len(p) - 1 /\ Len(p) - 1 \in b .. Len(p) /\ (Len(p) - 1) - b = Len(q) - 1
        BY <1>3, <3>2
      <4>2. Rel(Front(p, Len(p) - 1)) = a
        BY <1>3, <3>3, <4>1
      <4> QED BY <4>1, <4>2 DEF Hidden
    <3>9. GitHides(rules, a, TRUE)
      <4>1. Front(a, m) \in Prefixes(a) /\ Excluded(rules, Front(a, m), TRUE)
        BY <3>1, <3>4, <3>5, <3>6 DEF Prefixes
      <4>2. (Front(a, m) # a \/ TRUE) = TRUE
        OBVIOUS
      <4> QED BY <4>1, <4>2 DEF GitHides
    <3>10. LetsIn(rules, a, TRUE)
      BY <3>5, <3>7, <3>8, <3>9, LetIn
    <3>11. PICK j \in DOMAIN rules : rules[j].negated
               /\ \E k \in 1 .. Len(a) : Names(rules[j], Front(a, k), k # Len(a) \/ TRUE)
      BY <3>10 DEF LetsIn
    <3>12. PICK k \in 1 .. Len(a) : Names(rules[j], Front(a, k), k # Len(a) \/ TRUE)
      BY <3>11
    <3>13. k \in 1 .. Len(q) /\ k # Len(q) /\ Front(a, k) = Front(q, k)
      BY <3>4, <3>5, <3>6
    <3>14. (k # Len(q) \/ isDir) = (k # Len(a) \/ TRUE)
      BY <3>13
    <3> QED BY <2>4, <3>11, <3>12, <3>13, <3>14
  <2> QED BY <2>5, <2>6
<1>7. CASE q # <<>> /\ ~GitHides(rules, q, isDir)
  BY <1>1, <1>5, <1>7 DEF Visible
<1> QED BY <1>4, <1>6, <1>7

(* What is to be shown is not hidden, and no directory on the way to it is. *)
LEMMA VisibleIsReached ==
  ASSUME call.path \in Spots, NEW p \in Spots, Under(call.path, p), Visible(p),
         NEW isDir, isDir = (At(p) = Directory)
  PROVE  /\ ~Hidden(p, isDir)
         /\ \A n \in Len(call.path) .. Len(p) - 1 : ~Hidden(Front(p, n), TRUE)
<1>1. PICK q : q = Rel(p)
  OBVIOUS
<1>2. PICK b : b = Len(Base)
  OBVIOUS
<1>3. /\ b \in Nat /\ b <= Len(call.path)
      /\ Len(call.path) \in Nat /\ Len(call.path) <= Len(p) /\ Len(p) \in Nat
      /\ q \in Seq(FileNames) /\ Len(q) = Len(p) - b
      /\ Len(Rel(call.path)) = Len(call.path) - b
      /\ q = <<>> <=> Len(p) = b
      /\ \A n \in b .. Len(p) : Rel(Front(p, n)) = Front(q, n - b)
  BY <1>1, <1>2, RelIs
<1>4. CASE q = <<>>
  <2>1. \A n \in Len(call.path) .. Len(p) - 1 : FALSE
    BY <1>3, <1>4
  <2> QED BY <1>1, <1>4, <2>1 DEF Hidden, Ignored
<1>5. CASE q # <<>>
  <2>1. /\ ~GitHides(rules, q, isDir)
        /\ \A a \in Prefixes(q) : Len(a) >= Len(Rel(call.path)) => ~DefaultIgnored(a)
    BY <1>1, <1>5 DEF Visible
  <2>2. \A m \in 1 .. Len(q) : Front(q, m) \in Prefixes(q) /\ Len(Front(q, m)) = m
    <3>1. \A m \in 1 .. Len(q) : m \in 0 .. Len(q)
      BY <1>3
    <3> QED BY <1>3, <3>1, FrontOf DEF Prefixes
  <2>3. ~Hidden(p, isDir)
    <3>1. Len(q) \in 1 .. Len(q) /\ Front(q, Len(q)) = q /\ Len(q) >= Len(Rel(call.path))
      BY <1>3, <1>5, FrontAll
    <3>2. ~DefaultIgnored(q)
      BY <2>1, <2>2, <3>1
    <3>3. ~Ignored(rules, q, isDir)
      BY <1>3, <2>1, <3>2, IgnoredHides
    <3> QED BY <1>1, <3>3 DEF Hidden
  <2>4. ASSUME NEW n \in Len(call.path) .. Len(p) - 1 PROVE ~Hidden(Front(p, n), TRUE)
    <3>1. n - b \in 0 .. Len(q) - 1 /\ n \in b .. Len(p) /\ n - b >= Len(Rel(call.path)) /\ Len(q) \in Nat
      BY <1>3
    <3>2. PICK a : a = Front(q, n - b)
      OBVIOUS
    <3>3. Rel(Front(p, n)) = a /\ a \in Seq(FileNames) /\ Len(a) = n - b
      <4>1. n - b \in 0 .. Len(q)
        BY <3>1
      <4> QED BY <1>3, <3>1, <3>2, <4>1, FrontOf
    <3>4. CASE a = <<>>
      BY <3>3, <3>4 DEF Hidden, Ignored
    <3>5. CASE a # <<>>
      <4>1. n - b \in 1 .. Len(q)
        BY <3>1, <3>3, <3>5, EmptySeq
      <4>2. ~DefaultIgnored(a)
        BY <2>1, <2>2, <3>1, <3>2, <3>3, <4>1
      <4>3. ASSUME GitHides(rules, a, TRUE) PROVE FALSE
        <5>1. PICK r \in Prefixes(a) : Excluded(rules, r, r # a \/ TRUE)
          BY <4>3 DEF GitHides
        <5>2. PICK m \in 1 .. Len(a) : r = Front(a, m)
          BY <5>1 DEF Prefixes
        <5>3. m \in 1 .. Len(q) /\ m # Len(q) /\ r = Front(q, m)
          <6>1. m \in 0 .. n - b /\ n - b \in 0 .. Len(q)
            BY <3>1, <3>3
          <6>2. Front(a, m) = Front(q, m)
            BY <1>3, <3>2, <6>1, FrontFront
          <6> QED BY <3>1, <3>3, <5>2, <6>2
        <5>4. r # q
          BY <2>2, <5>3
        <5>5. (r # q \/ isDir) = (r # a \/ TRUE)
          BY <5>4
        <5>6. r \in Prefixes(q) /\ Excluded(rules, r, r # q \/ isDir)
          BY <2>2, <5>1, <5>3, <5>5
        <5> QED BY <2>1, <5>6 DEF GitHides
      <4>4. ~Ignored(rules, a, TRUE)
        BY <3>3, <4>2, <4>3, IgnoredHides
      <4> QED BY <3>3, <4>4 DEF Hidden
    <3> QED BY <3>4, <3>5
  <2> QED BY <2>3, <2>4
<1> QED BY <1>4, <1>5

-----------------------------------------------------------------------------

(* Sequences without repetitions *)

(* The elements of a sequence, each of them once *)
LEMMA DistinctIs ==
  ASSUME NEW s, Distinct(s)
  PROVE  /\ Len(s) \in Nat /\ DOMAIN s = 1 .. Len(s) /\ s \in Seq(Range(s))
         /\ \A i \in 1 .. Len(s) : s[i] \in Range(s)
         /\ \A i, j \in 1 .. Len(s) : s[i] = s[j] => i = j
         /\ s = <<>> <=> Range(s) = {}
         /\ s # <<>> => 1 \in DOMAIN s /\ s[1] \in Range(s)
         /\ IsFiniteSet(Range(s)) /\ Cardinality(Range(s)) = Len(s)
<1>1. PICK S : s \in Seq(S)
  BY DEF Distinct, IsSequence
<1>2. Len(s) \in Nat /\ DOMAIN s = 1 .. Len(s)
  BY <1>1
<1>3. \A i \in 1 .. Len(s) : s[i] \in Range(s)
  BY <1>2 DEF Range
<1>4. s \in Seq(Range(s))
  BY <1>1, RangeOfSeq, SeqOfRange
<1>5. \A i, j \in 1 .. Len(s) : s[i] = s[j] => i = j
  BY <1>2 DEF Distinct, IsInjective
<1>6. s # <<>> => 1 \in DOMAIN s
  BY <1>1, <1>2, EmptySeq
<1>7. s = <<>> => Range(s) = {}
  BY <1>2, EmptySeq DEF Range
<1>8. IsFiniteSet(Range(s)) /\ Cardinality(Range(s)) = Len(s)
  <2>1. s \in [1 .. Len(s) -> Range(s)]
    BY <1>2, <1>3, <1>4
  <2>2. \A y \in Range(s) : \E i \in 1 .. Len(s) : s[i] = y
    BY <1>2 DEF Range
  <2>3. s \in Bijection(1 .. Len(s), Range(s))
    BY <1>5, <2>1, <2>2 DEF Bijection, Injection, Surjection, IsInjective
  <2>4. ExistsBijection(1 .. Len(s), Range(s))
    BY <2>3 DEF ExistsBijection
  <2>5. IsFiniteSet(1 .. Len(s)) /\ Cardinality(1 .. Len(s)) = Len(s)
    <3>1. PICK n \in Nat : n = Len(s)
      BY <1>2
    <3>2. IsFiniteSet(1 .. n) /\ Cardinality(1 .. n) = IF 1 > n THEN 0 ELSE n - 1 + 1
      BY FS_Interval
    <3> QED BY <3>1, <3>2
  <2> QED BY <2>4, <2>5, FS_Bijection
<1> QED BY <1>2, <1>3, <1>4, <1>5, <1>6, <1>7, <1>8

(* The way to tell that a sequence is one *)
LEMMA DistinctBy ==
  ASSUME NEW S, NEW s \in Seq(S), \A i, j \in 1 .. Len(s) : s[i] = s[j] => i = j
  PROVE  Distinct(s)
<1>1. DOMAIN s = 1 .. Len(s)
  OBVIOUS
<1> QED BY <1>1 DEF Distinct, IsSequence, IsInjective

(* Sequences of none and of one, ... *)
LEMMA DistinctEmpty == Distinct(<<>>) /\ Range(<<>>) = {} /\ Len(<<>>) = 0
<1>1. <<>> \in Seq({}) /\ Len(<<>>) = 0
  BY EmptySeq
<1>2. Distinct(<<>>)
  <2>1. \A i, j \in 1 .. Len(<<>>) : i = j
    BY <1>1
  <2> QED BY <1>1, <2>1, DistinctBy
<1> QED BY <1>1, <1>2, DistinctIs

LEMMA DistinctOne == ASSUME NEW x PROVE Distinct(<<x>>) /\ Range(<<x>>) = {x} /\ Len(<<x>>) = 1
<1>1. <<x>> \in Seq({x}) /\ Len(<<x>>) = 1 /\ <<x>>[1] = x /\ DOMAIN <<x>> = 1 .. 1
  OBVIOUS
<1>2. \A i, j \in 1 .. 1 : i = j
  OBVIOUS
<1>3. Distinct(<<x>>)
  BY <1>1, <1>2, DistinctBy
<1>4. Range(<<x>>) = {x}
  BY <1>1 DEF Range
<1> QED BY <1>1, <1>3, <1>4

(* What is left without the first element *)
LEMMA DistinctTail ==
  ASSUME NEW s, Distinct(s), s # <<>>
  PROVE  Distinct(Tail(s)) /\ Range(Tail(s)) = Range(s) \ {s[1]} /\ Len(Tail(s)) = Len(s) - 1
<1>1. /\ Len(s) \in Nat /\ DOMAIN s = 1 .. Len(s) /\ s \in Seq(Range(s)) /\ 1 \in DOMAIN s
      /\ \A i, j \in 1 .. Len(s) : s[i] = s[j] => i = j
  BY DistinctIs
<1>2. /\ Tail(s) \in Seq(Range(s)) /\ Len(Tail(s)) = Len(s) - 1
      /\ \A i \in 1 .. Len(Tail(s)) : Tail(s)[i] = s[i + 1]
  BY <1>1, HeadTailProperties
<1>3. \A i \in 1 .. Len(Tail(s)) : i + 1 \in 1 .. Len(s) /\ i + 1 # 1
  BY <1>1, <1>2
<1>4. Distinct(Tail(s))
  <2>1. ASSUME NEW i \in 1 .. Len(Tail(s)), NEW j \in 1 .. Len(Tail(s)), Tail(s)[i] = Tail(s)[j] PROVE i = j
    <3>1. i + 1 = j + 1
      BY <1>1, <1>2, <1>3, <2>1
    <3> QED BY <3>1
  <2> QED BY <1>2, <2>1, DistinctBy
<1>5. DOMAIN Tail(s) = 1 .. Len(Tail(s))
  BY <1>2
<1>6. ASSUME NEW x PROVE x \in Range(Tail(s)) <=> x \in Range(s) \ {s[1]}
  <2>1. ASSUME x \in Range(Tail(s)) PROVE x \in Range(s) \ {s[1]}
    <3>1. PICK i \in 1 .. Len(Tail(s)) : x = Tail(s)[i]
      BY <1>5, <2>1 DEF Range
    <3>2. x = s[i + 1] /\ i + 1 \in 1 .. Len(s) /\ i + 1 # 1
      BY <1>2, <1>3, <3>1
    <3> QED BY <1>1, <3>2 DEF Range
  <2>2. ASSUME x \in Range(s), x # s[1] PROVE x \in Range(Tail(s))
    <3>1. PICK i \in 1 .. Len(s) : x = s[i]
      BY <1>1, <2>2 DEF Range
    <3>2. i - 1 \in 1 .. Len(Tail(s)) /\ (i - 1) + 1 = i
      BY <1>1, <1>2, <2>2, <3>1
    <3>3. Tail(s)[i - 1] = x
      BY <1>2, <3>1, <3>2
    <3> QED BY <1>5, <3>2, <3>3 DEF Range
  <2> QED BY <2>1, <2>2
<1> QED BY <1>2, <1>4, <1>6

(* Two sequences one after the other *)
LEMMA DistinctConcat ==
  ASSUME NEW s, NEW t, Distinct(s), Distinct(t), Range(s) \cap Range(t) = {}
  PROVE  /\ Distinct(s \o t) /\ Range(s \o t) = Range(s) \cup Range(t)
         /\ Len(s \o t) = Len(s) + Len(t)
<1> DEFINE S == Range(s) \cup Range(t)
<1>1. /\ Len(s) \in Nat /\ DOMAIN s = 1 .. Len(s) /\ s \in Seq(Range(s))
      /\ \A i \in 1 .. Len(s) : s[i] \in Range(s)
      /\ \A i, j \in 1 .. Len(s) : s[i] = s[j] => i = j
  BY DistinctIs
<1>2. /\ Len(t) \in Nat /\ DOMAIN t = 1 .. Len(t) /\ t \in Seq(Range(t))
      /\ \A i \in 1 .. Len(t) : t[i] \in Range(t)
      /\ \A i, j \in 1 .. Len(t) : t[i] = t[j] => i = j
  BY DistinctIs
<1>3. s \in Seq(S) /\ t \in Seq(S)
  BY <1>1, <1>2, SeqMonotonic
<1> HIDE DEF S
<1>4. /\ s \o t \in Seq(S) /\ Len(s \o t) = Len(s) + Len(t)
      /\ \A i \in 1 .. Len(s) + Len(t) : (s \o t)[i] = IF i <= Len(s) THEN s[i] ELSE t[i - Len(s)]
  BY <1>3, ConcatProperties
<1>5. PICK c : c = s \o t
  OBVIOUS
<1>6. /\ c \in Seq(S) /\ Len(c) = Len(s) + Len(t) /\ DOMAIN c = 1 .. Len(s) + Len(t)
      /\ \A i \in 1 .. Len(s) : c[i] = s[i] /\ i \in DOMAIN c
      /\ \A i \in 1 .. Len(t) : c[Len(s) + i] = t[i] /\ Len(s) + i \in DOMAIN c
  <2>1. \A i \in 1 .. Len(s) : i \in 1 .. Len(s) + Len(t) /\ i <= Len(s)
    BY <1>1, <1>2
  <2>2. \A i \in 1 .. Len(t) : Len(s) + i \in 1 .. Len(s) + Len(t) /\ ~(Len(s) + i <= Len(s)) /\ (Len(s) + i) - Len(s) = i
    BY <1>1, <1>2
  <2>3. DOMAIN c = 1 .. Len(c)
    BY <1>4, <1>5
  <2> QED BY <1>4, <1>5, <2>1, <2>2, <2>3
<1>7. \A i \in DOMAIN c : i \in 1 .. Len(s) \/ \E k \in 1 .. Len(t) : i = Len(s) + k
  <2> SUFFICES ASSUME NEW i \in DOMAIN c, i \notin 1 .. Len(s) PROVE \E k \in 1 .. Len(t) : i = Len(s) + k
    OBVIOUS
  <2>1. i - Len(s) \in 1 .. Len(t) /\ i = Len(s) + (i - Len(s))
    BY <1>1, <1>2, <1>6
  <2> QED BY <2>1
<1>8. Range(c) = Range(s) \cup Range(t)
  <2>1. ASSUME NEW x \in Range(c) PROVE x \in Range(s) \cup Range(t)
    <3>1. PICK i \in DOMAIN c : x = c[i]
      BY DEF Range
    <3> QED BY <1>1, <1>2, <1>6, <1>7, <3>1
  <2>2. ASSUME NEW x \in Range(s) PROVE x \in Range(c)
    <3>1. PICK i \in 1 .. Len(s) : x = s[i]
      BY <1>1 DEF Range
    <3> QED BY <1>6, <3>1 DEF Range
  <2>3. ASSUME NEW x \in Range(t) PROVE x \in Range(c)
    <3>1. PICK i \in 1 .. Len(t) : x = t[i]
      BY <1>2 DEF Range
    <3> QED BY <1>6, <3>1 DEF Range
  <2> QED BY <2>1, <2>2, <2>3
<1>9. ASSUME NEW i \in DOMAIN c, NEW j \in DOMAIN c, c[i] = c[j] PROVE i = j
  <2>1. CASE i \in 1 .. Len(s) /\ j \in 1 .. Len(s)
    BY <1>1, <1>6, <1>9, <2>1
  <2>2. ASSUME NEW k \in 1 .. Len(t), NEW h \in 1 .. Len(t), i = Len(s) + k, j = Len(s) + h PROVE i = j
    <3>1. c[i] = t[k] /\ c[j] = t[h]
      BY <1>6, <2>2
    <3>2. k = h
      BY <1>2, <1>9, <3>1
    <3> QED BY <2>2, <3>2
  <2>3. ASSUME NEW k \in 1 .. Len(t), NEW h \in 1 .. Len(s), c[Len(s) + k] = c[h] PROVE FALSE
    BY <1>1, <1>2, <1>6, <2>3
  <2> QED BY <1>7, <1>9, <2>1, <2>2, <2>3
<1>10. Distinct(c)
  BY <1>6, <1>9, DistinctBy
<1> QED BY <1>5, <1>6, <1>8, <1>10

(* ... and with one more *)
LEMMA DistinctAppend ==
  ASSUME NEW s, NEW x, Distinct(s), x \notin Range(s)
  PROVE  Distinct(Append(s, x)) /\ Range(Append(s, x)) = Range(s) \cup {x} /\ Len(Append(s, x)) = Len(s) + 1
<1>1. Append(s, x) = s \o <<x>>
  <2>1. PICK S : s \in Seq(S)
    BY DEF Distinct, IsSequence
  <2>2. s \in Seq(S \cup {x}) /\ x \in S \cup {x}
    BY <2>1, SeqMonotonic
  <2> QED BY <2>2, AppendIsConcat
<1>2. Distinct(<<x>>) /\ Range(<<x>>) = {x} /\ Len(<<x>>) = 1
  BY DistinctOne
<1> QED BY <1>1, <1>2, DistinctConcat

(* The first few of a sequence *)
LEMMA DistinctFront ==
  ASSUME NEW s, Distinct(s), NEW n \in 0 .. Len(s)
  PROVE  /\ Distinct(SubSeq(s, 1, n)) /\ Range(SubSeq(s, 1, n)) \subseteq Range(s) /\ Len(SubSeq(s, 1, n)) = n
         /\ n = Len(s) => SubSeq(s, 1, n) = s
<1>1. /\ Len(s) \in Nat /\ DOMAIN s = 1 .. Len(s) /\ s \in Seq(Range(s))
      /\ \A i \in 1 .. Len(s) : s[i] \in Range(s)
      /\ \A i, j \in 1 .. Len(s) : s[i] = s[j] => i = j
  BY DistinctIs
<1>2. PICK f : f = SubSeq(s, 1, n)
  OBVIOUS
<1>3. f \in Seq(Range(s)) /\ Len(f) = n /\ DOMAIN f = 1 .. n /\ \A i \in 1 .. n : f[i] = s[i]
  BY <1>1, <1>2, FrontOf DEF Front
<1>4. \A i \in 1 .. n : i \in 1 .. Len(s)
  BY <1>1
<1>5. Distinct(f)
  BY <1>1, <1>3, <1>4, DistinctBy
<1>6. Range(f) \subseteq Range(s)
  BY <1>1, <1>3, <1>4 DEF Range
<1>7. n = Len(s) => f = s
  BY <1>1, <1>3, SamePath
<1> QED BY <1>2, <1>3, <1>5, <1>6, <1>7

(* A sequence that is made by taking each number of a set to something of its own *)
LEMMA DistinctMap ==
  ASSUME NEW s, Distinct(s), NEW f, f = [i \in DOMAIN s |-> f[i]],
         \A i, j \in DOMAIN s : f[i] = f[j] => s[i] = s[j]
  PROVE  Distinct(f) /\ Len(f) = Len(s)
<1>1. /\ Len(s) \in Nat /\ DOMAIN s = 1 .. Len(s)
      /\ \A i, j \in 1 .. Len(s) : s[i] = s[j] => i = j
  BY DistinctIs
<1>2. PICK g : g = [i \in 1 .. Len(s) |-> f[i]]
  OBVIOUS
<1>3. g \in Seq(Range(f)) /\ Len(g) = Len(s) /\ \A i \in 1 .. Len(s) : g[i] = f[i]
  BY <1>1, <1>2, IsASeq, LenProperties DEF Range
<1>4. Distinct(g)
  BY <1>1, <1>3, DistinctBy
<1> QED BY <1>1, <1>2, <1>3, <1>4

-----------------------------------------------------------------------------

(* The parts of the invariant *)

(* What the walk goes by, and what it is to find, depend on nothing else. *)
LEMMA WalkStays ==
  ASSUME call' = call, tree' = tree, rules' = rules, touched' = touched
  PROVE  /\ Expected' = Expected /\ ListLimit' = ListLimit /\ Most' = Most
         /\ Refused' <=> Refused
         /\ \A p : At(p)' = At(p)
         /\ \A p : Unsure(p)' <=> Unsure(p)
         /\ \A c : ItemOK(c)' <=> ItemOK(c)
         /\ \A c : Picked(c)' <=> Picked(c)
         /\ \A e : Right(e)' <=> Right(e)
         /\ IsWorkspace(tree)' <=> IsWorkspace(tree)
         /\ IsCall' <=> IsCall
<1>1. Base' = Base /\ \A p : At(p)' = At(p)
  BY DEF Base, At
<1>2. \A p : Rel(p)' = Rel(p)
  BY <1>1 DEF Rel
<1>3. \A p, b : Hidden(p, b)' <=> Hidden(p, b)
  BY <1>2 DEF Hidden
<1>4. \A p : Visible(p)' <=> Visible(p)
  BY <1>1, <1>2 DEF Visible
<1>5. \A p, d : Within(p, d)' <=> Within(p, d)
  BY DEF Within
<1>6. \A p : Listable(p)' <=> Listable(p)
  BY <1>1 DEF Listable
<1>7. EndLine' = EndLine /\ ListLimit' = ListLimit /\ SearchLimit' = SearchLimit
  BY DEF EndLine, ListLimit, SearchLimit
<1>8. Most' = Most
  BY <1>7 DEF Most
<1>9. Expected' = Expected
  <2>1. \A d : Entries(d)' = Entries(d)
    <3> SUFFICES ASSUME NEW d PROVE Entries(d)' = Entries(d)
      OBVIOUS
    <3> DEFINE E == { q \in Places : Within(q, d) /\ Listable(q) /\ Visible(q) }
    <3>1. E' = E
      BY <1>4, <1>5, <1>6
    <3>2. Entries(d) = { Entry(p, At(p) = Directory) : p \in E }
      BY DEF Entries
    <3>3. Entries(d)' = { Entry(p, At(p)' = Directory) : p \in E' }
      BY DEF Entries
    <3> HIDE DEF E
    <3> QED BY <1>1, <3>1, <3>2, <3>3
  <2>2. LinesFound' = LinesFound
    <3> DEFINE L(p) == { [path |-> p, line |-> i] : i \in { j \in DOMAIN At(p).lines : At(p).lines[j] = "hit" } }
               E == { q \in Places : q \in Below(call.path) \cup {call.path} /\ Visible(q) }
    <3>1. E' = E
      BY <1>4
    <3>2. \A p : L(p)' = L(p)
      BY <1>1
    <3>3. LinesFound = UNION { L(p) : p \in E }
      BY DEF LinesFound
    <3>4. LinesFound' = UNION { L(p)' : p \in E' }
      BY DEF LinesFound
    <3> HIDE DEF E, L
    <3> QED BY <3>1, <3>2, <3>3, <3>4
  <2> QED BY <1>1, <1>7, <2>1, <2>2 DEF Expected
<1>10. \A p : Unsure(p)' <=> Unsure(p)
  BY <1>1, <1>2 DEF Unsure
<1>11. \A c : Entered(c)' <=> Entered(c)
  BY <1>3 DEF Entered
<1>12. \A c : ItemOK(c)' <=> ItemOK(c)
  BY <1>3, <1>11 DEF ItemOK
<1>13. \A c : Picked(c)' <=> Picked(c)
  BY <1>3 DEF Picked
<1>14. \A e : Right(e)' <=> Right(e)
  BY <1>9, <1>10 DEF Right
<1>15. Refused' <=> Refused
  BY DEF Refused
<1>16. (IsWorkspace(tree)' <=> IsWorkspace(tree)) /\ (IsCall' <=> IsCall)
  BY DEF IsWorkspace, IsCall
<1> QED BY <1>1, <1>7, <1>8, <1>9, <1>10, <1>12, <1>13, <1>14, <1>15, <1>16

(* The nodes of a tree are told apart by what they are, and files alone have lines. *)
LEMMA NodeIs ==
  /\ None # Directory /\ None # Binary /\ Directory # Binary
  /\ \A lines : File(lines) \notin {None, Directory, Binary} /\ File(lines).lines = lines
  /\ \A node \in {None, Directory, Binary} : node.lines = <<>> /\ node.is # "file"
  /\ \A node : IsNode(node) => /\ node.lines \in Lines
                               /\ Len(node.lines) \in Nat /\ DOMAIN node.lines = 1 .. Len(node.lines)
                               /\ node.is = "file" <=> node \notin {None, Directory, Binary}
<1>1. None # Directory /\ None # Binary /\ Directory # Binary
  BY DEF None, Directory, Binary
<1>2. \A lines : File(lines) \notin {None, Directory, Binary} /\ File(lines).lines = lines /\ File(lines).is = "file"
  BY DEF None, Directory, Binary, File
<1>3. \A node \in {None, Directory, Binary} : node.lines = <<>> /\ node.is # "file"
  BY DEF None, Directory, Binary
<1>4. <<>> \in Lines
  BY EmptySeq DEF Lines
<1>5. ASSUME NEW node, IsNode(node)
      PROVE  node.lines \in Lines /\ (node.is = "file" <=> node \notin {None, Directory, Binary})
  <2>1. CASE node \in {None, Directory, Binary}
    BY <1>3, <1>4, <2>1
  <2>2. CASE node = File(node.lines) /\ node.lines \in Lines
    BY <1>2, <2>2
  <2> QED BY <1>5, <2>1, <2>2 DEF IsNode
<1>6. \A l \in Lines : Len(l) \in Nat /\ DOMAIN l = 1 .. Len(l)
  BY DEF Lines
<1> QED BY <1>1, <1>2, <1>3, <1>5, <1>6

(* What something is in, is a directory. *)
LEMMA InDirectory ==
  ASSUME IsWorkspace(tree), NEW p \in Places, tree[p] # None,
         NEW a \in Spots, Under(a, p), a # p
  PROVE  At(a) = Directory
<1>1. CASE a = <<>>
  BY <1>1 DEF At
<1>2. CASE a # <<>>
  <2>1. p \in Spots /\ a \in Places
    BY <1>2 DEF Spots
  <2>2. Len(a) \in 1 .. Len(p) /\ a = Front(p, Len(a))
    <3>1. Len(a) \in Nat /\ Len(p) \in Nat /\ Len(a) # 0
      BY <1>2, <2>1, SpotIs
    <3> QED BY <3>1 DEF Under
  <2>3. a \in Prefixes(p) \ {p}
    BY <2>2 DEF Prefixes
  <2> QED BY <1>2, <2>3 DEF IsWorkspace, At
<1> QED BY <1>1, <1>2

(* What was touched takes what is below it along. *)
LEMMA TouchedBelow ==
  ASSUME ReadTypes, NEW a \in Spots, NEW p \in Spots, Under(a, p), a \in touched
  PROVE  p \in touched
<1>1. CASE a = p
  BY <1>1
<1>2. CASE a # p
  <2>1. p \in Below(a)
    BY <1>2, UnderIs
  <2> QED BY <2>1 DEF ReadTypes
<1> QED BY <1>1, <1>2

(* What the walk is to find, of the paths that something is said of *)
LEMMA ToCome ==
  ASSUME ReadTypes, Begun, NEW e \in Expected, ~Unsure(e.path)
  PROVE  /\ e.path \in Places /\ e.path \in Spots /\ e.path \notin touched
         /\ Under(call.path, e.path) /\ e.path # call.path /\ Visible(e.path)
         /\ tree[e.path] # None
         /\ call.tool = "list" =>
              /\ e = Entry(e.path, tree[e.path] = Directory) /\ tree[e.path] # Binary
              /\ Len(e.path) - Len(call.path) <= call.depth
         /\ call.tool = "summary" =>
              /\ e = Entry(e.path, tree[e.path] = Directory) /\ tree[e.path] # Binary
              /\ Len(e.path) - Len(call.path) <= SnapshotDepth
         /\ call.tool = "search" =>
              /\ tree[e.path] # Directory
              /\ \E i \in DOMAIN tree[e.path].lines :
                   tree[e.path].lines[i] = "hit" /\ e = [path |-> e.path, line |-> i]
<1>1. call.path \in Spots /\ call.tool \in {"list", "search", "summary"}
  BY DEF ReadTypes, IsCall, Begun
<1>2. e.path \notin touched
  BY DEF Unsure
<1>3. \A p \in Places : p \in Spots /\ At(p) = tree[p]
  <2>1. \A p \in Places : p # <<>>
    BY SpotIs DEF Spots
  <2> QED BY <2>1 DEF Spots, At
<1>4. ASSUME NEW d, e \in Entries(d)
      PROVE  /\ e.path \in Places /\ Under(call.path, e.path) /\ e.path # call.path /\ Visible(e.path)
             /\ tree[e.path] # None
             /\ e = Entry(e.path, tree[e.path] = Directory) /\ tree[e.path] # Binary
             /\ Len(e.path) - Len(call.path) <= d
  <2>1. PICK p \in Places : Within(p, d) /\ Listable(p) /\ Visible(p) /\ e = Entry(p, At(p) = Directory)
    BY <1>4 DEF Entries
  <2>2. e.path = p
    BY <2>1 DEF Entry
  <2>3. Under(call.path, p) /\ p # call.path
    BY <1>1, <1>3, <2>1, UnderIs DEF Within
  <2> QED BY <1>3, <2>1, <2>2, <2>3 DEF Within, Listable
<1>5. CASE call.tool = "list"
  <2>1. CASE At(call.path) \notin {None, Directory}
    <3>1. e = Entry(call.path, FALSE)
      BY <1>5, <2>1 DEF Expected
    <3>2. e.path = call.path
      BY <3>1 DEF Entry
    <3> QED BY <1>2, <2>1, <3>2 DEF Begun
  <2>2. CASE At(call.path) \in {None, Directory}
    <3>1. e \in Entries(call.depth)
      BY <1>5, <2>2 DEF Expected
    <3> QED BY <1>2, <1>3, <1>4, <1>5, <3>1
  <2> QED BY <2>1, <2>2
<1>6. CASE call.tool = "summary"
  <2>1. e \in Entries(SnapshotDepth)
    BY <1>6 DEF Expected
  <2> QED BY <1>2, <1>3, <1>4, <1>6, <2>1
<1>7. CASE call.tool = "search"
  <2>1. e \in LinesFound
    BY <1>7 DEF Expected
  <2>2. PICK p \in Places : /\ p \in Below(call.path) \cup {call.path} /\ Visible(p)
                            /\ e \in { [path |-> p, line |-> i] :
                                         i \in { j \in DOMAIN At(p).lines : At(p).lines[j] = "hit" } }
    BY <2>1 DEF LinesFound
  <2>3. PICK i \in DOMAIN At(p).lines : At(p).lines[i] = "hit" /\ e = [path |-> p, line |-> i]
    BY <2>2
  <2>4. e.path = p /\ At(p) = tree[p]
    BY <1>3, <2>3
  <2>5. tree[p] # None /\ tree[p] # Directory
    <3>1. \A n : n = <<>> => DOMAIN n = {}
      BY DistinctEmpty, DistinctIs
    <3> QED BY <2>3, <2>4, <3>1, NodeIs
  <2>6. p # call.path
    BY <1>2, <2>4, <2>5 DEF Begun
  <2>7. Under(call.path, p)
    BY <1>1, <1>3, <2>2, <2>6, UnderIs
  <2> QED BY <1>2, <1>3, <1>7, <2>2, <2>3, <2>4, <2>5, <2>6, <2>7
<1> QED BY <1>1, <1>5, <1>6, <1>7

(* An item by way of which something is to be found, is not hidden, was not  *)
(* touched, and is a directory if it is not what is to be found.             *)
LEMMA CoveredIs ==
  ASSUME ReadTypes, NEW p \in Places, p \notin touched, Under(call.path, p), Visible(p), tree[p] # None,
         NEW c, ItemOK(c), Covers(c, p)
  PROVE  /\ c.path \notin touched
         /\ c.do = "visit" => ~Hidden(c.path, c.isDir)
         /\ c.path # p => At(c.path) = Directory /\ ~Hidden(c.path, TRUE) /\ (c.do = "visit" => c.isDir)
         /\ c.do = "read" => c.path # p
         /\ c.path \in Places \/ c.path = call.path
         /\ c.do = "visit" => /\ c.path \in Places /\ At(c.path) = tree[c.path] /\ At(c.path) # None
                            /\ c.isDir = (At(c.path) = Directory)
<1>1. call.path \in Spots /\ p \in Spots /\ c.path \in Spots /\ IsWorkspace(tree) /\ Under(c.path, p)
      /\ Under(call.path, c.path) /\ c.isDir \in BOOLEAN /\ c.do \in {"visit", "read"}
  BY DEF ReadTypes, IsCall, Spots, ItemOK, Covers
<1>2. Len(call.path) \in Nat /\ Len(c.path) \in Nat /\ Len(p) \in Nat
  BY <1>1, SpotIs
<1>3. c.path \notin touched
  BY <1>1, TouchedBelow
<1>4. c.do = "read" => c.path # p
  BY DEF Covers
<1>5. c.do = "visit" => /\ c.path # call.path /\ c.path \in Places
                        /\ At(c.path) = tree[c.path] /\ At(c.path) # None
                        /\ c.isDir = (At(c.path) = Directory)
  <2> SUFFICES ASSUME c.do = "visit"
               PROVE  /\ c.path # call.path /\ c.path \in Places
                      /\ At(c.path) = tree[c.path] /\ At(c.path) # None
                      /\ c.isDir = (At(c.path) = Directory)
    OBVIOUS
  <2>1. c.path # call.path /\ tree[c.path] # None /\ c.isDir = (tree[c.path] = Directory)
    BY <1>3 DEF ItemOK
  <2>2. c.path # <<>>
    <3>1. Len(call.path) < Len(c.path)
      BY <1>1, <2>1, UnderIs
    <3>2. Len(c.path) # 0
      BY <1>2, <3>1
    <3> QED BY <1>1, <3>2, SpotIs
  <2> QED BY <1>1, <2>1, <2>2, SpotIs DEF At
<1>6. ASSUME c.path # p
      PROVE  At(c.path) = Directory /\ ~Hidden(c.path, TRUE) /\ (c.do = "visit" => c.isDir)
  <2>1. At(c.path) = Directory
    BY <1>1, <1>6, InDirectory
  <2>2. Len(c.path) \in Len(call.path) .. Len(p) - 1 /\ c.path = Front(p, Len(c.path))
    BY <1>1, <1>2, <1>6, UnderIs DEF Under
  <2>3. ~Hidden(Front(p, Len(c.path)), TRUE)
    BY <1>1, <2>2, VisibleIsReached
  <2> QED BY <1>5, <2>1, <2>2, <2>3
<1>7. ASSUME c.do = "visit" PROVE ~Hidden(c.path, c.isDir)
  <2>1. CASE c.path = p
    BY <1>1, <1>5, <1>7, <2>1, VisibleIsReached
  <2>2. CASE c.path # p
    <3>1. c.isDir = TRUE
      BY <1>1, <1>6, <1>7, <2>2
    <3> QED BY <1>6, <2>2, <3>1
  <2> QED BY <2>1, <2>2
<1>8. c.path \in Places \/ c.path = call.path
  <2>1. CASE c.path = <<>>
    <3>1. Len(call.path) = 0
      BY <1>1, <1>2, <2>1, UnderIs, SpotIs
    <3> QED BY <1>1, <2>1, <3>1, SpotIs
  <2> QED BY <1>1, <2>1, SpotIs
<1> QED BY <1>3, <1>4, <1>5, <1>6, <1>7, <1>8

(* A step that leaves alone what the walk goes by keeps the types. *)
LEMMA TypesStay ==
  ASSUME ReadTypes, UNCHANGED walk, step' \in {"start", "walk", "done", "failed"}
  PROVE  ReadTypes'
<1>1. call' = call /\ tree' = tree /\ rules' = rules /\ touched' = touched
  BY DEF walk
<1>2. (IsWorkspace(tree)' <=> IsWorkspace(tree)) /\ (IsCall' <=> IsCall)
  BY <1>1, WalkStays
<1> QED BY <1>1, <1>2 DEF ReadTypes, Below

(* A step in the middle of the walk *)
LEMMA WalkGoesOn ==
  ASSUME ReadInv, step = "walk", UNCHANGED <<step, truncated, walk>>, Fits(kept', look', todo', out')
  PROVE  ReadInv'
<1>1. call' = call /\ tree' = tree /\ rules' = rules /\ touched' = touched /\ step' = "walk" /\ truncated' = truncated
  BY DEF walk
<1>2. ReadTypes'
  BY <1>1, TypesStay DEF ReadInv
<1>3. /\ Expected' = Expected /\ ListLimit' = ListLimit /\ Most' = Most
      /\ Refused' <=> Refused
      /\ \A p : At(p)' = At(p)
      /\ \A p : Unsure(p)' <=> Unsure(p)
      /\ \A c : ItemOK(c)' <=> ItemOK(c)
      /\ \A c : Picked(c)' <=> Picked(c)
      /\ \A e : Right(e)' <=> Right(e)
  BY <1>1, WalkStays
<1>4. Begun'
  BY <1>1, <1>3 DEF ReadInv, Begun, At
<1>5. Fits(kept, look, todo, out)'
  <2>1. Complete(kept, look, todo, out)'
    <3>1. Complete(kept', look', todo', out')
      BY DEF Fits
    <3>2. Enough(todo, out)' <=> Enough(todo', out')
      BY <1>3 DEF Enough
    <3> QED BY <1>1, <1>3, <3>1, <3>2 DEF Complete
  <2>2. Shows(out)'
    BY <1>3 DEF Fits, Shows
  <2> QED BY <1>1, <1>3, <2>1, <2>2 DEF Fits, Pending, Ahead
<1> QED BY <1>1, <1>2, <1>4, <1>5 DEF ReadInv, NothingHidden

(* The end of a call that says whether its result is truncated *)
LEMMA CallIsDone ==
  ASSUME ReadTypes, call.tool # "summary",
         step' = "done", UNCHANGED <<call, rules, touched, editsLeft, tree>>, Shows(out'),
         \/ truncated'
         \/ \A e \in Expected :
              e \in Range(out') \/ Unsure(e.path) \/ (call.tool = "list" /\ ListLimit = MaxListLimit)
  PROVE  ReadInv'
<1>1. call' = call /\ tree' = tree /\ rules' = rules /\ touched' = touched
  OBVIOUS
<1>2. ReadTypes'
  <2>1. (IsWorkspace(tree)' <=> IsWorkspace(tree)) /\ (IsCall' <=> IsCall)
    BY <1>1, WalkStays
  <2> QED BY <1>1, <2>1 DEF ReadTypes, Below
<1>3. /\ Expected' = Expected /\ ListLimit' = ListLimit /\ Most' = Most
      /\ \A p : Unsure(p)' <=> Unsure(p)
      /\ \A e : Right(e)' <=> Right(e)
  BY <1>1, WalkStays
<1>4. Shows(out)'
  BY <1>3 DEF Shows
<1>5. \A e : e \in Range(out') => \E i \in DOMAIN out' : out'[i] = e
  BY DEF Range
<1>6. NothingHidden'
  BY <1>1, <1>3, <1>5 DEF NothingHidden
<1> QED BY <1>1, <1>2, <1>4, <1>6 DEF ReadInv

(* The directories a summary shows are directories it found, each once; it leaves
   out others only when it shows as many as it may. *)
LEMMA ImportantAre ==
  ASSUME NEW o, Distinct(o)
  PROVE  LET d == ImportantDirectories(o) IN
         /\ Distinct(d) /\ Range(d) \subseteq Range(o) /\ Len(d) <= Len(o) /\ ShortList(d)
         /\ Len(d) # MaxImportantDirs =>
              \A p \in Places : Entry(p, TRUE) \in Range(o) => Entry(p, TRUE) \in Range(d)
<1>1. PICK n \in Nat : n = Len(PlacesInOrder)
  <2>1. PlacesInOrder \in Seq(Places)
    BY WorkspaceReadAssumption
  <2> QED BY <2>1, LenProperties
<1>2. /\ DOMAIN PlacesInOrder = 1 .. n
      /\ \A p \in Places : \E i \in 1 .. n : PlacesInOrder[i] = p
      /\ \A i, j \in 1 .. n : PlacesInOrder[i] = PlacesInOrder[j] => i = j
  BY <1>1, WorkspaceReadAssumption
<1>3. PICK S : S = { i \in 1 .. n : \E j \in DOMAIN o : o[j] = Entry(PlacesInOrder[i], TRUE) }
  OBVIOUS
<1>4. PICK dirs : dirs = InOrder(n, S)
  OBVIOUS
<1>5. Distinct(dirs) /\ Range(dirs) = S
  <2>1. S \subseteq 1 .. n
    BY <1>3
  <2> QED BY <1>4, <2>1, InOrderIs DEF Distinct, IsSequence
<1>6. /\ Len(dirs) \in Nat /\ DOMAIN dirs = 1 .. Len(dirs)
      /\ \A i \in 1 .. Len(dirs) : dirs[i] \in S
      /\ \A i, j \in 1 .. Len(dirs) : dirs[i] = dirs[j] => i = j
  BY <1>5, DistinctIs
<1>7. PICK m : m = Min2(Len(dirs), MaxImportantDirs)
  OBVIOUS
<1>8. m \in 0 .. Len(dirs) /\ m <= MaxImportantDirs /\ (m # MaxImportantDirs => m = Len(dirs))
  <2>1. MaxImportantDirs \in Nat
    BY WorkspaceReadAssumption
  <2> QED BY <1>6, <1>7, <2>1 DEF Min2
<1>9. PICK d : d = [i \in 1 .. m |-> Entry(PlacesInOrder[dirs[i]], TRUE)]
  OBVIOUS
<1>10. d = ImportantDirectories(o)
  BY <1>1, <1>2, <1>3, <1>4, <1>7, <1>9 DEF ImportantDirectories
<1>11. /\ m \in Nat /\ DOMAIN d = 1 .. m
       /\ \A i \in 1 .. m : i \in 1 .. Len(dirs) /\ d[i] = Entry(PlacesInOrder[dirs[i]], TRUE)
  BY <1>6, <1>8, <1>9
<1>12. \A i \in 1 .. m : d[i].isDir /\ d[i].path = PlacesInOrder[dirs[i]] /\ dirs[i] \in S
  BY <1>6, <1>11 DEF Entry
<1>13. Distinct(d) /\ Len(d) = m
  <2>1. d \in Seq(Range(d)) /\ Len(d) = m
    <3> DEFINE R == Range(d)
    <3>1. \A i \in 1 .. m : d[i] \in R
      BY <1>11 DEF Range
    <3> HIDE DEF R
    <3>2. d \in [1 .. m -> R]
      BY <1>9, <1>11, <3>1
    <3> QED BY <1>11, <3>2 DEF R
  <2>2. \A i, j \in 1 .. m : d[i] = d[j] => i = j
    <3> SUFFICES ASSUME NEW i \in 1 .. m, NEW j \in 1 .. m, d[i] = d[j] PROVE i = j
      OBVIOUS
    <3>1. PlacesInOrder[dirs[i]] = PlacesInOrder[dirs[j]]
      BY <1>12
    <3>2. dirs[i] \in 1 .. n /\ dirs[j] \in 1 .. n
      BY <1>3, <1>12
    <3>3. dirs[i] = dirs[j]
      BY <1>2, <3>1, <3>2
    <3> QED BY <1>6, <1>11, <3>3
  <2> QED BY <2>1, <2>2, DistinctBy
<1>14. Range(d) \subseteq Range(o)
  <2> SUFFICES ASSUME NEW i \in 1 .. m PROVE d[i] \in Range(o)
    BY <1>11 DEF Range
  <2> QED BY <1>3, <1>11, <1>12 DEF Range
<1>15. Len(d) <= Len(o)
  BY <1>13, <1>14, DistinctIs, FS_Subset
<1>16. ShortList(d)
  <2>1. \A e \in Range(d) : e.isDir
    BY <1>11, <1>12 DEF Range
  <2> QED BY <1>8, <1>13, <2>1 DEF ShortList
<1>17. ASSUME Len(d) # MaxImportantDirs, NEW p \in Places, Entry(p, TRUE) \in Range(o)
       PROVE  Entry(p, TRUE) \in Range(d)
  <2>1. PICK i \in 1 .. n : PlacesInOrder[i] = p
    BY <1>2
  <2>2. i \in S
    BY <1>3, <1>17, <2>1 DEF Range
  <2>3. PICK k \in 1 .. Len(dirs) : dirs[k] = i
    BY <1>5, <1>6, <2>2 DEF Range
  <2>4. k \in 1 .. m
    BY <1>8, <1>13, <1>17, <2>3
  <2>5. d[k] = Entry(p, TRUE)
    BY <1>11, <2>1, <2>3, <2>4
  <2> QED BY <1>11, <2>4, <2>5 DEF Range
<1> QED BY <1>10, <1>13, <1>14, <1>15, <1>16, <1>17

(* The end of a summary: unless it has a reason to leave something out, its walk
   has found all that it was to find. *)
LEMMA SummaryIsDone ==
  ASSUME ReadTypes, call.tool = "summary", NEW o, NEW why, Shows(o), Summarize(o, why),
         \/ why = "error"
         \/ why = "limit" /\ (Cardinality(Expected) > SnapshotEntries \/ \E p \in Places : Unsure(p))
         \/ \A e \in Expected : e \in Range(o) \/ Unsure(e.path)
  PROVE  ReadInv'
<1>1. /\ call' = call /\ tree' = tree /\ rules' = rules /\ touched' = touched
      /\ step' = "done" /\ out' = ImportantDirectories(o) /\ cut' = why
  BY DEF Summarize, Ends
<1>2. ReadTypes'
  <2>1. (IsWorkspace(tree)' <=> IsWorkspace(tree)) /\ (IsCall' <=> IsCall)
    BY <1>1, WalkStays
  <2> QED BY <1>1, <2>1 DEF ReadTypes, Below
<1>3. /\ Expected' = Expected /\ ListLimit' = ListLimit /\ Most' = Most
      /\ \A p : Unsure(p)' <=> Unsure(p)
      /\ \A e : Right(e)' <=> Right(e)
  BY <1>1, WalkStays
<1>4. Distinct(o) /\ Len(o) \in Nat /\ Len(o) <= Most /\ \A e \in Range(o) : Right(e)
  BY DistinctIs DEF Shows
<1>5. PICK d : d = ImportantDirectories(o)
  OBVIOUS
<1>6. /\ Distinct(d) /\ Range(d) \subseteq Range(o) /\ Len(d) <= Len(o) /\ ShortList(d)
      /\ Len(d) # MaxImportantDirs =>
           \A p \in Places : Entry(p, TRUE) \in Range(o) => Entry(p, TRUE) \in Range(d)
  BY <1>4, <1>5, ImportantAre
<1>7. Shows(out)' /\ ShortList(out)'
  <2>1. Most \in Nat /\ Len(d) \in Nat
    <3>1. SnapshotEntries \in Nat
      BY WorkspaceReadAssumption
    <3> QED BY <1>6, <3>1, DistinctIs DEF Most
  <2>2. Len(d) <= Most
    BY <1>4, <1>6, <2>1
  <2> QED BY <1>1, <1>3, <1>4, <1>5, <1>6, <2>2 DEF Shows, ShortList
<1>8. NothingHidden'
  <2> SUFFICES ASSUME NEW e \in Expected, ~Unsure(e.path), e.isDir, ~LeavesOut'
               PROVE  \E i \in DOMAIN out' : out'[i] = e
    BY <1>1, <1>3 DEF NothingHidden
  <2>1. /\ why # "error" /\ Len(d) # MaxImportantDirs
        /\ ~(why = "limit" /\ (Cardinality(Expected) > SnapshotEntries \/ \E p \in Places : Unsure(p)))
    BY <1>1, <1>3, <1>5 DEF LeavesOut
  <2>2. e \in Range(o)
    BY <2>1
  <2>3. PICK p \in Places : e = Entry(p, At(p) = Directory)
    BY DEF Expected, Entries
  <2>4. e = Entry(p, TRUE)
    BY <2>3 DEF Entry
  <2>5. e \in Range(d)
    BY <1>6, <2>1, <2>2, <2>4
  <2> QED BY <1>1, <1>5, <2>5 DEF Range
<1> QED BY <1>1, <1>2, <1>7, <1>8 DEF ReadInv

(* The call fails. *)
LEMMA CallFails == ASSUME ReadTypes, Fail PROVE ReadInv'
<1>1. step' = "failed" /\ UNCHANGED walk
  BY DEF Fail, Ends
<1>2. ReadTypes'
  BY <1>1, TypesStay
<1> QED BY <1>1, <1>2 DEF ReadInv, NothingHidden

(* The walk breaks off. *)
LEMMA WalkBreaks ==
  ASSUME ReadInv, step = "walk", NEW gone \in BOOLEAN, Break(gone)
  PROVE  ReadInv'
<1>1. ReadTypes /\ Shows(out)
  BY DEF ReadInv, Fits
<1>2. CASE call.tool # "summary"
  BY <1>1, <1>2, CallFails DEF Break
<1>3. CASE call.tool = "summary"
  <2>1. PICK o : o = IF gone THEN out ELSE <<>>
    OBVIOUS
  <2>2. Shows(<<>>)
    <3>1. SnapshotEntries \in Nat
      BY WorkspaceReadAssumption
    <3>2. Most \in Nat
      BY <1>3, <3>1 DEF Most
    <3> QED BY <3>2, DistinctEmpty DEF Shows
  <2>3. Shows(o) /\ Summarize(o, "error")
    BY <1>1, <1>3, <2>1, <2>2 DEF Break
  <2> QED BY <1>1, <1>3, <2>3, SummaryIsDone
<1> QED BY <1>2, <1>3

(* What os.ReadDir finds in a directory: each thing there once, and whatever *)
(* is below the directory is, or is below, one of them.                      *)
LEMMA ChildrenIs ==
  ASSUME IsWorkspace(tree), NEW d \in Spots, NEW depth
  PROVE  /\ Distinct(Children(d, depth))
         /\ \A f \in Range(Children(d, depth)) :
              /\ f = Visit(f.path, tree[f.path] = Directory, depth)
              /\ f.path \in Places /\ f.path \in Spots /\ tree[f.path] # None
              /\ Under(d, f.path) /\ Len(f.path) = Len(d) + 1
         /\ \A p \in Places : tree[p] # None /\ Under(d, p) /\ p # d =>
              \E f \in Range(Children(d, depth)) : Under(f.path, p)
<1> DEFINE child(i) == Append(d, NamesInOrder[i])
           S == { i \in DOMAIN NamesInOrder : child(i) \in Places /\ tree[child(i)] # None }
           there == InOrder(Len(NamesInOrder), S)
<1>1. /\ Len(NamesInOrder) \in Nat /\ DOMAIN NamesInOrder = 1 .. Len(NamesInOrder)
      /\ \A i, j \in DOMAIN NamesInOrder : NamesInOrder[i] = NamesInOrder[j] => i = j
      /\ \A i \in DOMAIN NamesInOrder : NamesInOrder[i] \in FileNames
  <2>1. Len(NamesInOrder) \in Nat /\ DOMAIN NamesInOrder = 1 .. Len(NamesInOrder)
    BY WorkspaceReadAssumption
  <2> QED BY <2>1, WorkspaceReadAssumption DEF FileNames
<1>2. S \subseteq 1 .. Len(NamesInOrder)
  BY <1>1
<1>3. there \in Seq(S) /\ Range(there) = S /\ IsInjective(there)
  <2> HIDE DEF S
  <2> QED BY <1>1, <1>2, InOrderIs
<1>4. PICK w : w = there
  OBVIOUS
<1>5. Distinct(w) /\ \A j \in DOMAIN w : w[j] \in S
  <2> HIDE DEF S, there
  <2>1. Distinct(w)
    BY <1>3, <1>4 DEF Distinct, IsSequence
  <2> QED BY <1>3, <1>4, <2>1, DistinctIs
<1>6. PICK found : found = Children(d, depth)
  OBVIOUS
<1>7. found = [i \in DOMAIN w |-> Visit(child(w[i]), tree[child(w[i])] = Directory, depth)]
  BY <1>4, <1>6 DEF Children
<1>8. \A i \in DOMAIN w : found[i].path = child(w[i]) /\ found[i] = Visit(child(w[i]), tree[child(w[i])] = Directory, depth)
  BY <1>7 DEF Visit
<1>9. d \in Seq(FileNames) /\ Len(d) \in Nat
  BY SpotIs
<1>10. \A i \in S : child(i) \in Places /\ child(i) \in Spots /\ tree[child(i)] # None
                    /\ Under(d, child(i)) /\ Len(child(i)) = Len(d) + 1
  BY ChildIs
<1>11. ASSUME NEW i \in S, NEW j \in S, child(i) = child(j) PROVE i = j
  <2>1. child(i)[Len(d) + 1] = NamesInOrder[i] /\ child(j)[Len(d) + 1] = NamesInOrder[j]
    BY <1>1, <1>9, AppendProperties
  <2> QED BY <1>1, <1>11, <2>1
<1>12. Distinct(found)
  <2>1. found = [i \in DOMAIN w |-> found[i]]
    BY <1>7
  <2>2. ASSUME NEW i \in DOMAIN w, NEW j \in DOMAIN w, found[i] = found[j] PROVE w[i] = w[j]
    <3>1. child(w[i]) = child(w[j])
      BY <1>8, <2>2
    <3>2. w[i] \in S /\ w[j] \in S
      BY <1>5
    <3> HIDE DEF S, child
    <3> QED BY <1>11, <3>1, <3>2
  <2> QED BY <1>5, <2>1, <2>2, DistinctMap
<1>13. Range(found) = { Visit(child(i), tree[child(i)] = Directory, depth) : i \in S }
  <2> HIDE DEF S, child, there
  <2>1. Range(found) = { found[j] : j \in DOMAIN w }
    BY <1>7 DEF Range
  <2>2. S = { w[j] : j \in DOMAIN w }
    BY <1>3, <1>4 DEF Range
  <2> QED BY <1>8, <2>1, <2>2
<1>14. ASSUME NEW f \in Range(found)
       PROVE  /\ f = Visit(f.path, tree[f.path] = Directory, depth)
              /\ f.path \in Places /\ f.path \in Spots /\ tree[f.path] # None
              /\ Under(d, f.path) /\ Len(f.path) = Len(d) + 1
  <2>1. PICK i \in S : f = Visit(child(i), tree[child(i)] = Directory, depth)
    BY <1>13
  <2>2. f.path = child(i)
    BY <2>1 DEF Visit
  <2> HIDE DEF S, child
  <2> QED BY <1>10, <2>1, <2>2
<1>15. ASSUME NEW p \in Places, tree[p] # None, Under(d, p), p # d
       PROVE  \E f \in Range(found) : Under(f.path, p)
  <2>1. p \in Spots /\ p \in Seq(FileNames) /\ Len(p) \in Nat
    BY SpotIs DEF Spots
  <2>2. Len(d) < Len(p) /\ \A i \in 1 .. Len(d) : d[i] = p[i]
    BY <1>15, <2>1, UnderIs
  <2>3. PICK n : n = Len(d) + 1
    OBVIOUS
  <2>4. n \in 1 .. Len(p) /\ n \in 0 .. Len(p) /\ n \in Nat
    BY <1>9, <2>1, <2>2, <2>3
  <2>5. p[n] \in FileNames
    BY <2>1, <2>4, ElementOfSeq
  <2>6. PICK k \in DOMAIN NamesInOrder : NamesInOrder[k] = p[n]
    BY <1>1, <2>5 DEF FileNames
  <2>7. PICK a : a = Front(p, n)
    OBVIOUS
  <2>8. /\ a \in Spots /\ Len(a) = n /\ Under(a, p) /\ \A i \in 1 .. n : a[i] = p[i]
    BY <2>1, <2>4, <2>7, FrontIs
  <2>9. a \in Seq(FileNames) /\ a \in Places
    <3>1. Len(a) # 0
      BY <1>9, <2>3, <2>8
    <3> QED BY <2>8, <3>1, SpotIs
  <2>10. a = child(k)
    <3>1. /\ child(k) \in Seq(FileNames) /\ Len(child(k)) = Len(d) + 1
          /\ \A i \in 1 .. Len(d) : child(k)[i] = d[i]
          /\ child(k)[Len(d) + 1] = p[n]
      BY <1>1, <1>9, <2>6, AppendProperties
    <3> HIDE DEF child
    <3>2. \A i \in 1 .. n : a[i] = child(k)[i]
      <4> SUFFICES ASSUME NEW i \in 1 .. n PROVE a[i] = child(k)[i]
        OBVIOUS
      <4>1. CASE i = n
        BY <2>3, <2>8, <3>1, <4>1
      <4>2. CASE i # n
        <5>1. i \in 1 .. Len(d)
          BY <1>9, <2>3, <4>2
        <5> QED BY <2>2, <2>8, <3>1, <5>1
      <4> QED BY <4>1, <4>2
    <3> QED BY <2>3, <2>8, <2>9, <3>1, <3>2, SamePath
  <2>11. tree[a] # None
    <3>1. CASE a = p
      BY <1>15, <3>1
    <3>2. CASE a # p
      <4>1. At(a) = Directory
        BY <1>15, <2>8, <3>2, InDirectory
      <4>2. a # <<>>
        BY <2>4, <2>8, EmptySeq
      <4> QED BY <4>1, <4>2, NodeIs DEF At
    <3> QED BY <3>1, <3>2
  <2>12. k \in S
    BY <2>6, <2>9, <2>10, <2>11
  <2>13. Visit(child(k), tree[child(k)] = Directory, depth) \in Range(found)
    <3> HIDE DEF S, child
    <3> QED BY <1>13, <2>12
  <2>14. Visit(child(k), tree[child(k)] = Directory, depth).path = child(k)
    BY DEF Visit
  <2> HIDE DEF child
  <2> QED BY <2>8, <2>10, <2>13, <2>14
<1> QED BY <1>6, <1>12, <1>14, <1>15

(* Items in the place of one that they are below are apart from the others. *)
LEMMA InPlaceOf ==
  ASSUME NEW items, Apart(items), NEW c \in items, \A x \in items : x.path \in Spots,
         NEW F, \A f \in F : f.path \in Spots /\ Under(c.path, f.path),
         \A f, g \in F : f # g => ~Under(f.path, g.path)
  PROVE  Apart((items \ {c}) \cup F) /\ F \cap (items \ {c}) = {}
<1>1. ASSUME NEW f \in F, NEW x \in items \ {c} PROVE ~Under(f.path, x.path) /\ ~Under(x.path, f.path)
  <2>1. ~Under(c.path, x.path) /\ ~Under(x.path, c.path)
    BY DEF Apart
  <2>2. c.path \in Spots /\ x.path \in Spots /\ f.path \in Spots /\ Under(c.path, f.path)
    OBVIOUS
  <2>3. Len(c.path) \in Nat /\ Len(x.path) \in Nat
    BY <2>2, SpotIs
  <2>4. ~Under(f.path, x.path)
    BY <2>1, <2>2, UnderChain
  <2>5. ~Under(x.path, f.path)
    <3>1. CASE Len(c.path) <= Len(x.path)
      BY <2>1, <2>2, <3>1, UnderChain
    <3>2. CASE Len(x.path) <= Len(c.path)
      BY <2>1, <2>2, <3>2, UnderChain
    <3> QED BY <2>3, <3>1, <3>2
  <2> QED BY <2>4, <2>5
<1>2. F \cap (items \ {c}) = {}
  <2>1. \A f \in F : Under(f.path, f.path)
    BY UnderItself
  <2> QED BY <1>1, <2>1
<1>3. Apart((items \ {c}) \cup F)
  BY <1>1 DEF Apart
<1> QED BY <1>2, <1>3

(* The head of a list gives way to others. *)
LEMMA HeadReplaced ==
  ASSUME NEW t, Distinct(t), t # <<>>, NEW s, Distinct(s), Range(s) \cap (Range(t) \ {t[1]}) = {}
  PROVE  Distinct(s \o Tail(t)) /\ Range(s \o Tail(t)) = Range(s) \cup (Range(t) \ {t[1]})
<1>1. Distinct(Tail(t)) /\ Range(Tail(t)) = Range(t) \ {t[1]}
  BY DistinctTail
<1> QED BY <1>1, DistinctConcat

(* The next thing to do is done: others, below it, take its place, and what  *)
(* is shown besides is at its path.                                          *)
LEMMA HeadDone ==
  ASSUME ReadInv, step = "walk", look = <<>>, todo # <<>>,
         UNCHANGED <<step, truncated, walk>>,
         NEW s, NEW l, Distinct(s), Distinct(l), Range(l) \cap Range(s) = {},
         kept' = <<>>, look' = l, todo' = s \o Tail(todo),
         call.tool # "list" => l = <<>>, \A f \in Range(l) : f.do = "visit",
         \A f \in Range(l) \cup Range(s) :
           /\ ItemOK(f) /\ Under(todo[1].path, f.path)
           /\ \A p \in Spots : Covers(f, p) => Covers(todo[1], p),
         \A f, g \in Range(l) \cup Range(s) : f # g => ~Under(f.path, g.path),
         call.tool = "list" => \A f \in Range(s) : f.do = "read",
         Shows(out'), Range(out) \subseteq Range(out'),
         \A e \in Range(out') : \/ e \in Range(out)
                                \/ /\ todo[1].do = "visit" /\ e.path = todo[1].path
                                   /\ \A f \in Range(l) \cup Range(s) : f.do = "read",
         \A e \in Expected : ~Unsure(e.path) /\ Covers(todo[1], e.path) =>
           e \in Range(out') \/ \E f \in Range(l) \cup Range(s) : Covers(f, e.path),
         call.tool = "list" /\ Enough(todo, out) => Enough(todo', out')
  PROVE  ReadInv'
<1> DEFINE c == todo[1]
           F == Range(l) \cup Range(s)
           N == (Range(todo) \ {c}) \cup F
<1>1. Fits(kept, look, todo, out) /\ ReadTypes
  BY DEF ReadInv
<1>2. kept = <<>> /\ Range(kept) = {} /\ Range(look) = {} /\ Distinct(todo)
  BY <1>1, DistinctEmpty DEF Fits
<1>3. Pending(kept, look, todo) = Range(todo)
  BY <1>2 DEF Pending
<1>4. c \in Range(todo)
  BY <1>2, DistinctIs
<1>5. /\ \A x \in Range(todo) : ItemOK(x)
      /\ Apart(Range(todo)) /\ Ahead(Range(todo), out)
      /\ call.tool = "list" => \A x \in Visits(Range(todo)) : Picked(x)
      /\ Complete(kept, look, todo, out)
      /\ Shows(out)
  BY <1>1, <1>2, <1>3 DEF Fits
<1>6. \A x : ItemOK(x) => x.path \in Spots
  BY DEF ItemOK
<1>7. Apart(N) /\ F \cap (Range(todo) \ {c}) = {}
  <2>1. \A f \in F : f.path \in Spots /\ Under(c.path, f.path)
    BY <1>6
  <2>2. \A f, g \in F : f # g => ~Under(f.path, g.path)
    OBVIOUS
  <2>3. \A x \in Range(todo) : x.path \in Spots
    BY <1>5, <1>6
  <2> HIDE DEF F, c
  <2> QED BY <1>4, <1>5, <2>1, <2>2, <2>3, InPlaceOf
<1>8. Distinct(todo') /\ Range(todo') = Range(s) \cup (Range(todo) \ {c})
  BY <1>2, <1>7, HeadReplaced
<1>9. Pending(kept', look', todo') = N
  BY <1>8, DistinctEmpty DEF Pending
<1>10. Range(look') \cap Range(todo') = {} /\ Range(kept') = {} /\ Distinct(kept') /\ Distinct(look')
  BY <1>7, <1>8, DistinctEmpty
<1>11. \A x \in N : ItemOK(x)
  BY <1>5
<1>12. call.tool = "list" => \A x \in Visits(Range(kept') \cup Range(todo')) : Picked(x)
  BY <1>5, <1>8, <1>10 DEF Visits
<1>13. Ahead(N, out')
  <2> SUFFICES ASSUME NEW x \in N, NEW e \in Range(out'), Covers(x, e.path) PROVE FALSE
    BY DEF Ahead
  <2>1. e.path \in Spots
    BY DEF Shows, Right, Spots
  <2>2. CASE e \in Range(out)
    <3>1. CASE x \in F
      <4>1. Covers(c, e.path)
        BY <2>1, <3>1
      <4> QED BY <1>4, <1>5, <2>2, <4>1 DEF Ahead
    <3>2. CASE x \in Range(todo)
      BY <1>5, <2>2, <3>2 DEF Ahead
    <3> QED BY <3>1, <3>2
  <2>3. CASE e.path = c.path /\ \A f \in F : f.do = "read"
    <3>1. CASE x \in F
      <4>1. x.path \in Spots /\ Under(c.path, x.path) /\ Under(x.path, c.path) /\ c.path # x.path
        <5>1. ItemOK(x) /\ Under(c.path, x.path) /\ x.do = "read"
          BY <2>3, <3>1
        <5> QED BY <1>6, <2>3, <5>1 DEF Covers
      <4>2. c.path \in Spots
        BY <1>4, <1>5, <1>6
      <4>3. Len(c.path) < Len(x.path) /\ Len(x.path) < Len(c.path) /\ Len(c.path) \in Nat /\ Len(x.path) \in Nat
        BY <4>1, <4>2, UnderIs, SpotIs
      <4> QED BY <4>3
    <3>2. CASE x \in Range(todo) /\ x # c
      <4>1. Under(x.path, c.path)
        BY <2>3 DEF Covers
      <4> QED BY <1>4, <1>5, <3>2, <4>1 DEF Apart
    <3> QED BY <3>1, <3>2
  <2> QED BY <2>2, <2>3
<1>14. Complete(kept', look', todo', out')
  <2> SUFFICES ASSUME NEW e \in Expected
               PROVE  \/ e \in Range(out')
                      \/ Unsure(e.path)
                      \/ call.tool = "list" /\ (ListLimit = MaxListLimit \/ Enough(todo', out'))
                      \/ \E x \in N : Covers(x, e.path)
    BY <1>9 DEF Complete
  <2>1. \/ e \in Range(out)
        \/ Unsure(e.path)
        \/ call.tool = "list" /\ (ListLimit = MaxListLimit \/ Enough(todo, out))
        \/ \E x \in Range(todo) : Covers(x, e.path)
    BY <1>3, <1>5 DEF Complete
  <2>2. ASSUME NEW x \in Range(todo), Covers(x, e.path), ~Unsure(e.path)
        PROVE  e \in Range(out') \/ \E y \in N : Covers(y, e.path)
    <3>1. CASE x = c
      BY <2>2, <3>1
    <3>2. CASE x # c
      BY <2>2, <3>2
    <3> QED BY <3>1, <3>2
  <2> HIDE DEF N, F, c
  <2> QED BY <2>1, <2>2
<1>15. Fits(kept', look', todo', out')
  <2> HIDE DEF N
  <2> QED BY <1>8, <1>9, <1>10, <1>11, <1>12, <1>7, <1>13, <1>14 DEF Fits
<1> QED BY <1>15, WalkGoesOn

(* The limits, once a call is not refused *)
LEMMA LimitsAreNumbers ==
  /\ MaxListLimit \in Nat \ {0} /\ MaxSearchLimit \in Nat \ {0} /\ MaxReadLineCount \in Nat \ {0}
  /\ SnapshotEntries \in Nat \ {0} /\ SnapshotDepth \in Nat
  /\ IsCall /\ ~Refused => Most \in Nat \ {0}
  /\ IsCall /\ ~Refused /\ call.tool = "list" => Most = ListLimit /\ ListLimit \in Nat /\ ListLimit <= MaxListLimit
  /\ IsCall /\ ~Refused /\ call.tool = "search" => Most = SearchLimit
  /\ call.tool = "summary" => Most = SnapshotEntries
<1>1. /\ MaxListLimit \in Nat \ {0} /\ MaxSearchLimit \in Nat \ {0} /\ MaxReadLineCount \in Nat \ {0}
      /\ SnapshotEntries \in Nat \ {0} /\ SnapshotDepth \in Nat
  BY WorkspaceReadAssumption
<1>2. ASSUME IsCall, ~Refused, call.tool = "list"
      PROVE  Most = ListLimit /\ ListLimit \in Nat \ {0} /\ ListLimit <= MaxListLimit
  <2>1. call.limit \in Int /\ ~(call.limit <= 0)
    BY <1>2 DEF IsCall, Refused
  <2> QED BY <1>1, <1>2, <2>1 DEF Most, ListLimit, Min2
<1>3. ASSUME IsCall, ~Refused, call.tool = "search" PROVE Most = SearchLimit /\ SearchLimit \in Nat \ {0}
  <2>1. call.limit \in Int /\ ~(call.limit <= 0)
    BY <1>3 DEF IsCall, Refused
  <2> QED BY <1>1, <1>3, <2>1 DEF Most, SearchLimit, Min2
<1>4. call.tool = "read" => Most = MaxReadLineCount
  BY DEF Most
<1>5. call.tool = "summary" => Most = SnapshotEntries
  BY DEF Most
<1>6. IsCall => call.tool \in {"list", "search", "read", "summary"}
  BY DEF IsCall
<1> QED BY <1>1, <1>2, <1>3, <1>4, <1>5, <1>6

(* A directory that was looked at is read next. *)
LEMMA ReadNextIsOK ==
  ASSUME NEW c, ItemOK(c), c.do = "visit", call.tool = "list" \/ ~Hidden(c.path, TRUE)
  PROVE  LET r == Read(c.path, c.depth) IN
         /\ ItemOK(r) /\ r.do = "read" /\ r.path = c.path /\ Under(c.path, r.path)
         /\ \A p : Covers(r, p) => Covers(c, p)
         /\ \A p : Covers(c, p) /\ p # c.path => Covers(r, p)
<1>1. c \in [do : {"visit", "read"}, path : Spots, isDir : BOOLEAN, depth : Nat]
  BY DEF ItemOK
<1>2. PICK r : r = Read(c.path, c.depth)
  OBVIOUS
<1>3. /\ r \in [do : {"visit", "read"}, path : Spots, isDir : BOOLEAN, depth : Nat]
      /\ r.do = "read" /\ r.path = c.path /\ r.depth = c.depth
  BY <1>1, <1>2 DEF Read
<1>4. Under(c.path, r.path)
  BY <1>1, <1>3, UnderItself
<1>5. ItemOK(r)
  BY <1>3 DEF ItemOK, Entered
<1>6. \A p : Covers(r, p) => Covers(c, p)
  BY <1>3 DEF Covers
<1>7. \A p : Covers(c, p) /\ p # c.path => Covers(r, p)
  BY <1>3 DEF Covers
<1> QED BY <1>2, <1>3, <1>4, <1>5, <1>6, <1>7

(* What was come to is to be shown, unless it was touched since. *)
LEMMA ComeToIsRight ==
  ASSUME ReadTypes, Begun, NEW c, ItemOK(c), c.do = "visit", ~Hidden(c.path, c.isDir)
  PROVE  /\ c.path \in Places /\ c.path \in Below(call.path)
         /\ Unsure(c.path) \/ /\ At(c.path) = tree[c.path] /\ tree[c.path] # None
                              /\ c.isDir = (At(c.path) = Directory) /\ Visible(c.path)
                              /\ At(call.path) = Directory
<1>1. /\ c.path \in Spots /\ Under(call.path, c.path) /\ c.path # call.path /\ Entered(c) /\ call.path \in Spots
      /\ c.path \notin touched => tree[c.path] # None /\ c.isDir = (tree[c.path] = Directory)
  BY DEF ItemOK, ReadTypes, IsCall
<1>2. c.path \in Below(call.path)
  BY <1>1, UnderIs
<1>3. c.path \in Places
  BY <1>2 DEF Below
<1>4. At(c.path) = tree[c.path]
  <2>1. c.path # <<>>
    BY <1>1, <1>3, SpotIs
  <2> QED BY <2>1 DEF At
<1>5. CASE c.path \in touched
  BY <1>2, <1>3, <1>5 DEF Unsure
<1>6. CASE c.path \notin touched
  <2>1. call.path \notin touched
    BY <1>1, <1>6, TouchedBelow
  <2>2. At(call.path) = Directory
    BY <2>1 DEF Begun
  <2>3. Visible(c.path) \/ Unsure(c.path)
    <3>1. PICK n \in Nat : DOMAIN rules = 1 .. n
      BY DEF ReadTypes
    <3>2. \A m \in Len(call.path) .. Len(c.path) - 1 : ~Hidden(Front(c.path, m), TRUE)
      BY <1>1 DEF Entered
    <3>3. c.isDir = (At(c.path) = Directory)
      BY <1>1, <1>4, <1>6
    <3> QED BY <1>1, <3>1, <3>2, <3>3, ReachedIsVisible
  <2> QED BY <1>1, <1>2, <1>3, <1>4, <1>6, <2>2, <2>3
<1> QED BY <1>5, <1>6

(* An entry for it is right, in the list and in the summary. *)
LEMMA EntryIsRight ==
  ASSUME ReadTypes, Begun, NEW c, ItemOK(c), c.do = "visit", ~Hidden(c.path, c.isDir),
         c.path \notin touched => tree[c.path] # Binary,
         call.tool = "list" \/ (call.tool = "summary" /\ c.depth <= SnapshotDepth)
  PROVE  Right(Entry(c.path, c.isDir))
<1>1. /\ c.path \in Places /\ c.path \in Below(call.path)
      /\ Unsure(c.path) \/ /\ At(c.path) = tree[c.path] /\ tree[c.path] # None
                           /\ c.isDir = (At(c.path) = Directory) /\ Visible(c.path)
                           /\ At(call.path) = Directory
  BY ComeToIsRight
<1>2. Entry(c.path, c.isDir).path = c.path
  BY DEF Entry
<1>3. CASE Unsure(c.path)
  BY <1>1, <1>2, <1>3 DEF Right
<1>4. CASE ~Unsure(c.path)
  <2>1. c.path \notin touched
    BY <1>4 DEF Unsure
  <2>2. Listable(c.path)
    BY <1>1, <1>4, <2>1 DEF Listable
  <2>3. c.depth = Len(c.path) - Len(call.path) /\ (call.tool = "list" => c.depth <= call.depth)
    BY DEF ItemOK
  <2>4. ASSUME NEW d, c.depth <= d PROVE Entry(c.path, c.isDir) \in Entries(d)
    <3>1. Within(c.path, d)
      BY <1>1, <2>3, <2>4 DEF Within
    <3> QED BY <1>1, <1>4, <2>2, <3>1 DEF Entries
  <2>5. Entry(c.path, c.isDir) \in Expected
    BY <1>1, <1>4, <2>3, <2>4 DEF Expected
  <2> QED BY <1>1, <1>2, <2>5 DEF Right
<1> QED BY <1>3, <1>4

(* It is shown after the others. *)
LEMMA ShowEntry ==
  ASSUME NEW items, Ahead(items, out), NEW c \in items, ItemOK(c), c.do = "visit",
         Shows(out), Len(out) < Most, Most \in Nat,
         Right(Entry(c.path, c.isDir))
  PROVE  LET o == Append(out, Entry(c.path, c.isDir)) IN
         /\ Shows(o) /\ Len(o) = Len(out) + 1 /\ Range(out) \subseteq Range(o)
         /\ Entry(c.path, c.isDir) \in Range(o)
         /\ \A e \in Range(o) : e \in Range(out) \/ e.path = c.path
<1>1. PICK x : x = Entry(c.path, c.isDir)
  OBVIOUS
<1>2. x.path = c.path
  BY <1>1 DEF Entry
<1>3. x \notin Range(out)
  <2>1. c.path \in Spots
    BY DEF ItemOK
  <2>2. Covers(c, c.path)
    BY <2>1, UnderItself DEF Covers
  <2> QED BY <1>2, <2>2 DEF Ahead
<1>4. Distinct(out)
  BY DEF Shows
<1>5. Distinct(Append(out, x)) /\ Range(Append(out, x)) = Range(out) \cup {x} /\ Len(Append(out, x)) = Len(out) + 1
  BY <1>3, <1>4, DistinctAppend
<1>6. Len(out) + 1 <= Most
  <2>1. Len(out) \in Nat
    BY <1>4, DistinctIs
  <2> QED BY <2>1
<1>7. Shows(Append(out, x))
  BY <1>1, <1>5, <1>6 DEF Shows
<1> QED BY <1>1, <1>2, <1>5, <1>7

(* What list_files has to show does not get less when an entry is shown. *)
LEMMA StillEnough ==
  ASSUME NEW t, NEW o, NEW t2, NEW o2, NEW R, Distinct(t), t # <<>>, ListLimit \in Int,
         Range(t2) = R \cup (Range(t) \ {t[1]}), \A f \in R : f.do = "read",
         Len(o) \in Nat, Len(o2) \in Nat,
         Len(o2) >= Len(o), t[1].do = "visit" => Len(o2) >= Len(o) + 1,
         Enough(t, o)
  PROVE  Enough(t2, o2)
<1> DEFINE V == Visits(Range(t))
           W == Visits(Range(t2))
<1>1. W = V \ {t[1]}
  BY DEF Visits
<1>2. IsFiniteSet(V) /\ Cardinality(V) \in Nat
  <2>1. IsFiniteSet(Range(t)) /\ V \in SUBSET Range(t)
    BY DistinctIs DEF Visits
  <2> HIDE DEF V
  <2> QED BY <2>1, FS_Subset, FS_CardinalityType
<1>3. Cardinality(W) = IF t[1] \in V THEN Cardinality(V) - 1 ELSE Cardinality(V)
  <2> HIDE DEF V, W
  <2> QED BY <1>1, <1>2, FS_RemoveElement
<1>4. t[1] \in V => t[1].do = "visit"
  BY DEF Visits
<1>5. Len(o) + Cardinality(V) > ListLimit
  BY DEF Enough
<1>6. Len(o2) + Cardinality(W) > ListLimit
  <2> HIDE DEF V, W
  <2> QED BY <1>2, <1>3, <1>4, <1>5
<1> QED BY <1>6 DEF Enough

(* What ReadInv says when a directory's children have all been looked at *)
LEMMA AtHead ==
  ASSUME ReadInv, step = "walk", look = <<>>, todo # <<>>
  PROVE  /\ ReadTypes /\ Begun /\ Fits(kept, look, todo, out) /\ Shows(out)
         /\ kept = <<>> /\ Distinct(todo) /\ Pending(kept, look, todo) = Range(todo)
         /\ Ahead(Range(todo), out)
         /\ todo[1] \in Range(todo) /\ ItemOK(todo[1])
         /\ call.tool = "list" /\ todo[1].do = "visit" => Picked(todo[1])
         /\ Len(out) \in Nat /\ Most \in Nat \ {0} /\ Len(out) <= Most
         /\ call.tool = "list" => ListLimit = Most
         /\ call.tool \in {"list", "search", "summary"}
         /\ Tail(todo) = <<>> \o Tail(todo)
<1>1. ReadTypes /\ Begun /\ Fits(kept, look, todo, out)
  BY DEF ReadInv
<1>2. kept = <<>> /\ Distinct(todo)
  BY <1>1 DEF Fits
<1>3. Pending(kept, look, todo) = Range(todo)
  BY <1>2, DistinctEmpty DEF Pending
<1>4. todo[1] \in Range(todo)
  BY <1>2, DistinctIs
<1>5. ItemOK(todo[1]) /\ Shows(out) /\ Ahead(Range(todo), out)
  BY <1>1, <1>3, <1>4 DEF Fits
<1>6. call.tool = "list" /\ todo[1].do = "visit" => Picked(todo[1])
  BY <1>1, <1>4 DEF Fits, Visits
<1>7. Len(out) \in Nat /\ Len(out) <= Most
  BY <1>5, DistinctIs DEF Shows
<1>8. Most \in Nat \ {0} /\ (call.tool = "list" => ListLimit = Most)
  BY <1>1, LimitsAreNumbers DEF ReadTypes, Begun
<1>9. call.tool \in {"list", "search", "summary"}
  BY <1>1 DEF ReadTypes, IsCall, Begun
<1>10. Tail(todo) = <<>> \o Tail(todo)
  <2>1. todo \in Seq(Range(todo))
    BY <1>2, DistinctIs
  <2>2. Tail(todo) \in Seq(Range(todo))
    BY <2>1, HeadTailProperties
  <2> QED BY <2>2, ConcatEmptySeq
<1> QED BY <1>1, <1>2, <1>3, <1>4, <1>5, <1>6, <1>7, <1>8, <1>9, <1>10

(* The next thing is left out: nothing that is to be shown is there, or below. *)
LEMMA HeadSkipped ==
  ASSUME ReadInv, step = "walk", look = <<>>, todo # <<>>,
         todo' = Tail(todo), UNCHANGED <<step, look, kept, out, truncated, walk>>,
         call.tool = "list" => todo[1].do = "read",
         \A e \in Expected : ~Unsure(e.path) => ~Covers(todo[1], e.path)
  PROVE  ReadInv'
<1>1. /\ Distinct(todo) /\ Shows(out) /\ Tail(todo) = <<>> \o Tail(todo) /\ kept = <<>> /\ Len(out) \in Nat
      /\ call.tool = "list" => ListLimit \in Int
  BY AtHead
<1>2. Distinct(<<>>) /\ Range(<<>>) = {}
  BY DistinctEmpty
<1>3. Range(todo') = {} \cup (Range(todo) \ {todo[1]})
  BY <1>1, DistinctTail
<1>4. call.tool = "list" /\ Enough(todo, out) => Enough(todo', out')
  <2> SUFFICES ASSUME call.tool = "list", Enough(todo, out) PROVE Enough(todo', out)
    OBVIOUS
  <2>1. \A f \in {} : f.do = "read"
    OBVIOUS
  <2>2. PICK t2 : t2 = todo'
    OBVIOUS
  <2>3. Enough(t2, out)
    <3>1. todo[1].do # "visit" /\ Len(out) >= Len(out) /\ ListLimit \in Int /\ Len(out) \in Nat
      BY <1>1
    <3>2. PICK R : R = {}
      OBVIOUS
    <3>3. Range(t2) = R \cup (Range(todo) \ {todo[1]}) /\ \A f \in R : f.do = "read"
      BY <1>3, <2>1, <2>2, <3>2
    <3> QED BY <1>1, <3>1, <3>3, StillEnough
  <2> QED BY <2>2, <2>3
<1> QED BY <1>1, <1>2, <1>4, HeadDone

(* The next thing is entered in the result, and read next if it is a directory. *)
LEMMA HeadEntered ==
  ASSUME ReadInv, step = "walk", look = <<>>, todo # <<>>, todo[1].do = "visit",
         call.tool \in {"list", "summary"}, Len(out) < Most,
         Right(Entry(todo[1].path, todo[1].isDir)), ~Hidden(todo[1].path, todo[1].isDir),
         UNCHANGED <<step, look, kept, truncated, walk>>,
         out' = Append(out, Entry(todo[1].path, todo[1].isDir)),
         todo' = IF todo[1].isDir THEN <<Read(todo[1].path, todo[1].depth)>> \o Tail(todo) ELSE Tail(todo)
  PROVE  ReadInv'
<1>1. PICK c : c = todo[1]
  OBVIOUS
<1>2. /\ ReadTypes /\ Begun /\ Distinct(todo) /\ Shows(out) /\ Tail(todo) = <<>> \o Tail(todo) /\ kept = <<>>
      /\ Len(out) \in Nat /\ Most \in Nat /\ ItemOK(c) /\ c \in Range(todo) /\ Ahead(Range(todo), out)
      /\ call.tool = "list" => ListLimit \in Int
  BY <1>1, AtHead
<1>3. /\ Shows(out') /\ Len(out') = Len(out) + 1 /\ Range(out) \subseteq Range(out')
      /\ Entry(c.path, c.isDir) \in Range(out')
      /\ \A e \in Range(out') : e \in Range(out) \/ e.path = c.path
  BY <1>1, <1>2, ShowEntry
<1>4. PICK r : r = Read(c.path, c.depth)
  OBVIOUS
<1>5. PICK s : s = IF c.isDir THEN <<r>> ELSE <<>>
  OBVIOUS
<1>6. Distinct(s) /\ Range(s) \subseteq {r} /\ (c.isDir => Range(s) = {r})
  BY <1>5, DistinctOne, DistinctEmpty
<1>7. todo' = s \o Tail(todo)
  BY <1>1, <1>2, <1>4, <1>5
<1>8. \A f \in Range(s) : /\ f = r /\ ItemOK(r) /\ r.do = "read" /\ Under(c.path, r.path)
                          /\ \A p : Covers(r, p) => Covers(c, p)
                          /\ \A p : Covers(c, p) /\ p # c.path => Covers(r, p)
  <2> SUFFICES ASSUME NEW f \in Range(s)
               PROVE  /\ f = r /\ ItemOK(r) /\ r.do = "read" /\ Under(c.path, r.path)
                      /\ \A p : Covers(r, p) => Covers(c, p)
                      /\ \A p : Covers(c, p) /\ p # c.path => Covers(r, p)
    OBVIOUS
  <2>1. f = r /\ c.isDir
    BY <1>5, <1>6, DistinctEmpty
  <2>2. c.isDir = TRUE
    <3>1. c.isDir \in BOOLEAN
      BY <1>2 DEF ItemOK
    <3> QED BY <2>1, <3>1
  <2>3. ~Hidden(c.path, TRUE)
    BY <1>1, <2>2
  <2> QED BY <1>1, <1>2, <1>4, <2>1, <2>3, ReadNextIsOK
<1>9. \A f, g \in Range(s) : f = g
  BY <1>6
<1>10. ASSUME NEW e \in Expected, ~Unsure(e.path), Covers(c, e.path)
       PROVE  e \in Range(out') \/ \E f \in Range(s) : Covers(f, e.path)
  <2>1. /\ e.path \in Places /\ e.path \notin touched /\ Under(call.path, e.path) /\ Visible(e.path) /\ tree[e.path] # None
        /\ e = Entry(e.path, tree[e.path] = Directory)
    BY <1>2, <1>10, ToCome
  <2>2. /\ c.path # e.path => c.isDir
        /\ At(c.path) = tree[c.path] /\ c.isDir = (At(c.path) = Directory)
    <3>1. c.do = "visit"
      BY <1>1
    <3>2. PICK p : p = e.path
      OBVIOUS
    <3>3. c.do = "visit" => /\ c.path \in Places /\ At(c.path) = tree[c.path] /\ At(c.path) # None
                            /\ c.isDir = (At(c.path) = Directory)
      BY <1>2, <1>10, <2>1, CoveredIs
    <3>4. c.path # p => At(c.path) = Directory /\ ~Hidden(c.path, TRUE) /\ (c.do = "visit" => c.isDir)
      BY <1>2, <1>10, <2>1, <3>2, CoveredIs
    <3> QED BY <3>1, <3>2, <3>3, <3>4
  <2>3. CASE e.path = c.path
    <3>1. Entry(c.path, tree[c.path] = Directory) = Entry(c.path, c.isDir)
      BY <2>2
    <3> QED BY <1>3, <2>1, <2>3, <3>1
  <2>4. CASE e.path # c.path
    <3>1. r \in Range(s)
      BY <1>6, <2>2, <2>4
    <3> QED BY <1>8, <1>10, <2>4, <3>1
  <2> QED BY <2>3, <2>4
<1>11. call.tool = "list" /\ Enough(todo, out) => Enough(todo', out')
  <2>1. Range(todo') = Range(s) \cup (Range(todo) \ {todo[1]})
    <3>1. Distinct(Tail(todo)) /\ Range(Tail(todo)) = Range(todo) \ {todo[1]}
      BY <1>2, DistinctTail
    <3>2. \A x \in Range(todo) \ {todo[1]} : x \notin Range(s)
      <4>1. Apart(Range(todo)) /\ \A x \in Range(todo) : x.path \in Spots
        <5>1. Fits(kept, look, todo, out) /\ Pending(kept, look, todo) = Range(todo)
          BY AtHead
        <5>2. Apart(Range(todo)) /\ \A x \in Range(todo) : ItemOK(x)
          BY <5>1 DEF Fits
        <5> QED BY <5>2 DEF ItemOK
      <4>2. \A f \in Range(s) : f.path \in Spots /\ Under(c.path, f.path)
        BY <1>8 DEF ItemOK
      <4>3. \A f, g \in Range(s) : f # g => ~Under(f.path, g.path)
        BY <1>9
      <4>4. Range(s) \cap (Range(todo) \ {c}) = {}
        BY <1>2, <4>1, <4>2, <4>3, InPlaceOf
      <4> QED BY <1>1, <4>4
    <3>3. Range(s) \cap (Range(todo) \ {todo[1]}) = {}
      BY <3>2
    <3> QED BY <1>2, <1>6, <1>7, <3>3, HeadReplaced
  <2> SUFFICES ASSUME call.tool = "list", Enough(todo, out) PROVE Enough(todo', out')
    OBVIOUS
  <2>2. \A f \in Range(s) : f.do = "read"
    BY <1>8
  <2>3. Len(out') \in Nat /\ Len(out') >= Len(out) /\ Len(out') >= Len(out) + 1 /\ ListLimit \in Int
    BY <1>2, <1>3
  <2>4. PICK t2 : t2 = todo'
    OBVIOUS
  <2>5. PICK o2 : o2 = out'
    OBVIOUS
  <2> QED BY <1>2, <2>1, <2>2, <2>3, <2>4, <2>5, StillEnough
<1>12. Distinct(<<>>) /\ Range(<<>>) = {}
  BY DistinctEmpty
<1>13. look' = <<>> /\ kept' = <<>>
  BY <1>2
<1>14. /\ \A f \in {} \cup Range(s) : /\ ItemOK(f) /\ Under(todo[1].path, f.path)
                                      /\ \A p \in Spots : Covers(f, p) => Covers(todo[1], p)
       /\ \A f \in Range(s) : f.do = "read"
  BY <1>1, <1>8
<1> QED BY <1>1, <1>3, <1>6, <1>7, <1>9, <1>10, <1>11, <1>12, <1>13, <1>14, HeadDone

-----------------------------------------------------------------------------

(* The steps of a call *)

(* A result that says it is truncated *)
LEMMA FoundMore ==
  ASSUME ReadTypes, call.tool # "summary", NEW o, Shows(o), Found(o, TRUE)
  PROVE  ReadInv'
<1>1. /\ step' = "done" /\ out' = o /\ truncated' = TRUE
      /\ UNCHANGED <<call, rules, touched, editsLeft, tree>>
  BY DEF Found, Ends, walk
<1>2. Shows(out')
  BY <1>1
<1> QED BY <1>1, <1>2, CallIsDone

(* list_files enters the next child, or has no room for it. *)
LEMMA EmitEntryStep == ASSUME ReadInv, EmitEntry PROVE ReadInv'
<1>1. /\ step = "walk" /\ call.tool = "list" /\ look = <<>> /\ todo # <<>> /\ todo[1].do = "visit"
  BY DEF EmitEntry
<1>2. PICK c : c = todo[1]
  OBVIOUS
<1>3. /\ ReadTypes /\ Begun /\ Shows(out) /\ ItemOK(c) /\ Picked(c)
      /\ Len(out) \in Nat /\ Most \in Nat /\ ListLimit = Most
  BY <1>1, <1>2, AtHead
<1>4. CASE IsFull
  <2>1. Found(out, TRUE)
    BY <1>4 DEF EmitEntry
  <2> QED BY <1>1, <1>3, <2>1, FoundMore
<1>5. CASE ~IsFull
  <2>1. /\ out' = Append(out, Entry(c.path, c.isDir))
        /\ todo' = IF c.isDir THEN <<Read(c.path, c.depth)>> \o Tail(todo) ELSE Tail(todo)
        /\ UNCHANGED <<step, look, kept, truncated, walk>>
    BY <1>2, <1>5 DEF EmitEntry
  <2>2. Len(out) < Most
    BY <1>3, <1>5 DEF IsFull
  <2>3. ~Hidden(c.path, c.isDir) /\ (c.path \notin touched => tree[c.path] # Binary)
    BY <1>3 DEF Picked
  <2>4. Right(Entry(c.path, c.isDir))
    <3>1. c.do = "visit" /\ (call.tool = "list" \/ (call.tool = "summary" /\ c.depth <= SnapshotDepth))
      BY <1>1, <1>2
    <3> QED BY <1>3, <2>3, <3>1, EntryIsRight
  <2> QED BY <1>1, <1>2, <2>1, <2>2, <2>3, <2>4, HeadEntered
<1> QED BY <1>4, <1>5

(* How deep Snapshot takes a path to be *)
LEMMA SummaryDepth ==
  ASSUME ReadTypes, call.tool = "summary", NEW c, ItemOK(c)
  PROVE  Len(Rel(c.path)) = c.depth
<1>1. call.path \in Spots /\ c.path \in Spots /\ Under(call.path, c.path) /\ c.depth = Len(c.path) - Len(call.path)
  BY DEF ReadTypes, IsCall, ItemOK
<1>2. Base = call.path
  BY DEF Base
<1> QED BY <1>1, <1>2, RelIs

(* What the tools that have no list of their own have under way *)
LEMMA NoLook ==
  ASSUME ReadInv, step = "walk", call.tool # "list"
  PROVE  look = <<>> /\ kept = <<>>
BY DEF ReadInv, Fits

(* What is at most so deep is finitely much. *)
LEMMA EntriesAreFinite == ASSUME NEW depth PROVE IsFiniteSet(Entries(depth))
<1>1. PICK n \in Nat : n = Len(PlacesInOrder)
  <2>1. PlacesInOrder \in Seq(Places)
    BY WorkspaceReadAssumption
  <2> QED BY <2>1, LenProperties
<1>2. PlacesInOrder \in Surjection(1 .. n, Places)
  BY <1>1, WorkspaceReadAssumption DEF Surjection
<1>3. IsFiniteSet(1 .. n)
  BY FS_Interval
<1>4. IsFiniteSet(Places)
  BY <1>2, <1>3, FS_Surjection
<1>5. PICK E : E = { q \in Places : Within(q, depth) /\ Listable(q) /\ Visible(q) }
  OBVIOUS
<1>6. IsFiniteSet(E)
  <2>1. E \in SUBSET Places
    BY <1>5
  <2> QED BY <1>4, <2>1, FS_Subset
<1>7. PICK T : T = Entries(depth)
  OBVIOUS
<1>8. T = { Entry(p, At(p) = Directory) : p \in E }
  BY <1>5, <1>7 DEF Entries
<1>9. PICK f : f = [p \in E |-> Entry(p, At(p) = Directory)]
  OBVIOUS
<1>10. f \in Surjection(E, T)
  BY <1>8, <1>9 DEF Surjection
<1> QED BY <1>6, <1>7, <1>10, FS_Surjection

(* A summary that has no room for one more entry has found more than the limit,
   or something that was edited or let in by a line with "!". *)
LEMMA MoreThanTheLimit ==
  ASSUME call.tool = "summary", SnapshotEntries \in Nat, Shows(out), Len(out) >= SnapshotEntries,
         NEW items, Ahead(items, out), NEW c \in items, ItemOK(c), c.do = "visit",
         Right(Entry(c.path, c.isDir))
  PROVE  Cardinality(Expected) > SnapshotEntries \/ \E p \in Places : Unsure(p)
<1> SUFFICES ASSUME \A p \in Places : ~Unsure(p)
             PROVE  Cardinality(Expected) > SnapshotEntries
  OBVIOUS
<1>1. PICK x : x = Entry(c.path, c.isDir)
  OBVIOUS
<1>2. x.path = c.path
  BY <1>1 DEF Entry
<1>3. x \notin Range(out)
  <2>1. c.path \in Spots
    BY DEF ItemOK
  <2>2. Covers(c, c.path)
    BY <2>1, UnderItself DEF Covers
  <2> QED BY <1>2, <2>2 DEF Ahead
<1>4. Distinct(out) /\ \A e \in Range(out) : Right(e)
  BY DEF Shows
<1>5. PICK R : R = Range(out)
  OBVIOUS
<1>6. IsFiniteSet(R) /\ Cardinality(R) = Len(out) /\ Len(out) \in Nat
  BY <1>4, <1>5, DistinctIs
<1>7. PICK A : A = Expected
  OBVIOUS
<1>8. R \cup {x} \in SUBSET A
  BY <1>1, <1>4, <1>5, <1>7 DEF Right
<1>9. IsFiniteSet(A)
  BY <1>7, EntriesAreFinite DEF Expected
<1>10. Cardinality(R \cup {x}) = Len(out) + 1
  BY <1>3, <1>5, <1>6, FS_AddElement
<1>11. Cardinality(R \cup {x}) <= Cardinality(A) /\ Cardinality(A) \in Nat
  BY <1>8, <1>9, FS_Subset, FS_CardinalityType
<1>12. Len(out) + 1 <= Cardinality(A)
  BY <1>10, <1>11
<1>13. Cardinality(A) > SnapshotEntries
  BY <1>6, <1>11, <1>12
<1> QED BY <1>7, <1>13

(* The summary comes to the next path. *)
LEMMA VisitSummaryStep == ASSUME ReadInv, VisitSummary PROVE ReadInv'
<1>1. /\ step = "walk" /\ call.tool = "summary" /\ look = <<>> /\ todo # <<>> /\ todo[1].do = "visit"
  BY NoLook DEF VisitSummary
<1>2. PICK c : c = todo[1]
  OBVIOUS
<1>3. /\ ReadTypes /\ Begun /\ Shows(out) /\ ItemOK(c) /\ c.do = "visit"
      /\ Len(out) \in Nat /\ Most \in Nat /\ Most = SnapshotEntries /\ SnapshotDepth \in Nat
  BY <1>1, <1>2, AtHead, LimitsAreNumbers
<1>4. c.path \in Spots /\ c.isDir \in BOOLEAN
  BY <1>3 DEF ItemOK
<1>10. c.depth = Len(c.path) - Len(call.path) /\ Len(Rel(c.path)) = c.depth /\ c.depth \in Nat
  BY <1>1, <1>3, SummaryDepth DEF ItemOK
<1>5. ASSUME todo' = Tail(todo), UNCHANGED <<step, look, kept, out, truncated, walk>>,
             \/ Len(Rel(c.path)) > SnapshotDepth \/ Hidden(c.path, c.isDir)
             \/ ~c.isDir /\ At(c.path) = Binary
      PROVE  ReadInv'
  <2>1. ASSUME NEW e \in Expected, ~Unsure(e.path), Covers(c, e.path) PROVE FALSE
    <3>1. PICK p : p = e.path
      OBVIOUS
    <3>2. /\ p \in Places /\ p \in Spots /\ p \notin touched /\ Under(call.path, p) /\ Visible(p) /\ tree[p] # None
          /\ tree[p] # Binary /\ Len(p) - Len(call.path) <= SnapshotDepth
      BY <1>1, <1>3, <2>1, <3>1, ToCome
    <3>3. ~Hidden(c.path, c.isDir)
      BY <1>3, <2>1, <3>1, <3>2, CoveredIs
    <3>4. c.path # p => At(c.path) = Directory
      BY <1>3, <2>1, <3>1, <3>2, CoveredIs
    <3>5. At(c.path) = tree[c.path]
      BY <1>3, <2>1, <3>1, <3>2, CoveredIs
    <3>6. At(c.path) # Binary
      BY <3>2, <3>4, <3>5, NodeIs
    <3>7. Len(c.path) <= Len(p) /\ Len(c.path) \in Nat /\ Len(p) \in Nat /\ Len(call.path) \in Nat
      <4>1. call.path \in Spots
        BY <1>3 DEF ReadTypes, IsCall
      <4> QED BY <1>4, <2>1, <3>1, <3>2, <4>1, SpotIs DEF Covers, Under
    <3>8. ~(Len(Rel(c.path)) > SnapshotDepth)
      <4>1. PICK d \in Nat : d = c.depth /\ d = Len(Rel(c.path))
        BY <1>10
      <4>2. PICK k \in Nat : k = SnapshotDepth
        BY <1>3
      <4>3. Len(p) - Len(call.path) <= k /\ d = Len(c.path) - Len(call.path)
        BY <1>10, <3>2, <4>1, <4>2
      <4>4. \A a, b, z \in Nat : a <= b /\ b - z <= k /\ d = a - z => d <= k
        OBVIOUS
      <4>5. d <= k
        BY <3>7, <4>3, <4>4
      <4> QED BY <4>1, <4>2, <4>5
    <3> QED BY <1>5, <3>3, <3>6, <3>8
  <2> QED BY <1>1, <1>2, <1>5, <2>1, HeadSkipped
<1>6. CASE Len(Rel(c.path)) > SnapshotDepth \/ Hidden(c.path, c.isDir)
  <2>1. todo' = Tail(todo) /\ UNCHANGED <<step, look, kept, out, truncated, walk>>
    BY <1>2, <1>6 DEF VisitSummary
  <2> QED BY <1>5, <1>6, <2>1
<1>7. CASE ~(Len(Rel(c.path)) > SnapshotDepth \/ Hidden(c.path, c.isDir)) /\ At(c.path) = None
  <2>1. Break(TRUE)
    BY <1>2, <1>7 DEF VisitSummary
  <2> QED BY <1>1, <2>1, WalkBreaks
<1>8. CASE ~(Len(Rel(c.path)) > SnapshotDepth \/ Hidden(c.path, c.isDir)) /\ At(c.path) # None
           /\ ~c.isDir /\ At(c.path) = Directory
  <2>1. Break(FALSE)
    BY <1>2, <1>8 DEF VisitSummary
  <2> QED BY <1>1, <2>1, WalkBreaks
<1>11. ASSUME ~(Len(Rel(c.path)) > SnapshotDepth \/ Hidden(c.path, c.isDir)), At(c.path) # None,
              ~(~c.isDir /\ At(c.path) = Binary)
       PROVE  Right(Entry(c.path, c.isDir))
  <2>1. c.depth <= SnapshotDepth
    <3>1. PICK d \in Nat : d = c.depth /\ d = Len(Rel(c.path))
      BY <1>10
    <3>2. PICK k \in Nat : k = SnapshotDepth
      BY <1>3
    <3> QED BY <1>11, <3>1, <3>2
  <2>2. c.path \notin touched => tree[c.path] # Binary
    <3>1. c.path \notin touched => c.isDir = (tree[c.path] = Directory)
      BY <1>3 DEF ItemOK
    <3>2. c.path \in Places
      BY <1>3, <1>11, ComeToIsRight
    <3>3. At(c.path) = tree[c.path]
      <4>1. c.path # <<>>
        BY <1>4, <3>2, SpotIs
      <4> QED BY <4>1 DEF At
    <3> QED BY <1>4, <1>11, <3>1, <3>3, NodeIs
  <2> QED BY <1>1, <1>3, <1>11, <2>1, <2>2, EntryIsRight
<1>9. CASE ~(Len(Rel(c.path)) > SnapshotDepth \/ Hidden(c.path, c.isDir)) /\ At(c.path) # None
           /\ ~(~c.isDir /\ At(c.path) = Directory)
  <2>1. CASE ~c.isDir /\ At(c.path) = Binary
    <3>1. todo' = Tail(todo) /\ UNCHANGED <<step, look, kept, out, truncated, walk>>
      BY <1>2, <1>9, <2>1 DEF VisitSummary
    <3> QED BY <1>5, <2>1, <3>1
  <2>2. CASE ~(~c.isDir /\ At(c.path) = Binary) /\ Len(out) >= SnapshotEntries
    <3>1. Summarize(out, "limit")
      BY <1>2, <1>9, <2>2 DEF VisitSummary
    <3>2. Right(Entry(c.path, c.isDir))
      BY <1>9, <1>11, <2>2
    <3>3. Cardinality(Expected) > SnapshotEntries \/ \E p \in Places : Unsure(p)
      <4>1. c \in Range(todo) /\ Ahead(Range(todo), out)
        BY <1>1, <1>2, AtHead
      <4>2. Len(out) >= SnapshotEntries
        BY <2>2
      <4> QED BY <1>1, <1>3, <3>2, <4>1, <4>2, MoreThanTheLimit
    <3> QED BY <1>1, <1>3, <3>1, <3>3, SummaryIsDone
  <2>3. CASE ~(~c.isDir /\ At(c.path) = Binary) /\ ~(Len(out) >= SnapshotEntries)
    <3>1. /\ out' = Append(out, Entry(c.path, c.isDir))
          /\ todo' = IF c.isDir THEN <<Read(c.path, c.depth)>> \o Tail(todo) ELSE Tail(todo)
          /\ UNCHANGED <<step, look, kept, truncated, walk>>
      BY <1>2, <1>9, <2>3 DEF VisitSummary
    <3>2. Len(out) < Most
      BY <1>3, <2>3
    <3>4. Right(Entry(c.path, c.isDir))
      BY <1>9, <1>11, <2>3
    <3> QED BY <1>1, <1>2, <1>9, <3>1, <3>2, <3>4, HeadEntered
  <2> QED BY <2>1, <2>2, <2>3
<1> QED BY <1>6, <1>7, <1>8, <1>9

(* What searchFile finds: lines of the file that match, each once, and all of *)
(* them if there is more room.                                                *)
LEMMA SearchedIs ==
  ASSUME ReadTypes, NEW p \in Spots, NEW room \in Nat
  PROVE  LET m == Searched(p, room) IN
         /\ Distinct(m) /\ Len(m) \in Nat /\ Len(m) <= room
         /\ \A e \in Range(m) :
              \E i \in DOMAIN At(p).lines :
                At(p).lines[i] = "hit" /\ ~Hidden(p, FALSE) /\ e = [path |-> p, line |-> i]
         /\ Len(m) < room => \A i \in DOMAIN At(p).lines :
              At(p).lines[i] = "hit" /\ ~Hidden(p, FALSE) => [path |-> p, line |-> i] \in Range(m)
<1> DEFINE S == { i \in DOMAIN At(p).lines : At(p).lines[i] = "hit" /\ ~Hidden(p, FALSE) }
           m == Searched(p, room)
<1>1. IsNode(At(p))
  <2>1. CASE p = <<>>
    BY <2>1 DEF At, IsNode
  <2>2. CASE p # <<>>
    <3>1. p \in Places
      BY <2>2, SpotIs
    <3> QED BY <2>2, <3>1 DEF At, ReadTypes, IsWorkspace
  <2> QED BY <2>1, <2>2
<1>2. PICK n : n = Len(At(p).lines)
  OBVIOUS
<1>3. n \in Nat /\ DOMAIN At(p).lines = 1 .. n
  BY <1>1, <1>2, NodeIs
<1>4. PICK hits : hits = InOrder(n, S)
  OBVIOUS
<1>5. S \subseteq 1 .. n
  BY <1>3
<1>6. hits \in Seq(S) /\ Range(hits) = S /\ IsInjective(hits)
  <2> HIDE DEF S
  <2> QED BY <1>3, <1>4, <1>5, InOrderIs
<1>7. /\ Distinct(hits) /\ Len(hits) \in Nat /\ DOMAIN hits = 1 .. Len(hits)
      /\ \A i \in 1 .. Len(hits) : hits[i] \in S
      /\ \A i, j \in 1 .. Len(hits) : hits[i] = hits[j] => i = j
  <2> HIDE DEF S
  <2>1. Distinct(hits)
    BY <1>6 DEF Distinct, IsSequence
  <2> QED BY <1>6, <2>1, DistinctIs
<1>8. PICK k : k = Min2(Len(hits), room)
  OBVIOUS
<1>9. k \in Nat /\ k <= Len(hits) /\ k <= room /\ (k < room => k = Len(hits))
  <2>1. \A a, b \in Nat : LET c == IF a <= b THEN a ELSE b IN c \in Nat /\ c <= a /\ c <= b /\ (c < b => c = a)
    OBVIOUS
  <2>2. k = IF Len(hits) <= room THEN Len(hits) ELSE room
    BY <1>8 DEF Min2
  <2>3. Len(hits) \in Nat
    BY <1>7
  <2> QED BY <2>1, <2>2, <2>3
<1>10. m = [i \in 1 .. k |-> [path |-> p, line |-> hits[i]]]
  BY <1>2, <1>4, <1>8 DEF Searched
<1>11. \A i \in 1 .. k : i \in 1 .. Len(hits) /\ m[i] = [path |-> p, line |-> hits[i]]
  <2>1. \A i \in 1 .. k : m[i] = [path |-> p, line |-> hits[i]]
    <3> HIDE DEF m
    <3> QED BY <1>10
  <2>2. Len(hits) \in Nat
    BY <1>7
  <2>3. \A i \in 1 .. k : i \in 1 .. Len(hits)
    BY <1>9, <2>2
  <2> QED BY <2>1, <2>3
<1>12. PICK f : f = m
  OBVIOUS
<1>13. f \in Seq(Range(f)) /\ Len(f) = k /\ DOMAIN f = 1 .. k
  <2>1. \A i \in 1 .. k : f[i] \in Range(f)
    BY <1>10, <1>12 DEF Range
  <2>2. f = [i \in 1 .. k |-> f[i]]
    BY <1>10, <1>12
  <2> QED BY <1>9, <2>1, <2>2, IsASeq, LenProperties
<1>14. Distinct(f)
  <2>1. ASSUME NEW i \in 1 .. Len(f), NEW j \in 1 .. Len(f), f[i] = f[j] PROVE i = j
    <3>1. hits[i] = hits[j]
      <4>1. f[i].line = hits[i] /\ f[j].line = hits[j]
        BY <1>11, <1>12, <1>13
      <4> QED BY <2>1, <4>1
    <3> QED BY <1>7, <1>11, <1>13, <3>1
  <2> QED BY <1>13, <2>1, DistinctBy
<1>15. ASSUME NEW e \in Range(f)
       PROVE  \E i \in DOMAIN At(p).lines :
                At(p).lines[i] = "hit" /\ ~Hidden(p, FALSE) /\ e = [path |-> p, line |-> i]
  <2>1. PICK j \in 1 .. k : e = f[j]
    BY <1>13 DEF Range
  <2>2. hits[j] \in S /\ e = [path |-> p, line |-> hits[j]]
    <3> HIDE DEF S
    <3> QED BY <1>7, <1>11, <1>12, <2>1
  <2> QED BY <2>2
<1>16. ASSUME k < room, NEW i \in S PROVE [path |-> p, line |-> i] \in Range(f)
  <2> HIDE DEF S
  <2>1. PICK j \in 1 .. Len(hits) : hits[j] = i
    BY <1>6, <1>7 DEF Range
  <2>2. j \in 1 .. k
    BY <1>9, <1>16, <2>1
  <2>3. f[j] = [path |-> p, line |-> i]
    BY <1>11, <1>12, <2>1, <2>2
  <2> QED BY <1>13, <2>2, <2>3 DEF Range
<1> QED BY <1>9, <1>12, <1>13, <1>14, <1>15, <1>16

(* The lines of a result are cut at the limit of the search. *)
LEMMA SearchIsDone ==
  ASSUME ReadTypes, call.tool = "search", ~Refused, NEW matches, SearchDone(matches),
         Distinct(matches), \A e \in Range(matches) : Right(e),
         \/ Len(matches) > SearchLimit
         \/ \A e \in Expected : e \in Range(matches) \/ Unsure(e.path)
  PROVE  ReadInv'
<1>1. Most = SearchLimit /\ SearchLimit \in Nat
  BY LimitsAreNumbers DEF ReadTypes
<1>2. Len(matches) \in Nat
  BY DistinctIs
<1>3. PICK n : n = Min2(Len(matches), SearchLimit)
  OBVIOUS
<1>4. n \in 0 .. Len(matches) /\ n <= Most /\ (Len(matches) <= SearchLimit => n = Len(matches))
  BY <1>1, <1>2, <1>3 DEF Min2
<1>5. PICK o : o = SubSeq(matches, 1, n)
  OBVIOUS
<1>6. Distinct(o) /\ Range(o) \subseteq Range(matches) /\ Len(o) = n /\ (n = Len(matches) => o = matches)
  BY <1>4, <1>5, DistinctFront
<1>7. Shows(o)
  BY <1>4, <1>6 DEF Shows
<1>8. /\ step' = "done" /\ out' = o /\ truncated' = (Len(matches) > SearchLimit)
      /\ UNCHANGED <<call, rules, touched, editsLeft, tree>>
  BY <1>3, <1>5 DEF SearchDone, Found, Ends, walk
<1>9. CASE Len(matches) > SearchLimit
  <2>1. truncated' = TRUE
    BY <1>8, <1>9
  <2> QED BY <1>7, <1>8, <2>1, CallIsDone
<1>10. CASE ~(Len(matches) > SearchLimit)
  <2>1. o = matches
    BY <1>1, <1>2, <1>4, <1>6, <1>10
  <2>2. \A e \in Expected : e \in Range(out') \/ Unsure(e.path) \/ (call.tool = "list" /\ ListLimit = MaxListLimit)
    BY <1>8, <1>10, <2>1
  <2> QED BY <1>7, <1>8, <2>2, CallIsDone
<1> QED BY <1>9, <1>10

(* A line that was found belongs to what is to be found. *)
LEMMA LineIsRight ==
  ASSUME call.tool = "search", NEW p \in Places, p \in Below(call.path) \cup {call.path},
         NEW i, i \in DOMAIN At(p).lines, At(p).lines[i] = "hit", Visible(p) \/ Unsure(p)
  PROVE  Right([path |-> p, line |-> i])
<1>1. PICK e : e = [path |-> p, line |-> i]
  OBVIOUS
<1>2. e.path = p
  BY <1>1
<1>3. CASE Unsure(p)
  BY <1>1, <1>2, <1>3 DEF Right
<1>4. CASE Visible(p)
  <2>1. e \in LinesFound
    BY <1>1, <1>4 DEF LinesFound
  <2>2. e \in Expected
    BY <2>1 DEF Expected
  <2> QED BY <1>1, <1>2, <2>2 DEF Right
<1> QED BY <1>3, <1>4

(* The search comes to the next path. *)
LEMMA VisitSearchStep == ASSUME ReadInv, VisitSearch PROVE ReadInv'
<1>1. /\ step = "walk" /\ call.tool = "search" /\ look = <<>> /\ kept = <<>> /\ todo # <<>> /\ todo[1].do = "visit"
  BY NoLook DEF VisitSearch
<1>2. PICK c : c = todo[1]
  OBVIOUS
<1>3. /\ ReadTypes /\ Begun /\ Shows(out) /\ ItemOK(c) /\ c.do = "visit" /\ c \in Range(todo)
      /\ Ahead(Range(todo), out) /\ Tail(todo) = <<>> \o Tail(todo)
  BY <1>1, <1>2, AtHead
<1>4. c.path \in Spots /\ c.isDir \in BOOLEAN
  BY <1>3 DEF ItemOK
<1>5. /\ Len(out) \in Nat /\ Len(out) <= SearchLimit /\ SearchLimit \in Nat
      /\ MaxMatches = SearchLimit + 1 /\ Most = SearchLimit
  <2>1. Most = SearchLimit
    BY <1>1, <1>3, LimitsAreNumbers DEF ReadTypes, Begun
  <2> QED BY <1>1, <2>1, AtHead DEF MaxMatches
<1>6. ASSUME NEW e \in Expected, ~Unsure(e.path), Covers(c, e.path)
      PROVE  /\ e.path \in Places /\ e.path \in Spots
             /\ ~Hidden(c.path, c.isDir) /\ c.isDir = (At(c.path) = Directory) /\ At(c.path) = tree[c.path]
             /\ c.path # e.path => c.isDir
             /\ tree[e.path] # Directory
             /\ \E i \in DOMAIN tree[e.path].lines : tree[e.path].lines[i] = "hit" /\ e = [path |-> e.path, line |-> i]
  <2>1. PICK p : p = e.path
    OBVIOUS
  <2>2. /\ p \in Places /\ p \in Spots /\ p \notin touched /\ Under(call.path, p) /\ Visible(p) /\ tree[p] # None
        /\ tree[p] # Directory
        /\ \E i \in DOMAIN tree[p].lines : tree[p].lines[i] = "hit" /\ e = [path |-> p, line |-> i]
    BY <1>1, <1>3, <1>6, <2>1, ToCome
  <2>3. ~Hidden(c.path, c.isDir)
    BY <1>3, <1>6, <2>1, <2>2, CoveredIs
  <2>4. c.path # p => c.isDir
    <3>1. c.path # p => At(c.path) = Directory /\ ~Hidden(c.path, TRUE) /\ (c.do = "visit" => c.isDir)
      BY <1>3, <1>6, <2>1, <2>2, CoveredIs
    <3> QED BY <1>3, <3>1
  <2>5. c.isDir = (At(c.path) = Directory) /\ At(c.path) = tree[c.path]
    <3>1. c.do = "visit" => /\ c.path \in Places /\ At(c.path) = tree[c.path] /\ At(c.path) # None
                            /\ c.isDir = (At(c.path) = Directory)
      BY <1>3, <1>6, <2>1, <2>2, CoveredIs
    <3> QED BY <1>3, <3>1
  <2> QED BY <2>1, <2>2, <2>3, <2>4, <2>5
<1>7. CASE c.isDir /\ Hidden(c.path, TRUE)
  <2>1. todo' = Tail(todo) /\ UNCHANGED <<step, look, kept, out, truncated, walk>>
    BY <1>2, <1>7 DEF VisitSearch
  <2>2. c.isDir = TRUE
    BY <1>4, <1>7
  <2>3. \A e \in Expected : ~Unsure(e.path) => ~Covers(c, e.path)
    <3>1. Hidden(c.path, c.isDir)
      BY <1>7, <2>2
    <3> QED BY <1>6, <3>1
  <2> QED BY <1>1, <1>2, <2>1, <2>3, HeadSkipped
<1>8. CASE c.isDir /\ ~Hidden(c.path, TRUE)
  <2>1. PICK r : r = Read(c.path, c.depth)
    OBVIOUS
  <2>2. todo' = <<r>> \o Tail(todo) /\ UNCHANGED <<step, look, kept, out, truncated, walk>>
    BY <1>2, <1>8, <2>1 DEF VisitSearch
  <2>3. /\ ItemOK(r) /\ r.do = "read" /\ r.path = c.path /\ Under(c.path, r.path)
        /\ \A p : Covers(r, p) => Covers(c, p)
        /\ \A p : Covers(c, p) /\ p # c.path => Covers(r, p)
    BY <1>3, <1>8, <2>1, ReadNextIsOK
  <2>4. Distinct(<<r>>) /\ Range(<<r>>) = {r} /\ Distinct(<<>>) /\ Range(<<>>) = {}
    BY DistinctOne, DistinctEmpty
  <2>5. ASSUME NEW e \in Expected, ~Unsure(e.path), Covers(c, e.path) PROVE Covers(r, e.path)
    <3>1. e.path # c.path
      <4> SUFFICES ASSUME e.path = c.path PROVE FALSE
        OBVIOUS
      <4>1. c.isDir = (At(c.path) = Directory) /\ At(c.path) = tree[c.path] /\ tree[e.path] # Directory
        BY <1>6, <2>5
      <4> QED BY <1>8, <4>1
    <3> QED BY <2>3, <2>5, <3>1
  <2>6. \A f, g \in {} \cup {r} : f = g
    OBVIOUS
  <2>7. PICK s : s = <<r>>
    OBVIOUS
  <2>8. /\ Distinct(s) /\ Range(s) = {r} /\ todo' = s \o Tail(todo)
        /\ \A f \in Range(<<>>) \cup Range(s) :
             /\ ItemOK(f) /\ Under(todo[1].path, f.path)
             /\ \A p \in Spots : Covers(f, p) => Covers(todo[1], p)
        /\ \A f, g \in Range(<<>>) \cup Range(s) : f # g => ~Under(f.path, g.path)
    BY <1>2, <2>2, <2>3, <2>4, <2>6, <2>7
  <2>9. \A e \in Expected : ~Unsure(e.path) /\ Covers(todo[1], e.path) =>
          e \in Range(out') \/ \E f \in Range(<<>>) \cup Range(s) : Covers(f, e.path)
    BY <1>2, <2>5, <2>8
  <2>10. Shows(out') /\ out' = out
    BY <1>3, <2>2
  <2> QED BY <1>1, <2>2, <2>4, <2>8, <2>9, <2>10, HeadDone
<1>9. CASE ~c.isDir /\ At(c.path) = None
  <2>1. Fail
    BY <1>2, <1>9 DEF VisitSearch
  <2> QED BY <1>3, <2>1, CallFails
<1>10. CASE ~c.isDir /\ At(c.path) # None
  <2>1. PICK room : room = MaxMatches - Len(out)
    OBVIOUS
  <2>2. room \in Nat /\ Len(out) + room = MaxMatches
    BY <1>5, <2>1
  <2>3. PICK m : m = Searched(c.path, room)
    OBVIOUS
  <2>4. /\ Distinct(m) /\ Len(m) \in Nat /\ Len(m) <= room
        /\ \A e \in Range(m) :
             \E i \in DOMAIN At(c.path).lines :
               At(c.path).lines[i] = "hit" /\ ~Hidden(c.path, FALSE) /\ e = [path |-> c.path, line |-> i]
        /\ Len(m) < room => \A i \in DOMAIN At(c.path).lines :
             At(c.path).lines[i] = "hit" /\ ~Hidden(c.path, FALSE) => [path |-> c.path, line |-> i] \in Range(m)
    BY <1>3, <1>4, <2>2, <2>3, SearchedIs
  <2>5. PICK matches : matches = out \o m
    OBVIOUS
  <2>6. c.isDir = FALSE
    BY <1>4, <1>10
  <2>7. \A e \in Range(m) : e.path = c.path /\ Right(e)
    <3> SUFFICES ASSUME NEW e \in Range(m) PROVE e.path = c.path /\ Right(e)
      OBVIOUS
    <3>1. PICK i \in DOMAIN At(c.path).lines :
            At(c.path).lines[i] = "hit" /\ ~Hidden(c.path, FALSE) /\ e = [path |-> c.path, line |-> i]
      BY <2>4
    <3>2. ~Hidden(c.path, c.isDir)
      BY <2>6, <3>1
    <3>3. c.path \in Places /\ c.path \in Below(call.path) /\ (Visible(c.path) \/ Unsure(c.path))
      BY <1>3, <3>2, ComeToIsRight
    <3> QED BY <1>1, <3>1, <3>3, LineIsRight
  <2>8. Distinct(matches) /\ Range(matches) = Range(out) \cup Range(m) /\ Len(matches) = Len(out) + Len(m)
    <3>1. Range(out) \cap Range(m) = {}
      <4>1. Covers(c, c.path)
        BY <1>3, <1>4, UnderItself DEF Covers
      <4>2. \A e \in Range(out) : e.path # c.path
        BY <1>3, <4>1 DEF Ahead
      <4> QED BY <2>7, <4>2
    <3> QED BY <1>3, <2>4, <2>5, <3>1, DistinctConcat DEF Shows
  <2>9. \A e \in Range(matches) : Right(e)
    BY <1>3, <2>7, <2>8 DEF Shows
  <2>10. CASE Len(matches) >= MaxMatches
    <3>1. SearchDone(matches)
      BY <1>2, <1>10, <2>1, <2>3, <2>5, <2>10 DEF VisitSearch
    <3>2. Len(matches) > SearchLimit
      BY <1>5, <2>4, <2>8, <2>10
    <3> QED BY <1>1, <1>3, <2>8, <2>9, <3>1, <3>2, SearchIsDone DEF Begun
  <2>11. CASE ~(Len(matches) >= MaxMatches)
    <3>1. out' = matches /\ todo' = Tail(todo) /\ UNCHANGED <<step, look, kept, truncated, walk>>
      BY <1>2, <1>10, <2>1, <2>3, <2>5, <2>11 DEF VisitSearch
    <3>2. Len(matches) <= Most /\ Len(m) < room
      BY <1>5, <2>2, <2>4, <2>8, <2>11
    <3>3. Shows(out')
      BY <2>8, <2>9, <3>1, <3>2 DEF Shows
    <3>4. ASSUME NEW e \in Expected, ~Unsure(e.path), Covers(c, e.path) PROVE e \in Range(out')
      <4>1. /\ ~Hidden(c.path, c.isDir) /\ At(c.path) = tree[c.path]
            /\ c.path # e.path => c.isDir
            /\ \E i \in DOMAIN tree[e.path].lines : tree[e.path].lines[i] = "hit" /\ e = [path |-> e.path, line |-> i]
        BY <1>6, <3>4
      <4>2. ~Hidden(c.path, FALSE) /\ c.path = e.path
        BY <1>10, <2>6, <4>1
      <4>3. e \in Range(m)
        BY <2>4, <3>2, <4>1, <4>2
      <4> QED BY <2>8, <3>1, <4>3
    <3>5. /\ \A e \in Range(out') : e \in Range(out) \/ (e.path = todo[1].path /\ todo[1].do = "visit")
          /\ Range(out) \subseteq Range(out')
      BY <1>2, <1>3, <2>7, <2>8, <3>1
    <3>6. Distinct(<<>>) /\ Range(<<>>) = {}
      BY DistinctEmpty
    <3>7. todo' = <<>> \o Tail(todo) /\ look' = <<>> /\ kept' = <<>>
      BY <1>1, <1>3, <3>1
    <3> QED BY <1>1, <1>2, <3>1, <3>3, <3>4, <3>5, <3>6, <3>7, HeadDone
  <2> QED BY <2>10, <2>11
<1> QED BY <1>4, <1>7, <1>8, <1>9, <1>10

(* The children of a directory that is read, as items of the walk *)
LEMMA ChildrenAreOK ==
  ASSUME ReadTypes, NEW c, ItemOK(c), c.do = "read", ~Hidden(c.path, TRUE),
         call.tool = "list" => ~(c.depth >= call.depth)
  PROVE  LET found == Children(c.path, c.depth + 1) IN
         /\ Distinct(found)
         /\ \A f \in Range(found) :
              /\ ItemOK(f) /\ f.do = "visit" /\ Under(c.path, f.path)
              /\ \A p \in Spots : Covers(f, p) => Covers(c, p)
         /\ \A f, g \in Range(found) : f # g => ~Under(f.path, g.path)
         /\ \A p \in Places : tree[p] # None /\ Covers(c, p) => \E f \in Range(found) : Covers(f, p)
<1> DEFINE d == c.path
<1>1. /\ d \in Spots /\ call.path \in Spots /\ Under(call.path, d) /\ IsWorkspace(tree)
      /\ c.depth \in Nat /\ c.depth = Len(d) - Len(call.path) /\ Entered(c)
  BY DEF ItemOK, ReadTypes, IsCall
<1>2. Len(d) \in Nat /\ Len(call.path) \in Nat /\ Len(call.path) <= Len(d)
  BY <1>1, SpotIs DEF Under
<1>3. PICK found : found = Children(d, c.depth + 1)
  OBVIOUS
<1>4. /\ Distinct(found)
      /\ \A f \in Range(found) :
              /\ f = Visit(f.path, tree[f.path] = Directory, c.depth + 1)
              /\ f.path \in Places /\ f.path \in Spots /\ tree[f.path] # None
              /\ Under(d, f.path) /\ Len(f.path) = Len(d) + 1
      /\ \A p \in Places : tree[p] # None /\ Under(d, p) /\ p # d =>
              \E f \in Range(found) : Under(f.path, p)
  BY <1>1, <1>3, ChildrenIs
<1>5. ASSUME NEW f \in Range(found)
      PROVE  /\ f.do = "visit" /\ f.depth = c.depth + 1 /\ f.isDir = (tree[f.path] = Directory)
             /\ f \in [do : {"visit", "read"}, path : Spots, isDir : BOOLEAN, depth : Nat]
  <2>1. PICK b \in BOOLEAN : b = (tree[f.path] = Directory)
    OBVIOUS
  <2>2. f = Visit(f.path, b, c.depth + 1)
    BY <1>4, <2>1
  <2>4. PICK p \in Spots : p = f.path
    BY <1>4
  <2>3. PICK z \in Nat : z = c.depth
    BY <1>1
  <2>5. PICK k \in Nat : k = c.depth + 1
    BY <2>3
  <2>6. f = [do |-> "visit", path |-> p, isDir |-> b, depth |-> k]
    BY <2>2, <2>4, <2>5 DEF Visit
  <2> QED BY <2>1, <2>5, <2>6
<1>6. ASSUME NEW f \in Range(found) PROVE ItemOK(f)
  <2>1. f.path \in Spots /\ f.path \in Places /\ Under(d, f.path) /\ Len(f.path) = Len(d) + 1 /\ tree[f.path] # None
    BY <1>4
  <2>2. Under(call.path, f.path)
    BY <1>1, <2>1, UnderChain
  <2>3. f.depth = Len(f.path) - Len(call.path)
    <3>1. PICK z \in Nat : z = c.depth
      BY <1>1
    <3>2. PICK a \in Nat, b \in Nat, x \in Nat : a = Len(d) /\ b = Len(call.path) /\ x = Len(f.path)
      BY <1>2, <2>1
    <3>3. z = a - b
      BY <1>1, <3>1, <3>2
    <3>4. x = a + 1
      BY <2>1, <3>2
    <3>5. f.depth = z + 1
      BY <1>5, <3>1
    <3>6. z + 1 = x - b
      BY <3>3, <3>4
    <3> QED BY <3>2, <3>5, <3>6
  <2>4. ASSUME NEW n \in Len(call.path) .. Len(f.path) - 1 PROVE ~Hidden(Front(f.path, n), TRUE)
    <3>1. n \in 0 .. Len(d) /\ Len(d) \in 0 .. Len(f.path)
      BY <1>2, <2>1
    <3>2. Front(f.path, Len(d)) = d
      BY <2>1 DEF Under
    <3>3. Front(f.path, n) = Front(d, n)
      BY <2>1, <3>1, <3>2, FrontIs
    <3>4. CASE n = Len(d)
      <4>1. Front(d, n) = d
        BY <1>1, <3>1, <3>4, FrontIs
      <4> QED BY <3>3, <4>1
    <3>5. CASE n # Len(d)
      <4>1. n \in Len(call.path) .. Len(d) - 1
        BY <1>2, <2>1, <3>5
      <4>2. ~Hidden(Front(d, n), TRUE)
        BY <1>1, <4>1 DEF Entered
      <4> QED BY <3>3, <4>2
    <3> QED BY <3>4, <3>5
  <2>5. f.path # call.path
    BY <1>2, <2>1
  <2>6. call.tool = "list" => f.depth <= call.depth
    <3> SUFFICES ASSUME call.tool = "list" PROVE f.depth <= call.depth
      OBVIOUS
    <3>1. PICK k \in Int : k = call.depth
      BY DEF ReadTypes, IsCall
    <3>2. PICK z \in Nat : z = c.depth
      BY <1>1
    <3>3. ~(z >= k)
      BY <3>1, <3>2
    <3>4. z + 1 <= k
      BY <3>3
    <3> QED BY <1>5, <3>1, <3>2, <3>4
  <2>7. Entered(f)
    BY <2>4 DEF Entered
  <2> QED BY <1>5, <2>1, <2>2, <2>3, <2>5, <2>6, <2>7 DEF ItemOK
<1>7. ASSUME NEW f \in Range(found), NEW p \in Spots, Covers(f, p) PROVE Covers(c, p)
  <2>1. Under(f.path, p) /\ Under(d, f.path) /\ f.path \in Spots /\ Len(f.path) = Len(d) + 1
    BY <1>4, <1>7 DEF Covers
  <2>2. Under(d, p)
    BY <1>1, <2>1, UnderChain
  <2>3. p # d
    BY <1>2, <2>1 DEF Under
  <2> QED BY <2>2, <2>3 DEF Covers
<1>8. ASSUME NEW f \in Range(found), NEW g \in Range(found), Under(f.path, g.path) PROVE f = g
  <2>1. /\ f.path \in Spots /\ g.path \in Spots /\ Len(f.path) = Len(d) + 1 /\ Len(g.path) = Len(d) + 1
        /\ f = Visit(f.path, tree[f.path] = Directory, c.depth + 1)
        /\ g = Visit(g.path, tree[g.path] = Directory, c.depth + 1)
    BY <1>4
  <2>2. f.path = g.path
    BY <1>2, <1>8, <2>1, UnderIs
  <2> QED BY <2>1, <2>2
<1>9. ASSUME NEW p \in Places, tree[p] # None, Covers(c, p) PROVE \E f \in Range(found) : Covers(f, p)
  <2>1. Under(d, p) /\ p # d
    BY <1>9 DEF Covers
  <2>2. PICK f \in Range(found) : Under(f.path, p)
    BY <1>4, <1>9, <2>1
  <2> QED BY <1>5, <2>2 DEF Covers
<1> QED BY <1>3, <1>4, <1>5, <1>6, <1>7, <1>8, <1>9

(* A directory is read. *)
LEMMA ReadDirStep == ASSUME ReadInv, ReadDir PROVE ReadInv'
<1>1. step = "walk" /\ look = <<>> /\ todo # <<>> /\ todo[1].do = "read"
  BY DEF ReadDir
<1>2. PICK c : c = todo[1]
  OBVIOUS
<1>3. /\ ReadTypes /\ Begun /\ Shows(out) /\ ItemOK(c) /\ c.do = "read" /\ kept = <<>> /\ Distinct(todo)
      /\ Tail(todo) = <<>> \o Tail(todo) /\ Len(out) \in Nat /\ (call.tool = "list" => ListLimit \in Int)
      /\ call.tool \in {"list", "search", "summary"}
  BY <1>1, <1>2, AtHead
<1>4. c.depth \in Nat /\ c.depth = Len(c.path) - Len(call.path) /\ c.path \in Spots
  BY <1>3 DEF ItemOK
<1>5. CASE call.tool = "list" /\ c.depth >= call.depth
  <2>1. todo' = Tail(todo) /\ UNCHANGED <<step, look, kept, out, truncated, walk>>
    BY <1>2, <1>5 DEF ReadDir
  <2>2. ASSUME NEW e \in Expected, ~Unsure(e.path), Covers(c, e.path) PROVE FALSE
    <3>1. PICK p : p = e.path
      OBVIOUS
    <3>2. p \in Spots /\ Len(p) - Len(call.path) <= call.depth
      BY <1>3, <1>5, <2>2, <3>1, ToCome
    <3>3. Under(c.path, p) /\ c.path # p
      BY <1>3, <2>2, <3>1 DEF Covers
    <3>4. Len(c.path) < Len(p)
      BY <1>4, <3>2, <3>3, UnderIs
    <3>5. call.path \in Spots /\ call.depth \in Int
      BY <1>3, <1>5 DEF ReadTypes, IsCall
    <3>6. Len(c.path) \in Nat /\ Len(p) \in Nat /\ Len(call.path) \in Nat
      BY <1>4, <3>2, <3>5, SpotIs
    <3>7. \A a, b, z \in Nat, k \in Int : a < b /\ b - z <= k /\ a - z >= k => FALSE
      OBVIOUS
    <3>8. Len(c.path) - Len(call.path) >= call.depth
      BY <1>4, <1>5
    <3> QED BY <3>2, <3>4, <3>5, <3>6, <3>7, <3>8
  <2> QED BY <1>1, <1>2, <2>1, <2>2, HeadSkipped
<1>6. CASE ~(call.tool = "list" /\ c.depth >= call.depth) /\ At(c.path) # Directory
  <2>1. PICK gone \in BOOLEAN : gone = (At(c.path) = None)
    OBVIOUS
  <2>2. Break(gone)
    BY <1>2, <1>6, <2>1 DEF ReadDir
  <2> QED BY <1>1, <2>2, WalkBreaks
<1>7. CASE ~(call.tool = "list" /\ c.depth >= call.depth) /\ At(c.path) = Directory
  <2>1. PICK found : found = Children(c.path, c.depth + 1)
    OBVIOUS
  <2>2. /\ IF call.tool # "list" THEN todo' = found \o Tail(todo) /\ UNCHANGED look
           ELSE todo' = Tail(todo) /\ look' = IF Hidden(c.path, TRUE) THEN <<>> ELSE found
        /\ UNCHANGED <<step, kept, out, truncated, walk>>
    BY <1>2, <1>7, <2>1 DEF ReadDir
  <2>3. Shows(out') /\ out' = out
    BY <1>3, <2>2
  <2>4. Distinct(<<>>) /\ Range(<<>>) = {}
    BY DistinctEmpty
  <2>5. ~Hidden(c.path, TRUE) =>
         /\ Distinct(found)
         /\ \A f \in Range(found) :
              /\ ItemOK(f) /\ f.do = "visit" /\ Under(c.path, f.path)
              /\ \A p \in Spots : Covers(f, p) => Covers(c, p)
         /\ \A f, g \in Range(found) : f # g => ~Under(f.path, g.path)
         /\ \A p \in Places : tree[p] # None /\ Covers(c, p) => \E f \in Range(found) : Covers(f, p)
    BY <1>3, <1>7, <2>1, ChildrenAreOK
  <2>6. ASSUME NEW e \in Expected, ~Unsure(e.path), Covers(c, e.path)
        PROVE  ~Hidden(c.path, TRUE) /\ \E f \in Range(found) : Covers(f, e.path)
    <3>1. PICK p : p = e.path
      OBVIOUS
    <3>2. p \in Places /\ p \in Spots /\ p \notin touched /\ Under(call.path, p) /\ Visible(p) /\ tree[p] # None
      BY <1>3, <2>6, <3>1, ToCome
    <3>3. c.path # p
      BY <1>3, <2>6, <3>1 DEF Covers
    <3>4. c.path # p => At(c.path) = Directory /\ ~Hidden(c.path, TRUE) /\ (c.do = "visit" => c.isDir)
      BY <1>3, <2>6, <3>1, <3>2, CoveredIs
    <3> QED BY <2>5, <2>6, <3>1, <3>2, <3>3, <3>4
  <2>7. CASE call.tool # "list"
    <3>1. ~Hidden(c.path, TRUE)
      BY <1>3, <2>7 DEF ItemOK
    <3>2. todo' = found \o Tail(todo) /\ look' = <<>> /\ kept' = <<>> /\ UNCHANGED <<step, truncated, walk>>
      BY <1>1, <1>3, <2>2, <2>7
    <3>3. /\ \A f \in Range(<<>>) \cup Range(found) :
               /\ ItemOK(f) /\ Under(todo[1].path, f.path)
               /\ \A p \in Spots : Covers(f, p) => Covers(todo[1], p)
          /\ \A f, g \in Range(<<>>) \cup Range(found) : f # g => ~Under(f.path, g.path)
          /\ Range(<<>>) \cap Range(found) = {} /\ Distinct(found)
      BY <1>2, <2>4, <2>5, <3>1
    <3>4. \A e \in Expected : ~Unsure(e.path) /\ Covers(todo[1], e.path) =>
            e \in Range(out') \/ \E f \in Range(<<>>) \cup Range(found) : Covers(f, e.path)
      BY <1>2, <2>4, <2>6
    <3> QED BY <1>1, <2>3, <2>4, <2>7, <3>2, <3>3, <3>4, HeadDone
  <2>8. CASE call.tool = "list"
    <3>1. PICK l : l = IF Hidden(c.path, TRUE) THEN <<>> ELSE found
      OBVIOUS
    <3>2. todo' = <<>> \o Tail(todo) /\ look' = l /\ kept' = <<>> /\ UNCHANGED <<step, truncated, walk>>
      BY <1>3, <2>2, <2>8, <3>1
    <3>3. /\ Distinct(l)
          /\ \A f \in Range(l) : /\ ItemOK(f) /\ f.do = "visit" /\ Under(c.path, f.path)
                                 /\ \A p \in Spots : Covers(f, p) => Covers(c, p)
          /\ \A f, g \in Range(l) : f # g => ~Under(f.path, g.path)
      <4>1. CASE Hidden(c.path, TRUE)
        BY <2>4, <3>1, <4>1
      <4>2. CASE ~Hidden(c.path, TRUE)
        BY <2>5, <3>1, <4>2
      <4> QED BY <4>1, <4>2
    <3>4. ASSUME NEW e \in Expected, ~Unsure(e.path), Covers(c, e.path)
          PROVE  \E f \in Range(l) : Covers(f, e.path)
      BY <2>6, <3>1, <3>4
    <3>5. Enough(todo, out) => Enough(todo', out')
      <4> SUFFICES ASSUME Enough(todo, out) PROVE Enough(todo', out')
        OBVIOUS
      <4>1. PICK t2 : t2 = todo'
        OBVIOUS
      <4>2. PICK R : R = {}
        OBVIOUS
      <4>3. Range(t2) = R \cup (Range(todo) \ {todo[1]}) /\ \A f \in R : f.do = "read"
        <5>1. t2 = Tail(todo)
          BY <1>3, <3>2, <4>1
        <5>2. Range(Tail(todo)) = Range(todo) \ {todo[1]}
          BY <1>1, <1>3, DistinctTail
        <5> QED BY <4>2, <5>1, <5>2
      <4>4. todo[1].do # "visit" /\ Len(out) >= Len(out) /\ ListLimit \in Int /\ Len(out) \in Nat
        BY <1>1, <1>3, <2>8
      <4>5. Enough(t2, out)
        BY <1>1, <1>3, <4>3, <4>4, StillEnough
      <4>6. out' = out
        BY <2>3
      <4> QED BY <4>1, <4>5, <4>6
    <3>6. /\ \A f \in Range(l) \cup Range(<<>>) :
               /\ ItemOK(f) /\ Under(todo[1].path, f.path)
               /\ \A p \in Spots : Covers(f, p) => Covers(todo[1], p)
          /\ \A f, g \in Range(l) \cup Range(<<>>) : f # g => ~Under(f.path, g.path)
          /\ Range(l) \cap Range(<<>>) = {}
      BY <1>2, <2>4, <3>3
    <3>7. \A e \in Expected : ~Unsure(e.path) /\ Covers(todo[1], e.path) =>
            e \in Range(out') \/ \E f \in Range(l) \cup Range(<<>>) : Covers(f, e.path)
      BY <1>2, <2>4, <3>4
    <3> QED BY <1>1, <2>3, <2>4, <2>8, <3>2, <3>3, <3>5, <3>6, <3>7, HeadDone
  <2> QED BY <2>7, <2>8
<1> QED BY <1>5, <1>6, <1>7

(* What is still to come is enough, when more of it is to come. *)
LEMMA EnoughGrows ==
  ASSUME NEW t, NEW t2, NEW o, Distinct(t2), Range(t) \subseteq Range(t2), Len(o) \in Nat, ListLimit \in Int,
         Enough(t, o)
  PROVE  Enough(t2, o)
<1> DEFINE V == Visits(Range(t))
           W == Visits(Range(t2))
<1>1. V \subseteq W /\ W \subseteq Range(t2)
  BY DEF Visits
<1>2. IsFiniteSet(Range(t2))
  BY DistinctIs
<1>3. Len(o) + Cardinality(V) > ListLimit
  BY DEF Enough
<1>4. Len(o) + Cardinality(W) > ListLimit
  <2> HIDE DEF V, W
  <2>1. IsFiniteSet(W)
    BY <1>1, <1>2, FS_Subset
  <2>2. IsFiniteSet(V) /\ Cardinality(V) <= Cardinality(W)
    BY <1>1, <2>1, FS_Subset
  <2>3. Cardinality(V) \in Nat /\ Cardinality(W) \in Nat
    BY <2>1, <2>2, FS_CardinalityType
  <2> QED BY <1>3, <2>2, <2>3
<1> QED BY <1>4 DEF Enough

(* A directory with as many entries as List takes is enough. *)
LEMMA FullIsEnough ==
  ASSUME NEW list, NEW t, NEW o, Distinct(list), Distinct(t), Range(list) \subseteq Range(t),
         \A c \in Range(list) : c.do = "visit",
         Len(o) \in Nat, ListLimit \in Nat, Len(list) > ListLimit
  PROVE  Enough(t, o)
<1> DEFINE W == Visits(Range(t))
<1>1. Range(list) \subseteq W /\ W \subseteq Range(t)
  BY DEF Visits
<1>2. IsFiniteSet(Range(t)) /\ Cardinality(Range(list)) = Len(list) /\ Len(list) \in Nat
  BY DistinctIs
<1>3. Len(o) + Cardinality(W) > ListLimit
  <2> HIDE DEF W
  <2>1. IsFiniteSet(W)
    BY <1>1, <1>2, FS_Subset
  <2>2. Cardinality(Range(list)) <= Cardinality(W) /\ Cardinality(W) \in Nat
    BY <1>1, <2>1, FS_Subset, FS_CardinalityType
  <2> QED BY <1>2, <2>2
<1> QED BY <1>3 DEF Enough

(* What Fits says of a part of what is pending *)
LEMMA LessFits ==
  ASSUME Fits(kept, look, todo, out), call.tool = "list",
         NEW k, NEW l, NEW t, Distinct(k), Distinct(l), Distinct(t), l = <<>> => k = <<>>,
         Range(k) \cap Range(l) = {}, (Range(k) \cup Range(l)) \cap Range(t) = {},
         Range(k) \cup Range(l) \subseteq Range(kept) \cup Range(look),
         Range(t) \subseteq Range(kept) \cup Range(look) \cup Range(todo),
         \A c \in Visits(Range(k) \cup Range(t)) : Picked(c),
         Complete(k, l, t, out)
  PROVE  Fits(k, l, t, out)
<1>1. Pending(k, l, t) \subseteq Pending(kept, look, todo)
  BY DEF Pending
<1>2. /\ \A c \in Pending(kept, look, todo) : ItemOK(c)
      /\ \A c \in Range(kept) \cup Range(look) : c.do = "visit"
      /\ Apart(Pending(kept, look, todo)) /\ Ahead(Pending(kept, look, todo), out) /\ Shows(out)
  BY DEF Fits
<1>3. Apart(Pending(k, l, t)) /\ Ahead(Pending(k, l, t), out)
  BY <1>1, <1>2 DEF Apart, Ahead
<1>4. \A c \in Pending(k, l, t) : ItemOK(c)
  BY <1>1, <1>2
<1>5. \A c \in Range(k) \cup Range(l) : c.do = "visit"
  BY <1>2
<1> QED BY <1>2, <1>3, <1>4, <1>5 DEF Fits

(* list_files looks at a child of a directory. *)
LEMMA InspectStep == ASSUME ReadInv, Inspect PROVE ReadInv'
<1>1. step = "walk" /\ look # <<>>
  BY DEF Inspect
<1>2. ReadTypes /\ Begun /\ Fits(kept, look, todo, out)
  BY <1>1 DEF ReadInv
<1>3. PICK c : c = look[1]
  OBVIOUS
<1>4. /\ call.tool = "list" /\ Distinct(kept) /\ Distinct(look) /\ Distinct(todo)
      /\ Range(kept) \cap Range(look) = {} /\ (Range(kept) \cup Range(look)) \cap Range(todo) = {}
      /\ \A x \in Visits(Range(kept) \cup Range(todo)) : Picked(x)
      /\ \A x \in Range(kept) \cup Range(look) : x.do = "visit"
      /\ Shows(out) /\ Complete(kept, look, todo, out)
  BY <1>1, <1>2 DEF Fits
<1>5. c \in Range(look) /\ c.do = "visit" /\ c \notin Range(kept)
  BY <1>1, <1>3, <1>4, DistinctIs
<1>6. ItemOK(c)
  BY <1>2, <1>5 DEF Fits, Pending
<1>7. c.isDir \in BOOLEAN /\ c.path \in Spots
  BY <1>6 DEF ItemOK
<1>8. Len(out) \in Nat /\ ListLimit \in Nat /\ ListLimit <= MaxListLimit /\ MaxListLimit \in Nat
  <2>1. Len(out) \in Nat
    BY <1>4, DistinctIs DEF Shows
  <2>2. IsCall /\ ~Refused
    BY <1>2 DEF ReadTypes, Begun
  <2> QED BY <1>4, <2>1, <2>2, LimitsAreNumbers
<1>9. CASE Listed(c) = "fail"
  <2>1. Fail
    BY <1>3, <1>9 DEF Inspect
  <2> QED BY <1>2, <2>1, CallFails
<1>10. CASE Listed(c) # "fail"
  <2>1. PICK list : list = IF Listed(c) = "keep" THEN Append(kept, c) ELSE kept
    OBVIOUS
  <2>2. PICK rest : rest = IF Len(list) >= MaxListLimit THEN <<>> ELSE Tail(look)
    OBVIOUS
  <2>3. /\ look' = rest
        /\ IF rest = <<>> THEN todo' = list \o todo /\ kept' = <<>>
           ELSE kept' = list /\ UNCHANGED todo
        /\ UNCHANGED <<step, out, truncated, walk>>
    BY <1>3, <1>10, <2>1, <2>2 DEF Inspect
  <2>4. /\ Distinct(list)
        /\ Range(kept) \subseteq Range(list) /\ Range(list) \subseteq Range(kept) \cup {c}
        /\ Listed(c) = "keep" => c \in Range(list)
        /\ Listed(c) # "keep" => Range(list) = Range(kept)
    BY <1>4, <1>5, <2>1, DistinctAppend
  <2>5. Distinct(<<>>) /\ Range(<<>>) = {}
    BY DistinctEmpty
  <2>6. Distinct(Tail(look)) /\ Range(Tail(look)) = Range(look) \ {c}
    BY <1>1, <1>3, <1>4, DistinctTail
  <2>7. Distinct(rest) /\ Range(rest) \subseteq Range(look) \ {c}
    <3>1. CASE Len(list) >= MaxListLimit
      BY <2>2, <2>5, <3>1
    <3>2. CASE ~(Len(list) >= MaxListLimit)
      BY <2>2, <2>6, <3>2
    <3> QED BY <3>1, <3>2
  <2>8. Listed(c) = "keep" => Picked(c)
    <3> SUFFICES ASSUME Listed(c) = "keep" PROVE Picked(c)
      OBVIOUS
    <3>1. ~Hidden(c.path, c.isDir)
      BY DEF Listed
    <3>2. ASSUME c.path \notin touched PROVE tree[c.path] # Binary
      <4>1. c.isDir = (tree[c.path] = Directory)
        BY <1>5, <1>6, <3>2 DEF ItemOK
      <4>2. CASE c.isDir
        BY <4>1, <4>2, NodeIs
      <4>3. CASE ~c.isDir
        <5>1. At(c.path) # Binary
          BY <3>1, <4>3 DEF Listed
        <5>2. c.path # <<>>
          <6>1. call.path \in Spots /\ Under(call.path, c.path) /\ c.path # call.path
            BY <1>2, <1>5, <1>6 DEF ReadTypes, IsCall, ItemOK
          <6>2. Len(call.path) < Len(c.path) /\ Len(call.path) \in Nat
            BY <1>7, <6>1, UnderIs, SpotIs
          <6> QED BY <1>7, <6>2, SpotIs
        <5> QED BY <5>1, <5>2 DEF At
      <4> QED BY <1>7, <4>2, <4>3
    <3> QED BY <3>1, <3>2 DEF Picked
  <2>9. ASSUME NEW e \in Expected, ~Unsure(e.path), Covers(c, e.path) PROVE Listed(c) = "keep"
    <3>1. PICK p : p = e.path
      OBVIOUS
    <3>2. /\ p \in Places /\ p \in Spots /\ p \notin touched /\ Under(call.path, p) /\ Visible(p) /\ tree[p] # None
          /\ tree[p] # Binary
      BY <1>2, <1>4, <2>9, <3>1, ToCome
    <3>3. ~Hidden(c.path, c.isDir) /\ At(c.path) = tree[c.path]
      BY <1>2, <1>5, <1>6, <2>9, <3>1, <3>2, CoveredIs
    <3>4. c.path # p => At(c.path) = Directory
      BY <1>2, <1>6, <2>9, <3>1, <3>2, CoveredIs
    <3>5. At(c.path) # Binary
      BY <3>2, <3>3, <3>4, NodeIs
    <3> QED BY <1>10, <3>3, <3>5 DEF Listed
  <2>10. \A x \in Visits(Range(list) \cup Range(todo)) : Picked(x)
    BY <1>4, <2>4, <2>8 DEF Visits
  <2>11. \A x \in Range(list) : x.do = "visit"
    BY <1>4, <1>5, <2>4
  <2>12. Range(list) \cap Range(todo) = {} /\ Range(list) \cap Range(rest) = {} /\ Range(rest) \cap Range(todo) = {}
    BY <1>4, <1>5, <2>4, <2>7
  <2>13. CASE rest = <<>>
    <3>1. PICK t : t = list \o todo
      OBVIOUS
    <3>2. Distinct(t) /\ Range(t) = Range(list) \cup Range(todo)
      BY <1>4, <2>4, <2>12, <3>1, DistinctConcat
    <3>3. kept' = <<>> /\ look' = <<>> /\ todo' = t /\ UNCHANGED <<step, truncated, walk>> /\ out' = out
      BY <2>3, <2>13, <3>1
    <3>4. ASSUME NEW e \in Expected
          PROVE  \/ e \in Range(out)
                 \/ Unsure(e.path)
                 \/ ListLimit = MaxListLimit \/ Enough(t, out)
                 \/ \E x \in Range(t) : Covers(x, e.path)
      <4>1. CASE e \in Range(out) \/ Unsure(e.path) \/ ListLimit = MaxListLimit
        BY <4>1
      <4>2. CASE Enough(todo, out)
        BY <1>8, <3>2, <4>2, EnoughGrows
      <4>3. CASE ~Unsure(e.path) /\ \E x \in Pending(kept, look, todo) : Covers(x, e.path)
        <5>1. PICK x \in Pending(kept, look, todo) : Covers(x, e.path)
          BY <4>3
        <5>2. CASE x \in Range(kept) \cup Range(todo)
          BY <2>4, <3>2, <5>1, <5>2
        <5>3. CASE x = c
          BY <2>4, <2>9, <3>2, <4>3, <5>1, <5>3
        <5>4. CASE x \in Range(look) \ {c}
          <6>1. Len(list) >= MaxListLimit
            <7>1. Tail(look) # <<>>
              BY <2>5, <2>6, <5>4
            <7> QED BY <2>2, <2>13, <7>1
          <6>2. CASE ListLimit = MaxListLimit
            BY <6>2
          <6>3. CASE ListLimit # MaxListLimit
            <7>1. Len(list) \in Nat
              BY <2>4, DistinctIs
            <7>2. Len(list) > ListLimit
              BY <1>8, <6>1, <6>3, <7>1
            <7>3. Enough(t, out)
              BY <1>8, <2>4, <2>11, <3>2, <7>2, FullIsEnough
            <7> QED BY <7>3
          <6> QED BY <6>2, <6>3
        <5> QED BY <5>1, <5>2, <5>3, <5>4 DEF Pending
      <4> QED BY <1>4, <4>1, <4>2, <4>3 DEF Complete
    <3>5. PICK n : n = <<>>
      OBVIOUS
    <3>6. Complete(n, n, t, out)
      BY <1>4, <2>5, <3>4, <3>5 DEF Complete, Pending
    <3>7. Fits(n, n, t, out)
      <4>1. Range(n) = {} /\ Distinct(n)
        BY <2>5, <3>5
      <4>2. \A x \in Visits(Range(n) \cup Range(t)) : Picked(x)
        BY <2>10, <3>2, <4>1
      <4>3. Range(t) \subseteq Range(kept) \cup Range(look) \cup Range(todo)
        BY <1>5, <2>4, <3>2
      <4> QED BY <1>2, <1>4, <3>2, <3>6, <4>1, <4>2, <4>3, LessFits
    <3>8. Fits(kept', look', todo', out')
      BY <3>3, <3>5, <3>7
    <3> QED BY <1>1, <3>3, <3>8, WalkGoesOn
  <2>14. CASE rest # <<>>
    <3>1. kept' = list /\ look' = rest /\ todo' = todo /\ UNCHANGED <<step, truncated, walk>> /\ out' = out
      BY <2>3, <2>14
    <3>2. Range(rest) = Range(look) \ {c}
      BY <2>2, <2>6, <2>14
    <3>3. ASSUME NEW e \in Expected
          PROVE  \/ e \in Range(out)
                 \/ Unsure(e.path)
                 \/ ListLimit = MaxListLimit \/ Enough(todo, out)
                 \/ \E x \in Pending(list, rest, todo) : Covers(x, e.path)
      <4>1. CASE e \in Range(out) \/ Unsure(e.path) \/ ListLimit = MaxListLimit \/ Enough(todo, out)
        BY <4>1
      <4>2. CASE ~Unsure(e.path) /\ \E x \in Pending(kept, look, todo) : Covers(x, e.path)
        <5>1. PICK x \in Pending(kept, look, todo) : Covers(x, e.path)
          BY <4>2
        <5>2. CASE x = c
          BY <2>4, <2>9, <4>2, <5>1, <5>2 DEF Pending
        <5>3. CASE x # c
          BY <2>4, <3>2, <5>1, <5>3 DEF Pending
        <5> QED BY <5>2, <5>3
      <4> QED BY <1>4, <4>1, <4>2 DEF Complete
    <3>4. Complete(list, rest, todo, out)
      BY <1>4, <3>3 DEF Complete
    <3>5. /\ Range(list) \cup Range(rest) \subseteq Range(kept) \cup Range(look)
          /\ (Range(list) \cup Range(rest)) \cap Range(todo) = {}
      BY <1>5, <2>4, <2>7, <2>12
    <3>6. Fits(list, rest, todo, out)
      BY <1>2, <1>4, <2>4, <2>7, <2>10, <2>12, <2>14, <3>4, <3>5, LessFits
    <3>7. Fits(kept', look', todo', out')
      BY <3>1, <3>6
    <3> QED BY <1>1, <3>1, <3>7, WalkGoesOn
  <2> QED BY <2>13, <2>14
<1> QED BY <1>9, <1>10

(* The walk is at its end. *)
LEMMA FinishStep == ASSUME ReadInv, Finish PROVE ReadInv'
<1>1. step = "walk" /\ todo = <<>> /\ look = <<>>
  BY DEF Finish
<1>2. ReadTypes /\ Begun /\ Fits(kept, look, todo, out)
  BY <1>1 DEF ReadInv
<1>3. Distinct(<<>>) /\ Range(<<>>) = {}
  BY DistinctEmpty
<1>4. Pending(kept, look, todo) = {} /\ Shows(out) /\ Complete(kept, look, todo, out)
  BY <1>1, <1>2, <1>3 DEF Fits, Pending
<1>5. Len(out) \in Nat /\ Len(out) <= Most /\ Distinct(out) /\ \A e \in Range(out) : Right(e)
  BY <1>4, DistinctIs DEF Shows
<1>6. call.tool = "list" => ~Enough(todo, out)
  <2> SUFFICES ASSUME call.tool = "list" PROVE ~Enough(todo, out)
    OBVIOUS
  <2>1. PICK none : none = Visits(Range(todo))
    OBVIOUS
  <2>2. none = {}
    BY <1>1, <1>3, <2>1 DEF Visits
  <2>3. Cardinality(none) = 0
    BY <2>2, FS_EmptySet
  <2>4. Most = ListLimit /\ Most \in Nat
    BY <1>2, LimitsAreNumbers DEF ReadTypes, Begun
  <2>5. ~(Len(out) + Cardinality(none) > ListLimit)
    BY <1>5, <2>3, <2>4
  <2> QED BY <2>1, <2>5 DEF Enough
<1>7. \A e \in Expected :
        e \in Range(out) \/ Unsure(e.path) \/ (call.tool = "list" /\ ListLimit = MaxListLimit)
  BY <1>4, <1>6 DEF Complete
<1>8. CASE call.tool = "search"
  <2>1. SearchDone(out)
    BY <1>8 DEF Finish
  <2>2. ~Refused /\ \A e \in Expected : e \in Range(out) \/ Unsure(e.path)
    BY <1>2, <1>7, <1>8 DEF Begun
  <2> QED BY <1>2, <1>5, <1>8, <2>1, <2>2, SearchIsDone
<1>9. CASE call.tool = "summary"
  <2>1. Summarize(out, "no")
    BY <1>9 DEF Finish
  <2>2. \A e \in Expected : e \in Range(out) \/ Unsure(e.path)
    BY <1>7, <1>9
  <2> QED BY <1>2, <1>4, <1>9, <2>1, <2>2, SummaryIsDone
<1>10. CASE call.tool \notin {"search", "summary"}
  <2>1. Found(out, FALSE)
    BY <1>10 DEF Finish
  <2>2. step' = "done" /\ out' = out /\ UNCHANGED <<call, rules, touched, editsLeft, tree>>
    BY <2>1 DEF Found, Ends, walk
  <2> QED BY <1>2, <1>4, <1>7, <1>10, <2>2, CallIsDone
<1> QED BY <1>8, <1>9, <1>10

(* The call is cancelled in the middle of its walk. *)
LEMMA CancelReadStep == ASSUME ReadInv, CancelRead PROVE ReadInv'
BY WalkBreaks DEF CancelRead

(* What is to be shown is below the path of the call, or at it, ... *)
LEMMA ExpectedIsBelow ==
  ASSUME IsCall, call.tool # "read", NEW e \in Expected
  PROVE  e.path \in Spots /\ Under(call.path, e.path)
<1>1. call.path \in Spots /\ call.tool \in {"list", "search", "summary"}
  BY DEF IsCall
<1>2. \A q \in Places : q \in Spots
  BY DEF Spots
<1>3. Under(call.path, call.path)
  BY <1>1, UnderItself
<1>4. ASSUME NEW d, e \in Entries(d) PROVE e.path \in Spots /\ Under(call.path, e.path)
  <2>1. PICK q \in Places : Within(q, d) /\ e = Entry(q, At(q) = Directory)
    BY <1>4 DEF Entries
  <2>2. e.path = q
    BY <2>1 DEF Entry
  <2> QED BY <1>1, <1>2, <2>1, <2>2, UnderIs DEF Within
<1>5. CASE call.tool = "list"
  <2>1. e \in Entries(call.depth) \/ e = Entry(call.path, FALSE)
    BY <1>5 DEF Expected
  <2>2. Entry(call.path, FALSE).path = call.path
    BY DEF Entry
  <2> QED BY <1>1, <1>3, <1>4, <2>1, <2>2
<1>6. CASE call.tool = "summary"
  <2>1. e \in Entries(SnapshotDepth)
    BY <1>6 DEF Expected
  <2> QED BY <1>4, <2>1
<1>7. CASE call.tool = "search"
  <2>1. e \in LinesFound
    BY <1>7 DEF Expected
  <2>2. PICK q \in Places : /\ q \in Below(call.path) \cup {call.path}
                            /\ e \in { [path |-> q, line |-> i] :
                                         i \in { j \in DOMAIN At(q).lines : At(q).lines[j] = "hit" } }
    BY <2>1 DEF LinesFound
  <2>3. e.path = q
    BY <2>2
  <2> QED BY <1>1, <1>2, <1>3, <2>2, <2>3, UnderIs
<1> QED BY <1>1, <1>5, <1>6, <1>7

(* ... after a step as well. *)
LEMMA ExpectedIsBelowThen ==
  ASSUME NEW e
  PROVE  (IsCall /\ call.tool # "read" /\ e \in Expected => e.path \in Spots /\ Under(call.path, e.path))'
<1>1. IsCall /\ call.tool # "read" /\ e \in Expected => e.path \in Spots /\ Under(call.path, e.path)
  BY ExpectedIsBelow
<1> QED BY <1>1, PTL

(* What the walk goes by of the paths that nobody edits *)
LEMMA RestStays ==
  ASSUME ReadTypes, UNCHANGED <<call, rules>>, touched \subseteq touched',
         \A q \in Places \ touched' : tree'[q] = tree[q],
         NEW q \in Spots
  PROVE  /\ q \notin touched' => /\ At(q)' = At(q)
                                 /\ Visible(q)' <=> Visible(q)
                                 /\ Listable(q)' <=> Listable(q)
                                 /\ Unsure(q)' <=> Unsure(q)
         /\ Unsure(q) => Unsure(q)'
         /\ q \in touched' => Unsure(q)'
         /\ \A isDir : Hidden(q, isDir)' <=> Hidden(q, isDir)
<1>1. Base' = Base /\ Rel(q)' = Rel(q) /\ Rel(call.path)' = Rel(call.path)
  BY DEF Base, Rel
<1>2. \A isDir : Hidden(q, isDir)' <=> Hidden(q, isDir)
  BY <1>1 DEF Hidden
<1>3. q \in touched' => Unsure(q)'
  BY DEF Unsure
<1>4. ASSUME q \notin touched'
      PROVE  /\ At(q)' = At(q)
             /\ Visible(q)' <=> Visible(q)
             /\ Listable(q)' <=> Listable(q)
             /\ Unsure(q)' <=> Unsure(q)
  <2>1. At(q)' = At(q)
    BY <1>4, SpotIs DEF At, Spots
  <2>2. Visible(q)' <=> Visible(q)
    BY <1>1, <2>1 DEF Visible
  <2>3. Listable(q)' <=> Listable(q)
    BY <2>1 DEF Listable
  <2>4. q \notin touched
    BY <1>4
  <2>5. Unsure(q)' <=> Unsure(q)
    BY <1>1, <1>4, <2>1, <2>4 DEF Unsure
  <2> QED BY <2>1, <2>2, <2>3, <2>5
<1>5. Unsure(q) => Unsure(q)'
  BY <1>3, <1>4
<1> QED BY <1>2, <1>3, <1>4, <1>5

(* What is to be shown of them *)
LEMMA ExpectedStays ==
  ASSUME ReadTypes, ReadTypes', UNCHANGED <<call, rules>>, touched \subseteq touched', call.tool # "read",
         \A q \in Places \ touched' : tree'[q] = tree[q],
         NEW e, e.path \notin touched'
  PROVE  e \in Expected <=> e \in Expected'
<1>1. IsCall /\ IsCall' /\ call.path \in Spots /\ call.tool \in {"list", "search", "summary"}
  BY DEF ReadTypes, IsCall
<1>2. \A q \in Places : q \in Spots
  BY DEF Spots
<1>3. \A q \in Spots \ touched' : /\ At(q)' = At(q)
                                  /\ Visible(q)' <=> Visible(q)
                                  /\ Listable(q)' <=> Listable(q)
  BY RestStays
<1>4. e \in Expected => e.path \in Spots /\ Under(call.path, e.path)
  BY <1>1, ExpectedIsBelow
<1>5. e \in Expected' => e.path \in Spots /\ Under(call.path, e.path)
  BY <1>1, ExpectedIsBelowThen
<1>6. e \in Expected \/ e \in Expected' => call.path \notin touched'
  <2> SUFFICES ASSUME e.path \in Spots, Under(call.path, e.path), call.path \in touched' PROVE FALSE
    BY <1>4, <1>5
  <2>1. CASE call.path = e.path
    BY <2>1
  <2>2. CASE call.path # e.path
    <3>1. e.path \in Below(call.path)
      BY <1>1, <2>2, UnderIs
    <3>2. \A q \in touched' : Below(q) \subseteq touched'
      BY DEF ReadTypes, Below
    <3> QED BY <3>1, <3>2
  <2> QED BY <2>1, <2>2
<1>7. e \in Expected \/ e \in Expected' => At(call.path)' = At(call.path)
  BY <1>1, <1>3, <1>6
<1>8. \A d : e \in Entries(d) <=> e \in Entries(d)'
  <2> SUFFICES ASSUME NEW d PROVE e \in Entries(d) <=> e \in Entries(d)'
    OBVIOUS
  <2>1. ASSUME e \in Entries(d) PROVE e \in Entries(d)'
    <3>1. PICK q \in Places : Within(q, d) /\ Listable(q) /\ Visible(q) /\ e = Entry(q, At(q) = Directory)
      BY <2>1 DEF Entries
    <3>2. q \notin touched'
      BY <3>1 DEF Entry
    <3>3. Within(q, d)' /\ Listable(q)' /\ Visible(q)' /\ e = Entry(q, At(q)' = Directory)
      BY <1>2, <1>3, <3>1, <3>2 DEF Within
    <3> QED BY <3>3 DEF Entries
  <2>2. ASSUME e \in Entries(d)' PROVE e \in Entries(d)
    <3>1. PICK q \in Places : Within(q, d)' /\ Listable(q)' /\ Visible(q)' /\ e = Entry(q, At(q)' = Directory)
      BY <2>2 DEF Entries
    <3>2. q \notin touched'
      BY <3>1 DEF Entry
    <3>3. Within(q, d) /\ Listable(q) /\ Visible(q) /\ e = Entry(q, At(q) = Directory)
      BY <1>2, <1>3, <3>1, <3>2 DEF Within
    <3> QED BY <3>3 DEF Entries
  <2> QED BY <2>1, <2>2
<1>9. e \in LinesFound <=> e \in LinesFound'
  <2> DEFINE L(q) == { [path |-> q, line |-> i] : i \in { j \in DOMAIN At(q).lines : At(q).lines[j] = "hit" } }
  <2>1. \A q \in Spots \ touched' : L(q)' = L(q)
    BY <1>3
  <2>2. ASSUME e \in LinesFound PROVE e \in LinesFound'
    <3>1. PICK q \in Places : q \in Below(call.path) \cup {call.path} /\ Visible(q) /\ e \in L(q)
      BY <2>2 DEF LinesFound
    <3>2. q \notin touched'
      BY <3>1
    <3>3. Visible(q)' /\ e \in L(q)'
      BY <1>2, <1>3, <2>1, <3>1, <3>2
    <3> QED BY <3>1, <3>3 DEF LinesFound
  <2>3. ASSUME e \in LinesFound' PROVE e \in LinesFound
    <3>1. PICK q \in Places : q \in Below(call.path) \cup {call.path} /\ Visible(q)' /\ e \in L(q)'
      BY <2>3 DEF LinesFound
    <3>2. q \notin touched'
      BY <3>1
    <3>3. Visible(q) /\ e \in L(q)
      BY <1>2, <1>3, <2>1, <3>1, <3>2
    <3> QED BY <3>1, <3>3 DEF LinesFound
  <2> QED BY <2>2, <2>3
<1>10. CASE call.tool = "list"
  <2>1. e \in Expected <=>
          e \in (IF At(call.path) \notin {None, Directory} THEN {Entry(call.path, FALSE)} ELSE Entries(call.depth))
    BY <1>10 DEF Expected
  <2>2. e \in Expected' <=>
          e \in (IF At(call.path)' \notin {None, Directory} THEN {Entry(call.path, FALSE)} ELSE Entries(call.depth)')
    BY <1>10 DEF Expected
  <2> QED BY <1>7, <1>8, <2>1, <2>2
<1>11. CASE call.tool = "summary"
  BY <1>8, <1>11 DEF Expected
<1>12. CASE call.tool = "search"
  BY <1>9, <1>12 DEF Expected
<1> QED BY <1>1, <1>10, <1>11, <1>12

(* What the user leaves is a tree again. *)
LEMMA EditKeepsTree ==
  ASSUME ReadTypes, NEW p \in Places, NEW node, IsNode(node),
         At(Front(p, Len(p) - 1)) = Directory,
         tree' = [q \in Places |-> IF q = p THEN node ELSE IF q \in Below(p) THEN None ELSE tree[q]]
  PROVE  IsWorkspace(tree)'
<1>1. PICK t : t = tree'
  OBVIOUS
<1>2. IsWorkspace(tree)
  BY DEF ReadTypes
<1>3. p \in Spots /\ p # <<>> /\ Len(p) \in Nat /\ Len(p) # 0
  BY SpotIs DEF Spots
<1>4. DOMAIN t = Places /\ t[p] = node /\ \A q \in Places : q # p => t[q] = IF q \in Below(p) THEN None ELSE tree[q]
  BY <1>1
<1>5. IsNode(None)
  BY DEF IsNode
<1>6. \A q \in Places : IsNode(t[q])
  BY <1>2, <1>4, <1>5 DEF IsWorkspace
<1>7. ASSUME NEW q \in Places, t[q] # None, NEW a \in Prefixes(q) \ {q} PROVE t[a] = Directory
  <2>1. q \in Spots /\ Len(q) \in Nat
    BY SpotIs DEF Spots
  <2>2. PICK n \in 1 .. Len(q) : a = Front(q, n) /\ n # Len(q)
    <3>1. Front(q, Len(q)) = q
      BY <2>1, FrontIs
    <3> QED BY <1>7, <3>1 DEF Prefixes
  <2>3. /\ a \in Spots /\ Len(a) = n /\ Under(a, q) /\ a # q /\ a # <<>> /\ a \in Places
        /\ \A m \in 0 .. n : Front(a, m) = Front(q, m)
    <3>1. n \in 0 .. Len(q)
      BY <2>1
    <3>2. /\ a \in Spots /\ Len(a) = n /\ Under(a, q) /\ a # q
          /\ \A m \in 0 .. n : Front(a, m) = Front(q, m)
      BY <2>1, <2>2, <3>1, FrontIs
    <3> QED BY <2>2, <3>2, SpotIs
  <2>4. CASE q = p
    <3>1. Len(p) - 1 \in 0 .. Len(p) /\ n <= Len(p) - 1
      BY <2>1, <2>2, <2>4
    <3>2. PICK d : d = Front(p, Len(p) - 1)
      OBVIOUS
    <3>3. d \in Spots /\ Len(d) = Len(p) - 1 /\ Under(d, p) /\ d # p
      <4>1. Len(p) - 1 # Len(p)
        BY <1>3
      <4> QED BY <1>3, <3>1, <3>2, <4>1, FrontIs
    <3>4. At(d) = Directory
      BY <3>2
    <3>5. Len(a) <= Len(d) /\ Under(a, p)
      BY <2>3, <2>4, <3>1, <3>3
    <3>6. Under(a, d)
      BY <1>3, <2>3, <3>3, <3>5, UnderChain
    <3>7. tree[a] = Directory
      <4>1. d # <<>> /\ d \in Places
        <5>1. PICK m \in Nat : m = Len(d)
          BY <3>3, SpotIs
        <5>2. n <= m /\ n \in Nat /\ n >= 1
          BY <2>1, <2>2, <2>3, <3>5, <5>1
        <5>3. m # 0
          BY <5>2
        <5> QED BY <3>3, <5>1, <5>3, SpotIs
      <4>2. tree[d] = Directory
        BY <3>4, <4>1 DEF At
      <4>3. CASE a = d
        BY <4>2, <4>3
      <4>4. CASE a # d
        <5>1. At(a) = Directory
          BY <1>2, <2>3, <3>6, <4>1, <4>2, <4>4, InDirectory, NodeIs
        <5> QED BY <2>3, <5>1 DEF At
      <4> QED BY <4>3, <4>4
    <3>8. a # p /\ a \notin Below(p)
      <4>1. Len(a) < Len(p)
        BY <2>3, <3>1, <3>3, <3>5, <1>3
      <4> QED BY <1>3, <2>3, <4>1 DEF Below
    <3> QED BY <1>4, <2>3, <3>7, <3>8
  <2>5. CASE q # p
    <3>1. q \notin Below(p) /\ tree[q] = t[q]
      BY <1>4, <1>7, <2>5
    <3>2. ~Under(p, q)
      BY <1>3, <2>1, <2>5, <3>1, UnderIs
    <3>3. a # p
      BY <2>3, <3>2
    <3>4. a \notin Below(p)
      <4>1. Under(p, a) => Under(p, q)
        BY <1>3, <2>1, <2>3, UnderChain
      <4> QED BY <1>3, <2>3, <3>2, <4>1, UnderIs
    <3>5. tree[a] = Directory
      BY <1>2, <1>7, <3>1 DEF IsWorkspace
    <3> QED BY <1>4, <2>3, <3>3, <3>4, <3>5
  <2> QED BY <2>4, <2>5
<1>8. IsWorkspace(t)
  BY <1>4, <1>6, <1>7 DEF IsWorkspace
<1> QED BY <1>1, <1>8 DEF IsWorkspace

(* The user edits the tree in the middle of a walk. *)
LEMMA EditTreeStep ==
  ASSUME ReadInv, NEW p \in Places,
         NEW node \in {None, Directory, Binary} \cup { File(lines) : lines \in Contents }, EditTree(p, node)
  PROVE  ReadInv'
<1>1. /\ step = "walk" /\ At(Front(p, Len(p) - 1)) = Directory
      /\ tree' = [q \in Places |-> IF q = p THEN node ELSE IF q \in Below(p) THEN None ELSE tree[q]]
      /\ touched' = touched \cup {p} \cup Below(p)
      /\ UNCHANGED <<call, step, rules, todo, look, kept, out, truncated, cut>>
  BY DEF EditTree
<1>2. ReadTypes /\ Begun /\ Fits(kept, look, todo, out)
  BY <1>1 DEF ReadInv
<1>3. IsNode(node)
  <2>1. Contents \subseteq Lines
    BY WorkspaceReadAssumption
  <2> QED BY <2>1, NodeIs DEF IsNode
<1>4. IsWorkspace(tree)'
  BY <1>1, <1>2, <1>3, EditKeepsTree
<1>5. p \in Spots
  BY DEF Spots
<1>6. touched' \subseteq Places /\ \A q \in touched' : Below(q) \subseteq touched'
  <2>1. Below(p) \subseteq Places /\ touched \subseteq Places /\ \A q \in touched : Below(q) \subseteq touched
    BY <1>2 DEF ReadTypes, Below
  <2>2. ASSUME NEW q \in Below(p), NEW r \in Below(q) PROVE r \in Below(p)
    <3>1. q \in Spots /\ r \in Spots /\ r \in Places
      BY DEF Spots, Below
    <3>2. Under(p, q) /\ Under(q, r) /\ q # p /\ r # q
      BY <1>5, <3>1, UnderIs
    <3>3. Under(p, r)
      BY <1>5, <3>1, <3>2, UnderChain
    <3>4. Len(p) < Len(q) /\ Len(q) < Len(r)
      BY <1>5, <3>1, <3>2, UnderIs
    <3>5. Len(p) \in Nat /\ Len(q) \in Nat /\ Len(r) \in Nat
      BY <1>5, <3>1, SpotIs
    <3>6. r # p
      BY <3>4, <3>5
    <3> QED BY <1>5, <3>1, <3>3, <3>6, UnderIs
  <2> QED BY <1>1, <2>1, <2>2
<1>7. ReadTypes'
  <2>1. IsCall'
    BY <1>1, <1>2 DEF ReadTypes, IsCall
  <2>2. \A q : Below(q)' = Below(q)
    BY DEF Below
  <2>3. (\E n \in Nat : DOMAIN rules = 1 .. n)'
    BY <1>1, <1>2 DEF ReadTypes
  <2> QED BY <1>1, <1>4, <1>6, <2>1, <2>2, <2>3 DEF ReadTypes
<1>8. UNCHANGED <<call, rules>> /\ touched \subseteq touched' /\ call.tool # "read"
  BY <1>1, <1>2 DEF Begun
<1>9. \A q \in Places \ touched' : tree'[q] = tree[q]
  BY <1>1
<1>10. \A q \in Spots : /\ q \notin touched' => At(q)' = At(q)
                        /\ Unsure(q) => Unsure(q)'
                        /\ q \in touched' => Unsure(q)'
                        /\ \A isDir : Hidden(q, isDir)' <=> Hidden(q, isDir)
  BY <1>2, <1>8, <1>9, RestStays
<1>11. \A e : e.path \notin touched' => (e \in Expected <=> e \in Expected')
  BY <1>2, <1>7, <1>8, <1>9, ExpectedStays
<1>12. ListLimit' = ListLimit /\ Most' = Most /\ (Refused' <=> Refused)
  BY <1>8 DEF ListLimit, Most, SearchLimit, Refused
<1>13. Begun'
  <2>1. call.path \in Spots
    BY <1>2 DEF ReadTypes, IsCall
  <2>2. call.path \notin touched' => At(call.path)' = Directory
    BY <1>2, <1>8, <1>10, <2>1 DEF Begun
  <2> QED BY <1>1, <1>2, <1>8, <1>12, <2>2 DEF Begun
<1>14. ASSUME NEW e, Right(e) PROVE Right(e)'
  BY <1>10, <1>11, <1>14 DEF Right, Spots
<1>15. ASSUME NEW c, ItemOK(c) PROVE ItemOK(c)'
  <2>1. /\ c \in [do : {"visit", "read"}, path : Spots, isDir : BOOLEAN, depth : Nat]
        /\ c.path \in Spots /\ Under(call.path, c.path) /\ c.depth = Len(c.path) - Len(call.path) /\ Entered(c)
        /\ c.do = "read" => call.tool = "list" \/ ~Hidden(c.path, TRUE)
        /\ c.do = "visit" => /\ c.path # call.path
                             /\ call.tool = "list" => c.depth <= call.depth
                             /\ c.path \notin touched => tree[c.path] # None /\ c.isDir = (tree[c.path] = Directory)
    BY <1>15 DEF ItemOK
  <2>2. Entered(c)'
    <3>1. ASSUME NEW n \in Len(call.path) .. Len(c.path) - 1 PROVE ~Hidden(Front(c.path, n), TRUE)'
      <4>1. Front(c.path, n) \in Spots
        <5>1. call.path \in Spots
          BY <1>2 DEF ReadTypes, IsCall
        <5>2. n \in 0 .. Len(c.path)
          BY <2>1, <5>1, SpotIs
        <5> QED BY <2>1, <5>2, SpotIs
      <4>2. ~Hidden(Front(c.path, n), TRUE)
        BY <2>1 DEF Entered
      <4> QED BY <1>10, <4>1, <4>2
    <3> QED BY <1>8, <3>1 DEF Entered
  <2>3. c.do = "read" => call'.tool = "list" \/ ~Hidden(c.path, TRUE)'
    BY <1>8, <1>10, <2>1
  <2>4. c.do = "visit" /\ c.path \notin touched' =>
          tree'[c.path] # None /\ c.isDir = (tree'[c.path] = Directory)
    <3> SUFFICES ASSUME c.do = "visit", c.path \notin touched'
                 PROVE  tree'[c.path] # None /\ c.isDir = (tree'[c.path] = Directory)
      OBVIOUS
    <3>1. c.path \in Places
      <4>1. call.path \in Spots
        BY <1>2 DEF ReadTypes, IsCall
      <4>2. Len(call.path) < Len(c.path) /\ Len(call.path) \in Nat
        BY <2>1, <4>1, UnderIs, SpotIs
      <4> QED BY <2>1, <4>2, SpotIs
    <3>2. tree'[c.path] = tree[c.path] /\ c.path \notin touched
      BY <1>8, <1>9, <3>1
    <3> QED BY <2>1, <3>2
  <2> QED BY <1>8, <2>1, <2>2, <2>3, <2>4 DEF ItemOK
<1>16. ASSUME NEW c, ItemOK(c), c.do = "visit", Picked(c) PROVE Picked(c)'
  <2>1. c.path \in Spots /\ call.path \in Spots /\ Under(call.path, c.path) /\ c.path # call.path
    BY <1>2, <1>16 DEF ItemOK, ReadTypes, IsCall
  <2>2. c.path \in Places
    <3>1. Len(call.path) < Len(c.path) /\ Len(call.path) \in Nat
      BY <2>1, UnderIs, SpotIs
    <3> QED BY <2>1, <3>1, SpotIs
  <2>3. c.path \notin touched' => tree'[c.path] = tree[c.path] /\ c.path \notin touched
    BY <1>8, <1>9, <2>2
  <2> QED BY <1>10, <1>16, <2>1, <2>3 DEF Picked
<1>17. Shows(out)'
  BY <1>1, <1>2, <1>12, <1>14 DEF Fits, Shows
<1>18. Complete(kept, look, todo, out)'
  <2>1. ASSUME NEW e \in Expected'
        PROVE  \/ e \in Range(out)
               \/ Unsure(e.path)'
               \/ call.tool = "list" /\ (ListLimit = MaxListLimit \/ Enough(todo, out))
               \/ \E c \in Pending(kept, look, todo) : Covers(c, e.path)
    <3>1. e.path \in touched' => Unsure(e.path)'
      BY DEF Unsure
    <3>2. CASE e.path \notin touched'
      <4>1. e \in Expected
        BY <1>11, <2>1, <3>2
      <4>2. e.path \in Spots
        BY <1>2, <1>8, <4>1, ExpectedIsBelow DEF ReadTypes
      <4> QED BY <1>2, <1>10, <4>1, <4>2 DEF Fits, Complete
    <3> QED BY <3>1, <3>2
  <2>2. Enough(todo, out)' <=> Enough(todo, out)
    BY <1>1, <1>12 DEF Enough
  <2> QED BY <1>1, <1>12, <2>1, <2>2 DEF Complete
<1>19. Fits(kept, look, todo, out)'
  <2>1. \A c \in Pending(kept, look, todo) : ItemOK(c)'
    BY <1>2, <1>15 DEF Fits
  <2>2. call.tool = "list" => \A c \in Visits(Range(kept) \cup Range(todo)) : Picked(c)'
    <3>1. \A c \in Visits(Range(kept) \cup Range(todo)) : c.do = "visit" /\ ItemOK(c)
      BY <1>2 DEF Fits, Pending, Visits
    <3> QED BY <1>2, <1>16, <3>1 DEF Fits
  <2> QED BY <1>1, <1>2, <1>17, <1>18, <2>1, <2>2 DEF Fits, Pending, Ahead
<1>20. step' = "walk"
  BY <1>1
<1> QED BY <1>7, <1>13, <1>19, <1>20 DEF ReadInv, NothingHidden

(* Where a walk begins *)
LEMMA WalkFits ==
  ASSUME ReadTypes, Begun, kept = <<>>, look = <<>>, out = <<>>, todo = <<Read(call.path, 0)>>,
         call.tool = "list" \/ ~Hidden(call.path, TRUE)
  PROVE  Fits(kept, look, todo, out)
<1>1. PICK r : r = Read(call.path, 0)
  OBVIOUS
<1>2. r.do = "read" /\ r.path = call.path /\ r.depth = 0
  BY <1>1 DEF Read
<1>3. call.path \in Spots /\ Len(call.path) \in Nat /\ Under(call.path, call.path)
  <2>1. call.path \in Spots
    BY DEF ReadTypes, IsCall
  <2> QED BY <2>1, SpotIs, UnderItself
<1>4. ItemOK(r)
  <2>1. r \in [do : {"visit", "read"}, path : Spots, isDir : BOOLEAN, depth : Nat]
    BY <1>1, <1>3 DEF Read
  <2>2. Entered(r)
    <3>1. \A n \in Len(call.path) .. Len(call.path) - 1 : FALSE
      BY <1>3
    <3> QED BY <1>2, <3>1 DEF Entered
  <2>3. r.depth = Len(r.path) - Len(call.path)
    BY <1>2, <1>3
  <2> QED BY <1>2, <1>3, <2>1, <2>2, <2>3 DEF ItemOK
<1>5. Distinct(<<>>) /\ Range(<<>>) = {} /\ Len(<<>>) = 0 /\ Distinct(<<r>>) /\ Range(<<r>>) = {r}
  BY DistinctEmpty, DistinctOne
<1>6. /\ Distinct(kept) /\ Distinct(look) /\ Distinct(todo) /\ Distinct(out)
      /\ Range(kept) = {} /\ Range(look) = {} /\ Range(todo) = {r} /\ Range(out) = {} /\ Len(out) = 0
  BY <1>1, <1>5
<1>7. Pending(kept, look, todo) = {r} /\ Visits(Range(kept) \cup Range(todo)) = {}
  BY <1>2, <1>6 DEF Pending, Visits
<1>8. Shows(out)
  <2>1. Most \in Nat \ {0}
    BY LimitsAreNumbers DEF ReadTypes, Begun
  <2>2. Len(out) <= Most
    BY <1>6, <2>1
  <2> QED BY <1>6, <2>2 DEF Shows
<1>9. Apart(Pending(kept, look, todo)) /\ Ahead(Pending(kept, look, todo), out)
  BY <1>6, <1>7 DEF Apart, Ahead
<1>10. Complete(kept, look, todo, out)
  <2>1. ASSUME NEW e \in Expected, ~Unsure(e.path) PROVE Covers(r, e.path)
    <3>1. Under(call.path, e.path) /\ e.path # call.path
      BY <2>1, ToCome
    <3> QED BY <1>2, <3>1 DEF Covers
  <2> QED BY <1>7, <2>1 DEF Complete
<1> QED BY <1>4, <1>6, <1>7, <1>8, <1>9, <1>10 DEF Fits

(* The same after a step *)
LEMMA WalkFitsThen ==
  ( ReadTypes /\ Begun /\ kept = <<>> /\ look = <<>> /\ out = <<>> /\ todo = <<Read(call.path, 0)>>
    /\ (call.tool = "list" \/ ~Hidden(call.path, TRUE)) => Fits(kept, look, todo, out) )'
<1>1. ReadTypes /\ Begun /\ kept = <<>> /\ look = <<>> /\ out = <<>> /\ todo = <<Read(call.path, 0)>>
      /\ (call.tool = "list" \/ ~Hidden(call.path, TRUE)) => Fits(kept, look, todo, out)
  BY WalkFits
<1> QED BY <1>1, PTL

(* A call begins its walk. *)
LEMMA WalkStarts ==
  ASSUME ReadInv, step = "start", call.tool # "read", ~Refused, At(call.path) = Directory,
         Walk(call.path), \E n \in Nat : DOMAIN rules' = 1 .. n,
         call.tool = "list" \/ ~Hidden(call.path, TRUE)'
  PROVE  ReadInv'
<1>1. /\ step' = "walk" /\ todo' = <<Read(call.path, 0)>>
      /\ UNCHANGED <<look, kept, out, truncated, call, cut, touched, editsLeft, tree>>
  BY DEF Walk
<1>2. ReadTypes /\ look = <<>> /\ kept = <<>> /\ out = <<>> /\ touched = {} /\ ~truncated
  BY DEF ReadInv
<1>3. ReadTypes'
  <2>1. IsWorkspace(tree)' /\ IsCall'
    BY <1>1, <1>2 DEF ReadTypes, IsWorkspace, IsCall
  <2> QED BY <1>1, <1>2, <2>1 DEF ReadTypes, Below
<1>4. Begun'
  BY <1>1, <1>2 DEF Begun, Refused, At
<1>5. Fits(kept, look, todo, out)'
  BY <1>1, <1>2, <1>3, <1>4, WalkFitsThen
<1> QED BY <1>1, <1>3, <1>4, <1>5 DEF ReadInv, NothingHidden

(* list_files begins. *)
LEMMA StartListStep == ASSUME ReadInv, StartList PROVE ReadInv'
<1>1. step = "start" /\ call.tool = "list"
  BY DEF StartList
<1>2. ReadTypes /\ call.path \in Spots
  BY DEF ReadInv, ReadTypes, IsCall
<1>3. CASE Refused \/ At(call.path) = None
  BY <1>2, <1>3, CallFails DEF StartList
<1>4. CASE ~(Refused \/ At(call.path) = None) /\ At(call.path) = Directory
  <2>1. Walk(call.path) /\ UNCHANGED rules
    BY <1>4 DEF StartList
  <2>2. \E n \in Nat : DOMAIN rules' = 1 .. n
    BY <1>2, <2>1 DEF ReadTypes
  <2> QED BY <1>1, <1>4, <2>1, <2>2, WalkStarts
<1>5. CASE ~(Refused \/ At(call.path) = None) /\ At(call.path) # Directory
  <2>1. PICK e : e = Entry(call.path, FALSE)
    OBVIOUS
  <2>2. step' = "done" /\ out' = <<e>> /\ UNCHANGED <<call, rules, touched, editsLeft, tree>>
    BY <1>5, <2>1 DEF StartList, Found, Ends, walk
  <2>3. Expected = {e}
    BY <1>1, <1>5, <2>1 DEF Expected
  <2>4. e.path \in Places
    <3>1. call.path # <<>>
      BY <1>5 DEF At
    <3> QED BY <1>2, <2>1, <3>1, SpotIs DEF Entry
  <2>5. Distinct(<<e>>) /\ Range(<<e>>) = {e} /\ Len(<<e>>) = 1
    BY DistinctOne
  <2>6. Most \in Nat \ {0}
    BY <1>2, <1>5, LimitsAreNumbers DEF ReadTypes
  <2>7. Shows(<<e>>)
    <3>1. Len(<<e>>) <= Most
      BY <2>5, <2>6
    <3>2. \A x \in Range(<<e>>) : Right(x)
      BY <2>3, <2>4, <2>5 DEF Right
    <3> QED BY <2>5, <3>1, <3>2 DEF Shows
  <2>8. /\ Shows(out')
        /\ \A x \in Expected :
             x \in Range(out') \/ Unsure(x.path) \/ (call.tool = "list" /\ ListLimit = MaxListLimit)
    BY <2>2, <2>3, <2>5, <2>7
  <2> QED BY <1>1, <1>2, <2>2, <2>8, CallIsDone
<1> QED BY <1>3, <1>4, <1>5

(* get_workspace_summary begins. *)
LEMMA StartSummaryStep == ASSUME ReadInv, StartSummary PROVE ReadInv'
<1>1. step = "start" /\ call.tool = "summary"
  BY DEF StartSummary
<1>2. ReadTypes /\ call.path \in Spots
  BY DEF ReadInv, ReadTypes, IsCall
<1>3. CASE At(call.path) # Directory
  BY <1>2, <1>3, CallFails DEF StartSummary
<1>4. CASE At(call.path) = Directory
  <2>1. Walk(call.path) /\ rules' = IF call.path = <<>> THEN rules ELSE <<>>
    BY <1>4 DEF StartSummary
  <2>2. \E n \in Nat : DOMAIN rules' = 1 .. n
    <3>1. CASE call.path = <<>>
      BY <1>2, <2>1, <3>1 DEF ReadTypes
    <3>2. CASE call.path # <<>>
      <4>1. Len(<<>>) = 0 /\ DOMAIN <<>> = 1 .. Len(<<>>)
        BY DistinctEmpty, DistinctIs
      <4>2. DOMAIN rules' = 1 .. 0
        BY <2>1, <3>2, <4>1
      <4> QED BY <4>2
    <3> QED BY <3>1, <3>2
  <2>3. ~Hidden(call.path, TRUE)'
    <3>1. call' = call
      BY <2>1 DEF Walk
    <3>2. Base' = call.path
      BY <1>1, <3>1 DEF Base
    <3>3. Rel(call.path)' = <<>>
      <4>1. Len(call.path) \in Nat
        BY <1>2, SpotIs
      <4>2. SubSeq(call.path, Len(call.path) + 1, Len(call.path)) = <<>>
        <5>1. Base = call.path /\ Under(call.path, call.path) /\ call.path \in Spots
          BY <1>1, <1>2, UnderItself DEF Base
        <5>2. Rel(call.path) = <<>>
          BY <5>1, RelIs
        <5> QED BY <5>1, <5>2 DEF Rel
      <4> QED BY <3>1, <3>2, <4>2 DEF Rel
    <3> QED BY <3>1, <3>3 DEF Hidden, Ignored
  <2>4. ~Refused
    BY <1>1 DEF Refused
  <2> QED BY <1>1, <1>4, <2>1, <2>2, <2>3, <2>4, WalkStarts
<1> QED BY <1>3, <1>4

(* A place with lines is no directory, and what is above it is one. *)
LEMMA HitIs ==
  ASSUME ReadTypes, call.tool = "search", NEW e \in Expected
  PROVE  /\ e.path \in Places /\ e.path \in Spots /\ Visible(e.path) /\ Under(call.path, e.path)
         /\ At(e.path) = tree[e.path] /\ tree[e.path] # None /\ At(e.path) # Directory
         /\ \E i \in DOMAIN At(e.path).lines : At(e.path).lines[i] = "hit" /\ e = [path |-> e.path, line |-> i]
<1>1. e \in LinesFound
  BY DEF Expected
<1>2. PICK p \in Places : /\ p \in Below(call.path) \cup {call.path} /\ Visible(p)
                          /\ e \in { [path |-> p, line |-> i] :
                                       i \in { j \in DOMAIN At(p).lines : At(p).lines[j] = "hit" } }
  BY <1>1 DEF LinesFound
<1>3. PICK i \in DOMAIN At(p).lines : At(p).lines[i] = "hit" /\ e = [path |-> p, line |-> i]
  BY <1>2
<1>4. e.path = p
  BY <1>3
<1>5. p \in Spots /\ p # <<>>
  BY SpotIs DEF Spots
<1>6. At(p) = tree[p]
  BY <1>5 DEF At
<1>7. tree[p] # None /\ tree[p] # Directory
  <2>1. \A n : n = <<>> => DOMAIN n = {}
    BY DistinctEmpty, DistinctIs
  <2> QED BY <1>3, <1>6, <2>1, NodeIs
<1>8. Under(call.path, p)
  <2>1. IsCall /\ call.tool # "read"
    BY DEF ReadTypes
  <2> QED BY <1>4, <2>1, ExpectedIsBelow
<1> QED BY <1>2, <1>3, <1>4, <1>5, <1>6, <1>7, <1>8

(* search_text begins. *)
LEMMA StartSearchStep == ASSUME ReadInv, StartSearch PROVE ReadInv'
<1>1. step = "start" /\ call.tool = "search"
  BY DEF StartSearch
<1>2. ReadTypes /\ IsWorkspace(tree) /\ call.path \in Spots /\ touched = {}
  BY <1>1 DEF ReadInv, ReadTypes, IsCall
<1>3. PICK isDir \in BOOLEAN : isDir = (At(call.path) = Directory)
  OBVIOUS
<1>4. CASE Refused \/ At(call.path) = None
  BY <1>2, <1>4, CallFails DEF StartSearch
<1>5. CASE ~Refused /\ At(call.path) # None /\ Hidden(call.path, isDir)
  <2>1. PICK none : none = <<>>
    OBVIOUS
  <2>2. SearchDone(none)
    BY <1>3, <1>5, <2>1 DEF StartSearch
  <2>3. ASSUME NEW e \in Expected PROVE FALSE
    <3>1. PICK p \in Spots : p = e.path
      BY <1>1, <1>2, HitIs
    <3>2. p \in Places /\ Visible(p) /\ Under(call.path, p) /\ At(p) = tree[p] /\ tree[p] # None /\ At(p) # Directory
      BY <1>1, <1>2, <3>1, HitIs
    <3>3. PICK b \in BOOLEAN : b = (At(p) = Directory)
      OBVIOUS
    <3>4. ~Hidden(p, b) /\ \A n \in Len(call.path) .. Len(p) - 1 : ~Hidden(Front(p, n), TRUE)
      BY <1>2, <3>2, <3>3, VisibleIsReached
    <3>5. CASE p = call.path
      <4>1. b = isDir
        BY <1>3, <3>3, <3>5
      <4> QED BY <1>5, <3>4, <3>5, <4>1
    <3>6. CASE p # call.path
      <4>1. isDir = TRUE
        BY <1>2, <1>3, <3>2, <3>6, InDirectory
      <4>2. Len(call.path) \in Len(call.path) .. Len(p) - 1
        <5>1. Len(call.path) \in Nat /\ Len(p) \in Nat /\ Len(call.path) < Len(p)
          BY <1>2, <3>2, <3>6, UnderIs, SpotIs
        <5> QED BY <5>1
      <4>3. Front(p, Len(call.path)) = call.path
        BY <3>2 DEF Under
      <4> QED BY <1>5, <3>4, <4>1, <4>2, <4>3
    <3> QED BY <3>5, <3>6
  <2>4. Distinct(none) /\ Range(none) = {}
    BY <2>1, DistinctEmpty
  <2>5. (\A e \in Range(none) : Right(e)) /\ (\A e \in Expected : e \in Range(none) \/ Unsure(e.path))
    BY <2>3, <2>4
  <2> QED BY <1>1, <1>2, <1>5, <2>2, <2>4, <2>5, SearchIsDone
<1>6. CASE ~Refused /\ At(call.path) # None /\ ~Hidden(call.path, isDir) /\ At(call.path) = Directory
  <2>1. Walk(call.path) /\ UNCHANGED rules
    BY <1>3, <1>6 DEF StartSearch
  <2>2. \E n \in Nat : DOMAIN rules' = 1 .. n
    BY <1>2, <2>1 DEF ReadTypes
  <2>3. ~Hidden(call.path, TRUE)'
    <3>1. call' = call /\ rules' = rules
      BY <2>1 DEF Walk
    <3>2. isDir = TRUE
      BY <1>3, <1>6
    <3> QED BY <1>6, <3>1, <3>2 DEF Hidden, Rel, Base
  <2> QED BY <1>1, <1>6, <2>1, <2>2, <2>3, WalkStarts
<1>7. CASE ~Refused /\ At(call.path) # None /\ ~Hidden(call.path, isDir) /\ At(call.path) # Directory
  <2>1. PICK p \in Spots : p = call.path
    BY <1>2
  <2>2. p \in Places /\ At(p) = tree[p]
    <3>1. p # <<>>
      BY <1>7, <2>1 DEF At
    <3> QED BY <2>1, <3>1, SpotIs DEF At
  <2>3. isDir = FALSE
    BY <1>3, <1>7
  <2>4. MaxMatches \in Nat /\ SearchLimit \in Nat /\ MaxMatches = SearchLimit + 1
    <3>1. SearchLimit \in Nat
      BY <1>1, <1>2, <1>7, LimitsAreNumbers DEF ReadTypes
    <3> QED BY <3>1 DEF MaxMatches
  <2>5. PICK m : m = Searched(p, MaxMatches)
    OBVIOUS
  <2>6. SearchDone(m)
    BY <1>3, <1>7, <2>1, <2>5 DEF StartSearch
  <2>7. /\ Distinct(m) /\ Len(m) \in Nat /\ Len(m) <= MaxMatches
        /\ \A e \in Range(m) :
             \E i \in DOMAIN At(p).lines : At(p).lines[i] = "hit" /\ ~Hidden(p, FALSE) /\ e = [path |-> p, line |-> i]
        /\ Len(m) < MaxMatches => \A i \in DOMAIN At(p).lines :
             At(p).lines[i] = "hit" /\ ~Hidden(p, FALSE) => [path |-> p, line |-> i] \in Range(m)
    BY <1>2, <2>4, <2>5, SearchedIs
  <2>8. Visible(p) \/ Unsure(p)
    <3>1. PICK size \in Nat : DOMAIN rules = 1 .. size
      BY <1>2 DEF ReadTypes
    <3>2. Under(call.path, p)
      BY <2>1, UnderItself
    <3>3. \A n \in Len(call.path) .. Len(p) - 1 : ~Hidden(Front(p, n), TRUE)
      <4>1. Len(p) \in Nat
        BY <2>1, SpotIs
      <4> QED BY <2>1, <4>1
    <3>4. isDir = (At(p) = Directory) /\ ~Hidden(p, isDir)
      BY <1>3, <1>7, <2>1
    <3> QED BY <1>2, <3>1, <3>2, <3>3, <3>4, ReachedIsVisible
  <2>9. \A e \in Range(m) : Right(e)
    <3> SUFFICES ASSUME NEW e \in Range(m) PROVE Right(e)
      OBVIOUS
    <3>1. PICK i \in DOMAIN At(p).lines : At(p).lines[i] = "hit" /\ e = [path |-> p, line |-> i]
      BY <2>7
    <3>2. p \in Below(call.path) \cup {call.path}
      BY <2>1
    <3>3. Right([path |-> p, line |-> i])
      BY <1>1, <2>2, <2>8, <3>1, <3>2, LineIsRight
    <3> QED BY <3>1, <3>3
  <2>10. CASE Len(m) > SearchLimit
    BY <1>1, <1>2, <1>7, <2>6, <2>7, <2>9, <2>10, SearchIsDone
  <2>11. CASE ~(Len(m) > SearchLimit)
    <3>1. Len(m) < MaxMatches
      BY <2>4, <2>7, <2>11
    <3>2. ASSUME NEW e \in Expected PROVE e \in Range(m)
      <4>1. PICK q \in Spots : q = e.path
        BY <1>1, <1>2, HitIs
      <4>2. /\ q \in Places /\ Under(call.path, q) /\ tree[q] # None
            /\ \E i \in DOMAIN At(q).lines : At(q).lines[i] = "hit" /\ e = [path |-> q, line |-> i]
        BY <1>1, <1>2, <4>1, HitIs
      <4>3. q = p
        BY <1>2, <1>7, <2>1, <4>2, InDirectory
      <4>4. ~Hidden(p, FALSE)
        BY <1>7, <2>1, <2>3
      <4> QED BY <2>7, <3>1, <4>2, <4>3, <4>4
    <3>3. \A e \in Expected : e \in Range(m) \/ Unsure(e.path)
      BY <3>2
    <3> QED BY <1>1, <1>2, <1>7, <2>6, <2>7, <2>9, <3>3, SearchIsDone
  <2> QED BY <2>10, <2>11
<1> QED BY <1>4, <1>5, <1>6, <1>7

(* The lines that readLineRange counts, each once, and no more than it may *)
LEMMA LinesRead ==
  ASSUME NEW n \in Nat, NEW from \in Int, NEW to \in Int, NEW most \in Nat, from >= 1, to <= from + most - 1
  PROVE  LET asked == InOrder(n, { i \in 1 .. n : from <= i /\ i <= to }) IN
         /\ Distinct(asked) /\ Range(asked) = { i \in 1 .. n : from <= i /\ i <= to }
         /\ Len(asked) <= most
<1> DEFINE S == { i \in 1 .. n : from <= i /\ i <= to }
<1>1. S \subseteq 1 .. n /\ S \subseteq from .. to
  OBVIOUS
<1>2. PICK asked : asked = InOrder(n, S)
  OBVIOUS
<1>3. asked \in Seq(S) /\ Range(asked) = S /\ IsInjective(asked)
  <2> HIDE DEF S
  <2> QED BY <1>1, <1>2, InOrderIs
<1>4. Distinct(asked)
  <2> HIDE DEF S
  <2> QED BY <1>3 DEF Distinct, IsSequence
<1>5. Len(asked) = Cardinality(S)
  <2> HIDE DEF S
  <2> QED BY <1>3, <1>4, DistinctIs
<1>6. Cardinality(S) <= most
  <2> HIDE DEF S
  <2>1. IsFiniteSet(from .. to) /\ Cardinality(from .. to) = IF from > to THEN 0 ELSE to - from + 1
    BY FS_Interval
  <2>2. IsFiniteSet(S) /\ Cardinality(S) <= Cardinality(from .. to)
    BY <1>1, <2>1, FS_Subset
  <2>3. Cardinality(S) \in Nat
    BY <2>2, FS_CardinalityType
  <2>4. (IF from > to THEN 0 ELSE to - from + 1) <= most
    OBVIOUS
  <2> QED BY <2>1, <2>2, <2>3, <2>4
<1> QED BY <1>2, <1>3, <1>4, <1>5, <1>6

(* read_file is one step. *)
LEMMA StartReadStep == ASSUME ReadInv, StartRead PROVE ReadInv'
<1>1. step = "start" /\ call.tool = "read"
  BY DEF StartRead
<1>2. ReadTypes /\ IsWorkspace(tree) /\ call.path \in Spots /\ call.from \in Int /\ call.to \in Int
  BY <1>1 DEF ReadInv, ReadTypes, IsCall
<1>3. CASE Refused \/ ~Readable
  BY <1>2, <1>3, CallFails DEF StartRead
<1>4. CASE ~Refused /\ Readable
  <2>1. call.path # <<>> /\ call.from >= 1
    BY <1>1, <1>2, <1>4 DEF Refused
  <2>2. call.path \in Places
    BY <1>2, <2>1, SpotIs
  <2>3. PICK lines : lines = At(call.path).lines
    OBVIOUS
  <2>4. PICK n : n = Len(lines)
    OBVIOUS
  <2>5. n \in Nat /\ DOMAIN lines = 1 .. n
    <3>1. IsNode(At(call.path))
      BY <1>2, <2>1, <2>2 DEF IsWorkspace, At
    <3> QED BY <2>3, <2>4, <3>1, NodeIs
  <2>6. PICK from \in Int : from = call.from
    BY <1>2
  <2>7. PICK to : to = EndLine
    OBVIOUS
  <2>8. PICK most \in Nat : most = MaxReadLineCount
    BY LimitsAreNumbers
  <2>9. to \in Int /\ to <= from + most - 1
    <3>1. PICK z \in Int : z = call.to
      BY <1>2
    <3>2. to = IF z <= from + most - 1 THEN z ELSE from + most - 1
      BY <2>6, <2>7, <2>8, <3>1 DEF EndLine, Min2
    <3> QED BY <3>2
  <2> DEFINE S == { i \in 1 .. n : from <= i /\ i <= to }
  <2>10. PICK asked : asked = InOrder(n, S)
    OBVIOUS
  <2>11. Distinct(asked) /\ Range(asked) = S /\ Len(asked) <= most
    <3>1. from >= 1
      BY <2>1, <2>6
    <3> QED BY <2>5, <2>9, <2>10, <3>1, LinesRead
  <2>12. PICK o : o = [i \in DOMAIN asked |-> [path |-> call.path, line |-> asked[i]]]
    OBVIOUS
  <2>13. Distinct(o) /\ Len(o) = Len(asked)
    <3>1. o = [i \in DOMAIN asked |-> o[i]]
      BY <2>12
    <3>2. \A i, j \in DOMAIN asked : o[i] = o[j] => asked[i] = asked[j]
      <4> SUFFICES ASSUME NEW i \in DOMAIN asked, NEW j \in DOMAIN asked, o[i] = o[j] PROVE asked[i] = asked[j]
        OBVIOUS
      <4>1. o[i].line = asked[i] /\ o[j].line = asked[j]
        BY <2>12
      <4> QED BY <4>1
    <3> QED BY <2>11, <3>1, <3>2, DistinctMap
  <2>14. Expected = { [path |-> call.path, line |-> i] : i \in S }
    <3>1. Expected = { [path |-> call.path, line |-> i] :
                         i \in { j \in DOMAIN At(call.path).lines : call.from <= j /\ j <= EndLine } }
      BY <1>1 DEF Expected
    <3> QED BY <2>3, <2>5, <2>6, <2>7, <3>1
  <2>15. Range(o) = Expected
    <3> HIDE DEF S
    <3>1. ASSUME NEW e \in Expected PROVE e \in Range(o)
      <4>1. PICK i \in S : e = [path |-> call.path, line |-> i]
        BY <2>14
      <4>2. PICK j \in DOMAIN asked : asked[j] = i
        BY <2>11 DEF Range
      <4>3. j \in DOMAIN o /\ o[j] = e
        BY <2>12, <4>1, <4>2
      <4> QED BY <4>3 DEF Range
    <3>2. ASSUME NEW e \in Range(o) PROVE e \in Expected
      <4>1. PICK j \in DOMAIN o : e = o[j]
        BY <3>2 DEF Range
      <4>2. j \in DOMAIN asked /\ e = [path |-> call.path, line |-> asked[j]]
        BY <2>12, <4>1
      <4>3. asked[j] \in S
        BY <2>11, <4>2 DEF Range
      <4> QED BY <2>14, <4>2, <4>3
    <3> QED BY <3>1, <3>2
  <2>16. Shows(o)
    <3>1. Most = most
      BY <1>1, <2>8 DEF Most
    <3>2. \A e \in Expected : e.path = call.path
      BY <2>14
    <3>3. \A e \in Range(o) : Right(e)
      BY <2>2, <2>15, <3>2 DEF Right
    <3> QED BY <2>11, <2>13, <3>1, <3>3 DEF Shows
  <2>17. step' = "done" /\ out' = o /\ UNCHANGED <<call, rules, touched, editsLeft, tree>>
    <3>1. PICK r : r = ReadLineRange(At(call.path).lines, call.from, EndLine)
      OBVIOUS
    <3>2. Found(r.raw, r.more)
      BY <1>4, <3>1 DEF StartRead
    <3>3. r.raw = o
      BY <2>3, <2>4, <2>5, <2>6, <2>7, <2>10, <2>12, <3>1 DEF ReadLineRange
    <3> QED BY <3>2, <3>3 DEF Found, Ends, walk
  <2>18. /\ Shows(out')
         /\ \A e \in Expected :
              e \in Range(out') \/ Unsure(e.path) \/ (call.tool = "list" /\ ListLimit = MaxListLimit)
    BY <2>15, <2>16, <2>17
  <2> QED BY <1>1, <1>2, <2>17, <2>18, CallIsDone
<1> QED BY <1>3, <1>4

(* A call that has not begun *)
LEMMA ReadInitInv == ASSUME ReadInit PROVE ReadInv
<1>1. PICK s \in ReadScenarios : tree = s.tree /\ call = s.call /\ rules = NewIgnoreMatcher(s.lines)
  BY DEF ReadInit
<1>2. /\ step = "start" /\ look = <<>> /\ kept = <<>> /\ out = <<>> /\ touched = {} /\ ~truncated
  BY DEF ReadInit
<1>3. IsWorkspace(tree) /\ Len(s.lines) \in Nat /\ DOMAIN s.lines = 1 .. Len(s.lines)
  BY <1>1, ReadScenarioAssumption
<1>4. IsCall
  BY <1>1, ReadScenarioAssumption DEF IsCall, Spots
<1>5. \E n \in Nat : DOMAIN rules = 1 .. n
  <2>1. PICK S : S = { i \in DOMAIN s.lines : IsRule(s.lines[i]) }
    OBVIOUS
  <2>2. PICK named : named = InOrder(Len(s.lines), S)
    OBVIOUS
  <2>3. S \subseteq 1 .. Len(s.lines)
    BY <1>3, <2>1
  <2>4. named \in Seq(S)
    BY <1>3, <2>2, <2>3, InOrderIs
  <2>5. Len(named) \in Nat /\ DOMAIN named = 1 .. Len(named)
    BY <2>4, LenProperties
  <2>6. DOMAIN rules = DOMAIN named
    BY <1>1, <2>1, <2>2 DEF NewIgnoreMatcher
  <2> QED BY <2>5, <2>6
<1>6. ReadTypes
  BY <1>2, <1>3, <1>4, <1>5 DEF ReadTypes
<1> QED BY <1>2, <1>6 DEF ReadInv, NothingHidden

(* A step of somebody else *)
LEMMA ReadStutters == ASSUME ReadInv, UNCHANGED readVars PROVE ReadInv'
<1>1. UNCHANGED <<call, rules, touched, editsLeft, tree>> /\ UNCHANGED walk
      /\ UNCHANGED <<step, todo, look, kept, out, truncated, cut>>
  BY DEF readVars, walk
<1>2. ReadTypes
  BY DEF ReadInv
<1>3. CASE step = "walk"
  <2>1. Fits(kept', look', todo', out')
    BY <1>1, <1>3 DEF ReadInv
  <2> QED BY <1>1, <1>3, <2>1, WalkGoesOn
<1>4. CASE step # "walk"
  <2>1. ReadTypes'
    BY <1>1, <1>2, TypesStay DEF ReadTypes
  <2>2. Expected' = Expected /\ Most' = Most /\ ListLimit' = ListLimit
        /\ (\A p : Unsure(p)' <=> Unsure(p)) /\ (\A e : Right(e)' <=> Right(e))
    BY <1>1, WalkStays
  <2>3. step = "done" => Shows(out)' /\ (call.tool = "summary" => ShortList(out)')
    BY <1>1, <2>2 DEF ReadInv, Shows, ShortList
  <2>4. NothingHidden'
    BY <1>1, <2>2 DEF ReadInv, NothingHidden, LeavesOut
  <2> QED BY <1>1, <1>4, <2>1, <2>3, <2>4 DEF ReadInv
<1> QED BY <1>3, <1>4

(* ReadInv is an invariant of a call. *)
THEOREM ReadInvHolds == ReadSpec => []ReadInv
<1>1. ReadInit => ReadInv
  BY ReadInitInv
<1>2. ReadInv /\ [ReadNext]_readVars => ReadInv'
  <2> SUFFICES ASSUME ReadInv, [ReadNext]_readVars PROVE ReadInv'
    OBVIOUS
  <2>1. CASE UNCHANGED readVars
    BY <2>1, ReadStutters
  <2>2. CASE StartList
    BY <2>2, StartListStep
  <2>3. CASE StartSearch
    BY <2>3, StartSearchStep
  <2>4. CASE StartSummary
    BY <2>4, StartSummaryStep
  <2>5. CASE StartRead
    BY <2>5, StartReadStep
  <2>6. CASE ReadDir
    BY <2>6, ReadDirStep
  <2>7. CASE Inspect
    BY <2>7, InspectStep
  <2>8. CASE EmitEntry
    BY <2>8, EmitEntryStep
  <2>9. CASE VisitSearch
    BY <2>9, VisitSearchStep
  <2>10. CASE VisitSummary
    BY <2>10, VisitSummaryStep
  <2>11. CASE Finish
    BY <2>11, FinishStep
  <2>12. CASE CancelRead
    BY <2>12, CancelReadStep
  <2>13. ASSUME NEW p \in Places,
                NEW node \in {None, Directory, Binary} \cup { File(lines) : lines \in Contents }, EditTree(p, node)
         PROVE  ReadInv'
    BY <2>13, EditTreeStep
  <2> QED BY <2>1, <2>2, <2>3, <2>4, <2>5, <2>6, <2>7, <2>8, <2>9, <2>10, <2>11, <2>12, <2>13 DEF ReadNext
<1> QED BY <1>1, <1>2, PTL DEF ReadSpec

(* A result that does not say it is truncated holds all that it is to show,  *)
(* with the exceptions NothingHidden names, whatever the user edits during   *)
(* the walk.                                                                  *)
THEOREM NothingIsHidden == ReadSpec => []NothingHidden
<1>1. ReadInv => NothingHidden
  BY DEF ReadInv
<1> QED BY <1>1, ReadInvHolds, PTL

(* A result holds nothing that is not to be shown, nothing twice, and no more *)
(* than was asked for.                                                        *)
THEOREM WhatIsShownIsThere == ReadSpec => []ShownIsThere
<1>1. ReadInv => ShownIsThere
  <2> SUFFICES ASSUME ReadInv, step = "done"
               PROVE  /\ \A i \in DOMAIN out : out[i] \in Expected \/ Unsure(out[i].path)
                      /\ Cardinality({ out[i] : i \in DOMAIN out }) = Len(out)
                      /\ Len(out) <= Most
                      /\ call.tool = "summary" => Len(out) <= MaxImportantDirs /\ \A i \in DOMAIN out : out[i].isDir
    BY DEF ShownIsThere
  <2>1. Distinct(out) /\ Len(out) <= Most /\ \A e \in Range(out) : Right(e)
    BY DEF ReadInv, Shows
  <2>2. Range(out) = { out[i] : i \in DOMAIN out }
    BY DEF Range
  <2>3. Cardinality(Range(out)) = Len(out)
    BY <2>1, DistinctIs
  <2>4. call.tool = "summary" => Len(out) <= MaxImportantDirs /\ \A i \in DOMAIN out : out[i].isDir
    BY <2>2 DEF ReadInv, ShortList
  <2> QED BY <2>1, <2>2, <2>3, <2>4 DEF Right
<1> QED BY <1>1, ReadInvHolds, PTL
=============================================================================
