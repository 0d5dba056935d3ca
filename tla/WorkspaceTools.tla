---------------------------- MODULE WorkspaceTools ----------------------------
(***************************************************************************)
(* The tools apply_patch and write_file, from the request of a task to the *)
(* event tool.completed or tool.failed that answers it: tools.Adapter,     *)
(* tool.Manage.Execute with its policy, and the tools themselves.  They    *)
(* work on a tree of files other tasks and the user change meanwhile.      *)
(*                                                                         *)
(* A file is read at once and written at once.  What a path escapes to (a  *)
(* link, "..") is what it is in Outside for.  The input is an object of    *)
(* JSON that nobody holds against the tool's schema; its keys dry_run and  *)
(* path, which the policy and the tool each read in a way of their own,    *)
(* are modelled key by key, those that only the tool reads by their value. *)
(* A definition named Slip... is the one it precedes with a mistake in it. *)
(***************************************************************************)
EXTENDS ToolPolicy, UnifiedPatch

CONSTANTS
  Calls,      \* tool calls, each of a task of its own
  Paths,      \* clean paths relative to the root of the workspace
  Above,      \* Above[p]: the directories p is in, the root excepted
  Git,        \* the paths with a segment ".git"
  Outside,    \* the paths Resolve refuses
  Scenarios,  \* what the calls ask, in which mode, on which tree
  Typed,      \* what the user may save as a file
  MaxEdits    \* how often the user changes the tree

ASSUME WorkspaceAssumption ==
  /\ MaxEdits \in Nat
  /\ NoPath \notin Paths
  /\ Above \in [Paths -> SUBSET Paths]
  /\ \A p \in Paths :
       /\ p \notin Above[p]
       /\ \A q \in Above[p] :
            /\ Above[q] \subseteq Above[p]
            /\ q \in Git => p \in Git
            /\ q \in Outside => p \in Outside

(* What may be at a path; a large file is one a patch refuses for its size *)
Node(kind, text) == [kind |-> kind, text |-> text]
Absent == Node("absent", <<>>)
Dir    == Node("dir", <<>>)
Text(t) == Node("text", t)
IsFile(node) == node.kind \in {"text", "binary", "large"}

(* Files are in directories, and so are directories. *)
IsTree(tree) ==
  /\ DOMAIN tree = Paths
  /\ \A p \in Paths :
       /\ tree[p] \in {Absent, Dir} \/ IsFile(tree[p])
       /\ tree[p] # Absent => \A q \in Above[p] : tree[q] = Dir

(* A key of the input: spelled as the schema has it or in other case, and    *)
(* with a value of the type of the schema, with null, or with another value. *)
Key(exact, kind, value) == [exact |-> exact, kind |-> kind, value |-> value]
IsKey(key, values) ==
  /\ key.exact \in BOOLEAN /\ key.kind \in {"value", "null", "other"}
  /\ key.kind = "value" => key.value \in values

ASSUME ScenarioAssumption ==
  \A s \in Scenarios :
    /\ IsTree(s.fs)
    /\ \A c \in Calls :
         LET req == s.req[c] IN
         /\ req.tool \notin ReadTools
         /\ req.tool \in WriteTools =>
              /\ \A i \in DOMAIN req.dryRun : IsKey(req.dryRun[i], BOOLEAN)
              /\ \A i \in DOMAIN req.path : IsKey(req.path[i], Paths \cup {NoPath})

VARIABLES
  fs,         \* the tree: fs[p] is what is at p
  scene,      \* the scenario: its mode and its requests
  pc,         \* pc[c]: how far call c is
  confirmed,  \* confirmed[c]: a "y" was read for c
  cancelled,  \* cancelled[c]: its context was cancelled
  files,      \* files[c]: the files its input names
  changes,    \* changes[c]: those of files[c] that are prepared
  written,    \* written[c]: how many of changes[c] are written
  edits,      \* how often the user changed the tree
  changed,    \* history: every change a call made
  disturbed   \* history: the calls whose targets were changed under their hands

ghost == <<changed, disturbed>>
vars == <<fs, scene, pc, confirmed, cancelled, files, changes, written, edits, ghost>>

Req(c) == scene.req[c]
AtWork == {"preparing", "writing"}

Init ==
  /\ scene \in Scenarios
  /\ fs = scene.fs
  /\ pc = [c \in Calls |-> "idle"]
  /\ confirmed = [c \in Calls |-> FALSE]
  /\ cancelled = [c \in Calls |-> FALSE]
  /\ files = [c \in Calls |-> <<>>]
  /\ changes = [c \in Calls |-> <<>>]
  /\ written = [c \in Calls |-> 0]
  /\ edits = 0
  /\ changed = {} /\ disturbed = {}

Go(c, from, to) == pc[c] = from /\ pc' = [pc EXCEPT ![c] = to]

-----------------------------------------------------------------------------

(* Of a key given several times the last one counts. *)
Latest(indices) == CHOOSE i \in indices : \A j \in indices : j <= i
Exact(keys) == { i \in DOMAIN keys : keys[i].exact }

(* What the policy reads: the keys of a map, which are the exact ones.  It     *)
(* goes on with the default if there is none, or none of the type; null leaves *)
(* a variable as it was declared.                                              *)
InputBoolField(keys) ==
  LET last == keys[Latest(Exact(keys))]
  IN Exact(keys) = {} \/ last.kind = "other" \/ (last.kind = "value" /\ last.value)
InputStringField(keys) ==
  LET last == keys[Latest(Exact(keys))]
  IN IF Exact(keys) = {} \/ last.kind # "value" THEN NoPath ELSE last.value

(* What the tool reads: the fields of a struct, which take a key in any case.  *)
(* A value of another type is an error; null makes a pointer nil, which stands *)
(* for a dry run, and leaves a string as it is.                                *)
Decodes(req) ==
  /\ \A i \in DOMAIN req.dryRun : req.dryRun[i].kind # "other"
  /\ \A i \in DOMAIN req.path : req.path[i].kind # "other"
DryRun(req) ==
  LET last == req.dryRun[Latest(DOMAIN req.dryRun)]
  IN DOMAIN req.dryRun = {} \/ last.kind = "null" \/ last.value
FilePath(req) ==
  LET named == { i \in DOMAIN req.path : req.path[i].kind = "value" }
  IN IF named = {} THEN NoPath ELSE req.path[Latest(named)].value

(* The files a request names: those of the patch, or the one to write; none *)
(* if the input or the patch is refused                                     *)
FilesOf(req) ==
  IF ~Decodes(req) THEN <<>>
  ELSE IF req.tool = "apply_patch" THEN ParseUnifiedPatch(req.patch)
  ELSE IF FilePath(req) = NoPath THEN <<>>
  ELSE <<[old |-> FilePath(req), new |-> FilePath(req), hunks |-> <<>>]>>
Targets(fileSeq) == { TargetPath(fileSeq[i]) : i \in DOMAIN fileSeq }

(* PolicyRequest of the two tools; of an input or a patch that is refused   *)
(* later it only says whether it is a dry run                               *)
PolicyRequest(req) ==
  LET patches == req.tool = "apply_patch"
      named   == FilesOf(req)
      deletes == patches /\ \E i \in DOMAIN named : Operation(named[i]) = "delete"
      paths   == (IF patches THEN Targets(named) ELSE {InputStringField(req.path)}) \ {NoPath}
      dryRun  == InputBoolField(req.dryRun)
  IN [tool    |-> req.tool,
      risk    |-> IF deletes THEN "delete" ELSE "write",
      op      |-> IF deletes THEN "delete"
                  ELSE IF paths \cap HighRisk # {} /\ (patches \/ ~dryRun) THEN "high-risk write"
                  ELSE req.tool,
      paths   |-> paths,
      command |-> FALSE,
      dryRun  |-> dryRun]

(* The tools every agent has; those that only read are another module's *)
Registered == {"apply_patch", "ask_user", "list_files", "read_file", "search_text",
               "get_workspace_summary", "write_file"}

(* ExecuteEffect and Manage.Execute up to the decision of the policy.  No    *)
(* agent turns asynchronous approval on: who has to ask does so at once, on  *)
(* the terminal.  A tool that is not registered fails.                       *)
Execute(c) ==
  LET decision == Check(scene.mode, PolicyRequest(Req(c)))
  IN /\ Req(c).tool # "none"
     /\ Go(c, "idle", IF Req(c).tool \notin Registered \/ decision = "deny" THEN "failed"
                      ELSE IF decision = "ask" THEN "asked" ELSE "ready")
     /\ UNCHANGED <<fs, scene, confirmed, cancelled, files, changes, written, edits, ghost>>

(* confirmPolicyDecision reads a line: yes, anything else, or an error *)
Confirm(c) ==
  /\ Go(c, "asked", "ready")
  /\ confirmed' = [confirmed EXCEPT ![c] = TRUE]
  /\ UNCHANGED <<fs, scene, cancelled, files, changes, written, edits, ghost>>
Decline(c) ==
  /\ Go(c, "asked", "failed")
  /\ UNCHANGED <<fs, scene, confirmed, cancelled, files, changes, written, edits, ghost>>

(* The first part of the tool's Execute: its context, its input, the patch *)
Begin(c) ==
  /\ Go(c, "ready", IF cancelled[c] \/ FilesOf(Req(c)) = <<>> THEN "failed" ELSE "preparing")
  /\ files' = [files EXCEPT ![c] = FilesOf(Req(c))]
  /\ UNCHANGED <<fs, scene, confirmed, cancelled, changes, written, edits, ghost>>

(* Workspace.Resolve looks for what exists of the path, which fails below a file *)
Resolves(p) == p \in Paths \ Outside /\ \A q \in Above[p] : ~IsFile(fs[q])

(* resolveWritablePath *)
Writable(req, p) == Resolves(p) /\ p \notin Git /\ (p \in HighRisk => req.confirm)

(* What becomes of a file that is patched *)
Patched(file) ==
  LET old == SplitFileText(fs[TargetPath(file)].text)
      new == ApplyUnifiedHunks(old.lines, file.hunks)
  IN [ok   |-> new.ok,
      text |-> JoinFileText(new.lines,
                 old.finalNewline \/ (Operation(file) = "add" /\ new.lines # <<>>), old.eol)]

(* What preparePatchChanges and prepareSinglePatchChange let pass, given the paths they have seen *)
SlipPatchable(req, file, seen) ==
  LET p == TargetPath(file) IN
  /\ file.old = NoPath \/ file.new = NoPath \/ file.old = file.new
  /\ Operation(file) = "delete" => req.allowDelete
  /\ Writable(req, p)
  /\ Operation(file) = "add" => fs[p] = Absent
  /\ Operation(file) # "add" => fs[p].kind = "text"
  /\ Patched(file).ok
  /\ Operation(file) = "delete" => ApplyUnifiedHunks(SplitFileText(fs[p].text).lines, file.hunks).lines = <<>>
Patchable(req, file, seen) ==
  LET p == TargetPath(file) IN
  /\ file.old = NoPath \/ file.new = NoPath \/ file.old = file.new
  /\ Operation(file) = "delete" => req.allowDelete
  /\ Writable(req, p)
  /\ p \notin seen
  /\ Operation(file) = "add" => fs[p] = Absent
  /\ Operation(file) # "add" => fs[p].kind = "text"
  /\ Patched(file).ok
  /\ Operation(file) = "delete" => ApplyUnifiedHunks(SplitFileText(fs[p].text).lines, file.hunks).lines = <<>>

PatchChange(file) ==
  [path |-> TargetPath(file), op |-> Operation(file),
   text |-> IF Operation(file) = "delete" THEN <<>> ELSE Patched(file).text]

(* resolveWritablePath and inspectWritableTarget of write_file *)
Replaceable(req) ==
  /\ Writable(req, FilePath(req))
  /\ fs[FilePath(req)].kind \in {"absent", "text", "large"}
  /\ fs[FilePath(req)] # Absent => req.overwrite

(* One more file is looked at, by a patch with a look at its context.  After *)
(* the last one a dry run is done.                                           *)
Prepare(c) ==
  LET req     == Req(c)
      next    == Len(changes[c]) + 1
      file    == files[c][next]
      seen    == { changes[c][i].path : i \in DOMAIN changes[c] }
      patches == req.tool = "apply_patch"
      fine    == IF patches
                 THEN ~cancelled[c] /\ Patchable(req, file, seen)
                 ELSE Replaceable(req)
      then    == IF ~fine THEN "failed"
                 ELSE IF next < Len(files[c]) THEN "preparing"
                 ELSE IF DryRun(req) THEN "completed" ELSE "writing"
  IN /\ Go(c, "preparing", then)
     /\ next \in DOMAIN files[c]
     /\ changes' = IF ~fine THEN changes
                   ELSE [changes EXCEPT ![c] = Append(@,
                          IF patches THEN PatchChange(file)
                          ELSE [path |-> FilePath(req), op |-> "write", text |-> req.text])]
     /\ UNCHANGED <<fs, scene, confirmed, cancelled, files, written, edits, ghost>>

-----------------------------------------------------------------------------

(* A target of d is another one than it was, or is below a file now *)
Hits(d) == \E p \in Targets(files[d]) \cap Paths :
             \/ fs'[p] # fs[p]
             \/ \E q \in Above[p] : fs'[q] # fs[q] /\ IsFile(fs'[q])
Notice(others) ==
  disturbed' = disturbed \cup { d \in others : pc[d] \in AtWork /\ Hits(d) }

(* os.MkdirAll for the directories of p, then os.WriteFile *)
CanWrite(p) == fs[p] # Dir /\ \A q \in Above[p] : ~IsFile(fs[q])
WithFile(p, text) == [q \in Paths |-> IF q = p THEN Text(text) ELSE IF q \in Above[p] THEN Dir ELSE fs[q]]

(* os.Remove takes a file or an empty directory *)
CanRemove(p) == fs[p] # Absent /\ \A q \in Paths : p \in Above[q] => fs[q] = Absent
Without(p) == [fs EXCEPT ![p] = Absent]

(* writePatchChanges, or the end of write_file: the context, then one change. *)
(* What was written stays when a later change fails.                          *)
Write(c) ==
  LET change  == changes[c][written[c] + 1]
      removes == change.op = "delete"
      fine    == ~cancelled[c] /\ IF removes THEN CanRemove(change.path) ELSE CanWrite(change.path)
      last    == written[c] + 1 = Len(changes[c])
  IN /\ Go(c, "writing", IF ~fine THEN "failed" ELSE IF last THEN "completed" ELSE "writing")
     /\ fs' = IF ~fine THEN fs
              ELSE IF removes THEN Without(change.path)
              ELSE WithFile(change.path, change.text)
     /\ written' = [written EXCEPT ![c] = IF fine THEN @ + 1 ELSE @]
     /\ changed' = changed \cup
          { [call |-> c, path |-> p, was |-> fs[p], is |-> fs'[p]] : p \in { q \in Paths : fs'[q] # fs[q] } }
     /\ Notice(Calls \ {c})
     /\ UNCHANGED <<scene, confirmed, cancelled, files, changes, edits>>

(* The task is cancelled or the effect's time is up *)
Cancel(c) ==
  /\ pc[c] \in {"asked", "ready"} \cup AtWork /\ ~cancelled[c]
  /\ cancelled' = [cancelled EXCEPT ![c] = TRUE]
  /\ UNCHANGED <<fs, scene, pc, confirmed, files, changes, written, edits, ghost>>

(* The user saves or removes a file with a program of their own *)
Edit(p) ==
  /\ edits < MaxEdits /\ edits' = edits + 1
  /\ \/ \E t \in Typed : CanWrite(p) /\ fs' = WithFile(p, t)
     \/ CanRemove(p) /\ fs' = Without(p)
  /\ Notice(Calls)
  /\ UNCHANGED <<scene, pc, confirmed, cancelled, files, changes, written, changed>>

Next ==
  \/ \E c \in Calls : Execute(c) \/ Confirm(c) \/ Decline(c) \/ Begin(c) \/ Prepare(c) \/ Write(c)
  \/ \E c \in Calls : Cancel(c)
  \/ \E p \in Paths : Edit(p)

Spec == Init /\ [][Next]_vars

-----------------------------------------------------------------------------

(* A call that failed has changed nothing: whatever can be wrong with a patch *)
(* of several files is found before the first of them is written.  It may     *)
(* have if its task was cancelled between two files, if a target was changed  *)
(* after it was looked at, or if one target is to be a directory of another,  *)
(* which preparePatchChanges does not notice.                                 *)
Nested(c) == \E p, q \in Targets(files[c]) \cap Paths : p \in Above[q]
FailureChangesNothing ==
  \A c \in Calls :
    pc[c] = "failed" /\ ~cancelled[c] /\ c \notin disturbed /\ ~Nested(c)
      => \A h \in changed : h.call # c

(* A tool changes the tree only for a request that is no dry run to it; it   *)
(* removes a file, or touches a high-risk one, only when the request carries  *)
(* the flag for it, and write_file replaces an existing file on request only. *)
(* It does so in the modify mode only, and the user has said yes to a removal *)
(* or a high-risk path: but for an input the policy took for a dry run and    *)
(* the tool did not, and a high-risk path the policy read another one for.    *)
(* Policy and tool each hold a part of this, and each parse the input for     *)
(* themselves: the first by exact keys, the second in any case.               *)
TakenForDryRun(req) == InputBoolField(req.dryRun) /\ ~DryRun(req)
ReadsSamePath(req) == req.tool = "apply_patch" \/ InputStringField(req.path) = FilePath(req)
EveryChangeAuthorised ==
  \A h \in changed :
    LET req == Req(h.call)
        risky == h.is # Dir /\ h.path \in HighRisk
    IN /\ ~DryRun(req)
       /\ h.path \notin Git \cup Outside
       /\ h.is = Absent => req.allowDelete
       /\ risky => req.confirm
       /\ req.tool = "write_file" /\ h.was # Absent => req.overwrite \/ h.call \in disturbed
       /\ ~TakenForDryRun(req) =>
            /\ ParseMode(scene.mode) = "modify"
            /\ h.is = Absent => confirmed[h.call]
            /\ risky /\ ReadsSamePath(req) => confirmed[h.call]

(* "read-only mode blocks writes", as the reason of the policy's refusal says: *)
(* in the read mode no tool changes a file.                                    *)
ReadOnlyModeBlocksWrites == ParseMode(scene.mode) = "read" => changed = {}

(* A diff of the file as it is applies, and makes of it what its author had   *)
(* before them: the same lines, the file's line ends and its last newline.    *)
(* The one exception is a file that is emptied but not deleted: its last      *)
(* newline stays.                                                             *)
PatchSays ==
  \A c \in Calls : \A g \in scene.goal[c] :
    LET old   == SplitFileText(scene.fs[g.path].text)
        after == changes[c][1].text
        new   == SplitFileText(after)
    IN edits = 0 =>
       /\ pc[c] = "failed" => cancelled[c] \/ (g.to = <<>> /\ ~confirmed[c])
       /\ pc[c] \in {"writing", "completed"} =>
            /\ new.lines = IF g.to = <<>> /\ old.finalNewline /\ changes[c][1].op # "delete"
                           THEN <<"">> ELSE g.to
            /\ \A i \in DOMAIN after : i < Len(after) \/ old.finalNewline => after[i].end = old.eol
=============================================================================
