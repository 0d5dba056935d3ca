---------------------------- MODULE WorkspaceRead ----------------------------
(***************************************************************************)
(* The tools that read the workspace: list_files, search_text, read_file   *)
(* and get_workspace_summary.  Each walks a tree that the user edits       *)
(* meanwhile: a directory is read in one step, its children are looked at  *)
(* one at a time, and each of them may be gone or be another by then.      *)
(*                                                                         *)
(* One call is made.  A line of a file is "hit" if it holds the text that  *)
(* is searched for; a "binary" node is a file with a NUL byte (the walks   *)
(* pass over a file that is too large in the same place).  Of the summary  *)
(* it is its list of directories that is modelled.                         *)
(* A definition named Slip... is the one it precedes with a mistake in it. *)
(***************************************************************************)
EXTENDS IgnoreRules, Integers, FiniteSets

CONSTANTS
  NamesInOrder,   \* the names of files and directories, sorted
  Places,         \* where there may be something
  PlacesInOrder,  \* the same, as their strings are sorted
  ReadScenarios,  \* what ReadInit chooses from: a tree, the lines of its .gitignore,
                  \* a call (its defaults filled in), and how often the user edits
  Contents,       \* what the user writes to a file
  MaxListLimit,       \* maxListLimit and DefaultMaxEntries, which are equal
  MaxSearchLimit,     \* maxSearchLimit
  MaxReadLineCount,   \* maxReadLineCount
  SnapshotEntries,    \* DefaultSnapshotEntries
  SnapshotDepth,      \* DefaultSnapshotDepth
  MaxImportantDirs    \* maxImportantDirs

None == [is |-> "none", lines |-> <<>>]
Directory == [is |-> "dir", lines |-> <<>>]
Binary == [is |-> "binary", lines |-> <<>>]
File(lines) == [is |-> "file", lines |-> lines]

(* A line of a file that is searched for, and any other *)
Lines == Seq({"hit", "miss"})
IsNode(node) ==
  \/ node \in {None, Directory, Binary}
  \/ node = File(node.lines) /\ node.lines \in Lines

(* What there is, is in a directory. *)
IsWorkspace(nodes) ==
  /\ DOMAIN nodes = Places
  /\ \A p \in Places : /\ IsNode(nodes[p])
                       /\ nodes[p] # None => \A q \in Prefixes(p) \ {p} : nodes[q] = Directory

FileNames == { NamesInOrder[i] : i \in 1 .. Len(NamesInOrder) }

ASSUME WorkspaceReadAssumption ==
  /\ NamesInOrder \in Seq(FileNames)
  /\ \A i, j \in 1 .. Len(NamesInOrder) : NamesInOrder[i] = NamesInOrder[j] => i = j
  /\ \A p \in Places : p \in Seq(FileNames) \ {<<>>} /\ Prefixes(p) \subseteq Places
  /\ PlacesInOrder \in Seq(Places)
  /\ \A p \in Places : \E i \in 1 .. Len(PlacesInOrder) : PlacesInOrder[i] = p
  /\ \A i, j \in 1 .. Len(PlacesInOrder) : PlacesInOrder[i] = PlacesInOrder[j] => i = j
  /\ Contents \subseteq Lines
  /\ {MaxListLimit, MaxSearchLimit, MaxReadLineCount, SnapshotEntries, MaxImportantDirs} \subseteq Nat \ {0}
  /\ SnapshotDepth \in Nat

ASSUME ReadScenarioAssumption ==
  \A s \in ReadScenarios :
    /\ IsWorkspace(s.tree)
    /\ Len(s.lines) \in Nat /\ DOMAIN s.lines = 1 .. Len(s.lines)
    /\ s.call.path \in Places \cup {<<>>}
    /\ CASE s.call.tool = "list"    -> s.call.depth \in Int /\ s.call.limit \in Int
         [] s.call.tool = "search"  -> s.call.limit \in Int
         [] s.call.tool = "read"    -> s.call.from \in Int /\ s.call.to \in Int
         [] OTHER                   -> s.call.tool = "summary"

VARIABLES
  tree,       \* tree[p]: what is at p
  call,       \* the input of the call
  step,       \* "start", "walk", "done" or "failed"
  rules,      \* the rules the call goes by
  todo,       \* what the walk still has to do, the next first
  look,       \* list_files: the children still to be looked at
  kept,       \* list_files: those of the directory that are to be listed
  out,        \* what was found, and in the end what the result shows of it
  truncated,  \* the flag of the result, which the summary's has not
  cut,        \* history: why the walk of the summary ended, which its result
              \* does not say: "no" reason, an "error", or the "limit"
  touched,    \* history: the paths edited since the call began
  editsLeft   \* how often the user will still edit the tree

readVars == <<tree, call, step, rules, todo, look, kept, out, truncated, cut, touched, editsLeft>>
walk == <<call, rules, cut, touched, editsLeft, tree>>

At(p) == IF p = <<>> THEN Directory ELSE tree[p]
Below(p) == { q \in Places : Len(q) > Len(p) /\ Front(q, Len(p)) = p }

(* The summary makes a workspace of its own of the path it is given *)
Base == IF call.tool = "summary" THEN call.path ELSE <<>>
Rel(p) == SubSeq(p, Len(Base) + 1, Len(p))
Hidden(p, isDir) == Ignored(rules, Rel(p), isDir)

ReadInit ==
  /\ \E s \in ReadScenarios :
       /\ tree = s.tree /\ call = s.call /\ editsLeft = s.edits
       /\ rules = NewIgnoreMatcher(s.lines)
  /\ step = "start"
  /\ todo = <<>> /\ look = <<>> /\ kept = <<>> /\ out = <<>>
  /\ truncated = FALSE /\ cut = "no"
  /\ touched = {}

-----------------------------------------------------------------------------


Min2(a, b) == IF a <= b THEN a ELSE b

(* normalize of the tools' inputs *)
Refused ==
  CASE call.tool = "list"   -> call.depth < 0 \/ call.limit <= 0
    [] call.tool = "search" -> call.limit <= 0
    [] call.tool = "read"   -> call.path = <<>> \/ call.from < 1 \/ call.to < call.from
    [] OTHER                -> FALSE
ListLimit == Min2(call.limit, MaxListLimit)
SearchLimit == Min2(call.limit, MaxSearchLimit)
EndLine == Min2(call.to, call.from + MaxReadLineCount - 1)

Ends(how) == step' = how /\ todo' = <<>> /\ look' = <<>> /\ kept' = <<>>
Fail == Ends("failed") /\ out' = <<>> /\ UNCHANGED <<truncated, walk>>

Entry(p, isDir) == [path |-> p, isDir |-> isDir]

(* detectImportantDirectories: the first of the directories, and no word of others *)
ImportantDirectories(entries) ==
  LET dirs == InOrder(Len(PlacesInOrder), { i \in DOMAIN PlacesInOrder :
                \E j \in DOMAIN entries : entries[j] = Entry(PlacesInOrder[i], TRUE) })
  IN [i \in 1 .. Min2(Len(dirs), MaxImportantDirs) |-> Entry(PlacesInOrder[dirs[i]], TRUE)]

(* The end of buildWorkspaceSummary, which forgets that a snapshot is truncated *)
Summarize(entries, why) ==
  /\ Ends("done") /\ out' = ImportantDirectories(entries) /\ cut' = why
  /\ UNCHANGED <<truncated, call, rules, touched, editsLeft, tree>>

(* buildWorkspaceSummary goes on without a snapshot when there is an error,  *)
(* and Snapshot itself ends with what it has when something is gone          *)
Break(gone) ==
  IF call.tool # "summary" THEN Fail
  ELSE Summarize(IF gone THEN out ELSE <<>>, "error")

Found(result, more) ==
  /\ Ends("done") /\ out' = result /\ truncated' = more
  /\ UNCHANGED walk

Visit(p, isDir, depth) == [do |-> "visit", path |-> p, isDir |-> isDir, depth |-> depth]
Read(p, depth)         == [do |-> "read", path |-> p, isDir |-> TRUE, depth |-> depth]
Walk(first) ==
  /\ step' = "walk" /\ todo' = <<Read(first, 0)>>
  /\ UNCHANGED <<look, kept, out, truncated, call, cut, touched, editsLeft, tree>>

(* searchFile: the lines that match, as long as there is room for them *)
SlipMaxMatches == SearchLimit
MaxMatches == SearchLimit + 1
Searched(p, room) ==
  LET lines == At(p).lines
      hits  == InOrder(Len(lines), { i \in DOMAIN lines : lines[i] = "hit" /\ ~Hidden(p, FALSE) })
  IN [i \in 1 .. Min2(Len(hits), room) |-> [path |-> p, line |-> hits[i]]]

SearchDone(matches) ==
  Found(SubSeq(matches, 1, Min2(Len(matches), SearchLimit)), Len(matches) > SearchLimit)

(* readLineRange: the lines are counted until there is one too many *)
ReadLineRange(lines, from, to) ==
  LET asked == InOrder(Len(lines), { i \in DOMAIN lines : from <= i /\ i <= to })
  IN [raw  |-> [i \in DOMAIN asked |-> [path |-> call.path, line |-> asked[i]]],
      more |-> Len(lines) > to]

-----------------------------------------------------------------------------

(* ListFilesTool.Execute up to the walk: a file is listed, hidden or not *)
StartList ==
  /\ step = "start" /\ call.tool = "list"
  /\ IF Refused \/ At(call.path) = None THEN Fail
     ELSE IF At(call.path) = Directory THEN Walk(call.path) /\ UNCHANGED rules
     ELSE Found(<<Entry(call.path, FALSE)>>, FALSE)

StartSearch ==
  /\ step = "start" /\ call.tool = "search"
  /\ IF Refused \/ At(call.path) = None THEN Fail
     ELSE IF Hidden(call.path, At(call.path) = Directory) THEN SearchDone(<<>>)
     ELSE IF At(call.path) = Directory THEN Walk(call.path) /\ UNCHANGED rules
     ELSE SearchDone(Searched(call.path, MaxMatches))

(* The workspace of a directory below the root reads the .gitignore there, *)
(* of which the model has none                                             *)
StartSummary ==
  /\ step = "start" /\ call.tool = "summary"
  /\ IF At(call.path) # Directory THEN Fail
     ELSE Walk(call.path) /\ rules' = IF call.path = <<>> THEN rules ELSE <<>>

(* read_file does not ask what is ignored *)
Readable == At(call.path).is = "file"
StartRead ==
  /\ step = "start" /\ call.tool = "read"
  /\ IF Refused \/ ~Readable THEN Fail
     ELSE LET r == ReadLineRange(At(call.path).lines, call.from, EndLine) IN Found(r.raw, r.more)

(* os.ReadDir: what is in the directory now, sorted *)
Children(d, depth) ==
  LET child(i) == Append(d, NamesInOrder[i])
      there == InOrder(Len(NamesInOrder),
        { i \in DOMAIN NamesInOrder : child(i) \in Places /\ tree[child(i)] # None })
  IN [i \in DOMAIN there |-> Visit(child(there[i]), tree[child(there[i])] = Directory, depth)]

(* LocalWorkspace.List of one directory, and what WalkDir does with one: the *)
(* search and the summary have looked at the directory itself before         *)
ReadDir ==
  /\ step = "walk" /\ look = <<>> /\ todo # <<>> /\ todo[1].do = "read"
  /\ LET d == todo[1].path  depth == todo[1].depth IN
     IF call.tool = "list" /\ depth >= call.depth
     THEN /\ todo' = Tail(todo)
          /\ UNCHANGED <<step, look, kept, out, truncated, walk>>
     ELSE IF At(d) # Directory THEN Break(At(d) = None)
     ELSE LET found == Children(d, depth + 1) IN
          /\ IF call.tool # "list" THEN todo' = found \o Tail(todo) /\ UNCHANGED look
             ELSE todo' = Tail(todo) /\ look' = IF Hidden(d, TRUE) THEN <<>> ELSE found
          /\ UNCHANGED <<step, kept, out, truncated, walk>>

(* appendListEntry: an error if the file is gone, or a directory by now *)
Listed(c) ==
  IF Hidden(c.path, c.isDir) THEN "skip"
  ELSE IF At(c.path) = None \/ (~c.isDir /\ At(c.path) = Directory) THEN "fail"
  ELSE IF ~c.isDir /\ At(c.path) = Binary THEN "skip"
  ELSE "keep"

Inspect ==
  /\ step = "walk" /\ look # <<>>
  /\ LET c == look[1]
         list == IF Listed(c) = "keep" THEN Append(kept, c) ELSE kept
         rest == IF Len(list) >= MaxListLimit THEN <<>> ELSE Tail(look)
     IN IF Listed(c) = "fail" THEN Fail
        ELSE /\ look' = rest
             /\ IF rest = <<>> THEN todo' = list \o todo /\ kept' = <<>>
                ELSE kept' = list /\ UNCHANGED todo
             /\ UNCHANGED <<step, out, truncated, walk>>

(* listWorkspaceEntries: the next entry, and what is below it *)
IsFull == Len(out) >= ListLimit
EmitEntry ==
  /\ step = "walk" /\ call.tool = "list" /\ look = <<>> /\ todo # <<>> /\ todo[1].do = "visit"
  /\ LET c == todo[1] IN
     IF IsFull THEN Found(out, TRUE)
     ELSE /\ out' = Append(out, Entry(c.path, c.isDir))
          /\ todo' = IF c.isDir THEN <<Read(c.path, c.depth)>> \o Tail(todo) ELSE Tail(todo)
          /\ UNCHANGED <<step, look, kept, truncated, walk>>

(* Search's function for WalkDir *)
VisitSearch ==
  /\ step = "walk" /\ call.tool = "search" /\ todo # <<>> /\ todo[1].do = "visit"
  /\ LET c == todo[1]
         matches == out \o Searched(c.path, MaxMatches - Len(out))
     IN IF c.isDir
        THEN /\ todo' = IF Hidden(c.path, TRUE) THEN Tail(todo)
                        ELSE <<Read(c.path, c.depth)>> \o Tail(todo)
             /\ UNCHANGED <<step, look, kept, out, truncated, walk>>
        ELSE IF At(c.path) = None THEN Fail
        ELSE IF Len(matches) >= MaxMatches THEN SearchDone(matches)
        ELSE /\ out' = matches /\ todo' = Tail(todo)
             /\ UNCHANGED <<step, look, kept, truncated, walk>>

(* Snapshot's function for WalkDir *)
VisitSummary ==
  /\ step = "walk" /\ call.tool = "summary" /\ todo # <<>> /\ todo[1].do = "visit"
  /\ LET c == todo[1]
         skip == /\ todo' = Tail(todo)
                 /\ UNCHANGED <<step, look, kept, out, truncated, walk>>
     IN IF Len(Rel(c.path)) > SnapshotDepth \/ Hidden(c.path, c.isDir) THEN skip
        ELSE IF At(c.path) = None THEN Break(TRUE)
        ELSE IF ~c.isDir /\ At(c.path) = Directory THEN Break(FALSE)
        ELSE IF ~c.isDir /\ At(c.path) = Binary THEN skip
        ELSE IF Len(out) >= SnapshotEntries THEN Summarize(out, "limit")
        ELSE /\ out' = Append(out, Entry(c.path, c.isDir))
             /\ todo' = IF c.isDir THEN <<Read(c.path, c.depth)>> \o Tail(todo) ELSE Tail(todo)
             /\ UNCHANGED <<step, look, kept, truncated, walk>>

Finish ==
  /\ step = "walk" /\ todo = <<>> /\ look = <<>>
  /\ CASE call.tool = "search"  -> SearchDone(out)
       [] call.tool = "summary" -> Summarize(out, "no")
       [] OTHER                 -> Found(out, FALSE)

(* The context of the call is done *)
CancelRead == step = "walk" /\ Break(FALSE)

(* The user removes what is at p or puts something there *)
EditTree(p, node) ==
  /\ step = "walk" /\ editsLeft > 0
  /\ At(Front(p, Len(p) - 1)) = Directory
  /\ tree[p] # node
  /\ tree' = [q \in Places |-> IF q = p THEN node ELSE IF q \in Below(p) THEN None ELSE tree[q]]
  /\ touched' = touched \cup {p} \cup Below(p)
  /\ editsLeft' = editsLeft - 1
  /\ UNCHANGED <<call, step, rules, todo, look, kept, out, truncated, cut>>

ReadNext ==
  \/ StartList \/ StartSearch \/ StartSummary \/ StartRead
  \/ ReadDir \/ Inspect \/ EmitEntry \/ VisitSearch \/ VisitSummary \/ Finish \/ CancelRead
  \/ \E p \in Places, node \in {None, Directory, Binary} \cup { File(lines) : lines \in Contents } : EditTree(p, node)

ReadSpec == ReadInit /\ [][ReadNext]_readVars

-----------------------------------------------------------------------------

Most == CASE call.tool = "list" -> ListLimit [] call.tool = "search" -> SearchLimit
          [] call.tool = "read" -> MaxReadLineCount [] OTHER -> SnapshotEntries

(* What a tool is to find in the tree as it is, by git's reading of the      *)
(* .gitignore of the call's workspace, and by the defaults.  A directory with *)
(* the name of a file that is ignored by default is hidden, but not from a    *)
(* call that starts below it.                                                 *)
Visible(p) ==
  LET q == Rel(p) IN
  q = <<>> \/ ( /\ ~GitHides(rules, q, At(p) = Directory)
               /\ \A a \in Prefixes(q) : Len(a) >= Len(Rel(call.path)) => ~DefaultIgnored(a) )
Within(p, depth) == p \in Below(call.path) /\ Len(p) - Len(call.path) <= depth
Listable(p) == At(p) \notin {None, Binary}
Entries(depth) ==
  { Entry(p, At(p) = Directory) : p \in { q \in Places : Within(q, depth) /\ Listable(q) /\ Visible(q) } }
LinesFound ==
  UNION { { [path |-> p, line |-> i] : i \in { j \in DOMAIN At(p).lines : At(p).lines[j] = "hit" } } :
          p \in { q \in Places : q \in Below(call.path) \cup {call.path} /\ Visible(q) } }
Expected ==
  CASE call.tool = "list" ->
         IF At(call.path) \notin {None, Directory} THEN {Entry(call.path, FALSE)} ELSE Entries(call.depth)
    [] call.tool = "summary" -> Entries(SnapshotDepth)
    [] call.tool = "search" -> LinesFound
    [] OTHER ->
         { [path |-> call.path, line |-> i] :
             i \in { j \in DOMAIN At(call.path).lines : call.from <= j /\ j <= EndLine } }

(* Paths nothing is said of: those the user edited, and those below one that *)
(* a line with ! names, which the code lets in and git does not              *)
Unsure(p) ==
  \/ p \in touched
  \/ \E i \in DOMAIN rules, q \in Prefixes(Rel(p)) :
       /\ rules[i].negated /\ (q # Rel(p) \/ p = call.path)
       /\ Names(rules[i], q, q # Rel(p) \/ At(p) = Directory)

(* The summary ends its walk at an error, and at its limit if there are more *)
(* entries than that; and it keeps the first directories only.               *)
LeavesOut ==
  \/ cut = "error"
  \/ cut = "limit" /\ (Cardinality(Expected) > SnapshotEntries \/ \E p \in Places : Unsure(p))
  \/ Len(out) = MaxImportantDirs

(* A result that does not say it is truncated holds all there is to show,   *)
(* whatever the user edits elsewhere during the walk.  Two exceptions:      *)
(* list_files with its largest limit, at which List stops on its own; and   *)
(* the summary, which shows directories alone and cannot say that some are  *)
(* missing, but leaves one out only for one of three reasons: its walk ended *)
(* with an error, there are more entries than it looks at, or it shows as   *)
(* many directories as it may.                                              *)
NothingHidden ==
  step = "done" /\ ~truncated =>
    \A e \in Expected :
      \/ \E i \in DOMAIN out : out[i] = e
      \/ Unsure(e.path)
      \/ call.tool = "list" /\ ListLimit = MaxListLimit
      \/ call.tool = "summary" /\ (~e.isDir \/ LeavesOut)

(* A result, truncated or not, holds nothing that is not to be shown: what is *)
(* ignored stays ignored for each tool, from whatever directory it starts, a *)
(* line keeps its number, nothing is shown twice, and no more than was asked; *)
(* in the summary there are directories only.                                *)
ShownIsThere ==
  step = "done" =>
    /\ \A i \in DOMAIN out : out[i] \in Expected \/ Unsure(out[i].path)
    /\ Cardinality({ out[i] : i \in DOMAIN out }) = Len(out)
    /\ Len(out) <= Most
    /\ call.tool = "summary" => Len(out) <= MaxImportantDirs /\ \A i \in DOMAIN out : out[i].isDir
=============================================================================
