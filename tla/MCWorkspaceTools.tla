--------------------------- MODULE MCWorkspaceTools ---------------------------
(***************************************************************************)
(* WorkspaceTools for TLC: two calls with requests from a menu on a small  *)
(* tree, one call with every short spelling of the keys the policy reads,  *)
(* and one call with the diff of every short script on a file.             *)
(***************************************************************************)
EXTENDS WorkspaceTools, SequencesExt, FiniteSetsExt

CONSTANTS c1, c2, MaxScript

MCCalls == {c1, c2}
MCPaths == {"f", "d", "d/x", ".env", ".git/x", "../x"}
MCAbove == [p \in MCPaths |-> IF p = "d/x" THEN {"d"} ELSE {}]
MCHighRisk == {".env"}

(* Files *)
Lf(lines) == FileLines(lines, [i \in DOMAIN lines |-> "lf"])
Cut(lines) == FileLines(lines, [i \in DOMAIN lines |-> IF i = Len(lines) THEN "" ELSE "lf"])
Crlf(lines) == FileLines(lines, [i \in DOMAIN lines |-> "crlf"])
Mixed(lines) == FileLines(lines, [i \in DOMAIN lines |-> IF i = 1 THEN "crlf" ELSE "lf"])
MCTyped == {Lf(<<"y">>)}

(* Diffs.  A script keeps (" "), removes ("-") and adds ("+") lines; "-- a" *)
(* and "++ b" look like headers when they are removed or added.             *)
Step(k, t) == [k |-> k, t |-> t]
Steps == { Step(k, "x") : k \in {" ", "-", "+"} } \cup { Step(k, "-- a") : k \in {" ", "-"} }
         \cup { Step(k, "++ b") : k \in {" ", "+"} }
Scripts == { s \in BoundedSeq(Steps, MaxScript) : \E i \in DOMAIN s : s[i].k # " " }
Side(s, without) == LET kept == SelectSeq(s, LAMBDA l : l.k # without)
                    IN [i \in DOMAIN kept |-> kept[i].t]
Line(l) == CASE l.k = "-" /\ l.t = "-- a" -> OldPath("a", "-- a")
             [] l.k = "+" /\ l.t = "++ b" -> NewPath("b", "++ b")
             [] OTHER                     -> Plain(l.k, l.t)

(* The hunk of s[i..j], as diff numbers it: without lines it names the one before *)
Hunk(s, i, j) ==
  LET before(without) == Len(Side(SubSeq(s, 1, i - 1), without))
      count(without)  == Len(Side(SubSeq(s, i, j), without))
      from(without)   == before(without) + (IF count(without) = 0 THEN 0 ELSE 1)
  IN <<Header(from("+"), count("+"), from("-"), count("-"))>> \o [n \in 1..(j - i + 1) |-> Line(s[i + n - 1])]
Whole(s) == Hunk(s, 1, Len(s))
(* Without context: a hunk for each run of changes *)
Tight(s) ==
  LET change(i) == i \in DOMAIN s /\ s[i].k # " "
      first == { i \in DOMAIN s : change(i) /\ ~change(i - 1) }
      end(i) == CHOOSE j \in i..Len(s) : ~change(j + 1) /\ \A n \in i..j : change(n)
      firsts == SetToSortSeq(first, <)
  IN FlattenSeq([n \in DOMAIN firsts |-> Hunk(s, firsts[n], end(firsts[n]))])

(* Patches of one file, and requests *)
Diff(old, new, body) == <<Plain("#", "index"), OldPath(old, "-- "), NewPath(new, "++ ")>> \o body
Swap == <<Header(1, 1, 1, 1), Plain("-", "x"), Plain("+", "y")>>
Drop == <<Header(1, 1, 0, 0), Plain("-", "x"), Plain("\\", "")>>
Make == <<Header(0, 0, 1, 1), Plain("+", "y")>>

(* A key as the schema has it, and every way to give a key up to twice *)
Is(value) == <<Key(TRUE, "value", value)>>
Spellings(values, zero) ==
  BoundedSeq({ Key(exact, "value", value) : exact \in BOOLEAN, value \in values }
             \cup { Key(exact, kind, zero) : exact \in BOOLEAN, kind \in {"null", "other"} }, 2)

PatchKeys(patch, dry, del, confirm) ==
  [tool |-> "apply_patch", patch |-> patch, path |-> <<>>, dryRun |-> dry,
   allowDelete |-> del, confirm |-> confirm]
Patch(patch, dry, del, confirm) == PatchKeys(patch, Is(dry), del, confirm)
Apply(patch) == Patch(patch, FALSE, TRUE, TRUE)
PutKeys(path, dry, over, confirm) ==
  [tool |-> "write_file", path |-> path, text |-> Lf(<<"w">>), dryRun |-> dry,
   overwrite |-> over, confirm |-> confirm]
Put(path, dry, over, confirm) == PutKeys(Is(path), Is(dry), over, confirm)
None == [tool |-> "none"]

Puts == { Put("f", TRUE, TRUE, FALSE), Put("f", FALSE, FALSE, FALSE), Put("f", FALSE, TRUE, FALSE),
          Put("d", FALSE, FALSE, FALSE), Put("d/x", FALSE, FALSE, FALSE),
          Put(".env", FALSE, TRUE, FALSE), Put(".env", FALSE, TRUE, TRUE) }
Patches == { Apply(Diff("f", "f", Swap)), Apply(Diff("f", NoPath, Drop)),
             Patch(Diff("f", NoPath, Drop), FALSE, FALSE, TRUE),
             Patch(Diff("f", NoPath, Drop), TRUE, TRUE, TRUE),
             Apply(Diff(NoPath, "d/x", Make)), Apply(Diff(NoPath, "d", Make)),
             Apply(Diff("f", "f", Swap) \o Diff(NoPath, "d/x", Make)),
             Apply(Diff("f", NoPath, Drop) \o <<Plain("diff", "")>> \o Diff("d/x", "d/x", Swap)),
             Apply(Diff(NoPath, "d", Make) \o Diff(NoPath, "d/x", Make)),
             Apply(Diff("f", NoPath, Drop) \o Diff("f", NoPath, Drop)),
             Apply(Diff(".env", ".env", Swap) \o Diff("f", "f", Swap)),
             Patch(Diff(".env", ".env", Swap), FALSE, TRUE, FALSE) }

Spelled ==
  UNION { { PutKeys(Is("f"), dry, TRUE, FALSE), PutKeys(Is(".env"), dry, TRUE, TRUE),
            PatchKeys(Diff("f", "f", Swap), dry, FALSE, FALSE),
            PatchKeys(Diff("f", NoPath, Drop), dry, TRUE, FALSE) } : dry \in Spellings(BOOLEAN, FALSE) }
  \cup { PutKeys(path, Is(FALSE), TRUE, TRUE) : path \in Spellings({"f", ".env"}, NoPath) }

(* What the parser, the policy or the checks of a path refuse; for one call alone *)
Refused == { Put(".git/x", FALSE, TRUE, TRUE), Put("../x", FALSE, TRUE, TRUE), [tool |-> "run_tests"],
             Apply(Diff("f", "d", Swap)), Apply(Diff(NoPath, NoPath, Make)), Apply(Diff("f", "f", <<>>)),
             Apply(Diff("f", "f", <<BadHeader>>)), Apply(<<OldPath("f", "-- "), Plain(" ", "x")>>),
             Apply(Diff("f", "f", <<Header(1, 2, 1, 1), Plain("-", "x"), Plain("+", "y"), Plain("", "")>>)),
             Apply(Diff("f", "f", <<Header(1, 2, 1, 1), Plain("-", "x"), Plain("+", "y")>>)),
             Apply(Diff("f", "f", <<Header(1, 1, 1, 2), Plain(" ", "x"), Plain(" ", "x")>>)),
             Apply(Diff("f", "f", <<Header(1, 0, 1, 1), Plain(" ", "x")>>)),
             Apply(Diff("f", "f", Swap \o Swap)), Apply(Diff("f", "f", <<Header(9, 1, 9, 1), Plain(" ", "x")>>)) }

Tree(f, d, x) == [p \in MCPaths |-> CASE p = "f" -> f [] p = "d" -> d [] p = "d/x" -> x
                                      [] p = ".env" -> Text(Lf(<<"x">>)) [] OTHER -> Absent]
Trees == { Tree(Text(Lf(<<"x">>)), Absent, Absent), Tree(Text(Lf(<<"x">>)), Dir, Text(Lf(<<"x">>))),
           Tree(Absent, Text(Lf(<<"z">>)), Absent) }
OddTrees == { Tree(Node("binary", <<>>), Dir, Absent), Tree(Node("large", <<>>), Dir, Node("binary", <<>>)) }

NoGoal == [c \in MCCalls |-> {}]
Requests(a, b) == [c \in MCCalls |-> IF c = c1 THEN a ELSE b]
TwoCalls ==
  { [fs |-> tree, mode |-> "modify", req |-> Requests(a, b), goal |-> NoGoal] :
      tree \in Trees, a \in Puts \cup Patches, b \in Patches }
OneCall ==
  { [fs |-> tree, mode |-> mode, req |-> Requests(a, None), goal |-> NoGoal] :
      tree \in Trees \cup OddTrees, mode \in {"", "verify", "edit"}, a \in Puts \cup Patches \cup Refused }

OneSpelledCall ==
  { [fs |-> Tree(Text(Lf(<<"x">>)), Absent, Absent), mode |-> mode, req |-> Requests(a, None), goal |-> NoGoal] :
      mode \in {"read-only", "validation", "write"}, a \in Spelled }

(* The diff of a script on the file it starts from, with every kind of line end *)
Goal(s, file, body) ==
  LET from == Side(s, "+")
      to   == Side(s, "-")
      old  == IF file = Absent THEN NoPath ELSE "f"
      new  == IF file # Absent /\ to = <<>> THEN NoPath ELSE "f"
  IN [fs |-> Tree(file, Absent, Absent), mode |-> "modify",
      req |-> Requests(Apply(Diff(old, new, body)), None),
      goal |-> [NoGoal EXCEPT ![c1] = {[path |-> "f", from |-> from, to |-> to]}]]
Emptied(s, file, body) ==
  [Goal(s, file, body) EXCEPT !.req[c1] = Apply(Diff("f", "f", body))]
FilesFrom(s) ==
  LET from == Side(s, "+")
  IN {Text(Lf(from)), Text(Cut(from)), Text(Crlf(from)), Text(Mixed(from))}
     \cup (IF from = <<>> THEN {Absent} ELSE {})
Diffs == UNION { { Goal(s, file, body) : file \in FilesFrom(s), body \in {Whole(s), Tight(s)} }
                 \cup { Emptied(s, file, Whole(s)) : file \in FilesFrom(s) \ {Absent} } : s \in Scripts }

MCScenarios == OneCall \cup OneSpelledCall \cup TwoCalls \cup Diffs
=============================================================================
