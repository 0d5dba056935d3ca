----------------------------- MODULE IgnoreRules -----------------------------
(***************************************************************************)
(* Which paths the workspace hides: the default rules and the lines of the *)
(* .gitignore in its root, as newIgnoreMatcher reads them and ignored      *)
(* applies them.  A path is the sequence of its names.                     *)
(*                                                                         *)
(* A line of the file is [bang, lead, segs, trail]: does it start with !,  *)
(* with /, its parts between slashes ("*" is the pattern that matches each *)
(* name), and does it end with /.                                          *)
(* A definition named Slip... is the one it precedes with a mistake in it. *)
(***************************************************************************)
EXTENDS Naturals, Sequences

CONSTANTS
  DefaultIgnoredDirs,   \* names that hide a path they are in: .git, vendor, ...
  DefaultIgnoredFiles   \* names that hide a path they end: .DS_Store, ...

Front(path, n) == SubSeq(path, 1, n)
Prefixes(path) == { Front(path, n) : n \in 1..Len(path) }

(* The members of a set of numbers from 1 to n, the smallest first *)
InOrder(n, S) ==
  LET upTo[i \in 0 .. n] ==
        IF i = 0 THEN <<>> ELSE IF i \in S THEN Append(upTo[i - 1], i) ELSE upTo[i - 1]
  IN upTo[n]

(* parseIgnoreRule: no rule is made of a line without a name *)
IsRule(line) == line.segs # <<>>
ParseIgnoreRule(line) ==
  [pattern  |-> line.segs,
   negated  |-> line.bang,
   dirOnly  |-> line.trail,
   anchored |-> line.lead,
   hasSlash |-> Len(line.segs) > 1]
NewIgnoreMatcher(lines) ==
  LET named == InOrder(Len(lines), { i \in DOMAIN lines : IsRule(lines[i]) })
  IN [i \in DOMAIN named |-> ParseIgnoreRule(lines[named[i]])]

MatchPattern(pattern, path) ==
  /\ Len(pattern) = Len(path)
  /\ \A i \in DOMAIN path : pattern[i] \in {"*", path[i]}

MatchPath(rule, path) ==
  IF rule.anchored \/ rule.hasSlash
  THEN MatchPattern(rule.pattern, path)
  ELSE \E i \in DOMAIN path : MatchPattern(rule.pattern, <<path[i]>>)

DirCandidates(path, isDir) ==
  { Front(path, n) : n \in 1..(IF isDir THEN Len(path) ELSE Len(path) - 1) }

Matches(rule, path, isDir) ==
  \/ ~rule.dirOnly /\ MatchPath(rule, path)
  \/ \E c \in DirCandidates(path, isDir) : MatchPath(rule, c)

DefaultIgnored(path) ==
  \/ \E i \in DOMAIN path : path[i] \in DefaultIgnoredDirs
  \/ path[Len(path)] \in DefaultIgnoredFiles

(* ignored: the last rule that matches says; the root is never ignored *)
SlipIgnored(rules, path, isDir) ==
  LET hits == { i \in DOMAIN rules : Matches(rules[i], path, isDir) } IN
  path # <<>> /\ (DefaultIgnored(path) \/ \E i \in hits : \A j \in hits : i <= j /\ ~rules[i].negated)
Ignored(rules, path, isDir) ==
  LET hits == { i \in DOMAIN rules : Matches(rules[i], path, isDir) } IN
  path # <<>> /\ (DefaultIgnored(path) \/ \E i \in hits : \A j \in hits : j <= i /\ ~rules[i].negated)

-----------------------------------------------------------------------------

(* What git hides: a path that the last line to name it excludes, and all    *)
(* that is below such a path                                                 *)
Names(rule, path, isDir) ==
  /\ rule.dirOnly => isDir
  /\ IF rule.anchored \/ rule.hasSlash
     THEN MatchPattern(rule.pattern, path)
     ELSE MatchPattern(rule.pattern, <<path[Len(path)]>>)
Excluded(rules, path, isDir) ==
  LET hits == { i \in DOMAIN rules : Names(rules[i], path, isDir) } IN
  \E i \in hits : (\A j \in hits : j <= i) /\ ~rules[i].negated
GitHides(rules, path, isDir) ==
  \E q \in Prefixes(path) : Excluded(rules, q, q # path \/ isDir)
=============================================================================
