----------------------------- MODULE UnifiedPatch -----------------------------
(***************************************************************************)
(* What the tool apply_patch makes of the text of a patch, and of the text *)
(* of a file: write.go's parser, its application of hunks and its          *)
(* treatment of line ends.                                                 *)
(*                                                                         *)
(* A line of a patch is a record: k is what it begins with, text the rest  *)
(* of it, path the file it names if it is read as a header.  A line of a   *)
(* file is its text and its end, "lf", "crlf" or "" (the last line only).  *)
(* A definition named Slip... is the one it precedes with a mistake in it. *)
(***************************************************************************)
EXTENDS Integers, Sequences

NoPath == ""  \* of /dev/null

OldPath(p, t)      == [k |-> "---", text |-> t, path |-> p]
NewPath(p, t)      == [k |-> "+++", text |-> t, path |-> p]
Plain(k, t)        == [k |-> k, text |-> t]            \* " ", "-", "+", "\\", "" or "#"
Header(os, oc, ns, nc) == [k |-> "@@", os |-> os, oc |-> oc, ns |-> ns, nc |-> nc]
BadHeader          == [k |-> "@@", os |-> -1]          \* an @@ line the pattern does not match

(* A line of a hunk by its first character: "--- a" removes the line "-- a" *)
Sign(line) == CASE line.k = "---" -> "-" [] line.k = "+++" -> "+" [] OTHER -> line.k

-----------------------------------------------------------------------------

(* parseUnifiedPatch and parseUnifiedHunk, a line at a time; at tells where *)
(* in their loops the parser is.                                            *)
Start == [at |-> "outside", files |-> <<>>, old |-> NoPath, new |-> NoPath,
          hunks |-> <<>>, hunk |-> <<>>, oldSeen |-> 0, newSeen |-> 0]

Refuse(s) == [s EXCEPT !.at = "refused"]

(* A file is complete: it needs a hunk *)
EndFile(s) ==
  IF s.hunks = <<>> THEN Refuse(s)
  ELSE [s EXCEPT !.at = "outside", !.hunks = <<>>,
          !.files = Append(@, [old |-> s.old, new |-> s.new, hunks |-> s.hunks])]

(* The counts of the header end a hunk, and must be met exactly *)
CountHunk(s) ==
  LET h == s.hunk IN
  IF s.oldSeen < h.oldCount \/ s.newSeen < h.newCount THEN s
  ELSE IF s.oldSeen # h.oldCount \/ s.newSeen # h.newCount THEN Refuse(s)
  ELSE [s EXCEPT !.at = "file", !.hunks = Append(@, h)]

StartHunk(s, line) ==
  IF line.os < 0 THEN Refuse(s)
  ELSE CountHunk([s EXCEPT !.at = "hunk", !.oldSeen = 0, !.newSeen = 0,
         !.hunk = [oldStart |-> line.os, oldCount |-> line.oc,
                   newStart |-> line.ns, newCount |-> line.nc, lines |-> <<>>]])

HunkLine(s, line) ==
  IF line.k = "\\" THEN s
  ELSE IF Sign(line) \notin {" ", "-", "+"} THEN Refuse(s)
  ELSE CountHunk([s EXCEPT
         !.hunk.lines = Append(@, [kind |-> Sign(line), text |-> line.text]),
         !.oldSeen = IF Sign(line) = "+" THEN @ ELSE @ + 1,
         !.newSeen = IF Sign(line) = "-" THEN @ ELSE @ + 1])

OutsideLine(s, line) ==
  IF line.k = "---" THEN [s EXCEPT !.at = "newPath", !.old = line.path] ELSE s

(* next: the line after it *)
FileLine(s, line, next) ==
  CASE line.k = "diff" -> EndFile(s)
    [] line.k = "---" /\ next.k = "+++" ->
         IF s.hunks = <<>> THEN Refuse(s) ELSE OutsideLine(EndFile(s), line)
    [] line.k = "@@" -> StartHunk(s, line)
    [] OTHER -> s

ParseLine(s, line, next) ==
  CASE s.at = "outside" -> OutsideLine(s, line)
    [] s.at = "newPath" -> IF line.k # "+++" THEN Refuse(s)
                           ELSE [s EXCEPT !.at = "file", !.new = line.path]
    [] s.at = "file"    -> FileLine(s, line, next)
    [] s.at = "hunk"    -> HunkLine(s, line)
    [] OTHER            -> s

(* The files of a patch, or <<>> for a patch that is refused *)
ParseUnifiedPatch(lines) ==
  LET NoLine == Plain("", "")
      after[i \in 0..Len(lines)] ==
        IF i = 0 THEN Start
        ELSE ParseLine(after[i - 1], lines[i], IF i < Len(lines) THEN lines[i + 1] ELSE NoLine)
      end == after[Len(lines)]
  IN CASE end.at = "outside"                      -> end.files
       [] end.at = "file" /\ end.hunks # <<>> -> EndFile(end).files
       [] OTHER                                  -> <<>>

-----------------------------------------------------------------------------

(* unifiedFilePatch.operation and targetPath *)
Operation(file) == CASE file.old = NoPath /\ file.new # NoPath -> "add"
                     [] file.old # NoPath /\ file.new = NoPath -> "delete"
                     [] OTHER                                  -> "update"
TargetPath(file) == IF file.new # NoPath THEN file.new ELSE file.old

(* hunkStartIndex: the lines before the hunk.  A hunk that removes nothing *)
(* names the line it comes after.                                          *)
SlipHunkStartIndex(hunk) == IF hunk.oldStart = 0 THEN 0 ELSE hunk.oldStart - 1
HunkStartIndex(hunk) ==
  IF hunk.oldStart = 0 \/ hunk.oldCount = 0 THEN hunk.oldStart ELSE hunk.oldStart - 1

(* One line of a hunk: out so far, and oldIndex lines of the original are used up *)
ApplyLine(original, s, line) ==
  LET isThere == s.oldIndex < Len(original) /\ original[s.oldIndex + 1] = line.text
  IN CASE line.kind = "+"           -> [s EXCEPT !.out = Append(@, line.text)]
       [] line.kind = "-" /\ isThere -> [s EXCEPT !.oldIndex = @ + 1]
       [] line.kind = " " /\ isThere -> [s EXCEPT !.oldIndex = @ + 1, !.out = Append(@, line.text)]
       [] OTHER                     -> [s EXCEPT !.ok = FALSE]

ApplyHunk(original, s, hunk) ==
  LET start == HunkStartIndex(hunk)
      at    == [s EXCEPT !.out = @ \o SubSeq(original, s.oldIndex + 1, start), !.oldIndex = start]
      after[i \in 0..Len(hunk.lines)] ==
        IF i = 0 THEN at ELSE ApplyLine(original, after[i - 1], hunk.lines[i])
  IN IF ~s.ok \/ start < s.oldIndex \/ start > Len(original)
     THEN [s EXCEPT !.ok = FALSE]
     ELSE after[Len(hunk.lines)]

(* applyUnifiedHunks; a hunk's counts were met when it was parsed *)
ApplyUnifiedHunks(original, hunks) ==
  LET after[i \in 0..Len(hunks)] ==
        IF i = 0 THEN [ok |-> TRUE, out |-> <<>>, oldIndex |-> 0]
        ELSE ApplyHunk(original, after[i - 1], hunks[i])
      end == after[Len(hunks)]
  IN [ok    |-> end.ok,
      lines |-> end.out \o SubSeq(original, end.oldIndex + 1, Len(original))]

-----------------------------------------------------------------------------

FileLines(text, ends) == [i \in DOMAIN text |-> [text |-> text[i], end |-> ends[i]]]

(* splitFileText: one CRLF makes the whole file a CRLF file *)
SplitFileText(file) ==
  [lines        |-> [i \in DOMAIN file |-> file[i].text],
   finalNewline |-> file # <<>> /\ file[Len(file)].end # "",
   eol          |-> IF \E i \in DOMAIN file : file[i].end = "crlf" THEN "crlf" ELSE "lf"]

(* joinFileText: the end of no line at all is an empty line, and an empty *)
(* line without an end is nothing.                                        *)
JoinFileText(lines, finalNewline, eol) ==
  LET text == CASE lines = <<>> /\ finalNewline -> <<"">>
                [] lines # <<>> /\ ~finalNewline /\ lines[Len(lines)] = "" ->
                     SubSeq(lines, 1, Len(lines) - 1)
                [] OTHER -> lines
  IN [i \in DOMAIN text |->
       [text |-> text[i],
        end  |-> IF i < Len(lines) \/ finalNewline THEN eol ELSE ""]]
=============================================================================
