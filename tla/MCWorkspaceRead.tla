--------------------------- MODULE MCWorkspaceRead ---------------------------
(* Small trees, .gitignore files of up to two lines, and calls of the tools *)
EXTENDS WorkspaceRead

MCPaths == { <<"a">>, <<"b">>, <<"c">>, <<"d">>, <<"e">>, <<"vendor">>,
             <<"a", "a">>, <<"a", "b">>, <<"a", "vendor">>, <<"b", "a">>, <<"b", "b">>, <<"vendor", "a">>,
             <<"store">>, <<"store", "a">>, <<"store", "b">>, <<"store", "a", "b">> }
(* "a" < "a/a" < ... < "vendor/a" *)
MCPathsInOrder == << <<"a">>, <<"a", "a">>, <<"a", "b">>, <<"a", "vendor">>, <<"b">>, <<"b", "a">>, <<"b", "b">>,
                     <<"c">>, <<"d">>, <<"e">>, <<"store">>, <<"store", "a">>, <<"store", "a", "b">>, <<"store", "b">>,
                     <<"vendor">>, <<"vendor", "a">> >>

Tree(nodes) == [p \in MCPaths |-> IF \E n \in nodes : n[1] = p THEN (CHOOSE n \in nodes : n[1] = p)[2] ELSE None]
Hits == File(<<"hit", "miss", "hit">>)
One == File(<<"hit">>)
Full == Tree({ <<<<"a">>, Directory>>, <<<<"a", "a">>, Directory>>, <<<<"a", "b">>, One>>,
               <<<<"a", "vendor">>, One>>, <<<<"b">>, Hits>>, <<<<"vendor">>, Directory>>,
               <<<<"vendor", "a">>, One>> })
Broad == Tree({ <<<<"a">>, Directory>>, <<<<"b">>, One>>, <<<<"c">>, Binary>>, <<<<"d">>, Hits>>, <<<<"e">>, One>>, <<<<"a", "b">>, One>> })
Sparse == Tree({ <<<<"a">>, Directory>>, <<<<"a", "a">>, One>>, <<<<"b">>, Directory>>, <<<<"b", "a">>, Hits>>, <<<<"b", "b">>, Binary>> })
(* More directories than a summary shows *)
Deep == Tree({ <<<<"a">>, Directory>>, <<<<"a", "a">>, Directory>>, <<<<"b">>, Directory>>, <<<<"c">>, One>> })
(* A directory with the name of a file that is ignored *)
Odd == Tree({ <<<<"store">>, Directory>>, <<<<"store", "a">>, Directory>>, <<<<"store", "b">>, One>>,
              <<<<"store", "a", "b">>, One>>, <<<<"a">>, One>> })

Line(bang, lead, segs, trail) == [bang |-> bang, lead |-> lead, segs |-> segs, trail |-> trail]
MCLines == { Line(bang, lead, segs, trail) :
  bang \in BOOLEAN, lead \in BOOLEAN, trail \in BOOLEAN,
  segs \in {<<>>, <<"a">>, <<"b">>, <<"*">>, <<"a", "b">>, <<"*", "a">>} }
UpToTwo == {<<>>} \cup { <<l>> : l \in MCLines } \cup { <<l, m>> : l \in MCLines, m \in MCLines }
SomeRules == { <<>>, <<Line(FALSE, FALSE, <<"b">>, FALSE)>>, <<Line(FALSE, TRUE, <<"a">>, TRUE)>> }

Starts == {<<>>, <<"a">>, <<"a", "b">>, <<"b">>, <<"vendor">>}
Lists == [tool : {"list"}, path : Starts, depth : {-1, 0, 1, 2}, limit : 0..4]
Searches == [tool : {"search"}, path : Starts, limit : 0..3]
Summaries == [tool : {"summary"}, path : Starts]
Reads == [tool : {"read"}, path : {<<>>, <<"a">>, <<"b">>, <<"b", "b">>}, from : 0..4, to : 0..5]

OddStarts == {<<>>, <<"store">>, <<"store", "a">>, <<"store", "b">>}

MCScenarios ==
  [tree : {Deep}, lines : SomeRules, edits : {2}, call : Summaries]
  \cup
  [tree : {Full, Sparse, Broad}, lines : SomeRules, edits : {1},
   call : Lists \cup Searches \cup Summaries \cup Reads]
  \cup
  [tree : {Full}, lines : UpToTwo, edits : {0},
   call : { [tool |-> "list", path |-> p, depth |-> 2, limit |-> 9] : p \in {<<>>, <<"a">>} }
          \cup { [tool |-> "search", path |-> p, limit |-> 9] : p \in {<<>>, <<"a">>, <<"a", "b">>} }]
  \cup
  [tree : {Sparse}, lines : {<<>>}, edits : {2},
   call : { [tool |-> "list", path |-> <<>>, depth |-> 2, limit |-> 3],
            [tool |-> "search", path |-> <<>>, limit |-> 2],
            [tool |-> "summary", path |-> <<>>] }]
  \cup
  [tree : {Odd}, lines : SomeRules, edits : {0},
   call : { [tool |-> "list", path |-> p, depth |-> 3, limit |-> 9] : p \in OddStarts }
          \cup { [tool |-> "search", path |-> p, limit |-> 3] : p \in OddStarts }
          \cup { [tool |-> "summary", path |-> p] : p \in OddStarts }]
MCContents == {<<"hit">>, <<"miss", "hit">>}
MCNames == <<"a", "b", "c", "d", "e", "store", "vendor">>
MCIgnoredDirs == {"vendor"}
MCIgnoredFiles == {"store"}
=============================================================================
