---------------------------- MODULE MCNavigator ----------------------------
(* A user of the image /a (with the directory b and the file f) and /f: the  *)
(* commands name existing and missing objects, near and far.                 *)
EXTENDS Navigator

CONSTANTS n1, n2, n3, n4, n5

MCAddr == {n1, n2, n3, n4, n5}
MCName == {"a", "b", "f"}
MCEntry == {"/", "A", "B", "F1", "F2"}
MCDirs == {"/", "A", "B"}
MCContents ==
  [d \in MCDirs |->
     CASE d = "/" -> << [name |-> "a", ent |-> "A"], [name |-> "f", ent |-> "F1"] >>
       [] d = "A" -> << [name |-> "b", ent |-> "B"], [name |-> "f", ent |-> "F2"] >>
       [] d = "B" -> <<>>]

Abs(comps) == [abs |-> TRUE, comps |-> comps]
Rel(comps) == [abs |-> FALSE, comps |-> comps]
MCUserPaths ==
  { Rel(<<"a">>), Rel(<<"f">>), Rel(<<"..">>), Rel(<<"..", "a", "b">>),
    Rel(<<"b", "..", "f">>), Rel(<<"f", "..">>), Abs(<<"a">>) }
MCTabDirs == { Rel(<<"a">>), Rel(<<"..">>) }
\* PATH_MAX: what the shell makes of those from the directories there are.
Texts == UNION { {Normalize(w \o p.comps), w \o p.comps, w \o <<"">> \o p.comps} :
                   w \in {<<>>, <<"a">>, <<"a", "b">>}, p \in MCUserPaths }
MCPaths == MCUserPaths \cup {RootPath} \cup {Abs(t) : t \in Texts}
MCFaults == {"data"}
Symmetry == Permutations(MCAddr)
=============================================================================
