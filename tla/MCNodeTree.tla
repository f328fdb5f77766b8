----------------------------- MODULE MCNodeTree -----------------------------
(* A small image for NodeTree: /a is a directory with the directory b and   *)
(* the file f, /a/b is empty, and the root also has a file f.               *)
EXTENDS NodeTree

CONSTANTS n1, n2, n3, n4, n5

MCAddr == {n1, n2, n3, n4, n5}
MCName == {"a", "b", "f"}
MCEntry == {"/", "A", "B", "F1", "F2"}
MCDirs == {"/", "A", "B"}
MCContents ==
  [d \in MCDirs |->
     CASE d = "/" -> << [name |-> "a", ent |-> "A"], [name |-> "f", ent |-> "F1"] >>
       [] d = "A" -> << [name |-> "b", ent |-> "B"], [name |-> "f", ent |-> "F2"] >>
       [] d = "B" -> <<>>]
MCPaths ==
  { [abs |-> TRUE,  comps |-> <<>>],
    [abs |-> TRUE,  comps |-> <<"a", "b">>],
    [abs |-> TRUE,  comps |-> <<"f", ".">>],
    [abs |-> FALSE, comps |-> <<"a">>],
    [abs |-> FALSE, comps |-> <<".", "b", "..", "f">>],
    [abs |-> FALSE, comps |-> <<"..", "..", "a", "f">>],
    [abs |-> FALSE, comps |-> <<"b", "">>] }
AllFaults == {"data", "fat"}
FatFaults == {"fat"}
Symmetry == Permutations(MCAddr)
=============================================================================
