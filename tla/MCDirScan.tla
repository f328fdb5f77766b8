------------------------------ MODULE MCDirScan ------------------------------
(* Five slots, two to a sector and four to a cluster: a file whose long name   *)
(* has two pieces, one whose long name differs from the first piece of that in *)
(* case only, and one without; any run of slots may begin anywhere.            *)
EXTENDS DirScan

MCFiles == {"f2", "f1", "f0"}
MCLong == [f \in MCFiles |-> CASE f = "f2" -> <<"a", "b">> [] f = "f1" -> <<"A">> [] OTHER -> <<>>]
MCAlias == [f \in MCFiles |-> f]
MCTexts == {"a", "b", "A"} \cup MCFiles
Text == [t \in MCTexts |-> IF t = "A" THEN "a" ELSE t]
MCNames == UNION {[1 .. n -> MCTexts] : n \in 0 .. 2}
MCLower == [n \in MCNames |-> [k \in DOMAIN n |-> Text[n[k]]]]
MCWanted == {<<"A", "b">>, <<"a">>, <<"f0">>, <<"f1">>}
MCFaults == {"data", "fat", "memory"}
=============================================================================
