--------------------------- MODULE MCChainReader ---------------------------
(* Clusters of two sectors of two bytes: 2 to 4 are data, in sectors 3 to 8  *)
(* and bytes 6 to 17; the second sector of 4 is past the end of the image.   *)
(* Offsets end at 18: cluster 5, past the volume, comes round to bytes 0 to  *)
(* 3, cluster 6, the mark of a bad one, to 4 to 7.  7 is the end of a chain. *)
(* The tables have chains of every length, circles of one, two and three     *)
(* clusters, chains into free, reserved and bad clusters.  Cluster 1 holds   *)
(* an end mark, as a real table does; entries past the table are garbage.    *)
EXTENDS ChainReader

MCClusters == 1 .. 6
MCValues == 0 .. 7
Garbage == [c \in MCClusters |-> CASE c = 1 -> 7 [] c = 5 -> 3 [] OTHER -> 2]
\* The entries of the clusters 2, 3 and 4.
Table(u) == [c \in MCClusters |-> IF c \in 2 .. 4 THEN u[c - 1] ELSE Garbage[c]]
FewTables == { Table(u) : u \in { <<3, 4, 7>>, <<0, 2, 4>>, <<3, 2, 7>>, <<3, 4, 2>>,
                                 <<3, 5, 0>>, <<3, 6, 1>>, <<0, 4, 5>>, <<3, 4, 4>> } }
MCFaults == {"fail", "short"}
MCSizes == {0, 3, 9}
=============================================================================
