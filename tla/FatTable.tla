------------------------------ MODULE FatTable ------------------------------
(***************************************************************************)
(* What fat_driver_get_fat_entry promises its callers (list_directory,     *)
(* find_in_directory, read_file, get_filesystem_info): asked for a         *)
(* cluster, it answers with the entry the table on the image has for it.   *)
(* A sector that cannot be read makes the answer 0, which the caller       *)
(* cannot tell from an entry that says "free"; a sector read in part puts  *)
(* the answers in doubt until a sector is read again.  How it gets the     *)
(* entry, through a cache of one sector, is FatCache.                      *)
(***************************************************************************)

CONSTANTS
  Clusters,   \* the clusters a caller may ask for
  Values,     \* what an entry can hold
  NoCluster,  \* no call in progress
  Zero,       \* the value 0
  Faults      \* what may happen to a read: "fail", or "short" of a sector

ASSUME NoClusterAssumption == NoCluster \notin Clusters

VARIABLES
  table,  \* the table as it lies on the image; the driver never writes it
  asked,  \* the cluster of the call in progress
  got,    \* what the last call returned
  sound   \* no answer is in doubt

vars == <<table, asked, got, sound>>

Init ==
  /\ table \in [Clusters -> Values]
  /\ asked = NoCluster
  /\ got = Zero
  /\ sound = TRUE

Ask(c) ==
  /\ asked = NoCluster
  /\ asked' = c
  /\ UNCHANGED <<table, got, sound>>

Answer ==
  /\ asked # NoCluster
  /\ \/ got' = table[asked] /\ sound' = sound
     \/ "fail" \in Faults /\ got' = Zero /\ sound' = sound
     \/ "short" \in Faults /\ got' = Zero /\ sound' = FALSE
     \/ ~ sound /\ got' \in Values /\ sound' = sound
  /\ asked' = NoCluster
  /\ UNCHANGED table

\* A sector is read whole.
Reread ==
  /\ asked # NoCluster /\ ~ sound
  /\ sound' = TRUE
  /\ UNCHANGED <<table, asked, got>>

Next == (\E c \in Clusters : Ask(c)) \/ Answer \/ Reread

Spec == Init /\ [][Next]_vars
=============================================================================
