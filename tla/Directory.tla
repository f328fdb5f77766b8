----------------------------- MODULE Directory -----------------------------
(***************************************************************************)
(* What a scan of a directory promises (fat_driver_list_directory and      *)
(* fat_driver_find_in_directory): a listing holds every file of the        *)
(* directory and nothing else, a lookup finds the file of that name, upper *)
(* and lower case alike.  A read that fails, a table that cannot be read   *)
(* and a node that cannot be allocated cut either short; names are in      *)
(* doubt where a system that knows no long names has left pieces of them   *)
(* in front of a file of its own.  How the names lie in the directory's    *)
(* slots is DirScan.                                                       *)
(***************************************************************************)

EXTENDS Sequences

CONSTANTS
  Files,   \* what a directory may hold
  Names,   \* what a file may be called
  Lower,   \* a name in lower case
  Faults   \* what may go wrong: "data", "fat", "memory"

VARIABLES
  files,    \* the files in the directory
  name,     \* the name of each
  trusted,  \* their names are not in doubt
  asked,    \* the call in progress: <<>>, <<"list">> or <<"find", name>>
  answer    \* what the last call returned, until the next call or a write: whether
            \* it says it went well, whether a fault cut it short, and the entries

vars == <<files, name, trusted, asked, answer>>

Answers == [ok : BOOLEAN, cut : BOOLEAN, list : SUBSET (Files \X Names)]

NoAnswer == [ok |-> FALSE, cut |-> FALSE, list |-> {}]

Init ==
  /\ files = {} /\ name \in [Files -> Names] /\ trusted = TRUE
  /\ asked = <<>>
  /\ answer = NoAnswer

\* Whoever writes the image is not writing it during a call.
Write ==
  /\ asked = <<>>
  /\ files' \in SUBSET Files /\ name' = name /\ trusted' \in BOOLEAN
  /\ UNCHANGED asked /\ answer' = NoAnswer

Ask(q) ==
  /\ asked = <<>>
  /\ asked' = q
  /\ answer' = NoAnswer
  /\ UNCHANGED <<files, name, trusted>>

Cut == answer'.cut => Faults # {}

\* Every file is listed unless a fault has cut the listing short, which it admits
\* unless the fault was in the table.
Listing ==
  /\ asked = <<"list">>
  /\ asked' = <<>>
  /\ answer' \in Answers /\ Cut
  /\ LET some == {e[1] : e \in answer'.list} IN
       /\ IF answer'.cut THEN some \subseteq files ELSE some = files
       /\ trusted => answer'.list = {<<f, name[f]>> : f \in some}
  /\ IF answer'.cut THEN answer'.ok => "fat" \in Faults ELSE answer'.ok
  /\ UNCHANGED <<files, name, trusted>>

Same(m, n) == Lower[m] = Lower[n]

Finding ==
  /\ Len(asked) = 2
  /\ asked' = <<>>
  /\ answer' \in Answers /\ Cut
  /\ \A d, e \in answer'.list : d = e
  /\ answer'.ok = (answer'.list # {})
  /\ LET wanted == asked[2] IN
       /\ \A e \in answer'.list : e[1] \in files /\ Same(e[2], wanted)
       /\ trusted => \A e \in answer'.list : e[2] = name[e[1]]
       /\ trusted /\ answer'.list = {} /\ ~ answer'.cut =>
            \A f \in files : ~ Same(name[f], wanted)
  /\ UNCHANGED <<files, name, trusted>>

Next ==
  \/ Write
  \/ \E q \in {<<"list">>} \cup {<<"find", n>> : n \in Names} : Ask(q)
  \/ Listing
  \/ Finding

Spec == Init /\ [][Next]_vars
=============================================================================
