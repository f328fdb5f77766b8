------------------------------ MODULE DirScan ------------------------------
(***************************************************************************)
(* A directory's slots and the two loops that scan them slot by slot       *)
(* (fat_driver.c): list_directory, which makes a node for every entry, and *)
(* find_in_directory, which looks for one name.  Both put a long name      *)
(* together from the pieces that lie before its entry, last piece first,   *)
(* and neither compares their checksum with the entry.                     *)
(*                                                                         *)
(* Others write the directory, between calls: systems that know long names *)
(* and older ones, which leave the pieces alone.  A name is a sequence of  *)
(* texts, one per piece; a short name is one text.  A volume label is to   *)
(* this code an entry like any other.                                      *)
(***************************************************************************)
EXTENDS Integers, SequencesExt

CONSTANTS
  Files,      \* what the directory may hold
  Long,       \* the pieces of a file's long name, none if it has but a short one
  Alias,      \* a file's short name
  Texts,      \* what a piece may hold
  Nul,        \* what a cleared lfn_buffer holds
  MaxPieces,  \* pieces that lfn_buffer has room for
  Lower,      \* a name in lower case
  Wanted,     \* the names looked for
  Slots,      \* slots the directory's chain of clusters has room for
  PerSector,  \* slots of a sector
  PerCluster, \* slots of a cluster; a fixed root directory has none, and needs no table:
              \* more than Slots
  Faults      \* what may go wrong: "data", "fat", "memory"

\* mount refuses sectors and clusters of no bytes; a cluster is whole sectors.
ASSUME SlotAssumption ==
  /\ Slots \in Nat /\ PerSector \in Nat \ {0} /\ PerCluster \in Nat \ {0}
  /\ PerCluster % PerSector = 0

\* A name of 255 characters fills lfn_buffer; whatever it holds up to its first NUL
\* can be compared with the name looked for.
ASSUME NameAssumption ==
  /\ Long \in [Files -> Seq(Texts)] /\ Alias \in [Files -> Texts] /\ Nul \notin Texts
  /\ MaxPieces \in Nat \ {0} /\ \A f \in Files : Len(Long[f]) <= MaxPieces
  /\ \A n \in 0 .. MaxPieces : [1 .. n -> Texts] \subseteq DOMAIN Lower
  /\ Wanted \subseteq DOMAIN Lower
ASSUME FaultAssumption == Faults \subseteq {"data", "fat", "memory"}

VARIABLES
  slot,       \* the directory on the image
  op,         \* the call in progress
  wanted,     \* the name find looks for
  pos,        \* the slot the loop is at
  has_lfn,
  lfn_buffer,
  children,   \* dir->children, the last one added first
  answer,     \* what the last call returned; ghost: cut, by a fault
  fresh       \* ghost: children is a whole listing of the directory as it is

scan == <<pos, has_lfn, lfn_buffer>>
vars == <<slot, op, wanted, scan, children, answer, fresh>>

End == [kind |-> "end"]
Free == [kind |-> "free"]
Dots == [kind |-> "dots"]
Piece(f, k) == [kind |-> "piece", of |-> f, order |-> k, last |-> k = Len(Long[f])]
Entry(f) == [kind |-> "entry", of |-> f]

Cleared == [k \in 1 .. MaxPieces |-> Nul]

NoAnswer == [ok |-> FALSE, cut |-> FALSE, list |-> {}]

NameOf(f) == IF Long[f] = <<>> THEN <<Alias[f]>> ELSE Long[f]

Init ==
  /\ slot \in {[i \in 1 .. Slots |-> End],
               [i \in 1 .. Slots |-> IF i = 1 THEN Dots ELSE End]}
  /\ op = "idle" /\ wanted = <<>>
  /\ pos = 1 /\ has_lfn = FALSE /\ lfn_buffer = Cleared
  /\ children = <<>> /\ fresh = FALSE /\ answer = NoAnswer

-----------------------------------------------------------------------------
(* Whoever writes the image *)

Holds(f) == \E i \in 1 .. Slots : slot[i] = Entry(f)

\* Slots that are free, or follow the last one used.
Room(i, n) ==
  /\ i + n - 1 <= Slots
  /\ \A j \in i .. i + n - 1 : slot[j].kind \in {"free", "end"}
  /\ \A j \in 1 .. i - 1 : slot[j].kind # "end"

Written(s) ==
  /\ slot' = s
  /\ answer' = NoAnswer /\ fresh' = FALSE
  /\ UNCHANGED <<op, wanted, scan, children>>

\* The pieces of the name, the last one first, and the entry.
Create(f, i) ==
  /\ op = "idle" /\ ~ Holds(f)
  /\ LET n == Len(Long[f]) IN
       /\ Room(i, n + 1)
       /\ Written([j \in 1 .. Slots |->
                     CASE j \in i .. i + n - 1 -> Piece(f, n - (j - i))
                       [] j = i + n            -> Entry(f)
                       [] OTHER                -> slot[j]])

\* The entry at i, with the pieces before it that are its own.
Delete(f, i) ==
  /\ op = "idle" /\ slot[i] = Entry(f)
  /\ Written([j \in 1 .. Slots |-> IF j \in i - Len(Long[f]) .. i THEN Free ELSE slot[j]])

\* By a system that knows no long names.
DeleteEntry(f, i) ==
  /\ op = "idle" /\ slot[i] = Entry(f)
  /\ Written([slot EXCEPT ![i] = Free])

-----------------------------------------------------------------------------
(* The calls *)

\* The locals of the loop.
Restart == pos' = 1 /\ has_lfn' = FALSE /\ lfn_buffer' = Cleared

Begin(call, name) ==
  /\ op = "idle"
  /\ op' = call /\ wanted' = name
  /\ Restart /\ answer' = NoAnswer
  /\ UNCHANGED slot

\* The children of an earlier listing are freed first.
StartList == Begin("list", <<>>) /\ children' = <<>> /\ fresh' = FALSE
StartFind(name) == Begin("find", name) /\ UNCHANGED <<children, fresh>>

InCall == op \in {"list", "find"}

Return(ok, cut, list) ==
  /\ op' = "idle"
  /\ answer' = [ok |-> ok, cut |-> cut, list |-> list]
  /\ wanted' = <<>> /\ Restart
  /\ UNCHANGED slot

\* What the loop takes for the end: 0 with the children, or NULL.
ScanEnds(cut) ==
  \/ /\ op = "list" /\ Return(TRUE, cut, Range(children))
     /\ fresh' = ~ cut /\ UNCHANGED children
  \/ op = "find" /\ Return(FALSE, cut, {}) /\ UNCHANGED <<children, fresh>>

\* -1, the children so far staying in the tree, or NULL.
ScanFails ==
  /\ InCall
  /\ Return(FALSE, TRUE, IF op = "list" THEN Range(children) ELSE {})
  /\ UNCHANGED <<children, fresh>>

NoBuffer == "memory" \in Faults /\ pos = 1 /\ ScanFails

SectorFails == "data" \in Faults /\ pos <= Slots /\ (pos - 1) % PerSector = 0 /\ ScanFails

\* The table cannot be read, and says that the chain ends.
ChainCut == "fat" \in Faults /\ pos > 1 /\ (pos - 1) % PerCluster = 0 /\ ScanEnds(TRUE)

ChainEnds == pos = Slots + 1 /\ ScanEnds(FALSE)

At(kind) == InCall /\ pos <= Slots /\ slot[pos].kind = kind

EndSlot == At("end") /\ ScanEnds(FALSE)

Passed == pos' = pos + 1 /\ UNCHANGED <<slot, op, wanted, children, answer, fresh>>

\* Mutant: a deleted slot between pieces and entry is passed over.
FreeSlotKeepsName == At("free") /\ Passed /\ UNCHANGED <<has_lfn, lfn_buffer>>

FreeSlot == At("free") /\ Passed /\ has_lfn' = FALSE /\ UNCHANGED lfn_buffer

\* The piece that comes first in a run is the last of its name: it clears the
\* buffer.  Without it the others are passed over.
PieceSlot ==
  /\ At("piece")
  /\ Passed
  /\ has_lfn' = (has_lfn \/ slot[pos].last)
  /\ LET buffer == IF slot[pos].last THEN Cleared ELSE lfn_buffer
         k == slot[pos].order
     IN  lfn_buffer' = IF has_lfn' THEN [buffer EXCEPT ![k] = Long[slot[pos].of][k]]
                       ELSE buffer

\* . and ..; find makes a node of them too, named by no name that it is given.
DotsSlot == At("dots") /\ Passed /\ has_lfn' = FALSE /\ UNCHANGED lfn_buffer

\* A buffer up to its first NUL.
Assembled(buffer) ==
  LET n == CHOOSE n \in 0 .. MaxPieces : /\ \A k \in 1 .. n : buffer[k] # Nul
                                         /\ n = MaxPieces \/ buffer[n + 1] = Nul
  IN  SubSeq(buffer, 1, n)

\* fill_file_node, and the long name over it.
Node == <<slot[pos].of, IF has_lfn THEN Assembled(lfn_buffer) ELSE <<Alias[slot[pos].of]>> >>

ListEntry ==
  /\ At("entry") /\ op = "list"
  /\ children' = <<Node>> \o children
  /\ pos' = pos + 1 /\ has_lfn' = FALSE
  /\ UNCHANGED <<slot, op, wanted, answer, fresh, lfn_buffer>>

\* Mutant: upper and lower case differ.
MatchesExact == Node[2] = wanted

Matches == Lower[Node[2]] = Lower[wanted]

FindEntry ==
  /\ At("entry") /\ op = "find"
  /\ \/ Matches /\ Return(TRUE, FALSE, {Node}) /\ UNCHANGED <<children, fresh>>
     \/ ~ Matches /\ Passed /\ has_lfn' = FALSE /\ UNCHANGED lfn_buffer

ListNoNode == "memory" \in Faults /\ At("entry") /\ op = "list" /\ ScanFails

\* find_in_directory writes through malloc's NULL.
FindNoNode ==
  /\ "memory" \in Faults /\ (At("entry") \/ At("dots")) /\ op = "find"
  /\ op' = "undefined"
  /\ UNCHANGED <<slot, wanted, scan, children, answer, fresh>>

Writer ==
  \E f \in Files, i \in 1 .. Slots : Create(f, i) \/ Delete(f, i) \/ DeleteEntry(f, i)

Scan ==
  \/ NoBuffer
  \/ SectorFails
  \/ ChainCut
  \/ ChainEnds
  \/ EndSlot
  \/ FreeSlot
  \/ PieceSlot
  \/ DotsSlot
  \/ ListEntry
  \/ FindEntry
  \/ ListNoNode
  \/ FindNoNode

Next == Writer \/ StartList \/ (\E n \in Wanted : StartFind(n)) \/ Scan

Spec == Init /\ [][Next]_vars

-----------------------------------------------------------------------------
(* Properties *)

\* What a slot may hold.
SlotSet == {End, Free, Dots} \cup {Entry(f) : f \in Files}
             \cup UNION {{Piece(f, k) : k \in 1 .. Len(Long[f])} : f \in Files}

\* Types: the loop stays in the directory, what it is putting together in lfn_buffer,
\* and every child and answer is a file with a name.
TypeOK ==
  /\ slot \in [1 .. Slots -> SlotSet]
  /\ op \in {"idle", "list", "find", "undefined"}
  /\ wanted \in Wanted \cup {<<>>} /\ (op = "find" => wanted \in Wanted)
  /\ pos \in 1 .. Slots + 1
  /\ has_lfn \in BOOLEAN
  /\ lfn_buffer \in [1 .. MaxPieces -> Texts \cup {Nul}]
  /\ children \in Seq(Files \X DOMAIN Lower)
  /\ fresh \in BOOLEAN
  /\ answer \in [ok : BOOLEAN, cut : BOOLEAN, list : SUBSET (Files \X DOMAIN Lower)]

\* No entry has the pieces of another in front of it: all that a checksum of the
\* pieces could tell.
NamesTrusted ==
  \A i \in 2 .. Slots :
    slot[i].kind = "entry" /\ slot[i - 1].kind = "piece" => slot[i - 1].of = slot[i].of

D == INSTANCE Directory WITH
       Names <- DOMAIN Lower,
       files <- {f \in Files : Holds(f)},
       name <- [f \in Files |-> NameOf(f)],
       trusted <- NamesTrusted,
       asked <- CASE op = "idle" -> <<>>
                  [] op = "list" -> <<"list">>
                  [] OTHER -> <<"find", wanted>>

\* The scans implement Directory: whatever was created, deleted and left over before,
\* and wherever sectors, clusters and runs of pieces begin, a listing has exactly the
\* directory's files by their right names, and a lookup finds the one it is asked
\* for; a listing says so when it is not whole, unless the table failed.
ScansDirectory == D!Spec

\* The two loops read the directory alike, also where the names are wrong: a lookup
\* finds the first of the entries that a whole listing shows by that name, or none if
\* it shows none.
FindAgrees ==
  [][ (op = "find" /\ op' = "idle" /\ fresh) =>
        LET matching == {k \in DOMAIN children : Lower[children[k][2]] = Lower[wanted]}
        IN  IF answer'.list = {} THEN answer'.cut \/ matching = {}
            ELSE \E k \in matching : /\ \A j \in matching : j <= k
                                    /\ answer'.list = {children[k]} ]_vars
=============================================================================
