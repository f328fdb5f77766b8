------------------------------ MODULE NodeTree ------------------------------
(***************************************************************************)
(* The FileNode tree of the FAT driver (fat_driver.c): the nodes that      *)
(* fat_driver_find_path and fat_driver_list_directory allocate with malloc *)
(* and chain under their directory, and that fat_driver_list_directory and *)
(* fat_driver_unmount free again.                                          *)
(*                                                                         *)
(* A node is an address of the heap.  The singly linked list of a          *)
(* directory (children, next) is the set kids of the directory: nothing    *)
(* but the order of a printout depends on the order of the list.  The      *)
(* driver is sequential; one call runs at a time, and a call is modelled   *)
(* by one step per path component, per node freed and per node built.      *)
(***************************************************************************)
EXTENDS SequencesExt

CONSTANTS
  Addr,       \* heap addresses at which a FileNode can live (bounds the heap)
  Null,       \* the NULL pointer; also "no directory entry"
  Name,       \* names of directory entries, equal when strcasecmp says so
  Entry,      \* the objects on the image: a first cluster and a type
  RootEntry,  \* the root directory
  Dirs,       \* the objects that are directories
  Contents,   \* Contents[d]: the entries of directory d, in disk order
  Paths,      \* the paths a caller may pass, see Path
  Faults      \* what may fail: "data" a data sector, or malloc; "fat" a FAT sector

Special == {".", "..", ""}             \* components no directory entry has
Component == Name \cup Special
Path == [abs : BOOLEAN, comps : Seq(Component)]
DirEntry == [name : Name, ent : Entry]

ASSUME NullAssumption ==
  Null \notin Addr /\ Null \notin Entry /\ Null \notin DirEntry /\ Null \notin Seq(Name)
ASSUME NameAssumption == Name \cap Special = {}
ASSUME DiskAssumption ==
  /\ RootEntry \in Dirs
  /\ Dirs \subseteq Entry
  /\ Contents \in [Dirs -> Seq(DirEntry)]
ASSUME PathsAssumption == Paths \subseteq Path
ASSUME FaultsAssumption == Faults \subseteq {"data", "fat"}

VARIABLES
  live,     \* the addresses malloc has handed out and free has not taken back
  ent,      \* ent[n]: first_cluster and type of node n
  parent,   \* parent[n]: n->parent
  kids,     \* kids[n]: the nodes in the list n->children
  where,    \* ghost: the names from the root to n; no action reads it
  root,     \* driver->root_directory
  dcwd,     \* driver->current_directory
  op,       \* the call in progress
  cur,      \* `current' of find_path, `dir' of list_directory
  rest,     \* the path components find_path has not consumed
  todo,     \* the directory entries list_directory has not turned into nodes
  doomed,   \* the nodes a call of fat_driver_free_file_node is about to free
  found,    \* what the last find_path returned
  listed,   \* whether the last list_directory returned 0
  failed,   \* ghost: what failed in the last find_path or list_directory
  asked     \* ghost: where find_path started, and its components

heap == <<live, ent, parent, kids, where>>
driver == <<root, dcwd>>
call == <<op, cur, rest, todo, doomed>>
results == <<found, listed, failed, asked>>
vars == <<heap, driver, call, results>>

Busy == {"find", "free", "fill"}
Ops == {"idle", "closing", "closed"} \cup Busy

TypeOK ==
  /\ live \subseteq Addr
  /\ ent \in [Addr -> Entry \cup {Null}]
  /\ parent \in [Addr -> Addr \cup {Null}]
  /\ kids \in [Addr -> SUBSET Addr]
  /\ where \in [Addr -> Seq(Name)]
  /\ root \in Addr \cup {Null}
  /\ dcwd \in Addr \cup {Null}
  /\ op \in Ops
  /\ cur \in Addr \cup {Null}
  /\ op \in Busy => cur \in Addr
  /\ rest \in Seq(Component)
  /\ todo \in Seq(DirEntry)
  /\ doomed \subseteq Addr
  /\ found \in Addr \cup {Null}
  /\ listed \in BOOLEAN
  /\ failed \subseteq Faults
  /\ asked \in [from : Seq(Name), comps : Seq(Component)]

-----------------------------------------------------------------------------
(* Allocation.  fat_driver_fill_file_node and the lines after it: a fresh  *)
(* node for directory entry de, entered at the head of d->children.        *)

\* Mutant: the node is chained but its parent pointer stays NULL.
AttachOrphan(a, d, de) ==
  /\ a \in Addr \ live
  /\ live' = live \cup {a}
  /\ ent' = [ent EXCEPT ![a] = de.ent]
  /\ parent' = parent
  /\ kids' = [kids EXCEPT ![a] = {}, ![d] = @ \cup {a}]
  /\ where' = [where EXCEPT ![a] = Append(where[d], de.name)]

Attach(a, d, de) ==
  /\ a \in Addr \ live
  /\ live' = live \cup {a}
  /\ ent' = [ent EXCEPT ![a] = de.ent]
  /\ parent' = [parent EXCEPT ![a] = d]
  /\ kids' = [kids EXCEPT ![a] = {}, ![d] = @ \cup {a}]
  /\ where' = [where EXCEPT ![a] = Append(where[d], de.name)]

\* No walk in progress.
Nothing == [from |-> <<>>, comps |-> <<>>]

\* The root node of a freshly mounted volume (fat_driver_load_root_directory).
Init ==
  /\ root \in Addr
  /\ live = {root}
  /\ ent = [n \in Addr |-> IF n = root THEN RootEntry ELSE Null]
  /\ parent = [n \in Addr |-> Null]
  /\ kids = [n \in Addr |-> {}]
  /\ where = [n \in Addr |-> <<>>]
  /\ dcwd = root
  /\ op = "idle" /\ cur = Null /\ rest = <<>> /\ todo = <<>> /\ doomed = {}
  /\ found = Null /\ listed = FALSE /\ failed = {} /\ asked = Nothing

-----------------------------------------------------------------------------
(* fat_driver_find_path *)

\* An absolute path starts at the root, any other at the driver's directory.
StartFind(p) ==
  /\ op = "idle"
  /\ op' = "find"
  /\ cur' = IF p.abs THEN root ELSE dcwd
  /\ rest' = p.comps
  /\ asked' = [from |-> where[cur'], comps |-> p.comps]
  /\ UNCHANGED <<heap, driver, todo, doomed, found, listed, failed>>

FindReturn(n, bad) ==
  /\ op' = "idle"
  /\ found' = n
  /\ failed' = bad
  /\ cur' = Null /\ rest' = <<>> /\ asked' = Nothing
  /\ UNCHANGED <<heap, driver, todo, doomed, listed>>

\* Mutant: ".." is skipped like ".".
FindDotsSkip ==
  /\ op = "find" /\ rest # <<>> /\ Head(rest) \in {".", ".."}
  /\ rest' = Tail(rest)
  /\ UNCHANGED <<heap, driver, op, cur, todo, doomed, results>>

\* "." is skipped; ".." climbs the parent pointer, and stays where there is none.
FindDots ==
  /\ op = "find" /\ rest # <<>> /\ Head(rest) \in {".", ".."}
  /\ cur' = IF Head(rest) = ".." /\ parent[cur] # Null THEN parent[cur] ELSE cur
  /\ rest' = Tail(rest)
  /\ UNCHANGED <<heap, driver, op, todo, doomed, results>>

\* fat_driver_find_in_directory stops at the first entry with that name.
FirstMatch(d, nm) ==
  LET hits == {i \in DOMAIN Contents[d] : Contents[d][i].name = nm}
  IN  IF hits = {} THEN Null
      ELSE Contents[d][CHOOSE i \in hits : \A j \in hits : i <= j]

\* The node find_path goes on with: the match, if it is the last component or
\* a directory.
Usable(de) == de # Null /\ (Tail(rest) = <<>> \/ de.ent \in Dirs)

FindEnter ==
  /\ op = "find" /\ rest # <<>> /\ Head(rest) \notin {".", ".."}
  /\ LET de == FirstMatch(ent[cur], Head(rest)) IN
       /\ Usable(de)
       /\ \E a \in Addr : Attach(a, cur, de) /\ cur' = a
  /\ rest' = Tail(rest)
  /\ UNCHANGED <<driver, op, todo, doomed, results>>

\* No such entry, or a file in the middle of the path (its node is freed before
\* it is attached), or a sector that cannot be read: NULL.
FindFail ==
  /\ op = "find" /\ rest # <<>> /\ Head(rest) \notin {".", ".."}
  /\ \/ ~ Usable(FirstMatch(ent[cur], Head(rest))) /\ FindReturn(Null, {})
     \/ \E f \in Faults : FindReturn(Null, {f})

FindDone ==
  /\ op = "find" /\ rest = <<>>
  /\ FindReturn(cur, {})

-----------------------------------------------------------------------------
(* fat_driver_list_directory and fat_driver_free_file_node *)

\* Mutant: the node is freed with its children.
StartListSelf(n) ==
  /\ op = "idle"
  /\ ent[n] \in Dirs
  /\ op' = "free"
  /\ cur' = n
  /\ doomed' = {n}
  /\ todo' = Contents[ent[n]]
  /\ UNCHANGED <<heap, driver, rest, results>>

\* Mutant: existing children are kept.
StartListKeep(n) ==
  /\ op = "idle"
  /\ ent[n] \in Dirs
  /\ op' = "free"
  /\ cur' = n
  /\ doomed' = {}
  /\ todo' = Contents[ent[n]]
  /\ UNCHANGED <<heap, driver, rest, results>>

\* The children of n are freed first, whatever happens next.
StartList(n) ==
  /\ op = "idle"
  /\ ent[n] \in Dirs
  /\ op' = "free"
  /\ cur' = n
  /\ doomed' = kids[n]
  /\ todo' = Contents[ent[n]]
  /\ UNCHANGED <<heap, driver, rest, results>>

\* fat_driver_free_file_node enters the children of n before it frees n ...
FreeChildren(n) ==
  /\ op \in {"free", "closing"} /\ n \in doomed
  /\ ~ kids[n] \subseteq doomed
  /\ doomed' = doomed \cup kids[n]
  /\ UNCHANGED <<heap, driver, op, cur, rest, todo, results>>

\* ... and frees n when they are gone.
FreeNode(n) ==
  /\ op \in {"free", "closing"} /\ n \in doomed
  /\ kids[n] = {}
  /\ live' = live \ {n}
  /\ doomed' = doomed \ {n}
  /\ kids' = [d \in Addr |-> kids[d] \ {n}]
  /\ ent' = [ent EXCEPT ![n] = Null]
  /\ parent' = [parent EXCEPT ![n] = Null]
  /\ where' = [where EXCEPT ![n] = <<>>]
  /\ UNCHANGED <<driver, op, cur, rest, todo, results>>

FreeDone ==
  /\ op = "free" /\ doomed = {}
  /\ op' = "fill"
  /\ UNCHANGED <<heap, driver, cur, rest, todo, doomed, results>>

ListEntry ==
  /\ op = "fill" /\ todo # <<>>
  /\ \E a \in Addr : Attach(a, cur, Head(todo))
  /\ todo' = Tail(todo)
  /\ UNCHANGED <<driver, op, cur, rest, doomed, results>>

\* All entries are in; or a buffer, a node or a data sector was not to be had
\* (-1); or a FAT sector was not, which get_next_cluster reports as cluster 0
\* and the chain loop takes for its end (0).  The nodes built so far stay.
ListReturn(ok) ==
  /\ op = "fill"
  /\ \/ ok /\ todo = <<>> /\ failed' = {}
     \/ ok /\ "fat" \in Faults /\ failed' = {"fat"}
     \/ ~ ok /\ "data" \in Faults /\ failed' = {"data"}
  /\ op' = "idle"
  /\ cur' = Null /\ todo' = <<>>
  /\ listed' = ok
  /\ UNCHANGED <<heap, driver, rest, doomed, found, asked>>

-----------------------------------------------------------------------------
(* fat_driver_set_current_directory and fat_driver_unmount *)

SetCurrentDirectory(n) ==
  /\ op = "idle" /\ ent[n] \in Dirs
  /\ dcwd' = n
  /\ UNCHANGED <<heap, root, call, results>>

\* Mutant: only the current directory is freed.
UnmountCurrent ==
  /\ op = "idle"
  /\ op' = "closing"
  /\ doomed' = {dcwd}
  /\ UNCHANGED <<heap, driver, cur, rest, todo, results>>

Unmount ==
  /\ op = "idle"
  /\ op' = "closing"
  /\ doomed' = {root}
  /\ UNCHANGED <<heap, driver, cur, rest, todo, results>>

UnmountDone ==
  /\ op = "closing" /\ doomed = {}
  /\ op' = "closed"
  /\ root' = Null /\ dcwd' = Null
  /\ UNCHANGED <<heap, cur, rest, todo, doomed, results>>

-----------------------------------------------------------------------------
(* The driver below a caller that passes only live nodes and never has the *)
(* driver's current directory freed under it.                              *)

\* A set of nodes that holds the children of its members.
ClosedUnderKids(S) == \A n \in S : kids[n] \subseteq S

\* m is not below n: freeing the subtrees of n's children spares it.
Spared(m, n) == \E S \in SUBSET Addr :
                  kids[n] \subseteq S /\ ClosedUnderKids(S) /\ m \notin S

CallerFind == \E p \in Paths : StartFind(p)
CallerList == \E n \in live : Spared(dcwd, n) /\ StartList(n)
CallerSet == \E n \in live : SetCurrentDirectory(n)

DriverStep ==
  \/ FindDots
  \/ FindEnter
  \/ FindFail
  \/ FindDone
  \/ \E n \in doomed : FreeChildren(n)
  \/ \E n \in doomed : FreeNode(n)
  \/ FreeDone
  \/ ListEntry
  \/ \E ok \in BOOLEAN : ListReturn(ok)
  \/ UnmountDone

Next ==
  \/ CallerFind
  \/ CallerList
  \/ CallerSet
  \/ Unmount
  \/ DriverStep

Spec == Init /\ [][Next]_vars

-----------------------------------------------------------------------------
(* Properties *)

Open == op \notin {"closing", "closed"}

\* The nodes form a forest of live memory: a child is live, hangs under one
\* live directory, which its parent pointer names, and lies one level below it
\* (so no directory is its own descendant); a node about to be freed is live.
\* (find_path attaches, list_directory frees and rebuilds, unmount frees.)
Shape ==
  /\ \A d \in Addr : \A k \in kids[d] :
       /\ d \in live /\ k \in live \ {root}
       /\ parent[k] = d
       /\ Len(where[k]) = Len(where[d]) + 1
  /\ doomed \subseteq live

\* Nothing is lost: a live node is the root, or in the children list of its
\* live parent, from where a listing or an unmount will reach it.  (find_path
\* attaches every node it returns: "or we leak if we don't track".)
Reachable ==
  \A n \in live \ {root} : parent[n] \in live /\ n \in kids[parent[n]]

\* The driver never works on a freed node: its root, its current directory and
\* the node its call in progress holds are live, and what it holds to scan is
\* a directory.
HandlesLive ==
  /\ Open => root \in live /\ dcwd \in live /\ ent[dcwd] \in Dirs
  /\ op \in Busy => cur \in live
  /\ op \in {"free", "fill"} => ent[cur] \in Dirs
  /\ op = "find" /\ rest # <<>> => ent[cur] \in Dirs

\* Unmounting gives every node back (fat_driver_unmount, "Free memory").
NoLeak == op = "closed" => live = {}

\* Every node is accounted for, as long as the volume is mounted and after it: in the
\* tree, where a listing or an unmount finds it, or given back.
NoNodeLost == Reachable /\ NoLeak

\* What a node is freed or entered on: freeing happens only inside a call that
\* frees, strictly below the directory being listed and nowhere near the
\* driver's directory; only directories have children; the root is the top.
Standing ==
  /\ op \notin {"free", "closing"} => doomed = {}
  /\ root # Null => where[root] = <<>> /\ parent[root] = Null
  /\ Open => ent[root] \in Dirs
  /\ \A d \in Addr : kids[d] # {} => ent[d] \in Dirs
  /\ op = "free" =>
       /\ \A m \in doomed : Len(where[m]) > Len(where[cur])
       /\ \E S \in SUBSET Addr : doomed \subseteq S /\ ClosedUnderKids(S) /\ dcwd \notin S
  /\ op = "closing" /\ root \in live => root \in doomed

\* The inductive invariant.
IInv == TypeOK /\ Shape /\ Reachable /\ HandlesLive /\ Standing /\ NoLeak

\* The children of a node that was listed, and the entries of its directory.
Built(n) == {[name |-> Last(where[k]), ent |-> ent[k]] : k \in kids[n]}
Exact(n) == LET disk == Contents[ent[n]]
            IN  /\ Built(n) = {disk[i] : i \in DOMAIN disk}
                /\ Cardinality(kids[n]) = Len(disk)

Listing == op = "fill" /\ op' = "idle" /\ listed'

\* After a listing that returned 0 the children are the directory's entries,
\* each once, whatever find_path had attached before ("Free existing children
\* to avoid duplicates"), and whatever failed but a sector of the FAT: that one
\* ends the listing early, and it still returns 0.
ListingExact == [][ Listing /\ "fat" \notin failed' => Exact(cur) ]_vars

\* The object called nm in e, Null if there is none.
Into ==
  [e \in Entry \cup {Null} |-> [nm \in Component |->
     IF e \notin Dirs \/ FirstMatch(e, nm) = Null THEN Null ELSE FirstMatch(e, nm).ent]]

\* The object at the end of a sequence of names from the root, Null if none.
ObjectAt(names) == FoldLeft(LAMBDA e, nm : Into[e][nm], RootEntry, names)

\* One component further from the directory at w, a sequence of names.
Go ==
  LET leaf(w, c) == IF ObjectAt(Append(w, c)) = Null THEN Null ELSE Append(w, c)
      climb(w) == IF w = <<>> THEN w ELSE Front(w)
  IN  [w \in {Null} \cup Seq(Name) |-> [c \in Component |->
         IF w = Null \/ ObjectAt(w) \notin Dirs THEN Null
         ELSE CASE c = "."  -> w
                [] c = ".." -> climb(w)
                [] OTHER    -> leaf(w, c)]]

\* Where a walk over comps from the directory at `from' ends, Null if nowhere.
Walk(from, comps) == FoldLeft(LAMBDA w, c : Go[w][c], from, comps)

\* find_path returns the node of the object its path names, walked from where
\* it started, and NULL only when the walk leads nowhere; so the on-demand
\* nodes and their parent pointers answer ".." as a full tree would ("setup
\* parent pointer for the new node so .. works").
FindResolvesPath ==
  [][ (op = "find" /\ op' = "idle") =>
        LET end == Walk(asked.from, asked.comps)
        IN  IF found' = Null THEN failed' # {} \/ end = Null
            ELSE where[found'] = end /\ ent[found'] = ObjectAt(end) ]_vars
=============================================================================
