---------------------------- MODULE ChainReader ----------------------------
(***************************************************************************)
(* The loops of the FAT driver that follow a chain of clusters through the *)
(* table (fat_driver.c): the bytes of a file (read_file), the sectors of a *)
(* directory (list_directory and find_in_directory, which scan alike), and *)
(* the count of free clusters (get_filesystem_info).  Each asks FatTable   *)
(* for one entry at a time and takes it on trust: on an image, any cluster *)
(* may name any other.                                                     *)
(*                                                                         *)
(* Sectors are numbered as on the volume, a byte by its place in the image *)
(* (of a dump: in the logical area).  The driver computes both in 32 bits, *)
(* so a cluster far past the volume comes round to another place.          *)
(***************************************************************************)
EXTENDS FatTable, Integers, Sequences, FiniteSets

CONSTANTS
  TotalClusters,      \* total_clusters
  Eoc,                \* the least end-of-chain mark of the FAT type
  Top,                \* the largest value of an entry
  SectorsPerCluster,
  SectorSize,
  FirstDataSector,
  RootSector,         \* first_root_dir_sector
  RootSectors,        \* root_dir_sectors, 0 for FAT32
  Word,               \* 2^32: the numbers of uint32_t
  Offsets,            \* the byte offsets: Word on a plain image (ip_driver.c);
                      \* on a dump (hal.c) those of all Word sectors
  ImageSize,          \* bytes that can be read
  EndPlaces,          \* places of the sectors whose entries hold the end mark 0x00
  Sizes,              \* sizes of files and buffers
  Tables              \* the tables considered

ASSUME ChainAssumption ==
  /\ Eoc \in Nat /\ Top \in Nat /\ Eoc <= Top
  /\ TotalClusters \in Nat /\ TotalClusters + 2 <= Eoc
  /\ Zero = 0 /\ Clusters = 1 .. Eoc - 1 /\ Values = 0 .. Top
  /\ NoCluster \notin Values
  /\ Tables \subseteq [Clusters -> Values]
  /\ Faults \subseteq {"fail", "short"}
\* fat_driver_mount refuses 0 sectors per cluster; hal_init fixes the sector size.
ASSUME GeometryAssumption ==
  /\ SectorsPerCluster \in Nat \ {0} /\ SectorSize \in Nat \ {0}
  /\ FirstDataSector \in Nat /\ RootSector \in Nat /\ RootSectors \in Nat
  /\ ImageSize \in Nat
  /\ EndPlaces \subseteq Nat
  /\ Sizes \subseteq Nat
\* The arithmetic of fat_driver_cluster_to_sector, and of ip_driver_read_buffer or
\* hal_read_sector.
ASSUME WordAssumption ==
  Word \in Nat \ {0} /\ Offsets \in Nat \ {0} /\ Offsets <= Word * SectorSize

VARIABLES
  kind,     \* the call in progress
  fixed,    \* is_root_16: a scan of the root of FAT12 and FAT16
  step,     \* where it is: at the head of its loop, in the cluster, or awaiting FAT
  cluster,  \* current_cluster; `i' of get_filesystem_info
  sector,   \* index of the next sector in the cluster (root: in the root)
  want,     \* bytes_to_read
  limit,    \* ghost: the size of the caller's buffer
  buffer,   \* the places of the bytes copied so far
  count,    \* free_clusters
  path,     \* ghost: the clusters entered (for a directory, each but once)
  misread,  \* ghost: the clusters whose entry the call was not given
  result    \* what the last call returned

locals == <<kind, fixed, cluster, sector, want, limit, buffer, count, path, misread>>
chainvars == <<vars, step, locals, result>>

Scans == {"list", "find"}
Kinds == {"none", "read", "free"} \cup Scans
Failed == -1
NULL == 0   \* from find_in_directory: no match, or an error
Match == 1  \* from find_in_directory: a node

ChainTypeOK ==
  /\ table \in [Clusters -> Values]
  /\ asked \in Clusters \cup {NoCluster}
  /\ got \in Values
  /\ kind \in Kinds /\ fixed \in BOOLEAN
  /\ step \in {"idle", "head", "sector", "fat"}
  /\ cluster \in 0 .. Top
  /\ sector \in 0 .. SectorsPerCluster + RootSectors
  /\ want \in Nat /\ limit \in Nat /\ count \in Nat
  /\ buffer \in Seq(Nat)
  /\ path \in Seq(Clusters)
  /\ misread \subseteq Clusters
  /\ result \in Nat \cup {Failed}

ChainInit ==
  /\ table \in Tables /\ Init
  /\ kind = "none" /\ fixed = FALSE /\ step = "idle"
  /\ cluster = 0 /\ sector = 0 /\ want = 0 /\ limit = 0
  /\ buffer = <<>> /\ count = 0 /\ path = <<>> /\ misread = {}
  /\ result = 0

-----------------------------------------------------------------------------
(* Clusters and sectors *)

\* Mutant: the mark of a bad cluster ends a chain.
IsEocBad(c) == c >= Eoc - 1

IsEoc(c) == c >= Eoc

\* The reserved clusters 0 and 1 are at sector 0, the boot sector.
ClusterToSector(c) ==
  IF c < 2 THEN 0 ELSE (FirstDataSector + (c - 2) * SectorsPerCluster) % Word

-----------------------------------------------------------------------------
(* The calls *)

Call(k, c) ==
  /\ step = "idle"
  /\ kind' = k /\ cluster' = c
  /\ step' = "head"
  /\ UNCHANGED <<vars, sector, buffer, count, path, misread, result>>

\* fat_driver_read_file of a file of that first cluster and size.
StartRead(c, filesize, size) ==
  /\ Call("read", c)
  /\ want' = IF size > filesize THEN filesize ELSE size
  /\ limit' = size
  /\ UNCHANGED fixed

StartScan(k, c) ==
  /\ k \in Scans
  /\ Call(k, c)
  /\ UNCHANGED <<fixed, want, limit>>

\* The root of FAT12 and FAT16 is a range of sectors.
StartRoot(k) ==
  /\ k \in Scans
  /\ Call(k, 0)
  /\ fixed' = TRUE
  /\ UNCHANGED <<want, limit>>

StartFree ==
  /\ Call("free", 2)
  /\ UNCHANGED <<fixed, want, limit>>

Return(r) ==
  /\ result' = r
  /\ step' = "idle"
  /\ kind' = "none" /\ fixed' = FALSE
  /\ cluster' = 0 /\ sector' = 0 /\ want' = 0 /\ limit' = 0
  /\ buffer' = <<>> /\ count' = 0 /\ path' = <<>> /\ misread' = {}
  /\ UNCHANGED vars

\* What a scan returns at its end: 0 from a listing, NULL from a search.
ScanEnd == 0

-----------------------------------------------------------------------------
(* The head of the loop *)

\* The sector buffer is not to be had.
NoBuffer ==
  /\ step = "head" /\ kind # "free" /\ path = <<>>
  /\ "fail" \in Faults
  /\ Return(IF kind = "find" THEN NULL ELSE Failed)

\* Mutant: the chain is followed for as long as it goes on.
ChainGoesOnUnasked ==
  IF kind = "read" THEN cluster >= 2 /\ ~ IsEoc(cluster)
  ELSE fixed \/ (cluster # 0 /\ ~ IsEoc(cluster))

\* A file is read while bytes are missing and the chain has clusters; a
\* directory while the chain goes on, the fixed root without one.
ChainGoesOn ==
  IF kind = "read" THEN Len(buffer) < want /\ cluster >= 2 /\ ~ IsEoc(cluster)
  ELSE fixed \/ (cluster # 0 /\ ~ IsEoc(cluster))

Visit(c) == IF fixed \/ (kind \in Scans /\ \E i \in DOMAIN path : path[i] = c)
            THEN path ELSE Append(path, c)

EnterCluster ==
  /\ step = "head" /\ kind # "free"
  /\ ChainGoesOn
  /\ step' = "sector" /\ sector' = 0
  /\ path' = Visit(cluster)
  /\ UNCHANGED <<vars, kind, fixed, cluster, want, limit, buffer, count, misread, result>>

LeaveChain ==
  /\ step = "head" /\ kind # "free"
  /\ ~ ChainGoesOn
  /\ Return(IF kind = "read" THEN Len(buffer) ELSE ScanEnd)

-----------------------------------------------------------------------------
(* The sectors of a cluster *)

Here == ((IF fixed THEN RootSector ELSE ClusterToSector(cluster)) + sector) % Word

\* The offset the file is read at: of a plain image, a 32-bit product.
There == (Here * SectorSize) % Offsets

InImage == There + SectorSize <= ImageSize

SectorsToGo ==
  IF fixed THEN sector < RootSectors
  ELSE sector < SectorsPerCluster /\ (kind = "read" => Len(buffer) < want)

\* The places of the first n bytes from p on.
Bytes(p, n) == [i \in 1 .. n |-> p + i - 1]

Missing == want - Len(buffer)

\* Mutant: a sector is copied whole.
CopySectorWhole ==
  /\ step = "sector" /\ kind = "read" /\ SectorsToGo
  /\ InImage
  /\ buffer' = buffer \o Bytes(There, SectorSize)
  /\ sector' = sector + 1
  /\ UNCHANGED <<vars, kind, fixed, step, cluster, want, limit, count, path, misread, result>>

CopySector ==
  /\ step = "sector" /\ kind = "read" /\ SectorsToGo
  /\ InImage
  /\ buffer' = buffer \o Bytes(There, IF Missing > SectorSize THEN SectorSize ELSE Missing)
  /\ sector' = sector + 1
  /\ UNCHANGED <<vars, kind, fixed, step, cluster, want, limit, count, path, misread, result>>

\* The entries of the sector are gone through; none ends the scan.
ScanSector ==
  /\ step = "sector" /\ kind \in Scans /\ SectorsToGo
  /\ InImage /\ There \notin EndPlaces
  /\ sector' = sector + 1
  /\ UNCHANGED <<vars, kind, fixed, step, cluster, want, limit, buffer, count, path, misread, result>>

\* The end mark, or before it the entry that find_in_directory looks for.
ScanStops ==
  /\ step = "sector" /\ kind \in Scans /\ SectorsToGo
  /\ InImage
  /\ \/ There \in EndPlaces /\ Return(ScanEnd)
     \/ kind = "find" /\ Return(Match)

\* The sector is past the image, or cannot be read; or, once it is read, a listing
\* finds no memory for a node.
SectorFails ==
  /\ step = "sector" /\ SectorsToGo
  /\ ~ InImage \/ Faults # {}
  /\ Return(IF kind = "find" THEN NULL ELSE Failed)

LeaveRoot ==
  /\ step = "sector" /\ fixed /\ ~ SectorsToGo
  /\ Return(ScanEnd)

-----------------------------------------------------------------------------
(* The table *)

AskNext ==
  /\ step = "sector" /\ ~ fixed /\ ~ SectorsToGo
  /\ Ask(cluster)
  /\ step' = "fat"
  /\ UNCHANGED <<locals, result>>

\* Mutant: the clusters are counted as if they began with 0.
LastCountedFromZero == TotalClusters

LastCounted == TotalClusters + 2

CountNext ==
  /\ step = "head" /\ kind = "free"
  /\ cluster < LastCounted
  /\ Ask(cluster)
  /\ step' = "fat"
  /\ UNCHANGED <<locals, result>>

CountDone ==
  /\ step = "head" /\ kind = "free"
  /\ cluster >= LastCounted
  /\ Return(count)

TableAnswers ==
  /\ step = "fat" /\ Answer
  /\ misread' = IF got' = table[asked] THEN misread ELSE misread \cup {asked}
  /\ UNCHANGED <<kind, fixed, step, cluster, sector, want, limit, buffer, count, path, result>>

TableRereads ==
  /\ step = "fat" /\ Reread
  /\ UNCHANGED <<step, locals, result>>

\* Mutant: the count goes on from a free cluster only.
GoOnFree ==
  /\ step = "fat" /\ asked = NoCluster
  /\ step' = "head"
  /\ IF kind = "free"
     THEN IF got = 0 THEN count' = count + 1 /\ cluster' = cluster + 1
                     ELSE UNCHANGED <<count, cluster>>
     ELSE cluster' = got /\ count' = count
  /\ UNCHANGED <<vars, kind, fixed, sector, want, limit, buffer, path, misread, result>>

GoOn ==
  /\ step = "fat" /\ asked = NoCluster
  /\ step' = "head"
  /\ IF kind = "free"
     THEN /\ count' = IF got = 0 THEN count + 1 ELSE count
          /\ cluster' = cluster + 1
     ELSE cluster' = got /\ count' = count
  /\ UNCHANGED <<vars, kind, fixed, sector, want, limit, buffer, path, misread, result>>

ChainStep ==
  \/ NoBuffer
  \/ EnterCluster
  \/ LeaveChain
  \/ CopySector
  \/ ScanSector
  \/ ScanStops
  \/ SectorFails
  \/ LeaveRoot
  \/ AskNext
  \/ CountNext
  \/ CountDone
  \/ TableAnswers
  \/ TableRereads
  \/ GoOn

ChainNext ==
  \/ \E c \in 0 .. Top, f, s \in Sizes : StartRead(c, f, s)
  \/ \E c \in 0 .. Top, k \in Scans : StartScan(k, c)
  \/ \E k \in Scans : StartRoot(k)
  \/ StartFree
  \/ ChainStep

ChainSpec == ChainInit /\ [][ChainNext]_chainvars

\* A call that has begun goes on: the program has one thread.
LiveSpec == ChainSpec /\ WF_chainvars(ChainStep)

-----------------------------------------------------------------------------
(* Properties *)

ClusterBytes == SectorsPerCluster * SectorSize

\* Where byte j of a file lies, from the cluster the chain has there.
PlaceOf(j) == FirstDataSector * SectorSize
            + (path[1 + (j - 1) \div ClusterBytes] - 2) * ClusterBytes
            + ((j - 1) % ClusterBytes)

\* A read never writes past the caller's buffer or the file's size, and follows
\* the chain, cluster after cluster as the table links them, in the data area
\* only; a chain that goes in a circle too.  What it has copied is the content
\* of the chain, wherever that lies within the offsets that the driver can
\* compute: past them (a cluster beyond every volume, or a plain image of more
\* than 2^32 bytes) it may be any other part of the image.
ReadsChain ==
  kind = "read" =>
    /\ Len(buffer) <= want /\ want <= limit
    /\ \A k \in DOMAIN path : path[k] >= 2 /\ path[k] < Eoc
    /\ \A k \in 1 .. Len(path) - 1 : path[k] \notin misread => path[k + 1] = table[path[k]]
    /\ \A j \in DOMAIN buffer : PlaceOf(j) < Offsets => buffer[j] = PlaceOf(j)

Returning == step # "idle" /\ step' = "idle"

\* A read that returns fewer bytes than it could has come to the end of the
\* chain, not before: it read whole clusters, and the last one has no successor,
\* unless its entry could not be read.
ReadShort ==
  [][ (Returning /\ kind = "read" /\ result' # Failed /\ result' < want) =>
        /\ result' = Len(path) * ClusterBytes
        /\ path # <<>> => LET last == path[Len(path)]
                         IN  last \in misread \/ table[last] \notin 2 .. Eoc - 1 ]_chainvars

FreeClusters == {c \in 2 .. TotalClusters + 1 : table[c] = 0}

\* get_filesystem_info counts the free clusters, each once, but for those whose
\* entry it was not given: it may be wrong about these, and only about these.
FreeCounted ==
  [][ (Returning /\ kind = "free") =>
        /\ result' >= Cardinality(FreeClusters \ misread)
        /\ result' <= Cardinality(FreeClusters \cup misread) ]_chainvars

\* A directory's chain has come back to a cluster it has been through.
InCircle == kind \in Scans /\ step = "head" /\ \E i \in DOMAIN path : path[i] = cluster

\* Rounds a call has before it: bytes missing, clusters not counted, clusters not entered.
Rounds ==
  CASE kind = "read" -> Missing
    [] kind = "free" -> LastCounted - cluster
    [] OTHER -> Cardinality(Clusters \ {path[i] : i \in DOMAIN path})

MostSectors == SectorsPerCluster + RootSectors

\* Steps of a round to come; a read's round ends with the first sector of a cluster,
\* a scan's with its head.
InTable == IF step # "fat" THEN 0 ELSE IF asked = NoCluster THEN 1 ELSE IF sound THEN 2 ELSE 3
StepsOfRound ==
  CASE kind = "read" -> IF step = "sector" THEN IF sector = 0 THEN 0 ELSE 5 ELSE 1 + InTable
    [] kind = "free" -> IF step = "head" THEN 4 ELSE InTable
    [] OTHER -> IF step = "sector" THEN 4 + MostSectors - sector
                ELSE IF fixed THEN MostSectors + 5 ELSE InTable

Rank == Rounds * (MostSectors + 6) + StepsOfRound

\* Each step of a call that does not end it brings its end nearer, on any table and with
\* any faults, unless a directory's chain has gone in a circle: a read in a circle ends
\* as well, and so does a count whatever the entries.
CallsAdvance ==
  [][ (step # "idle" /\ step' # "idle" /\ ~ InCircle) => Rank' \in 0 .. Rank - 1 ]_chainvars

\* Every call returns, on any table, but the scan of a directory whose chain goes
\* in a circle; a read is stopped by the size of the file even there.
CallsReturn == step # "idle" ~> step = "idle" \/ InCircle
=============================================================================
