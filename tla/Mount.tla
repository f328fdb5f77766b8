------------------------------- MODULE Mount -------------------------------
(***************************************************************************)
(* How an image is opened and its volume laid out: hal_init with the       *)
(* layout of wl_layer_init, then fat_driver_mount with parse_boot_sector,  *)
(* get_fat_type and load_root_directory; and where cluster_to_sector then  *)
(* finds a cluster.                                                        *)
(*                                                                         *)
(* Sizes of a partition are in bytes and 64 bits wide, sector numbers are  *)
(* uint32_t and wrap at Word.                                              *)
(***************************************************************************)
EXTENDS Integers, SequencesExt

CONSTANTS
  Word,        \* 2^32
  EntrySize,   \* bytes of a directory entry: 32
  Fat12End,    \* clusters that FAT12 has not: 4085
  Fat16End,    \* clusters that FAT16 has not: 65525
  SectorSize,  \* config.sector_size, which the middleware sets to 512
  Candidates,  \* flash sector sizes that are tried: 4096, 512
  PageUnit,    \* pages are a multiple of it: 512
  HeaderSize,  \* WL_STATE_HEADER_SIZE
  ConfigSize,  \* WL_CONFIG_SIZE
  Images,      \* the images opened
  NoLayout, NoConfig

(* An image: the fields of its boot sector, and those that the first sector *)
(* of the file has (raw), which in a dump is another one; ghost: the layout *)
(* of the volume that a formatter made, or NoLayout; the wl_config whose CRC *)
(* and version hold, with the distance of its place from the end of the     *)
(* file, or NoConfig; the size of the file; whether a copy of the state is  *)
(* valid and, in it, max_pos.                                               *)
Boots == [bps : Nat, spc : Nat, reserved : Nat, fats : Nat, entries : Nat,
          total16 : Nat, fatsize16 : Nat, total32 : Nat, fatsize32 : Nat, root : Nat]
Configs == [full : Nat, page : Nat, sector : Nat, record : Nat, place : Nat]

ASSUME NumberAssumption ==
  /\ Word \in Nat \ {0} /\ EntrySize \in Nat /\ SectorSize \in Nat \ {0}
  /\ Fat12End \in Nat \ {0} /\ Fat16End \in Nat /\ Fat12End <= Fat16End
  /\ Candidates \subseteq Nat \ {0} /\ PageUnit \in Nat \ {0}
  /\ HeaderSize \in Nat \ {0} /\ ConfigSize \in Nat \ {0}
ASSUME ImageAssumption ==
  \A i \in Images :
    /\ \A b \in {i.boot, i.raw} : b \in Boots /\ b.total16 < Word /\ b.total32 < Word
    /\ i.config = NoConfig \/ i.config \in Configs
    /\ i.size \in Nat /\ i.max_pos \in Nat /\ i.state \in BOOLEAN
ASSUME NoConfigAssumption == NoConfig \notin Configs

VARIABLES
  image,
  step,         \* "closed", then "open", then "mounted"; or "refused"
  wl,           \* enabled and the layout of the wear-levelling layer
  boot_sector,  \* driver->boot_sector
  geometry,     \* what mount works out, 0 before
  root_cluster, \* root_directory->first_cluster
  harm          \* ghost: memory or a read has failed

vars == <<image, step, wl, boot_sector, geometry, root_cluster, harm>>

NotWL == [enabled |-> FALSE, flash_size |-> 0, state1 |-> 0, state2 |-> 0, cfg |-> 0]
NoBoot == [bps |-> 0, spc |-> 0, reserved |-> 0, fats |-> 0, entries |-> 0,
           total16 |-> 0, fatsize16 |-> 0, total32 |-> 0, fatsize32 |-> 0, root |-> 0]
NoGeometry == [first_fat |-> 0, root_sectors |-> 0, first_root |-> 0, first_data |-> 0,
               data_sectors |-> 0, total_clusters |-> 0]

Init ==
  /\ image \in Images /\ step = "closed" /\ wl = NotWL
  /\ boot_sector = NoBoot /\ geometry = NoGeometry /\ root_cluster = 0
  /\ harm = FALSE

RoundUp(n, unit) == ((n + unit - 1) \div unit) * unit

-----------------------------------------------------------------------------
(* hal_init: what kind of image it is *)

\* wl_try_parse_cfg for one of the candidates.
Parses(i, c) ==
  LET cfg == i.config IN
    /\ cfg # NoConfig
    /\ cfg.place = RoundUp(ConfigSize, c)
    /\ cfg.full = i.size /\ cfg.sector = c
    /\ cfg.page # 0 /\ cfg.page % PageUnit = 0
    /\ cfg.record # 0 /\ cfg.record <= c

Found == \E c \in Candidates : Parses(image, c)

CfgArea == RoundUp(ConfigSize, image.config.sector)
MinState == HeaderSize + (image.config.full \div image.config.sector) * image.config.record

\* Mutant: the records do not count.
StateSizeHeader == image.config.sector

StateSize == IF image.config.sector < MinState THEN RoundUp(MinState, image.config.sector)
             ELSE image.config.sector

\* Mutant: no room for the dummy page.
RoomNoDummy == image.config.full >= StateSize * 2 + CfgArea

Room == image.config.full >= StateSize * 2 + CfgArea + image.config.page

Layout(on) ==
  LET full == image.config.full
      data == full - StateSize * 2 - CfgArea
  IN  [enabled |-> on,
       state1 |-> data, state2 |-> full - StateSize - CfgArea, cfg |-> full - CfgArea,
       flash_size |-> (data \div image.config.page - 1) * image.config.page]

Opened(s, layout, failed) ==
  /\ step = "closed"
  /\ step' = s /\ wl' = layout /\ harm' = failed
  /\ UNCHANGED <<image, boot_sector, geometry, root_cluster>>

OpenEmpty == image.size = 0 /\ Opened("refused", NotWL, FALSE)
OpenPlain == image.size # 0 /\ ~ (Found /\ Room) /\ Opened("open", NotWL, FALSE)
OpenDump == Found /\ Room /\ image.state /\ Opened("open", Layout(TRUE), FALSE)
OpenCorrupt == Found /\ Room /\ ~ image.state /\ Opened("refused", Layout(FALSE), FALSE)

\* The file cannot be opened or its size not be had, or no header of the state be read.
OpenFails ==
  \/ Opened("refused", NotWL, TRUE)
  \/ Found /\ Room /\ Opened("refused", Layout(FALSE), TRUE)

\* The config of a dump cannot be read: it is taken for a plain image.
OpenMistaken == Found /\ Room /\ Opened("open", NotWL, TRUE)

-----------------------------------------------------------------------------
(* fat_driver_mount *)

Add(a, b) == (a + b) % Word
Mul(a, b) == (a * b) % Word
Sub(a, b) == (a - b) % Word

\* fat_driver_parse_boot_sector: where FAT12 and FAT16 have other fields, those of
\* FAT32 stay 0.
BootRead == IF wl.enabled THEN image.boot ELSE image.raw

Parsed ==
  IF BootRead.fatsize16 = 0 THEN BootRead
  ELSE [BootRead EXCEPT !.fatsize32 = 0, !.root = 0]

FatType(clusters) == IF clusters < Fat12End THEN 12 ELSE IF clusters < Fat16End THEN 16 ELSE 32

FatSize(bs) == IF bs.fatsize16 # 0 THEN bs.fatsize16 ELSE bs.fatsize32
TotalSectors(bs) == IF bs.total16 # 0 THEN bs.total16 ELSE bs.total32

\* Mutant: a sector that the root fills in part does not count.
RootSectorsDown(bs) == (bs.entries * EntrySize) \div bs.bps

RootSectors(bs) == (bs.entries * EntrySize + (bs.bps - 1)) \div bs.bps

FirstRoot(bs) == Add(bs.reserved, Mul(bs.fats, FatSize(bs)))

\* It asks for the FAT type before total_clusters is set.
FirstData(bs) ==
  IF FatType(geometry.total_clusters) = 32
  THEN Add(bs.reserved, Mul(bs.fats, bs.fatsize32))
  ELSE Add(FirstRoot(bs), RootSectors(bs))

Metadata(bs) == Add(Add(bs.reserved, Mul(bs.fats, FatSize(bs))), RootSectors(bs))

\* Mutant: any number of sectors will do.
TooSmallNever(bs) == FALSE

TooSmall(bs) == TotalSectors(bs) < Metadata(bs)

Laid(bs, data, clusters) ==
  [first_fat |-> bs.reserved, root_sectors |-> RootSectors(bs), first_root |-> FirstRoot(bs),
   first_data |-> FirstData(bs), data_sectors |-> data, total_clusters |-> clusters]

\* What is set whether or not the volume is large enough.
Regions(bs) == Laid(bs, geometry.data_sectors, geometry.total_clusters)

Geometry(bs) ==
  LET data == Sub(TotalSectors(bs), Metadata(bs)) IN Laid(bs, data, data \div bs.spc)

Mounting(s) == step = "open" /\ step' = s /\ UNCHANGED <<image, wl>>

\* No buffer, or sector 0 cannot be read.
MountReadsNothing ==
  /\ Mounting("refused")
  /\ harm' = TRUE
  /\ UNCHANGED <<boot_sector, geometry, root_cluster>>

CanMount == ~ wl.enabled \/ SectorSize <= wl.flash_size

MountNoSector ==
  /\ Mounting("refused") /\ ~ CanMount
  /\ UNCHANGED <<boot_sector, geometry, root_cluster, harm>>

MountZero ==
  /\ Mounting("refused") /\ CanMount
  /\ Parsed.bps = 0 \/ Parsed.spc = 0
  /\ boot_sector' = Parsed
  /\ UNCHANGED <<geometry, root_cluster, harm>>

Sound == CanMount /\ Parsed.bps # 0 /\ Parsed.spc # 0

MountTooSmall ==
  /\ Mounting("refused") /\ Sound /\ TooSmall(Parsed)
  /\ boot_sector' = Parsed /\ geometry' = Regions(Parsed)
  /\ UNCHANGED <<root_cluster, harm>>

\* load_root_directory has no memory for the node.
MountNoRoot ==
  /\ Mounting("refused") /\ Sound /\ ~ TooSmall(Parsed)
  /\ boot_sector' = Parsed /\ geometry' = Geometry(Parsed) /\ harm' = TRUE
  /\ UNCHANGED root_cluster

MountDone ==
  /\ Mounting("mounted") /\ Sound /\ ~ TooSmall(Parsed)
  /\ boot_sector' = Parsed /\ geometry' = Geometry(Parsed)
  /\ root_cluster' = IF FatType(geometry'.total_clusters) = 32 THEN Parsed.root ELSE 0
  /\ UNCHANGED harm

Next ==
  \/ OpenEmpty \/ OpenPlain \/ OpenDump \/ OpenCorrupt \/ OpenFails \/ OpenMistaken
  \/ MountReadsNothing \/ MountNoSector \/ MountZero \/ MountTooSmall \/ MountNoRoot
  \/ MountDone

Spec == Init /\ [][Next]_vars

\* fat_driver_cluster_to_sector.
ClusterToSector(c) ==
  IF c < 2 THEN 0 ELSE Add(geometry.first_data, Mul(c - 2, boot_sector.spc))

-----------------------------------------------------------------------------
(* The formatter, and the volume it makes: what its sectors hold, in order *)

\* A layout: as a boot sector, with the clusters and the sectors after the last.
Layouts == [bps : Nat \ {0}, spc : Nat \ {0}, reserved : Nat \ {0}, fats : Nat \ {0},
            fatsize : Nat \ {0}, entries : Nat, clusters : Nat, slack : Nat, root : Nat,
            large : BOOLEAN]

RootLength(l) == RoundUp(l.entries * EntrySize, l.bps) \div l.bps

Length(l) == l.reserved + l.fats * l.fatsize + RootLength(l) + l.clusters * l.spc + l.slack

Format(l) ==
  LET total == Length(l)
      fat32 == FatType(l.clusters) = 32
      large == fat32 \/ l.large
  IN  [bps |-> l.bps, spc |-> l.spc, reserved |-> l.reserved, fats |-> l.fats,
       entries |-> l.entries,
       total16 |-> IF large THEN 0 ELSE total, total32 |-> IF large THEN total ELSE 0,
       fatsize16 |-> IF fat32 THEN 0 ELSE l.fatsize, fatsize32 |-> l.fatsize, root |-> l.root]

Volume(l) ==
  [i \in 1 .. l.reserved |-> <<"reserved", i>>]
  \o FlattenSeq([n \in 1 .. l.fats |-> [i \in 1 .. l.fatsize |-> <<"fat", n, i>>]])
  \o [i \in 1 .. RootLength(l) |-> <<"root", i>>]
  \o FlattenSeq([c \in 1 .. l.clusters |-> [i \in 1 .. l.spc |-> <<"data", c + 1, i>>]])

\* A device keeps so many bytes in whole pages: besides them there is the dummy page,
\* and in whole flash sectors two copies of the state and the config.
Keeps(cfg, bytes) ==
  LET state == RoundUp(HeaderSize + (cfg.full \div cfg.sector) * cfg.record, cfg.sector)
  IN  /\ cfg.page # 0 /\ cfg.sector # 0
      /\ \E pages \in 0 .. cfg.full \div cfg.page :
           /\ bytes <= pages * cfg.page
           /\ (pages + 1) * cfg.page + 2 * state + RoundUp(ConfigSize, cfg.sector) <= cfg.full

\* A formatted volume has no room for one more cluster, and lies within its file, where it
\* begins, or its device, whose config is one that the code knows.
ASSUME FormatAssumption ==
  \A i \in Images : i.layout # NoLayout =>
    LET l == i.layout IN
      /\ l \in Layouts /\ l.slack < l.spc /\ i.boot = Format(l)
      /\ Length(l) * l.bps <= i.size
      /\ i.config = NoConfig => i.raw = i.boot
      /\ i.config # NoConfig => /\ \E c \in Candidates : Parses(i, c)
                               /\ Keeps(i.config, Length(l) * l.bps)

-----------------------------------------------------------------------------
(* Properties *)

Mounted == step = "mounted"

\* What sector n of the HAL holds: it begins where its number times the HAL's sector
\* size says, of a plain image in 32 bits; that may be within a sector of the volume, and
\* there is none beyond the file or the flash_size of the wear-levelling layer.  A dump
\* that is taken for a plain image has the volume's sectors elsewhere.
Extent == IF wl.enabled THEN wl.flash_size ELSE image.size

AsItIs == wl.enabled \/ image.config = NoConfig

Offset(n) == IF wl.enabled THEN (n % Word) * SectorSize ELSE Mul(n % Word, SectorSize)

Read(l, n) ==
  CASE Offset(n) + SectorSize > Extent -> <<"none">>
    [] ~ AsItIs                        -> <<"elsewhere">>
    [] Offset(n) % l.bps # 0           -> <<"within">>
    [] OTHER                           -> Volume(l)[Offset(n) \div l.bps + 1]

ReadsVolume(l) ==
  /\ geometry.total_clusters = l.clusters
  /\ \A i \in 1 .. l.fatsize : Read(l, geometry.first_fat + i - 1) = <<"fat", 1, i>>
  /\ \/ FatType(l.clusters) = 32 /\ root_cluster = l.root
     \/ /\ root_cluster = 0 /\ geometry.root_sectors = RootLength(l)
        /\ \A i \in 1 .. RootLength(l) : Read(l, geometry.first_root + i - 1) = <<"root", i>>
  /\ \A c \in 2 .. l.clusters + 1, i \in 1 .. l.spc :
       Read(l, ClusterToSector(c) + i - 1) = <<"data", c, i>>

Formatted == image.layout # NoLayout

\* The volume's bytes can be numbered: of a plain image, in 32 bits.
WithinOffsets(l) == image.config = NoConfig => Length(l) * l.bps <= Word

\* A volume as a formatter makes it, of any FAT type, plain or in a partition dump,
\* is mounted unless memory, a read or the dump's state fails; and then, if nothing
\* failed and a plain image has no more than 2^32 bytes, its type is known and the
\* table, the root directory and every cluster are read where they are: although
\* mount works out where the data begin before it knows the type.
ReadsFormatted ==
  Formatted /\ image.layout.bps = SectorSize =>
    /\ step = "refused" => harm \/ ~ image.state
    /\ Mounted /\ ~ harm /\ WithinOffsets(image.layout) => ReadsVolume(image.layout)

\* The same of every sector size that HighlevelReq.txt names.
ReadsAnySectorSize ==
  Formatted /\ Mounted /\ ~ harm /\ WithinOffsets(image.layout) => ReadsVolume(image.layout)

\* Whatever a boot sector says, also where 32 bits are too few for its numbers: no
\* cluster that mount counts has a sector beyond the volume or before the data, and
\* no two share one.
ClustersInVolume ==
  Mounted =>
    \A c \in 2 .. geometry.total_clusters + 1 :
      /\ ClusterToSector(c) = geometry.first_data + (c - 2) * boot_sector.spc
      /\ ClusterToSector(c) + boot_sector.spc <= TotalSectors(boot_sector)

\* The pages of the volume with the dummy page, the two copies of the state and the
\* config follow one another in the file, whatever sizes the config states.
AreasApart ==
  wl.enabled =>
    /\ 0 <= wl.flash_size /\ wl.flash_size + image.config.page <= wl.state1
    /\ wl.state1 + HeaderSize <= wl.state2 /\ wl.state2 + HeaderSize <= wl.cfg
    /\ wl.cfg + ConfigSize <= image.size

\* The position records that wl_recover_pos scans lie before the second copy, if a
\* device wrote the partition: a record for every page and one for the dummy page, and
\* pages of whole flash sectors.
RecordsInCopy ==
  wl.enabled /\ image.config.page >= image.config.sector
             /\ image.max_pos = wl.flash_size \div image.config.page + 1 =>
    wl.state1 + HeaderSize + image.max_pos * image.config.record <= wl.state2

\* The type invariant.
TypeOK ==
  /\ image \in Images /\ step \in {"closed", "open", "mounted", "refused"}
  /\ wl \in [enabled : BOOLEAN, flash_size : Int, state1 : Int, state2 : Int, cfg : Int]
  /\ boot_sector \in Boots
  /\ geometry \in [first_fat : Nat, root_sectors : Nat, first_root : Nat, first_data : Nat,
                   data_sectors : Nat, total_clusters : Nat]
  /\ root_cluster \in Nat /\ harm \in BOOLEAN
=============================================================================
