------------------------------ MODULE FatCache ------------------------------
(***************************************************************************)
(* Reading one entry of the file allocation table (fat_driver.c,           *)
(* fat_driver_get_fat_entry): the entry's place in the table for the three *)
(* FAT types, the cache of one sector, and the FAT12 entry that lies       *)
(* across two sectors.                                                     *)
(*                                                                         *)
(* A byte is named by its place in the image, and half a byte by twice     *)
(* that, plus one for its upper half: reading an entry right means reading *)
(* the right halves of the right bytes in the right order.  The image is   *)
(* not written, so a byte's place says what it holds.                      *)
(***************************************************************************)
EXTENDS Integers, Sequences

CONSTANTS
  SectorSize,  \* hal_get_sector_size, the size of fat_cache
  FirstFat,    \* first_fat_sector: boot_sector.reserved_sectors
  Clusters,    \* the clusters a caller may ask for
  Faults       \* hal_read_sector may "fail", or return a "short" sector

\* hal_init takes 512, 1024, 2048 and 4096 only.
ASSUME SectorAssumption == SectorSize \in Nat \ {0} /\ SectorSize % 4 = 0
ASSUME FirstFatAssumption == FirstFat \in Nat
\* Every caller has is_eoc stop it first: no product of the code reaches 2^32.
ASSUME ClustersAssumption == Clusters \subseteq 0 .. 2^28 - 9
ASSUME CacheFaultsAssumption == Faults \subseteq {"fail", "short"}

NoCluster == -1
NoSector == -1      \* 0xFFFFFFFF, "Invalid sector to start"
Unknown == -1       \* a byte that malloc left
Zero == <<>>        \* the return value 0 of a read that failed

VARIABLES
  fat_type,          \* fat_driver_get_fat_type, fixed once the volume is mounted
  cache,             \* cache[i]: the byte of the image that fat_cache[i] holds
  fat_cache_sector,  \* the sector the driver takes the cache for
  cluster,           \* the argument of the call in progress
  step,              \* where the call is
  byte1,             \* the first byte of an entry across two sectors
  got,               \* what the last call returned
  torn               \* ghost: a read fell short since the last call that read its
                     \* (first) sector whole

vars == <<fat_type, cache, fat_cache_sector, cluster, step, byte1, got, torn>>

InCache == 0 .. SectorSize - 1
InTable == {p \in Nat : p >= FirstFat * SectorSize}
Places == InTable \cup {Unknown}

TypeOK ==
  /\ fat_type \in {12, 16, 32}
  /\ cache \in [InCache -> Places]
  /\ fat_cache_sector \in {s \in Nat : s >= FirstFat} \cup {NoSector}
  /\ cluster \in Clusters \cup {NoCluster}
  /\ step \in {"idle", "first", "entry", "second", "joined"}
  /\ step = "idle" <=> cluster = NoCluster
  /\ byte1 \in Places
  /\ got \in Seq(Int)
  /\ torn \in BOOLEAN

Sector(s) == [i \in InCache |-> s * SectorSize + i]

Init ==
  /\ fat_type \in {12, 16, 32}
  /\ cache = [i \in InCache |-> Unknown]
  /\ fat_cache_sector = NoSector
  /\ cluster = NoCluster
  /\ step = "idle"
  /\ byte1 = Unknown
  /\ got = Zero
  /\ torn = FALSE

-----------------------------------------------------------------------------
(* The place of an entry *)

FatOffset(c) ==
  IF fat_type = 12 THEN c + c \div 2
  ELSE IF fat_type = 16 THEN 2 * c ELSE 4 * c

SectorNum(c) == FirstFat + FatOffset(c) \div SectorSize
OffsetInSector(c) == FatOffset(c) % SectorSize

\* The bytes of the cache the code takes, as a uint16_t or a uint32_t.
EntryBytes(c) == [k \in 0 .. IF fat_type = 32 THEN 3 ELSE 1 |-> cache[OffsetInSector(c) + k]]

\* A FAT12 entry of which the sector holds the first byte only.
Straddles(c) == fat_type = 12 /\ OffsetInSector(c) = SectorSize - 1

\* The halves of bytes an entry has; FAT32 masks the last of its eight.
Width == IF fat_type = 12 THEN 3 ELSE IF fat_type = 16 THEN 4 ELSE 7

\* "fat_entry >> 4" for the odd clusters of FAT12, "& 0x0FFF" for the others.
Shift(c) == IF fat_type = 12 /\ c % 2 = 1 THEN 1 ELSE 0

\* The value of the little-endian bytes b[0], b[1], ... after mask and shift.
Value(c, b) == [i \in 1 .. Width |-> LET h == i - 1 + Shift(c)
                                     IN  2 * b[h \div 2] + (h % 2)]

-----------------------------------------------------------------------------
(* fat_driver_get_fat_entry *)

Ask(c) ==
  /\ step = "idle"
  /\ cluster' = c
  /\ step' = "first"
  /\ UNCHANGED <<fat_type, cache, fat_cache_sector, byte1, got, torn>>

Return(v) ==
  /\ got' = v
  /\ cluster' = NoCluster
  /\ step' = "idle"
  /\ byte1' = Unknown
  /\ UNCHANGED fat_type

\* The sector the call needs next.
Wanted == IF step = "second" THEN SectorNum(cluster) + 1 ELSE SectorNum(cluster)

\* The cache is taken for the sector.  (Never for the second one: by then it is
\* the first that is cached.)
Hit ==
  /\ step = "first" /\ fat_cache_sector = Wanted
  /\ step' = "entry"
  /\ UNCHANGED <<fat_type, cache, fat_cache_sector, cluster, byte1, got, torn>>

\* Mutant: the cache keeps the number of the sector before.
LoadUnnumbered ==
  /\ step \in {"first", "second"} /\ fat_cache_sector # Wanted
  /\ cache' = Sector(Wanted)
  /\ fat_cache_sector' = IF step = "first" THEN Wanted ELSE fat_cache_sector
  /\ step' = IF step = "first" THEN "entry" ELSE "joined"
  /\ torn' = (torn /\ step = "second")
  /\ UNCHANGED <<fat_type, cluster, byte1, got>>

Load ==
  /\ step \in {"first", "second"} /\ fat_cache_sector # Wanted
  /\ cache' = Sector(Wanted)
  /\ fat_cache_sector' = Wanted
  /\ step' = IF step = "first" THEN "entry" ELSE "joined"
  /\ torn' = (torn /\ step = "second")
  /\ UNCHANGED <<fat_type, cluster, byte1, got>>

\* hal_read_sector returns -1, or 0.
LoadFails ==
  /\ "fail" \in Faults
  /\ step \in {"first", "second"} /\ fat_cache_sector # Wanted
  /\ Return(Zero)
  /\ UNCHANGED <<cache, fat_cache_sector, torn>>

\* The end of the file, or an error, after n bytes: they are in the cache, but
\* fat_cache_sector is left as it was.
LoadShort(n) ==
  /\ "short" \in Faults /\ n > 0
  /\ step \in {"first", "second"} /\ fat_cache_sector # Wanted
  /\ cache' = [i \in InCache |-> IF i < n THEN Sector(Wanted)[i] ELSE cache[i]]
  /\ torn' = TRUE
  /\ Return(Zero)
  /\ UNCHANGED fat_cache_sector

Extract ==
  /\ step = "entry" /\ ~ Straddles(cluster)
  /\ Return(Value(cluster, EntryBytes(cluster)))
  /\ UNCHANGED <<cache, fat_cache_sector, torn>>

FirstByte ==
  /\ step = "entry" /\ Straddles(cluster)
  /\ byte1' = cache[OffsetInSector(cluster)]
  /\ step' = "second"
  /\ UNCHANGED <<fat_type, cache, fat_cache_sector, cluster, got, torn>>

\* Mutant: the byte at the old offset is taken for the second.
ExtractJoinedSameOffset ==
  /\ step = "joined"
  /\ Return(Value(cluster, [k \in 0 .. 1 |-> IF k = 0 THEN byte1 ELSE cache[SectorSize - 1]]))
  /\ UNCHANGED <<cache, fat_cache_sector, torn>>

ExtractJoined ==
  /\ step = "joined"
  /\ Return(Value(cluster, [k \in 0 .. 1 |-> IF k = 0 THEN byte1 ELSE cache[0]]))
  /\ UNCHANGED <<cache, fat_cache_sector, torn>>

Next ==
  \/ \E c \in Clusters : Ask(c)
  \/ Hit
  \/ Load
  \/ LoadFails
  \/ \E n \in InCache : LoadShort(n)
  \/ Extract
  \/ FirstByte
  \/ ExtractJoined

Spec == Init /\ [][Next]_vars

-----------------------------------------------------------------------------
(* Properties *)

\* Entry c of the table that begins with sector FirstFat: consecutive halves of
\* bytes, three, four or eight to an entry, from the first byte of the table on.
Stride == IF fat_type = 12 THEN 3 ELSE IF fat_type = 16 THEN 4 ELSE 8
Entry(c) == [i \in 1 .. Width |-> 2 * FirstFat * SectorSize + Stride * c + i - 1]

\* The cache holds the sector whose number it carries, unless a read has fallen
\* short since the last call that read its sector whole.
Coherent == ~ torn /\ fat_cache_sector # NoSector => cache = Sector(fat_cache_sector)

\* What a call in progress relies on: the cache has the sector it is about to
\* take bytes from, and byte1 is the first byte of an entry across two sectors.
Held ==
  /\ step = "idle" => byte1 = Unknown
  /\ step \in {"entry", "second"} => fat_cache_sector = SectorNum(cluster)
  /\ step = "joined" => fat_cache_sector = SectorNum(cluster) + 1
  /\ step \in {"second", "joined"} =>
       /\ Straddles(cluster)
       /\ ~ torn => byte1 = FirstFat * SectorSize + FatOffset(cluster)

\* The inductive invariant.
IInv == TypeOK /\ Coherent /\ Held

\* The lookup implements the table: a call returns its cluster's entry, the right
\* halves of the right bytes for every FAT type and across two sectors, or 0 for
\* an error; only after a read that fell short may it return something else, and
\* then no longer than until a sector is read whole.
Table == INSTANCE FatTable WITH
           table <- [c \in Clusters |-> Entry(c)],
           asked <- cluster,
           sound <- ~ torn,
           Values <- Seq(Int)
ServedFromTable == Table!Spec
=============================================================================
