---------------------------- MODULE MountProofs ----------------------------
(***************************************************************************)
(* For every width of a word, limits of the FAT types and image:           *)
(*                                                                         *)
(*   1. the clusters that mount counts lie in the volume, and the areas of *)
(*      a dump lie apart, whatever the numbers they are worked out from;   *)
(*   2. a volume as a formatter makes it is mounted and read where its     *)
(*      parts are, if the offsets of a plain image fit their 32 bits.      *)
(***************************************************************************)
EXTENDS Mount, SequenceTheorems, WellFoundedInduction, TLAPS

-----------------------------------------------------------------------------
(* Arithmetic *)

\* A quotient, times the divisor, is at most the number divided.
LEMMA Quotient ==
  ASSUME NEW n \in Nat, NEW d \in Nat \ {0}
  PROVE  /\ n \div d \in Nat
         /\ (n \div d) * d \in Nat /\ (n \div d) * d <= n /\ n < (n \div d) * d + d
<1>1. n \div d \in Nat /\ n % d \in 0 .. d - 1
  BY SMTT(30)
<1>2. n = (n \div d) * d + (n % d)
  BY SMTT(30)
<1>3. (n \div d) * d \in Nat
  BY <1>1, SMTT(30)
<1> DEFINE q == (n \div d) * d
           r == n % d
<1>4. n = q + r /\ q \in Nat /\ r \in 0 .. d - 1
  BY <1>1, <1>2, <1>3
<1> HIDE DEF q, r
<1>5. q <= n /\ n < q + d
  BY <1>4
<1> QED BY <1>1, <1>3, <1>5 DEF q

\* Products keep the order.
LEMMA Product ==
  ASSUME NEW a \in Nat, NEW b \in Nat, NEW d \in Nat, a <= b
  PROVE  a * d \in Nat /\ b * d \in Nat /\ a * d <= b * d
<1> DEFINE e == b - a
<1>1. e \in Nat /\ b = a + e
  OBVIOUS
<1> HIDE DEF e
<1>2. a * d \in Nat /\ b * d \in Nat /\ e * d \in Nat
  BY <1>1, SMTT(30)
<1>3. (a + e) * d = a * d + e * d
  BY <1>1, SMTT(30)
<1>4. b * d = a * d + e * d
  BY <1>1, <1>3
<1> QED BY <1>2, <1>4

\* A quotient is the largest number whose product with the divisor fits.
LEMMA QuotientLargest ==
  ASSUME NEW n \in Nat, NEW d \in Nat \ {0}, NEW q \in Nat, q * d <= n
  PROVE  q <= n \div d
<1> DEFINE m == n \div d
<1>1. m \in Nat /\ m * d \in Nat /\ n < m * d + d
  BY Quotient
<1> HIDE DEF m
<1>2. SUFFICES ASSUME m + 1 <= q PROVE FALSE
  BY <1>1 DEF m
<1>3. (m + 1) * d <= q * d
  BY <1>1, <1>2, Product
<1>4. (m + 1) * d = m * d + d
  BY <1>1, SMTT(30)
<1>5. q * d \in Nat
  BY SMTT(30)
<1> QED BY <1>1, <1>3, <1>4, <1>5

\* Dividing undoes multiplying.
LEMMA QuotientOfProduct ==
  ASSUME NEW q \in Nat, NEW d \in Nat \ {0}
  PROVE  (q * d) \div d = q
<1> DEFINE n == q * d
           m == n \div d
<1>1. n \in Nat
  BY SMTT(30)
<1>2. m \in Nat /\ m * d <= n /\ m * d \in Nat
  BY <1>1, Quotient
<1>3. q <= m
  BY <1>1, QuotientLargest
<1> HIDE DEF m
<1>4. ~ (q + 1 <= m)
  <2>1. SUFFICES ASSUME q + 1 <= m PROVE FALSE
    OBVIOUS
  <2>2. (q + 1) * d <= m * d
    BY <1>2, <2>1, Product
  <2>3. (q + 1) * d = q * d + d
    BY SMTT(30)
  <2> HIDE DEF n
  <2> QED BY <1>1, <1>2, <2>2, <2>3 DEF n
<1> QED BY <1>2, <1>3, <1>4 DEF m

\* Rounding up adds up to a unit.
LEMMA Rounded ==
  ASSUME NEW n \in Nat, NEW unit \in Nat \ {0}
  PROVE  RoundUp(n, unit) \in Nat /\ n <= RoundUp(n, unit)
<1> DEFINE m == n + unit - 1
<1>1. m \in Nat
  OBVIOUS
<1>2. (m \div unit) * unit \in Nat /\ m < (m \div unit) * unit + unit
  BY <1>1, Quotient
<1> DEFINE q == (m \div unit) * unit
<1>3. q \in Nat /\ m < q + unit
  BY <1>2
<1>4. q = RoundUp(n, unit)
  BY DEF RoundUp
<1> HIDE DEF q
<1>5. n <= q
  BY <1>3
<1> QED BY <1>3, <1>4, <1>5

\* Words.
LEMMA Wrapped ==
  ASSUME NEW n \in Int
  PROVE  n % Word \in Nat /\ n % Word < Word
BY NumberAssumption, SMTT(30)

LEMMA Unwrapped ==
  ASSUME NEW n \in Nat, n < Word
  PROVE  n % Word = n
BY NumberAssumption, SMTT(30)

-----------------------------------------------------------------------------
(* Where the areas of a dump lie *)

\* The layout that wl_layer_init works out for a config it has accepted.
LEMMA LayoutApart ==
  ASSUME image \in Images, Found, Room, NEW on \in BOOLEAN
  PROVE  LET w == Layout(on) IN
           /\ 0 <= w.flash_size /\ w.flash_size + image.config.page <= w.state1
           /\ w.state1 + HeaderSize <= w.state2 /\ w.state2 + HeaderSize <= w.cfg
           /\ w.cfg + ConfigSize <= image.size
           /\ w \in [enabled : BOOLEAN, flash_size : Int, state1 : Int, state2 : Int, cfg : Int]
<1> DEFINE full == image.config.full
           page == image.config.page
           sector == image.config.sector
           area == CfgArea
           size == StateSize
<1>1. PICK c \in Candidates : Parses(image, c)
  BY DEF Found
<1>2. /\ image.config \in Configs /\ full = image.size
      /\ sector = c /\ page # 0
  BY <1>1, ImageAssumption, NoConfigAssumption DEF Parses
<1>3. full \in Nat /\ page \in Nat \ {0} /\ sector \in Nat \ {0} /\ image.config.record \in Nat
  BY <1>2, NumberAssumption DEF Configs
<1>4. area \in Nat /\ ConfigSize <= area
  BY <1>3, Rounded, NumberAssumption DEF CfgArea
<1>5. size \in Nat /\ HeaderSize <= size
  <2>1. full \div sector \in Nat
    BY <1>3, Quotient
  <2>2. (full \div sector) * image.config.record \in Nat
    BY <2>1, <1>3, SMTT(30)
  <2>3. MinState \in Nat /\ HeaderSize <= MinState
    BY <2>2, NumberAssumption DEF MinState
  <2>4. RoundUp(MinState, sector) \in Nat /\ MinState <= RoundUp(MinState, sector)
    BY <2>3, <1>3, Rounded
  <2> HIDE DEF sector
  <2>5. size = IF sector < MinState THEN RoundUp(MinState, sector) ELSE sector
    BY DEF StateSize, sector
  <2> QED BY <2>3, <2>4, <2>5, <1>3, NumberAssumption
<1> DEFINE data == full - size * 2 - area
           pages == data \div page
<1>6. data \in Nat /\ page <= data
  BY <1>3, <1>4, <1>5 DEF Room
<1>7. pages \in Nat /\ pages * page \in Nat /\ pages * page <= data /\ data < pages * page + page
  BY <1>6, <1>3, Quotient
<1>8. pages # 0
  <2>1. SUFFICES ASSUME pages = 0 PROVE FALSE
    OBVIOUS
  <2>2. pages * page = 0
    BY <2>1, <1>3
  <2> QED BY <2>2, <1>6, <1>7, <1>3
<1> DEFINE flash == (pages - 1) * page
<1>9. flash \in Nat /\ flash + page = pages * page
  <2> HIDE DEF pages, page
  <2>1. pages - 1 \in Nat
    BY <1>7, <1>8
  <2>2. (pages - 1) * page \in Nat
    BY <2>1, <1>3, SMTT(30)
  <2>3. (pages - 1) * page + page = pages * page
    BY <1>7, <1>3, SMTT(30)
  <2> QED BY <2>2, <2>3
<1>10. Layout(on) = [enabled |-> on, state1 |-> data, state2 |-> full - size - area,
                     cfg |-> full - area, flash_size |-> flash]
  BY DEF Layout
<1> HIDE DEF full, page, area, size, data, pages, flash
<1>11. data = full - size * 2 - area
  BY DEF data
<1>12. /\ 0 <= flash /\ flash + page <= data
       /\ data + HeaderSize <= full - size - area
       /\ full - size - area + HeaderSize <= full - area
       /\ full - area + ConfigSize <= image.size
  BY <1>2, <1>3, <1>4, <1>5, <1>6, <1>7, <1>9, <1>11, NumberAssumption
<1>13. flash \in Int /\ data \in Int /\ full - size - area \in Int /\ full - area \in Int
  BY <1>3, <1>4, <1>5, <1>6, <1>9
<1> QED BY <1>10, <1>12, <1>13 DEF page

-----------------------------------------------------------------------------
(* The numbers mount works out *)

\* Those of a volume that it finds large enough.
Counted ==
  LET bs == boot_sector
      meta == Metadata(bs)
      total == TotalSectors(bs)
  IN  /\ bs.spc # 0 /\ meta \in Nat /\ total \in Nat /\ meta <= total /\ total < Word
      /\ geometry.first_data = meta
      /\ geometry.total_clusters = (total - meta) \div bs.spc

IInv ==
  /\ TypeOK
  /\ wl = NotWL \/ (Found /\ Room /\ \E on \in BOOLEAN : wl = Layout(on))
  /\ step \in {"closed", "open"} => geometry = NoGeometry
  /\ Mounted => Counted

LEMMA ParsedOK ==
  ASSUME image \in Images
  PROVE  Parsed \in Boots /\ Parsed.total16 < Word /\ Parsed.total32 < Word
BY ImageAssumption DEF Parsed, BootRead, Boots

\* The regions of a boot sector with sectors of some bytes.
LEMMA RegionsOK ==
  ASSUME NEW bs \in Boots, bs.bps # 0
  PROVE  RootSectors(bs) \in Nat /\ FirstRoot(bs) \in Nat /\ FirstData(bs) \in Nat
         /\ Metadata(bs) \in Nat
<1>1. bs.bps \in Nat \ {0} /\ bs.entries \in Nat /\ bs.reserved \in Nat /\ bs.fats \in Nat
      /\ bs.fatsize16 \in Nat /\ bs.fatsize32 \in Nat
  BY DEF Boots
<1>2. bs.entries * EntrySize \in Nat
  BY <1>1, NumberAssumption, SMTT(30)
<1>3. bs.entries * EntrySize + (bs.bps - 1) \in Nat
  BY <1>1, <1>2
<1>4. RootSectors(bs) \in Nat
  BY <1>1, <1>3, Quotient DEF RootSectors
<1>5. FatSize(bs) \in Nat
  BY <1>1 DEF FatSize
<1>6. bs.fats * FatSize(bs) \in Int /\ bs.fats * bs.fatsize32 \in Int
  BY <1>1, <1>5, SMTT(30)
<1>7. Mul(bs.fats, FatSize(bs)) \in Nat /\ Mul(bs.fats, bs.fatsize32) \in Nat
  BY <1>6, Wrapped DEF Mul
<1>8. \A m, n \in Nat : Add(m, n) \in Nat
  BY Wrapped DEF Add
<1>9. FirstRoot(bs) \in Nat
  BY <1>1, <1>7, <1>8 DEF FirstRoot
<1> QED BY <1>1, <1>4, <1>7, <1>8, <1>9 DEF FirstData, Metadata, FirstRoot

\* Asked before the clusters are counted, FAT type 32 is never the answer: the data
\* begin where the metadata end.
LEMMA DataAfterMetadata ==
  ASSUME geometry = NoGeometry, NEW bs
  PROVE  FirstData(bs) = Metadata(bs)
<1>1. geometry.total_clusters = 0
  BY DEF NoGeometry
<1>2. FatType(0) = 12
  BY NumberAssumption DEF FatType
<1> QED BY <1>1, <1>2 DEF FirstData, Metadata, FirstRoot

\* Mounting a sound volume.
LEMMA GeometryCounts ==
  ASSUME IInv, step = "open", Sound, ~ TooSmall(Parsed)
  PROVE  LET bs == Parsed
             g == Geometry(bs)
         IN  /\ bs.spc # 0 /\ Metadata(bs) \in Nat /\ TotalSectors(bs) \in Nat
             /\ Metadata(bs) <= TotalSectors(bs) /\ TotalSectors(bs) < Word
             /\ g.first_data = Metadata(bs)
             /\ g.total_clusters = (TotalSectors(bs) - Metadata(bs)) \div bs.spc
             /\ g \in [first_fat : Nat, root_sectors : Nat, first_root : Nat, first_data : Nat,
                       data_sectors : Nat, total_clusters : Nat]
<1> DEFINE bs == Parsed
           d == TotalSectors(bs) - Metadata(bs)
<1>1. bs \in Boots /\ bs.total16 < Word /\ bs.total32 < Word /\ bs.bps # 0 /\ bs.spc # 0
  BY ParsedOK DEF IInv, TypeOK, Sound
<1> HIDE DEF bs
<1>2. /\ RootSectors(bs) \in Nat /\ FirstRoot(bs) \in Nat /\ FirstData(bs) \in Nat
      /\ Metadata(bs) \in Nat
  BY <1>1, RegionsOK
<1>3. TotalSectors(bs) \in Nat /\ TotalSectors(bs) < Word
  BY <1>1 DEF TotalSectors, Boots
<1>4. Metadata(bs) <= TotalSectors(bs)
  BY <1>2, <1>3 DEF TooSmall, bs
<1>5. d \in Nat /\ Sub(TotalSectors(bs), Metadata(bs)) = d
  <2>1. d \in Nat /\ d < Word
    <3> DEFINE t == TotalSectors(bs)
               m == Metadata(bs)
    <3>1. t \in Nat /\ m \in Nat /\ m <= t /\ t < Word /\ d = t - m
      BY <1>2, <1>3, <1>4
    <3> HIDE DEF d, t, m
    <3> QED BY <3>1, NumberAssumption
  <2> HIDE DEF d
  <2>2. d % Word = d
    BY <2>1, Unwrapped
  <2> QED BY <2>1, <2>2 DEF Sub, d
<1>6. bs.spc \in Nat \ {0} /\ bs.reserved \in Nat
  BY <1>1 DEF Boots
<1>7. d \div bs.spc \in Nat
  BY <1>5, <1>6, Quotient
<1>8. geometry = NoGeometry
  BY DEF IInv
<1> HIDE DEF d
<1>9. Geometry(bs) = [first_fat |-> bs.reserved, root_sectors |-> RootSectors(bs),
                      first_root |-> FirstRoot(bs), first_data |-> FirstData(bs),
                      data_sectors |-> d, total_clusters |-> d \div bs.spc]
  BY <1>5 DEF Geometry, Laid
<1>10. FirstData(bs) = Metadata(bs)
  BY <1>8, DataAfterMetadata
<1>11. /\ Geometry(bs).first_data = Metadata(bs)
       /\ Geometry(bs).total_clusters = d \div bs.spc
  BY <1>9, <1>10
<1>12. Geometry(bs) \in [first_fat : Nat, root_sectors : Nat, first_root : Nat,
                         first_data : Nat, data_sectors : Nat, total_clusters : Nat]
  BY <1>2, <1>5, <1>6, <1>7, <1>9
<1> QED BY <1>1, <1>2, <1>3, <1>4, <1>11, <1>12 DEF bs, d

LEMMA InitIInv == Init => IInv
<1> SUFFICES ASSUME Init PROVE IInv
  OBVIOUS
<1>1. TypeOK
  <2>1. NoBoot \in Boots
    BY DEF NoBoot, Boots
  <2>2. NotWL \in [enabled : BOOLEAN, flash_size : Int, state1 : Int, state2 : Int, cfg : Int]
    BY DEF NotWL
  <2>3. NoGeometry \in [first_fat : Nat, root_sectors : Nat, first_root : Nat, first_data : Nat,
                       data_sectors : Nat, total_clusters : Nat]
    BY DEF NoGeometry
  <2> QED BY <2>1, <2>2, <2>3 DEF Init, TypeOK
<1> QED BY <1>1 DEF Init, IInv, Mounted

\* A step of mount that fails.
LEMMA RefusedIInv ==
  ASSUME IInv, Mounting("refused"), boot_sector' \in Boots, harm' \in BOOLEAN, root_cluster' \in Nat,
         geometry' \in [first_fat : Nat, root_sectors : Nat, first_root : Nat, first_data : Nat,
                        data_sectors : Nat, total_clusters : Nat]
  PROVE  IInv'
<1>1. TypeOK'
  BY DEF IInv, TypeOK, Mounting
<1>2. (wl = NotWL \/ (Found /\ Room /\ \E on \in BOOLEAN : wl = Layout(on)))'
  BY DEF IInv, Mounting, Found, Parses, Room, Layout, StateSize, MinState, CfgArea
<1> QED BY <1>1, <1>2 DEF IInv, Mounting, Mounted

LEMMA NextIInv == IInv /\ [Next]_vars => IInv'
<1> SUFFICES ASSUME IInv, [Next]_vars PROVE IInv'
  OBVIOUS
<1> USE DEF IInv
<1>0. /\ image \in Images /\ boot_sector \in Boots /\ root_cluster \in Nat /\ harm \in BOOLEAN
      /\ geometry \in [first_fat : Nat, root_sectors : Nat, first_root : Nat, first_data : Nat,
                       data_sectors : Nat, total_clusters : Nat]
      /\ Parsed \in Boots
  BY ParsedOK DEF TypeOK
<1>1. ASSUME NEW on \in BOOLEAN, NEW s \in {"open", "refused"}, NEW failed \in BOOLEAN,
             Found, Room, Opened(s, Layout(on), failed)
      PROVE  IInv'
  <2>1. wl' \in [enabled : BOOLEAN, flash_size : Int, state1 : Int, state2 : Int, cfg : Int]
    BY <1>0, <1>1, LayoutApart DEF Opened
  <2>2. TypeOK'
    BY <1>1, <2>1 DEF TypeOK, Opened
  <2>3. (Found /\ Room /\ \E o \in BOOLEAN : wl = Layout(o))'
    BY <1>1 DEF Opened, Found, Parses, Room, Layout, StateSize, MinState, CfgArea
  <2> QED BY <1>1, <2>2, <2>3 DEF Opened, Mounted
<1>2. ASSUME NEW s \in {"open", "refused"}, NEW failed \in BOOLEAN, Opened(s, NotWL, failed)
      PROVE  IInv'
  <2>1. Opened(s, NotWL, failed)
    BY <1>2
  <2>2. NotWL \in [enabled : BOOLEAN, flash_size : Int, state1 : Int, state2 : Int, cfg : Int]
    BY DEF NotWL
  <2>3. TypeOK'
    BY <2>1, <2>2 DEF Opened, TypeOK
  <2> QED BY <2>1, <2>3 DEF Opened, Mounted
<1>3. CASE OpenDump \/ OpenCorrupt
  BY <1>1, <1>3 DEF OpenDump, OpenCorrupt
<1>4. CASE OpenEmpty \/ OpenPlain \/ OpenMistaken
  BY <1>2, <1>4 DEF OpenEmpty, OpenPlain, OpenMistaken
<1>12. CASE OpenFails
  BY <1>1, <1>2, <1>12 DEF OpenFails
<1>5. CASE MountReadsNothing
  BY <1>0, <1>5, RefusedIInv DEF MountReadsNothing
<1>6. CASE MountNoSector
  BY <1>0, <1>6, RefusedIInv DEF MountNoSector
<1>7. CASE MountZero
  BY <1>0, <1>7, RefusedIInv DEF MountZero
<1>8. CASE MountTooSmall
  <2>1. Parsed.bps # 0 /\ Parsed.reserved \in Nat
    BY <1>0, <1>8 DEF MountTooSmall, Sound, Boots
  <2>2. RootSectors(Parsed) \in Nat /\ FirstRoot(Parsed) \in Nat /\ FirstData(Parsed) \in Nat
    BY <1>0, <2>1, RegionsOK
  <2>3. Regions(Parsed) \in [first_fat : Nat, root_sectors : Nat, first_root : Nat,
                             first_data : Nat, data_sectors : Nat, total_clusters : Nat]
    BY <1>0, <2>1, <2>2 DEF Regions, Laid
  <2> QED BY <1>0, <1>8, <2>3, RefusedIInv DEF MountTooSmall
<1>9. CASE MountNoRoot
  <2>1. Geometry(Parsed) \in [first_fat : Nat, root_sectors : Nat, first_root : Nat,
                              first_data : Nat, data_sectors : Nat, total_clusters : Nat]
    BY <1>9, GeometryCounts DEF MountNoRoot, Mounting
  <2> QED BY <1>0, <1>9, <2>1, RefusedIInv DEF MountNoRoot
<1>10. CASE MountDone
  <2>1. step = "open" /\ step' = "mounted" /\ boot_sector' = Parsed /\ geometry' = Geometry(Parsed)
        /\ UNCHANGED <<image, wl, harm>>
    BY <1>10 DEF MountDone, Mounting
  <2>2. root_cluster' \in Nat
    BY <1>0, <1>10 DEF MountDone, Boots
  <2>3. Counted' /\ geometry' \in [first_fat : Nat, root_sectors : Nat, first_root : Nat,
                         first_data : Nat, data_sectors : Nat, total_clusters : Nat]
    BY <1>10, <2>1, GeometryCounts
    DEF MountDone, Counted, TotalSectors, Metadata, RootSectors, FatSize
  <2>4. TypeOK'
    BY <1>0, <2>1, <2>2, <2>3 DEF TypeOK
  <2>5. (wl = NotWL \/ (Found /\ Room /\ \E on \in BOOLEAN : wl = Layout(on)))'
    BY <2>1 DEF Found, Parses, Room, Layout, StateSize, MinState, CfgArea
  <2> QED BY <2>1, <2>3, <2>4, <2>5
<1>11. CASE UNCHANGED vars
  <2> USE <1>11 DEF vars
  <2>1. TypeOK'
    BY DEF TypeOK
  <2>2. (wl = NotWL \/ (Found /\ Room /\ \E on \in BOOLEAN : wl = Layout(on)))'
    BY DEF Found, Parses, Room, Layout, StateSize, MinState, CfgArea
  <2>3. (step \in {"closed", "open"} => geometry = NoGeometry)'
    OBVIOUS
  <2>4. (Mounted => Counted)'
    BY DEF Mounted, Counted, TotalSectors, Metadata, RootSectors, FatSize
  <2> QED BY <2>1, <2>2, <2>3, <2>4
<1> QED BY <1>3, <1>4, <1>5, <1>6, <1>7, <1>8, <1>9, <1>10, <1>11, <1>12 DEF Next

LEMMA Invariant == Spec => []IInv
BY InitIInv, NextIInv, PTL DEF Spec

\* Every variable keeps its type: the numbers mount leaves are those of unsigned words,
\* whatever the boot sector says.
THEOREM TypeCorrect == Spec => []TypeOK
<1>1. IInv => TypeOK
  BY DEF IInv
<1> QED BY <1>1, Invariant, PTL

\* The areas of a dump that wl_layer_init takes for one lie apart and in the file.
THEOREM DumpAreas == Spec => []AreasApart
<1>1. IInv => AreasApart
  BY LayoutApart DEF IInv, TypeOK, AreasApart, NotWL
<1> QED BY <1>1, Invariant, PTL

\* The records that a device writes lie in the first copy of the state.
LEMMA RecordsBeforeSecond ==
  ASSUME image \in Images, Found, Room, NEW on \in BOOLEAN, wl = Layout(on),
         image.config.page >= image.config.sector,
         image.max_pos = wl.flash_size \div image.config.page + 1
  PROVE  wl.state1 + HeaderSize + image.max_pos * image.config.record <= wl.state2
<1> DEFINE full == image.config.full
           page == image.config.page
           sector == image.config.sector
           record == image.config.record
           area == CfgArea
           size == StateSize
           data == full - size * 2 - area
           pages == data \div page
           sectors == full \div sector
<1>1. PICK c \in Candidates : Parses(image, c)
  BY DEF Found
<1>2. /\ full \in Nat /\ page \in Nat \ {0} /\ sector \in Nat \ {0} /\ record \in Nat
      /\ sector <= page
  BY <1>1, ImageAssumption, NoConfigAssumption, NumberAssumption DEF Parses, Configs
<1>3. area \in Nat
  BY <1>2, Rounded, NumberAssumption DEF CfgArea
<1>4. sectors \in Nat /\ sectors * record \in Nat
  <2>1. sectors \in Nat
    BY <1>2, Quotient
  <2> HIDE DEF sectors, record
  <2> QED BY <2>1, <1>2, SMTT(30)
<1>5. size \in Nat /\ HeaderSize + sectors * record <= size
  <2>1. MinState \in Nat /\ MinState = HeaderSize + sectors * record
    BY <1>4, NumberAssumption DEF MinState
  <2>2. RoundUp(MinState, sector) \in Nat /\ MinState <= RoundUp(MinState, sector)
    BY <2>1, <1>2, Rounded
  <2> HIDE DEF sector
  <2>3. size = IF sector < MinState THEN RoundUp(MinState, sector) ELSE sector
    BY DEF StateSize, sector
  <2> QED BY <2>1, <2>2, <2>3, <1>2
<1>6. data \in Nat /\ page <= data /\ data <= full
  BY <1>2, <1>3, <1>5 DEF Room
<1>7. pages \in Nat /\ pages * page \in Nat /\ pages * page <= data /\ data < pages * page + page
  BY <1>6, <1>2, Quotient
<1>8. pages # 0
  <2>1. SUFFICES ASSUME pages = 0 PROVE FALSE
    OBVIOUS
  <2>2. pages * page = 0
    BY <2>1, <1>2
  <2> QED BY <2>2, <1>6, <1>7, <1>2
<1>9. /\ wl.flash_size = (pages - 1) * page
      /\ wl.state1 = data /\ wl.state2 = full - size - area
  BY DEF Layout
<1> HIDE DEF full, page, sector, record, area, size, pages, sectors
<1>10. image.max_pos = pages
  <2>1. pages - 1 \in Nat
    BY <1>7, <1>8
  <2>2. ((pages - 1) * page) \div page = pages - 1
    BY <2>1, <1>2, QuotientOfProduct
  <2> QED BY <2>1, <2>2, <1>7, <1>9 DEF page
<1>11. pages <= sectors
  <2>1. pages * sector \in Nat /\ pages * sector <= pages * page
    <3>1. sector * pages <= page * pages
      BY <1>2, <1>7, Product
    <3>2. sector * pages = pages * sector /\ page * pages = pages * page /\ pages * sector \in Nat
      BY <1>2, <1>7, SMTT(30)
    <3> QED BY <3>1, <3>2
  <2>2. pages * sector <= full
    <3> DEFINE a == pages * sector
               b == pages * page
    <3>1. a \in Nat /\ a <= b /\ b <= data /\ data <= full /\ b \in Nat /\ data \in Nat
      BY <2>1, <1>6, <1>7
    <3> HIDE DEF a, b, data
    <3> QED BY <3>1, <1>2 DEF a
  <2> QED BY <2>2, <1>2, <1>7, QuotientLargest DEF sectors
<1>12. pages * record \in Nat /\ pages * record <= sectors * record
  BY <1>2, <1>4, <1>7, <1>11, Product
<1> DEFINE x == pages * record
           y == sectors * record
<1>13. x \in Nat /\ y \in Nat /\ x <= y /\ HeaderSize + y <= size
  BY <1>4, <1>5, <1>12
<1>14. image.max_pos * image.config.record = x
  BY <1>10 DEF record
<1> HIDE DEF x, y
<1>15. data + HeaderSize + x <= full - size - area
  BY <1>2, <1>3, <1>5, <1>6, <1>13, NumberAssumption
<1> QED BY <1>9, <1>14, <1>15

\* Of a partition that a device wrote, the scan for the position of the dummy page
\* reads records of the first copy only.
THEOREM RecordsRead == Spec => []RecordsInCopy
<1>1. IInv => RecordsInCopy
  BY RecordsBeforeSecond DEF IInv, TypeOK, RecordsInCopy, NotWL
<1> QED BY <1>1, Invariant, PTL

\* The clusters of a mounted volume.
LEMMA CountedInVolume ==
  ASSUME TypeOK, Counted, NEW c \in 2 .. geometry.total_clusters + 1
  PROVE  /\ ClusterToSector(c) = geometry.first_data + (c - 2) * boot_sector.spc
         /\ ClusterToSector(c) + boot_sector.spc <= TotalSectors(boot_sector)
<1> DEFINE spc == boot_sector.spc
           total == TotalSectors(boot_sector)
           first == geometry.first_data
           count == geometry.total_clusters
<1>1. spc \in Nat \ {0} /\ total \in Nat /\ first \in Nat /\ first <= total /\ total < Word
      /\ count = (total - first) \div spc
  BY DEF Counted, TypeOK, Boots
<1>2. c \in Nat /\ c - 2 \in Nat /\ c - 1 \in Nat /\ count \in Nat /\ c - 1 <= count /\ ~ (c < 2)
  BY DEF TypeOK
<1> HIDE DEF spc, total, first, count
<1>3. count * spc \in Nat /\ count * spc <= total - first
  BY <1>1, Quotient
<1>4. (c - 1) * spc \in Nat /\ (c - 1) * spc <= count * spc
  BY <1>1, <1>2, Product
<1>5. (c - 2) * spc \in Nat /\ (c - 2) * spc + spc = (c - 1) * spc
  <2> DEFINE k == c - 2
  <2>1. k \in Nat /\ c - 1 = k + 1
    BY <1>2
  <2> HIDE DEF k
  <2>2. k * spc \in Nat /\ (k + 1) * spc = k * spc + spc
    BY <1>1, <2>1, SMTT(30)
  <2> QED BY <2>1, <2>2 DEF k
<1> DEFINE p == (c - 2) * spc
<1>6. p \in Nat /\ first + p + spc <= total
  <2> DEFINE q == (c - 1) * spc
             r == count * spc
  <2>1. p \in Nat /\ p + spc = q /\ q <= r /\ q \in Nat /\ r \in Nat /\ r <= total - first
    BY <1>3, <1>4, <1>5
  <2> HIDE DEF p, q, r
  <2> QED BY <2>1, <1>1
<1> HIDE DEF p
<1>7. p < Word /\ first + p < Word /\ first + p \in Nat
  BY <1>1, <1>6, NumberAssumption
<1>8. p % Word = p /\ (first + p) % Word = first + p
  BY <1>6, <1>7, Unwrapped
<1>9. ClusterToSector(c) = (first + (p % Word)) % Word
  BY <1>2 DEF ClusterToSector, Add, Mul, p, first, spc
<1>10. ClusterToSector(c) = first + p
  BY <1>8, <1>9
<1> QED BY <1>6, <1>10 DEF p, first, spc, total

\* Whatever the boot sector says and wherever its numbers wrap, the clusters counted
\* lie in the volume, one after the other.
THEOREM ClustersLieInVolume == Spec => []ClustersInVolume
<1>1. IInv => ClustersInVolume
  BY CountedInVolume DEF IInv, ClustersInVolume
<1> QED BY <1>1, Invariant, PTL

-----------------------------------------------------------------------------
(* Sequences put together from rows *)

\* Every non-empty set of naturals has a least element.
LEMMA LeastNat ==
  ASSUME NEW T \in SUBSET Nat, T # {}
  PROVE  \E x \in T : \A y \in T : x <= y
<1> DEFINE R == {ss \in Nat \X Nat : ss[1] < ss[2]}
<1>1. IsWellFoundedOn(R, Nat)
  BY NatLessThanWellFounded, Zenon DEF OpToRel
<1>2. \E x \in T : \A y \in T : ~ (<<y, x>> \in R)
  <2> HIDE DEF R
  <2> QED BY <1>1, WFMin
<1>3. PICK x \in T : \A y \in T : ~ (<<y, x>> \in R)
  BY <1>2
<1>4. ASSUME NEW y \in T PROVE x <= y
  <2>1. x \in Nat /\ y \in Nat /\ ~ (<<y, x>> \in R)
    BY <1>3
  <2> QED BY <2>1
<1> QED BY <1>3, <1>4

\* A set that holds 0, and with each natural the next, has all of them.
LEMMA Induction ==
  ASSUME NEW S, 0 \in S, \A n \in Nat : n \in S => n + 1 \in S
  PROVE  \A n \in Nat : n \in S
<1> SUFFICES ASSUME NEW n \in Nat, n \notin S PROVE FALSE
  OBVIOUS
<1>1. Nat \ S \in SUBSET Nat /\ Nat \ S # {}
  OBVIOUS
<1>2. PICK m \in Nat \ S : \A k \in Nat \ S : m <= k
  BY <1>1, LeastNat
<1>3. m - 1 \in Nat /\ m - 1 \in S
  BY <1>2
<1> QED BY <1>2, <1>3

\* f[i] joins the first i rows, for every i up to n.
Joins(rows, f, n) == f = [i \in 1 .. n |-> IF i = 1 THEN rows[i] ELSE f[i - 1] \o rows[i]]

\* The recursive function in the definition of FlattenSeq exists.
LEMMA JoinExists ==
  ASSUME NEW rows
  PROVE  \A n \in Nat : \E f : Joins(rows, f, n)
<1> DEFINE S == {n \in Nat : \E f : Joins(rows, f, n)}
<1>1. 0 \in S
  <2> DEFINE f == [i \in 1 .. 0 |-> rows[i]]
  <2>1. Joins(rows, f, 0)
    BY DEF Joins
  <2> HIDE DEF f
  <2> QED BY <2>1
<1>2. ASSUME NEW n \in Nat, n \in S PROVE n + 1 \in S
  <2>1. PICK f : Joins(rows, f, n)
    BY <1>2
  <2> DEFINE g == [i \in 1 .. n + 1 |->
                     IF i <= n THEN f[i] ELSE IF i = 1 THEN rows[i] ELSE f[i - 1] \o rows[i]]
  <2>2. ASSUME NEW i \in 1 .. n + 1
        PROVE  g[i] = IF i = 1 THEN rows[i] ELSE g[i - 1] \o rows[i]
    <3>1. i # 1 => i - 1 \in 1 .. n + 1 /\ i - 1 <= n /\ g[i - 1] = f[i - 1]
      OBVIOUS
    <3>2. CASE i <= n
      <4>1. i \in 1 .. n /\ g[i] = f[i]
        BY <3>2
      <4>2. f[i] = IF i = 1 THEN rows[i] ELSE f[i - 1] \o rows[i]
        BY <2>1, <4>1 DEF Joins
      <4> HIDE DEF g
      <4> QED BY <3>1, <4>1, <4>2
    <3>3. CASE ~ (i <= n)
      <4>1. g[i] = IF i = 1 THEN rows[i] ELSE f[i - 1] \o rows[i]
        BY <3>3
      <4> HIDE DEF g
      <4> QED BY <3>1, <4>1
    <3> QED BY <3>2, <3>3
  <2>3. Joins(rows, g, n + 1)
    BY <2>2 DEF Joins
  <2> HIDE DEF g
  <2> QED BY <2>3
<1> HIDE DEF S
<1>3. \A n \in Nat : n \in S
  BY <1>1, <1>2, Induction
<1> QED BY <1>3 DEF S

\* s holds the first k rows of n entries, one after the other.
HoldsRows(s, rows, k, n) ==
  \A c \in 1 .. k, i \in 1 .. n : s[(c - 1) * n + i] = rows[c][i]

\* Rows of one length, flattened: each lies behind those before it.
LEMMA FlattenRows ==
  ASSUME NEW V, NEW m \in Nat, NEW n \in Nat, NEW rows \in [1 .. m -> Seq(V)],
         \A c \in 1 .. m : Len(rows[c]) = n
  PROVE  /\ FlattenSeq(rows) \in Seq(V) /\ Len(FlattenSeq(rows)) = m * n
         /\ HoldsRows(FlattenSeq(rows), rows, m, n)
<1>1. Len(rows) = m /\ rows \in Seq(Seq(V))
  OBVIOUS
<1>2. CASE m = 0
  <2>1. FlattenSeq(rows) = rows /\ rows = <<>>
    BY <1>1, <1>2 DEF FlattenSeq
  <2>2. 0 * n = 0
    OBVIOUS
  <2> QED BY <1>2, <2>1, <2>2 DEF HoldsRows
<1>3. CASE m # 0
  <2> DEFINE f == CHOOSE f : Joins(rows, f, m)
  <2>1. Joins(rows, f, m)
    BY JoinExists
  <2>2. FlattenSeq(rows) = f[m]
    BY <1>1, <1>3, Zenon DEF FlattenSeq, Joins
  <2> HIDE DEF f
  <2> DEFINE Good(k) == f[k] \in Seq(V) /\ Len(f[k]) = k * n /\ HoldsRows(f[k], rows, k, n)
             S == {k \in Nat : k \in 1 .. m => Good(k)}
  <2>3. 0 \in S
    OBVIOUS
  <2>4. ASSUME NEW k \in Nat, k \in S PROVE k + 1 \in S
    <3> SUFFICES ASSUME k + 1 \in 1 .. m PROVE Good(k + 1)
      OBVIOUS
    <3>1. rows[k + 1] \in Seq(V) /\ Len(rows[k + 1]) = n
      OBVIOUS
    <3>2. CASE k = 0
      <4>1. f[1] = rows[1] /\ 1 * n = n /\ \A i \in 1 .. n : (1 - 1) * n + i = i
        BY <2>1, <3>2, <1>3 DEF Joins
      <4>2. HoldsRows(f[1], rows, 1, n)
        BY <4>1 DEF HoldsRows
      <4> QED BY <3>1, <3>2, <4>1, <4>2
    <3>3. CASE k # 0
      <4>1. k \in 1 .. m /\ Good(k)
        BY <3>3, <2>4
      <4>2. f[k + 1] = f[k] \o rows[k + 1]
        <5> DEFINE j == k + 1
        <5>1. j \in 1 .. m /\ j # 1 /\ j - 1 = k
          BY <3>3
        <5> HIDE DEF j
        <5>2. f[j] = IF j = 1 THEN rows[j] ELSE f[j - 1] \o rows[j]
          BY <2>1, <5>1 DEF Joins
        <5>3. f[j] = f[k] \o rows[j]
          BY <5>1, <5>2
        <5> QED BY <5>3 DEF j
      <4> DEFINE a == f[k]
                 b == rows[k + 1]
                 p == k * n
      <4>3. p \in Nat /\ (k + 1) * n = p + n
        BY SMTT(30)
      <4>4. a \in Seq(V) /\ b \in Seq(V) /\ Len(a) = p /\ Len(b) = n
        BY <3>1, <4>1
      <4>5. /\ a \o b \in Seq(V) /\ Len(a \o b) = p + n
            /\ \A j \in 1 .. p + n : (a \o b)[j] = IF j <= p THEN a[j] ELSE b[j - p]
        <5> HIDE DEF a, b, p
        <5> QED BY <4>3, <4>4, ConcatProperties
      <4>6. ASSUME NEW c \in 1 .. k + 1, NEW i \in 1 .. n
            PROVE  (a \o b)[(c - 1) * n + i] = rows[c][i]
        <5> DEFINE q == (c - 1) * n
        <5>1. CASE c <= k
          <6>1. c \in 1 .. k /\ c - 1 \in Nat /\ c \in Nat
            BY <5>1
          <6>2. q \in Nat /\ c * n \in Nat /\ c * n = q + n /\ c * n <= p
            <7>1. c * n <= k * n /\ c * n \in Nat
              BY <6>1, Product
            <7>2. (c - 1) * n \in Nat /\ c * n = (c - 1) * n + n
              BY <6>1, SMTT(30)
            <7> QED BY <7>1, <7>2
          <6>3. a[q + i] = rows[c][i]
            BY <4>1, <6>1 DEF HoldsRows
          <6> DEFINE z == c * n
          <6>4. z \in Nat /\ z = q + n /\ z <= p
            BY <6>2
          <6> HIDE DEF q, p, a, b, z
          <6>5. q + i \in 1 .. p + n /\ q + i <= p
            BY <4>3, <6>2, <6>4
          <6>6. (a \o b)[q + i] = a[q + i]
            BY <4>5, <6>5
          <6> QED BY <6>3, <6>6 DEF q
        <5>2. CASE ~ (c <= k)
          <6>1. c = k + 1 /\ c - 1 = k
            BY <5>2
          <6>2. q = p
            BY <6>1
          <6> HIDE DEF q, p, a
          <6> DEFINE j == p + i
          <6>3. j \in 1 .. p + n /\ ~ (j <= p) /\ j - p = i
            BY <4>3
          <6> HIDE DEF b, j
          <6>4. (a \o b)[j] = b[i]
            BY <4>5, <6>3
          <6> QED BY <6>1, <6>2, <6>4 DEF b, j, q
        <5> QED BY <5>1, <5>2
      <4>7. HoldsRows(f[k + 1], rows, k + 1, n)
        BY <4>2, <4>6 DEF HoldsRows
      <4> QED BY <4>2, <4>3, <4>5, <4>7
    <3> QED BY <3>2, <3>3
  <2> HIDE DEF S
  <2>5. \A k \in Nat : k \in S
    BY <2>3, <2>4, Induction
  <2>6. Good(m)
    BY <1>3, <2>5 DEF S
  <2> QED BY <2>2, <2>6
<1> QED BY <1>2, <1>3

-----------------------------------------------------------------------------
(* What a formatter makes *)

LEMMA RowSeq ==
  ASSUME NEW V, NEW n \in Nat, NEW s \in [1 .. n -> V]
  PROVE  s \in Seq(V) /\ Len(s) = n
OBVIOUS

\* The sectors a root directory takes: what the code counts with bytes added, a formatter
\* counts with the bytes rounded up.
LEMMA RootLengthRight ==
  ASSUME NEW l \in Layouts
  PROVE  /\ RootLength(l) \in Nat
         /\ RootLength(l) = (l.entries * EntrySize + (l.bps - 1)) \div l.bps
<1> DEFINE e == l.entries * EntrySize
           bps == l.bps
           q == (e + (bps - 1)) \div bps
<1>1. l.entries \in Nat /\ bps \in Nat \ {0}
  BY DEF Layouts
<1>2. e \in Nat
  BY <1>1, NumberAssumption, SMTT(30)
<1>3. RootLength(l) = (((e + bps - 1) \div bps) * bps) \div bps
  BY DEF RootLength, RoundUp
<1> HIDE DEF e, bps
<1>4. e + bps - 1 = e + (bps - 1) /\ e + (bps - 1) \in Nat
  BY <1>1, <1>2
<1>5. q \in Nat /\ RootLength(l) = (q * bps) \div bps
  BY <1>1, <1>3, <1>4, Quotient
<1> HIDE DEF q
<1>6. RootLength(l) = q
  BY <1>1, <1>5, QuotientOfProduct
<1> QED BY <1>5, <1>6 DEF q, e, bps

\* The numbers of a layout.
LEMMA LayoutNumbers ==
  ASSUME NEW l \in Layouts
  PROVE  /\ l.fats * l.fatsize \in Nat /\ l.fatsize <= l.fats * l.fatsize
         /\ l.clusters * l.spc \in Nat /\ RootLength(l) \in Nat
         /\ Length(l) \in Nat \ {0}
<1>1. /\ l.fats \in Nat \ {0} /\ l.fatsize \in Nat \ {0} /\ l.clusters \in Nat
      /\ l.spc \in Nat \ {0} /\ l.reserved \in Nat \ {0} /\ l.slack \in Nat
  BY DEF Layouts
<1>2. l.fats * l.fatsize \in Nat /\ 1 * l.fatsize <= l.fats * l.fatsize
  BY <1>1, Product
<1>3. l.clusters * l.spc \in Nat
  BY <1>1, SMTT(30)
<1>4. RootLength(l) \in Nat
  BY RootLengthRight
<1> QED BY <1>1, <1>2, <1>3, <1>4 DEF Length

\* Where a formatted volume has its first table, its root directory and its clusters.
LEMMA VolumeHolds ==
  ASSUME NEW l \in Layouts
  PROVE  LET root == l.reserved + l.fats * l.fatsize
             data == root + RootLength(l)
         IN  /\ \A i \in 1 .. l.fatsize : Volume(l)[l.reserved + i] = <<"fat", 1, i>>
             /\ \A i \in 1 .. RootLength(l) : Volume(l)[root + i] = <<"root", i>>
             /\ \A c \in 2 .. l.clusters + 1, i \in 1 .. l.spc :
                  Volume(l)[data + ((c - 2) * l.spc + i)] = <<"data", c, i>>
<1> DEFINE V == {<<"reserved", i>> : i \in Nat} \cup {<<"fat", n, i>> : n \in Nat, i \in Nat}
                \cup {<<"root", i>> : i \in Nat} \cup {<<"data", c, i>> : c \in Nat, i \in Nat}
           ar == [i \in 1 .. l.reserved |-> <<"reserved", i>>]
           fr == [n \in 1 .. l.fats |-> [i \in 1 .. l.fatsize |-> <<"fat", n, i>>]]
           rr == [i \in 1 .. RootLength(l) |-> <<"root", i>>]
           dr == [c \in 1 .. l.clusters |-> [i \in 1 .. l.spc |-> <<"data", c + 1, i>>]]
           f == FlattenSeq(fr)
           d == FlattenSeq(dr)
<1>1. /\ l.fats \in Nat \ {0} /\ l.fatsize \in Nat \ {0} /\ l.clusters \in Nat
      /\ l.spc \in Nat \ {0} /\ l.reserved \in Nat \ {0}
  BY DEF Layouts
<1>2. RootLength(l) \in Nat /\ l.fats * l.fatsize \in Nat
  BY LayoutNumbers
<1>3. ar \in Seq(V) /\ Len(ar) = l.reserved
  <2>1. ar \in [1 .. l.reserved -> V]
    OBVIOUS
  <2> HIDE DEF ar, V
  <2> QED BY <1>1, <2>1, RowSeq
<1>4. rr \in Seq(V) /\ Len(rr) = RootLength(l)
  <2>1. rr \in [1 .. RootLength(l) -> V]
    OBVIOUS
  <2> HIDE DEF rr, V
  <2> QED BY <1>2, <2>1, RowSeq
<1>5. f \in Seq(V) /\ Len(f) = l.fats * l.fatsize /\ HoldsRows(f, fr, l.fats, l.fatsize)
  <2>1. ASSUME NEW n \in 1 .. l.fats PROVE fr[n] \in Seq(V) /\ Len(fr[n]) = l.fatsize
    <3> DEFINE s == [i \in 1 .. l.fatsize |-> <<"fat", n, i>>]
    <3>1. s \in [1 .. l.fatsize -> V]
      OBVIOUS
    <3>2. s \in Seq(V) /\ Len(s) = l.fatsize
      <4> HIDE DEF s, V
      <4> QED BY <1>1, <3>1, RowSeq
    <3>3. fr[n] = s
      OBVIOUS
    <3> HIDE DEF s, V, fr
    <3> QED BY <3>2, <3>3
  <2>2. fr \in [1 .. l.fats -> Seq(V)]
    <3> HIDE DEF V
    <3> QED BY <2>1
  <2> HIDE DEF fr, V
  <2> QED BY <1>1, <2>1, <2>2, FlattenRows
<1>6. d \in Seq(V) /\ Len(d) = l.clusters * l.spc /\ HoldsRows(d, dr, l.clusters, l.spc)
  <2>1. ASSUME NEW c \in 1 .. l.clusters PROVE dr[c] \in Seq(V) /\ Len(dr[c]) = l.spc
    <3> DEFINE s == [i \in 1 .. l.spc |-> <<"data", c + 1, i>>]
    <3>1. s \in [1 .. l.spc -> V]
      OBVIOUS
    <3>2. s \in Seq(V) /\ Len(s) = l.spc
      <4> HIDE DEF s, V
      <4> QED BY <1>1, <3>1, RowSeq
    <3>3. dr[c] = s
      OBVIOUS
    <3> HIDE DEF s, V, dr
    <3> QED BY <3>2, <3>3
  <2>2. dr \in [1 .. l.clusters -> Seq(V)]
    <3> HIDE DEF V
    <3> QED BY <2>1
  <2> HIDE DEF dr, V
  <2> QED BY <1>1, <2>1, <2>2, FlattenRows
<1> DEFINE vol == Volume(l)
<1>7. vol = ar \o f \o rr \o d
  BY DEF Volume
<1> HIDE DEF V, ar, f, rr, d, vol
<1>8. /\ \A i \in 1 .. Len(f) : vol[Len(ar) + i] = f[i]
      /\ \A i \in 1 .. Len(rr) : vol[Len(ar) + Len(f) + i] = rr[i]
      /\ \A i \in 1 .. Len(d) : vol[Len(ar) + Len(f) + Len(rr) + i] = d[i]
  <2> DEFINE v == ar \o f \o rr \o d
  <2>1. ar \in Seq(V) /\ f \in Seq(V) /\ rr \in Seq(V) /\ d \in Seq(V)
    BY <1>3, <1>4, <1>5, <1>6
  <2>2. \A i \in 1 .. Len(f) : v[Len(ar) + i] = f[i]
    BY <2>1
  <2>3. \A i \in 1 .. Len(rr) : v[Len(ar) + Len(f) + i] = rr[i]
    BY <2>1
  <2>4. \A i \in 1 .. Len(d) : v[Len(ar) + Len(f) + Len(rr) + i] = d[i]
    BY <2>1
  <2>5. vol = v
    BY <1>7
  <2> HIDE DEF v
  <2> QED BY <2>2, <2>3, <2>4, <2>5
<1>9. ASSUME NEW i \in 1 .. l.fatsize PROVE vol[l.reserved + i] = <<"fat", 1, i>>
  <2>1. i \in 1 .. Len(f)
    BY <1>1, <1>2, <1>5, LayoutNumbers
  <2>2. PICK n \in 1 .. l.fats : n = 1
    BY <1>1
  <2>3. f[(n - 1) * l.fatsize + i] = fr[n][i]
    BY <1>5, Zenon DEF HoldsRows
  <2>4. fr[n][i] = <<"fat", 1, i>> /\ (n - 1) * l.fatsize + i = i
    BY <1>1, <2>2 DEF fr
  <2> HIDE DEF fr
  <2> QED BY <1>3, <1>8, <2>1, <2>2, <2>3, <2>4
<1>10. ASSUME NEW i \in 1 .. RootLength(l)
       PROVE  vol[l.reserved + l.fats * l.fatsize + i] = <<"root", i>>
  <2>1. rr[i] = <<"root", i>>
    BY DEF rr
  <2> QED BY <1>3, <1>4, <1>5, <1>8, <2>1
<1>11. ASSUME NEW c \in 2 .. l.clusters + 1, NEW i \in 1 .. l.spc
       PROVE  vol[l.reserved + l.fats * l.fatsize + RootLength(l) + ((c - 2) * l.spc + i)]
                = <<"data", c, i>>
  <2> DEFINE b == c - 1
             j == (b - 1) * l.spc + i
  <2>1. b \in 1 .. l.clusters /\ b + 1 = c /\ b - 1 = c - 2 /\ b - 1 \in Nat
    BY <1>1
  <2>2. d[j] = dr[b][i] /\ dr[b][i] = <<"data", b + 1, i>>
    BY <1>6, <2>1 DEF HoldsRows
  <2>3. j \in 1 .. Len(d)
    <3> DEFINE x == (b - 1) * l.spc
               y == b * l.spc
               z == l.clusters * l.spc
    <3>1. x \in Nat /\ y = x + l.spc
      <4> HIDE DEF b
      <4> QED BY <1>1, <2>1, SMTT(30)
    <3>2. y <= z /\ z \in Nat /\ y \in Nat
      BY <1>1, <2>1, Product
    <3> HIDE DEF x, y, z
    <3>3. x + i \in 1 .. z
      BY <1>1, <3>1, <3>2
    <3> QED BY <1>6, <3>3 DEF x, z
  <2> HIDE DEF j, dr
  <2>4. vol[Len(ar) + Len(f) + Len(rr) + j] = <<"data", b + 1, i>>
    BY <1>8, <2>2, <2>3
  <2>5. b + 1 = c /\ j = (c - 2) * l.spc + i
    BY <2>1 DEF j
  <2> HIDE DEF b
  <2> QED BY <1>3, <1>4, <1>5, <2>4, <2>5
<1> QED BY <1>9, <1>10, <1>11 DEF vol

-----------------------------------------------------------------------------
(* How the code reads what a formatter made *)

\* The boot sector of a formatted volume, parsed.
LEMMA FormatParsed ==
  ASSUME image \in Images, Formatted, AsItIs
  PROVE  LET l == image.layout
             bs == Parsed
         IN  /\ l \in Layouts /\ l.slack < l.spc /\ Length(l) < Word
             /\ bs.bps = l.bps /\ bs.spc = l.spc /\ bs.reserved = l.reserved
             /\ bs.fats = l.fats /\ bs.entries = l.entries
             /\ FatSize(bs) = l.fatsize /\ TotalSectors(bs) = Length(l)
             /\ FatType(l.clusters) = 32 => bs.root = l.root
<1> DEFINE l == image.layout
           boot == BootRead
           bs == Parsed
<1>1. l \in Layouts /\ l.slack < l.spc /\ boot = Format(l)
  BY FormatAssumption DEF Formatted, BootRead, AsItIs
<1>2. boot.total16 < Word /\ boot.total32 < Word
  BY ImageAssumption DEF BootRead
<1>3. bs = IF boot.fatsize16 = 0 THEN boot ELSE [boot EXCEPT !.fatsize32 = 0, !.root = 0]
  BY DEF Parsed
<1> HIDE DEF l, boot, bs
<1>4. l.fatsize \in Nat \ {0} /\ Length(l) \in Nat \ {0}
  BY <1>1, LayoutNumbers DEF Layouts
<1> DEFINE fat32 == FatType(l.clusters) = 32
           large == fat32 \/ l.large
           total == Length(l)
<1>5. boot = [bps |-> l.bps, spc |-> l.spc, reserved |-> l.reserved, fats |-> l.fats,
              entries |-> l.entries,
              total16 |-> IF large THEN 0 ELSE total, total32 |-> IF large THEN total ELSE 0,
              fatsize16 |-> IF fat32 THEN 0 ELSE l.fatsize, fatsize32 |-> l.fatsize,
              root |-> l.root]
  BY <1>1 DEF Format
<1> HIDE DEF fat32, large, total
<1>6. total \in Nat \ {0}
  BY <1>4 DEF total
<1>7. total < Word
  BY <1>2, <1>5
<1>8. /\ bs.bps = l.bps /\ bs.spc = l.spc /\ bs.reserved = l.reserved
      /\ bs.fats = l.fats /\ bs.entries = l.entries
      /\ bs.total16 = boot.total16 /\ bs.total32 = boot.total32
  BY <1>3, <1>5
<1>9. TotalSectors(bs) = total
  BY <1>5, <1>6, <1>8 DEF TotalSectors
<1>10. FatSize(bs) = l.fatsize /\ (fat32 => bs.root = l.root)
  <2>1. CASE fat32
    BY <1>3, <1>5, <2>1 DEF FatSize
  <2>2. CASE ~ fat32
    <3>1. bs.fatsize16 = l.fatsize
      BY <1>3, <1>4, <1>5, <2>2
    <3> QED BY <1>4, <2>2, <3>1 DEF FatSize
  <2> QED BY <2>1, <2>2
<1> QED BY <1>1, <1>7, <1>8, <1>9, <1>10 DEF l, bs, fat32, total

\* Where a formatted volume's parts are, and that it has no room for a cluster more.
LEMMA Places ==
  ASSUME NEW l \in Layouts, l.slack < l.spc, Length(l) < Word
  PROVE  LET meta == l.reserved + l.fats * l.fatsize + RootLength(l) IN
           /\ l.fats * l.fatsize < Word /\ l.reserved + l.fats * l.fatsize < Word
           /\ meta \in Nat /\ meta < Word /\ meta <= Length(l)
           /\ (Length(l) - meta) \div l.spc = l.clusters
<1> DEFINE f == l.fats * l.fatsize
           r == RootLength(l)
           c == l.clusters * l.spc
           meta == l.reserved + f + r
           total == Length(l)
<1>1. /\ l.reserved \in Nat /\ l.slack \in Nat /\ l.spc \in Nat \ {0} /\ l.clusters \in Nat
      /\ f \in Nat /\ r \in Nat /\ c \in Nat
  BY LayoutNumbers DEF Layouts
<1>2. total = l.reserved + f + r + c + l.slack
  BY DEF Length
<1>3. (c + l.slack) \div l.spc = l.clusters
  <2> DEFINE n == c + l.slack
             q == n \div l.spc
  <2>1. n \in Nat /\ c <= n
    BY <1>1
  <2>2. q \in Nat /\ q * l.spc \in Nat /\ q * l.spc <= n
    <3> HIDE DEF n
    <3> QED BY <1>1, <2>1, Quotient
  <2>3. l.clusters <= q
    <3> HIDE DEF n
    <3> QED BY <1>1, <2>1, QuotientLargest
  <2>4. ~ (l.clusters + 1 <= q)
    <3>1. SUFFICES ASSUME l.clusters + 1 <= q PROVE FALSE
      OBVIOUS
    <3> DEFINE x == (l.clusters + 1) * l.spc
               y == q * l.spc
    <3>2. x <= y /\ x \in Nat /\ y \in Nat
      <4> HIDE DEF q
      <4> QED BY <1>1, <2>2, <3>1, Product
    <3>3. x = c + l.spc
      BY <1>1, SMTT(30)
    <3>4. y <= n
      BY <2>2
    <3> HIDE DEF x, y, c, q
    <3> QED BY <1>1, <3>2, <3>3, <3>4
  <2> HIDE DEF q
  <2>5. l.clusters = q
    BY <1>1, <2>2, <2>3, <2>4
  <2> QED BY <2>5 DEF q
<1> HIDE DEF f, r, c, total
<1>4. f < Word /\ l.reserved + f < Word /\ meta \in Nat /\ meta < Word /\ meta <= total
  BY <1>1, <1>2, NumberAssumption DEF total
<1>5. total - meta = c + l.slack
  BY <1>1, <1>2
<1> QED BY <1>3, <1>4, <1>5 DEF f, r, total

\* What mount keeps of a formatted volume.
Placed ==
  LET l == image.layout IN
    /\ boot_sector.spc = l.spc
    /\ geometry.first_fat = l.reserved
    /\ geometry.root_sectors = RootLength(l)
    /\ geometry.first_root = l.reserved + l.fats * l.fatsize
    /\ geometry.first_data = l.reserved + l.fats * l.fatsize + RootLength(l)
    /\ geometry.total_clusters = l.clusters
    /\ root_cluster = IF FatType(l.clusters) = 32 THEN l.root ELSE 0

\* Mount finds it large enough, and its parts where they are.
LEMMA FormatGeometry ==
  ASSUME image \in Images, Formatted, AsItIs, geometry = NoGeometry
  PROVE  LET l == image.layout
             g == Geometry(Parsed)
         IN  /\ ~ TooSmall(Parsed)
             /\ g.first_fat = l.reserved /\ g.root_sectors = RootLength(l)
             /\ g.first_root = l.reserved + l.fats * l.fatsize
             /\ g.first_data = l.reserved + l.fats * l.fatsize + RootLength(l)
             /\ g.total_clusters = l.clusters
<1> DEFINE l == image.layout
           bs == Parsed
           f == l.fats * l.fatsize
           r == RootLength(l)
           meta == l.reserved + f + r
           total == Length(l)
<1>1. /\ l \in Layouts /\ l.slack < l.spc /\ Length(l) < Word
      /\ bs.bps = l.bps /\ bs.spc = l.spc /\ bs.reserved = l.reserved
      /\ bs.fats = l.fats /\ bs.entries = l.entries
      /\ FatSize(bs) = l.fatsize /\ TotalSectors(bs) = total
  BY FormatParsed
<1>2. FirstData(bs) = Metadata(bs)
  BY DataAfterMetadata
<1> HIDE DEF l, bs
<1>3. RootSectors(bs) = r
  BY <1>1, RootLengthRight DEF RootSectors
<1>4. /\ l.reserved \in Nat /\ f \in Nat /\ r \in Nat /\ total \in Nat
  BY <1>1, LayoutNumbers DEF Layouts
<1>5. /\ f < Word /\ l.reserved + f < Word /\ meta \in Nat /\ meta < Word /\ meta <= total
      /\ (total - meta) \div l.spc = l.clusters
  BY <1>1, Places
<1>6. Mul(bs.fats, FatSize(bs)) = f
  BY <1>1, <1>4, <1>5, Unwrapped DEF Mul
<1> HIDE DEF f, r, total
<1>7. Add(l.reserved, f) = l.reserved + f
  BY <1>4, <1>5, Unwrapped DEF Add
<1>8. Add(l.reserved + f, r) = meta
  BY <1>4, <1>5, Unwrapped DEF Add
<1>9. FirstRoot(bs) = l.reserved + f
  BY <1>1, <1>6, <1>7 DEF FirstRoot
<1>10. Metadata(bs) = meta
  BY <1>1, <1>3, <1>6, <1>7, <1>8 DEF Metadata
<1>11. Sub(total, meta) = total - meta
  <2> DEFINE d == total - meta
  <2>1. d \in Nat /\ d < Word
    BY <1>1, <1>4, <1>5, NumberAssumption DEF total
  <2> HIDE DEF d
  <2>2. d % Word = d
    BY <2>1, Unwrapped
  <2> QED BY <2>2 DEF Sub, d
<1> HIDE DEF meta
<1>12. ~ TooSmall(bs)
  BY <1>1, <1>4, <1>5, <1>10 DEF TooSmall
<1>13. Geometry(bs) = [first_fat |-> l.reserved, root_sectors |-> r, first_root |-> l.reserved + f,
                       first_data |-> meta, data_sectors |-> total - meta,
                       total_clusters |-> (total - meta) \div l.spc]
  BY <1>1, <1>2, <1>3, <1>9, <1>10, <1>11 DEF Geometry, Laid
<1> QED BY <1>5, <1>12, <1>13 DEF l, bs, f, r, meta

\* The code and the device work out the same size of the state, each in its own way.
LEMMA StateArea ==
  ASSUME image \in Images, Found
  PROVE  LET config == image.config
             state == RoundUp(HeaderSize + (config.full \div config.sector) * config.record,
                              config.sector)
         IN  /\ config \in Configs /\ config.page # 0 /\ config.sector # 0
             /\ StateSize = state /\ state \in Nat
             /\ CfgArea = RoundUp(ConfigSize, config.sector) /\ CfgArea \in Nat
<1> DEFINE full == image.config.full
           page == image.config.page
           sector == image.config.sector
           record == image.config.record
           area == CfgArea
           size == StateSize
           state == RoundUp(HeaderSize + (full \div sector) * record, sector)
<1>1. PICK c \in Candidates : Parses(image, c)
  BY DEF Found
<1>2. /\ full \in Nat /\ page \in Nat \ {0} /\ sector \in Nat \ {0} /\ record \in Nat
      /\ image.config \in Configs
  BY <1>1, ImageAssumption, NoConfigAssumption, NumberAssumption DEF Parses, Configs
<1>3. area \in Nat /\ area = RoundUp(ConfigSize, sector)
  BY <1>2, Rounded, NumberAssumption DEF CfgArea
<1>4. MinState = HeaderSize + (full \div sector) * record /\ MinState \in Nat \ {0}
  <2>1. full \div sector \in Nat
    BY <1>2, Quotient
  <2>2. (full \div sector) * record \in Nat
    <3> HIDE DEF full, sector, record
    <3> QED BY <1>2, <2>1, SMTT(30)
  <2> QED BY <2>2, NumberAssumption DEF MinState
<1>7. size = IF sector < MinState THEN RoundUp(MinState, sector) ELSE sector
  BY DEF StateSize
<1>8. state = RoundUp(MinState, sector)
  BY <1>4
<1> HIDE DEF full, page, sector, record, area, size, state
<1>11. size = state /\ state \in Nat
  <2> DEFINE m == MinState
  <2>1. m \in Nat \ {0} /\ state = RoundUp(m, sector) /\ m <= RoundUp(m, sector)
        /\ RoundUp(m, sector) \in Nat
    BY <1>2, <1>4, <1>8, Rounded
  <2>2. CASE sector < m
    BY <1>7, <2>1, <2>2
  <2>3. CASE ~ (sector < m)
    <3> DEFINE x == m + sector - 1
               q == x \div sector
    <3>1. x \in Nat /\ 1 * sector <= x /\ x < 2 * sector /\ 1 * sector = sector
      BY <1>2, <1>4, <2>3
    <3>2. 1 <= q /\ q \in Nat
      <4> HIDE DEF x
      <4> QED BY <1>2, <3>1, Quotient, QuotientLargest
    <3>3. ~ (2 <= q)
      <4>1. SUFFICES ASSUME 2 <= q PROVE FALSE
        OBVIOUS
      <4>2. q * sector <= x /\ q * sector \in Nat
        <5> HIDE DEF x
        <5> QED BY <1>2, <3>1, Quotient
      <4>3. 2 * sector <= q * sector
        <5> HIDE DEF q
        <5> QED BY <1>2, <3>2, <4>1, Product
      <4> DEFINE y == q * sector
      <4>4. y \in Nat /\ y <= x /\ 2 * sector <= y
        BY <4>2, <4>3
      <4> HIDE DEF y, x, q
      <4> QED BY <1>2, <3>1, <4>4
    <3> HIDE DEF q
    <3>4. q = 1
      BY <3>2, <3>3
    <3>5. RoundUp(m, sector) = q * sector
      BY DEF RoundUp, q
    <3>6. RoundUp(m, sector) = sector
      BY <1>2, <3>4, <3>5
    <3> QED BY <1>2, <1>7, <2>1, <2>3, <3>6
  <2> QED BY <2>2, <2>3
<1>12. page # 0 /\ sector # 0
  BY <1>2
<1> QED BY <1>2, <1>3, <1>11, <1>12 DEF full, page, sector, record, area, size, state

\* A dump that a device keeps has room for its parts: it is not taken for a plain image.
LEMMA DeviceRoom ==
  ASSUME image \in Images, Found, NEW bytes \in Nat, Keeps(image.config, bytes)
  PROVE  Room
<1> DEFINE full == image.config.full
           page == image.config.page
           sector == image.config.sector
           area == CfgArea
           size == StateSize
<1>1. full \in Nat /\ page \in Nat \ {0} /\ area \in Nat /\ size \in Nat
  BY StateArea DEF Configs
<1>0. /\ area = RoundUp(ConfigSize, sector)
      /\ size = RoundUp(HeaderSize + (full \div sector) * image.config.record, sector)
  BY StateArea
<1>2. PICK pages \in 0 .. full \div page : (pages + 1) * page + 2 * size + area <= full
  BY <1>0 DEF Keeps
<1> DEFINE x == (pages + 1) * page
<1> HIDE DEF full, page, sector, area, size
<1>3. pages \in Nat
  BY <1>1, <1>2, Quotient
<1>4. 1 * page <= x /\ x \in Nat /\ 1 * page = page
  BY <1>1, <1>3, Product
<1>5. x + 2 * size + area <= full
  BY <1>2
<1> HIDE DEF x
<1>6. full >= size * 2 + area + page
  BY <1>1, <1>4, <1>5
<1> QED BY <1>6 DEF Room, full, page, area, size

\* What a device keeps lies within the flash_size worked out for it: the code adds up
\* the same parts another way.
LEMMA DeviceWithin ==
  ASSUME image \in Images, Found, Room, NEW on \in BOOLEAN, NEW bytes \in Nat,
         Keeps(image.config, bytes)
  PROVE  bytes <= Layout(on).flash_size
<1> DEFINE full == image.config.full
           page == image.config.page
           sector == image.config.sector
           area == CfgArea
           size == StateSize
           data == full - size * 2 - area
           n == data \div page
<1>1. full \in Nat /\ page \in Nat \ {0} /\ area \in Nat /\ size \in Nat
  BY StateArea DEF Configs
<1>0. /\ area = RoundUp(ConfigSize, sector)
      /\ size = RoundUp(HeaderSize + (full \div sector) * image.config.record, sector)
  BY StateArea
<1>2. PICK pages \in 0 .. full \div page :
        bytes <= pages * page /\ (pages + 1) * page + 2 * size + area <= full
  BY <1>0 DEF Keeps
<1>3. Layout(on).flash_size = (n - 1) * page
  BY DEF Layout
<1>10. Room
  OBVIOUS
<1>4. pages \in Nat
  BY <1>1, <1>2, Quotient
<1> HIDE DEF full, page, sector, area, size, n
<1>12. pages + 1 <= n
  <2> DEFINE x == (pages + 1) * page
  <2>1. x \in Nat
    BY <1>1, <1>4, SMTT(30)
  <2>2. x + 2 * size + area <= full
    BY <1>2
  <2> HIDE DEF x
  <2>3. data \in Nat /\ x <= data
    BY <1>1, <2>1, <2>2
  <2> HIDE DEF data
  <2> QED BY <1>1, <1>4, <2>3, QuotientLargest DEF n, x
<1>13. n \in Nat
  <2>1. data \in Nat
    BY <1>1, <1>10 DEF Room, full, area, size, page
  <2> HIDE DEF data
  <2> QED BY <1>1, <2>1, Quotient DEF n
<1>14. pages * page <= (n - 1) * page /\ pages * page \in Nat /\ (n - 1) * page \in Nat
  <2> DEFINE k == n - 1
  <2>1. k \in Nat /\ pages <= k
    BY <1>4, <1>12, <1>13
  <2> HIDE DEF k
  <2>2. pages * page <= k * page /\ pages * page \in Nat /\ k * page \in Nat
    BY <1>1, <1>4, <2>1, Product
  <2> QED BY <2>2 DEF k
<1> DEFINE y == pages * page
           z == (n - 1) * page
<1>15. y \in Nat /\ z \in Nat /\ y <= z /\ bytes <= y
  BY <1>2, <1>14
<1> HIDE DEF y, z
<1>16. bytes <= z
  BY <1>15
<1> QED BY <1>3, <1>16 DEF z

\* A formatted volume with the sectors of the HAL lies within what the HAL can read.
LEMMA VolumeWithin ==
  ASSUME IInv, Formatted
  PROVE  Length(image.layout) * image.layout.bps <= Extent
<1> DEFINE bytes == Length(image.layout) * image.layout.bps
<1>1. image \in Images
  BY DEF IInv, TypeOK
<1>2. bytes <= image.size /\ (image.config # NoConfig => Keeps(image.config, bytes))
  BY <1>1, FormatAssumption DEF Formatted
<1>3. bytes \in Nat
  <2>1. image.layout \in Layouts
    BY <1>1, FormatAssumption DEF Formatted
  <2>2. Length(image.layout) \in Nat /\ image.layout.bps \in Nat
    BY <2>1, LayoutNumbers DEF Layouts
  <2> QED BY <2>2, SMTT(30)
<1> HIDE DEF bytes
<1>4. CASE wl.enabled
  <2>1. Found /\ Room /\ \E on \in BOOLEAN : wl = Layout(on)
    BY <1>4 DEF IInv, NotWL
  <2>2. image.config # NoConfig
    BY <2>1 DEF Found, Parses
  <2>3. bytes <= wl.flash_size
    BY <1>1, <1>2, <1>3, <2>1, <2>2, DeviceWithin
  <2> QED BY <1>4, <2>3 DEF Extent, bytes
<1>5. CASE ~ wl.enabled
  BY <1>2, <1>5 DEF Extent, bytes
<1> QED BY <1>4, <1>5

\* A formatted volume is taken for what it is and mounted, if nothing fails, with its
\* parts where they are.
FormatInv ==
  Formatted =>
    /\ image.layout.bps = SectorSize /\ step = "refused" => harm \/ ~ image.state
    /\ step \in {"open", "mounted"} /\ ~ harm => AsItIs
    /\ Mounted /\ ~ harm => Placed

LEMMA InitFormat == Init => FormatInv
BY DEF Init, FormatInv, Mounted

LEMMA NextFormat == IInv /\ FormatInv /\ [Next]_vars => FormatInv'
<1> SUFFICES ASSUME IInv, FormatInv, [Next]_vars, Formatted' PROVE FormatInv'
  BY DEF FormatInv
<1>1. image' = image /\ image \in Images
  BY DEF IInv, TypeOK, Next, vars, OpenEmpty, OpenPlain, OpenDump, OpenCorrupt, OpenFails,
         OpenMistaken, Opened,
         MountReadsNothing, MountNoSector, MountZero, MountTooSmall, MountNoRoot, MountDone,
         Mounting
<1>2. Formatted
  BY <1>1 DEF Formatted
<1> DEFINE l == image.layout
           bytes == Length(l) * l.bps
<1>3. l \in Layouts /\ l.bps \in Nat \ {0} /\ l.spc \in Nat \ {0}
  <2>1. l \in Layouts
    BY <1>1, <1>2, FormatAssumption DEF Formatted
  <2> QED BY <2>1 DEF Layouts
<1>8. ASSUME step = "open", ~ harm
      PROVE  /\ AsItIs /\ Parsed.bps = l.bps /\ Parsed.spc = l.spc
             /\ FatType(l.clusters) = 32 => Parsed.root = l.root
  <2>1. AsItIs
    BY <1>2, <1>8 DEF FormatInv
  <2> QED BY <1>1, <1>2, <2>1, FormatParsed
<1>4. bytes <= Extent /\ bytes \in Nat /\ l.bps <= bytes
  <2>1. bytes <= Extent
    BY <1>2, VolumeWithin
  <2>2. Length(l) \in Nat \ {0}
    BY <1>3, LayoutNumbers
  <2>3. bytes \in Nat /\ 1 * l.bps <= bytes /\ 1 * l.bps = l.bps
    <3> DEFINE n == Length(l)
               d == l.bps
    <3>1. n \in Nat /\ 1 <= n /\ d \in Nat /\ 1 * d = d
      BY <1>3, <2>2
    <3> HIDE DEF n, d
    <3>2. 1 * d <= n * d /\ n * d \in Nat
      BY <3>1, Product
    <3> QED BY <3>1, <3>2 DEF n, d
  <2> QED BY <2>1, <2>3
<1>5. step = "open" => geometry = NoGeometry
  BY DEF IInv
\* Which steps refuse it, and with what.
<1>6. ASSUME l.bps = SectorSize, step' = "refused" PROVE harm' \/ ~ image.state
  <2>1. CASE OpenEmpty
    <3>1. image.size = 0 /\ bytes <= image.size
      BY <1>1, <1>2, <2>1, FormatAssumption DEF OpenEmpty, Formatted
    <3> HIDE DEF bytes
    <3> QED BY <1>3, <1>4, <3>1
  <2>2. CASE OpenPlain \/ OpenDump \/ OpenMistaken
    BY <1>6, <2>2 DEF OpenPlain, OpenDump, OpenMistaken, Opened
  <2>3. CASE OpenCorrupt \/ OpenFails
    BY <2>3 DEF OpenCorrupt, OpenFails, Opened
  <2>4. CASE MountReadsNothing \/ MountNoRoot
    BY <2>4 DEF MountReadsNothing, MountNoRoot
  <2>5. CASE MountNoSector
    <3>1. wl.enabled /\ ~ (SectorSize <= wl.flash_size)
      BY <2>5 DEF MountNoSector, CanMount
    <3>2. bytes <= wl.flash_size /\ l.bps <= bytes /\ bytes \in Nat
      BY <1>4, <3>1 DEF Extent
    <3>3. wl.flash_size \in Int
      BY DEF IInv, TypeOK
    <3> HIDE DEF bytes
    <3> QED BY <1>3, <1>6, <3>1, <3>2, <3>3
  <2>6. CASE MountZero
    BY <1>3, <1>8, <2>6 DEF MountZero, Mounting
  <2>7. CASE MountTooSmall
    <3>1. TooSmall(Parsed) /\ step = "open" /\ harm' = harm
      BY <2>7 DEF MountTooSmall, Mounting
    <3>2. ~ harm => ~ TooSmall(Parsed)
      BY <1>1, <1>2, <1>5, <1>8, <3>1, FormatGeometry
    <3> QED BY <3>1, <3>2 DEF IInv, TypeOK
  <2>8. CASE MountDone
    BY <1>6, <2>8 DEF MountDone, Mounting
  <2>9. CASE UNCHANGED vars
    BY <1>2, <1>6, <2>9 DEF vars, FormatInv
  <2> QED BY <2>1, <2>2, <2>3, <2>4, <2>5, <2>6, <2>7, <2>8, <2>9 DEF Next
\* What it is taken for.
<1>9. ASSUME step' \in {"open", "mounted"}, ~ harm' PROVE AsItIs'
  <2>1. CASE OpenPlain
    <3>1. ~ (Found /\ Room) /\ wl' = NotWL
      BY <2>1 DEF OpenPlain, Opened
    <3>2. image.config # NoConfig => Found /\ Keeps(image.config, bytes)
      BY <1>1, <1>2, FormatAssumption DEF Formatted, Found
    <3>3. image.config = NoConfig
      <4> HIDE DEF bytes
      <4> QED BY <1>1, <1>4, <3>1, <3>2, DeviceRoom
    <3> QED BY <1>1, <3>3 DEF AsItIs
  <2>2. CASE OpenDump
    BY <2>2 DEF OpenDump, Opened, Layout, AsItIs
  <2>3. CASE OpenEmpty \/ OpenCorrupt \/ OpenFails \/ OpenMistaken
    BY <1>9, <2>3 DEF OpenEmpty, OpenCorrupt, OpenFails, OpenMistaken, Opened
  <2>4. CASE MountReadsNothing \/ MountNoSector \/ MountZero \/ MountTooSmall \/ MountNoRoot
    BY <1>9, <2>4
    DEF MountReadsNothing, MountNoSector, MountZero, MountTooSmall, MountNoRoot, Mounting
  <2>5. CASE MountDone \/ UNCHANGED vars
    <3>1. wl' = wl /\ harm' = harm /\ step \in {"open", "mounted"}
      BY <1>9, <2>5 DEF MountDone, Mounting, vars
    <3> QED BY <1>1, <1>2, <1>9, <3>1 DEF FormatInv, AsItIs
  <2> QED BY <2>1, <2>2, <2>3, <2>4, <2>5 DEF Next
\* Where mounting leaves its parts.
<1>7. ASSUME step' = "mounted", ~ harm' PROVE Placed'
  <2>1. CASE MountDone
    <3>1. /\ step = "open" /\ boot_sector' = Parsed /\ geometry' = Geometry(Parsed)
          /\ root_cluster' = IF FatType(geometry'.total_clusters) = 32 THEN Parsed.root ELSE 0
          /\ harm' = harm
      BY <2>1 DEF MountDone, Mounting
    <3>5. AsItIs /\ Parsed.spc = l.spc /\ (FatType(l.clusters) = 32 => Parsed.root = l.root)
      BY <1>7, <1>8, <3>1
    <3> DEFINE g == Geometry(Parsed)
    <3>2. /\ g.first_fat = l.reserved /\ g.root_sectors = RootLength(l)
          /\ g.first_root = l.reserved + l.fats * l.fatsize
          /\ g.first_data = l.reserved + l.fats * l.fatsize + RootLength(l)
          /\ g.total_clusters = l.clusters
      BY <1>1, <1>2, <1>5, <3>1, <3>5, FormatGeometry
    <3> HIDE DEF g
    <3>3. root_cluster' = IF FatType(l.clusters) = 32 THEN l.root ELSE 0
      BY <3>1, <3>2, <3>5 DEF g
    <3>4. boot_sector'.spc = l.spc /\ geometry' = g
      BY <3>1, <3>5 DEF g
    <3> QED BY <1>1, <3>2, <3>3, <3>4 DEF Placed, RootLength, RoundUp, FatType
  <2>2. CASE UNCHANGED vars
    BY <1>2, <1>7, <2>2 DEF vars, FormatInv, Placed, Mounted, RootLength, RoundUp, FatType
  <2>3. CASE ~ MountDone /\ ~ UNCHANGED vars
    BY <1>7, <2>3
    DEF Next, OpenEmpty, OpenPlain, OpenDump, OpenCorrupt, OpenFails, OpenMistaken, Opened,
        MountReadsNothing, MountNoSector, MountZero, MountTooSmall, MountNoRoot, Mounting
  <2> QED BY <2>1, <2>2, <2>3
<1> QED BY <1>1, <1>6, <1>7, <1>9 DEF FormatInv, Mounted

\* A sector of the volume, read by its number: neither the number nor, in a plain image,
\* its distance from the beginning is cut to a word.
LEMMA ReadSector ==
  ASSUME NEW l, NEW s \in Nat, l.bps = SectorSize, NEW n \in Nat, s + 1 <= n,
         n * SectorSize <= Extent, Extent \in Int,
         AsItIs, n < Word, wl.enabled \/ n * SectorSize <= Word
  PROVE  Read(l, s) = Volume(l)[s + 1]
<1> DEFINE d == SectorSize
           x == (s + 1) * d
           y == n * d
           p == s * d
           e == Extent
           o == Offset(s)
<1>1. d \in Nat \ {0} /\ Word \in Nat
  BY NumberAssumption
<1>2. s % Word = s
  BY <1>1, Unwrapped
<1> HIDE DEF d
<1>3. x <= y /\ x \in Nat /\ y \in Nat
  BY <1>1, Product
<1>4. p \in Nat /\ p \div d = s /\ x = p + d
  <2>1. p \in Nat /\ (s + 1) * d = s * d + d
    BY <1>1, SMTT(30)
  <2> QED BY <1>1, <2>1, QuotientOfProduct
<1>5. y <= e /\ e \in Int /\ (wl.enabled \/ y <= Word)
  BY DEF y, d, e
<1>6. o = IF wl.enabled THEN p ELSE p % Word
  BY <1>2 DEF Offset, Mul, d
<1>7. p % d = 0
  <2> HIDE DEF p
  <2>1. p = (p \div d) * d + (p % d) /\ p % d \in Nat
    BY <1>1, <1>4, SMTT(30)
  <2> QED BY <1>1, <1>4, <2>1 DEF p
<1> HIDE DEF x, y, e, p, o
<1>8. o = p
  <2>1. CASE wl.enabled
    BY <1>6, <2>1
  <2>2. CASE ~ wl.enabled
    <3>1. p < Word
      BY <1>1, <1>3, <1>4, <1>5, <2>2
    <3> QED BY <1>4, <1>6, <2>2, <3>1, Unwrapped
  <2> QED BY <2>1, <2>2
<1>9. ~ (o + d > e)
  BY <1>1, <1>3, <1>4, <1>5, <1>8
<1> DEFINE v == Volume(l)
<1> HIDE DEF v
<1>10. Read(l, s) = CASE o + d > e -> <<"none">> [] ~ AsItIs -> <<"elsewhere">>
                      [] o % l.bps # 0 -> <<"within">> [] OTHER -> v[o \div l.bps + 1]
  BY DEF Read, e, o, d, v
<1>11. l.bps = d
  BY DEF d
<1> QED BY <1>4, <1>7, <1>8, <1>9, <1>10, <1>11 DEF v

\* What mount keeps leads to every part of the volume.
LEMMA PlacedReads ==
  ASSUME IInv, Formatted, Mounted, Placed, image.layout.bps = SectorSize, AsItIs,
         WithinOffsets(image.layout)
  PROVE  ReadsVolume(image.layout)
<1> DEFINE l == image.layout
           fats == l.fats * l.fatsize
           r == RootLength(l)
           root == l.reserved + fats
           data == root + r
           n == Length(l)
           cs == l.clusters * l.spc
<1>1. image \in Images
  BY DEF IInv, TypeOK
<1>2. l \in Layouts /\ n < Word
  BY <1>1, FormatParsed
<1>3. /\ l.reserved \in Nat \ {0} /\ l.fats \in Nat \ {0} /\ l.fatsize \in Nat \ {0}
      /\ l.spc \in Nat \ {0} /\ l.clusters \in Nat /\ l.slack \in Nat
  BY <1>2 DEF Layouts
<1>4. /\ fats \in Nat /\ l.fatsize <= fats /\ cs \in Nat /\ r \in Nat /\ n \in Nat
      /\ n = l.reserved + fats + r + cs + l.slack
  BY <1>2, LayoutNumbers DEF Length
<1>5. /\ Extent \in Int /\ n * SectorSize <= Extent
      /\ wl.enabled \/ n * SectorSize <= Word
  <2>1. Extent \in Int
    BY <1>1, ImageAssumption DEF Extent, IInv, TypeOK
  <2>2. n * l.bps <= Extent
    BY VolumeWithin
  <2>3. wl.enabled \/ n * l.bps <= Word
    BY DEF AsItIs, WithinOffsets
  <2> QED BY <2>1, <2>2, <2>3
<1>6. /\ boot_sector.spc = l.spc /\ geometry.first_fat = l.reserved
      /\ geometry.root_sectors = r /\ geometry.first_root = root /\ geometry.first_data = data
      /\ geometry.total_clusters = l.clusters
      /\ root_cluster = IF FatType(l.clusters) = 32 THEN l.root ELSE 0
  BY DEF Placed
<1>7. /\ \A i \in 1 .. l.fatsize : Volume(l)[l.reserved + i] = <<"fat", 1, i>>
      /\ \A i \in 1 .. r : Volume(l)[root + i] = <<"root", i>>
      /\ \A c \in 2 .. l.clusters + 1, i \in 1 .. l.spc :
           Volume(l)[data + ((c - 2) * l.spc + i)] = <<"data", c, i>>
  BY <1>2, VolumeHolds
<1> DEFINE v == Volume(l)
<1>8. \A s \in Nat : s + 1 <= n => Read(l, s) = v[s + 1]
  BY <1>2, <1>4, <1>5, ReadSector
<1> HIDE DEF v, fats, r, n, cs, l
<1>9. ASSUME NEW i \in 1 .. l.fatsize
      PROVE  Read(l, geometry.first_fat + i - 1) = <<"fat", 1, i>>
  <2> DEFINE s == geometry.first_fat + i - 1
  <2>1. s \in Nat /\ s + 1 = l.reserved + i /\ s + 1 <= n
    BY <1>3, <1>4, <1>6
  <2> HIDE DEF s
  <2>2. Read(l, s) = v[s + 1] /\ v[l.reserved + i] = <<"fat", 1, i>>
    BY <1>7, <1>8, <2>1 DEF v
  <2> QED BY <2>1, <2>2 DEF s
<1>10. ASSUME NEW i \in 1 .. r
       PROVE  Read(l, geometry.first_root + i - 1) = <<"root", i>>
  <2> DEFINE s == geometry.first_root + i - 1
  <2>1. s \in Nat /\ s + 1 = root + i /\ s + 1 <= n
    BY <1>3, <1>4, <1>6
  <2> HIDE DEF s, root
  <2>2. Read(l, s) = v[s + 1] /\ v[root + i] = <<"root", i>>
    BY <1>7, <1>8, <2>1 DEF v
  <2> QED BY <2>1, <2>2 DEF s
<1>11. ASSUME NEW c \in 2 .. l.clusters + 1, NEW i \in 1 .. l.spc
       PROVE  Read(l, ClusterToSector(c) + i - 1) = <<"data", c, i>>
  <2> DEFINE k == c - 2
             p == k * l.spc
  <2>1. k \in Nat /\ k + 1 <= l.clusters
    BY <1>3
  <2>2. p \in Nat /\ p + l.spc <= cs
    <3> HIDE DEF k
    <3> DEFINE q == (k + 1) * l.spc
    <3>1. p \in Nat /\ q = p + l.spc
      <4> DEFINE w == l.spc
      <4>1. w \in Nat
        BY <1>3
      <4> HIDE DEF w
      <4>2. k * w \in Nat /\ (k + 1) * w = k * w + w
        BY <2>1, <4>1, SMTT(30)
      <4> QED BY <4>2 DEF w
    <3>2. q <= cs
      BY <1>3, <2>1, Product DEF cs
    <3> QED BY <3>1, <3>2
  <2>3. ClusterToSector(c) = data + p
    <3>1. ClusterToSector(c) = geometry.first_data + (c - 2) * boot_sector.spc
      <4>1. TypeOK /\ Counted
        BY DEF IInv
      <4>2. c \in 2 .. geometry.total_clusters + 1
        BY <1>6
      <4> QED BY <4>1, <4>2, CountedInVolume
    <3> QED BY <1>6, <3>1
  <2> DEFINE s == ClusterToSector(c) + i - 1
             j == p + i
  <2>4. s \in Nat /\ s + 1 = data + j /\ s + 1 <= n
    <3> HIDE DEF p
    <3> QED BY <1>3, <1>4, <2>2, <2>3
  <2>5. v[data + j] = <<"data", c, i>>
    <3> HIDE DEF data
    <3> QED BY <1>7 DEF v
  <2> HIDE DEF s, data, j
  <2>6. Read(l, s) = v[s + 1]
    BY <1>8, <2>4
  <2> QED BY <2>4, <2>5, <2>6 DEF s
<1>12. \/ FatType(l.clusters) = 32 /\ root_cluster = l.root
       \/ root_cluster = 0 /\ geometry.root_sectors = r
  BY <1>6
<1> QED BY <1>6, <1>9, <1>10, <1>11, <1>12 DEF ReadsVolume, l, r

\* A volume that a formatter makes, of any FAT type, plain or on a device of any shape, is
\* mounted unless memory, a read or the dump's state fails.  If nothing failed, and a plain
\* image has no more bytes than the 32 bits of an offset in the file can number, the table,
\* the root directory and every cluster are read where the formatter put them.
THEOREM FormattedVolumesRead == Spec => []ReadsFormatted
<1>1. IInv /\ FormatInv => ReadsFormatted
  BY PlacedReads DEF FormatInv, ReadsFormatted, Mounted
<1> QED BY <1>1, Invariant, InitFormat, NextFormat, PTL DEF Spec
=============================================================================
