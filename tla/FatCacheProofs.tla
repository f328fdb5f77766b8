--------------------------- MODULE FatCacheProofs ---------------------------
(***************************************************************************)
(* For every sector size, every place of the table and every cluster: an   *)
(* entry is read right, through the cache and across two sectors; and      *)
(* without failing reads the callers are served from the table itself.     *)
(***************************************************************************)
EXTENDS FatCache, SequenceTheorems, TLAPS

-----------------------------------------------------------------------------
(* Arithmetic of places *)

\* Quotient and remainder by the sector size.
LEMMA SectorOf ==
  ASSUME NEW a \in Nat
  PROVE  /\ a \div SectorSize \in Nat /\ a % SectorSize \in 0 .. SectorSize - 1
         /\ a = (a \div SectorSize) * SectorSize + (a % SectorSize)
<1> USE SectorAssumption
<1>1. a \div SectorSize \in Nat /\ a % SectorSize \in 0 .. SectorSize - 1
  BY SMTT(30)
<1>2. a = (a \div SectorSize) * SectorSize + (a % SectorSize)
  BY SMTT(30)
<1> QED BY <1>1, <1>2

\* An entry's first byte has a place in the table.
LEMMA OffsetIsNat ==
  ASSUME TypeOK, NEW c \in Clusters
  PROVE  FatOffset(c) \in Nat /\ c \in Nat /\ fat_type \in {12, 16, 32}
<1>1. c \in Nat
  <2> DEFINE last == 2^28 - 9
  <2>1. Clusters \subseteq 0 .. last
    BY ClustersAssumption
  <2> HIDE DEF last
  <2> QED BY <2>1
<1>2. c \div 2 \in Nat /\ 2 * c \in Nat /\ 4 * c \in Nat
  BY <1>1
<1> QED BY <1>1, <1>2 DEF TypeOK, FatOffset

\* The byte n places on from one of sector s.
LEMMA PlaceInSector ==
  ASSUME NEW a \in Nat, NEW n \in Nat
  PROVE  (FirstFat + a \div SectorSize) * SectorSize + ((a % SectorSize) + n)
           = FirstFat * SectorSize + a + n
<1>1. (FirstFat + a \div SectorSize) * SectorSize
        = FirstFat * SectorSize + (a \div SectorSize) * SectorSize
  BY SectorOf, SectorAssumption, FirstFatAssumption, SMTT(30)
<1>2. /\ FirstFat * SectorSize \in Nat
      /\ (a \div SectorSize) * SectorSize \in Nat
  BY SectorOf, SectorAssumption, FirstFatAssumption, SMTT(30)
<1>3. a = (a \div SectorSize) * SectorSize + (a % SectorSize) /\ a % SectorSize \in Nat
  BY SectorOf
<1> DEFINE f == FirstFat * SectorSize
           q == (a \div SectorSize) * SectorSize
           r == a % SectorSize
           t == (FirstFat + a \div SectorSize) * SectorSize
<1>4. t = f + q /\ f \in Nat /\ q \in Nat /\ a = q + r /\ r \in Nat
  BY <1>1, <1>2, <1>3
<1> HIDE DEF f, q, r, t
<1>5. t + (r + n) = f + a + n
  BY <1>4
<1> QED BY <1>5 DEF f, q, r, t

\* Aligned entries do not cross the end of a sector.
LEMMA Aligned ==
  ASSUME NEW a \in Nat, NEW k \in {2, 4}, a % k = 0
  PROVE  a % SectorSize <= SectorSize - k
<1>1. PICK m \in Nat : SectorSize = k * m
  <2>1. SectorSize = 4 * (SectorSize \div 4) /\ SectorSize \div 4 \in Nat
    BY SectorAssumption, SMTT(30)
  <2>2. SectorSize = 2 * (2 * (SectorSize \div 4)) /\ 2 * (SectorSize \div 4) \in Nat
    BY <2>1
  <2> QED BY <2>1, <2>2
<1>2. PICK j \in Nat : a = k * j
  BY SMTT(30)
<1> DEFINE q == a \div SectorSize
           r == a % SectorSize
<1>3. q \in Nat /\ r \in 0 .. SectorSize - 1 /\ a = q * SectorSize + r
  BY SectorOf
<1> HIDE DEF q, r
<1>4. r = k * (j - q * m)
  <2>1. q * SectorSize = k * (q * m)
    BY <1>1, <1>3, SMTT(30)
  <2>2. q * m \in Int
    BY <1>1, <1>3
  <2> QED BY <1>2, <1>3, <2>1, <2>2, SMTT(30)
<1>5. PICK x \in Int : r = k * x
  <2>1. q * m \in Int
    BY <1>1, <1>3
  <2>2. j - q * m \in Int
    BY <1>2, <2>1
  <2> QED BY <1>4, <2>2
<1>6. r <= SectorSize - k
  BY <1>1, <1>3, <1>5, SMTT(30)
<1> QED BY <1>6 DEF r

\* Half h of an entry's bytes, after the shift, is half i of the entry.
LEMMA HalvesOfEntry ==
  ASSUME TypeOK, NEW c \in Clusters, NEW i \in 1 .. Width
  PROVE  LET h == i - 1 + Shift(c)
         IN  /\ h \in Nat /\ h \div 2 \in 0 .. (IF fat_type = 32 THEN 3 ELSE 1)
             /\ 2 * (FatOffset(c) + h \div 2) + (h % 2) = Stride * c + i - 1
<1>1. fat_type \in {12, 16, 32} /\ c \in Nat
  BY OffsetIsNat
<1>2. CASE fat_type = 12
  <2>1. i \in {1, 2, 3}
    BY <1>2 DEF Width
  <2> QED BY <1>1, <1>2, <2>1, SMTT(30) DEF Shift, FatOffset, Stride
<1>3. CASE fat_type = 16
  <2>1. i \in {1, 2, 3, 4}
    BY <1>3 DEF Width
  <2> QED BY <1>1, <1>3, <2>1, SMTT(30) DEF Shift, FatOffset, Stride
<1>4. CASE fat_type = 32
  <2>1. i \in {1, 2, 3, 4, 5, 6, 7}
    BY <1>4 DEF Width
  <2> QED BY <1>1, <1>4, <2>1, SMTT(30) DEF Shift, FatOffset, Stride
<1> QED BY <1>1, <1>2, <1>3, <1>4

-----------------------------------------------------------------------------
(* What a call takes from a coherent cache *)

\* The bytes of a sector of the table have their places in the table.
LEMMA SectorPlaces ==
  ASSUME NEW s \in Nat, s >= FirstFat
  PROVE  Sector(s) \in [InCache -> InTable]
<1>1. FirstFat * SectorSize \in Nat /\ s * SectorSize \in Nat
      /\ FirstFat * SectorSize <= s * SectorSize
  BY FirstFatAssumption, SectorAssumption, SMTT(30)
<1>2. SUFFICES ASSUME NEW i \in InCache PROVE s * SectorSize + i \in InTable
  BY DEF Sector
<1>3. i \in Nat
  BY SectorAssumption DEF InCache
<1> DEFINE f == FirstFat * SectorSize
           p == s * SectorSize
<1>4. f \in Nat /\ p \in Nat /\ f <= p
  BY <1>1
<1> HIDE DEF f, p
<1>5. p + i \in Nat /\ p + i >= f
  BY <1>3, <1>4
<1> QED BY <1>5 DEF InTable, f, p

\* A sector the code asks for is one of the table.
LEMMA SectorNumBounds ==
  ASSUME TypeOK, NEW c \in Clusters
  PROVE  SectorNum(c) \in Nat /\ SectorNum(c) >= FirstFat
         /\ OffsetInSector(c) \in InCache
<1>1. FatOffset(c) \in Nat
  BY OffsetIsNat
<1>2. FatOffset(c) \div SectorSize \in Nat /\ FatOffset(c) % SectorSize \in 0 .. SectorSize - 1
  BY <1>1, SectorOf
<1> QED BY <1>2, FirstFatAssumption DEF SectorNum, OffsetInSector, InCache

\* The byte at an offset of the entry's sector.
LEMMA ByteOfSector ==
  ASSUME TypeOK, NEW c \in Clusters, NEW n \in Nat, OffsetInSector(c) + n \in InCache
  PROVE  Sector(SectorNum(c))[OffsetInSector(c) + n] = FirstFat * SectorSize + FatOffset(c) + n
<1>1. FatOffset(c) \in Nat
  BY OffsetIsNat
<1>2. (FirstFat + FatOffset(c) \div SectorSize) * SectorSize
        + ((FatOffset(c) % SectorSize) + n) = FirstFat * SectorSize + FatOffset(c) + n
  BY <1>1, PlaceInSector
<1> QED BY <1>2 DEF Sector, SectorNum, OffsetInSector

\* The first byte of the sector after an entry across two.
LEMMA ByteAfterSector ==
  ASSUME TypeOK, NEW c \in Clusters, Straddles(c)
  PROVE  Sector(SectorNum(c) + 1)[0] = FirstFat * SectorSize + FatOffset(c) + 1
<1> DEFINE a == FatOffset(c)
           q == FirstFat + a \div SectorSize
<1>1. a \in Nat /\ a % SectorSize = SectorSize - 1 /\ q \in Nat
  <2>1. SectorNum(c) \in Nat
    BY SectorNumBounds
  <2> QED BY <2>1, OffsetIsNat DEF Straddles, OffsetInSector, SectorNum
<1>2. q * SectorSize + (SectorSize - 1 + 0) = FirstFat * SectorSize + a + 0
  <2> HIDE DEF a
  <2>1. q * SectorSize + ((a % SectorSize) + 0) = FirstFat * SectorSize + a + 0
    BY <1>1, PlaceInSector
  <2> QED BY <1>1, <2>1
<1>3. (q + 1) * SectorSize = q * SectorSize + SectorSize
  <2> HIDE DEF q
  <2> QED BY <1>1, SectorAssumption, SMTT(30)
<1>4. q * SectorSize \in Nat /\ FirstFat * SectorSize \in Nat
  <2> HIDE DEF q
  <2> QED BY <1>1, SectorAssumption, FirstFatAssumption, SMTT(30)
<1>5. (q + 1) * SectorSize + 0 = FirstFat * SectorSize + a + 1
  <2> DEFINE x == q * SectorSize
             y == FirstFat * SectorSize
             z == (q + 1) * SectorSize
  <2>1. x + (SectorSize - 1 + 0) = y + a + 0 /\ z = x + SectorSize /\ x \in Nat /\ y \in Nat
    BY <1>2, <1>3, <1>4
  <2> HIDE DEF x, y, z, a, q
  <2>2. z + 0 = y + a + 1
    BY <1>1, <2>1, SectorAssumption
  <2> QED BY <2>2 DEF x, y, z
<1>6. 0 \in InCache
  BY SectorAssumption DEF InCache
<1> QED BY <1>5, <1>6 DEF Sector, SectorNum

\* From the right bytes comes the right entry.
LEMMA ValueIsEntry ==
  ASSUME TypeOK, NEW c \in Clusters, NEW b,
         \A k \in 0 .. (IF fat_type = 32 THEN 3 ELSE 1) :
           b[k] = FirstFat * SectorSize + FatOffset(c) + k
  PROVE  Value(c, b) = Entry(c)
<1> SUFFICES ASSUME NEW i \in 1 .. Width
             PROVE  LET h == i - 1 + Shift(c)
                    IN  2 * b[h \div 2] + (h % 2)
                          = 2 * FirstFat * SectorSize + Stride * c + i - 1
  BY DEF Value, Entry
<1> DEFINE h == i - 1 + Shift(c)
           f == FirstFat * SectorSize
           e == Stride * c
           a == FatOffset(c)
           k == h \div 2
           m == h % 2
<1>1. h \in Nat /\ k \in 0 .. (IF fat_type = 32 THEN 3 ELSE 1)
      /\ 2 * (a + k) + m = e + i - 1
  BY HalvesOfEntry
<1>2. b[k] = f + a + k
  BY <1>1
<1>3. f \in Nat /\ 2 * FirstFat * SectorSize = 2 * f
  BY FirstFatAssumption, SectorAssumption, SMTT(30)
<1>4. a \in Nat /\ e \in Nat /\ k \in Nat /\ m \in Int /\ i \in Int
  <2>1. k \in Nat /\ m \in Int
    BY <1>1
  <2>2. i \in Int
    OBVIOUS
  <2>3. c \in Nat /\ Stride \in Nat
    BY OffsetIsNat DEF Stride
  <2>4. e \in Nat
    BY <2>3
  <2> QED BY <2>1, <2>2, <2>4, OffsetIsNat
<1> HIDE DEF f, e, a, k, m
<1>5. 2 * (f + a + k) + m = 2 * f + e + i - 1
  BY <1>1, <1>3, <1>4
<1>6. 2 * b[k] + m = 2 * FirstFat * SectorSize + e + i - 1
  BY <1>2, <1>3, <1>5
<1> QED BY <1>6 DEF e, k, m

\* The bytes of an entry that does not lie across two sectors are in its sector.
LEMMA ExtractInCache ==
  ASSUME TypeOK, NEW c \in Clusters, ~ Straddles(c)
  PROVE  \A k \in 0 .. (IF fat_type = 32 THEN 3 ELSE 1) : OffsetInSector(c) + k \in InCache
<1> DEFINE n == IF fat_type = 32 THEN 3 ELSE 1
<1>1. OffsetInSector(c) <= SectorSize - (n + 1)
  <2>1. FatOffset(c) \in Nat /\ c \in Nat /\ fat_type \in {12, 16, 32}
    BY OffsetIsNat
  <2>2. CASE fat_type = 12
    BY <2>2, SectorNumBounds, SectorAssumption DEF Straddles, InCache
  <2>3. CASE fat_type = 16
    <3>1. FatOffset(c) % 2 = 0
      BY <2>1, <2>3 DEF FatOffset
    <3>2. FatOffset(c) % SectorSize <= SectorSize - 2
      BY <2>1, <3>1, Aligned
    <3> QED BY <2>3, <3>2 DEF OffsetInSector
  <2>4. CASE fat_type = 32
    <3>1. FatOffset(c) % 4 = 0
      BY <2>1, <2>4 DEF FatOffset
    <3>2. FatOffset(c) % SectorSize <= SectorSize - 4
      BY <2>1, <3>1, Aligned
    <3> QED BY <2>4, <3>2 DEF OffsetInSector
  <2> QED BY <2>1, <2>2, <2>3, <2>4
<1> QED BY <1>1, SectorNumBounds, SectorAssumption DEF InCache

\* An entry inside one sector, taken from that sector.
LEMMA ExtractIsEntry ==
  ASSUME TypeOK, NEW c \in Clusters, ~ Straddles(c), cache = Sector(SectorNum(c))
  PROVE  Value(c, EntryBytes(c)) = Entry(c)
<1> DEFINE n == IF fat_type = 32 THEN 3 ELSE 1
<1>1. ASSUME NEW k \in 0 .. n
      PROVE  EntryBytes(c)[k] = FirstFat * SectorSize + FatOffset(c) + k
  <2>1. OffsetInSector(c) + k \in InCache /\ k \in Nat
    BY ExtractInCache
  <2>2. EntryBytes(c)[k] = cache[OffsetInSector(c) + k]
    BY DEF EntryBytes
  <2> QED BY <2>1, <2>2, ByteOfSector
<1> QED BY <1>1, ValueIsEntry

\* An entry across two sectors, put together from both.
LEMMA JoinIsEntry ==
  ASSUME TypeOK, NEW c \in Clusters, Straddles(c), cache = Sector(SectorNum(c) + 1),
         byte1 = FirstFat * SectorSize + FatOffset(c)
  PROVE  Value(c, [k \in 0 .. 1 |-> IF k = 0 THEN byte1 ELSE cache[0]]) = Entry(c)
<1> DEFINE b == [k \in 0 .. 1 |-> IF k = 0 THEN byte1 ELSE cache[0]]
<1>1. fat_type = 12
  BY DEF Straddles
<1>2. b[0] = FirstFat * SectorSize + FatOffset(c) + 0
  <2>1. FirstFat * SectorSize \in Nat /\ FatOffset(c) \in Nat
    BY FirstFatAssumption, SectorAssumption, OffsetIsNat, SMTT(30)
  <2> QED BY <2>1
<1>3. b[1] = FirstFat * SectorSize + FatOffset(c) + 1
  BY ByteAfterSector
<1>4. \A k \in 0 .. (IF fat_type = 32 THEN 3 ELSE 1) :
        b[k] = FirstFat * SectorSize + FatOffset(c) + k
  BY <1>1, <1>2, <1>3
<1> HIDE DEF b
<1>5. Value(c, b) = Entry(c)
  BY <1>4, ValueIsEntry
<1> QED BY <1>5 DEF b

-----------------------------------------------------------------------------
(* The invariant *)

\* A value the code returns is a sequence.
LEMMA ValueIsSeq ==
  ASSUME TypeOK, NEW c \in Clusters, NEW b,
         \A k \in 0 .. (IF fat_type = 32 THEN 3 ELSE 1) : b[k] \in Int
  PROVE  Value(c, b) \in Seq(Int)
<1>1. Width \in Nat
  BY DEF Width
<1>2. ASSUME NEW i \in 1 .. Width
      PROVE  LET h == i - 1 + Shift(c) IN 2 * b[h \div 2] + (h % 2) \in Int
  <2> DEFINE h == i - 1 + Shift(c)
             k == h \div 2
             m == h % 2
  <2>1. h \in Nat /\ k \in 0 .. (IF fat_type = 32 THEN 3 ELSE 1)
    BY HalvesOfEntry
  <2>2. b[k] \in Int /\ m \in Int
    BY <2>1
  <2> HIDE DEF k, m
  <2>3. 2 * b[k] + m \in Int
    BY <2>2
  <2> QED BY <2>3 DEF k, m
<1>3. Value(c, b) \in [1 .. Width -> Int]
  BY <1>2 DEF Value
<1> QED BY <1>1, <1>3, SeqDef

\* The invariant holds at first.
LEMMA InitIInv == Init => IInv
<1> SUFFICES ASSUME Init PROVE IInv
  OBVIOUS
<1>1. Zero \in Seq(Int)
  BY DEF Zero
<1>2. NoCluster = -1 /\ NoSector = -1 /\ Unknown = -1
  BY DEF NoCluster, NoSector, Unknown
<1>3. TypeOK
  BY <1>1 DEF Init, TypeOK, Places
<1> QED BY <1>3 DEF Init, IInv, Coherent, Held

\* What no step changes: the place of every entry.
LEMMA SamePlaces ==
  ASSUME UNCHANGED fat_type
  PROVE  \A c : /\ SectorNum(c)' = SectorNum(c) /\ FatOffset(c)' = FatOffset(c)
                /\ Straddles(c)' = Straddles(c) /\ OffsetInSector(c)' = OffsetInSector(c)
                /\ Entry(c)' = Entry(c)
BY DEF SectorNum, FatOffset, Straddles, OffsetInSector, Entry, Width, Stride

LEMMA AskKeeps ==
  ASSUME IInv, NEW c \in Clusters, Ask(c)
  PROVE  IInv'
<1> USE DEF IInv, Ask
<1>1. c # NoCluster
  <2>1. c \in Nat
    BY OffsetIsNat
  <2> QED BY <2>1 DEF NoCluster
<1>2. TypeOK'
  BY <1>1 DEF TypeOK
<1>3. Coherent' /\ Held'
  BY DEF Coherent, Held
<1> QED BY <1>2, <1>3

LEMMA HitKeeps ==
  ASSUME IInv, Hit
  PROVE  IInv'
<1> USE DEF IInv, Hit
<1>1. TypeOK'
  BY DEF TypeOK
<1>2. Coherent' /\ Held'
  BY SamePlaces DEF Coherent, Held, Wanted
<1> QED BY <1>1, <1>2

\* What the call wants is a sector of the table.
LEMMA WantedBounds ==
  ASSUME IInv, step \in {"first", "second"}
  PROVE  /\ cluster \in Clusters
         /\ Wanted \in Nat /\ Wanted >= FirstFat
         /\ Sector(Wanted) \in [InCache -> InTable]
<1>1. cluster \in Clusters
  BY DEF IInv, TypeOK
<1>2. Wanted \in Nat /\ Wanted >= FirstFat
  BY <1>1, SectorNumBounds, FirstFatAssumption DEF Wanted, IInv
<1> QED BY <1>1, <1>2, SectorPlaces

LEMMA LoadKeeps ==
  ASSUME IInv, Load
  PROVE  IInv'
<1>1. /\ cluster \in Clusters /\ Wanted \in Nat /\ Wanted >= FirstFat
      /\ Sector(Wanted) \in [InCache -> InTable]
  BY WantedBounds DEF Load
<1>2. TypeOK'
  <2>1. cache' \in [InCache -> Places]
    BY <1>1 DEF Load, Places
  <2>2. torn' \in BOOLEAN
    BY DEF Load
  <2> QED BY <1>1, <2>1, <2>2 DEF Load, IInv, TypeOK
<1>3. Coherent'
  <2>1. Sector(fat_cache_sector)' = Sector(Wanted)
    BY DEF Load, Sector
  <2> QED BY <2>1 DEF Load, Coherent
<1>4. Held'
  <2>1. fat_type' = fat_type
    BY DEF Load
  <2>2. CASE step = "first"
    BY <2>1, <2>2, SamePlaces DEF Load, IInv, Held, Wanted
  <2>3. CASE step = "second"
    BY <2>1, <2>3, SamePlaces DEF Load, IInv, Held, Wanted
  <2> QED BY <2>2, <2>3 DEF Load
<1> QED BY <1>2, <1>3, <1>4 DEF IInv

LEMMA LoadShortKeeps ==
  ASSUME IInv, NEW n \in InCache, LoadShort(n)
  PROVE  IInv'
<1>1. Sector(Wanted) \in [InCache -> InTable]
  BY WantedBounds DEF LoadShort
<1>2. TypeOK'
  <2>1. cache' \in [InCache -> Places]
    BY <1>1 DEF LoadShort, Places, IInv, TypeOK
  <2>2. Zero \in Seq(Int) /\ Unknown \in Places
    BY DEF Zero, Places
  <2> QED BY <2>1, <2>2 DEF LoadShort, Return, IInv, TypeOK
<1>3. Coherent' /\ Held'
  BY DEF LoadShort, Return, Coherent, Held
<1> QED BY <1>2, <1>3 DEF IInv

\* A value is returned and the call is over.
LEMMA ReturnKeeps ==
  ASSUME IInv, NEW v \in Seq(Int), Return(v), UNCHANGED <<cache, fat_cache_sector, torn>>
  PROVE  IInv'
<1>1. TypeOK'
  BY DEF Return, IInv, TypeOK, Places
<1>2. Sector(fat_cache_sector)' = Sector(fat_cache_sector)
  BY DEF Sector
<1>3. Coherent' /\ Held'
  BY <1>2 DEF Return, IInv, Coherent, Held
<1> QED BY <1>1, <1>3 DEF IInv

\* Places are numbers.
LEMMA PlacesAreInts == Places \subseteq Int
BY DEF Places, InTable, Unknown

LEMMA LoadFailsKeeps ==
  ASSUME IInv, LoadFails
  PROVE  IInv'
<1>1. Zero \in Seq(Int)
  BY DEF Zero
<1> QED BY <1>1, ReturnKeeps DEF LoadFails

LEMMA ExtractKeeps ==
  ASSUME IInv, Extract
  PROVE  IInv'
<1>1. cluster \in Clusters
  BY DEF IInv, TypeOK, Extract
<1> DEFINE n == IF fat_type = 32 THEN 3 ELSE 1
<1>2. ASSUME NEW k \in 0 .. n
      PROVE  EntryBytes(cluster)[k] \in Int
  <2>1. EntryBytes(cluster)[k] = cache[OffsetInSector(cluster) + k]
    BY DEF EntryBytes
  <2>2. OffsetInSector(cluster) + k \in InCache
    BY <1>1, ExtractInCache DEF IInv, Extract
  <2> QED BY <2>1, <2>2, PlacesAreInts DEF IInv, TypeOK
<1>3. Value(cluster, EntryBytes(cluster)) \in Seq(Int)
  BY <1>1, <1>2, ValueIsSeq DEF IInv
<1> QED BY <1>3, ReturnKeeps DEF Extract

LEMMA FirstByteKeeps ==
  ASSUME IInv, FirstByte
  PROVE  IInv'
<1>1. cluster \in Clusters /\ OffsetInSector(cluster) \in InCache
  BY SectorNumBounds DEF IInv, TypeOK, FirstByte
<1>2. TypeOK'
  BY <1>1 DEF IInv, TypeOK, FirstByte
<1>3. Sector(fat_cache_sector)' = Sector(fat_cache_sector)
  BY DEF Sector, FirstByte
<1>4. Coherent'
  BY <1>3 DEF IInv, Coherent, FirstByte
<1>5. ~ torn => byte1' = FirstFat * SectorSize + FatOffset(cluster)
  <2> SUFFICES ASSUME ~ torn PROVE byte1' = FirstFat * SectorSize + FatOffset(cluster)
    OBVIOUS
  <2>1. fat_cache_sector = SectorNum(cluster) /\ SectorNum(cluster) \in Nat
    BY <1>1, SectorNumBounds DEF IInv, Held, FirstByte
  <2>2. cache = Sector(SectorNum(cluster))
    BY <2>1 DEF IInv, Coherent, NoSector
  <2>3. OffsetInSector(cluster) + 0 = OffsetInSector(cluster)
    BY <1>1, SectorAssumption DEF InCache
  <2>4. cache[OffsetInSector(cluster)] = FirstFat * SectorSize + FatOffset(cluster) + 0
    BY <1>1, <2>2, <2>3, ByteOfSector DEF IInv
  <2>5. FirstFat * SectorSize \in Nat /\ FatOffset(cluster) \in Nat
    BY <1>1, FirstFatAssumption, SectorAssumption, OffsetIsNat, SMTT(30) DEF IInv
  <2> QED BY <2>4, <2>5 DEF FirstByte
<1>6. Held'
  BY <1>5, SamePlaces DEF IInv, Held, FirstByte
<1> QED BY <1>2, <1>4, <1>6 DEF IInv

LEMMA ExtractJoinedKeeps ==
  ASSUME IInv, ExtractJoined
  PROVE  IInv'
<1> DEFINE b == [k \in 0 .. 1 |-> IF k = 0 THEN byte1 ELSE cache[0]]
<1>1. cluster \in Clusters /\ fat_type = 12
  BY DEF IInv, TypeOK, ExtractJoined, Held, Straddles
<1>2. byte1 \in Int /\ cache[0] \in Int
  <2>1. 0 \in InCache
    BY SectorAssumption DEF InCache
  <2> QED BY <2>1, PlacesAreInts DEF IInv, TypeOK
<1>3. \A k \in 0 .. (IF fat_type = 32 THEN 3 ELSE 1) : b[k] \in Int
  BY <1>1, <1>2
<1> HIDE DEF b
<1>4. Value(cluster, b) \in Seq(Int)
  BY <1>1, <1>3, ValueIsSeq DEF IInv
<1> QED BY <1>4, ReturnKeeps DEF ExtractJoined, b

LEMMA NextIInv == IInv /\ [Next]_vars => IInv'
<1> SUFFICES ASSUME IInv, [Next]_vars PROVE IInv'
  OBVIOUS
<1>1. ASSUME NEW c \in Clusters, Ask(c) PROVE IInv'
  BY <1>1, AskKeeps
<1>2. CASE Hit
  BY <1>2, HitKeeps
<1>3. CASE Load
  BY <1>3, LoadKeeps
<1>4. ASSUME NEW n \in InCache, LoadShort(n) PROVE IInv'
  BY <1>4, LoadShortKeeps
<1>5. CASE Extract
  BY <1>5, ExtractKeeps
<1>6. CASE FirstByte
  BY <1>6, FirstByteKeeps
<1>7. CASE ExtractJoined
  BY <1>7, ExtractJoinedKeeps
<1>8. CASE LoadFails
  BY <1>8, LoadFailsKeeps
<1>9. CASE UNCHANGED vars
  <2>1. UNCHANGED <<fat_type, cache, fat_cache_sector, cluster, step, byte1, got, torn>>
    BY <1>9 DEF vars
  <2>2. Sector(fat_cache_sector)' = Sector(fat_cache_sector)
    BY <2>1 DEF Sector
  <2> QED BY <2>1, <2>2, SamePlaces DEF IInv, TypeOK, Coherent, Held
<1> QED BY <1>1, <1>2, <1>3, <1>4, <1>5, <1>6, <1>7, <1>8, <1>9 DEF Next

-----------------------------------------------------------------------------
(* Theorems *)

\* The inductive invariant holds throughout.
THEOREM Invariance == Spec => []IInv
BY InitIInv, NextIInv, PTL DEF Spec

\* Type correctness: no sector or byte below the table is ever asked for.
THEOREM TypeCorrect == Spec => []TypeOK
<1>1. IInv => TypeOK
  BY DEF IInv
<1> QED BY <1>1, Invariance, PTL

\* The cache holds the sector whose number it carries, but after a short read.
THEOREM CacheCoherent == Spec => []Coherent
<1>1. IInv => Coherent
  BY DEF IInv
<1> QED BY <1>1, Invariance, PTL

\* What a call returns that reads its entry out of the cache.
LEMMA EntryRight ==
  ASSUME IInv, Extract \/ ExtractJoined, ~ torn
  PROVE  got' = Entry(cluster)
<1>1. CASE Extract
  <2>1. cluster \in Clusters /\ SectorNum(cluster) \in Nat
    BY <1>1, SectorNumBounds DEF Extract, IInv, TypeOK
  <2>2. cache = Sector(SectorNum(cluster))
    BY <1>1, <2>1 DEF Extract, IInv, Held, Coherent, NoSector
  <2> QED BY <1>1, <2>1, <2>2, ExtractIsEntry DEF Extract, Return, IInv
<1>2. CASE ExtractJoined
  <2>1. cluster \in Clusters /\ SectorNum(cluster) \in Nat
    BY <1>2, SectorNumBounds DEF ExtractJoined, IInv, TypeOK
  <2>2. fat_cache_sector = SectorNum(cluster) + 1 /\ fat_cache_sector # NoSector
    BY <1>2, <2>1 DEF ExtractJoined, IInv, Held, NoSector
  <2>3. cache = Sector(SectorNum(cluster) + 1)
    BY <2>2 DEF IInv, Coherent
  <2>4. Straddles(cluster) /\ byte1 = FirstFat * SectorSize + FatOffset(cluster)
    BY <1>2 DEF ExtractJoined, IInv, Held
  <2> QED BY <1>2, <2>1, <2>3, <2>4, JoinIsEntry DEF ExtractJoined, Return, IInv
<1> QED BY <1>1, <1>2

\* Whatever the FAT type, the sector size, the clusters asked for and what fails,
\* get_fat_entry implements the table: the entry itself, 0 for an error, and a
\* doubtful answer only until a sector is read whole.
THEOREM ServesTable == Spec => ServedFromTable
<1>1. Init => Table!Init
  <2> SUFFICES ASSUME Init PROVE Table!Init
    OBVIOUS
  <2>1. ASSUME NEW c \in Clusters PROVE Entry(c) \in Seq(Int)
    <3>1. Width \in Nat /\ Stride \in Nat /\ c \in Nat
      BY InitIInv, OffsetIsNat DEF IInv, Width, Stride
    <3>2. 2 * FirstFat * SectorSize \in Int /\ Stride * c \in Int
      BY <3>1, FirstFatAssumption, SectorAssumption
    <3>3. Entry(c) \in [1 .. Width -> Int]
      <4> DEFINE f == 2 * FirstFat * SectorSize
                 e == Stride * c
      <4>1. Entry(c) = [i \in 1 .. Width |-> f + e + i - 1] /\ f \in Int /\ e \in Int
        BY <3>2 DEF Entry
      <4> HIDE DEF f, e
      <4> QED BY <4>1
    <3> QED BY <3>1, <3>3, SeqDef
  <2> QED BY <2>1 DEF Init, Table!Init
<1>2. IInv /\ [Next]_vars => [Table!Next]_(Table!vars)
  <2> SUFFICES ASSUME IInv, [Next]_vars PROVE [Table!Next]_(Table!vars)
    OBVIOUS
  <2>1. [c \in Clusters |-> Entry(c)]' = [c \in Clusters |-> Entry(c)]
    <3>1. fat_type' = fat_type
      BY DEF Next, vars, Ask, Hit, Load, LoadFails, LoadShort, Return, Extract, FirstByte, ExtractJoined
    <3> QED BY <3>1, SamePlaces
  <2>2. ASSUME NEW c \in Clusters, Ask(c) PROVE Table!Next
    <3>1. cluster = NoCluster
      BY <2>2 DEF Ask, IInv, TypeOK
    <3> QED BY <2>1, <2>2, <3>1 DEF Ask, Table!Next, Table!Ask
  <2>3. CASE Hit \/ FirstByte \/ UNCHANGED vars
    BY <2>1, <2>3 DEF Hit, FirstByte, vars, Table!vars
  <2>4. CASE Load
    <3>1. cluster # NoCluster /\ torn \in BOOLEAN
      BY <2>4 DEF Load, IInv, TypeOK
    <3>2. CASE torn' = torn
      BY <2>1, <2>4, <3>2 DEF Load, Table!vars
    <3>3. CASE torn' # torn
      <4>1. torn /\ ~ torn'
        BY <2>4, <3>1, <3>3 DEF Load
      <4> QED BY <2>1, <2>4, <3>1, <4>1 DEF Load, Table!Next, Table!Reread
    <3> QED BY <3>2, <3>3
  <2>5. CASE Extract \/ ExtractJoined
    <3>1. cluster \in Clusters /\ cluster # NoCluster /\ cluster' = NoCluster /\ torn' = torn
      BY <2>5 DEF Extract, ExtractJoined, Return, IInv, TypeOK
    <3>2. CASE ~ torn
      <4>1. got' = Entry(cluster)
        BY <2>5, <3>2, EntryRight
      <4> QED BY <2>1, <3>1, <4>1 DEF Table!Next, Table!Answer
    <3>3. CASE torn
      <4>1. got' \in Seq(Int)
        BY <2>5, ExtractKeeps, ExtractJoinedKeeps DEF IInv, TypeOK
      <4> QED BY <2>1, <3>1, <3>3, <4>1 DEF Table!Next, Table!Answer
    <3> QED BY <3>2, <3>3
  <2>6. CASE LoadFails
    <3>1. cluster # NoCluster /\ cluster' = NoCluster /\ got' = Zero /\ torn' = torn
      BY <2>6 DEF LoadFails, Return, IInv, TypeOK
    <3> QED BY <2>1, <2>6, <3>1 DEF LoadFails, Table!Next, Table!Answer
  <2>7. ASSUME NEW n \in InCache, LoadShort(n) PROVE Table!Next
    <3>1. cluster # NoCluster /\ cluster' = NoCluster /\ got' = Zero /\ torn'
      BY <2>7 DEF LoadShort, Return, IInv, TypeOK
    <3> QED BY <2>1, <2>7, <3>1 DEF LoadShort, Table!Next, Table!Answer
  <2> QED BY <2>2, <2>3, <2>4, <2>5, <2>6, <2>7 DEF Next
<1> QED BY <1>1, <1>2, Invariance, PTL DEF Spec, ServedFromTable, Table!Spec
=============================================================================
