-------------------------- MODULE ChainReaderProofs --------------------------
(***************************************************************************)
(* For every table, every geometry and every file: what read_file copies   *)
(* stays in the buffer and is the chain's content, as far as the driver's  *)
(* 32-bit arithmetic reaches; a short read has come to the end of the      *)
(* chain, and get_filesystem_info counts the free clusters.                *)
(***************************************************************************)
EXTENDS ChainReader, FiniteSetTheorems, TLAPS

-----------------------------------------------------------------------------
(* Arithmetic *)

\* Products keep the order.
LEMMA Product ==
  ASSUME NEW a \in Nat, NEW b \in Nat, NEW d \in Nat, a <= b
  PROVE  a * d \in Nat /\ b * d \in Nat /\ a * d <= b * d
<1> DEFINE e == b - a
<1>1. e \in Nat /\ b = a + e
  OBVIOUS
<1> HIDE DEF e
<1>2. a * d \in Nat /\ b * d \in Nat /\ e * d \in Nat
  BY <1>1, SMTT(30)
<1>3. (a + e) * d = a * d + e * d
  BY <1>1, SMTT(30)
<1>4. b * d = a * d + e * d
  BY <1>1, <1>3
<1> QED BY <1>2, <1>4

\* One more of a product.
LEMMA OneMore ==
  ASSUME NEW a \in Nat, NEW d \in Nat
  PROVE  a * d \in Nat /\ (a + 1) * d = a * d + d
BY SMTT(30)

\* The number with quotient q and remainder r.
LEMMA DivMod ==
  ASSUME NEW d \in Nat \ {0}, NEW q \in Nat, NEW r \in 0 .. d - 1
  PROVE  (q * d + r) \div d = q /\ (q * d + r) % d = r
<1> DEFINE n == q * d + r
           m == n \div d
           t == n % d
<1>1. q * d \in Nat /\ n \in Nat
  BY SMTT(30)
<1>2. m \in Nat /\ t \in 0 .. d - 1 /\ n = m * d + t
  <2> HIDE DEF n
  <2> QED BY <1>1, SMTT(30)
<1> HIDE DEF m, t
<1>3. m * d \in Nat
  BY <1>2, SMTT(30)
<1>4. ~ (q + 1 <= m)
  <2>1. SUFFICES ASSUME q + 1 <= m PROVE FALSE
    OBVIOUS
  <2>2. (q + 1) * d <= m * d /\ (q + 1) * d = q * d + d
    BY <1>2, <2>1, Product, OneMore
  <2> QED BY <1>1, <1>2, <1>3, <2>2
<1>5. ~ (m + 1 <= q)
  <2>1. SUFFICES ASSUME m + 1 <= q PROVE FALSE
    OBVIOUS
  <2>2. (m + 1) * d <= q * d /\ (m + 1) * d = m * d + d
    BY <1>2, <2>1, Product, OneMore
  <2> QED BY <1>1, <1>2, <1>3, <2>2
<1>6. m = q
  BY <1>2, <1>4, <1>5
<1>7. t = r
  BY <1>1, <1>2, <1>6
<1> QED BY <1>6, <1>7 DEF m, t

\* A number below q times d has a quotient below q.
LEMMA QuotientBelow ==
  ASSUME NEW d \in Nat \ {0}, NEW q \in Nat, NEW n \in Nat, n < q * d
  PROVE  n \div d \in 0 .. q - 1
<1> DEFINE m == n \div d
           t == n % d
<1>1. m \in Nat /\ t \in 0 .. d - 1 /\ n = m * d + t
  BY SMTT(30)
<1> HIDE DEF m, t
<1>2. m * d \in Nat /\ q * d \in Nat
  BY <1>1, SMTT(30)
<1>3. ~ (q <= m)
  <2>1. SUFFICES ASSUME q <= m PROVE FALSE
    OBVIOUS
  <2>2. q * d <= m * d
    BY <1>1, <2>1, Product
  <2> QED BY <1>1, <1>2, <2>2
<1> QED BY <1>1, <1>3 DEF m

\* What fits in a word is not changed by it.
LEMMA Remainder ==
  ASSUME NEW d \in Nat \ {0}, NEW n \in Nat
  PROVE  n % d \in Nat /\ (n < d => n % d = n)
<1>1. n % d \in 0 .. d - 1
  BY SMTT(30)
<1>2. ASSUME n < d PROVE n % d = n
  <2>1. n \in 0 .. d - 1 /\ 0 * d + n = n
    BY <1>2
  <2> QED BY <2>1, DivMod
<1> QED BY <1>1, <1>2

\* A cluster holds a whole number of bytes, its sectors so many of them.
LEMMA ClusterBytesType ==
  /\ ClusterBytes \in Nat \ {0}
  /\ \A n \in Nat : n * ClusterBytes \in Nat /\ n * SectorSize \in Nat
  /\ \A n \in Nat : n < SectorsPerCluster => n * SectorSize + SectorSize <= ClusterBytes
<1>1. ClusterBytes \in Nat /\ ClusterBytes # 0
  BY GeometryAssumption, SMTT(30) DEF ClusterBytes
<1>2. \A n \in Nat : n * ClusterBytes \in Nat /\ n * SectorSize \in Nat
  BY <1>1, GeometryAssumption, SMTT(30)
<1>3. ASSUME NEW n \in Nat, n < SectorsPerCluster
      PROVE  n * SectorSize + SectorSize <= ClusterBytes
  <2>1. n + 1 <= SectorsPerCluster /\ SectorsPerCluster \in Nat /\ SectorSize \in Nat
    BY <1>3, GeometryAssumption
  <2>2. (n + 1) * SectorSize <= SectorsPerCluster * SectorSize
    BY <2>1, Product
  <2>3. (n + 1) * SectorSize = n * SectorSize + SectorSize
    BY <2>1, OneMore
  <2> QED BY <2>2, <2>3 DEF ClusterBytes
<1> QED BY <1>1, <1>2, <1>3

-----------------------------------------------------------------------------
(* The inductive invariant *)

\* Between calls nothing is left of the last one; an entry is asked for only
\* while the call waits for it.
Rest ==
  /\ kind = "none" <=> step = "idle"
  /\ step = "idle" => /\ path = <<>> /\ buffer = <<>> /\ misread = {}
                      /\ count = 0 /\ sector = 0 /\ ~ fixed
  /\ fixed => kind \in Scans /\ step # "fat"
  /\ step \in {"idle", "head", "sector"} => asked = NoCluster

\* The call goes on with the cluster it asked about, and knows its entry when the
\* answer was the table's.
Entry ==
  step = "fat" => /\ cluster \in Clusters
                  /\ asked \in {NoCluster, cluster}
                  /\ asked = NoCluster => got = table[cluster] \/ cluster \in misread

InChain == step = "sector" => ~ kind \in {"none", "free"} /\ (fixed \/ cluster \in Clusters)

\* Copied so far: whole clusters, and of the last one `sector' whole sectors; less
\* only at the end of the file.
Place(n) == Len(buffer) <= n /\ (Len(buffer) < want => Len(buffer) = n)
Linked == \A k \in 1 .. Len(path) - 1 : path[k] \notin misread => path[k + 1] = table[path[k]]
AtLast == path # <<>> /\ path[Len(path)] = cluster
ReadPlace ==
  kind = "read" =>
    /\ step = "sector" => AtLast /\ Place((Len(path) - 1) * ClusterBytes + sector * SectorSize)
                          /\ sector <= SectorsPerCluster
    /\ step = "fat" => AtLast /\ Place(Len(path) * ClusterBytes)
    /\ step = "head" => /\ Place(Len(path) * ClusterBytes)
                        /\ path # <<>> => LET last == path[Len(path)]
                                          IN  last \in misread \/ cluster = table[last]

\* Counted so far: the clusters of a set that tells a free cluster from a used one
\* wherever the entry was given.
CountPlace ==
  kind = "free" =>
    /\ step # "sector"
    /\ cluster \in 2 .. LastCounted
    /\ step = "fat" => cluster < LastCounted
    /\ \E G \in SUBSET (2 .. cluster - 1) :
         /\ count = Cardinality(G)
         /\ \A c \in 2 .. cluster - 1 : c \notin misread => (c \in G <=> table[c] = 0)

ChainInv == ChainTypeOK /\ Rest /\ Entry /\ InChain /\ ReadsChain /\ ReadPlace /\ CountPlace
-----------------------------------------------------------------------------
(* The steps keep it *)

LEMMA InitChain == ChainInit => ChainInv
<1> SUFFICES ASSUME ChainInit PROVE ChainInv
  OBVIOUS
<1> USE DEF ChainInit, Init
<1>1. ChainTypeOK
  <2>1. got \in Values /\ cluster \in 0 .. Top /\ sector \in 0 .. SectorsPerCluster + RootSectors
    BY ChainAssumption, GeometryAssumption
  <2>2. path \in Seq(Clusters) /\ buffer \in Seq(Nat)
    OBVIOUS
  <2> QED BY <2>1, <2>2 DEF ChainTypeOK, Kinds
<1>2. Rest /\ Entry /\ InChain /\ ReadsChain /\ ReadPlace /\ CountPlace
  BY DEF Rest, Entry, InChain, ReadsChain, ReadPlace, CountPlace
<1> QED BY <1>1, <1>2 DEF ChainInv

LEMMA ReturnKeeps ==
  ASSUME ChainInv, step # "fat", NEW r \in Nat \cup {Failed}, Return(r)
  PROVE  ChainInv'
<1> USE DEF Return, vars
<1>1. ChainTypeOK'
  <2>1. path' \in Seq(Clusters) /\ buffer' \in Seq(Nat)
    OBVIOUS
  <2>2. cluster' \in 0 .. Top /\ sector' \in 0 .. SectorsPerCluster + RootSectors
    BY ChainAssumption, GeometryAssumption
  <2> QED BY <2>1, <2>2 DEF ChainInv, ChainTypeOK, Kinds
<1>2. asked' = NoCluster
  BY DEF ChainInv, Rest, ChainTypeOK
<1>3. Rest'
  BY <1>2 DEF Rest
<1>4. Entry' /\ InChain' /\ ReadsChain' /\ ReadPlace' /\ CountPlace'
  BY DEF Entry, InChain, ReadsChain, ReadPlace, CountPlace
<1> QED BY <1>1, <1>3, <1>4 DEF ChainInv

\* What a call begins with, whatever it is.
LEMMA CallKeeps ==
  ASSUME ChainInv, NEW k \in Kinds \ {"none"}, NEW c \in 0 .. Top, Call(k, c),
         fixed' \in BOOLEAN, want' \in Nat, limit' \in Nat, fixed' => k \in Scans
  PROVE  ChainTypeOK' /\ Rest' /\ Entry' /\ InChain'
<1> USE DEF Call, vars
<1>1. ChainTypeOK'
  BY DEF ChainInv, ChainTypeOK
<1>2. Rest'
  BY DEF ChainInv, Rest
<1> QED BY <1>1, <1>2 DEF Entry, InChain

LEMMA StartReadKeeps ==
  ASSUME ChainInv, NEW c \in 0 .. Top, NEW f \in Sizes, NEW s \in Sizes, StartRead(c, f, s)
  PROVE  ChainInv'
<1>1. /\ f \in Nat /\ s \in Nat /\ Call("read", c)
      /\ ~ fixed' /\ fixed' \in BOOLEAN /\ want' \in Nat /\ limit' = s
  BY GeometryAssumption DEF StartRead, Call, ChainInv, Rest, ChainTypeOK
<1>2. path' = <<>> /\ buffer' = <<>> /\ kind' = "read" /\ step' = "head"
  BY <1>1 DEF Call, ChainInv, Rest
<1>3. ChainTypeOK' /\ Rest' /\ Entry' /\ InChain'
  BY <1>1, CallKeeps DEF Kinds
<1>4. want' <= limit'
  BY <1>1 DEF StartRead
<1>5. ReadsChain'
  BY <1>1, <1>2, <1>4 DEF ReadsChain
<1>6. ReadPlace'
  <2>1. 0 * ClusterBytes = 0
    BY ClusterBytesType, SMTT(30)
  <2> QED BY <1>1, <1>2, <2>1 DEF ReadPlace, Place, AtLast, ClusterBytes
<1>7. CountPlace'
  BY <1>2 DEF CountPlace
<1> QED BY <1>3, <1>5, <1>6, <1>7 DEF ChainInv

LEMMA StartScanKeeps ==
  ASSUME ChainInv, NEW k \in Scans,
         (\E c \in 0 .. Top : StartScan(k, c)) \/ StartRoot(k)
  PROVE  ChainInv'
<1>1. PICK c \in 0 .. Top : Call(k, c)
  BY ChainAssumption DEF StartScan, StartRoot
<1>2. ChainTypeOK' /\ Rest' /\ Entry' /\ InChain'
  BY <1>1, CallKeeps DEF StartScan, StartRoot, ChainInv, ChainTypeOK, Kinds, Scans
<1>3. ReadsChain' /\ ReadPlace' /\ CountPlace'
  BY <1>1 DEF Call, Scans, ReadsChain, ReadPlace, CountPlace
<1> QED BY <1>2, <1>3 DEF ChainInv

LEMMA StartFreeKeeps ==
  ASSUME ChainInv, StartFree
  PROVE  ChainInv'
<1>1. /\ Call("free", 2) /\ ~ fixed' /\ fixed' \in BOOLEAN
      /\ want' \in Nat /\ limit' \in Nat /\ 2 \in 0 .. Top
  BY ChainAssumption DEF StartFree, Call, ChainInv, Rest, ChainTypeOK
<1>2. ChainTypeOK' /\ Rest' /\ Entry' /\ InChain'
  BY <1>1, CallKeeps DEF Kinds
<1>3. ReadsChain' /\ ReadPlace'
  BY <1>1 DEF Call, ReadsChain, ReadPlace
<1>4. CountPlace'
  <2>1. cluster' = 2 /\ count' = 0 /\ step' = "head" /\ 2 \in 2 .. LastCounted
    BY <1>1, ChainAssumption DEF Call, ChainInv, Rest, LastCounted
  <2>2. cluster' - 1 = 1 /\ 2 .. 1 = {}
    BY <2>1
  <2>3. Cardinality({}) = 0
    BY FS_EmptySet
  <2> QED BY <2>1, <2>2, <2>3 DEF CountPlace
<1> QED BY <1>2, <1>3, <1>4 DEF ChainInv

\* The next cluster of the chain.
LEMMA EnterKeeps ==
  ASSUME ChainInv, EnterCluster
  PROVE  ChainInv'
<1> USE DEF EnterCluster, vars
<1>1. cluster \in 0 .. Top /\ Clusters = 1 .. Eoc - 1 /\ ChainTypeOK /\ Rest
  BY ChainAssumption DEF ChainInv, ChainTypeOK
<1>2. fixed \/ cluster \in Clusters
  BY <1>1, ChainAssumption DEF ChainGoesOn, IsEoc
<1>3. path' = path \/ (path' = Append(path, cluster) /\ cluster \in Clusters)
  <2>1. CASE path' = path
    BY <2>1
  <2>2. CASE path' # path
    <3>1. ~ fixed /\ path' = Append(path, cluster)
      BY <2>2 DEF Visit
    <3> QED BY <1>2, <3>1
  <2> QED BY <2>1, <2>2
<1>4. path' \in Seq(Clusters)
  <2>1. path \in Seq(Clusters)
    BY <1>1 DEF ChainTypeOK
  <2> HIDE DEF EnterCluster
  <2> QED BY <1>3, <2>1
<1>5. 0 \in 0 .. SectorsPerCluster + RootSectors
  BY GeometryAssumption
<1>6. ChainTypeOK' /\ Rest' /\ Entry' /\ InChain'
  BY <1>1, <1>2, <1>4, <1>5 DEF ChainTypeOK, Rest, Entry, InChain
<1>7. CountPlace'
  BY DEF CountPlace
<1>8. CASE kind # "read"
  BY <1>6, <1>7, <1>8 DEF ReadsChain, ReadPlace, ChainInv
<1>9. CASE kind = "read"
  <2>1. /\ ~ fixed /\ path' = Append(path, cluster) /\ cluster \in 2 .. Eoc - 1
        /\ Len(buffer) < want /\ kind' = "read"
    BY <1>1, <1>9, ChainAssumption DEF ChainGoesOn, IsEoc, Visit, Rest, Scans
  <2> DEFINE n == Len(path)
             upto == n * ClusterBytes
  <2>2. n \in Nat /\ path \in Seq(Clusters) /\ upto \in Nat
    <3>1. path \in Seq(Clusters)
      BY <1>1 DEF ChainTypeOK
    <3>2. n \in Nat
      BY <3>1
    <3> QED BY <3>1, <3>2, ClusterBytesType
  <2>3. /\ Len(path') = n + 1 /\ path'[n + 1] = cluster
        /\ \A k \in 1 .. n : path'[k] = path[k]
    BY <2>1, <2>2, <1>1
  <2>4. Len(buffer) = upto /\ buffer \in Seq(Nat) /\ ReadsChain
    BY <1>1, <1>9, <2>1 DEF ChainInv, ReadPlace, Place, ChainTypeOK
  <2>5. \A k \in 1 .. n : path'[k] \notin misread' => path'[k + 1] = table'[path'[k]]
    <3> SUFFICES ASSUME NEW k \in 1 .. n, path[k] \notin misread
                 PROVE  path'[k + 1] = table[path[k]]
      BY <2>3
    <3>1. CASE k = n
      <4>1. cluster = table[path[n]]
        BY <1>9, <2>2, <3>1 DEF ChainInv, ReadPlace
      <4> QED BY <2>2, <2>3, <3>1, <4>1
    <3>2. CASE k # n
      BY <1>9, <2>2, <2>3, <2>4, <3>2 DEF ReadsChain
    <3> QED BY <3>1, <3>2
  <2>6. \A k \in DOMAIN path' : path'[k] >= 2 /\ path'[k] < Eoc
    <3> SUFFICES ASSUME NEW k \in 1 .. n + 1 PROVE path'[k] >= 2 /\ path'[k] < Eoc
      BY <2>1, <2>2, <2>3
    <3>1. CASE k = n + 1
      BY <2>1, <2>3, <3>1, ChainAssumption
    <3>2. CASE k # n + 1
      <4>1. k \in 1 .. n /\ k \in DOMAIN path
        BY <2>2, <3>2
      <4>2. path[k] >= 2 /\ path[k] < Eoc
        BY <1>9, <2>4, <4>1 DEF ReadsChain
      <4> QED BY <2>3, <4>1, <4>2
    <3> QED BY <3>1, <3>2
  <2>7. \A j \in DOMAIN buffer : 1 + (j - 1) \div ClusterBytes \in 1 .. n
    <3> SUFFICES ASSUME NEW j \in 1 .. upto
                 PROVE  1 + (j - 1) \div ClusterBytes \in 1 .. n
      BY <2>4
    <3>1. j - 1 \in Nat /\ j - 1 < upto
      BY <2>2
    <3>2. (j - 1) \div ClusterBytes \in 0 .. n - 1
      BY <2>2, <3>1, QuotientBelow, ClusterBytesType
    <3> QED BY <2>2, <3>2
  <2>8. ReadsChain'
    <3>1. Len(path') - 1 = n
      BY <2>2, <2>3
    <3>2. \A j \in DOMAIN buffer :
            path'[1 + (j - 1) \div ClusterBytes] = path[1 + (j - 1) \div ClusterBytes]
      BY <2>3, <2>7
    <3> QED BY <1>9, <2>4, <2>5, <2>6, <3>1, <3>2 DEF ReadsChain, PlaceOf, ClusterBytes
  <2>9. ReadPlace'
    <3>1. (Len(path') - 1) * ClusterBytes + sector' * SectorSize = upto
      <4>1. sector' = 0 /\ 0 * SectorSize = 0
        BY GeometryAssumption, SMTT(30)
      <4>2. Len(path') - 1 = n
        BY <2>2, <2>3
      <4> HIDE DEF EnterCluster
      <4> QED BY <2>2, <4>1, <4>2
    <3>2. path' # <<>> /\ path'[Len(path')] = cluster'
      BY <2>1, <2>2, <2>3
    <3>3. sector' <= SectorsPerCluster
      BY GeometryAssumption
    <3> QED BY <2>2, <2>4, <3>1, <3>2, <3>3 DEF ReadPlace, Place, AtLast, ClusterBytes
  <2> QED BY <1>6, <1>7, <2>8, <2>9 DEF ChainInv
<1> QED BY <1>8, <1>9

\* The next sector of a file: what it adds lies behind what is there, at the place
\* the last cluster of the path gives it.
LEMMA CopyKeeps ==
  ASSUME ChainInv, CopySector
  PROVE  ChainInv'
<1> DEFINE old == Len(buffer)
           n == IF Missing > SectorSize THEN SectorSize ELSE Missing
           before == (Len(path) - 1) * ClusterBytes
           here == There
<1>1. /\ step = "sector" /\ kind = "read" /\ SectorsToGo
      /\ buffer' = buffer \o Bytes(There, n)
      /\ sector' = sector + 1
      /\ UNCHANGED <<table, asked, got, sound>>
      /\ UNCHANGED <<kind, fixed, step, cluster, want, limit, count, path, misread, result>>
  BY DEF CopySector, vars
<1>2. ~ fixed /\ ChainTypeOK /\ Rest /\ Entry /\ InChain /\ ReadsChain /\ ReadPlace
  BY <1>1 DEF ChainInv, Rest, Scans
<1>3. /\ sector \in Nat /\ sector < SectorsPerCluster /\ old < want
      /\ old \in Nat /\ want \in Nat /\ buffer \in Seq(Nat) /\ path \in Seq(Clusters)
      /\ SectorSize \in Nat \ {0} /\ SectorsPerCluster \in Nat \ {0} /\ FirstDataSector \in Nat
      /\ RootSectors \in Nat /\ Len(path) \in Nat
  <2>1. buffer \in Seq(Nat) /\ path \in Seq(Clusters) /\ want \in Nat
    BY <1>2 DEF ChainTypeOK
  <2>2. sector \in 0 .. SectorsPerCluster + RootSectors
    BY <1>2 DEF ChainTypeOK
  <2>3. sector \in Nat
    BY <2>2, GeometryAssumption
  <2> QED BY <1>1, <1>2, <2>1, <2>3, GeometryAssumption DEF SectorsToGo
<1>4. /\ Len(path) \in Nat \ {0} /\ path[Len(path)] = cluster /\ cluster \in 2 .. Eoc - 1
      /\ old = before + sector * SectorSize
  <2>1. AtLast /\ old = before + sector * SectorSize
    BY <1>1, <1>2, <1>3 DEF ReadPlace, Place
  <2>2. Len(path) \in Nat \ {0} /\ path[Len(path)] = cluster
    BY <1>3, <2>1 DEF AtLast
  <2>3. Len(path) \in DOMAIN path
    BY <1>3, <2>2
  <2>4. cluster >= 2 /\ cluster < Eoc /\ cluster \in Clusters
    BY <1>1, <1>2, <2>2, <2>3 DEF ReadsChain, InChain
  <2> QED BY <2>1, <2>2, <2>4, ChainAssumption
<1>5. before \in Nat /\ sector * SectorSize \in Nat
      /\ sector * SectorSize + SectorSize <= ClusterBytes
      /\ (sector + 1) * SectorSize = sector * SectorSize + SectorSize
      /\ ClusterBytes \in Nat \ {0}
  <2>1. Len(path) - 1 \in Nat
    BY <1>4
  <2> QED BY <1>3, <2>1, ClusterBytesType, OneMore
<1>6. n \in 1 .. SectorSize /\ old + n <= want /\ (old + n < want => n = SectorSize)
  BY <1>3 DEF Missing
<1> DEFINE base == FirstDataSector * SectorSize
           into == sector * SectorSize
<1>7. /\ here \in Nat /\ base \in Nat /\ (cluster - 2) * ClusterBytes \in Nat
      /\ base + (cluster - 2) * ClusterBytes + into < Offsets
           => here = base + (cluster - 2) * ClusterBytes + into
  <2> DEFINE e == cluster - 2
             f == e * SectorsPerCluster
             first == FirstDataSector + f
             true == first + sector
  <2>1. e \in Nat /\ f \in Nat /\ f * SectorSize \in Nat /\ base \in Nat
    BY <1>3, <1>4, SMTT(30)
  <2>2. Here = ((first % Word) + sector) % Word /\ here = (Here * SectorSize) % Offsets
    BY <1>2, <1>4 DEF Here, There, ClusterToSector
  <2>3. f * SectorSize = e * ClusterBytes
    <3> HIDE DEF e
    <3> QED BY <1>3, <2>1, SMTT(30) DEF ClusterBytes
  <2>4. true \in Nat /\ first \in Nat /\ first <= true
        /\ true * SectorSize = base + e * ClusterBytes + into
    <3> HIDE DEF f
    <3>1. (FirstDataSector + f + sector) * SectorSize = base + f * SectorSize + into
      BY <1>3, <2>1, SMTT(30)
    <3> QED BY <1>3, <2>1, <2>3, <3>1
  <2> HIDE DEF first, true
  <2>5. Here \in Nat /\ here \in Nat
    <3>1. first % Word \in Nat /\ (first % Word) + sector \in Nat
      BY <1>3, <2>4, Remainder, WordAssumption
    <3>2. Here \in Nat
      BY <2>2, <3>1, Remainder, WordAssumption
    <3>3. Here * SectorSize \in Nat
      BY <3>2, ClusterBytesType
    <3> QED BY <2>2, <3>2, <3>3, Remainder, WordAssumption
  <2>6. ASSUME true * SectorSize < Offsets
        PROVE  here = true * SectorSize
    <3>1. true < Word
      <4>1. SUFFICES ASSUME Word <= true PROVE FALSE
        BY <2>4, WordAssumption
      <4>2. Word * SectorSize <= true * SectorSize /\ true * SectorSize \in Nat
            /\ Word * SectorSize \in Nat
        BY <1>3, <2>4, <4>1, Product, WordAssumption
      <4> QED BY <2>6, <4>2, WordAssumption
    <3>2. first % Word = first
      BY <2>4, <3>1, Remainder, WordAssumption
    <3>3. Here = true
      BY <1>3, <2>2, <2>4, <3>1, <3>2, Remainder, WordAssumption DEF true
    <3>4. true * SectorSize \in Nat
      BY <2>4, ClusterBytesType
    <3> QED BY <2>2, <2>6, <3>3, <3>4, Remainder, WordAssumption
  <2>7. e * ClusterBytes \in Nat
    BY <2>1, ClusterBytesType
  <2> QED BY <2>1, <2>4, <2>5, <2>6, <2>7 DEF e
<1> HIDE DEF n
<1>8. /\ Bytes(There, n) = [i \in 1 .. n |-> here + i - 1]
      /\ Bytes(There, n) \in Seq(Nat) /\ Len(Bytes(There, n)) = n
  <2>1. here \in Nat
    BY <1>7
  <2> HIDE DEF here
  <2>2. \A i \in 1 .. n : here + i - 1 \in Nat
    BY <1>6, <2>1
  <2>3. Bytes(There, n) = [i \in 1 .. n |-> here + i - 1]
    BY DEF Bytes, here
  <2>4. n \in Nat
    BY <1>3, <1>6
  <2> QED BY <2>2, <2>3, <2>4
<1>9. /\ buffer' \in Seq(Nat) /\ Len(buffer') = old + n
      /\ \A j \in 1 .. old : buffer'[j] = buffer[j]
      /\ \A j \in old + 1 .. old + n : buffer'[j] = here + (j - old) - 1
  <2>1. n \in Nat
    BY <1>3, <1>6
  <2> DEFINE b == Bytes(There, n)
  <2>2. b \in Seq(Nat) /\ Len(b) = n /\ \A i \in 1 .. n : b[i] = here + i - 1
    <3> HIDE DEF here
    <3> QED BY <1>8
  <2>3. buffer' = buffer \o b
    BY <1>1
  <2>4. /\ buffer' \in Seq(Nat) /\ Len(buffer') = old + n
        /\ \A j \in 1 .. old + n : buffer'[j] = IF j <= old THEN buffer[j] ELSE b[j - old]
    <3> HIDE DEF b
    <3> QED BY <1>3, <2>2, <2>3
  <2> HIDE DEF b, here
  <2>5. \A j \in 1 .. old : buffer'[j] = buffer[j]
    BY <1>3, <2>1, <2>4
  <2>6. ASSUME NEW j \in old + 1 .. old + n
        PROVE  buffer'[j] = here + (j - old) - 1
    <3>1. j - old \in 1 .. n /\ j \in 1 .. old + n /\ ~ (j <= old)
      BY <1>3, <2>1
    <3> QED BY <2>2, <2>4, <3>1
  <2> QED BY <2>4, <2>5, <2>6
<1>10. ASSUME NEW j \in old + 1 .. old + n
       PROVE  PlaceOf(j) < Offsets => buffer'[j] = PlaceOf(j)
  <2> DEFINE r == into + (j - old) - 1
             q == Len(path) - 1
  <2>1. r \in 0 .. ClusterBytes - 1 /\ q \in Nat /\ j - 1 = q * ClusterBytes + r
    <3> HIDE DEF into
    <3> SUFFICES r \in 0 .. ClusterBytes - 1 /\ q \in Nat /\ j - 1 = before + r
      OBVIOUS
    <3> HIDE DEF before
    <3>1. into \in Nat /\ into + SectorSize <= ClusterBytes /\ old = before + into
      BY <1>4, <1>5 DEF into
    <3>2. j \in Nat /\ old < j /\ j - old <= SectorSize
      BY <1>3, <1>6
    <3> HIDE DEF old
    <3> QED BY <1>3, <1>4, <1>5, <3>1, <3>2 DEF old
  <2> HIDE DEF r
  <2>2. (j - 1) \div ClusterBytes = q /\ (j - 1) % ClusterBytes = r
    BY <1>5, <2>1, DivMod
  <2>3. path[1 + (j - 1) \div ClusterBytes] = cluster
    BY <1>4, <2>2
  <2>4. buffer'[j] = here + (j - old) - 1
    BY <1>9
  <2> HIDE DEF here, base, into
  <2>5. j \in Int /\ old \in Nat /\ into \in Nat /\ old < j
    BY <1>3, <1>5, <1>6 DEF into
  <2>6. PlaceOf(j) = base + (cluster - 2) * ClusterBytes + r
    BY <2>2, <2>3 DEF PlaceOf, base
  <2> DEFINE skip == (cluster - 2) * ClusterBytes
  <2>7. skip \in Nat /\ base \in Nat /\ here \in Nat
        /\ (base + skip + into < Offsets => here = base + skip + into)
    BY <1>7
  <2>8. PlaceOf(j) = base + skip + into + (j - old) - 1
    <3> HIDE DEF skip
    <3>1. PlaceOf(j) = base + skip + r
      BY <2>6 DEF skip
    <3> QED BY <2>5, <2>7, <3>1 DEF r
  <2> HIDE DEF skip
  <2>9. j - old - 1 \in Nat /\ Offsets \in Nat
    BY <2>5, WordAssumption
  <2> QED BY <2>4, <2>5, <2>7, <2>8, <2>9
<1>11. ReadsChain'
  <2>1. \A j \in DOMAIN buffer' :
          PlaceOf(j) < Offsets => buffer'[j] = PlaceOf(j)
    <3> SUFFICES ASSUME NEW j \in DOMAIN buffer'
                 PROVE  PlaceOf(j) < Offsets => buffer'[j] = PlaceOf(j)
      OBVIOUS
    <3>1. j \in 1 .. old + n
      BY <1>3, <1>6, <1>9
    <3>2. CASE j \in 1 .. old
      <4>1. j \in DOMAIN buffer /\ buffer'[j] = buffer[j]
        BY <1>3, <1>9, <3>2
      <4> QED BY <1>1, <1>2, <4>1 DEF ReadsChain
    <3>3. CASE j \notin 1 .. old
      <4>1. j \in old + 1 .. old + n
        BY <1>3, <1>6, <3>1, <3>3
      <4> QED BY <1>10, <4>1
    <3> QED BY <3>2, <3>3
  <2>2. Len(buffer') <= want'
    BY <1>1, <1>6, <1>9
  <2> QED BY <1>1, <1>2, <2>1, <2>2 DEF ReadsChain, PlaceOf, ClusterBytes
<1>12. ReadPlace'
  <2> HIDE DEF before, old
  <2>1. /\ old + n <= before + (sector + 1) * SectorSize
        /\ old + n < want => old + n = before + (sector + 1) * SectorSize
    BY <1>3, <1>4, <1>5, <1>6
  <2>2. Len(buffer') <= before + sector' * SectorSize
        /\ (Len(buffer') < want' => Len(buffer') = before + sector' * SectorSize)
    BY <1>1, <1>9, <2>1
  <2>3. path' # <<>> /\ path'[Len(path')] = cluster' /\ sector' <= SectorsPerCluster
    BY <1>1, <1>2, <1>3 DEF ReadPlace, AtLast
  <2>4. before = (Len(path') - 1) * ClusterBytes'
    BY <1>1 DEF before, ClusterBytes
  <2> QED BY <1>1, <2>2, <2>3, <2>4 DEF ReadPlace, AtLast, Place
<1>13. ChainTypeOK'
  <2>1. sector' \in 0 .. SectorsPerCluster + RootSectors
    BY <1>1, <1>3
  <2> QED BY <1>1, <1>2, <1>9, <2>1 DEF ChainTypeOK
<1>14. Rest' /\ Entry' /\ InChain' /\ CountPlace'
  BY <1>1, <1>2 DEF Rest, Entry, InChain, CountPlace
<1> QED BY <1>11, <1>12, <1>13, <1>14 DEF ChainInv

\* A sector of a directory is gone through.
LEMMA ScanKeeps ==
  ASSUME ChainInv, ScanSector
  PROVE  ChainInv'
<1>1. /\ step = "sector" /\ kind \in Scans /\ SectorsToGo /\ sector' = sector + 1
      /\ UNCHANGED <<table, asked, got, sound>>
      /\ UNCHANGED <<kind, fixed, step, cluster, want, limit, buffer, count, path, misread, result>>
  BY DEF ScanSector, vars
<1>2. ChainTypeOK /\ Rest /\ Entry /\ InChain
  BY DEF ChainInv
<1>3. sector' \in 0 .. SectorsPerCluster + RootSectors
  <2>1. sector \in 0 .. SectorsPerCluster + RootSectors
    BY <1>2 DEF ChainTypeOK
  <2>2. sector < RootSectors \/ sector < SectorsPerCluster
    BY <1>1 DEF SectorsToGo
  <2> QED BY <1>1, <2>1, <2>2, GeometryAssumption
<1>4. ChainTypeOK' /\ Rest' /\ Entry' /\ InChain'
  BY <1>1, <1>2, <1>3 DEF ChainTypeOK, Rest, Entry, InChain
<1>5. ReadsChain' /\ ReadPlace' /\ CountPlace'
  BY <1>1 DEF Scans, ReadsChain, ReadPlace, CountPlace
<1> QED BY <1>4, <1>5 DEF ChainInv

\* The cluster is done: its entry is asked for.
LEMMA AskKeeps ==
  ASSUME ChainInv, AskNext
  PROVE  ChainInv'
<1>1. /\ step = "sector" /\ ~ fixed /\ ~ SectorsToGo /\ step' = "fat" /\ asked' = cluster
      /\ UNCHANGED <<table, got, sound>>
      /\ UNCHANGED <<kind, fixed, cluster, sector, want, limit, buffer, count, path, misread, result>>
  BY DEF AskNext, Ask, locals
<1>2. /\ ChainTypeOK /\ Rest /\ Entry /\ InChain /\ ReadsChain /\ ReadPlace /\ CountPlace
      /\ cluster \in Clusters
  BY <1>1 DEF ChainInv, InChain
<1>3. cluster # NoCluster
  BY <1>2, NoClusterAssumption
<1>4. ChainTypeOK' /\ Rest' /\ Entry' /\ InChain'
  BY <1>1, <1>2, <1>3 DEF ChainTypeOK, Rest, Entry, InChain
<1>5. ReadsChain'
  BY <1>1, <1>2 DEF ReadsChain, PlaceOf, ClusterBytes
<1>6. CountPlace'
  BY <1>1, <1>2 DEF CountPlace
<1>7. ReadPlace'
  <2>1. SUFFICES ASSUME kind = "read"
                 PROVE  AtLast' /\ (Place(Len(path) * ClusterBytes))'
    BY <1>1 DEF ReadPlace
  <2> DEFINE n == Len(path)
             before == (n - 1) * ClusterBytes
             into == sector * SectorSize
  <2>2. AtLast /\ Place(before + into) /\ sector <= SectorsPerCluster
    BY <1>1, <1>2, <2>1 DEF ReadPlace
  <2>3. n \in Nat /\ n - 1 \in Nat /\ Len(buffer) \in Nat /\ want \in Nat /\ sector \in Nat
    <3>1. path \in Seq(Clusters) /\ buffer \in Seq(Nat) /\ want \in Nat
      BY <1>2 DEF ChainTypeOK
    <3>2. sector \in 0 .. SectorsPerCluster + RootSectors
      BY <1>2 DEF ChainTypeOK
    <3> QED BY <2>2, <3>1, <3>2, GeometryAssumption DEF AtLast
  <2>4. before \in Nat /\ n * ClusterBytes = before + ClusterBytes
    <3>1. n = (n - 1) + 1
      BY <2>3
    <3> HIDE DEF n
    <3> QED BY <2>3, <3>1, ClusterBytesType, OneMore
  <2>5. into \in Nat /\ into <= ClusterBytes /\ ClusterBytes \in Nat
        /\ (sector = SectorsPerCluster => into = ClusterBytes)
    <3>1. SectorsPerCluster \in Nat /\ SectorSize \in Nat
      BY GeometryAssumption
    <3> QED BY <2>2, <2>3, <3>1, Product DEF ClusterBytes
  <2>6. Len(buffer) < want => sector = SectorsPerCluster
    BY <1>1, <2>1, <2>2, <2>3, GeometryAssumption DEF SectorsToGo
  <2>7. Len(buffer) <= before + into /\ (Len(buffer) < want => Len(buffer) = before + into)
    BY <2>2 DEF Place
  <2> HIDE DEF before, into, n
  <2>8. /\ Len(buffer) <= n * ClusterBytes
        /\ Len(buffer) < want => Len(buffer) = n * ClusterBytes
    BY <2>3, <2>4, <2>5, <2>6, <2>7
  <2> QED BY <1>1, <2>2, <2>8 DEF AtLast, Place, ClusterBytes, n
<1> QED BY <1>4, <1>5, <1>6, <1>7 DEF ChainInv

LEMMA CountNextKeeps ==
  ASSUME ChainInv, CountNext
  PROVE  ChainInv'
<1>1. /\ step = "head" /\ kind = "free" /\ cluster < LastCounted /\ step' = "fat"
      /\ asked' = cluster
      /\ UNCHANGED <<table, got, sound>>
      /\ UNCHANGED <<kind, fixed, cluster, sector, want, limit, buffer, count, path, misread, result>>
  BY DEF CountNext, Ask, locals
<1>2. ChainTypeOK /\ Rest /\ CountPlace
  BY DEF ChainInv
<1>3. cluster \in Clusters /\ cluster # NoCluster
  BY <1>1, <1>2, ChainAssumption, NoClusterAssumption DEF CountPlace, LastCounted
<1>4. ChainTypeOK' /\ Rest' /\ Entry' /\ InChain'
  BY <1>1, <1>2, <1>3 DEF ChainTypeOK, Rest, Entry, InChain, Scans
<1>5. ReadsChain' /\ ReadPlace'
  BY <1>1 DEF ReadsChain, ReadPlace
<1>6. CountPlace'
  BY <1>1, <1>2 DEF CountPlace, LastCounted
<1> QED BY <1>4, <1>5, <1>6 DEF ChainInv

\* The table answers, rightly or not; if not, the cluster is known as misread.
LEMMA AnswerKeeps ==
  ASSUME ChainInv, TableAnswers \/ TableRereads
  PROVE  ChainInv'
<1>1. /\ step = "fat" /\ table' = table
      /\ UNCHANGED <<kind, fixed, step, cluster, sector, want, limit, buffer, count, path, result>>
      /\ asked # NoCluster
  BY DEF TableAnswers, TableRereads, Answer, Reread, locals
<1>2. ChainTypeOK /\ Rest /\ Entry /\ ReadsChain /\ ReadPlace /\ CountPlace
      /\ asked = cluster /\ cluster \in Clusters
  BY <1>1 DEF ChainInv, Entry
<1>3. misread \subseteq misread' /\ misread' \subseteq Clusters
      /\ misread' \subseteq misread \cup {cluster}
  BY <1>2 DEF TableAnswers, TableRereads, locals, ChainTypeOK
<1>4. got' \in Values
  <2>1. table[asked] \in Values /\ got \in Values /\ Zero \in Values
    BY <1>2, ChainAssumption DEF ChainTypeOK
  <2> QED BY <2>1 DEF TableAnswers, TableRereads, Answer, Reread
<1>5. asked' \in {NoCluster, cluster}
      /\ (asked' = NoCluster => got' = table'[cluster] \/ cluster \in misread')
  BY <1>1, <1>2 DEF TableAnswers, TableRereads, Answer, Reread
<1>6. ChainTypeOK' /\ Rest' /\ Entry' /\ InChain'
  BY <1>1, <1>2, <1>3, <1>4, <1>5 DEF ChainTypeOK, Rest, Entry, InChain
<1>7. ReadsChain'
  BY <1>1, <1>2, <1>3 DEF ReadsChain, PlaceOf, ClusterBytes
<1>8. ReadPlace'
  BY <1>1, <1>2 DEF ReadPlace, Place, AtLast, ClusterBytes
<1>9. CountPlace'
  <2> SUFFICES ASSUME kind = "free" PROVE CountPlace'
    BY <1>1 DEF CountPlace
  <2>1. PICK G \in SUBSET (2 .. cluster - 1) :
          /\ count = Cardinality(G)
          /\ \A c \in 2 .. cluster - 1 : c \notin misread => (c \in G <=> table[c] = 0)
    BY <1>2 DEF CountPlace
  <2> QED BY <1>1, <1>2, <1>3, <2>1 DEF CountPlace, LastCounted
<1> QED BY <1>6, <1>7, <1>8, <1>9 DEF ChainInv

\* The call goes on with the entry: to the next cluster of the chain, or of the
\* count.
LEMMA GoOnKeeps ==
  ASSUME ChainInv, GoOn
  PROVE  ChainInv'
<1>1. /\ step = "fat" /\ asked = NoCluster /\ step' = "head"
      /\ UNCHANGED <<table, asked, got, sound>>
      /\ UNCHANGED <<kind, fixed, sector, want, limit, buffer, path, misread, result>>
      /\ kind # "free" => cluster' = got /\ count' = count
      /\ kind = "free" => cluster' = cluster + 1 /\ count' = IF got = 0 THEN count + 1 ELSE count
  BY DEF GoOn, vars
<1>2. /\ ChainTypeOK /\ Rest /\ Entry /\ ReadsChain /\ ReadPlace /\ CountPlace
      /\ cluster \in Clusters /\ (got = table[cluster] \/ cluster \in misread)
  BY <1>1 DEF ChainInv, Entry
<1>3. cluster' \in 0 .. Top /\ count' \in Nat
  <2>1. got \in Values /\ count \in Nat /\ Values = 0 .. Top /\ Clusters = 1 .. Eoc - 1
    BY <1>2, ChainAssumption DEF ChainTypeOK
  <2>2. cluster + 1 \in 0 .. Top
    BY <1>2, <2>1, ChainAssumption
  <2> QED BY <1>1, <2>1, <2>2
<1>4. ChainTypeOK' /\ Rest' /\ Entry' /\ InChain'
  BY <1>1, <1>2, <1>3 DEF ChainTypeOK, Rest, Entry, InChain
<1>5. ReadsChain'
  BY <1>1, <1>2 DEF ReadsChain, PlaceOf, ClusterBytes
<1>6. ReadPlace'
  <2> SUFFICES ASSUME kind = "read" PROVE ReadPlace'
    BY <1>1 DEF ReadPlace
  <2>1. AtLast /\ Place(Len(path) * ClusterBytes) /\ cluster' = got
    BY <1>1, <1>2 DEF ReadPlace
  <2> QED BY <1>1, <1>2, <2>1 DEF ReadPlace, Place, AtLast, ClusterBytes
<1>7. CountPlace'
  <2> SUFFICES ASSUME kind = "free" PROVE CountPlace'
    BY <1>1 DEF CountPlace
  <2> DEFINE Seen == 2 .. cluster - 1
  <2>1. /\ cluster \in 2 .. LastCounted /\ cluster < LastCounted /\ LastCounted \in Nat
        /\ cluster' = cluster + 1 /\ 2 .. cluster' - 1 = Seen \cup {cluster}
        /\ cluster \notin Seen /\ IsFiniteSet(Seen)
    <3>1. cluster \in 2 .. LastCounted /\ cluster < LastCounted /\ LastCounted \in Nat
      BY <1>1, <1>2, ChainAssumption DEF CountPlace, LastCounted
    <3>2. cluster' = cluster + 1
      BY <1>1
    <3>3. IsFiniteSet(Seen)
      BY <3>1, FS_Interval
    <3> QED BY <3>1, <3>2, <3>3
  <2>2. PICK G \in SUBSET Seen :
          /\ count = Cardinality(G)
          /\ \A c \in Seen : c \notin misread => (c \in G <=> table[c] = 0)
    BY <1>2 DEF CountPlace
  <2>3. IsFiniteSet(G) /\ cluster \notin G
    BY <2>1, <2>2, FS_Subset
  <2> DEFINE H == IF got = 0 THEN G \cup {cluster} ELSE G
  <2>4. count' = Cardinality(H)
    <3>1. CASE got = 0
      BY <1>1, <2>2, <2>3, <3>1, FS_AddElement
    <3>2. CASE got # 0
      BY <1>1, <2>2, <3>2
    <3> QED BY <3>1, <3>2
  <2>5. H \in SUBSET (2 .. cluster' - 1)
    BY <2>1, <2>2
  <2>6. \A c \in 2 .. cluster' - 1 : c \notin misread' => (c \in H <=> table'[c] = 0)
    BY <1>1, <1>2, <2>1, <2>2
  <2>7. cluster' \in 2 .. LastCounted'
    BY <2>1 DEF LastCounted
  <2> HIDE DEF H, Seen
  <2> QED BY <1>1, <2>4, <2>5, <2>6, <2>7 DEF CountPlace
<1> QED BY <1>4, <1>5, <1>6, <1>7 DEF ChainInv

\* The steps a call returns by.
Returns ==
  \/ NoBuffer
  \/ LeaveChain
  \/ ScanStops
  \/ SectorFails
  \/ LeaveRoot
  \/ CountDone

LEMMA ReturnsReturn ==
  ASSUME ChainInv, Returns
  PROVE  step # "fat" /\ \E r \in Nat \cup {Failed} : Return(r)
<1>1. Len(buffer) \in Nat /\ count \in Nat
  <2>1. buffer \in Seq(Nat) /\ count \in Nat
    BY DEF ChainInv, ChainTypeOK
  <2> QED BY <2>1
<1>2. 0 \in Nat /\ 1 \in Nat
  OBVIOUS
<1> QED BY <1>1, <1>2 DEF Returns, NoBuffer, LeaveChain, ScanStops, SectorFails, LeaveRoot,
                          CountDone, ScanEnd, NULL, Match

LEMMA NextKeeps == ChainInv /\ [ChainNext]_chainvars => ChainInv'
<1> SUFFICES ASSUME ChainInv, [ChainNext]_chainvars PROVE ChainInv'
  OBVIOUS
<1>1. CASE \E c \in 0 .. Top, f, s \in Sizes : StartRead(c, f, s)
  BY <1>1, StartReadKeeps
<1>2. CASE \E c \in 0 .. Top, k \in Scans : StartScan(k, c)
  BY <1>2, StartScanKeeps
<1>3. CASE \E k \in Scans : StartRoot(k)
  BY <1>3, StartScanKeeps
<1>4. CASE StartFree
  BY <1>4, StartFreeKeeps
<1>5. CASE Returns
  BY <1>5, ReturnsReturn, ReturnKeeps
<1>6. CASE EnterCluster \/ CopySector \/ ScanSector
  BY <1>6, EnterKeeps, CopyKeeps, ScanKeeps
<1>7. CASE AskNext \/ CountNext \/ TableAnswers \/ TableRereads \/ GoOn
  BY <1>7, AskKeeps, CountNextKeeps, AnswerKeeps, GoOnKeeps
<1>8. CASE UNCHANGED chainvars
  <2> USE <1>8 DEF chainvars, vars, locals, ChainInv
  <2>1. ChainTypeOK' /\ Rest' /\ Entry' /\ InChain'
    BY DEF ChainTypeOK, Rest, Entry, InChain
  <2>2. ReadsChain'
    BY DEF ReadsChain, PlaceOf, ClusterBytes
  <2>3. ReadPlace' /\ CountPlace'
    BY DEF ReadPlace, Place, AtLast, ClusterBytes, CountPlace, LastCounted
  <2> QED BY <2>1, <2>2, <2>3
<1> QED BY <1>1, <1>2, <1>3, <1>4, <1>5, <1>6, <1>7, <1>8 DEF ChainNext, ChainStep, Returns

\* A read that ends without filling its bytes is at the end of the chain.
LEMMA ShortIsEnd ==
  ASSUME ChainInv, [ChainNext]_chainvars, Returning, kind = "read",
         result' # Failed, result' < want
  PROVE  /\ result' = Len(path) * ClusterBytes
         /\ path # <<>> => LET last == path[Len(path)]
                          IN  last \in misread \/ table[last] \notin 2 .. Eoc - 1
<1>1. LeaveChain
  <2>1. step # "idle" /\ step' = "idle"
    BY DEF Returning
  <2>2. ~ UNCHANGED chainvars
    BY <2>1 DEF chainvars
  <2>3. ~ (\E c \in 0 .. Top, f, s \in Sizes : StartRead(c, f, s))
        /\ ~ (\E c \in 0 .. Top, k \in Scans : StartScan(k, c))
        /\ ~ (\E k \in Scans : StartRoot(k)) /\ ~ StartFree
    BY <2>1 DEF StartRead, StartScan, StartRoot, StartFree, Call
  <2>4. ~ EnterCluster /\ ~ CopySector /\ ~ ScanSector /\ ~ AskNext /\ ~ CountNext
        /\ ~ TableAnswers /\ ~ TableRereads /\ ~ GoOn
    BY <2>1 DEF EnterCluster, CopySector, ScanSector, AskNext, CountNext, TableAnswers,
                TableRereads, GoOn
  <2>5. ~ NoBuffer /\ ~ SectorFails
    BY DEF NoBuffer, SectorFails, Return
  <2>6. ~ ScanStops /\ ~ LeaveRoot /\ ~ CountDone
    BY DEF ScanStops, LeaveRoot, CountDone, ChainInv, Rest, Scans
  <2> QED BY <2>2, <2>3, <2>4, <2>5, <2>6 DEF ChainNext, ChainStep
<1>2. step = "head" /\ ~ ChainGoesOn /\ result' = Len(buffer)
  BY <1>1 DEF LeaveChain, Return
<1>3. cluster < 2 \/ cluster >= Eoc
  <2>1. cluster \in Nat /\ want \in Nat
    BY ChainAssumption DEF ChainInv, ChainTypeOK
  <2> QED BY <1>2, <2>1, ChainAssumption DEF ChainGoesOn, IsEoc
<1>4. Len(buffer) = Len(path) * ClusterBytes
  <2>1. Place(Len(path) * ClusterBytes)
    BY <1>2 DEF ChainInv, ReadPlace
  <2>2. Len(buffer) < want
    BY <1>2
  <2> QED BY <2>1, <2>2 DEF Place
<1>5. ASSUME path # <<>>, path[Len(path)] \notin misread
      PROVE  table[path[Len(path)]] \notin 2 .. Eoc - 1
  <2>1. table[path[Len(path)]] = cluster
    BY <1>2, <1>5 DEF ChainInv, ReadPlace
  <2>2. cluster \notin 2 .. Eoc - 1
    BY <1>3, ChainAssumption
  <2> QED BY <2>1, <2>2
<1> QED BY <1>2, <1>4, <1>5

\* A count that ends has counted the free clusters, but for the misread ones.
LEMMA CountRight ==
  ASSUME ChainInv, [ChainNext]_chainvars, Returning, kind = "free"
  PROVE  /\ result' >= Cardinality(FreeClusters \ misread)
         /\ result' <= Cardinality(FreeClusters \cup misread)
<1>1. CountDone
  <2>1. step # "idle" /\ step' = "idle"
    BY DEF Returning
  <2>2. ~ UNCHANGED chainvars
    BY <2>1 DEF chainvars
  <2>3. ~ (\E c \in 0 .. Top, f, s \in Sizes : StartRead(c, f, s))
        /\ ~ (\E c \in 0 .. Top, k \in Scans : StartScan(k, c))
        /\ ~ (\E k \in Scans : StartRoot(k)) /\ ~ StartFree
    BY <2>1 DEF StartRead, StartScan, StartRoot, StartFree, Call
  <2>4. ~ EnterCluster /\ ~ CopySector /\ ~ ScanSector /\ ~ AskNext /\ ~ CountNext
        /\ ~ TableAnswers /\ ~ TableRereads /\ ~ GoOn
    BY <2>1 DEF EnterCluster, CopySector, ScanSector, AskNext, CountNext, TableAnswers,
                TableRereads, GoOn
  <2>5. ~ NoBuffer /\ ~ LeaveChain /\ ~ SectorFails /\ ~ ScanStops /\ ~ LeaveRoot
    BY DEF NoBuffer, LeaveChain, SectorFails, ScanStops, LeaveRoot, ChainInv, CountPlace
  <2> QED BY <2>2, <2>3, <2>4, <2>5 DEF ChainNext, ChainStep
<1>2. result' = count /\ cluster = TotalClusters + 2 /\ cluster - 1 = TotalClusters + 1
  <2>1. cluster >= LastCounted /\ result' = count /\ cluster \in 2 .. LastCounted
    BY <1>1 DEF CountDone, Return, ChainInv, CountPlace
  <2> QED BY <2>1, ChainAssumption DEF LastCounted
<1>3. PICK G \in SUBSET (2 .. TotalClusters + 1) :
        /\ count = Cardinality(G)
        /\ \A c \in 2 .. TotalClusters + 1 : c \notin misread => (c \in G <=> table[c] = 0)
  BY <1>2 DEF ChainInv, CountPlace
<1>4. IsFiniteSet(2 .. TotalClusters + 1) /\ IsFiniteSet(Clusters) /\ misread \subseteq Clusters
  <2>1. TotalClusters + 1 \in Int /\ Eoc - 1 \in Int /\ 1 \in Int /\ 2 \in Int
    BY ChainAssumption
  <2>2. IsFiniteSet(2 .. TotalClusters + 1) /\ IsFiniteSet(1 .. Eoc - 1)
    BY <2>1, FS_Interval
  <2> QED BY <2>2, ChainAssumption DEF ChainInv, ChainTypeOK
<1>5. IsFiniteSet(G) /\ IsFiniteSet(misread) /\ IsFiniteSet(FreeClusters)
  BY <1>4, FS_Subset DEF FreeClusters
<1>6. FreeClusters \ misread \subseteq G /\ G \subseteq FreeClusters \cup misread
  BY <1>3 DEF FreeClusters
<1>7. IsFiniteSet(FreeClusters \cup misread)
  BY <1>5, FS_Union
<1>8. Cardinality(FreeClusters \ misread) <= Cardinality(G)
  BY <1>5, <1>6, FS_Subset
<1>9. Cardinality(G) <= Cardinality(FreeClusters \cup misread)
  BY <1>6, <1>7, FS_Subset
<1>10. Cardinality(FreeClusters \ misread) \in Nat /\ Cardinality(G) \in Nat
       /\ Cardinality(FreeClusters \cup misread) \in Nat
  <2>1. IsFiniteSet(FreeClusters \ misread)
    BY <1>5, <1>6, FS_Subset
  <2> QED BY <1>5, <1>7, <2>1, FS_CardinalityType
<1> QED BY <1>2, <1>3, <1>8, <1>9, <1>10

-----------------------------------------------------------------------------

\* The inductive invariant holds in every reachable state, whatever the table.
THEOREM ChainInvariance == ChainSpec => []ChainInv
<1> QED BY InitChain, NextKeeps, PTL DEF ChainSpec

\* Type correctness of the loops over chains.
THEOREM TypeCorrect == ChainSpec => []ChainTypeOK
<1>1. ChainInv => ChainTypeOK
  BY DEF ChainInv
<1> QED BY <1>1, ChainInvariance, PTL

\* read_file never writes past the caller's buffer or the file's size, and what it
\* copies is the content of the chain, cluster after cluster, as far as the offsets that
\* 32 bits can hold reach.
THEOREM CopiesTheChain == ChainSpec => []ReadsChain
<1>1. ChainInv => ReadsChain
  BY DEF ChainInv
<1> QED BY <1>1, ChainInvariance, PTL

\* A read that returns fewer bytes than it could has come to the end of the chain.
THEOREM ShortAtTheEnd == ChainSpec => ReadShort
<1>1. ChainInv /\ [ChainNext]_chainvars =>
        [ (Returning /\ kind = "read" /\ result' # Failed /\ result' < want) =>
            /\ result' = Len(path) * ClusterBytes
            /\ path # <<>> => LET last == path[Len(path)]
                             IN  last \in misread \/ table[last] \notin 2 .. Eoc - 1 ]_chainvars
  BY ShortIsEnd
<1> QED BY <1>1, ChainInvariance, PTL DEF ReadShort, ChainSpec

\* get_filesystem_info is wrong at most about the clusters whose entry it was not
\* given.
THEOREM CountsFree == ChainSpec => FreeCounted
<1>1. ChainInv /\ [ChainNext]_chainvars =>
        [ (Returning /\ kind = "free") =>
            /\ result' >= Cardinality(FreeClusters \ misread)
            /\ result' <= Cardinality(FreeClusters \cup misread) ]_chainvars
  BY CountRight
<1> QED BY <1>1, ChainInvariance, PTL DEF FreeCounted, ChainSpec

-----------------------------------------------------------------------------
(* Every step of a call brings its end nearer *)

\* A read enters a cluster only while bytes are missing.
BytesToRead == kind = "read" /\ step = "sector" /\ sector = 0 => Len(buffer) < want

LEMMA BytesToReadStep == ChainInv /\ BytesToRead /\ [ChainNext]_chainvars => BytesToRead'
<1> SUFFICES ASSUME ChainInv, BytesToRead, [ChainNext]_chainvars,
                    kind' = "read", step' = "sector", sector' = 0
             PROVE  Len(buffer') < want'
  BY DEF BytesToRead
<1>1. CASE EnterCluster
  BY <1>1 DEF EnterCluster, ChainGoesOn
<1>2. CASE CopySector
  <2>1. sector \in Nat /\ sector' = sector + 1
    BY <1>2, GeometryAssumption DEF CopySector, ChainInv, ChainTypeOK
  <2> QED BY <2>1
<1>3. CASE UNCHANGED chainvars
  BY <1>3 DEF chainvars, locals, BytesToRead
<1>4. CASE ScanSector
  BY <1>4 DEF ScanSector, Scans
<1>5. ~ (\E c \in 0 .. Top, f, s \in Sizes : StartRead(c, f, s))
      /\ ~ (\E c \in 0 .. Top, k \in Scans : StartScan(k, c))
      /\ ~ (\E k \in Scans : StartRoot(k)) /\ ~ StartFree
  BY DEF StartRead, StartScan, StartRoot, StartFree, Call
<1>6. ~ NoBuffer /\ ~ LeaveChain /\ ~ SectorFails /\ ~ ScanStops /\ ~ LeaveRoot /\ ~ CountDone
  BY DEF NoBuffer, LeaveChain, SectorFails, ScanStops, LeaveRoot, CountDone, Return
<1>7. ~ AskNext /\ ~ CountNext /\ ~ TableAnswers /\ ~ TableRereads /\ ~ GoOn
  BY DEF AskNext, CountNext, TableAnswers, TableRereads, GoOn
<1> QED BY <1>1, <1>2, <1>3, <1>4, <1>5, <1>6, <1>7 DEF ChainNext, ChainStep

LEMMA BytesToReadInvariance == ChainSpec => []BytesToRead
<1>1. ChainInit => BytesToRead
  BY DEF ChainInit, BytesToRead
<1> QED BY <1>1, BytesToReadStep, ChainInvariance, PTL DEF ChainSpec

\* A round less is less, and so are fewer steps of the same round.
LEMMA LessByRounds ==
  ASSUME NEW m \in Nat, NEW a \in Nat, NEW b \in Nat, NEW p \in Nat, NEW q \in Nat,
         \/ b + 1 <= a /\ q < m
         \/ b = a /\ q < p
  PROVE  b * m + q \in 0 .. a * m + p - 1
<1>1. a * m \in Nat /\ b * m \in Nat
  BY SMTT(30)
<1>2. CASE b = a /\ q < p
  BY <1>1, <1>2
<1>3. CASE b + 1 <= a /\ q < m
  <2>1. (b + 1) * m <= a * m /\ (b + 1) * m = b * m + m
    BY <1>3, Product, OneMore
  <2> QED BY <1>1, <1>3, <2>1
<1> QED BY <1>2, <1>3

\* Rounds and steps are naturals, and the steps fit in a round.
LEMMA RankTypes ==
  ASSUME ChainInv
  PROVE  /\ MostSectors \in Nat
         /\ kind # "none" => Rounds \in Nat /\ StepsOfRound \in 0 .. MostSectors + 5
<1>1. MostSectors \in Nat /\ sector \in 0 .. MostSectors
  BY GeometryAssumption DEF MostSectors, ChainInv, ChainTypeOK
<1>2. InTable \in 0 .. 3
  BY DEF InTable
<1>3. StepsOfRound \in 0 .. MostSectors + 5
  BY <1>1, <1>2 DEF StepsOfRound
<1>4. ASSUME kind = "read" PROVE Rounds \in Nat
  BY <1>4 DEF Rounds, Missing, ChainInv, ReadsChain, ChainTypeOK
<1>5. ASSUME kind = "free" PROVE Rounds \in Nat
  <2>1. cluster \in 2 .. LastCounted /\ LastCounted \in Nat
    BY <1>5, ChainAssumption DEF ChainInv, CountPlace, LastCounted
  <2> QED BY <1>5, <2>1 DEF Rounds
<1>6. ASSUME kind \notin {"read", "free"} PROVE Rounds \in Nat
  <2> DEFINE U == Clusters \ {path[i] : i \in DOMAIN path}
  <2>1. IsFiniteSet(Clusters)
    <3>1. Eoc - 1 \in Int /\ 1 \in Int
      BY ChainAssumption
    <3> QED BY <3>1, FS_Interval, ChainAssumption
  <2>2. IsFiniteSet(U)
    BY <2>1, FS_Subset
  <2>3. Cardinality(U) \in Nat
    BY <2>2, FS_CardinalityType
  <2> QED BY <1>6, <2>3 DEF Rounds
<1> QED BY <1>1, <1>3, <1>4, <1>5, <1>6

\* A scan that enters a cluster for the first time has one less to enter.
LEMMA EntersNew ==
  ASSUME ChainInv, EnterCluster, kind \in Scans, ~ fixed, ~ InCircle
  PROVE  Rounds' + 1 <= Rounds /\ Rounds \in Nat /\ Rounds' \in Nat
<1> DEFINE U == Clusters \ {path[i] : i \in DOMAIN path}
<1>1. cluster \in Clusters
  BY ChainAssumption DEF EnterCluster, ChainGoesOn, IsEoc, ChainInv, ChainTypeOK, Scans
<1>2. cluster \in U
  BY <1>1 DEF InCircle, EnterCluster
<1>3. path' = Append(path, cluster) /\ path \in Seq(Clusters)
  BY <1>2 DEF EnterCluster, Visit, ChainInv, ChainTypeOK
<1>4. U' = U \ {cluster}
  <2>1. \A k \in 1 .. Len(path) : path'[k] = path[k]
    BY <1>3
  <2>2. Len(path) \in Nat /\ DOMAIN path = 1 .. Len(path) /\ DOMAIN path' = 1 .. Len(path) + 1
        /\ path'[Len(path) + 1] = cluster
    BY <1>3
  <2>3. {path'[i] : i \in DOMAIN path'} = {path[i] : i \in DOMAIN path} \cup {cluster}
    <3>1. ASSUME NEW i \in DOMAIN path'
          PROVE  path'[i] \in {path[j] : j \in DOMAIN path} \cup {cluster}
      <4>1. CASE i = Len(path) + 1
        BY <2>2, <4>1
      <4>2. CASE i # Len(path) + 1
        <5>1. i \in 1 .. Len(path)
          BY <2>2, <4>2
        <5>2. path'[i] = path[i] /\ i \in DOMAIN path
          BY <2>1, <2>2, <5>1
        <5> QED BY <5>2
      <4> QED BY <4>1, <4>2
    <3>2. ASSUME NEW i \in DOMAIN path
          PROVE  path[i] \in {path'[j] : j \in DOMAIN path'}
      <4>1. i \in DOMAIN path' /\ path'[i] = path[i]
        BY <2>1, <2>2
      <4> QED BY <4>1
    <3>3. cluster \in {path'[j] : j \in DOMAIN path'}
      <4>1. Len(path) + 1 \in DOMAIN path'
        BY <2>2
      <4> QED BY <2>2, <4>1
    <3> QED BY <3>1, <3>2, <3>3
  <2> QED BY <2>3
<1>5. IsFiniteSet(U)
  <2>1. Eoc - 1 \in Int /\ 1 \in Int
    BY ChainAssumption
  <2>2. IsFiniteSet(Clusters)
    BY <2>1, FS_Interval, ChainAssumption
  <2> QED BY <2>2, FS_Subset
<1>6. Rounds = Cardinality(U) /\ Rounds' = Cardinality(U')
  BY DEF Rounds, Scans, EnterCluster
<1> HIDE DEF U
<1>7. Cardinality(U \ {cluster}) = Cardinality(U) - 1 /\ Cardinality(U) \in Nat
      /\ IsFiniteSet(U \ {cluster})
  BY <1>2, <1>5, FS_RemoveElement, FS_CardinalityType
<1>8. Cardinality(U \ {cluster}) \in Nat
  BY <1>7, FS_CardinalityType
<1> QED BY <1>4, <1>6, <1>7, <1>8

\* A function on 1 .. n is a sequence of length n.
LEMMA OnPositions ==
  ASSUME NEW V, NEW n \in Nat, NEW s \in [1 .. n -> V]
  PROVE  s \in Seq(V) /\ Len(s) = n
OBVIOUS

\* One step of a call, by rounds and steps.
LEMMA Nearer ==
  ASSUME ChainInv, ChainInv', BytesToRead, [ChainNext]_chainvars,
         step # "idle", step' # "idle", ~ InCircle, ~ UNCHANGED chainvars
  PROVE  \/ Rounds' + 1 <= Rounds
         \/ Rounds' = Rounds /\ StepsOfRound' < StepsOfRound
<1>1. ChainTypeOK /\ Rest /\ kind # "none" /\ sector \in 0 .. MostSectors /\ MostSectors \in Nat
  BY GeometryAssumption DEF ChainInv, Rest, MostSectors, ChainTypeOK
<1>2. CASE EnterCluster
  <2>1. CASE kind = "read"
    <3>1. step = "head" /\ step' = "sector" /\ sector' = 0 /\ Rounds' = Rounds
      BY <1>2, <2>1 DEF EnterCluster, Rounds, Missing
    <3> QED BY <1>2, <2>1, <3>1 DEF EnterCluster, StepsOfRound, InTable
  <2>2. CASE kind # "read" /\ fixed
    <3>1. kind \in Scans /\ path' = path /\ step = "head" /\ step' = "sector" /\ sector' = 0
          /\ kind' = kind
      BY <1>1, <1>2, <2>2 DEF EnterCluster, Visit, Rest
    <3>2. Rounds' = Rounds
      BY <3>1 DEF Rounds, Scans
    <3>3. StepsOfRound = MostSectors + 5 /\ StepsOfRound' = 4 + MostSectors - 0
      BY <2>2, <3>1 DEF StepsOfRound, Scans, MostSectors
    <3> QED BY <1>1, <3>2, <3>3
  <2>3. CASE kind # "read" /\ ~ fixed
    <3>1. kind \in Scans
      BY <1>1, <1>2, <2>3 DEF EnterCluster, ChainTypeOK, Kinds, Scans
    <3> QED BY <1>2, <2>3, <3>1, EntersNew
  <2> QED BY <2>1, <2>2, <2>3
<1>3. CASE CopySector
  <2>1. /\ kind = "read" /\ kind' = "read" /\ Len(buffer) < want /\ want' = want
        /\ buffer' = buffer \o Bytes(There, IF Missing > SectorSize THEN SectorSize ELSE Missing)
    BY <1>3 DEF CopySector, SectorsToGo, Rest, ChainInv, Scans
  <2> DEFINE n == IF Missing > SectorSize THEN SectorSize ELSE Missing
             s == Bytes(There, n)
  <2>2. buffer \in Seq(Nat) /\ want \in Nat /\ Len(buffer) \in Nat
    BY <1>1 DEF ChainTypeOK
  <2>3. n \in Nat \ {0} /\ n <= want - Len(buffer)
    BY <2>1, <2>2, GeometryAssumption DEF Missing
  <2>4. buffer' \in Seq(Nat)
    BY DEF ChainInv, ChainTypeOK
  <2>5. Len(buffer') = Len(buffer) + n
    <3> DEFINE V == Nat \cup {There + i - 1 : i \in 1 .. n}
    <3> HIDE DEF n
    <3>1. s \in [1 .. n -> V]
      BY DEF Bytes
    <3>2. buffer' = buffer \o s
      BY <2>1 DEF n
    <3>3. buffer \in Seq(V)
      BY <2>2
    <3> HIDE DEF s, V
    <3>4. s \in Seq(V) /\ Len(s) = n
      BY <2>3, <3>1, OnPositions
    <3>5. Len(buffer \o s) = Len(buffer) + Len(s)
      BY <3>3, <3>4
    <3> QED BY <3>2, <3>4, <3>5
  <2>6. Rounds' = want - Len(buffer) - n /\ Rounds = want - Len(buffer)
    BY <2>1, <2>2, <2>3, <2>5 DEF Rounds, Missing
  <2> HIDE DEF n
  <2> QED BY <2>2, <2>3, <2>6
<1>4. CASE ScanSector
  <2>1. kind \in Scans /\ kind' = kind /\ path' = path /\ step = "sector" /\ step' = "sector"
        /\ sector' = sector + 1
    BY <1>4 DEF ScanSector
  <2>2. Rounds' = Rounds
    BY <2>1 DEF Rounds, Scans
  <2>3. StepsOfRound = 4 + MostSectors - sector /\ StepsOfRound' = 4 + MostSectors - (sector + 1)
    BY <2>1 DEF StepsOfRound, Scans, MostSectors
  <2> QED BY <1>1, <2>2, <2>3
<1>5. CASE AskNext
  <2>1. /\ step = "sector" /\ step' = "fat" /\ ~ SectorsToGo /\ ~ fixed /\ UNCHANGED locals
        /\ InTable' \in 2 .. 3
    BY <1>5, NoClusterAssumption DEF AskNext, Ask, InTable, ChainInv, InChain
  <2>2. Rounds' = Rounds
    BY <2>1 DEF locals, Rounds, Missing
  <2>3. CASE kind = "read"
    <3>1. sector # 0
      BY <2>1, <2>3, GeometryAssumption DEF SectorsToGo, BytesToRead
    <3>2. StepsOfRound = 5 /\ StepsOfRound' = 1 + InTable'
      BY <2>1, <2>3, <3>1 DEF StepsOfRound, locals
    <3>3. InTable' = 2 \/ InTable' = 3
      BY <2>1
    <3>4. StepsOfRound' < StepsOfRound
      BY <3>2, <3>3
    <3> QED BY <2>2, <3>4
  <2>4. CASE kind # "read"
    <3>1. kind # "free"
      BY <2>1 DEF ChainInv, CountPlace
    <3>2. StepsOfRound = 4 + MostSectors - sector /\ StepsOfRound' = InTable'
      BY <2>1, <2>4, <3>1 DEF StepsOfRound, locals, MostSectors
    <3> QED BY <1>1, <2>1, <2>2, <3>2
  <2> QED BY <2>3, <2>4
<1>6. CASE CountNext
  <2>1. kind = "free" /\ step = "head" /\ step' = "fat" /\ UNCHANGED locals /\ InTable' \in 0 .. 3
    BY <1>6 DEF CountNext, InTable
  <2>2. Rounds' = Rounds
    BY <2>1 DEF locals, Rounds, LastCounted
  <2> QED BY <2>1, <2>2 DEF StepsOfRound, locals
<1>7. CASE TableAnswers \/ TableRereads
  <2>1. /\ step = "fat" /\ step' = "fat" /\ InTable' < InTable
        /\ InTable \in 0 .. 3 /\ InTable' \in 0 .. 3 /\ ~ fixed
        /\ UNCHANGED <<kind, fixed, cluster, want, buffer, path>>
    <3>1. CASE TableAnswers
      BY <1>1, <3>1 DEF TableAnswers, Answer, InTable, Rest
    <3>2. CASE TableRereads
      BY <1>1, <3>2 DEF TableRereads, Reread, InTable, Rest, locals
    <3> QED BY <1>7, <3>1, <3>2
  <2>2. Rounds' = Rounds
    BY <2>1 DEF Rounds, Missing, LastCounted
  <2>3. StepsOfRound' < StepsOfRound
    BY <2>1 DEF StepsOfRound
  <2> QED BY <2>2, <2>3
<1>8. CASE GoOn
  <2>1. step = "fat" /\ asked = NoCluster /\ step' = "head" /\ InTable = 1 /\ InTable' = 0
        /\ UNCHANGED <<kind, fixed, want, buffer, path>> /\ ~ fixed
    BY <1>1, <1>8 DEF GoOn, InTable, Rest
  <2>2. CASE kind = "free"
    <3>1. cluster' = cluster + 1 /\ cluster \in 2 .. LastCounted /\ LastCounted \in Nat
      BY <1>8, <2>2, ChainAssumption DEF GoOn, ChainInv, CountPlace, LastCounted
    <3>2. Rounds = LastCounted - cluster /\ Rounds' = LastCounted - (cluster + 1)
      BY <2>1, <2>2, <3>1 DEF Rounds, LastCounted
    <3> QED BY <3>1, <3>2
  <2>3. CASE kind # "free"
    <3>1. Rounds' = Rounds
      BY <2>1, <2>3 DEF Rounds, Missing
    <3>2. StepsOfRound' < StepsOfRound
      BY <2>1, <2>3 DEF StepsOfRound
    <3> QED BY <3>1, <3>2
  <2> QED BY <2>2, <2>3
<1>9. ~ NoBuffer /\ ~ LeaveChain /\ ~ SectorFails /\ ~ ScanStops /\ ~ LeaveRoot /\ ~ CountDone
  BY DEF NoBuffer, LeaveChain, SectorFails, ScanStops, LeaveRoot, CountDone, Return
<1>10. ~ (\E c \in 0 .. Top, f, s \in Sizes : StartRead(c, f, s))
       /\ ~ (\E c \in 0 .. Top, k \in Scans : StartScan(k, c))
       /\ ~ (\E k \in Scans : StartRoot(k)) /\ ~ StartFree
  BY DEF StartRead, StartScan, StartRoot, StartFree, Call
<1> QED BY <1>2, <1>3, <1>4, <1>5, <1>6, <1>7, <1>8, <1>9, <1>10 DEF ChainNext, ChainStep

LEMMA RankFalls ==
  ASSUME ChainInv, ChainInv', BytesToRead, [ChainNext]_chainvars,
         step # "idle", step' # "idle", ~ InCircle, ~ UNCHANGED chainvars
  PROVE  Rank' \in 0 .. Rank - 1
<1>1. kind # "none" /\ kind' # "none"
  BY DEF ChainInv, Rest
<1>2. /\ MostSectors \in Nat /\ Rounds \in Nat /\ StepsOfRound \in 0 .. MostSectors + 5
      /\ Rounds' \in Nat /\ StepsOfRound' \in 0 .. MostSectors + 5
  <2>1. MostSectors \in Nat /\ Rounds \in Nat /\ StepsOfRound \in 0 .. MostSectors + 5
    BY <1>1, RankTypes
  <2>2. (ChainInv => (kind # "none" => Rounds \in Nat /\ StepsOfRound \in 0 .. MostSectors + 5))'
    BY RankTypes, PTL
  <2> QED BY <1>1, <2>1, <2>2 DEF MostSectors
<1>3. \/ Rounds' + 1 <= Rounds
      \/ Rounds' = Rounds /\ StepsOfRound' < StepsOfRound
  BY Nearer
<1> DEFINE m == MostSectors + 6
           a == Rounds
           b == Rounds'
           p == StepsOfRound
           q == StepsOfRound'
           before == a * m + p
           after == b * m + q
<1>4. Rank = before /\ Rank' = after
  BY DEF Rank, MostSectors
<1> HIDE DEF a, b, p, q
<1>5. /\ m \in Nat /\ a \in Nat /\ b \in Nat /\ p \in Nat /\ q \in Nat
      /\ (b + 1 <= a /\ q < m) \/ (b = a /\ q < p)
  <2>1. MostSectors \in Nat /\ p \in 0 .. MostSectors + 5 /\ q \in 0 .. MostSectors + 5
        /\ a \in Nat /\ b \in Nat
    BY <1>2 DEF a, b, p, q
  <2>2. b + 1 <= a \/ (b = a /\ q < p)
    BY <1>3 DEF a, b, p, q
  <2> QED BY <2>1, <2>2
<1> HIDE DEF m
<1>6. after \in 0 .. before - 1
  BY <1>5, LessByRounds
<1> HIDE DEF before, after
<1> QED BY <1>4, <1>6

\* No call goes on for ever while the thread runs, but the scan of a directory whose chain
\* goes in a circle: each step lowers a natural number.  That a call which has begun does
\* take its next step is the fairness of LiveSpec.
THEOREM CallsComeNearer == ChainSpec => CallsAdvance
<1>1. ChainInv /\ ChainInv' /\ BytesToRead /\ [ChainNext]_chainvars =>
        [ (step # "idle" /\ step' # "idle" /\ ~ InCircle) => Rank' \in 0 .. Rank - 1 ]_chainvars
  BY RankFalls
<1> QED BY <1>1, ChainInvariance, BytesToReadInvariance, PTL DEF CallsAdvance, ChainSpec
=============================================================================
