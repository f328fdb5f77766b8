---------------------------- MODULE DirScanProofs ----------------------------
(***************************************************************************)
(* What the scans of a directory make of its slots, for any files and      *)
(* names, any number of slots, any history of writes and any faults: they  *)
(* implement Directory, and the two loops read every directory alike.      *)
(*                                                                         *)
(*   1. slots, and names put together from pieces                          *)
(*   2. the inductive invariant                                            *)
(*   3. the refinement of Directory                                        *)
(*   4. a listing and a lookup read the same                               *)
(***************************************************************************)
EXTENDS DirScan, SequenceTheorems, WellFoundedInduction, TLAPS

-----------------------------------------------------------------------------
(* 1. Slots and names *)

\* Every non-empty set of naturals has a least element.
LEMMA LeastNat ==
  ASSUME NEW T \in SUBSET Nat, T # {}
  PROVE  \E x \in T : \A y \in T : x <= y
<1> DEFINE R == {ss \in Nat \X Nat : ss[1] < ss[2]}
<1>1. IsWellFoundedOn(R, Nat)
  BY NatLessThanWellFounded, Zenon DEF OpToRel
<1>2. \E x \in T : \A y \in T : ~ (<<y, x>> \in R)
  <2> HIDE DEF R
  <2> QED BY <1>1, WFMin
<1>3. PICK x \in T : \A y \in T : ~ (<<y, x>> \in R)
  BY <1>2
<1>4. ASSUME NEW y \in T PROVE x <= y
  <2>1. x \in Nat /\ y \in Nat /\ ~ (<<y, x>> \in R)
    BY <1>3
  <2> QED BY <2>1
<1> QED BY <1>3, <1>4

\* The kind of a slot tells what it is.
LEMMA KindsTell ==
  /\ End.kind = "end" /\ Free.kind = "free" /\ Dots.kind = "dots"
  /\ \A f \in Files : Entry(f).kind = "entry" /\ Entry(f).of = f
  /\ \A f \in Files : \A k \in 1 .. Len(Long[f]) :
       /\ Piece(f, k).kind = "piece" /\ Piece(f, k).of = f /\ Piece(f, k).order = k
       /\ Piece(f, k).last = (k = Len(Long[f]))
BY DEF End, Free, Dots, Entry, Piece

\* What a slot of each kind holds.
LEMMA SlotHolds ==
  ASSUME NEW s \in SlotSet
  PROVE  /\ s.kind \in {"end", "free", "dots", "entry", "piece"}
         /\ s.kind = "entry" => s.of \in Files /\ s = Entry(s.of)
         /\ s.kind = "piece" => /\ s.of \in Files
                                /\ s.order \in 1 .. Len(Long[s.of])
                                /\ s.last = (s.order = Len(Long[s.of]))
                                /\ s = Piece(s.of, s.order)
<1>1. CASE s \in {End, Free, Dots}
  BY <1>1, KindsTell, Zenon
<1>2. ASSUME NEW f \in Files, s = Entry(f) PROVE s.kind = "entry" /\ s.of = f
  BY <1>2, KindsTell
<1>3. ASSUME NEW f \in Files, NEW k \in 1 .. Len(Long[f]), s = Piece(f, k)
      PROVE  s.kind = "piece" /\ s.of = f /\ s.order = k /\ s.last = (k = Len(Long[f]))
  BY <1>3, KindsTell
<1>4. CASE \E f \in Files : s = Entry(f)
  <2>1. PICK f \in Files : s = Entry(f)
    BY <1>4
  <2>2. s.kind = "entry" /\ s.of = f
    BY <1>2, <2>1
  <2> QED BY <2>1, <2>2
<1>5. CASE \E f \in Files : \E k \in 1 .. Len(Long[f]) : s = Piece(f, k)
  <2>1. PICK f \in Files : \E k \in 1 .. Len(Long[f]) : s = Piece(f, k)
    BY <1>5
  <2>2. PICK k \in 1 .. Len(Long[f]) : s = Piece(f, k)
    BY <2>1
  <2>3. s.kind = "piece" /\ s.of = f /\ s.order = k /\ s.last = (k = Len(Long[f]))
    BY <1>3, <2>2
  <2> QED BY <2>2, <2>3
<1>6. s \in {End, Free, Dots} \/ (\E f \in Files : s = Entry(f))
        \/ \E f \in Files : \E k \in 1 .. Len(Long[f]) : s = Piece(f, k)
  BY DEF SlotSet
<1> QED BY <1>1, <1>4, <1>5, <1>6

LEMMA SlotsThereAre ==
  /\ End \in SlotSet /\ Free \in SlotSet /\ Dots \in SlotSet
  /\ \A f \in Files : Entry(f) \in SlotSet
  /\ \A f \in Files : \A k \in 1 .. Len(Long[f]) : Piece(f, k) \in SlotSet
<1>1. \A f \in Files : Entry(f) \in {Entry(g) : g \in Files}
  OBVIOUS
<1>2. ASSUME NEW f \in Files, NEW k \in 1 .. Len(Long[f])
      PROVE  Piece(f, k) \in UNION {{Piece(g, j) : j \in 1 .. Len(Long[g])} : g \in Files}
  <2>1. Piece(f, k) \in {Piece(f, j) : j \in 1 .. Len(Long[f])}
    OBVIOUS
  <2> QED BY <2>1
<1> QED BY <1>1, <1>2, Zenon DEF SlotSet

LEMMA LongIsSeq ==
  ASSUME NEW f \in Files
  PROVE  /\ Long[f] \in Seq(Texts) /\ Len(Long[f]) \in 0 .. MaxPieces
         /\ \A k \in 1 .. Len(Long[f]) : Long[f][k] \in Texts
         /\ Alias[f] \in Texts
<1>1. Long[f] \in Seq(Texts) /\ Alias[f] \in Texts /\ Len(Long[f]) <= MaxPieces
  BY NameAssumption
<1> QED BY <1>1, LenProperties, NameAssumption

Buffers == [1 .. MaxPieces -> Texts \cup {Nul}]

\* A buffer has a first NUL, or none: what lies before it can be read, and is all of
\* a name that the buffer holds.
LEMMA ReadsBuffer ==
  ASSUME NEW b \in Buffers
  PROVE  /\ Assembled(b) \in DOMAIN Lower
         /\ \A s \in Seq(Texts) :
              /\ Len(s) <= MaxPieces
              /\ \A k \in 1 .. MaxPieces : b[k] = IF k <= Len(s) THEN s[k] ELSE Nul
              => Assembled(b) = s
<1> DEFINE Upto(n) == /\ \A k \in 1 .. n : b[k] # Nul
                      /\ n = MaxPieces \/ b[n + 1] = Nul
           m == CHOOSE n \in 0 .. MaxPieces : Upto(n)
<1>0. MaxPieces \in Nat
  BY NameAssumption
<1>1. \E n \in 0 .. MaxPieces : Upto(n)
  <2> DEFINE E == {n \in 0 .. MaxPieces : n = MaxPieces \/ b[n + 1] = Nul}
  <2>1. E \in SUBSET Nat /\ MaxPieces \in E
    BY <1>0
  <2>2. PICK n \in E : \A y \in E : n <= y
    <3> HIDE DEF E
    <3> QED BY <2>1, LeastNat
  <2>3. ASSUME NEW k \in 1 .. n PROVE b[k] # Nul
    <3>1. k - 1 \in 0 .. MaxPieces /\ k - 1 < n
      BY <1>0, <2>2, <2>3
    <3>2. k - 1 \notin E
      BY <2>2, <3>1
    <3> QED BY <3>1, <3>2
  <2> QED BY <2>2, <2>3
<1>2. m \in 0 .. MaxPieces /\ Upto(m)
  <2> HIDE DEF Upto
  <2> QED BY <1>1
<1>3. Assembled(b) = SubSeq(b, 1, m)
  BY DEF Assembled
<1> HIDE DEF m
<1>4. SubSeq(b, 1, m) = [k \in 1 .. m |-> b[k]]
  BY <1>0, <1>2 DEF SubSeq
<1>5. Assembled(b) \in DOMAIN Lower
  <2>1. [k \in 1 .. m |-> b[k]] \in [1 .. m -> Texts]
    BY <1>0, <1>2 DEF Buffers
  <2>2. [1 .. m -> Texts] \subseteq DOMAIN Lower
    BY <1>2, NameAssumption
  <2> QED BY <1>3, <1>4, <2>1, <2>2
<1>6. ASSUME NEW s \in Seq(Texts), Len(s) <= MaxPieces,
             \A k \in 1 .. MaxPieces : b[k] = IF k <= Len(s) THEN s[k] ELSE Nul
      PROVE  Assembled(b) = s
  <2>1. Len(s) \in Nat /\ s \in [1 .. Len(s) -> Texts]
    BY LenProperties
  <2>2. m = Len(s)
    <3>1. CASE m < Len(s)
      <4>1. m + 1 \in 1 .. MaxPieces /\ m + 1 \in 1 .. Len(s)
        BY <1>0, <1>2, <1>6, <2>1, <3>1
      <4>2. b[m + 1] = s[m + 1] /\ s[m + 1] \in Texts
        BY <1>6, <2>1, <4>1
      <4>3. b[m + 1] = Nul
        BY <1>0, <1>2, <1>6, <2>1, <3>1
      <4> QED BY <4>2, <4>3, NameAssumption
    <3>2. CASE m > Len(s)
      <4>1. Len(s) + 1 \in 1 .. m /\ Len(s) + 1 \in 1 .. MaxPieces
        BY <1>0, <1>2, <2>1, <3>2
      <4>2. b[Len(s) + 1] = Nul
        BY <1>6, <2>1, <4>1
      <4> QED BY <1>2, <4>1, <4>2
    <3>3. m \in Nat /\ Len(s) \in Nat
      BY <1>0, <1>2, <2>1
    <3>4. m < Len(s) \/ m > Len(s) \/ m = Len(s)
      BY <3>3
    <3> QED BY <3>1, <3>2, <3>4, Zenon
  <2>3. ASSUME NEW k \in 1 .. m PROVE b[k] = s[k]
    <3>1. k \in 1 .. MaxPieces /\ k <= Len(s)
      BY <1>0, <1>2, <2>2
    <3> QED BY <1>6, <3>1
  <2> QED BY <1>3, <1>4, <2>1, <2>2, <2>3
<1> QED BY <1>5, <1>6
-----------------------------------------------------------------------------
(* 2. The inductive invariant *)

EntryAt(i) == slot[i].kind = "entry"

FileAt(i) == slot[i].of

PiecesOf(i) == Len(Long[FileAt(i)])

\* On the image the pieces of a name are where its file's entry was created: all of
\* them before it, the last one first.
RunsWhole ==
  \A i \in 1 .. Slots : EntryAt(i) =>
    /\ PiecesOf(i) < i
    /\ \A k \in 1 .. PiecesOf(i) : slot[i - k] = Piece(FileAt(i), k)

\* A file has one entry.
OneEntry ==
  \A i, j \in 1 .. Slots : EntryAt(i) /\ EntryAt(j) /\ FileAt(i) = FileAt(j) => i = j

\* After an end mark there is nothing.
EndsLast ==
  \A i, j \in 1 .. Slots : slot[i].kind = "end" /\ i <= j => slot[j].kind = "end"

\* What the loop knows of the name it may be reading: nothing, unless the last slot
\* was a piece; and in front of an entry with a long name, all of that name's pieces
\* it has passed, and no others.
Assembling ==
  /\ pos = 1 \/ slot[pos - 1].kind # "piece" => ~ has_lfn
  /\ \A i \in 1 .. Slots :
       EntryAt(i) /\ i - PiecesOf(i) < pos /\ pos <= i =>
         /\ has_lfn
         /\ \A k \in 1 .. MaxPieces :
              lfn_buffer[k] = IF i - pos < k /\ k <= PiecesOf(i) THEN Long[FileAt(i)][k] ELSE Nul

\* What a listing has made of the slots it has passed: a child for each entry, and no
\* other.
Gathered ==
  /\ \A c \in Range(children) : \E i \in 1 .. pos - 1 : EntryAt(i) /\ FileAt(i) = c[1]
  /\ \A i \in 1 .. pos - 1 : EntryAt(i) => \E c \in Range(children) : c[1] = FileAt(i)
  /\ NamesTrusted => \A c \in Range(children) : c[2] = NameOf(c[1])

\* What a lookup has passed is not what it looks for.
PassedBy ==
  NamesTrusted =>
    \A i \in 1 .. pos - 1 : EntryAt(i) => Lower[NameOf(FileAt(i))] # Lower[wanted]

Disk == RunsWhole /\ OneEntry /\ EndsLast

Loop ==
  /\ InCall => Assembling /\ \A i \in 1 .. pos - 1 : slot[i].kind # "end"
  /\ op = "list" => Gathered
  /\ op = "find" => PassedBy

IInv == TypeOK /\ Disk /\ Loop
\* The fields of the slots there are.
LEMMA SlotFields ==
  ASSUME TypeOK, NEW i \in 1 .. Slots
  PROVE  /\ slot[i] \in SlotSet
         /\ slot[i].kind \in {"end", "free", "dots", "entry", "piece"}
         /\ EntryAt(i) => /\ FileAt(i) \in Files /\ slot[i] = Entry(FileAt(i))
                          /\ PiecesOf(i) \in 0 .. MaxPieces
         /\ slot[i].kind = "piece" => /\ FileAt(i) \in Files
                                      /\ slot[i].order \in 1 .. PiecesOf(i)
                                      /\ PiecesOf(i) \in 0 .. MaxPieces
                                      /\ slot[i].last = (slot[i].order = PiecesOf(i))
<1>1. slot[i] \in SlotSet
  BY DEF TypeOK
<1> QED BY <1>1, SlotHolds, LongIsSeq DEF EntryAt, FileAt, PiecesOf

LEMMA InitIInv == Init => IInv
<1> SUFFICES ASSUME Init PROVE IInv
  OBVIOUS
<1>1. slot \in [1 .. Slots -> SlotSet] /\ \A i \in 1 .. Slots : slot[i] \in {End, Dots}
  BY SlotsThereAre DEF Init
<1>2. \A i \in 1 .. Slots : slot[i].kind \in {"end", "dots"}
  BY <1>1, KindsTell
<1>3. lfn_buffer \in [1 .. MaxPieces -> Texts \cup {Nul}]
  BY DEF Init, Cleared
<1>4. TypeOK
  <2>1. children \in Seq(Files \X DOMAIN Lower)
    BY EmptySeq DEF Init
  <2>2. answer \in [ok : BOOLEAN, cut : BOOLEAN, list : SUBSET (Files \X DOMAIN Lower)]
    BY DEF Init, NoAnswer
  <2>3. pos \in 1 .. Slots + 1
    BY SlotAssumption DEF Init
  <2> QED BY <1>1, <1>3, <2>1, <2>2, <2>3 DEF Init, TypeOK
<1>5. EndsLast
  <2>1. CASE slot = [i \in 1 .. Slots |-> End]
    BY <2>1, KindsTell DEF EndsLast
  <2>2. CASE slot = [i \in 1 .. Slots |-> IF i = 1 THEN Dots ELSE End]
    <3>1. ASSUME NEW i \in 1 .. Slots, NEW j \in 1 .. Slots, slot[i].kind = "end", i <= j
          PROVE  slot[j].kind = "end"
      <4>1. i # 1
        BY <2>2, <3>1, KindsTell
      <4> QED BY <2>2, <3>1, <4>1, KindsTell
    <3> QED BY <3>1 DEF EndsLast
  <2> QED BY <2>1, <2>2 DEF Init
<1>6. \A i \in 1 .. Slots : ~ EntryAt(i)
  BY <1>2 DEF EntryAt
<1> QED BY <1>4, <1>5, <1>6 DEF IInv, Disk, RunsWhole, OneEntry, Loop, Init, InCall

\* Writes between calls keep the order on the image.
LEMMA CreateKeeps ==
  ASSUME TypeOK, Disk, NEW f \in Files, NEW i \in 1 .. Slots, Create(f, i)
  PROVE  slot' \in [1 .. Slots -> SlotSet] /\ Disk'
<1> DEFINE n == Len(Long[f])
           e == i + n
<1>1. /\ n \in Nat /\ Slots \in Nat /\ e <= Slots /\ e \in 1 .. Slots
      /\ ~ Holds(f)
      /\ \A j \in i .. e : slot[j].kind \in {"free", "end"}
      /\ \A j \in 1 .. i - 1 : slot[j].kind # "end"
  <2>1. n \in Nat
    BY LongIsSeq
  <2> QED BY <2>1, SlotAssumption DEF Create, Room
<1> DEFINE new(j) == IF j \in i .. e - 1 THEN Piece(f, n - (j - i))
                     ELSE IF j = e THEN Entry(f) ELSE slot[j]
<1>2. slot' = [j \in 1 .. Slots |-> new(j)]
  <2>1. slot' = [j \in 1 .. Slots |-> CASE j \in i .. i + n - 1 -> Piece(f, n - (j - i))
                                        [] j = i + n            -> Entry(f)
                                        [] OTHER                -> slot[j]]
    BY DEF Create, Written
  <2>2. ASSUME NEW j \in 1 .. Slots
        PROVE  (CASE j \in i .. i + n - 1 -> Piece(f, n - (j - i))
                  [] j = i + n            -> Entry(f)
                  [] OTHER                -> slot[j]) = new(j)
    BY <1>1
  <2> QED BY <2>1, <2>2
<1> HIDE DEF e
<1>3. ASSUME NEW j \in 1 .. Slots
      PROVE  /\ j < i \/ j > e => slot'[j] = slot[j]
             /\ i <= j /\ j < e => /\ slot'[j] = Piece(f, e - j) /\ e - j \in 1 .. n
                                   /\ slot'[j].kind = "piece"
             /\ j = e => slot'[j] = Entry(f) /\ slot'[j].kind = "entry" /\ slot'[j].of = f
             /\ slot'[j] \in SlotSet
  <2>1. CASE j < i \/ j > e
    <3>1. j \notin i .. e - 1 /\ j # e
      BY <1>1, <2>1 DEF e
    <3> QED BY <1>1, <1>2, <2>1, <3>1 DEF TypeOK, e
  <2>2. CASE i <= j /\ j < e
    <3>1. n - (j - i) = e - j /\ e - j \in 1 .. n /\ j \in i .. e - 1 /\ j # e
      BY <1>1, <2>2 DEF e
    <3>2. slot'[j] = Piece(f, e - j)
      BY <1>2, <3>1
    <3> QED BY <1>1, <2>2, <3>1, <3>2, KindsTell, SlotsThereAre
  <2>3. CASE j = e
    <3>1. slot'[j] = Entry(f)
      BY <1>1, <1>2, <2>3 DEF e
    <3> QED BY <1>1, <2>3, <3>1, KindsTell, SlotsThereAre DEF e
  <2> QED BY <1>1, <2>1, <2>2, <2>3
<1>4. i <= e
  BY <1>1 DEF e
<1> HIDE DEF new
<1>5. slot' \in [1 .. Slots -> SlotSet]
  BY <1>2, <1>3
<1>6. ASSUME NEW j \in 1 .. Slots, EntryAt(j)' PROVE j = e \/ (EntryAt(j) /\ (j < i \/ j > e))
  BY <1>1, <1>3, <1>4, <1>6 DEF EntryAt
<1>7. ASSUME NEW j \in 1 .. Slots, EntryAt(j) PROVE FileAt(j) # f /\ FileAt(j) \in Files
  <2>1. slot[j] = Entry(FileAt(j)) /\ FileAt(j) \in Files
    BY <1>7, SlotFields
  <2> QED BY <1>1, <1>7, <2>1 DEF Holds
<1>8. RunsWhole'
  <2> SUFFICES ASSUME NEW j \in 1 .. Slots, EntryAt(j)'
               PROVE  /\ (PiecesOf(j) < j)'
                      /\ \A k \in 1 .. PiecesOf(j)' : slot'[j - k] = Piece(FileAt(j)', k)
    BY DEF RunsWhole
  <2>1. CASE j = e
    <3>1. FileAt(j)' = f /\ PiecesOf(j)' = n
      BY <1>1, <1>3, <2>1 DEF FileAt, PiecesOf
    <3>2. n < j
      BY <1>1, <2>1 DEF e
    <3>3. ASSUME NEW k \in 1 .. n PROVE slot'[j - k] = Piece(f, k)
      <4>1. j - k \in 1 .. Slots /\ i <= j - k /\ j - k < e /\ e - (j - k) = k
        BY <1>1, <2>1 DEF e
      <4> QED BY <1>3, <4>1
    <3> QED BY <3>1, <3>2, <3>3
  <2>2. CASE j # e
    <3>1. EntryAt(j) /\ (j < i \/ j > e)
      BY <1>6, <2>2
    <3>2. slot'[j] = slot[j]
      BY <1>3, <3>1
    <3>3. FileAt(j)' = FileAt(j) /\ PiecesOf(j)' = PiecesOf(j)
      BY <3>2 DEF FileAt, PiecesOf
    <3>4. PiecesOf(j) < j /\ PiecesOf(j) \in 0 .. MaxPieces
          /\ \A k \in 1 .. PiecesOf(j) : slot[j - k] = Piece(FileAt(j), k)
      BY <3>1, SlotFields DEF Disk, RunsWhole
    <3>5. ASSUME NEW k \in 1 .. PiecesOf(j) PROVE slot'[j - k] = slot[j - k]
      <4>1. j - k \in 1 .. Slots /\ k \in Nat
        BY <3>4, NameAssumption, SlotAssumption
      <4>2. slot[j - k].kind = "piece"
        <5>1. FileAt(j) \in Files /\ slot[j - k] = Piece(FileAt(j), k) /\ k \in 1 .. Len(Long[FileAt(j)])
          BY <3>1, <3>4, SlotFields DEF PiecesOf
        <5> QED BY <5>1, KindsTell
      <4>3. j - k \notin i .. e
        BY <1>1, <4>2
      <4>4. j - k < i \/ j - k > e
        BY <1>1, <4>1, <4>3
      <4> QED BY <1>3, <4>1, <4>4
    <3> QED BY <3>3, <3>4, <3>5
  <2> QED BY <2>1, <2>2
<1>9. OneEntry'
  <2> SUFFICES ASSUME NEW j \in 1 .. Slots, NEW k \in 1 .. Slots, EntryAt(j)', EntryAt(k)',
                      FileAt(j)' = FileAt(k)'
               PROVE  j = k
    BY DEF OneEntry
  <2>1. j # e => EntryAt(j) /\ FileAt(j)' = FileAt(j)
    BY <1>3, <1>6 DEF FileAt
  <2>2. k # e => EntryAt(k) /\ FileAt(k)' = FileAt(k)
    BY <1>3, <1>6 DEF FileAt
  <2>3. (j = e => FileAt(j)' = f) /\ (k = e => FileAt(k)' = f)
    BY <1>3 DEF FileAt
  <2> QED BY <1>7, <2>1, <2>2, <2>3 DEF Disk, OneEntry
<1>10. EndsLast'
  <2> SUFFICES ASSUME NEW j \in 1 .. Slots, NEW k \in 1 .. Slots, slot'[j].kind = "end", j <= k
               PROVE  slot'[k].kind = "end"
    BY DEF EndsLast
  <2>1. slot[j].kind = "end" /\ j > e
    BY <1>1, <1>3, <1>4
  <2>2. slot[k].kind = "end" /\ k > e
    BY <1>1, <2>1 DEF Disk, EndsLast
  <2> QED BY <1>3, <2>2
<1> QED BY <1>5, <1>8, <1>9, <1>10 DEF Disk
\* Freeing an entry, with the pieces before it or without.
LEMMA FreeingKeeps ==
  ASSUME TypeOK, Disk, NEW f \in Files, NEW i \in 1 .. Slots, slot[i] = Entry(f),
         NEW a \in {i - Len(Long[f]), i},
         slot' = [j \in 1 .. Slots |-> IF j \in a .. i THEN Free ELSE slot[j]]
  PROVE  slot' \in [1 .. Slots -> SlotSet] /\ Disk'
<1> DEFINE n == Len(Long[f])
<1>1. /\ n \in Nat /\ Slots \in Nat /\ a \in Int /\ a <= i /\ i - n <= a
      /\ EntryAt(i) /\ FileAt(i) = f /\ PiecesOf(i) = n
  <2>1. n \in Nat
    BY LongIsSeq
  <2> QED BY <2>1, SlotAssumption, KindsTell DEF EntryAt, FileAt, PiecesOf
<1>2. ASSUME NEW j \in 1 .. Slots
      PROVE  /\ j < a \/ j > i => slot'[j] = slot[j]
             /\ a <= j /\ j <= i => slot'[j].kind = "free" /\ slot'[j] \in SlotSet
             /\ slot'[j] \in SlotSet
  BY <1>1, KindsTell, SlotsThereAre DEF TypeOK
<1>3. slot' \in [1 .. Slots -> SlotSet]
  BY <1>2
<1>4. \A k \in 1 .. n : slot[i - k] = Piece(f, k) /\ slot[i - k].kind = "piece" /\ slot[i - k].of = f
  <2>1. \A k \in 1 .. n : slot[i - k] = Piece(f, k)
    BY <1>1 DEF Disk, RunsWhole
  <2> QED BY <2>1, KindsTell
<1>5. n < i
  BY <1>1 DEF Disk, RunsWhole
<1>6. ASSUME NEW j \in a .. i PROVE j \in 1 .. Slots /\ slot[j].of = f /\ slot[j].kind \in {"entry", "piece"}
  <2>1. CASE j = i
    BY <1>1, <2>1 DEF EntryAt, FileAt
  <2>2. CASE j # i
    <3>1. i - j \in 1 .. n /\ i - (i - j) = j
      BY <1>1, <1>6, <2>2
    <3>2. slot[j].kind = "piece" /\ slot[j].of = f
      BY <1>4, <3>1
    <3> QED BY <1>1, <1>5, <3>1, <3>2
  <2> QED BY <2>1, <2>2
<1>7. ASSUME NEW j \in 1 .. Slots, EntryAt(j)'
      PROVE  EntryAt(j) /\ (j < a \/ j > i) /\ slot'[j] = slot[j]
             /\ FileAt(j)' = FileAt(j) /\ PiecesOf(j)' = PiecesOf(j)
  <2>1. ~ (a <= j /\ j <= i)
    BY <1>2, <1>7 DEF EntryAt
  <2>2. slot'[j] = slot[j]
    BY <1>1, <1>2, <2>1
  <2> QED BY <1>1, <1>7, <2>1, <2>2 DEF EntryAt, FileAt, PiecesOf
<1>8. RunsWhole'
  <2> SUFFICES ASSUME NEW j \in 1 .. Slots, EntryAt(j)'
               PROVE  /\ (PiecesOf(j) < j)'
                      /\ \A k \in 1 .. PiecesOf(j)' : slot'[j - k] = Piece(FileAt(j)', k)
    BY DEF RunsWhole
  <2>1. EntryAt(j) /\ FileAt(j)' = FileAt(j) /\ PiecesOf(j)' = PiecesOf(j) /\ j # i
    BY <1>1, <1>7
  <2>2. /\ PiecesOf(j) < j /\ PiecesOf(j) \in 0 .. MaxPieces
        /\ \A k \in 1 .. PiecesOf(j) : slot[j - k] = Piece(FileAt(j), k)
    BY <2>1, SlotFields DEF Disk, RunsWhole
  <2>3. FileAt(j) # f /\ FileAt(j) \in Files
    BY <1>1, <2>1, SlotFields DEF Disk, OneEntry
  <2>4. ASSUME NEW k \in 1 .. PiecesOf(j) PROVE slot'[j - k] = slot[j - k]
    <3>1. j - k \in 1 .. Slots
      BY <2>2, NameAssumption, SlotAssumption
    <3>2. slot[j - k].of = FileAt(j)
      BY <2>2, <2>3, KindsTell DEF PiecesOf
    <3>3. j - k \notin a .. i
      BY <1>6, <2>3, <3>2
    <3> QED BY <1>1, <1>2, <3>1, <3>3
  <2> QED BY <2>1, <2>2, <2>4
<1>9. OneEntry'
  BY <1>7 DEF Disk, OneEntry
<1>10. EndsLast'
  <2> SUFFICES ASSUME NEW j \in 1 .. Slots, NEW k \in 1 .. Slots, slot'[j].kind = "end", j <= k
               PROVE  slot'[k].kind = "end"
    BY DEF EndsLast
  <2>1. slot[j].kind = "end"
    BY <1>1, <1>2
  <2>2. slot[k].kind = "end"
    BY <2>1 DEF Disk, EndsLast
  <2>3. k \notin a .. i
    BY <1>6, <2>2
  <2> QED BY <1>1, <1>2, <2>2, <2>3
<1> QED BY <1>3, <1>8, <1>9, <1>10 DEF Disk

\* A write leaves the locals of the loop and the children alone.
LEMMA WriterKeeps == IInv /\ Writer => IInv'
<1> SUFFICES ASSUME IInv, NEW f \in Files, NEW i \in 1 .. Slots,
                    Create(f, i) \/ Delete(f, i) \/ DeleteEntry(f, i)
             PROVE  IInv'
  BY DEF Writer
<1>1. TypeOK /\ Disk
  BY DEF IInv
<1>2. slot' \in [1 .. Slots -> SlotSet] /\ Disk'
  <2>1. CASE Create(f, i)
    BY <1>1, <2>1, CreateKeeps
  <2>2. CASE Delete(f, i)
    BY <1>1, <2>2, FreeingKeeps DEF Delete, Written
  <2>3. CASE DeleteEntry(f, i)
    <3>1. slot' = [j \in 1 .. Slots |-> IF j \in i .. i THEN Free ELSE slot[j]]
      <4>1. slot' = [slot EXCEPT ![i] = Free] /\ slot \in [1 .. Slots -> SlotSet]
        BY <1>1, <2>3 DEF DeleteEntry, Written, TypeOK
      <4>2. \A j \in 1 .. Slots : j \in i .. i <=> j = i
        OBVIOUS
      <4> QED BY <4>1, <4>2
    <3> QED BY <1>1, <2>3, <3>1, FreeingKeeps DEF DeleteEntry
  <2> QED BY <2>1, <2>2, <2>3
<1>3. /\ op = "idle" /\ op' = op /\ UNCHANGED <<wanted, pos, has_lfn, lfn_buffer, children>>
      /\ fresh' = FALSE /\ answer' = NoAnswer
  BY DEF Create, Delete, DeleteEntry, Written, scan
<1>4. TypeOK'
  <2>1. NoAnswer \in [ok : BOOLEAN, cut : BOOLEAN, list : SUBSET (Files \X DOMAIN Lower)]
    BY DEF NoAnswer
  <2> QED BY <1>1, <1>2, <1>3, <2>1 DEF TypeOK
<1> QED BY <1>2, <1>3, <1>4 DEF IInv, Loop, InCall

\* The node made of the entry at pos is a file of the directory with a name it could
\* have, and has its right name unless a name in the directory is in doubt.
LEMMA NodeTyped ==
  ASSUME TypeOK, pos \in 1 .. Slots, EntryAt(pos)
  PROVE  Node \in Files \X DOMAIN Lower /\ Node[1] = FileAt(pos)
<1>1. FileAt(pos) \in Files
  BY SlotFields
<1>2. Assembled(lfn_buffer) \in DOMAIN Lower
  BY ReadsBuffer DEF TypeOK, Buffers
<1>3. <<Alias[FileAt(pos)]>> \in DOMAIN Lower
  <2>1. Alias[FileAt(pos)] \in Texts
    BY <1>1, LongIsSeq
  <2>2. <<Alias[FileAt(pos)]>> \in [1 .. 1 -> Texts]
    BY <2>1
  <2>3. [1 .. 1 -> Texts] \subseteq DOMAIN Lower
    <3>1. 1 \in 0 .. MaxPieces
      BY NameAssumption
    <3> QED BY <3>1, NameAssumption
  <2> QED BY <2>2, <2>3
<1> QED BY <1>1, <1>2, <1>3 DEF Node, FileAt

LEMMA NodeNamed ==
  ASSUME TypeOK, Disk, Assembling, NamesTrusted, pos \in 1 .. Slots, EntryAt(pos)
  PROVE  Node = <<FileAt(pos), NameOf(FileAt(pos))>>
<1> DEFINE f == FileAt(pos)
           n == PiecesOf(pos)
<1>1. f \in Files /\ n = Len(Long[f]) /\ n \in 0 .. MaxPieces
  BY SlotFields DEF PiecesOf
<1>2. CASE n = 0
  <2>1. Long[f] = <<>>
    BY <1>1, <1>2, LongIsSeq, EmptySeq
  <2>2. CASE pos = 1
    BY <2>1, <2>2 DEF Assembling, Node, NameOf, FileAt
  <2>3. CASE pos # 1
    <3>1. pos - 1 \in 1 .. Slots /\ pos \in 2 .. Slots
      BY <2>3, SlotAssumption
    <3>2. slot[pos - 1].kind # "piece"
      <4>1. SUFFICES ASSUME slot[pos - 1].kind = "piece" PROVE FALSE
        OBVIOUS
      <4>2. slot[pos - 1].of = f
        BY <3>1, <4>1 DEF NamesTrusted, EntryAt, FileAt
      <4>3. slot[pos - 1].order \in 1 .. Len(Long[f])
        BY <3>1, <4>1, <4>2, SlotFields DEF FileAt, PiecesOf
      <4> QED BY <1>1, <1>2, <4>3
    <3>3. has_lfn = FALSE
      BY <3>2 DEF Assembling, TypeOK
    <3> QED BY <2>1, <3>3 DEF Node, NameOf, FileAt
  <2> QED BY <2>2, <2>3
<1>3. CASE n # 0
  <2>1. pos - n < pos /\ pos <= pos
    BY <1>1, <1>3, SlotAssumption
  <2>2. /\ has_lfn
        /\ \A k \in 1 .. MaxPieces :
             lfn_buffer[k] = IF pos - pos < k /\ k <= n THEN Long[f][k] ELSE Nul
    BY <2>1 DEF Assembling
  <2>3. \A k \in 1 .. MaxPieces : lfn_buffer[k] = IF k <= Len(Long[f]) THEN Long[f][k] ELSE Nul
    BY <1>1, <2>2, SlotAssumption
  <2>4. Assembled(lfn_buffer) = Long[f]
    <3>1. lfn_buffer \in Buffers /\ Long[f] \in Seq(Texts) /\ Len(Long[f]) <= MaxPieces
      BY <1>1, LongIsSeq, NameAssumption DEF TypeOK, Buffers
    <3> QED BY <2>3, <3>1, ReadsBuffer
  <2>5. Long[f] # <<>>
    BY <1>1, <1>3, EmptySeq
  <2> QED BY <2>2, <2>4, <2>5 DEF Node, NameOf, FileAt
<1> QED BY <1>2, <1>3
\* The slot that the loop is at.
LEMMA SlotAtPos ==
  ASSUME TypeOK, NEW kind, At(kind)
  PROVE  /\ InCall /\ op \in {"list", "find"} /\ pos \in 1 .. Slots /\ slot[pos].kind = kind
         /\ slot \in [1 .. Slots -> SlotSet] /\ Slots \in Nat
BY SlotAssumption DEF At, InCall, TypeOK

\* A step that goes on to the next slot, of the loop's locals alone.
LEMMA PassedTyped ==
  ASSUME TypeOK, pos \in 1 .. Slots, Passed, has_lfn' \in BOOLEAN,
         lfn_buffer' \in [1 .. MaxPieces -> Texts \cup {Nul}]
  PROVE  TypeOK'
<1>1. pos' \in 1 .. Slots + 1
  BY SlotAssumption DEF Passed
<1> QED BY <1>1 DEF TypeOK, Passed

LEMMA ReturnTyped ==
  ASSUME TypeOK, NEW ok \in BOOLEAN, NEW cut \in BOOLEAN,
         NEW list \in SUBSET (Files \X DOMAIN Lower),
         Return(ok, cut, list), UNCHANGED children, fresh' \in BOOLEAN
  PROVE  TypeOK'
<1>1. pos' \in 1 .. Slots + 1
  BY SlotAssumption DEF Return, Restart
<1>2. lfn_buffer' \in [1 .. MaxPieces -> Texts \cup {Nul}]
  BY DEF Return, Restart, Cleared
<1>3. answer' \in [ok : BOOLEAN, cut : BOOLEAN, list : SUBSET (Files \X DOMAIN Lower)]
  BY DEF Return
<1> QED BY <1>1, <1>2, <1>3 DEF TypeOK, Return, Restart

\* What a call can end with, and how.
LEMMA CallEnds ==
  ASSUME TypeOK, Next, op' = "idle", op # "idle"
  PROVE  \E ok, cut \in BOOLEAN, list \in SUBSET (Files \X DOMAIN Lower) :
           /\ Return(ok, cut, list) /\ UNCHANGED children /\ fresh' \in BOOLEAN
           /\ op = "find" => fresh' = fresh
<1> DEFINE F == Files \X DOMAIN Lower
           Ends(ok, cut, list) == /\ Return(ok, cut, list) /\ UNCHANGED children /\ fresh' \in BOOLEAN
                                  /\ op = "find" => fresh' = fresh
<1> SUFFICES \E ok, cut \in BOOLEAN, list \in SUBSET F : Ends(ok, cut, list)
  OBVIOUS
<1>1. Range(children) \subseteq F /\ {} \in SUBSET F /\ fresh \in BOOLEAN
  <2>1. children \in Seq(F)
    BY DEF TypeOK
  <2> HIDE DEF F
  <2>2. Range(children) \subseteq F
    BY <2>1, LenProperties DEF Range
  <2> QED BY <2>2 DEF TypeOK
<1>2. ASSUME NEW cut \in BOOLEAN, ScanEnds(cut) PROVE
        \E ok \in BOOLEAN, list \in SUBSET F : Ends(ok, cut, list)
  <2>1. Ends(TRUE, cut, Range(children)) \/ Ends(FALSE, cut, {})
    BY <1>1, <1>2 DEF ScanEnds
  <2>2. Range(children) \in SUBSET F
    BY <1>1
  <2> HIDE DEF F, Ends
  <2> QED BY <1>1, <2>1, <2>2
<1>3. CASE ChainCut \/ ChainEnds \/ EndSlot
  BY <1>2, <1>3 DEF ChainCut, ChainEnds, EndSlot
<1>4. CASE ScanFails
  <2>1. Range(children) \in SUBSET F
    BY <1>1
  <2>2. (IF op = "list" THEN Range(children) ELSE {}) \in SUBSET F
    BY <1>1, <2>1
  <2>3. Ends(FALSE, TRUE, IF op = "list" THEN Range(children) ELSE {})
    BY <1>1, <1>4 DEF ScanFails
  <2> HIDE DEF F, Ends
  <2> QED BY <2>2, <2>3
<1>5. CASE FindEntry
  <2>1. op = "find" /\ At("entry")
    BY <1>5 DEF FindEntry
  <2>2. Return(TRUE, FALSE, {Node}) /\ UNCHANGED <<children, fresh>>
    BY <1>5, <2>1 DEF FindEntry, Passed
  <2>3. Node \in F
    BY <2>1, SlotAtPos, NodeTyped DEF EntryAt
  <2>4. {Node} \in SUBSET F
    BY <2>3
  <2>5. Ends(TRUE, FALSE, {Node})
    BY <1>1, <2>2
  <2> HIDE DEF F, Ends
  <2> QED BY <2>4, <2>5
<1>6. \/ ChainCut \/ ChainEnds \/ EndSlot
      \/ ScanFails
      \/ FindEntry
  BY DEF Next, Writer, StartList, StartFind, Begin, Scan, NoBuffer, SectorFails, FreeSlot, PieceSlot,
         DotsSlot, ListEntry, ListNoNode, FindNoNode, Passed, Create, Delete, DeleteEntry
<1> QED BY <1>3, <1>4, <1>5, <1>6

\* The name under assembly, one slot on.
LEMMA AssemblingStep ==
  ASSUME TypeOK, Disk, Assembling, pos \in 1 .. Slots, slot' = slot, pos' = pos + 1,
         slot[pos].kind # "end",
         IF slot[pos].kind = "piece"
           THEN LET buffer == IF slot[pos].last THEN Cleared ELSE lfn_buffer
                    k == slot[pos].order
                IN  /\ has_lfn' = (has_lfn \/ slot[pos].last)
                    /\ lfn_buffer' = IF has_lfn' THEN [buffer EXCEPT ![k] = Long[slot[pos].of][k]]
                                     ELSE buffer
           ELSE has_lfn' = FALSE
  PROVE  Assembling'
<1>1. slot[pos].kind # "piece" => has_lfn' = FALSE
  OBVIOUS
<1>2. pos' - 1 = pos /\ pos' # 1
  BY SlotAssumption
<1> SUFFICES ASSUME NEW i \in 1 .. Slots, EntryAt(i), i - PiecesOf(i) < pos + 1, pos + 1 <= i
             PROVE  /\ has_lfn'
                    /\ \A k \in 1 .. MaxPieces :
                         lfn_buffer'[k] = IF i - (pos + 1) < k /\ k <= PiecesOf(i)
                                          THEN Long[FileAt(i)][k] ELSE Nul
  BY <1>1, <1>2 DEF Assembling, EntryAt, FileAt, PiecesOf
<1> DEFINE f == FileAt(i)
           n == PiecesOf(i)
           k0 == i - pos
<1>3. /\ f \in Files /\ n = Len(Long[f]) /\ n \in Nat /\ n <= MaxPieces /\ MaxPieces \in Nat
      /\ k0 \in 1 .. n /\ i - k0 = pos
  <2>1. f \in Files /\ n = Len(Long[f]) /\ n \in 0 .. MaxPieces /\ MaxPieces \in Nat
    BY SlotFields, NameAssumption DEF PiecesOf
  <2> QED BY <2>1, SlotAssumption
<1>4. slot[pos] = Piece(f, k0)
  BY <1>3 DEF Disk, RunsWhole
<1>5. /\ slot[pos].kind = "piece" /\ slot[pos].of = f /\ slot[pos].order = k0
      /\ slot[pos].last = (k0 = n)
  <2>1. /\ Piece(f, k0).kind = "piece" /\ Piece(f, k0).of = f /\ Piece(f, k0).order = k0
        /\ Piece(f, k0).last = (k0 = n)
    <3>1. f \in Files /\ k0 \in 1 .. Len(Long[f]) /\ n = Len(Long[f])
      BY <1>3
    <3> HIDE DEF f, k0, n
    <3> QED BY <3>1, KindsTell
  <2> HIDE DEF f, k0, n
  <2> QED BY <1>4, <2>1, Zenon
<1> DEFINE buffer == IF slot[pos].last THEN Cleared ELSE lfn_buffer
<1>6. /\ has_lfn' = (has_lfn \/ k0 = n)
      /\ lfn_buffer' = IF has_lfn' THEN [buffer EXCEPT ![k0] = Long[f][k0]] ELSE buffer
  BY <1>5
<1>7. /\ has_lfn \/ k0 = n
      /\ \A k \in 1 .. MaxPieces :
           buffer[k] = IF k0 < k /\ k <= n THEN Long[f][k] ELSE Nul
  <2>1. CASE k0 = n
    <3>1. buffer = Cleared
      BY <1>5, <2>1
    <3>2. \A k \in 1 .. MaxPieces : buffer[k] = Nul
      BY <3>1 DEF Cleared
    <3> HIDE DEF buffer, k0, n
    <3> QED BY <1>3, <2>1, <3>2
  <2>2. CASE k0 # n
    <3>1. i - n < pos /\ pos <= i
      BY <1>3, <2>2, SlotAssumption
    <3>2. /\ has_lfn
          /\ \A k \in 1 .. MaxPieces :
               lfn_buffer[k] = IF i - pos < k /\ k <= n THEN Long[f][k] ELSE Nul
      BY <3>1 DEF Assembling
    <3> QED BY <1>5, <2>2, <3>2
  <2> QED BY <2>1, <2>2
<1>8. DOMAIN buffer = 1 .. MaxPieces
  BY DEF Cleared, TypeOK
<1>9. has_lfn'
  BY <1>6, <1>7
<1>10. ASSUME NEW k \in 1 .. MaxPieces
       PROVE  lfn_buffer'[k] = IF i - (pos + 1) < k /\ k <= n THEN Long[f][k] ELSE Nul
  <2> HIDE DEF buffer, n, f
  <2>1. lfn_buffer'[k] = IF k = k0 THEN Long[f][k0] ELSE buffer[k]
    BY <1>6, <1>8, <1>9
  <2>2. CASE k = k0
    BY <1>3, <2>1, <2>2, SlotAssumption
  <2>3. CASE k # k0
    <3>1. i - (pos + 1) < k <=> k0 < k
      BY <1>3, <2>3, SlotAssumption
    <3> QED BY <1>7, <2>1, <2>3, <3>1
  <2> QED BY <2>2, <2>3
<1> QED BY <1>9, <1>10
\* Prefixing a child.
LEMMA ChildAdded ==
  ASSUME NEW S, NEW w \in Seq(S), NEW c \in S
  PROVE  /\ <<c>> \o w \in Seq(S) /\ Len(<<c>> \o w) = Len(w) + 1
         /\ (<<c>> \o w)[1] = c
         /\ \A k \in 1 .. Len(w) : (<<c>> \o w)[k + 1] = w[k]
         /\ Range(<<c>> \o w) = {c} \cup Range(w)
<1> DEFINE v == <<c>> \o w
<1>1. <<c>> \in Seq(S) /\ Len(<<c>>) = 1 /\ <<c>>[1] = c
  OBVIOUS
<1>2. v \in Seq(S) /\ Len(v) = Len(w) + 1
  BY <1>1, ConcatProperties, LenProperties
<1>3. v[1] = c /\ \A k \in 1 .. Len(w) : v[k + 1] = w[k]
  BY <1>1, LenProperties
<1> HIDE DEF v
<1>4. DOMAIN v = 1 .. Len(w) + 1 /\ DOMAIN w = 1 .. Len(w) /\ Len(w) \in Nat
  BY <1>2, LenProperties
<1>5. ASSUME NEW k \in DOMAIN v PROVE v[k] \in {c} \cup Range(w)
  <2>1. CASE k = 1
    BY <1>3, <2>1
  <2>2. CASE k # 1
    <3>1. k - 1 \in 1 .. Len(w) /\ (k - 1) + 1 = k
      BY <1>4, <1>5, <2>2
    <3>2. v[k] = w[k - 1]
      BY <1>3, <3>1
    <3> QED BY <1>4, <3>1, <3>2 DEF Range
  <2> QED BY <2>1, <2>2
<1>6. ASSUME NEW k \in DOMAIN w PROVE w[k] \in Range(v)
  <2>1. k + 1 \in DOMAIN v /\ v[k + 1] = w[k]
    BY <1>3, <1>4, <1>6
  <2> QED BY <2>1 DEF Range
<1>7. c \in Range(v)
  <2>1. 1 \in DOMAIN v
    BY <1>4
  <2> QED BY <1>3, <2>1 DEF Range
<1>8. Range(v) = {c} \cup Range(w)
  BY <1>5, <1>6, <1>7 DEF Range
<1> QED BY <1>2, <1>3, <1>8 DEF v

\* What the passed slots are, one slot on.
LEMMA PassedSlots ==
  ASSUME TypeOK, pos \in 1 .. Slots, slot' = slot, pos' = pos + 1
  PROVE  /\ \A i : i \in 1 .. pos' - 1 <=> i \in 1 .. pos - 1 \/ i = pos
         /\ NamesTrusted' = NamesTrusted
         /\ \A i : EntryAt(i)' = EntryAt(i) /\ FileAt(i)' = FileAt(i)
<1>1. \A i : i \in 1 .. pos' - 1 <=> i \in 1 .. pos - 1 \/ i = pos
  BY SlotAssumption
<1>2. NamesTrusted' = NamesTrusted
  BY DEF NamesTrusted
<1> QED BY <1>1, <1>2 DEF EntryAt, FileAt

LEMMA StartKeeps ==
  ASSUME IInv, StartList \/ \E n \in Wanted : StartFind(n)
  PROVE  IInv'
<1>1. /\ TypeOK /\ Disk /\ slot' = slot /\ Restart /\ answer' = NoAnswer
      /\ \/ op' = "list" /\ wanted' = <<>> /\ children' = <<>> /\ fresh' = FALSE
         \/ op' = "find" /\ wanted' \in Wanted /\ UNCHANGED <<children, fresh>>
  BY DEF IInv, StartList, StartFind, Begin
<1>2. TypeOK'
  <2>1. NoAnswer \in [ok : BOOLEAN, cut : BOOLEAN, list : SUBSET (Files \X DOMAIN Lower)]
    BY DEF NoAnswer
  <2>2. children' \in Seq(Files \X DOMAIN Lower)
    BY <1>1, EmptySeq DEF TypeOK
  <2>3. pos' \in 1 .. Slots + 1
    BY <1>1, SlotAssumption DEF Restart
  <2>4. lfn_buffer' \in [1 .. MaxPieces -> Texts \cup {Nul}]
    BY <1>1 DEF Restart, Cleared
  <2> QED BY <1>1, <2>1, <2>2, <2>3, <2>4 DEF TypeOK, Restart
<1>3. Disk'
  BY <1>1 DEF Disk, RunsWhole, OneEntry, EndsLast, EntryAt, FileAt, PiecesOf
<1>4. pos' = 1 /\ has_lfn' = FALSE
  BY <1>1 DEF Restart
<1>5. Assembling'
  <2>1. ASSUME NEW i \in 1 .. Slots, EntryAt(i)', (i - PiecesOf(i) < pos)' PROVE FALSE
    <3>1. EntryAt(i) /\ PiecesOf(i)' = PiecesOf(i) /\ i - PiecesOf(i) < 1
      BY <1>1, <1>4, <2>1 DEF EntryAt, FileAt, PiecesOf
    <3>2. PiecesOf(i) \in 0 .. MaxPieces /\ PiecesOf(i) < i
      BY <1>1, <3>1, SlotFields DEF Disk, RunsWhole
    <3> QED BY <3>1, <3>2, NameAssumption
  <2> QED BY <1>4, <2>1 DEF Assembling
<1>6. 1 .. pos' - 1 = {}
  BY <1>4
<1>7. op' = "list" => Gathered'
  <2>1. op' = "list" => Range(children') = {}
    BY <1>1 DEF Range
  <2> QED BY <1>6, <2>1 DEF Gathered
<1>8. PassedBy'
  BY <1>6 DEF PassedBy
<1> QED BY <1>2, <1>3, <1>5, <1>6, <1>7, <1>8 DEF IInv, Loop

LEMMA PassKeeps ==
  ASSUME IInv, FreeSlot \/ PieceSlot \/ DotsSlot
  PROVE  IInv'
<1>1. /\ TypeOK /\ Disk /\ InCall /\ pos \in 1 .. Slots /\ Assembling
      /\ slot[pos].kind \in {"free", "piece", "dots"}
      /\ Passed
  <2>1. At("free") \/ At("piece") \/ At("dots")
    BY DEF FreeSlot, PieceSlot, DotsSlot
  <2> QED BY <2>1, SlotAtPos DEF IInv, Loop, FreeSlot, PieceSlot, DotsSlot
<1>2. /\ slot' = slot /\ op' = op /\ wanted' = wanted /\ children' = children
      /\ pos' = pos + 1
  BY <1>1 DEF Passed
<1>3. IF slot[pos].kind = "piece"
        THEN LET buffer == IF slot[pos].last THEN Cleared ELSE lfn_buffer
                 k == slot[pos].order
             IN  /\ has_lfn' = (has_lfn \/ slot[pos].last)
                 /\ lfn_buffer' = IF has_lfn' THEN [buffer EXCEPT ![k] = Long[slot[pos].of][k]]
                                  ELSE buffer
        ELSE has_lfn' = FALSE /\ lfn_buffer' = lfn_buffer
  BY DEF FreeSlot, PieceSlot, DotsSlot, At
<1>4. Assembling'
  BY <1>1, <1>2, <1>3, AssemblingStep
<1>5. has_lfn' \in BOOLEAN /\ lfn_buffer' \in [1 .. MaxPieces -> Texts \cup {Nul}]
  <2>1. CASE slot[pos].kind # "piece"
    BY <1>1, <1>3, <2>1 DEF TypeOK
  <2>2. CASE slot[pos].kind = "piece"
    <3> DEFINE buffer == IF slot[pos].last THEN Cleared ELSE lfn_buffer
               k == slot[pos].order
    <3>1. FileAt(pos) \in Files /\ k \in 1 .. Len(Long[FileAt(pos)])
          /\ (slot[pos].last \in BOOLEAN)
      BY <1>1, <2>2, SlotFields DEF PiecesOf
    <3>2. Long[slot[pos].of][k] \in Texts
      BY <3>1, LongIsSeq DEF FileAt
    <3>3. buffer \in [1 .. MaxPieces -> Texts \cup {Nul}]
      BY <1>1 DEF Cleared, TypeOK
    <3>4. /\ has_lfn' = (has_lfn \/ slot[pos].last)
          /\ lfn_buffer' = IF has_lfn' THEN [buffer EXCEPT ![k] = Long[slot[pos].of][k]] ELSE buffer
      BY <1>3, <2>2
    <3> HIDE DEF buffer, k
    <3> QED BY <1>1, <3>1, <3>2, <3>3, <3>4 DEF TypeOK
  <2> QED BY <2>1, <2>2
<1>6. TypeOK'
  BY <1>1, <1>5, PassedTyped
<1>7. Disk'
  BY <1>1, <1>2 DEF Disk, RunsWhole, OneEntry, EndsLast, EntryAt, FileAt, PiecesOf
<1>8. /\ \A i : i \in 1 .. pos' - 1 <=> i \in 1 .. pos - 1 \/ i = pos
      /\ NamesTrusted' = NamesTrusted
      /\ \A i : EntryAt(i)' = EntryAt(i) /\ FileAt(i)' = FileAt(i)
  BY <1>1, <1>2, PassedSlots
<1>9. ~ EntryAt(pos)
  BY <1>1 DEF EntryAt
<1>10. (\A i \in 1 .. pos - 1 : slot[i].kind # "end")'
  BY <1>1, <1>2, <1>8 DEF IInv, Loop
<1>11. op' = "list" => Gathered'
  BY <1>2, <1>8, <1>9 DEF IInv, Loop, Gathered
<1>12. op' = "find" => PassedBy'
  BY <1>2, <1>8, <1>9 DEF IInv, Loop, PassedBy
<1> QED BY <1>4, <1>6, <1>7, <1>10, <1>11, <1>12 DEF IInv, Loop

LEMMA ListKeeps ==
  ASSUME IInv, ListEntry
  PROVE  IInv'
<1> DEFINE F == Files \X DOMAIN Lower
<1>1. /\ TypeOK /\ Disk /\ InCall /\ pos \in 1 .. Slots /\ Assembling /\ EntryAt(pos)
      /\ op = "list" /\ op' = op /\ wanted' = wanted /\ slot' = slot
      /\ pos' = pos + 1 /\ has_lfn' = FALSE /\ lfn_buffer' = lfn_buffer
      /\ children' = <<Node>> \o children /\ answer' = answer /\ fresh' = fresh
  BY SlotAtPos DEF IInv, Loop, ListEntry, EntryAt
<1>2. Node \in F /\ Node[1] = FileAt(pos)
  BY <1>1, NodeTyped
<1>3. children \in Seq(F)
  BY <1>1 DEF TypeOK
<1>4. children' \in Seq(F) /\ Range(children') = {Node} \cup Range(children)
  <2> HIDE DEF F
  <2> QED BY <1>1, <1>2, <1>3, ChildAdded
<1>5. TypeOK'
  <2>1. pos' \in 1 .. Slots + 1
    BY <1>1, SlotAssumption
  <2> QED BY <1>1, <1>4, <2>1 DEF TypeOK
<1>6. slot[pos].kind = "entry"
  BY <1>1 DEF EntryAt
<1>7. Assembling'
  BY <1>1, <1>6, AssemblingStep
<1>8. Disk'
  BY <1>1 DEF Disk, RunsWhole, OneEntry, EndsLast, EntryAt, FileAt, PiecesOf
<1>9. /\ \A i : i \in 1 .. pos' - 1 <=> i \in 1 .. pos - 1 \/ i = pos
      /\ NamesTrusted' = NamesTrusted
      /\ \A i : EntryAt(i)' = EntryAt(i) /\ FileAt(i)' = FileAt(i)
  BY <1>1, PassedSlots
<1>10. (\A i \in 1 .. pos - 1 : slot[i].kind # "end")'
  BY <1>1, <1>6, <1>9 DEF IInv, Loop
<1>11. Gathered'
  <2>1. Gathered
    BY <1>1 DEF IInv, Loop
  <2>2. (\A c \in Range(children) : \E i \in 1 .. pos - 1 : EntryAt(i) /\ FileAt(i) = c[1])'
    BY <1>1, <1>2, <1>4, <1>9, <2>1 DEF Gathered
  <2>3. (\A i \in 1 .. pos - 1 : EntryAt(i) => \E c \in Range(children) : c[1] = FileAt(i))'
    BY <1>2, <1>4, <1>9, <2>1 DEF Gathered
  <2>4. NamesTrusted => Node[2] = NameOf(Node[1])
    BY <1>1, NodeNamed
  <2>5. (NamesTrusted => \A c \in Range(children) : c[2] = NameOf(c[1]))'
    BY <1>4, <1>9, <2>1, <2>4 DEF Gathered
  <2> QED BY <2>2, <2>3, <2>5 DEF Gathered
<1> QED BY <1>1, <1>5, <1>7, <1>8, <1>10, <1>11 DEF IInv, Loop

LEMMA FindKeeps ==
  ASSUME IInv, FindEntry, ~ Matches, Passed, has_lfn' = FALSE, UNCHANGED lfn_buffer
  PROVE  IInv'
<1>1. /\ TypeOK /\ Disk /\ InCall /\ pos \in 1 .. Slots /\ Assembling /\ EntryAt(pos)
      /\ op = "find" /\ op' = op /\ wanted' = wanted /\ slot' = slot /\ pos' = pos + 1
  BY SlotAtPos DEF IInv, Loop, FindEntry, EntryAt, Passed
<1>2. TypeOK'
  BY <1>1, PassedTyped DEF TypeOK
<1>3. slot[pos].kind = "entry"
  BY <1>1 DEF EntryAt
<1>4. Assembling'
  BY <1>1, <1>3, AssemblingStep
<1>5. Disk'
  BY <1>1 DEF Disk, RunsWhole, OneEntry, EndsLast, EntryAt, FileAt, PiecesOf
<1>6. /\ \A i : i \in 1 .. pos' - 1 <=> i \in 1 .. pos - 1 \/ i = pos
      /\ NamesTrusted' = NamesTrusted
      /\ \A i : EntryAt(i)' = EntryAt(i) /\ FileAt(i)' = FileAt(i)
  BY <1>1, PassedSlots
<1>7. (\A i \in 1 .. pos - 1 : slot[i].kind # "end")'
  BY <1>1, <1>3, <1>6 DEF IInv, Loop
<1>8. PassedBy'
  <2>1. NamesTrusted => Node[2] = NameOf(FileAt(pos))
    BY <1>1, NodeNamed
  <2>2. NamesTrusted => Lower[NameOf(FileAt(pos))] # Lower[wanted]
    BY <2>1 DEF Matches
  <2> QED BY <1>1, <1>6, <2>2 DEF IInv, Loop, PassedBy
<1> QED BY <1>1, <1>2, <1>4, <1>5, <1>7, <1>8 DEF IInv, Loop

LEMMA EndKeeps ==
  ASSUME IInv, Next, op # "idle", op' = "idle"
  PROVE  IInv'
<1>1. PICK ok \in BOOLEAN, cut \in BOOLEAN, list \in SUBSET (Files \X DOMAIN Lower) :
        Return(ok, cut, list) /\ UNCHANGED children /\ fresh' \in BOOLEAN
  BY CallEnds DEF IInv
<1>2. TypeOK'
  BY <1>1, ReturnTyped DEF IInv
<1>3. slot' = slot
  BY <1>1 DEF Return
<1>4. Disk'
  BY <1>3 DEF IInv, Disk, RunsWhole, OneEntry, EndsLast, EntryAt, FileAt, PiecesOf
<1> QED BY <1>2, <1>4 DEF IInv, Loop, InCall

\* The invariant holds initially, and every step keeps it.
LEMMA StepKeeps == IInv /\ [Next]_vars => IInv'
<1> SUFFICES ASSUME IInv, [Next]_vars PROVE IInv'
  OBVIOUS
<1>1. CASE Writer
  BY <1>1, WriterKeeps
<1>2. CASE StartList \/ \E n \in Wanted : StartFind(n)
  BY <1>2, StartKeeps
<1>3. CASE Scan
  <2>1. CASE op' = "idle"
    BY <1>3, <2>1, EndKeeps DEF Next, Scan, NoBuffer, SectorFails, ChainCut, ChainEnds, EndSlot,
          ScanEnds, ScanFails, FreeSlot, PieceSlot, DotsSlot, ListEntry, FindEntry, ListNoNode,
          FindNoNode, At, InCall
  <2>2. CASE FreeSlot \/ PieceSlot \/ DotsSlot
    BY <2>2, PassKeeps
  <2>3. CASE ListEntry
    BY <2>3, ListKeeps
  <2>4. CASE FindEntry /\ op' # "idle"
    BY <2>4, FindKeeps DEF FindEntry, Return
  <2>5. CASE FindNoNode
    <3>1. /\ op' = "undefined"
          /\ UNCHANGED <<slot, wanted, pos, has_lfn, lfn_buffer, children, answer, fresh>>
      BY <2>5 DEF FindNoNode, scan
    <3>2. TypeOK'
      BY <3>1 DEF IInv, TypeOK
    <3>3. Disk'
      BY <3>1 DEF IInv, Disk, RunsWhole, OneEntry, EndsLast, EntryAt, FileAt, PiecesOf
    <3> QED BY <3>1, <3>2, <3>3 DEF IInv, Loop, InCall
  <2> QED BY <1>3, <2>1, <2>2, <2>3, <2>4, <2>5 DEF Scan, NoBuffer, SectorFails, ChainCut,
             ChainEnds, EndSlot, ScanEnds, ScanFails, ListNoNode, Return
<1>4. CASE UNCHANGED vars
  <2>1. UNCHANGED <<slot, op, wanted, pos, has_lfn, lfn_buffer, children, answer, fresh>>
    BY <1>4 DEF vars, scan
  <2>2. TypeOK'
    BY <2>1 DEF IInv, TypeOK
  <2>3. Disk'
    BY <2>1 DEF IInv, Disk, RunsWhole, OneEntry, EndsLast, EntryAt, FileAt, PiecesOf
  <2>4. Assembling' = Assembling
    BY <2>1 DEF Assembling, EntryAt, FileAt, PiecesOf
  <2>5. (Gathered' = Gathered) /\ (PassedBy' = PassedBy)
    BY <2>1 DEF Gathered, PassedBy, EntryAt, FileAt, NamesTrusted
  <2> QED BY <2>1, <2>2, <2>3, <2>4, <2>5 DEF IInv, Loop, InCall
<1> QED BY <1>1, <1>2, <1>3, <1>4 DEF Next

LEMMA Invariance == Spec => []IInv
BY InitIInv, StepKeeps, PTL DEF Spec

\* Types, for any files and names, any number of slots and any faults: the loops stay
\* within the directory and the buffer.
THEOREM TypeCorrect == Spec => []TypeOK
<1>1. IInv => TypeOK
  BY DEF IInv
<1> QED BY <1>1, Invariance, PTL
-----------------------------------------------------------------------------
(* 3. The scans implement Directory *)

\* The names, and what is there to be listed.
LEMMA NamesAreNames == \A f \in Files : NameOf(f) \in DOMAIN Lower
<1> SUFFICES ASSUME NEW f \in Files PROVE NameOf(f) \in DOMAIN Lower
  OBVIOUS
<1>1. Long[f] \in [1 .. Len(Long[f]) -> Texts] /\ Len(Long[f]) \in 0 .. MaxPieces
  BY LongIsSeq, LenProperties
<1>2. <<Alias[f]>> \in [1 .. 1 -> Texts] /\ 1 \in 0 .. MaxPieces
  BY LongIsSeq, NameAssumption
<1>3. \A n \in 0 .. MaxPieces : [1 .. n -> Texts] \subseteq DOMAIN Lower
  BY NameAssumption
<1> QED BY <1>1, <1>2, <1>3 DEF NameOf

DirFiles == {f \in Files : Holds(f)}

LEMMA FilesOfEntries ==
  ASSUME TypeOK
  PROVE  DirFiles = {f \in Files : \E i \in 1 .. Slots : EntryAt(i) /\ FileAt(i) = f}
<1>1. ASSUME NEW f \in Files, NEW i \in 1 .. Slots
      PROVE  slot[i] = Entry(f) <=> EntryAt(i) /\ FileAt(i) = f
  <2>1. Entry(f).kind = "entry" /\ Entry(f).of = f
    BY KindsTell
  <2>2. EntryAt(i) => slot[i] = Entry(FileAt(i))
    BY SlotFields
  <2> QED BY <2>1, <2>2 DEF EntryAt, FileAt
<1> QED BY <1>1 DEF DirFiles, Holds

DirAsked == CASE op = "idle" -> <<>>
              [] op = "list" -> <<"list">>
              [] OTHER -> <<"find", wanted>>

DirName == [f \in Files |-> NameOf(f)]

\* The loop has come to the end mark, or to the end of the directory.
LEMMA WholeScanned ==
  ASSUME TypeOK, Disk, InCall,
         pos = Slots + 1 \/ (pos \in 1 .. Slots /\ slot[pos].kind = "end")
  PROVE  \A i \in 1 .. Slots : EntryAt(i) => i \in 1 .. pos - 1
<1> SUFFICES ASSUME NEW i \in 1 .. Slots, EntryAt(i), i \notin 1 .. pos - 1 PROVE FALSE
  OBVIOUS
<1>1. Slots \in Nat
  BY SlotAssumption
<1>2. pos \in 1 .. Slots /\ slot[pos].kind = "end" /\ pos <= i
  BY <1>1
<1>3. slot[i].kind = "end"
  BY <1>2 DEF Disk, EndsLast
<1> QED BY <1>3 DEF EntryAt

\* The children that a listing has gathered, as Directory speaks of them.
LEMMA ListedRight ==
  ASSUME TypeOK, Gathered
  PROVE  LET some == {e[1] : e \in Range(children)} IN
           /\ some \subseteq DirFiles
           /\ (\A i \in 1 .. Slots : EntryAt(i) => i \in 1 .. pos - 1) => some = DirFiles
           /\ NamesTrusted => Range(children) = {<<f, DirName[f]>> : f \in some}
<1> DEFINE F == Files \X DOMAIN Lower
           some == {e[1] : e \in Range(children)}
<1>1. Range(children) \subseteq F
  <2>1. children \in Seq(F)
    BY DEF TypeOK
  <2> HIDE DEF F
  <2> QED BY <2>1, LenProperties DEF Range
<1>2. \A e \in Range(children) : e[1] \in Files /\ e = <<e[1], e[2]>>
  BY <1>1
<1>3. some \subseteq DirFiles
  <2>1. \A i \in 1 .. pos - 1 : i \in 1 .. Slots
    BY SlotAssumption DEF TypeOK
  <2> QED BY <1>2, <2>1, FilesOfEntries DEF Gathered
<1>4. ASSUME \A i \in 1 .. Slots : EntryAt(i) => i \in 1 .. pos - 1
      PROVE  DirFiles \subseteq some
  <2>1. SUFFICES ASSUME NEW f \in DirFiles PROVE f \in some
    OBVIOUS
  <2>2. PICK i \in 1 .. Slots : EntryAt(i) /\ FileAt(i) = f
    BY FilesOfEntries
  <2>3. i \in 1 .. pos - 1
    BY <1>4, <2>2
  <2> QED BY <2>2, <2>3 DEF Gathered
<1>5. ASSUME NamesTrusted PROVE Range(children) = {<<f, DirName[f]>> : f \in some}
  <2>1. \A e \in Range(children) : e = <<e[1], DirName[e[1]]>>
    BY <1>2, <1>5 DEF Gathered, DirName
  <2> HIDE DEF F
  <2> QED BY <2>1
<1> QED BY <1>3, <1>4, <1>5

\* What Directory's actions say, with the variables of the scan.
LEMMA ListReturns ==
  ASSUME IInv, op = "list", NEW ok \in BOOLEAN, NEW cut \in BOOLEAN,
         Return(ok, cut, Range(children)),
         IF cut THEN (ok => "fat" \in Faults) /\ Faults # {}
         ELSE ok /\ \A i \in 1 .. Slots : EntryAt(i) => i \in 1 .. pos - 1
  PROVE  D!Listing
<1> DEFINE some == {e[1] : e \in Range(children)}
<1>1. /\ TypeOK /\ Gathered /\ slot' = slot
      /\ op' = "idle" /\ answer' = [ok |-> ok, cut |-> cut, list |-> Range(children)]
  BY DEF IInv, Loop, Return
<1>2. DirFiles' = DirFiles /\ DirName' = DirName /\ NamesTrusted' = NamesTrusted
  BY <1>1 DEF DirFiles, Holds, DirName, NamesTrusted
<1>3. DirAsked = <<"list">> /\ DirAsked' = <<>>
  BY <1>1 DEF DirAsked
<1>4. answer' \in [ok : BOOLEAN, cut : BOOLEAN, list : SUBSET (Files \X DOMAIN Lower)]
  <2> DEFINE F == Files \X DOMAIN Lower
  <2>1. children \in Seq(F)
    BY <1>1 DEF TypeOK
  <2>2. Range(children) \in SUBSET F
    <3> HIDE DEF F
    <3> QED BY <2>1, LenProperties DEF Range
  <2> QED BY <1>1, <2>2
<1>5. /\ IF cut THEN some \subseteq DirFiles ELSE some = DirFiles
      /\ NamesTrusted => Range(children) = {<<f, DirName[f]>> : f \in some}
  BY <1>1, ListedRight
<1> QED BY <1>1, <1>2, <1>3, <1>4, <1>5
        DEF D!Listing, D!Answers, D!Cut, DirFiles, DirAsked, DirName

\* A return of a lookup.
LEMMA FindReturns ==
  ASSUME IInv, op = "find", NEW cut \in BOOLEAN, NEW list \in SUBSET (Files \X DOMAIN Lower),
         Return(list # {}, cut, list), cut => Faults # {},
         \/ /\ list = {}
            /\ cut \/ \A i \in 1 .. Slots : EntryAt(i) => i \in 1 .. pos - 1
         \/ list = {Node} /\ pos \in 1 .. Slots /\ EntryAt(pos) /\ Matches
  PROVE  D!Finding
<1>1. /\ TypeOK /\ Disk /\ PassedBy /\ Assembling /\ slot' = slot
      /\ op' = "idle" /\ answer' = [ok |-> list # {}, cut |-> cut, list |-> list]
  BY DEF IInv, Loop, Return, InCall
<1>2. DirFiles' = DirFiles /\ DirName' = DirName /\ NamesTrusted' = NamesTrusted
  BY <1>1 DEF DirFiles, Holds, DirName, NamesTrusted
<1>3. DirAsked = <<"find", wanted>> /\ DirAsked' = <<>>
  BY <1>1 DEF DirAsked
<1>4. Len(DirAsked) = 2 /\ DirAsked[2] = wanted
  BY <1>3
<1>5. answer' \in [ok : BOOLEAN, cut : BOOLEAN, list : SUBSET (Files \X DOMAIN Lower)]
  BY <1>1
<1>6. \A d, e \in list : d = e
  OBVIOUS
<1>7. \A e \in list : e[1] \in DirFiles /\ Lower[e[2]] = Lower[wanted]
  <2>1. CASE list = {Node} /\ pos \in 1 .. Slots /\ EntryAt(pos) /\ Matches
    <3>1. Node[1] = FileAt(pos) /\ Node[1] \in Files
      BY <1>1, <2>1, NodeTyped
    <3>2. Node[1] \in DirFiles
      BY <1>1, <2>1, <3>1, FilesOfEntries
    <3> QED BY <2>1, <3>2 DEF Matches
  <2> QED BY <2>1
<1>8. NamesTrusted => \A e \in list : e[2] = DirName[e[1]]
  <2>1. CASE list = {Node} /\ pos \in 1 .. Slots /\ EntryAt(pos)
    <3>1. NamesTrusted => Node = <<FileAt(pos), NameOf(FileAt(pos))>>
      BY <1>1, <2>1, NodeNamed
    <3>2. FileAt(pos) \in Files
      BY <1>1, <2>1, SlotFields
    <3> QED BY <2>1, <3>1, <3>2 DEF DirName
  <2> QED BY <2>1
<1>9. NamesTrusted /\ list = {} /\ ~ cut => \A f \in DirFiles : Lower[DirName[f]] # Lower[wanted]
  <2> SUFFICES ASSUME NamesTrusted, list = {}, ~ cut, NEW f \in DirFiles
               PROVE  Lower[DirName[f]] # Lower[wanted]
    OBVIOUS
  <2>1. PICK i \in 1 .. Slots : EntryAt(i) /\ FileAt(i) = f
    BY <1>1, FilesOfEntries
  <2>2. i \in 1 .. pos - 1 /\ f \in Files
    BY <2>1 DEF DirFiles
  <2> QED BY <1>1, <2>1, <2>2 DEF PassedBy, DirName
<1> QED BY <1>1, <1>2, <1>3, <1>4, <1>5, <1>6, <1>7, <1>8, <1>9
        DEF D!Finding, D!Answers, D!Cut, D!Same, DirFiles, DirAsked, DirName

\* What the loop takes for the end.
LEMMA EndReturns ==
  ASSUME IInv, InCall, NEW cut \in BOOLEAN, ScanEnds(cut),
         IF cut THEN "fat" \in Faults
         ELSE \A i \in 1 .. Slots : EntryAt(i) => i \in 1 .. pos - 1
  PROVE  D!Next
<1>1. CASE op = "list"
  <2>1. Return(TRUE, cut, Range(children))
    BY <1>1 DEF ScanEnds
  <2> QED BY <1>1, <2>1, ListReturns DEF D!Next
<1>2. CASE op = "find"
  <2>1. Return(FALSE, cut, {})
    BY <1>2 DEF ScanEnds
  <2>2. Return({} # {}, cut, {})
    BY <2>1
  <2> QED BY <1>2, <2>2, FindReturns DEF D!Next
<1> QED BY <1>1, <1>2 DEF InCall

LEMMA FailReturns ==
  ASSUME IInv, ScanFails, Faults # {}
  PROVE  D!Next
<1>1. CASE op = "list"
  <2>1. Return(FALSE, TRUE, Range(children))
    BY <1>1 DEF ScanFails
  <2> QED BY <1>1, <2>1, ListReturns DEF D!Next
<1>2. CASE op = "find"
  <2>1. Return(FALSE, TRUE, {})
    BY <1>2 DEF ScanFails
  <2>2. Return({} # {}, TRUE, {})
    BY <2>1
  <2> QED BY <1>2, <2>2, FindReturns DEF D!Next
<1> QED BY <1>1, <1>2 DEF ScanFails, InCall

\* A step within a call changes nothing that Directory speaks of.
LEMMA PassStutters ==
  ASSUME slot' = slot, answer' = answer, DirAsked' = DirAsked
  PROVE  UNCHANGED D!vars
<1>1. DirFiles' = DirFiles /\ DirName' = DirName /\ NamesTrusted' = NamesTrusted
  BY DEF DirFiles, Holds, DirName, NamesTrusted
<1> QED BY <1>1 DEF D!vars, DirFiles, DirAsked, DirName

\* For any files and names, any number of slots, sectors and clusters, any history of
\* writes, also by systems that know no long names, and any faults: the two loops
\* implement Directory.  A listing has exactly the directory's files by their right
\* names, a lookup finds the file of the name it is given, and an answer cut short by
\* a fault says so but where the table failed.
THEOREM ScansImplementDirectory == Spec => ScansDirectory
<1>1. Init => D!Init
  <2> SUFFICES ASSUME Init PROVE D!Init
    OBVIOUS
  <2>1. \A i \in 1 .. Slots : slot[i].kind \in {"end", "dots"}
    <3>1. \A i \in 1 .. Slots : slot[i] \in {End, Dots}
      BY DEF Init
    <3> QED BY <3>1, KindsTell
  <2>2. DirFiles = {}
    BY <2>1, KindsTell DEF DirFiles, Holds
  <2>3. DirName \in [Files -> DOMAIN Lower]
    BY NamesAreNames DEF DirName
  <2>4. NamesTrusted = TRUE
    BY <2>1 DEF NamesTrusted
  <2>5. DirAsked = <<>> /\ answer = D!NoAnswer
    BY DEF Init, DirAsked, NoAnswer, D!NoAnswer
  <2> QED BY <2>2, <2>3, <2>4, <2>5 DEF D!Init, DirFiles, DirAsked, DirName
<1>2. IInv /\ [Next]_vars => [D!Next]_(D!vars)
  <2> SUFFICES ASSUME IInv, [Next]_vars PROVE D!Next \/ UNCHANGED D!vars
    OBVIOUS
  <2>1. CASE Writer
    <3>1. op = "idle" /\ op' = "idle" /\ answer' = NoAnswer
      BY <2>1 DEF Writer, Create, Delete, DeleteEntry, Written
    <3>2. DirFiles' \in SUBSET Files /\ DirName' = DirName /\ NamesTrusted' \in BOOLEAN
      BY DEF DirFiles, DirName, NamesTrusted
    <3>3. DirAsked = <<>> /\ DirAsked' = <<>>
      BY <3>1 DEF DirAsked
    <3> QED BY <3>1, <3>2, <3>3
            DEF D!Next, D!Write, D!NoAnswer, NoAnswer, DirFiles, DirAsked, DirName
  <2>2. CASE StartList \/ \E n \in Wanted : StartFind(n)
    <3>1. slot' = slot /\ op = "idle" /\ answer' = NoAnswer
      BY <2>2 DEF StartList, StartFind, Begin
    <3>2. DirFiles' = DirFiles /\ DirName' = DirName /\ NamesTrusted' = NamesTrusted
      BY <3>1 DEF DirFiles, Holds, DirName, NamesTrusted
    <3>3. DirAsked = <<>>
      BY <3>1 DEF DirAsked
    <3>4. DirAsked' \in {<<"list">>} \cup {<<"find", n>> : n \in DOMAIN Lower}
      <4>1. CASE StartList
        BY <4>1 DEF StartList, Begin, DirAsked
      <4>2. ASSUME NEW n \in Wanted, StartFind(n) PROVE DirAsked' = <<"find", n>> /\ n \in DOMAIN Lower
        BY <4>2, NameAssumption DEF StartFind, Begin, DirAsked
      <4> QED BY <2>2, <4>1, <4>2
    <3> QED BY <3>1, <3>2, <3>3, <3>4
            DEF D!Next, D!Ask, D!NoAnswer, NoAnswer, DirFiles, DirAsked, DirName
  <2>3. CASE NoBuffer \/ SectorFails \/ ListNoNode
    <3>1. ScanFails /\ Faults # {}
      BY <2>3 DEF NoBuffer, SectorFails, ListNoNode
    <3> QED BY <3>1, FailReturns
  <2>4. CASE ChainCut
    <3>1. ScanEnds(TRUE) /\ "fat" \in Faults /\ InCall
      BY <2>4 DEF ChainCut, ScanEnds, InCall
    <3> QED BY <3>1, EndReturns
  <2>5. CASE ChainEnds \/ EndSlot
    <3>1. ScanEnds(FALSE) /\ InCall
      BY <2>5 DEF ChainEnds, EndSlot, ScanEnds, InCall
    <3>2. pos = Slots + 1 \/ (pos \in 1 .. Slots /\ slot[pos].kind = "end")
      BY <2>5, SlotAtPos DEF ChainEnds, EndSlot, IInv
    <3>3. \A i \in 1 .. Slots : EntryAt(i) => i \in 1 .. pos - 1
      BY <3>1, <3>2, WholeScanned DEF IInv
    <3> QED BY <3>1, <3>3, EndReturns
  <2>6. CASE FreeSlot \/ PieceSlot \/ DotsSlot
    <3>1. slot' = slot /\ answer' = answer /\ op' = op /\ wanted' = wanted
      BY <2>6 DEF FreeSlot, PieceSlot, DotsSlot, Passed
    <3> QED BY <3>1, PassStutters DEF DirAsked
  <2>7. CASE ListEntry
    <3>1. slot' = slot /\ answer' = answer /\ op' = op /\ wanted' = wanted
      BY <2>7 DEF ListEntry
    <3> QED BY <3>1, PassStutters DEF DirAsked
  <2>8. CASE FindEntry
    <3>1. op = "find" /\ pos \in 1 .. Slots /\ EntryAt(pos)
      BY <2>8, SlotAtPos DEF FindEntry, EntryAt, IInv
    <3>2. CASE Matches /\ Return(TRUE, FALSE, {Node})
      <4>1. {Node} \in SUBSET (Files \X DOMAIN Lower) /\ {Node} # {}
        BY <3>1, NodeTyped DEF IInv
      <4>2. Return({Node} # {}, FALSE, {Node})
        BY <3>2, <4>1
      <4> QED BY <3>1, <3>2, <4>1, <4>2, FindReturns DEF D!Next
    <3>3. CASE Passed
      <4>1. slot' = slot /\ answer' = answer /\ op' = op /\ wanted' = wanted
        BY <3>3 DEF Passed
      <4> QED BY <4>1, PassStutters DEF DirAsked
    <3> QED BY <2>8, <3>2, <3>3 DEF FindEntry
  <2>9. CASE FindNoNode
    <3>1. slot' = slot /\ answer' = answer /\ op = "find" /\ op' = "undefined" /\ wanted' = wanted
      BY <2>9 DEF FindNoNode
    <3> QED BY <3>1, PassStutters DEF DirAsked
  <2>10. CASE UNCHANGED vars
    <3>1. slot' = slot /\ answer' = answer /\ op' = op /\ wanted' = wanted
      BY <2>10 DEF vars
    <3> QED BY <3>1, PassStutters DEF DirAsked
  <2> QED BY <2>1, <2>2, <2>3, <2>4, <2>5, <2>6, <2>7, <2>8, <2>9, <2>10 DEF Next, Scan
<1> QED BY <1>1, <1>2, Invariance, PTL DEF Spec, ScansDirectory, D!Spec
-----------------------------------------------------------------------------
(* 4. The two loops read alike *)

\* What the loop makes of an entry with its locals, and its locals after a slot.
NodeAt(i, has, buffer) ==
  <<FileAt(i), IF has THEN Assembled(buffer) ELSE <<Alias[FileAt(i)]>> >>

HasAfter(i, has) == slot[i].kind = "piece" /\ (has \/ slot[i].last)

BufferAfter(i, has, buffer) ==
  LET clean == IF slot[i].last THEN Cleared ELSE buffer
      k == slot[i].order
  IN  IF slot[i].kind = "piece"
      THEN IF has \/ slot[i].last THEN [clean EXCEPT ![k] = Long[FileAt(i)][k]] ELSE clean
      ELSE buffer

\* A reading of the slots before m: at each slot the locals of the loop, and how many
\* entries it has come by.  The children are its nodes, in the order of the slots.
States == [has : BOOLEAN, buffer : Buffers, count : Nat]

Reads(t, m) ==
  /\ t \in [1 .. Slots + 1 -> States]
  /\ m \in 1 .. Slots + 1
  /\ t[1] = [has |-> FALSE, buffer |-> Cleared, count |-> 0]
  /\ t[m].count = Len(children)
  /\ \A i \in 1 .. m - 1 :
       /\ slot[i].kind # "end"
       /\ t[i + 1].has = HasAfter(i, t[i].has)
       /\ t[i + 1].buffer = BufferAfter(i, t[i].has, t[i].buffer)
       /\ t[i + 1].count = IF EntryAt(i) THEN t[i].count + 1 ELSE t[i].count
       /\ EntryAt(i) =>
            /\ t[i].count < Len(children)
            /\ children[Len(children) - t[i].count] = NodeAt(i, t[i].has, t[i].buffer)

\* A whole reading.
WholeReads(t, m) == Reads(t, m) /\ (m = Slots + 1 \/ slot[m].kind = "end")

MatchesAt(k) == Lower[children[k][2]] = Lower[wanted]

\* The loop is where the reading t says, and has not met what it looks for.
Follows(t, m) ==
  /\ pos <= m
  /\ t[pos].has = has_lfn /\ t[pos].buffer = lfn_buffer
  /\ t[pos].count <= Len(children)
  /\ \A k \in 1 .. Len(children) : k > Len(children) - t[pos].count => ~ MatchesAt(k)

\* The children of a listing in progress are a reading up to the slot it is at; those
\* of a listing that ended well, of all slots, which a lookup then reads over again.
ReadAlike ==
  /\ op = "list" => \E t : /\ Reads(t, pos)
                           /\ t[pos].has = has_lfn /\ t[pos].buffer = lfn_buffer
  /\ fresh => \E t, m : WholeReads(t, m) /\ (op = "find" => Follows(t, m))
  /\ op = "list" => ~ fresh

\* The locals of the loop after a slot it goes on from.
LEMMA LocalsStep ==
  ASSUME TypeOK,
         \/ FreeSlot \/ PieceSlot \/ DotsSlot \/ ListEntry
         \/ FindEntry /\ Passed /\ has_lfn' = FALSE /\ UNCHANGED lfn_buffer
  PROVE  /\ InCall /\ pos \in 1 .. Slots /\ slot' = slot /\ op' = op /\ wanted' = wanted
         /\ pos' = pos + 1 /\ fresh' = fresh /\ slot[pos].kind # "end"
         /\ has_lfn' = HasAfter(pos, has_lfn)
         /\ lfn_buffer' = BufferAfter(pos, has_lfn, lfn_buffer)
         /\ op = "find" => children' = children
         /\ op = "list" => children' = IF EntryAt(pos) THEN <<Node>> \o children ELSE children
<1>1. CASE FreeSlot \/ DotsSlot
  <2>1. /\ InCall /\ pos \in 1 .. Slots /\ slot[pos].kind \in {"free", "dots"}
        /\ Passed /\ has_lfn' = FALSE /\ lfn_buffer' = lfn_buffer
    BY <1>1, SlotAtPos DEF FreeSlot, DotsSlot
  <2> QED BY <2>1 DEF Passed, HasAfter, BufferAfter, EntryAt
<1>2. CASE PieceSlot
  <2>1. /\ InCall /\ pos \in 1 .. Slots /\ slot[pos].kind = "piece" /\ Passed
        /\ has_lfn \in BOOLEAN
    BY <1>2, SlotAtPos DEF PieceSlot, TypeOK
  <2>2. slot[pos].last \in BOOLEAN
    BY <2>1, SlotFields
  <2>3. /\ has_lfn' = (has_lfn \/ slot[pos].last)
        /\ LET buffer == IF slot[pos].last THEN Cleared ELSE lfn_buffer
               k == slot[pos].order
           IN  lfn_buffer' = IF has_lfn' THEN [buffer EXCEPT ![k] = Long[slot[pos].of][k]]
                             ELSE buffer
    BY <1>2 DEF PieceSlot
  <2>4. has_lfn' = HasAfter(pos, has_lfn)
    BY <2>1, <2>2, <2>3 DEF HasAfter
  <2>5. lfn_buffer' = BufferAfter(pos, has_lfn, lfn_buffer)
    BY <2>1, <2>3 DEF BufferAfter, FileAt
  <2> QED BY <2>1, <2>4, <2>5 DEF Passed, EntryAt
<1>3. CASE ListEntry
  <2>1. /\ InCall /\ pos \in 1 .. Slots /\ slot[pos].kind = "entry"
    BY <1>3, SlotAtPos DEF ListEntry
  <2> QED BY <1>3, <2>1 DEF ListEntry, HasAfter, BufferAfter, EntryAt
<1>4. CASE FindEntry /\ Passed /\ has_lfn' = FALSE /\ UNCHANGED lfn_buffer
  <2>1. /\ InCall /\ pos \in 1 .. Slots /\ slot[pos].kind = "entry" /\ op = "find"
    BY <1>4, SlotAtPos DEF FindEntry
  <2> QED BY <1>4, <2>1 DEF Passed, HasAfter, BufferAfter
<1> QED BY <1>1, <1>2, <1>3, <1>4

LEMMA NodeIsNodeAt == Node = NodeAt(pos, has_lfn, lfn_buffer)
BY DEF Node, NodeAt, FileAt

\* A listing's reading goes on with the listing.
LEMMA ListReadsOn ==
  ASSUME TypeOK, TypeOK', NEW t, Reads(t, pos), t[pos].has = has_lfn, t[pos].buffer = lfn_buffer,
         pos \in 1 .. Slots, slot' = slot, pos' = pos + 1, slot[pos].kind # "end",
         has_lfn' = HasAfter(pos, has_lfn),
         lfn_buffer' = BufferAfter(pos, has_lfn, lfn_buffer),
         children' = IF EntryAt(pos) THEN <<Node>> \o children ELSE children
  PROVE  \E u : /\ Reads(u, pos)'
                /\ u[pos'].has = has_lfn' /\ u[pos'].buffer = lfn_buffer'
<1> DEFINE F == Files \X DOMAIN Lower
<1>1. /\ children \in Seq(F) /\ Len(children) \in Nat /\ Slots \in Nat
      /\ has_lfn' \in BOOLEAN /\ lfn_buffer' \in Buffers
  <2>1. children \in Seq(F)
    BY DEF TypeOK
  <2>2. Len(children) \in Nat
    <3> HIDE DEF F
    <3> QED BY <2>1, LenProperties
  <2> QED BY <2>1, <2>2, SlotAssumption DEF TypeOK, Buffers
<1>2. PICK p \in 1 .. Slots : p = pos
  OBVIOUS
<1>3. PICK r \in States :
        r = [has |-> has_lfn', buffer |-> lfn_buffer',
             count |-> IF EntryAt(pos) THEN Len(children) + 1 ELSE Len(children)]
  <2>1. (IF EntryAt(pos) THEN Len(children) + 1 ELSE Len(children)) \in Nat
    BY <1>1
  <2>2. [has |-> has_lfn', buffer |-> lfn_buffer',
         count |-> IF EntryAt(pos) THEN Len(children) + 1 ELSE Len(children)] \in States
    BY <1>1, <2>1 DEF States
  <2> QED BY <2>2
<1>4. PICK u : u = [t EXCEPT ![p + 1] = r]
  OBVIOUS
<1>5. /\ t \in [1 .. Slots + 1 -> States] /\ p + 1 \in 1 .. Slots + 1
      /\ t[1] = [has |-> FALSE, buffer |-> Cleared, count |-> 0]
      /\ t[p].count = Len(children)
  BY <1>1, <1>2 DEF Reads
<1>6. /\ u \in [1 .. Slots + 1 -> States] /\ u[p + 1] = r
      /\ \A i \in 1 .. p : u[i] = t[i]
  BY <1>1, <1>2, <1>4, <1>5
<1>7. u[1] = [has |-> FALSE, buffer |-> Cleared, count |-> 0]
  BY <1>1, <1>2, <1>5, <1>6
<1>8. /\ Len(children') = IF EntryAt(p) THEN Len(children) + 1 ELSE Len(children)
      /\ EntryAt(p) => children'[1] = Node
      /\ \A i \in 1 .. Len(children) :
           children'[IF EntryAt(p) THEN i + 1 ELSE i] = children[i]
  <2>1. CASE EntryAt(p)
    <3>1. Node \in F
      BY <1>2, <2>1, NodeTyped
    <3> HIDE DEF F
    <3>2. children' = <<Node>> \o children
      BY <1>2, <2>1
    <3>3. /\ Len(<<Node>> \o children) = Len(children) + 1
          /\ (<<Node>> \o children)[1] = Node
          /\ \A k \in 1 .. Len(children) : (<<Node>> \o children)[k + 1] = children[k]
      BY <1>1, <3>1, ChildAdded
    <3> QED BY <2>1, <3>2, <3>3
  <2>2. CASE ~ EntryAt(p)
    BY <1>2, <2>2
  <2> QED BY <2>1, <2>2
<1>9. u[p + 1].count = Len(children')
  BY <1>2, <1>3, <1>6, <1>8
<1>10. \A i : /\ EntryAt(i)' = EntryAt(i)
              /\ \A h, b : /\ NodeAt(i, h, b)' = NodeAt(i, h, b)
                           /\ HasAfter(i, h)' = HasAfter(i, h)
                           /\ BufferAfter(i, h, b)' = BufferAfter(i, h, b)
  BY DEF EntryAt, NodeAt, HasAfter, BufferAfter, FileAt
<1>11. ASSUME NEW i \in 1 .. p
       PROVE  /\ slot'[i].kind # "end"
              /\ u[i + 1].has = HasAfter(i, u[i].has)
              /\ u[i + 1].buffer = BufferAfter(i, u[i].has, u[i].buffer)
              /\ u[i + 1].count = IF EntryAt(i) THEN u[i].count + 1 ELSE u[i].count
              /\ EntryAt(i) =>
                   /\ u[i].count < Len(children')
                   /\ children'[Len(children') - u[i].count] = NodeAt(i, u[i].has, u[i].buffer)
  <2>1. CASE i = p
    <3>1. u[i] = t[pos] /\ u[i + 1] = r /\ u[i].count = Len(children)
      BY <1>2, <1>5, <1>6, <2>1
    <3>2. /\ r.has = HasAfter(pos, has_lfn) /\ r.buffer = BufferAfter(pos, has_lfn, lfn_buffer)
          /\ r.count = IF EntryAt(pos) THEN Len(children) + 1 ELSE Len(children)
      BY <1>3
    <3>3. EntryAt(i) => /\ Len(children) < Len(children')
                        /\ Len(children') - Len(children) = 1
                        /\ children'[1] = NodeAt(i, has_lfn, lfn_buffer)
      BY <1>1, <1>2, <1>8, <2>1, NodeIsNodeAt
    <3> QED BY <1>2, <2>1, <3>1, <3>2, <3>3
  <2>2. CASE i # p
    <3>1. i \in 1 .. pos - 1 /\ i + 1 \in 1 .. p
      BY <1>2, <2>2
    <3>2. u[i] = t[i] /\ u[i + 1] = t[i + 1] /\ t[i].count \in Nat
      BY <1>5, <1>6, <3>1, <1>1 DEF States
    <3>3. /\ slot[i].kind # "end"
          /\ t[i + 1].has = HasAfter(i, t[i].has)
          /\ t[i + 1].buffer = BufferAfter(i, t[i].has, t[i].buffer)
          /\ t[i + 1].count = IF EntryAt(i) THEN t[i].count + 1 ELSE t[i].count
          /\ EntryAt(i) =>
               /\ t[i].count < Len(children)
               /\ children[Len(children) - t[i].count] = NodeAt(i, t[i].has, t[i].buffer)
      BY <3>1 DEF Reads
    <3>4. ASSUME EntryAt(i)
          PROVE  /\ t[i].count < Len(children')
                 /\ children'[Len(children') - t[i].count] = children[Len(children) - t[i].count]
      <4>5. Len(children') \in Nat
        BY <1>1, <1>8
      <4>0. PICK c \in Nat, n \in Nat, n2 \in Nat :
              /\ c = t[i].count /\ n = Len(children) /\ n2 = Len(children')
              /\ c < n
              /\ EntryAt(p) => n2 = n + 1
              /\ ~ EntryAt(p) => n2 = n
        BY <1>1, <1>8, <3>2, <3>3, <3>4, <4>5
      <4> DEFINE k == Len(children) - t[i].count
      <4>1. k \in 1 .. Len(children) /\ t[i].count < Len(children)
        <5>1. n - c \in 1 .. n
          BY <4>0
        <5> QED BY <4>0, <5>1
      <4>2. Len(children') - t[i].count = IF EntryAt(p) THEN k + 1 ELSE k
        <5>1. CASE EntryAt(p)
          <6>1. n2 = n + 1 /\ n \in Nat /\ c \in Nat
            BY <4>0, <5>1, Zenon
          <6>2. n2 - c = (n - c) + 1
            BY <6>1
          <6> QED BY <4>0, <5>1, <6>2
        <5>2. CASE ~ EntryAt(p)
          BY <4>0, <5>2
        <5> QED BY <5>1, <5>2
      <4>3. children'[IF EntryAt(p) THEN k + 1 ELSE k] = children[k]
        <5> HIDE DEF k
        <5> QED BY <1>8, <4>1
      <4>4. t[i].count < Len(children')
        <5>1. c < n2
          BY <4>0
        <5> QED BY <4>0, <5>1
      <4> QED BY <4>2, <4>3, <4>4
    <3> QED BY <3>2, <3>3, <3>4
  <2> QED BY <2>1, <2>2
<1>12. pos' - 1 = p /\ pos' = p + 1 /\ pos' \in 1 .. Slots + 1
  BY <1>2, <1>5
<1>13. Reads(u, pos)'
  <2>1. \A i \in 1 .. p :
          /\ slot'[i].kind # "end"
          /\ u[i + 1].has = HasAfter(i, u[i].has)'
          /\ u[i + 1].buffer = BufferAfter(i, u[i].has, u[i].buffer)'
          /\ u[i + 1].count = IF EntryAt(i)' THEN u[i].count + 1 ELSE u[i].count
          /\ EntryAt(i)' =>
               /\ u[i].count < Len(children')
               /\ children'[Len(children') - u[i].count] = NodeAt(i, u[i].has, u[i].buffer)'
    BY <1>10, <1>11
  <2>2. /\ u \in [1 .. Slots + 1 -> States] /\ pos' \in 1 .. Slots + 1
        /\ u[1] = [has |-> FALSE, buffer |-> Cleared, count |-> 0]
        /\ u[pos'].count = Len(children')
    BY <1>6, <1>7, <1>9, <1>12
  <2>3. 1 .. pos' - 1 = 1 .. p
    BY <1>12
  <2> QED BY <2>1, <2>2, <2>3, Zenon DEF Reads
<1>14. u[pos'].has = has_lfn' /\ u[pos'].buffer = lfn_buffer'
  BY <1>3, <1>6, <1>12
<1> QED BY <1>13, <1>14, Zenon

\* A lookup follows the reading of the listing before it.
LEMMA FindFollows ==
  ASSUME TypeOK, NEW t, NEW m, WholeReads(t, m), Follows(t, m),
         pos \in 1 .. Slots, slot[pos].kind # "end"
  PROVE  /\ pos \in 1 .. m - 1 /\ m \in 1 .. Slots + 1 /\ t[pos].count \in Nat /\ Len(children) \in Nat
         /\ t[pos + 1].has = HasAfter(pos, has_lfn)
         /\ t[pos + 1].buffer = BufferAfter(pos, has_lfn, lfn_buffer)
         /\ t[pos + 1].count = IF EntryAt(pos) THEN t[pos].count + 1 ELSE t[pos].count
         /\ EntryAt(pos) =>
              /\ Len(children) - t[pos].count \in 1 .. Len(children)
              /\ children[Len(children) - t[pos].count] = Node
<1>1. Slots \in Nat /\ Len(children) \in Nat
  <2> DEFINE F == Files \X DOMAIN Lower
  <2>1. children \in Seq(F)
    BY DEF TypeOK
  <2> HIDE DEF F
  <2> QED BY <2>1, LenProperties, SlotAssumption
<1>2. /\ t \in [1 .. Slots + 1 -> States] /\ m \in 1 .. Slots + 1
      /\ m = Slots + 1 \/ slot[m].kind = "end"
  BY DEF WholeReads, Reads
<1>3. pos \in 1 .. m - 1
  BY <1>1, <1>2 DEF Follows
<1>4. t[pos].count \in Nat
  BY <1>1, <1>2 DEF States
<1>5. /\ t[pos + 1].has = HasAfter(pos, t[pos].has)
      /\ t[pos + 1].buffer = BufferAfter(pos, t[pos].has, t[pos].buffer)
      /\ t[pos + 1].count = IF EntryAt(pos) THEN t[pos].count + 1 ELSE t[pos].count
      /\ EntryAt(pos) =>
           /\ t[pos].count < Len(children)
           /\ children[Len(children) - t[pos].count] = NodeAt(pos, t[pos].has, t[pos].buffer)
  BY <1>3 DEF WholeReads, Reads
<1>6. t[pos].has = has_lfn /\ t[pos].buffer = lfn_buffer
  BY DEF Follows
<1>7. EntryAt(pos) => Len(children) - t[pos].count \in 1 .. Len(children)
  BY <1>1, <1>4, <1>5
<1> QED BY <1>1, <1>2, <1>3, <1>4, <1>5, <1>6, <1>7, NodeIsNodeAt

LEMMA ReadingStands ==
  ASSUME slot' = slot, children' = children, NEW t, NEW m, WholeReads(t, m)
  PROVE  WholeReads(t, m)'
<1>1. \A i : /\ EntryAt(i)' = EntryAt(i)
             /\ \A h, b : /\ NodeAt(i, h, b)' = NodeAt(i, h, b)
                          /\ HasAfter(i, h)' = HasAfter(i, h)
                          /\ BufferAfter(i, h, b)' = BufferAfter(i, h, b)
  BY DEF EntryAt, NodeAt, HasAfter, BufferAfter, FileAt
<1> QED BY <1>1 DEF WholeReads, Reads

LEMMA ReadAlikeStep == IInv /\ IInv' /\ ReadAlike /\ [Next]_vars => ReadAlike'
<1> SUFFICES ASSUME IInv, IInv', ReadAlike, [Next]_vars PROVE ReadAlike'
  OBVIOUS
<1>0. TypeOK /\ TypeOK' /\ fresh \in BOOLEAN
  BY DEF IInv, TypeOK
<1>1. CASE Writer
  <2>1. op' = "idle" /\ fresh' = FALSE
    BY <1>1 DEF Writer, Create, Delete, DeleteEntry, Written
  <2> QED BY <2>1 DEF ReadAlike
<1>2. CASE StartList
  <2>1. /\ op' = "list" /\ fresh' = FALSE /\ children' = <<>> /\ pos' = 1
        /\ has_lfn' = FALSE /\ lfn_buffer' = Cleared
    BY <1>2 DEF StartList, Begin, Restart
  <2>2. PICK t : t = [i \in 1 .. Slots + 1 |-> [has |-> FALSE, buffer |-> Cleared, count |-> 0]]
    OBVIOUS
  <2>3. t \in [1 .. Slots + 1 -> States] /\ 1 \in 1 .. Slots + 1
    BY <2>2, SlotAssumption DEF States, Buffers, Cleared
  <2>4. t[1] = [has |-> FALSE, buffer |-> Cleared, count |-> 0]
    BY <2>2, <2>3
  <2>5. Reads(t, pos)'
    BY <2>1, <2>3, <2>4 DEF Reads
  <2>6. t[pos'].has = has_lfn' /\ t[pos'].buffer = lfn_buffer'
    <3>1. t[1].has = FALSE /\ t[1].buffer = Cleared
      BY <2>4
    <3> QED BY <2>1, <3>1, Zenon
  <2> QED BY <2>1, <2>5, <2>6 DEF ReadAlike
<1>3. CASE \E n \in Wanted : StartFind(n)
  <2>1. /\ op' = "find" /\ fresh' = fresh /\ children' = children /\ pos' = 1
        /\ has_lfn' = FALSE /\ lfn_buffer' = Cleared /\ slot' = slot
    BY <1>3 DEF StartFind, Begin, Restart
  <2>2. ASSUME fresh PROVE \E t, m : WholeReads(t, m)' /\ Follows(t, m)'
    <3>1. PICK t, m : WholeReads(t, m)
      BY <2>2 DEF ReadAlike
    <3>2. WholeReads(t, m)'
      BY <2>1, <3>1, ReadingStands
    <3>3. /\ m \in 1 .. Slots + 1
          /\ t[1] = [has |-> FALSE, buffer |-> Cleared, count |-> 0]
      BY <3>1 DEF WholeReads, Reads
    <3>4. Len(children) \in Nat
      <4> DEFINE F == Files \X DOMAIN Lower
      <4>1. children \in Seq(F)
        BY <1>0 DEF TypeOK
      <4> HIDE DEF F
      <4> QED BY <4>1, LenProperties
    <3>5. t[1].has = FALSE /\ t[1].buffer = Cleared /\ t[1].count = 0
      BY <3>3
    <3>6. Follows(t, m)'
      <4>1. pos' <= m /\ t[pos'].count <= Len(children')
        BY <2>1, <3>3, <3>4, <3>5, SlotAssumption
      <4>2. t[pos'].has = has_lfn' /\ t[pos'].buffer = lfn_buffer'
        BY <2>1, <3>5, Zenon
      <4>3. \A k \in 1 .. Len(children') : ~ (k > Len(children') - t[pos'].count)
        BY <2>1, <3>4, <3>5
      <4> QED BY <4>1, <4>2, <4>3, Zenon DEF Follows
    <3> QED BY <3>2, <3>6
  <2> QED BY <2>1, <2>2 DEF ReadAlike
<1>4. CASE \/ FreeSlot \/ PieceSlot \/ DotsSlot \/ ListEntry
           \/ FindEntry /\ op' # "idle"
  <2>1. \/ FreeSlot \/ PieceSlot \/ DotsSlot \/ ListEntry
        \/ FindEntry /\ Passed /\ has_lfn' = FALSE /\ UNCHANGED lfn_buffer
    BY <1>4 DEF FindEntry, Return
  <2>2. /\ InCall /\ pos \in 1 .. Slots /\ slot' = slot /\ op' = op /\ wanted' = wanted
        /\ pos' = pos + 1 /\ fresh' = fresh /\ slot[pos].kind # "end"
        /\ has_lfn' = HasAfter(pos, has_lfn)
        /\ lfn_buffer' = BufferAfter(pos, has_lfn, lfn_buffer)
        /\ op = "find" => children' = children
        /\ op = "list" => children' = IF EntryAt(pos) THEN <<Node>> \o children ELSE children
    BY <1>0, <2>1, LocalsStep
  <2>3. CASE op = "list"
    <3>1. PICK t : Reads(t, pos) /\ t[pos].has = has_lfn /\ t[pos].buffer = lfn_buffer
      BY <2>3 DEF ReadAlike
    <3>2. \E u : Reads(u, pos)' /\ u[pos'].has = has_lfn' /\ u[pos'].buffer = lfn_buffer'
      BY <1>0, <2>2, <2>3, <3>1, ListReadsOn
    <3> QED BY <2>2, <2>3, <3>2 DEF ReadAlike
  <2>4. CASE op = "find"
    <3>1. ASSUME fresh PROVE \E t, m : WholeReads(t, m)' /\ Follows(t, m)'
      <4>1. PICK t, m : WholeReads(t, m) /\ Follows(t, m)
        BY <2>4, <3>1 DEF ReadAlike
      <4>2. WholeReads(t, m)'
        BY <2>2, <2>4, <4>1, ReadingStands
      <4>3. /\ pos \in 1 .. m - 1 /\ m \in 1 .. Slots + 1
            /\ t[pos].count \in Nat /\ Len(children) \in Nat
            /\ t[pos + 1].has = HasAfter(pos, has_lfn)
            /\ t[pos + 1].buffer = BufferAfter(pos, has_lfn, lfn_buffer)
            /\ t[pos + 1].count = IF EntryAt(pos) THEN t[pos].count + 1 ELSE t[pos].count
            /\ EntryAt(pos) =>
                 /\ Len(children) - t[pos].count \in 1 .. Len(children)
                 /\ children[Len(children) - t[pos].count] = Node
        BY <1>0, <2>2, <4>1, FindFollows
      <4>4. EntryAt(pos) => ~ Matches
        <5>1. EntryAt(pos) => FindEntry /\ op' # "idle"
          BY <1>4, <2>2, <2>4 DEF EntryAt, FreeSlot, PieceSlot, DotsSlot, ListEntry, At
        <5> QED BY <5>1 DEF FindEntry, Return
      <4>5. EntryAt(pos) => ~ MatchesAt(Len(children) - t[pos].count)
        BY <4>3, <4>4 DEF Matches, MatchesAt
      <4>6. /\ \A k \in 1 .. Len(children) : k > Len(children) - t[pos].count => ~ MatchesAt(k)
            /\ t[pos].count <= Len(children)
        BY <4>1 DEF Follows
      <4>7. ASSUME NEW k \in 1 .. Len(children), k > Len(children) - t[pos + 1].count
            PROVE  ~ MatchesAt(k)
        BY <4>3, <4>5, <4>6, <4>7
      <4>8. \A k : MatchesAt(k)' = MatchesAt(k)
        BY <2>2, <2>4 DEF MatchesAt
      <4>9. t[pos + 1].count <= Len(children) /\ pos + 1 <= m
        BY <2>2, <4>3, <4>6, SlotAssumption
      <4>10. Follows(t, m)'
        BY <2>2, <2>4, <4>3, <4>7, <4>8, <4>9 DEF Follows
      <4> QED BY <4>2, <4>10
    <3> QED BY <2>2, <2>4, <3>1 DEF ReadAlike
  <2> QED BY <2>2, <2>3, <2>4 DEF InCall
<1>5. CASE FindNoNode
  <2>1. op = "find" /\ op' = "undefined" /\ slot' = slot /\ children' = children /\ fresh' = fresh
    BY <1>5 DEF FindNoNode
  <2>2. \A t, m : WholeReads(t, m) => WholeReads(t, m)'
    BY <2>1, ReadingStands
  <2> QED BY <2>1, <2>2 DEF ReadAlike
<1>6. CASE ScanFails
  <2>1. op' = "idle" /\ slot' = slot /\ children' = children /\ fresh' = fresh
    BY <1>6 DEF ScanFails, Return
  <2>2. \A t, m : WholeReads(t, m) => WholeReads(t, m)'
    BY <2>1, ReadingStands
  <2> QED BY <2>1, <2>2 DEF ReadAlike
<1>7. CASE FindEntry /\ op' = "idle"
  <2>1. op = "find" /\ op' = "idle" /\ slot' = slot /\ children' = children /\ fresh' = fresh
    BY <1>7 DEF FindEntry, Return, Passed
  <2>2. \A t, m : WholeReads(t, m) => WholeReads(t, m)'
    BY <2>1, ReadingStands
  <2> QED BY <2>1, <2>2 DEF ReadAlike
<1>8. ASSUME NEW cut \in BOOLEAN, ScanEnds(cut),
             cut \/ pos = Slots + 1 \/ slot[pos].kind = "end"
      PROVE  ReadAlike'
  <2>1. op' = "idle" /\ slot' = slot /\ children' = children
    BY <1>8 DEF ScanEnds, Return
  <2>2. \A t, m : WholeReads(t, m) => WholeReads(t, m)'
    BY <2>1, ReadingStands
  <2>3. CASE op = "list" /\ ~ cut
    <3>1. PICK t : Reads(t, pos)
      BY <2>3 DEF ReadAlike
    <3>2. PICK m : m = pos
      OBVIOUS
    <3>3. WholeReads(t, m)
      BY <1>8, <2>3, <3>1, <3>2 DEF WholeReads
    <3>4. WholeReads(t, m)'
      BY <2>2, <3>3
    <3> QED BY <2>1, <3>4 DEF ReadAlike
  <2>4. CASE op = "list" /\ cut
    <3>1. fresh' = FALSE
      BY <1>8, <2>4 DEF ScanEnds
    <3> QED BY <2>1, <3>1 DEF ReadAlike
  <2>5. CASE op = "find"
    <3>1. fresh' = fresh
      BY <1>8, <2>5 DEF ScanEnds
    <3> QED BY <2>1, <2>2, <2>5, <3>1 DEF ReadAlike
  <2> QED BY <1>8, <2>3, <2>4, <2>5 DEF ScanEnds
<1>9. CASE ChainCut \/ ChainEnds \/ EndSlot
  BY <1>8, <1>9 DEF ChainCut, ChainEnds, EndSlot, At
<1>10. CASE UNCHANGED vars
  <2>1. UNCHANGED <<slot, op, wanted, pos, has_lfn, lfn_buffer, children, fresh>>
    BY <1>10 DEF vars, scan
  <2>2. \A t, m : WholeReads(t, m) => WholeReads(t, m)'
    BY <2>1, ReadingStands
  <2>3. \A t, m : Follows(t, m)' = Follows(t, m)
    BY <2>1 DEF Follows, MatchesAt
  <2>4. \A t : Reads(t, pos)' = Reads(t, pos)
    BY <2>1 DEF Reads, EntryAt, NodeAt, HasAfter, BufferAfter, FileAt
  <2> QED BY <2>1, <2>2, <2>3, <2>4 DEF ReadAlike
<1> QED BY <1>1, <1>2, <1>3, <1>4, <1>5, <1>6, <1>7, <1>9, <1>10
        DEF Next, Scan, NoBuffer, SectorFails, ListNoNode

\* Whatever the directory holds, pieces without an entry and entries behind another's
\* pieces too, a lookup answers with the entry that comes first of those a whole
\* listing shows by the name looked for, and with none if the listing shows none or a
\* fault cut the lookup short.
THEOREM FindReadsAsList == Spec => FindAgrees
<1>1. Init => IInv /\ ReadAlike
  BY InitIInv DEF Init, ReadAlike
<1>2. IInv /\ ReadAlike /\ [Next]_vars => (IInv /\ ReadAlike)'
  BY StepKeeps, ReadAlikeStep
<1>3. IInv /\ ReadAlike /\ [Next]_vars =>
        [ (op = "find" /\ op' = "idle" /\ fresh) =>
             LET matching == {k \in DOMAIN children : Lower[children[k][2]] = Lower[wanted]}
             IN  IF answer'.list = {} THEN answer'.cut \/ matching = {}
                 ELSE \E k \in matching : /\ \A j \in matching : j <= k
                                         /\ answer'.list = {children[k]} ]_vars
  <2> DEFINE matching == {k \in DOMAIN children : Lower[children[k][2]] = Lower[wanted]}
  <2> SUFFICES ASSUME IInv, ReadAlike, Next, op = "find", op' = "idle", fresh
               PROVE  IF answer'.list = {} THEN answer'.cut \/ matching = {}
                      ELSE \E k \in matching : /\ \A j \in matching : j <= k
                                              /\ answer'.list = {children[k]}
    OBVIOUS
  <2>1. PICK t, m : WholeReads(t, m) /\ Follows(t, m)
    BY DEF ReadAlike
  <2>2. TypeOK /\ DOMAIN children = 1 .. Len(children) /\ Len(children) \in Nat
    <3> DEFINE F == Files \X DOMAIN Lower
    <3>1. children \in Seq(F)
      BY DEF IInv, TypeOK
    <3> HIDE DEF F
    <3> QED BY <3>1, LenProperties DEF IInv
  <2>3. \A k \in 1 .. Len(children) : MatchesAt(k) <=> k \in matching
    BY <2>2 DEF MatchesAt
  <2>4. CASE FindEntry
    <3>1. pos \in 1 .. Slots /\ EntryAt(pos) /\ slot[pos].kind # "end"
      BY <2>2, <2>4, SlotAtPos DEF FindEntry, EntryAt
    <3>2. Matches /\ answer'.list = {Node}
      BY <2>4 DEF FindEntry, Return, Passed
    <3>3. PICK k : k = Len(children) - t[pos].count
      OBVIOUS
    <3>4. k \in 1 .. Len(children) /\ children[k] = Node
      BY <2>1, <2>2, <3>1, <3>3, FindFollows
    <3>5. k \in matching
      BY <2>3, <3>2, <3>4 DEF Matches, MatchesAt
    <3>6. ASSUME NEW j \in matching PROVE j <= k
      <4>1. j \in 1 .. Len(children) /\ MatchesAt(j)
        BY <2>2, <2>3, <3>6
      <4>2. ~ (j > k)
        BY <2>1, <3>3, <4>1 DEF Follows
      <4> QED BY <3>4, <4>1, <4>2
    <3> QED BY <3>2, <3>4, <3>5, <3>6
  <2>5. CASE ScanFails \/ ScanEnds(TRUE)
    <3>1. \E ok \in BOOLEAN : answer' = [ok |-> ok, cut |-> TRUE, list |-> {}]
      BY <2>5 DEF ScanFails, ScanEnds, Return
    <3>2. answer'.list = {} /\ answer'.cut
      BY <3>1
    <3> QED BY <3>2
  <2>6. CASE ChainEnds \/ EndSlot
    <3>1. answer'.list = {}
      <4>1. answer' = [ok |-> FALSE, cut |-> FALSE, list |-> {}]
        BY <2>6 DEF ChainEnds, EndSlot, ScanEnds, Return
      <4> QED BY <4>1
    <3>2. pos = Slots + 1 \/ (pos \in 1 .. Slots /\ slot[pos].kind = "end")
      BY <2>2, <2>6, SlotAtPos DEF ChainEnds, EndSlot
    <3>3. m \in 1 .. Slots + 1 /\ pos <= m /\ t[m].count = Len(children)
          /\ \A i \in 1 .. m - 1 : slot[i].kind # "end"
      BY <2>1 DEF WholeReads, Reads, Follows
    <3>4. pos = m
      BY <3>2, <3>3, SlotAssumption
    <3>5. \A k \in 1 .. Len(children) : ~ MatchesAt(k)
      BY <2>1, <2>2, <3>3, <3>4 DEF Follows
    <3>6. matching = {}
      BY <2>2, <2>3, <3>5
    <3> QED BY <3>1, <3>6
  <2>7. FindEntry \/ ScanFails \/ ScanEnds(TRUE) \/ ChainEnds \/ EndSlot
    BY DEF Next, Writer, StartList, StartFind, Begin, Scan, NoBuffer, SectorFails, ChainCut,
           FreeSlot, PieceSlot, DotsSlot, ListEntry, ListNoNode, FindNoNode, Passed,
           Create, Delete, DeleteEntry
  <2> QED BY <2>4, <2>5, <2>6, <2>7
<1> QED BY <1>1, <1>2, <1>3, PTL DEF Spec, FindAgrees
=============================================================================
