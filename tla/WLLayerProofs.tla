--------------------------- MODULE WLLayerProofs ---------------------------
(***************************************************************************)
(* For every number of pages and every page size: the translation is one   *)
(* to one and spares the dummy page, and a partition opened from copy 1    *)
(* reads as the device left it, wherever its move of the dummy page was    *)
(* interrupted.                                                            *)
(***************************************************************************)
EXTENDS WLLayer, TLAPS

-----------------------------------------------------------------------------
(* Arithmetic of pages *)

\* Multiples of the page size: the products that occur, with their bounds.
LEMMA PageMultiples ==
  /\ FlashSize \in Nat /\ FlashSize >= PageSize /\ PageSize >= 1
  /\ \A p \in 0 .. Pages : p * PageSize \in Nat /\ p * PageSize <= FlashSize
  /\ \A p \in 0 .. Pages - 1 : /\ (p + 1) * PageSize = p * PageSize + PageSize
                               /\ p * PageSize + PageSize <= FlashSize
  /\ Pages * PageSize = FlashSize /\ 0 * PageSize = 0
<1> USE SizeAssumption DEF FlashSize
<1>1. \A p, q \in Nat : p <= q => p * PageSize <= q * PageSize
  BY SMTT(30)
<1>2. \A p \in Nat : p * PageSize \in Nat
  BY SMTT(30)
<1>3. \A p \in Nat : (p + 1) * PageSize = p * PageSize + PageSize
  BY SMTT(30)
<1>4. 1 * PageSize = PageSize /\ 0 * PageSize = 0
  OBVIOUS
<1>5. \A p \in 0 .. Pages : p * PageSize \in Nat /\ p * PageSize <= Pages * PageSize
  BY <1>1, <1>2
<1>6. \A p \in 0 .. Pages - 1 : p * PageSize + PageSize <= Pages * PageSize
  <2> TAKE p \in 0 .. Pages - 1
  <2>1. (p + 1) * PageSize <= Pages * PageSize
    BY <1>1
  <2> QED BY <2>1, <1>3
<1>7. Pages * PageSize \in Nat /\ Pages * PageSize >= PageSize
  BY <1>1, <1>2, <1>4
<1> QED BY <1>3, <1>4, <1>5, <1>6, <1>7

\* The place of a sector lies in the data pages, outside the dummy page, and no
\* other sector has it.
LEMMA PlaceOneToOne ==
  ASSUME NEW m \in 0 .. Pages - 1, NEW p \in 0 .. Pages, NEW a \in Logical
  PROVE  /\ Place(m, p, a) \in Physical
         /\ Place(m, p, a) \notin PageAt(p * PageSize)
         /\ \A b \in Logical : Place(m, p, a) = Place(m, p, b) => a = b
<1> DEFINE F == FlashSize
           s == m * PageSize
           d == p * PageSize
<1>1. F \in Nat /\ PageSize \in Nat /\ PageSize >= 1 /\ s \in Nat /\ d \in Nat
      /\ s + PageSize <= F /\ d <= F
  BY PageMultiples, SizeAssumption
<1>2. Logical = 0 .. F - 1 /\ Physical = 0 .. F + PageSize - 1
      /\ PageAt(d) = d .. d + PageSize - 1
  BY DEF Logical, Physical, PageAt
<1>3. \A b : Place(m, p, b) = LET r == IF b >= s THEN b - s ELSE b - s + F
                              IN  IF r < d THEN r ELSE r + PageSize
  BY DEF Place
<1> HIDE DEF F, s, d
<1>4. Place(m, p, a) \in Physical /\ Place(m, p, a) \notin PageAt(d)
  <2> DEFINE q == IF a >= s THEN a - s ELSE a - s + F
  <2>1. q \in 0 .. F - 1
    BY <1>1, <1>2
  <2>2. Place(m, p, a) = IF q < d THEN q ELSE q + PageSize
    BY <1>3
  <2> QED BY <1>1, <1>2, <2>1, <2>2
<1>5. ASSUME NEW b \in Logical, Place(m, p, a) = Place(m, p, b)
      PROVE  a = b
  <2> DEFINE r == IF a >= s THEN a - s ELSE a - s + F
             q == IF b >= s THEN b - s ELSE b - s + F
  <2>1. r \in Int /\ q \in Int /\ a \in 0 .. F - 1 /\ b \in 0 .. F - 1
    BY <1>1, <1>2
  <2>2. r = q
    <3>1. (IF r < d THEN r ELSE r + PageSize) = (IF q < d THEN q ELSE q + PageSize)
      BY <1>3, <1>5
    <3> HIDE DEF r, q
    <3> QED BY <1>1, <2>1, <3>1
  <2> QED BY <1>1, <2>1, <2>2
<1> QED BY <1>4, <1>5 DEF d

\* What the program computes with % is the device's place.
LEMMA TranslateIsPlace ==
  ASSUME NEW m \in 0 .. Pages - 1, NEW p \in 0 .. Pages, NEW a \in Logical
  PROVE  Translate([pos |-> p, moves |-> m], a) = Place(m, p, a)
<1> DEFINE F == FlashSize
           s == m * PageSize
           d == p * PageSize
           r == IF a >= s THEN a - s ELSE a - s + F
<1>1. F \in Nat \ {0} /\ PageSize \in Nat /\ s \in Nat /\ d \in Nat /\ s < F /\ a \in 0 .. F - 1
  BY PageMultiples, SizeAssumption DEF Logical
<1>2. \A x \in 0 .. 2 * F - 1 : x % F = IF x < F THEN x ELSE x - F
  <2> HIDE DEF F
  <2> QED BY <1>1, SMTT(30)
<1>3. s % F = s
  <2>1. s \in 0 .. 2 * F - 1 /\ s < F
    <3> HIDE DEF F, s
    <3> QED BY <1>1
  <2> QED BY <2>1, <1>2
<1>4. (F - s + a) % F = r
  <2>1. F - s + a \in 0 .. 2 * F - 1
    <3> HIDE DEF F, s
    <3> QED BY <1>1
  <2>2. (F - s + a) % F = IF F - s + a < F THEN F - s + a ELSE F - s + a - F
    <3> DEFINE x == F - s + a
    <3>1. x \in 0 .. 2 * F - 1
      BY <2>1
    <3> HIDE DEF F, s, x
    <3>2. x % F = IF x < F THEN x ELSE x - F
      BY <3>1, <1>2
    <3> QED BY <1>1, <3>1, <3>2 DEF x
  <2> HIDE DEF F, s
  <2> QED BY <2>2, <1>1
<1>5. r \in Int
  <2> HIDE DEF F, s
  <2> QED BY <1>1
<1>6. Translate([pos |-> p, moves |-> m], a) =
        IF (F - (s % F) + a) % F >= d THEN ((F - (s % F) + a) % F) + PageSize
        ELSE (F - (s % F) + a) % F
  BY DEF Translate
<1>7. Place(m, p, a) = IF r < d THEN r ELSE r + PageSize
  BY DEF Place
<1> HIDE DEF F, s, d, r
<1> QED BY <1>1, <1>3, <1>4, <1>5, <1>6, <1>7

\* Moving the dummy page one page on moves the sectors of that page back ...
LEMMA PlaceNext ==
  ASSUME NEW m \in 0 .. Pages - 1, NEW p \in 0 .. Pages - 1, NEW a \in Logical
  PROVE  Place(m, p, a) = IF Place(m, p + 1, a) \in PageAt(p * PageSize)
                          THEN (p + 1) * PageSize + Place(m, p + 1, a) - p * PageSize
                          ELSE Place(m, p + 1, a)
<1> DEFINE F == FlashSize
           s == m * PageSize
           d == p * PageSize
           e == (p + 1) * PageSize
           r == IF a >= s THEN a - s ELSE a - s + F
<1>1. F \in Nat /\ PageSize \in Nat /\ PageSize >= 1 /\ s \in Nat /\ d \in Nat
      /\ e = d + PageSize /\ a \in Nat
  BY PageMultiples, SizeAssumption DEF Logical
<1>2. Place(m, p, a) = IF r < d THEN r ELSE r + PageSize
  BY DEF Place
<1>3. Place(m, p + 1, a) = IF r < e THEN r ELSE r + PageSize
  BY DEF Place
<1>4. PageAt(d) = d .. d + PageSize - 1
  BY DEF PageAt
<1>5. r \in Int
  <2> HIDE DEF F, s
  <2> QED BY <1>1
<1> SUFFICES Place(m, p, a) = IF Place(m, p + 1, a) \in PageAt(d)
                              THEN e + Place(m, p + 1, a) - d ELSE Place(m, p + 1, a)
  OBVIOUS
<1> HIDE DEF F, s, d, e, r
<1> QED BY <1>1, <1>2, <1>3, <1>4, <1>5

\* ... and moving it from the last page to the first rotates the volume.
LEMMA PlaceWrap ==
  ASSUME NEW m \in 0 .. Pages - 1, NEW a \in Logical
  PROVE  Place(m, Pages, a) = IF Place(NextMoves(m), 0, a) \in PageAt(Pages * PageSize)
                              THEN Place(NextMoves(m), 0, a) - Pages * PageSize
                              ELSE Place(NextMoves(m), 0, a)
<1> DEFINE F == FlashSize
           s == m * PageSize
           t == NextMoves(m) * PageSize
           r == IF a >= s THEN a - s ELSE a - s + F
           q == IF a >= t THEN a - t ELSE a - t + F
<1>1. F \in Nat /\ PageSize \in Nat /\ PageSize >= 1 /\ s \in Nat /\ t \in Nat
      /\ a \in 0 .. F - 1 /\ F >= PageSize
      /\ t = (IF s + PageSize = F THEN 0 ELSE s + PageSize) /\ s + PageSize <= F
  <2>1. CASE m + 1 = Pages
    BY <2>1, PageMultiples, SizeAssumption DEF Logical, NextMoves
  <2>2. CASE m + 1 # Pages
    <3>1. m + 1 \in 0 .. Pages - 1
      BY <2>2, SizeAssumption
    <3>2. (m + 1) * PageSize + PageSize <= FlashSize
      BY <3>1, PageMultiples
    <3> QED BY <2>2, <3>1, <3>2, PageMultiples, SizeAssumption DEF Logical, NextMoves
  <2> QED BY <2>1, <2>2
<1>2. Place(m, Pages, a) = IF r < F THEN r ELSE r + PageSize
  BY PageMultiples DEF Place
<1>3. Place(NextMoves(m), 0, a) = IF q < 0 THEN q ELSE q + PageSize
  BY PageMultiples DEF Place
<1>4. PageAt(Pages * PageSize) = F .. F + PageSize - 1 /\ Pages * PageSize = F
  BY PageMultiples DEF PageAt
<1> HIDE DEF F, s, t
<1> QED BY <1>1, <1>2, <1>3, <1>4

-----------------------------------------------------------------------------
(* Scanning the records, and where the volume lies *)

\* The records of the positions before q stop the scan at q.
LEMMA StopsAt ==
  /\ \A q \in 0 .. Pages : Stops(0 .. q - 1) = {q}
  /\ \A q \in 0 .. Pages - 1 : Stops(0 .. q) = {q + 1}
  /\ Stops(0 .. Pages) = {Pages}
BY SizeAssumption DEF Stops, MaxPos

Doubled == \A x \in PageAt(pos * PageSize) : flash[x] = flash[NextPage + x - pos * PageSize]

\* With the next page doubled the volume also lies around the next position ...
LEMMA ViewNext ==
  ASSUME TypeOK, pos < Pages, View(moves, pos), Doubled
  PROVE  View(moves, pos + 1)
<1>1. pos \in 0 .. Pages - 1 /\ moves \in 0 .. Pages - 1
  BY SizeAssumption DEF TypeOK
<1>2. NextPage = (pos + 1) * PageSize
  BY <1>1, SizeAssumption DEF NextPage
<1> SUFFICES ASSUME NEW a \in Logical
             PROVE  flash[Place(moves, pos + 1, a)] = content[a]
  BY DEF View
<1>3. flash[Place(moves, pos, a)] = content[a]
  BY DEF View
<1>4. Place(moves, pos, a) = IF Place(moves, pos + 1, a) \in PageAt(pos * PageSize)
                             THEN NextPage + Place(moves, pos + 1, a) - pos * PageSize
                             ELSE Place(moves, pos + 1, a)
  BY <1>1, <1>2, PlaceNext
<1>5. CASE Place(moves, pos + 1, a) \in PageAt(pos * PageSize)
  BY <1>3, <1>4, <1>5 DEF Doubled
<1>6. CASE Place(moves, pos + 1, a) \notin PageAt(pos * PageSize)
  BY <1>3, <1>4, <1>6
<1> QED BY <1>5, <1>6

\* ... and from the last position, around the first of the next rotation.
LEMMA ViewWrap ==
  ASSUME TypeOK, pos = Pages, View(moves, pos), Doubled
  PROVE  View(NextMoves(moves), 0)
<1>1. moves \in 0 .. Pages - 1
  BY DEF TypeOK
<1>2. NextMoves(moves) \in 0 .. Pages - 1 /\ 0 \in 0 .. Pages
  BY <1>1, SizeAssumption DEF NextMoves
<1> SUFFICES ASSUME NEW a \in Logical
             PROVE  flash[Place(NextMoves(moves), 0, a)] = content[a]
  BY DEF View
<1> DEFINE x == Place(NextMoves(moves), 0, a)
<1>3. flash[Place(moves, Pages, a)] = content[a]
  BY DEF View
<1>4. Place(moves, Pages, a) = IF x \in PageAt(Pages * PageSize)
                               THEN x - Pages * PageSize ELSE x
  BY <1>1, PlaceWrap
<1>5. x \in Int /\ Pages * PageSize \in Int
  BY <1>2, PlaceOneToOne, PageMultiples, SizeAssumption DEF Physical
<1>6. CASE x \in PageAt(Pages * PageSize)
  <2>1. flash[x] = flash[0 + x - Pages * PageSize]
    BY <1>6 DEF Doubled, NextPage
  <2>2. 0 + x - Pages * PageSize = x - Pages * PageSize
    <3> HIDE DEF x
    <3> QED BY <1>5
  <2> QED BY <1>3, <1>4, <1>6, <2>1, <2>2
<1>7. CASE x \notin PageAt(Pages * PageSize)
  BY <1>3, <1>4, <1>7
<1> QED BY <1>6, <1>7

\* Wherever the device stops, the copies restore the volume.
LEMMA StopRestores ==
  ASSUME IInv, step \in DeviceSteps
  PROVE  Restores(copies[1]) /\ (copies[1].valid \/ copies[2].valid)
<1>1. TypeOK /\ pos \in 0 .. Pages /\ moves \in 0 .. Pages - 1 /\ Pages \in Nat \ {0}
  BY SizeAssumption DEF IInv, TypeOK
<1>2. CASE step \in {"idle", "copy", "record1"}
  <2>1. copies[1] = Written(moves, 0 .. pos - 1) /\ View(moves, pos)
    BY <1>2 DEF IInv, CopiesFollow, VolumeHeld
  <2> QED BY <1>1, <2>1, StopsAt DEF Restores, Written
<1>3. CASE step = "record2"
  <2>1. copies[1] = Written(moves, 0 .. pos) /\ View(moves, pos) /\ Doubled
    BY <1>3 DEF IInv, CopiesFollow, VolumeHeld, Doubled, DeviceSteps
  <2>2. CASE pos = Pages
    BY <1>1, <2>1, <2>2, StopsAt DEF Restores, Written
  <2>3. CASE pos < Pages
    <3>1. View(moves, pos + 1)
      BY <1>1, <2>1, <2>3, ViewNext
    <3>2. Stops(0 .. pos) = {pos + 1}
      BY <1>1, <2>3, StopsAt
    <3> QED BY <2>1, <3>1, <3>2 DEF Restores, Written
  <2> QED BY <1>1, <2>2, <2>3
<1>4. CASE step = "erase1"
  <2>1. PICK m \in 0 .. Pages - 1 :
          copies[1] = Written(m, 0 .. Pages) /\ copies[2].valid /\ View(m, Pages)
    BY <1>4 DEF IInv, CopiesFollow
  <2> QED BY <2>1, StopsAt DEF Restores, Written
<1>5. CASE step = "write1"
  BY <1>5 DEF IInv, CopiesFollow, Restores, Blank
<1>6. CASE step \in {"erase2", "write2"}
  <2>1. copies[1] = Fresh(moves) /\ View(moves, 0)
    BY <1>6 DEF IInv, CopiesFollow, VolumeHeld, DeviceSteps
  <2>2. Stops({}) = {0}
    <3>1. 0 .. 0 - 1 = {} /\ 0 \in 0 .. Pages
      BY <1>1
    <3> QED BY <3>1, StopsAt
  <2> QED BY <2>1, <2>2 DEF Restores, Fresh
<1> QED BY <1>2, <1>3, <1>4, <1>5, <1>6 DEF DeviceSteps

-----------------------------------------------------------------------------
(* The device's steps keep the inductive invariant *)

LEMMA InitIInv == Init => IInv
<1> SUFFICES ASSUME Init PROVE IInv
  OBVIOUS
<1> USE SizeAssumption DEF Init
<1>1. TypeOK
  BY ErasedAssumption DEF TypeOK, StateCopy, Fresh, Cell, DeviceSteps, NoAnswer
<1>2. CopiesFollow
  BY DEF CopiesFollow, Written, Fresh
<1>3. VolumeHeld
  <2>1. View(moves, pos)
    <3>1. \A a \in Logical : Place(0, 0, a) \in Physical
      BY PlaceOneToOne
    <3> QED BY <3>1 DEF View
  <2> QED BY <2>1 DEF VolumeHeld, DeviceSteps
<1>4. NeverRefused /\ ReadAnswers
  BY DEF NeverRefused, ReadAnswers
<1> QED BY <1>1, <1>2, <1>3, <1>4 DEF IInv

\* Of a device step, what is left to show once nothing of the program changes.
LEMMA DeviceStep ==
  ASSUME IInv, TypeOK', CopiesFollow', step \in DeviceSteps, step' \in DeviceSteps,
         UNCHANGED program, View(moves, pos)',
         step' \in {"record1", "record2"} => Doubled'
  PROVE  IInv'
<1>1. VolumeHeld'
  BY DEF VolumeHeld, Doubled, DeviceSteps, IInv, program
<1>2. NeverRefused'
  BY DEF NeverRefused, DeviceSteps
<1>3. ReadAnswers'
  BY DEF ReadAnswers, IInv, VolumeHeld, DeviceSteps, program
<1> QED BY <1>1, <1>2, <1>3 DEF IInv

LEMMA EraseKeeps ==
  ASSUME IInv, NEW l \in 0 .. Pages - 1, Erase(l)
  PROVE  IInv'
<1> USE DEF Erase
<1>1. TypeOK /\ pos \in 0 .. Pages /\ moves \in 0 .. Pages - 1
  BY DEF IInv, TypeOK
<1>2. TypeOK'
  BY <1>1 DEF TypeOK, Cell, program
<1>3. CopiesFollow'
  BY DEF IInv, CopiesFollow
<1>4. PageAt(l * PageSize) \subseteq Logical
  <2> DEFINE d == l * PageSize
  <2>1. d \in Nat /\ FlashSize \in Nat /\ d + PageSize <= FlashSize
    BY PageMultiples, SizeAssumption
  <2> HIDE DEF d
  <2> QED BY <2>1, SizeAssumption DEF PageAt, Logical, d
<1>5. View(moves, pos)'
  <2> SUFFICES ASSUME NEW a \in Logical
               PROVE  flash'[Place(moves, pos, a)] = content'[a]
    BY DEF View
  <2>1. Place(moves, pos, a) \in Physical
        /\ \A b \in PageAt(l * PageSize) : Place(moves, pos, a) = Place(moves, pos, b) => a = b
    BY <1>1, <1>4, PlaceOneToOne
  <2>2. flash[Place(moves, pos, a)] = content[a]
    BY DEF IInv, VolumeHeld, View, DeviceSteps
  <2>3. CASE a \in PageAt(l * PageSize)
    BY <2>1, <2>3
  <2>4. CASE a \notin PageAt(l * PageSize)
    BY <2>1, <2>2, <2>4
  <2> QED BY <2>3, <2>4
<1> QED BY <1>2, <1>3, <1>5, DeviceStep DEF DeviceSteps

LEMMA ProgramKeeps ==
  ASSUME IInv, NEW a \in Logical, NEW v \in Data, Program(a, v)
  PROVE  IInv'
<1> USE DEF Program
<1>1. TypeOK /\ pos \in 0 .. Pages /\ moves \in 0 .. Pages - 1
  BY DEF IInv, TypeOK
<1>2. TypeOK'
  BY <1>1 DEF TypeOK, Cell, program
<1>3. CopiesFollow'
  BY DEF IInv, CopiesFollow
<1>4. View(moves, pos)'
  <2> SUFFICES ASSUME NEW b \in Logical
               PROVE  flash'[Place(moves, pos, b)] = content'[b]
    BY DEF View
  <2>1. Place(moves, pos, a) \in Physical /\ Place(moves, pos, b) \in Physical
        /\ (Place(moves, pos, a) = Place(moves, pos, b) => a = b)
    BY <1>1, PlaceOneToOne
  <2>2. flash[Place(moves, pos, b)] = content[b]
    BY DEF IInv, VolumeHeld, View, DeviceSteps
  <2> QED BY <1>1, <2>1, <2>2 DEF TypeOK
<1> QED BY <1>2, <1>3, <1>4, DeviceStep DEF DeviceSteps

LEMMA MoveEraseKeeps ==
  ASSUME IInv, MoveErase
  PROVE  IInv'
<1> USE DEF MoveErase
<1>1. TypeOK /\ pos \in 0 .. Pages /\ moves \in 0 .. Pages - 1
  BY DEF IInv, TypeOK
<1>2. TypeOK'
  BY <1>1 DEF TypeOK, Cell, program, DeviceSteps
<1>3. CopiesFollow'
  BY DEF IInv, CopiesFollow
<1>4. View(moves, pos)'
  <2> SUFFICES ASSUME NEW a \in Logical
               PROVE  flash'[Place(moves, pos, a)] = content[a]
    BY DEF View
  <2>1. Place(moves, pos, a) \in Physical \ PageAt(pos * PageSize)
    BY <1>1, PlaceOneToOne
  <2> QED BY <2>1 DEF IInv, VolumeHeld, View, DeviceSteps
<1> QED BY <1>2, <1>3, <1>4, DeviceStep DEF DeviceSteps

LEMMA MoveCopyKeeps ==
  ASSUME IInv, MoveCopy
  PROVE  IInv'
<1> USE DEF MoveCopy
<1>1. TypeOK /\ pos \in 0 .. Pages /\ moves \in 0 .. Pages - 1
  BY DEF IInv, TypeOK
<1>2. \A x \in PageAt(pos * PageSize) :
         /\ x \in Physical
         /\ NextPage + x - pos * PageSize \in Physical \ PageAt(pos * PageSize)
  <2> DEFINE d == pos * PageSize
  <2>1. d \in Nat /\ FlashSize \in Nat /\ d <= FlashSize /\ PageSize <= FlashSize /\ PageSize \in Nat
    BY <1>1, PageMultiples, SizeAssumption
  <2>2. CASE pos = Pages
    <3>1. NextPage = 0 /\ d = FlashSize
      BY <2>2, PageMultiples DEF NextPage
    <3> HIDE DEF d
    <3> QED BY <2>1, <3>1 DEF PageAt, Physical, d
  <2>3. CASE pos < Pages
    <3>1. pos \in 0 .. Pages - 1
      BY <1>1, <2>3, SizeAssumption
    <3>2. NextPage = d + PageSize /\ d + PageSize <= FlashSize
      BY <3>1, <2>3, PageMultiples, SizeAssumption DEF NextPage
    <3> HIDE DEF d
    <3> QED BY <2>1, <3>2 DEF PageAt, Physical, d
  <2> QED BY <1>1, <2>2, <2>3, SizeAssumption
<1>3. TypeOK'
  <2>1. flash' \in [Physical -> Cell]
    BY <1>1, <1>2 DEF TypeOK
  <2> QED BY <1>1, <2>1 DEF TypeOK, program, DeviceSteps
<1>4. CopiesFollow'
  BY DEF IInv, CopiesFollow
<1>5. View(moves, pos)'
  <2> SUFFICES ASSUME NEW a \in Logical
               PROVE  flash'[Place(moves, pos, a)] = content[a]
    BY DEF View
  <2>1. Place(moves, pos, a) \in Physical \ PageAt(pos * PageSize)
    BY <1>1, PlaceOneToOne
  <2> QED BY <2>1 DEF IInv, VolumeHeld, View, DeviceSteps
<1>6. Doubled'
  <2>1. NextPage' = NextPage /\ pos' = pos
    BY DEF NextPage
  <2> QED BY <1>2, <2>1 DEF Doubled
<1> QED BY <1>3, <1>4, <1>5, <1>6, DeviceStep DEF DeviceSteps

LEMMA RecordWritten ==
  \A m, p, recs : Record(Written(m, recs), p) = Written(m, recs \cup {p})
BY DEF Record, Written

LEMMA MoveRecord1Keeps ==
  ASSUME IInv, MoveRecord1
  PROVE  IInv'
<1> USE DEF MoveRecord1
<1>1. TypeOK /\ pos \in 0 .. Pages /\ moves \in 0 .. Pages - 1 /\ Pages \in Nat
  BY SizeAssumption DEF IInv, TypeOK
<1>2. copies[1] = Written(moves, 0 .. pos - 1) /\ copies[2] = Written(moves, 0 .. pos - 1)
  BY DEF IInv, CopiesFollow
<1>3. Record(copies[1], pos) = Written(moves, 0 .. pos)
  <2>1. (0 .. pos - 1) \cup {pos} = 0 .. pos
    BY <1>1
  <2>2. Record(copies[1], pos) = Written(moves, (0 .. pos - 1) \cup {pos})
    BY <1>2, RecordWritten
  <2> QED BY <2>1, <2>2, Zenon
<1>4. copies' = [copies EXCEPT ![1] = Written(moves, 0 .. pos)]
  BY <1>3
<1>5. copies' \in [{1, 2} -> StateCopy]
  <2>1. Written(moves, 0 .. pos) \in StateCopy
    BY <1>1 DEF Written, StateCopy
  <2>2. copies \in [{1, 2} -> StateCopy]
    BY <1>1 DEF TypeOK
  <2> QED BY <1>4, <2>1, <2>2
<1>6. TypeOK'
  BY <1>1, <1>5 DEF TypeOK, program, DeviceSteps
<1>7. CopiesFollow'
  <2>1. copies'[1] = Written(moves, 0 .. pos) /\ copies'[2] = Written(moves, 0 .. pos - 1)
    BY <1>1, <1>2, <1>4 DEF TypeOK
  <2> QED BY <2>1 DEF CopiesFollow
<1>8. View(moves, pos)' /\ Doubled'
  BY DEF IInv, VolumeHeld, View, Doubled, NextPage, DeviceSteps
<1> QED BY <1>6, <1>7, <1>8, DeviceStep DEF DeviceSteps

LEMMA MoveRecord2Keeps ==
  ASSUME IInv, MoveRecord2
  PROVE  IInv'
<1> USE DEF MoveRecord2
<1>1. TypeOK /\ pos \in 0 .. Pages /\ moves \in 0 .. Pages - 1 /\ Pages \in Nat \ {0}
  BY SizeAssumption DEF IInv, TypeOK
<1>2. copies[1] = Written(moves, 0 .. pos) /\ copies[2] = Written(moves, 0 .. pos - 1)
  BY DEF IInv, CopiesFollow
<1>3. Record(copies[2], pos) = Written(moves, 0 .. pos)
  <2>1. (0 .. pos - 1) \cup {pos} = 0 .. pos
    BY <1>1
  <2>2. Record(copies[2], pos) = Written(moves, (0 .. pos - 1) \cup {pos})
    BY <1>2, RecordWritten
  <2> QED BY <2>1, <2>2, Zenon
<1>4. copies' = [copies EXCEPT ![2] = Written(moves, 0 .. pos)]
  BY <1>3
<1>5. copies' \in [{1, 2} -> StateCopy]
  <2>1. Written(moves, 0 .. pos) \in StateCopy
    BY <1>1 DEF Written, StateCopy
  <2>2. copies \in [{1, 2} -> StateCopy]
    BY <1>1 DEF TypeOK
  <2> QED BY <1>4, <2>1, <2>2
<1>6. View(moves, pos) /\ Doubled
  BY DEF IInv, VolumeHeld, Doubled, DeviceSteps
<1>7. copies'[1] = Written(moves, 0 .. pos) /\ copies'[2] = Written(moves, 0 .. pos)
  BY <1>1, <1>2, <1>4 DEF TypeOK
<1>8. CASE pos < Pages
  <2>1. TypeOK'
    BY <1>1, <1>5, <1>8 DEF TypeOK, program, DeviceSteps
  <2>2. CopiesFollow'
    <3>1. pos' = pos + 1 /\ moves' = moves /\ step' = "idle" /\ 0 .. pos' - 1 = 0 .. pos
      BY <1>1, <1>8
    <3> QED BY <1>7, <3>1 DEF CopiesFollow
  <2>3. View(moves, pos)'
    <3>1. View(moves, pos + 1)
      BY <1>1, <1>6, <1>8, ViewNext
    <3> QED BY <3>1, <1>8 DEF View
  <2> QED BY <1>8, <2>1, <2>2, <2>3, DeviceStep DEF DeviceSteps
<1>9. CASE pos = Pages
  <2>0. pos' = 0 /\ moves' = NextMoves(moves) /\ step' = "erase1" /\ moves' \in 0 .. Pages - 1
    BY <1>1, <1>9 DEF NextMoves
  <2>1. TypeOK'
    BY <1>1, <1>5, <2>0 DEF TypeOK, program, DeviceSteps
  <2>2. CopiesFollow'
    <3>1. \A a \in Logical : flash'[Place(moves, Pages, a)] = content'[a]
      BY <1>6, <1>9 DEF View
    <3>2. \E m \in 0 .. Pages - 1 :
             /\ copies'[1] = Written(m, 0 .. Pages) /\ copies'[2].valid
             /\ \A a \in Logical : flash'[Place(m, Pages, a)] = content'[a]
      <4>1. copies'[2].valid
        BY <1>7 DEF Written
      <4>2. moves \in 0 .. Pages - 1 /\ copies'[1] = Written(moves, 0 .. Pages)
        BY <1>1, <1>7, <1>9
      <4> QED BY <3>1, <4>1, <4>2
    <3> QED BY <2>0, <3>2 DEF CopiesFollow, View
  <2>3. View(moves, pos)'
    <3>1. View(NextMoves(moves), 0)
      BY <1>1, <1>6, <1>9, ViewWrap
    <3> QED BY <2>0, <3>1 DEF View
  <2> QED BY <2>0, <2>1, <2>2, <2>3, DeviceStep DEF DeviceSteps
<1> QED BY <1>1, <1>8, <1>9

LEMMA EraseStateKeeps ==
  ASSUME IInv, NEW i \in {1, 2}, EraseState(i)
  PROVE  IInv'
<1> USE DEF EraseState
<1>1. TypeOK /\ pos \in 0 .. Pages /\ moves \in 0 .. Pages - 1
  BY DEF IInv, TypeOK
<1>2. Blank \in StateCopy
  BY SizeAssumption DEF Blank, StateCopy
<1>3. TypeOK'
  BY <1>1, <1>2 DEF TypeOK, program, DeviceSteps
<1>4. CopiesFollow'
  <2>1. pos = 0 /\ step' \in {"write1", "write2"}
    BY DEF IInv, CopiesFollow
  <2>2. CASE i = 1
    <3>1. copies[2].valid
      BY <2>2 DEF IInv, CopiesFollow
    <3>2. copies'[1] = Blank /\ copies'[2] = copies[2]
      BY <1>1, <2>2 DEF TypeOK
    <3> QED BY <2>1, <2>2, <3>1, <3>2 DEF CopiesFollow
  <2>3. CASE i = 2
    <3>1. copies[1] = Fresh(moves)
      BY <2>3 DEF IInv, CopiesFollow
    <3>2. copies'[1] = copies[1]
      BY <1>1, <2>3 DEF TypeOK
    <3> QED BY <2>1, <2>3, <3>1, <3>2 DEF CopiesFollow, Fresh
  <2> QED BY <2>2, <2>3
<1>5. View(moves, pos)'
  BY DEF IInv, VolumeHeld, View, DeviceSteps
<1> QED BY <1>3, <1>4, <1>5, DeviceStep DEF DeviceSteps

LEMMA WriteStateKeeps ==
  ASSUME IInv, NEW i \in {1, 2}, WriteState(i)
  PROVE  IInv'
<1> USE DEF WriteState
<1>1. TypeOK /\ pos \in 0 .. Pages /\ moves \in 0 .. Pages - 1
  BY DEF IInv, TypeOK
<1>2. Fresh(moves) \in StateCopy
  BY <1>1 DEF Fresh, StateCopy
<1>3. TypeOK'
  BY <1>1, <1>2 DEF TypeOK, program, DeviceSteps
<1>4. CopiesFollow'
  <2>1. pos = 0 /\ step' \in {"erase2", "idle"}
    BY DEF IInv, CopiesFollow
  <2>2. CASE i = 1
    <3>1. copies'[1] = Fresh(moves)
      BY <1>1, <2>2 DEF TypeOK
    <3> QED BY <2>1, <2>2, <3>1 DEF CopiesFollow, Fresh
  <2>3. CASE i = 2
    <3>1. copies[1] = Fresh(moves)
      BY <2>3 DEF IInv, CopiesFollow
    <3>2. copies'[1] = copies[1] /\ copies'[2] = Fresh(moves)
      BY <1>1, <2>3 DEF TypeOK
    <3>3. Fresh(moves) = Written(moves, 0 .. 0 - 1)
      BY DEF Fresh, Written
    <3> QED BY <2>1, <2>3, <3>1, <3>2, <3>3 DEF CopiesFollow
  <2> QED BY <2>2, <2>3
<1>5. View(moves, pos)'
  BY DEF IInv, VolumeHeld, View, DeviceSteps
<1> QED BY <1>3, <1>4, <1>5, DeviceStep DEF DeviceSteps

-----------------------------------------------------------------------------
(* The power cut and the program's steps keep the inductive invariant *)

LEMMA PowerOffKeeps ==
  ASSUME IInv, PowerOff
  PROVE  IInv'
<1> USE DEF PowerOff
<1>1. TypeOK'
  BY DEF IInv, TypeOK, device, program, ProgramSteps
<1>2. Restores(copies[1]) /\ (copies[1].valid \/ copies[2].valid)
  BY StopRestores
<1>3. CopiesFollow'
  BY DEF CopiesFollow
<1>4. VolumeHeld'
  BY <1>2 DEF IInv, VolumeHeld, Restores, View, DeviceSteps, device, program
<1>5. NeverRefused' /\ ReadAnswers'
  BY DEF NeverRefused, ReadAnswers, IInv, VolumeHeld, DeviceSteps, device, program
<1> QED BY <1>1, <1>3, <1>4, <1>5 DEF IInv

LEMMA DamageKeeps ==
  ASSUME IInv, NEW i \in {1, 2}, Damage(i)
  PROVE  IInv'
<1> USE DEF Damage
<1>1. TypeOK'
  <2>1. Blank \in StateCopy
    BY SizeAssumption DEF Blank, StateCopy
  <2> QED BY <2>1 DEF IInv, TypeOK, program
<1>2. CopiesFollow'
  BY DEF CopiesFollow
<1>3. VolumeHeld'
  <2>1. Restores(copies[1])'
    <3>1. copies'[1] = copies[1] \/ copies'[1] = Blank
      BY DEF IInv, TypeOK
    <3>2. Restores(copies[1])
      BY DEF IInv, VolumeHeld
    <3> QED BY <3>1, <3>2 DEF Restores, View, Blank
  <2> QED BY <2>1 DEF IInv, VolumeHeld, DeviceSteps, program
<1>4. NeverRefused' /\ ReadAnswers'
  BY DEF NeverRefused, ReadAnswers, IInv, VolumeHeld, program
<1> QED BY <1>1, <1>2, <1>3, <1>4 DEF IInv

\* Only what may fail is harmed by a header that cannot be read.
LEMMA UnreadIsFault ==
  ASSUME harm \subseteq Faults, NEW unread \in Unreadable
  PROVE  Unread(unread) \subseteq Faults
BY DEF Unreadable, Unread

LEMMA LoadStateKeeps ==
  ASSUME IInv, LoadState
  PROVE  IInv'
<1>1. PICK i \in {1, 2}, unread \in Unreadable :
        /\ copies[i].valid /\ source' = i
        /\ wl' = [pos |-> 0, moves |-> copies[i].moves]
        /\ harm' = Unread(unread)
  BY DEF LoadState
<1>2. step = "load" /\ step' = "recover" /\ UNCHANGED <<device, answer>>
  BY DEF LoadState
<1>3. TypeOK'
  <2>1. copies[i].moves \in 0 .. Pages - 1 /\ 0 \in 0 .. Pages
    BY SizeAssumption DEF IInv, TypeOK, StateCopy
  <2>2. harm' \subseteq Faults
    BY <1>1, UnreadIsFault DEF IInv, TypeOK
  <2> QED BY <1>1, <1>2, <2>1, <2>2 DEF IInv, TypeOK, device, ProgramSteps
<1>4. CopiesFollow'
  BY <1>2 DEF CopiesFollow
<1>5. VolumeHeld'
  <2>1. source' = 1 => \A p \in Stops(copies[1].recs) : View(wl'.moves, p)
    BY <1>1, <1>2 DEF IInv, VolumeHeld, Restores
  <2> QED BY <1>2, <2>1 DEF IInv, VolumeHeld, View, DeviceSteps, device
<1>6. NeverRefused' /\ ReadAnswers'
  BY <1>2 DEF NeverRefused, ReadAnswers, IInv, VolumeHeld
<1> QED BY <1>3, <1>4, <1>5, <1>6 DEF IInv

\* A refusal of an undamaged dump, of which one copy is valid, is for a header
\* that could not be read.
LEMMA RefuseStateKeeps ==
  ASSUME IInv, RefuseState
  PROVE  IInv'
<1>1. PICK unread \in Unreadable : /\ \A i \in {1, 2} : i \in unread \/ ~ copies[i].valid
                                   /\ harm' = Unread(unread)
  BY DEF RefuseState
<1>2. step = "load" /\ step' = "refused" /\ UNCHANGED <<device, wl, source, answer>>
  BY DEF RefuseState
<1>3. TypeOK'
  <2>1. harm' \subseteq Faults
    BY <1>1, UnreadIsFault DEF IInv, TypeOK
  <2> QED BY <1>2, <2>1 DEF IInv, TypeOK, device, ProgramSteps
<1>4. CopiesFollow'
  BY <1>2 DEF CopiesFollow
<1>5. VolumeHeld'
  BY <1>2 DEF IInv, VolumeHeld, DeviceSteps, device
<1>6. NeverRefused'
  <2>1. CASE "image" \in harm
    BY <1>1, <2>1 DEF NeverRefused, Unread
  <2>2. CASE "image" \notin harm
    <3>1. copies[1].valid \/ copies[2].valid
      BY <1>2, <2>2 DEF IInv, VolumeHeld
    <3>2. unread # {}
      BY <1>1, <3>1
    <3> QED BY <1>1, <3>2 DEF NeverRefused, Unread
  <2> QED BY <2>1, <2>2
<1>7. ReadAnswers'
  BY <1>2 DEF ReadAnswers, IInv, VolumeHeld
<1> QED BY <1>3, <1>4, <1>5, <1>6, <1>7 DEF IInv

LEMMA RecoverPosKeeps ==
  ASSUME IInv, RecoverPos
  PROVE  IInv'
<1>1. step = "recover" /\ step' = "open" /\ UNCHANGED <<device, source, answer>>
  BY DEF RecoverPos
<1>2. PICK p \in 0 .. Pages :
        /\ \/ p \in Stops(copies[1].recs) /\ harm' = harm
           \/ p \in Passed(copies[1].recs) /\ "record" \in Faults /\ harm' = harm \cup {"record"}
           \/ p = wl.pos /\ "memory" \in Faults /\ harm' = harm \cup {"memory"}
        /\ wl' = [wl EXCEPT !.pos = IF p >= MaxPos THEN 0 ELSE p]
  BY DEF RecoverPos
<1>3. MaxPos = Pages + 1 /\ Pages \in Nat
  BY SizeAssumption DEF MaxPos
<1>4. wl' = [pos |-> p, moves |-> wl.moves] /\ wl.moves \in 0 .. Pages - 1
  BY <1>2, <1>3 DEF IInv, TypeOK
<1>5. TypeOK'
  BY <1>1, <1>2, <1>3, <1>4 DEF IInv, TypeOK, device, ProgramSteps
<1>6. CopiesFollow'
  BY <1>1 DEF CopiesFollow
<1>7. VolumeHeld'
  <2>1. ASSUME source = 1, Recovered' PROVE View(wl.moves, p)
    <3>1. p \in Stops(copies[1].recs)
      BY <1>2, <2>1 DEF Recovered
    <3> QED BY <1>1, <2>1, <3>1 DEF IInv, VolumeHeld
  <2>2. wl'.moves = wl.moves /\ wl'.pos = p
    BY <1>4
  <2>3. (source = 1 /\ Recovered => View(wl.moves, wl.pos))'
    BY <1>1, <2>1, <2>2 DEF View, device
  <2> QED BY <1>1, <2>3 DEF VolumeHeld, DeviceSteps
<1>8. NeverRefused' /\ ReadAnswers'
  BY <1>1 DEF NeverRefused, ReadAnswers, IInv, VolumeHeld
<1> QED BY <1>5, <1>6, <1>7, <1>8 DEF IInv

\* Opened from copy 1, translation finds what the volume holds.
LEMMA OpenReads ==
  ASSUME IInv, step = "open", source = 1, Recovered, NEW a \in Logical
  PROVE  flash[Translate(wl, a)] = content[a]
<1>1. wl = [pos |-> wl.pos, moves |-> wl.moves] /\ wl.pos \in 0 .. Pages
      /\ wl.moves \in 0 .. Pages - 1
  BY DEF IInv, TypeOK
<1>2. Translate(wl, a) = Place(wl.moves, wl.pos, a)
  BY <1>1, TranslateIsPlace
<1> QED BY <1>2 DEF IInv, VolumeHeld, View

\* What hal_read_sector answers.
LEMMA AnswerType ==
  ASSUME NEW s \in Int, NEW d \in Cell \cup {Failed}, NEW b \in BOOLEAN
  PROVE  [sector |-> s, data |-> d, broken |-> b]
           \in [sector : Int, data : Cell \cup {Failed}, broken : BOOLEAN]
BY Zenon

LEMMA HalReadKeeps ==
  ASSUME IInv, NEW s \in Sectors, HalRead(s)
  PROVE  IInv'
<1> USE DEF HalRead
<1>1. s \in Int /\ (BeyondVolume(s) <=> s \notin Logical)
  BY PageMultiples, SizeAssumption DEF Sectors, BeyondVolume, Logical
<1>2. TypeOK'
  <2>1. ~ BeyondVolume(s) => flash[Translate(wl, s)] \in Cell
    <3> SUFFICES ASSUME ~ BeyondVolume(s) PROVE flash[Translate(wl, s)] \in Cell
      OBVIOUS
    <3>1. wl = [pos |-> wl.pos, moves |-> wl.moves] /\ wl.pos \in 0 .. Pages
          /\ wl.moves \in 0 .. Pages - 1 /\ s \in Logical
      BY <1>1 DEF IInv, TypeOK
    <3>2. Translate(wl, s) \in Physical
      BY <3>1, TranslateIsPlace, PlaceOneToOne
    <3> QED BY <3>2 DEF IInv, TypeOK
  <2> DEFINE found == IF BeyondVolume(s) THEN Failed ELSE flash[Translate(wl, s)]
  <2>3. found \in Cell \cup {Failed} /\ Failed \in Cell \cup {Failed}
    BY <2>1
  <2>4. \/ answer' = [sector |-> s, data |-> found, broken |-> FALSE]
        \/ answer' = [sector |-> s, data |-> Failed, broken |-> TRUE]
    OBVIOUS
  <2> HIDE DEF found, HalRead
  <2>2. answer' \in [sector : Int, data : Cell \cup {Failed}, broken : BOOLEAN]
    <3>1. [sector |-> s, data |-> found, broken |-> FALSE]
            \in [sector : Int, data : Cell \cup {Failed}, broken : BOOLEAN]
      BY <1>1, <2>3, AnswerType, Zenon
    <3>2. [sector |-> s, data |-> Failed, broken |-> TRUE]
            \in [sector : Int, data : Cell \cup {Failed}, broken : BOOLEAN]
      BY <1>1, <2>3, AnswerType, Zenon
    <3> QED BY <2>4, <3>1, <3>2, Zenon
  <2> QED BY <2>2 DEF IInv, TypeOK, device, HalRead
<1>3. CopiesFollow'
  BY DEF CopiesFollow
<1>4. VolumeHeld'
  BY DEF IInv, VolumeHeld, Recovered, View, DeviceSteps, device
<1>5. NeverRefused'
  BY DEF NeverRefused
<1>6. ReadAnswers'
  <2> SUFFICES ASSUME source = 1, Recovered, ~ answer'.broken
               PROVE  answer'.data = IF answer'.sector \in Logical
                                     THEN content[answer'.sector] ELSE Failed
    BY DEF ReadAnswers, Recovered, device
  <2>1. s \in Logical => flash[Translate(wl, s)] = content[s]
    BY OpenReads
  <2>2. answer' = [sector |-> s,
                   data |-> IF BeyondVolume(s) THEN Failed ELSE flash[Translate(wl, s)],
                   broken |-> FALSE]
    OBVIOUS
  <2> QED BY <1>1, <2>1, <2>2
<1> QED BY <1>2, <1>3, <1>4, <1>5, <1>6 DEF IInv

LEMMA HalWriteKeeps ==
  ASSUME IInv, NEW s \in Sectors, NEW v \in Data, HalWrite(s, v)
  PROVE  IInv'
<1>0. PICK c \in Cell : IF BeyondVolume(s) THEN UNCHANGED <<flash, content>>
                        ELSE /\ flash' = [flash EXCEPT ![Translate(wl, s)] = c]
                             /\ content' = [content EXCEPT ![s] = c]
  <2>1. Stored(v) \subseteq Cell /\ v \in Cell
    BY DEF Stored, Cell
  <2>2. CASE BeyondVolume(s)
    BY <2>1, <2>2 DEF HalWrite
  <2>3. CASE ~ BeyondVolume(s)
    BY <2>1, <2>3 DEF HalWrite
  <2> QED BY <2>2, <2>3
<1>9. step = "open" /\ answer' = NoAnswer
      /\ UNCHANGED <<copies, pos, moves, wl, source, harm, step>>
  BY DEF HalWrite
<1>1. s \in Int /\ (BeyondVolume(s) <=> s \notin Logical)
  BY PageMultiples, SizeAssumption DEF Sectors, BeyondVolume, Logical
<1>2. wl = [pos |-> wl.pos, moves |-> wl.moves] /\ wl.pos \in 0 .. Pages
      /\ wl.moves \in 0 .. Pages - 1
  BY DEF IInv, TypeOK
<1>3. TypeOK'
  BY <1>0, <1>9 DEF IInv, TypeOK, NoAnswer
<1>4. CopiesFollow'
  BY <1>9 DEF CopiesFollow
<1>5. VolumeHeld'
  <2>1. ASSUME source = 1, Recovered, NEW a \in Logical
        PROVE  flash'[Place(wl.moves, wl.pos, a)] = content'[a]
    <3>1. flash[Place(wl.moves, wl.pos, a)] = content[a]
      BY <1>9, <2>1 DEF IInv, VolumeHeld, View
    <3>2. CASE s \in Logical
      <4>1. Translate(wl, s) = Place(wl.moves, wl.pos, s)
        BY <1>2, <3>2, TranslateIsPlace
      <4>2. Place(wl.moves, wl.pos, a) \in Physical
            /\ (Place(wl.moves, wl.pos, a) = Place(wl.moves, wl.pos, s) => a = s)
        BY <1>2, <2>1, <3>2, PlaceOneToOne
      <4> QED BY <1>0, <1>1, <3>1, <3>2, <4>1, <4>2 DEF IInv, TypeOK
    <3>3. CASE s \notin Logical
      BY <1>0, <1>1, <3>1, <3>3
    <3> QED BY <3>2, <3>3
  <2> QED BY <1>9, <2>1 DEF VolumeHeld, Recovered, View, DeviceSteps
<1>6. NeverRefused' /\ ReadAnswers'
  BY <1>9 DEF NeverRefused, ReadAnswers
<1> QED BY <1>3, <1>4, <1>5, <1>6 DEF IInv

LEMMA NextIInv == IInv /\ [Next]_vars => IInv'
<1> SUFFICES ASSUME IInv, [Next]_vars PROVE IInv'
  OBVIOUS
<1>1. CASE UNCHANGED vars
  BY <1>1 DEF vars, device, program, IInv, TypeOK, CopiesFollow, VolumeHeld, NeverRefused,
      ReadAnswers, Recovered, View, Restores, NextPage
<1>2. CASE Next
  BY <1>2, EraseKeeps, ProgramKeeps, MoveEraseKeeps, MoveCopyKeeps, MoveRecord1Keeps,
     MoveRecord2Keeps, EraseStateKeeps, WriteStateKeeps, PowerOffKeeps, DamageKeeps,
     LoadStateKeeps, RefuseStateKeeps, RecoverPosKeeps, HalReadKeeps, HalWriteKeeps
     DEF Next
<1> QED BY <1>1, <1>2

-----------------------------------------------------------------------------
(* The theorems *)

\* The inductive invariant holds of every partition and every power cut.
THEOREM Invariance == Spec => []IInv
BY InitIInv, NextIInv, PTL DEF Spec

\* Type correctness: the position, the rotation and every address stay in range.
THEOREM TypeCorrect == Spec => []TypeOK
<1>1. IInv => TypeOK
  BY DEF IInv
<1> QED BY <1>1, Invariance, PTL

\* One state copy is intact at every step of the device: an undamaged dump is
\* refused only when a state header cannot be read.
THEOREM NeverRefuses == Spec => []NeverRefused
<1>1. IInv => NeverRefused
  BY DEF IInv
<1> QED BY <1>1, Invariance, PTL

\* A partition opened from copy 1 reads, sector for sector, as the device left
\* it, wherever the device was stopped, and as it has been written since.
THEOREM FirstCopyRight == Spec => [](FirstCopyReadsVolume /\ ReadAnswers)
<1>1. IInv => FirstCopyReadsVolume /\ ReadAnswers
  BY OpenReads DEF FirstCopyReadsVolume, IInv
<1> QED BY <1>1, Invariance, PTL

\* hal_read_sector answers with the sector it was asked for, and fails past the
\* volume only.
THEOREM ReadsAnswered == Spec => []ReadAnswers
BY FirstCopyRight, PTL

\* Translation is one to one and spares the dummy page, whatever was recovered.
THEOREM TranslationOneToOne == Spec => []OneToOne
<1>1. TypeOK => OneToOne
  <2> SUFFICES ASSUME TypeOK, NEW a \in Logical
               PROVE  /\ Translate(wl, a) \in Physical \ PageAt(wl.pos * PageSize)
                      /\ \A b \in Logical : Translate(wl, a) = Translate(wl, b) => a = b
    BY DEF OneToOne
  <2>1. wl = [pos |-> wl.pos, moves |-> wl.moves] /\ wl.pos \in 0 .. Pages
        /\ wl.moves \in 0 .. Pages - 1
    BY DEF TypeOK
  <2>2. \A c \in Logical : Translate(wl, c) = Place(wl.moves, wl.pos, c)
    BY <2>1, TranslateIsPlace
  <2> QED BY <2>1, <2>2, PlaceOneToOne
<1> QED BY <1>1, TypeCorrect, PTL
=============================================================================
