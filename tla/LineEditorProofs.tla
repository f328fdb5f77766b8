-------------------------- MODULE LineEditorProofs --------------------------
(***************************************************************************)
(* Theorems about LineEditor, for every size of the buffer and the ring.   *)
(***************************************************************************)
EXTENDS LineEditor, SequenceTheorems, TLAPS

-----------------------------------------------------------------------------
(* Lines and places *)

\* A line leaves room for the terminating zero.
LEMMA LinesAreShort ==
  \A s : s \in Lines <=> s \in Seq(Chars) /\ Len(s) <= Size - 1
<1> USE EditorAssumption
<1>1. ASSUME NEW s \in Lines PROVE s \in Seq(Chars) /\ Len(s) <= Size - 1
  <2>1. PICK n \in 0 .. Size - 1 : s \in [1 .. n -> Chars]
    BY DEF Lines
  <2>2. n \in Nat
    OBVIOUS
  <2>3. s \in Seq(Chars)
    BY <2>1, <2>2, SeqDef
  <2>4. Len(s) = n
    BY <2>1, <2>2, <2>3, LenProperties
  <2> QED BY <2>3, <2>4
<1>2. ASSUME NEW s \in Seq(Chars), Len(s) <= Size - 1 PROVE s \in Lines
  <2>1. Len(s) \in 0 .. Size - 1 /\ s \in [1 .. Len(s) -> Chars]
    BY LenProperties, <1>2
  <2> QED BY <2>1 DEF Lines
<1> QED BY <1>1, <1>2

LEMMA EmptyLine == <<>> \in Lines /\ Len(<<>>) = 0
<1>1. <<>> \in Seq(Chars) /\ Len(<<>>) = 0
  BY EmptySeq
<1>2. Len(<<>>) <= Size - 1
  BY <1>1, EditorAssumption
<1> QED BY <1>1, <1>2, LinesAreShort, Zenon

\* Two numbers less than MaxHistory apart have different slots in the ring.
LEMMA SlotsDiffer ==
  ASSUME NEW i \in Nat, NEW n \in Nat, i < n, n - i < MaxHistory
  PROVE  i % MaxHistory # n % MaxHistory
<1> DEFINE M == MaxHistory
           p == i \div M
           q == n \div M
<1>1. M \in Nat /\ M >= 1
  BY EditorAssumption
<1>2. p \in Int /\ q \in Int /\ i = M * p + (i % M) /\ n = M * q + (n % M)
      /\ i % M \in 0 .. M - 1 /\ n % M \in 0 .. M - 1
  <2> HIDE DEF M
  <2> QED BY <1>1, SMTT(30)
<1>3. ASSUME NEW a \in Int, NEW b \in Int, M * b - M * a > 0 PROVE M * b - M * a >= M
  <2>1. b > a
    <3> HIDE DEF M
    <3> QED BY <1>1, <1>3, SMTT(30)
  <2>2. \A k \in Nat : k >= 1 => M * k >= M
    <3> HIDE DEF M
    <3> QED BY <1>1, SMTT(30)
  <2>3. M * (b - a) = M * b - M * a
    <3> HIDE DEF M
    <3> QED BY <1>1, SMTT(30)
  <2> QED BY <2>1, <2>2, <2>3
<1>4. SUFFICES ASSUME i % M = n % M PROVE FALSE
  OBVIOUS
<1>5. n - i = M * q - M * p
  <2>1. M * q \in Int /\ M * p \in Int
    <3> HIDE DEF M, p, q
    <3> QED BY <1>1, <1>2
  <2> HIDE DEF M, p, q
  <2> QED BY <1>2, <1>4, <2>1
<1>6. n - i > 0 /\ n - i < M
  OBVIOUS
<1>7. n - i >= M
  <2>1. M * q - M * p > 0
    BY <1>5, <1>6
  <2> HIDE DEF p, q
  <2> QED BY <2>1, <1>2, <1>3, <1>5
<1> HIDE DEF M
<1> QED BY <1>1, <1>6, <1>7

\* Any index taken % is a slot of the ring.
LEMMA SlotInRing == \A i \in Nat : i % MaxHistory \in Slots
BY EditorAssumption DEF Slots

-----------------------------------------------------------------------------
(* What editing makes of a line *)

\* The two parts of a line cut at k, place by place.
LEMMA Cut ==
  ASSUME NEW s \in Seq(Chars), NEW k \in 0 .. Len(s)
  PROVE  /\ SubSeq(s, 1, k) \in Seq(Chars) /\ Len(SubSeq(s, 1, k)) = k
         /\ \A i \in 1 .. k : SubSeq(s, 1, k)[i] = s[i]
         /\ SubSeq(s, k + 1, Len(s)) \in Seq(Chars)
         /\ Len(SubSeq(s, k + 1, Len(s))) = Len(s) - k
         /\ \A i \in 1 .. Len(s) - k : SubSeq(s, k + 1, Len(s))[i] = s[k + i]
<1>1. Len(s) \in Nat /\ \A i \in 1 .. Len(s) : s[i] \in Chars
  BY LenProperties, ElementOfSeq
<1>2. k \in Int /\ 1 \in Int /\ k + 1 \in Int /\ Len(s) \in Int
  BY <1>1
<1>3. \A i \in 1 .. k : s[i] \in Chars
  BY <1>1
<1>4. \A i \in k + 1 .. Len(s) : s[i] \in Chars
  BY <1>1
<1>5. /\ SubSeq(s, 1, k) \in Seq(Chars)
      /\ Len(SubSeq(s, 1, k)) = IF 1 <= k THEN k - 1 + 1 ELSE 0
      /\ \A i \in 1 .. k - 1 + 1 : SubSeq(s, 1, k)[i] = s[1 + i - 1]
  BY <1>2, <1>3, SubSeqProperties
<1>6. /\ SubSeq(s, k + 1, Len(s)) \in Seq(Chars)
      /\ Len(SubSeq(s, k + 1, Len(s))) = IF k + 1 <= Len(s) THEN Len(s) - (k + 1) + 1 ELSE 0
      /\ \A i \in 1 .. Len(s) - (k + 1) + 1 : SubSeq(s, k + 1, Len(s))[i] = s[k + 1 + i - 1]
  BY <1>2, <1>4, SubSeqProperties
<1>7. /\ Len(SubSeq(s, 1, k)) = k
      /\ \A i \in 1 .. k : SubSeq(s, 1, k)[i] = s[i]
  BY <1>1, <1>5
<1>8. /\ Len(SubSeq(s, k + 1, Len(s))) = Len(s) - k
      /\ \A i \in 1 .. Len(s) - k : SubSeq(s, k + 1, Len(s))[i] = s[k + i]
  BY <1>1, <1>6
<1> QED BY <1>5, <1>6, <1>7, <1>8

LEMMA Joined ==
  \A a, b \in Seq(Chars) :
    /\ a \o b \in Seq(Chars)
    /\ Len(a \o b) = Len(a) + Len(b)
    /\ \A i \in 1 .. Len(a) + Len(b) :
         (a \o b)[i] = IF i <= Len(a) THEN a[i] ELSE b[i - Len(a)]
BY ConcatProperties

LEMMA Appended ==
  \A a \in Seq(Chars), c \in Chars :
    /\ Append(a, c) \in Seq(Chars)
    /\ Len(Append(a, c)) = Len(a) + 1
    /\ \A i \in 1 .. Len(a) : Append(a, c)[i] = a[i]
    /\ Append(a, c)[Len(a) + 1] = c
BY AppendProperties

\* A line with c inserted at k, and its tail from there as it is printed.
LEMMA Inserted ==
  ASSUME NEW s \in Seq(Chars), NEW k \in 0 .. Len(s), NEW c \in Chars
  PROVE  LET t == Append(SubSeq(s, 1, k), c) \o SubSeq(s, k + 1, Len(s))
             u == <<c>> \o SubSeq(s, k + 1, Len(s))
         IN  /\ t \in Seq(Chars) /\ Len(t) = Len(s) + 1
             /\ \A i \in 1 .. Len(s) + 1 :
                  t[i] = IF i <= k THEN s[i] ELSE IF i = k + 1 THEN c ELSE s[i - 1]
             /\ u \in Seq(Chars) /\ Len(u) = Len(s) - k + 1
             /\ \A j \in 1 .. Len(s) - k + 1 : u[j] = t[k + j]
<1> DEFINE a == SubSeq(s, 1, k)
           b == SubSeq(s, k + 1, Len(s))
           ac == Append(a, c)
           t == ac \o b
           u == <<c>> \o b
<1>1. /\ a \in Seq(Chars) /\ Len(a) = k /\ \A i \in 1 .. k : a[i] = s[i]
      /\ b \in Seq(Chars) /\ Len(b) = Len(s) - k
      /\ \A i \in 1 .. Len(s) - k : b[i] = s[k + i]
      /\ Len(s) \in Nat /\ k \in Nat /\ k <= Len(s)
  BY Cut, LenProperties
<1> HIDE DEF a, b
<1>2. /\ ac \in Seq(Chars) /\ Len(ac) = k + 1
      /\ \A i \in 1 .. k : ac[i] = s[i]
      /\ ac[k + 1] = c
  BY <1>1
<1>3. <<c>> \in Seq(Chars) /\ Len(<<c>>) = 1 /\ <<c>>[1] = c
  OBVIOUS
<1> HIDE DEF ac
<1>4. /\ t \in Seq(Chars) /\ Len(t) = (k + 1) + (Len(s) - k)
      /\ \A i \in 1 .. (k + 1) + (Len(s) - k) :
           t[i] = IF i <= k + 1 THEN ac[i] ELSE b[i - (k + 1)]
  <2>1. /\ t \in Seq(Chars) /\ Len(t) = Len(ac) + Len(b)
        /\ \A i \in 1 .. Len(ac) + Len(b) :
             t[i] = IF i <= Len(ac) THEN ac[i] ELSE b[i - Len(ac)]
    BY <1>1, <1>2, Joined
  <2> HIDE DEF t
  <2> QED BY <2>1, <1>1, <1>2
<1>5. /\ u \in Seq(Chars) /\ Len(u) = 1 + (Len(s) - k)
      /\ \A i \in 1 .. 1 + (Len(s) - k) : u[i] = IF i <= 1 THEN c ELSE b[i - 1]
  <2> DEFINE c1 == <<c>>
  <2>1. c1 \in Seq(Chars) /\ Len(c1) = 1 /\ c1[1] = c
    BY <1>3
  <2>2. u = c1 \o b
    OBVIOUS
  <2> HIDE DEF c1, u
  <2>3. /\ u \in Seq(Chars) /\ Len(u) = Len(c1) + Len(b)
        /\ \A i \in 1 .. Len(c1) + Len(b) : u[i] = IF i <= Len(c1) THEN c1[i] ELSE b[i - Len(c1)]
    BY <1>1, <2>1, <2>2, Joined
  <2> QED BY <2>1, <2>3, <1>1
<1> HIDE DEF t, u
<1>6. Len(t) = Len(s) + 1 /\ Len(u) = Len(s) - k + 1
  BY <1>1, <1>4, <1>5
<1>7. \A i \in 1 .. Len(s) + 1 :
        t[i] = IF i <= k THEN s[i] ELSE IF i = k + 1 THEN c ELSE s[i - 1]
  <2> TAKE i \in 1 .. Len(s) + 1
  <2>1. CASE i <= k + 1
    <3>1. i \in 1 .. (k + 1) + (Len(s) - k) /\ (i <= k \/ i = k + 1)
      BY <2>1, <1>1
    <3>2. t[i] = ac[i]
      BY <2>1, <3>1, <1>4
    <3>3. i <= k => ac[i] = s[i]
      BY <3>1, <1>1, <1>2
    <3> QED BY <3>1, <3>2, <3>3, <1>1, <1>2
  <2>2. CASE i > k + 1
    <3>1. i - (k + 1) \in 1 .. Len(s) - k /\ k + (i - (k + 1)) = i - 1
          /\ i \in 1 .. (k + 1) + (Len(s) - k)
      BY <2>2, <1>1
    <3>2. b[i - (k + 1)] = s[i - 1]
      BY <3>1, <1>1
    <3>3. t[i] = b[i - (k + 1)]
      BY <2>2, <3>1, <1>1, <1>4
    <3> QED BY <2>2, <3>2, <3>3, <1>1
  <2> QED BY <2>1, <2>2, <1>1
<1>8. \A j \in 1 .. Len(s) - k + 1 : u[j] = t[k + j]
  <2> TAKE j \in 1 .. Len(s) - k + 1
  <2>1. CASE j = 1
    BY <2>1, <1>1, <1>2, <1>3, <1>4, <1>5
  <2>2. CASE j > 1
    <3>1. k + j \in 1 .. (k + 1) + (Len(s) - k) /\ k + j > k + 1 /\ k + j - (k + 1) = j - 1
      BY <2>2, <1>1
    <3> QED BY <2>2, <3>1, <1>1, <1>4, <1>5
  <2> QED BY <2>1, <2>2, <1>1
<1> QED BY <1>4, <1>5, <1>6, <1>7, <1>8 DEF t, u, ac, a, b

\* A line with the character at k rubbed out, and its tail as it is printed.
LEMMA Removed ==
  ASSUME NEW s \in Seq(Chars), NEW k \in 1 .. Len(s)
  PROVE  LET t == SubSeq(s, 1, k - 1) \o SubSeq(s, k + 1, Len(s))
             u == Append(SubSeq(s, k + 1, Len(s)), Space)
         IN  /\ t \in Seq(Chars) /\ Len(t) = Len(s) - 1
             /\ \A i \in 1 .. Len(s) - 1 : t[i] = IF i < k THEN s[i] ELSE s[i + 1]
             /\ u \in Seq(Chars) /\ Len(u) = Len(s) - k + 1
             /\ \A j \in 1 .. Len(s) - k : u[j] = t[k - 1 + j]
             /\ u[Len(s) - k + 1] = Space
<1> DEFINE a == SubSeq(s, 1, k - 1)
           b == SubSeq(s, k + 1, Len(s))
           t == a \o b
           u == Append(b, Space)
<1>0. Len(s) \in Nat /\ k \in Nat /\ 1 <= k /\ k <= Len(s)
      /\ k - 1 \in 0 .. Len(s) /\ k \in 0 .. Len(s)
  BY LenProperties
<1>1. /\ a \in Seq(Chars) /\ Len(a) = k - 1 /\ \A i \in 1 .. k - 1 : a[i] = s[i]
  BY <1>0, Cut
<1>2. /\ b \in Seq(Chars) /\ Len(b) = Len(s) - k
      /\ \A i \in 1 .. Len(s) - k : b[i] = s[k + i]
  BY <1>0, Cut
<1> HIDE DEF a, b
<1>3. /\ t \in Seq(Chars) /\ Len(t) = (k - 1) + (Len(s) - k)
      /\ \A i \in 1 .. (k - 1) + (Len(s) - k) :
           t[i] = IF i <= k - 1 THEN a[i] ELSE b[i - (k - 1)]
  <2>1. /\ t \in Seq(Chars) /\ Len(t) = Len(a) + Len(b)
        /\ \A i \in 1 .. Len(a) + Len(b) :
             t[i] = IF i <= Len(a) THEN a[i] ELSE b[i - Len(a)]
    BY <1>1, <1>2, Joined
  <2> HIDE DEF t
  <2> QED BY <2>1, <1>0, <1>1, <1>2
<1>4. Space \in Chars
  BY EditorAssumption
<1>5. /\ u \in Seq(Chars) /\ Len(u) = Len(s) - k + 1
      /\ \A j \in 1 .. Len(s) - k : u[j] = b[j]
      /\ u[Len(s) - k + 1] = Space
  <2>1. /\ u \in Seq(Chars) /\ Len(u) = Len(b) + 1
        /\ \A i \in 1 .. Len(b) : u[i] = b[i]
        /\ u[Len(b) + 1] = Space
    BY <1>2, <1>4, Appended
  <2> HIDE DEF u
  <2> QED BY <2>1, <1>0, <1>2
<1> HIDE DEF t, u
<1>6. \A i \in 1 .. Len(s) - 1 : t[i] = IF i < k THEN s[i] ELSE s[i + 1]
  <2> TAKE i \in 1 .. Len(s) - 1
  <2>1. CASE i < k
    BY <2>1, <1>0, <1>1, <1>3
  <2>2. CASE i >= k
    <3>1. i - (k - 1) \in 1 .. Len(s) - k /\ k + (i - (k - 1)) = i + 1
      BY <2>2, <1>0
    <3>2. b[i - (k - 1)] = s[i + 1]
      BY <3>1, <1>2
    <3> QED BY <2>2, <3>2, <1>0, <1>3
  <2> QED BY <2>1, <2>2, <1>0
<1>7. \A j \in 1 .. Len(s) - k : u[j] = t[k - 1 + j]
  <2> TAKE j \in 1 .. Len(s) - k
  <2>1. k - 1 + j \in 1 .. (k - 1) + (Len(s) - k) /\ k - 1 + j > k - 1
        /\ k - 1 + j - (k - 1) = j
    BY <1>0
  <2> QED BY <2>1, <1>0, <1>3, <1>5
<1>8. Len(t) = Len(s) - 1
  BY <1>0, <1>3
<1> QED BY <1>3, <1>5, <1>6, <1>7, <1>8 DEF t, u, a, b

-----------------------------------------------------------------------------
(* What printing makes of the terminal's row *)

Row == [text : [Columns -> Chars], col : Int]

\* The row shows s and nothing after it.
Exact(scr, s) == \A i \in Columns : scr.text[i] = IF i < Len(s) THEN s[i + 1] ELSE Space

\* Printing u writes its characters from the column on and moves past them.
LEMMA PutRow ==
  ASSUME NEW scr \in Row, NEW u \in Seq(Chars)
  PROVE  /\ Put(scr, u) \in Row
         /\ Put(scr, u).col = scr.col + Len(u)
         /\ \A i \in Columns : Put(scr, u).text[i] =
              IF scr.col <= i /\ i < scr.col + Len(u) THEN u[i - scr.col + 1] ELSE scr.text[i]
<1>1. Len(u) \in Nat /\ \A j \in 1 .. Len(u) : u[j] \in Chars
  BY LenProperties, ElementOfSeq
<1>2. scr.col \in Int /\ scr.text \in [Columns -> Chars]
  BY DEF Row
<1>3. Columns \subseteq Int
  BY EditorAssumption DEF Columns
<1>4. \A i \in Columns :
        (IF scr.col <= i /\ i < scr.col + Len(u) THEN u[i - scr.col + 1] ELSE scr.text[i]) \in Chars
  BY <1>1, <1>2, <1>3
<1>5. [i \in Columns |-> IF scr.col <= i /\ i < scr.col + Len(u)
                          THEN u[i - scr.col + 1] ELSE scr.text[i]] \in [Columns -> Chars]
  BY <1>4
<1>6. scr.col + Len(u) \in Int
  BY <1>1, <1>2
<1> QED BY <1>5, <1>6 DEF Put, Row

\* Backspaces move the column and write nothing.
LEMMA BackRow ==
  ASSUME NEW scr \in Row, NEW n \in Int
  PROVE  /\ Back(scr, n) \in Row
         /\ Back(scr, n).col = scr.col - n
         /\ Back(scr, n).text = scr.text
BY DEF Back, Row

LEMMA ClearRow ==
  /\ Clear \in Row /\ Clear \in [text : [Columns -> Chars], col : Columns] /\ Clear.col = 0
  /\ \A i \in Columns : Clear.text[i] = Space
BY EditorAssumption DEF Clear, Row, Columns

\* Rubbing out n columns leaves blanks there and nothing else changed.
LEMMA RubOutRow ==
  ASSUME NEW scr \in Row, NEW n \in Nat
  PROVE  /\ RubOut(scr, n) \in Row
         /\ RubOut(scr, n).col = scr.col - n
         /\ \A i \in Columns : RubOut(scr, n).text[i] =
              IF scr.col - n <= i /\ i < scr.col THEN Space ELSE scr.text[i]
<1> DEFINE blanks == [i \in 1 .. n |-> Space]
           b == Back(scr, n)
           w == Put(b, blanks)
<1>1. Space \in Chars
  BY EditorAssumption
<1>2. blanks \in [1 .. n -> Chars]
  BY <1>1
<1>3. blanks \in Seq(Chars)
  BY <1>2, SeqDef
<1>4. Len(blanks) = n /\ \A j \in 1 .. n : blanks[j] = Space
  <2>1. DOMAIN blanks = 1 .. n /\ DOMAIN blanks = 1 .. Len(blanks) /\ Len(blanks) \in Nat
    BY <1>3, LenProperties
  <2>2. Len(blanks) = n
    <3> HIDE DEF blanks
    <3> QED BY <2>1
  <2> QED BY <2>2
<1> HIDE DEF blanks
<1>5. scr.col \in Int /\ Columns \subseteq Int
  BY EditorAssumption DEF Row, Columns
<1>6. b \in Row /\ b.col = scr.col - n /\ b.text = scr.text
  BY BackRow
<1> HIDE DEF b
<1>7. /\ w \in Row /\ w.col = b.col + Len(blanks)
      /\ \A i \in Columns : w.text[i] =
           IF b.col <= i /\ i < b.col + Len(blanks) THEN blanks[i - b.col + 1] ELSE b.text[i]
  BY <1>3, <1>6, PutRow
<1> HIDE DEF w
<1>8. \A i \in Columns : w.text[i] =
        IF scr.col - n <= i /\ i < scr.col THEN Space ELSE scr.text[i]
  <2> TAKE i \in Columns
  <2>1. CASE scr.col - n <= i /\ i < scr.col
    <3>1. i - b.col + 1 \in 1 .. n
      BY <2>1, <1>5, <1>6
    <3> QED BY <2>1, <3>1, <1>4, <1>5, <1>6, <1>7
  <2>2. CASE ~ (scr.col - n <= i /\ i < scr.col)
    BY <2>2, <1>4, <1>5, <1>6, <1>7
  <2> QED BY <2>1, <2>2
<1>9. Back(w, n) \in Row /\ Back(w, n).col = w.col - n /\ Back(w, n).text = w.text
  BY <1>7, BackRow
<1>10. RubOut(scr, n) = Back(w, n)
  BY DEF RubOut, w, b, blanks
<1>11. w.col - n = scr.col - n
  BY <1>4, <1>5, <1>6, <1>7
<1> QED BY <1>8, <1>9, <1>10, <1>11

\* If what is printed shows the line whenever the two cursors meet, so does the row.
LEMMA DrawKeeps ==
  ASSUME NEW scr, NEW s \in Lines, NEW c \in 0 .. Len(s), lost \in BOOLEAN,
         Draw(scr, c),
         ~ lost /\ scr.col = c => scr \in Row /\ Exact(scr, s)
  PROVE  /\ screen' \in [text : [Columns -> Chars], col : Columns]
         /\ lost' \in BOOLEAN
         /\ ~ lost' => screen'.col = c /\ Exact(screen', s)
<1>1. c \in Columns
  BY LinesAreShort, LenProperties, EditorAssumption DEF Columns
<1>2. CASE lost \/ scr.col # c
  BY <1>2, ClearRow DEF Draw
<1>3. CASE ~ (lost \/ scr.col # c)
  <2>1. screen' = scr /\ lost' = FALSE /\ scr.col = c /\ scr \in Row /\ Exact(scr, s)
    BY <1>3 DEF Draw
  <2> QED BY <2>1, <1>1 DEF Row
<1> QED BY <1>2, <1>3

\* A row printed anew shows the line, whatever it showed before.
LEMMA DrawAnewShows ==
  ASSUME NEW s \in Lines, DrawAnew(s)
  PROVE  /\ screen' \in [text : [Columns -> Chars], col : Columns]
         /\ lost' = FALSE
         /\ screen'.col = Len(s) /\ Exact(screen', s)
<1>1. s \in Seq(Chars) /\ Len(s) \in Nat /\ Len(s) <= Size - 1
  BY LinesAreShort, LenProperties
<1>2. /\ Put(Clear, s) \in Row /\ Put(Clear, s).col = 0 + Len(s)
      /\ \A i \in Columns : Put(Clear, s).text[i] =
           IF 0 <= i /\ i < 0 + Len(s) THEN s[i - 0 + 1] ELSE Clear.text[i]
  BY <1>1, ClearRow, PutRow
<1>3. Exact(Put(Clear, s), s)
  BY <1>1, <1>2, ClearRow, EditorAssumption DEF Exact, Columns
<1>4. Len(s) \in Columns /\ 0 + Len(s) = Len(s)
  BY <1>1, EditorAssumption DEF Columns
<1> QED BY <1>2, <1>3, <1>4 DEF DrawAnew, Row

-----------------------------------------------------------------------------
(* The invariant *)

IInv == TypeOK /\ RingIsTail /\ NoRepeats /\ EchoExact

\* What a key may leave of the line and its row.
Shown ==
  /\ buffer' \in Lines /\ cursor_pos' \in 0 .. Len(buffer')
  /\ screen' \in [text : [Columns -> Chars], col : Columns] /\ lost' \in BOOLEAN
  /\ ~ lost' => screen'.col = cursor_pos' /\ Exact(screen', buffer')

LEMMA RowNow ==
  ASSUME IInv, reading
  PROVE  /\ screen \in Row /\ lost \in BOOLEAN
         /\ ~ lost => screen.col = cursor_pos /\ Exact(screen, buffer)
         /\ buffer \in Seq(Chars) /\ Len(buffer) \in Nat /\ Len(buffer) <= Size - 1
         /\ cursor_pos \in Nat /\ cursor_pos <= Len(buffer)
<1>1. buffer \in Lines /\ cursor_pos \in 0 .. Len(buffer)
  BY DEF IInv, TypeOK
<1>2. buffer \in Seq(Chars) /\ Len(buffer) \in Nat /\ Len(buffer) <= Size - 1
  BY <1>1, LinesAreShort, LenProperties
<1>3. screen \in Row /\ lost \in BOOLEAN
  BY EditorAssumption DEF IInv, TypeOK, Row, Columns
<1>4. ~ lost => screen.col = cursor_pos /\ Exact(screen, buffer)
  BY DEF IInv, EchoExact, Matches, Exact
<1> QED BY <1>1, <1>2, <1>3, <1>4

\* A key that changes the line alone.
LEMMA EditKeeps ==
  ASSUME IInv, reading, UNCHANGED <<reading, history, browsing>>, Shown
  PROVE  IInv'
<1>1. TypeOK'
  BY DEF IInv, TypeOK, Shown, history, browsing
<1>2. RingIsTail'
  BY DEF IInv, RingIsTail, Oldest, history, browsing
<1>3. NoRepeats'
  BY DEF IInv, NoRepeats, history
<1>4. EchoExact'
  BY DEF Shown, EchoExact, Matches, Exact
<1> QED BY <1>1, <1>2, <1>3, <1>4 DEF IInv

\* A key that moves the walk through the history, too.
LEMMA WalkKeeps ==
  ASSUME IInv, reading, UNCHANGED <<reading, history>>, Shown,
         s_history_index' \in Oldest .. s_history_count,
         s_backup' \in Lines, draft' \in Lines, own' \in BOOLEAN,
         strayed' \in BOOLEAN
  PROVE  IInv'
<1>1. s_history_count \in Nat /\ Oldest \in Nat
  BY EditorAssumption DEF IInv, TypeOK, Oldest
<1>2. TypeOK'
  BY <1>1 DEF IInv, TypeOK, Shown, history
<1>3. RingIsTail'
  BY <1>1 DEF IInv, RingIsTail, Oldest, history
<1>4. NoRepeats'
  BY DEF IInv, NoRepeats, history
<1>5. EchoExact'
  BY DEF Shown, EchoExact, Matches, Exact
<1> QED BY <1>2, <1>3, <1>4, <1>5 DEF IInv

LEMMA BeginKeeps == ASSUME IInv, Begin PROVE IInv'
<1>1. /\ screen' \in [text : [Columns -> Chars], col : Columns]
      /\ lost' = FALSE /\ screen'.col = 0 /\ Exact(screen', <<>>)
  BY EmptyLine, DrawAnewShows DEF Begin
<1>2. s_history_count \in Nat /\ Oldest <= s_history_count
  BY EditorAssumption DEF IInv, TypeOK, Oldest
<1>3. TypeOK'
  <2>1. /\ reading' \in BOOLEAN /\ lost' \in BOOLEAN /\ own' \in BOOLEAN
        /\ strayed' \in BOOLEAN
        /\ s_history' = s_history /\ s_history_count' = s_history_count /\ log' = log
        /\ s_history_index' = s_history_count /\ s_backup' = s_backup
        /\ buffer' = <<>> /\ cursor_pos' = 0 /\ draft' = <<>>
    BY <1>1 DEF Begin, history
  <2>2. buffer' \in Lines /\ draft' \in Lines /\ cursor_pos' \in 0 .. Len(buffer')
    BY <2>1, EmptyLine
  <2>3. s_history_index' \in 0 .. s_history_count'
    BY <1>2, <2>1
  <2>4. /\ s_history \in [Slots -> Lines] /\ s_history_count \in Nat
        /\ s_backup \in Lines /\ log \in Seq(Lines)
    BY DEF IInv, TypeOK
  <2> QED BY <1>1, <2>1, <2>2, <2>3, <2>4 DEF TypeOK
<1>4. RingIsTail'
  BY <1>2 DEF IInv, RingIsTail, Oldest, Begin, history
<1>5. NoRepeats'
  BY DEF IInv, NoRepeats, Begin, history
<1>6. EchoExact'
  BY <1>1 DEF EchoExact, Matches, Exact, Begin
<1> QED BY <1>3, <1>4, <1>5, <1>6 DEF IInv

LEMMA EscKeeps == ASSUME IInv, Esc PROVE IInv'
<1>1. /\ screen' \in [text : [Columns -> Chars], col : Columns]
      /\ lost' = FALSE /\ screen'.col = 0 /\ Exact(screen', <<>>)
  BY EmptyLine, DrawAnewShows DEF Esc
<1>2. Shown
  BY <1>1, EmptyLine DEF Shown, Esc
<1>3. s_history_index \in Oldest .. s_history_count
  BY EditorAssumption DEF IInv, TypeOK, RingIsTail, Oldest, Esc
<1>4. s_backup \in Lines
  BY DEF IInv, TypeOK
<1>5. strayed' \in BOOLEAN
  BY DEF IInv, TypeOK, Esc
<1> QED BY <1>2, <1>3, <1>4, <1>5, EmptyLine, WalkKeeps DEF Esc

LEMMA EnterKeeps == ASSUME IInv, Enter PROVE IInv'
<1> DEFINE n == s_history_count
<1>1. n \in Nat /\ buffer \in Lines /\ MaxHistory \in Nat \ {0}
  BY EditorAssumption DEF IInv, TypeOK
<1>2. /\ screen' \in [text : [Columns -> Chars], col : Columns] /\ lost' = FALSE
  BY EmptyLine, DrawAnewShows DEF Enter
<1>3. EchoExact'
  BY DEF EchoExact, Matches, Enter
<1>4. CASE UNCHANGED history
  <2>1. TypeOK'
    BY <1>2, <1>4 DEF IInv, TypeOK, Enter, history, line, browsing
  <2>2. RingIsTail'
    BY <1>4 DEF IInv, RingIsTail, Oldest, Enter, history
  <2>3. NoRepeats'
    BY <1>4 DEF IInv, NoRepeats, history
  <2> QED BY <2>1, <2>2, <2>3, <1>3 DEF IInv
<1>5. CASE ~ UNCHANGED history
  <2>1. /\ buffer # <<>> /\ ~ Repeated
        /\ s_history' = [s_history EXCEPT ![n % MaxHistory] = buffer]
        /\ n' = n + 1
        /\ log' = Append(log, buffer)
    BY <1>5 DEF Enter, AddToHistory
  <2>2. log \in Seq(Lines) /\ Len(log) = n
    BY DEF IInv, TypeOK, RingIsTail
  <2>3. /\ log' \in Seq(Lines) /\ Len(log') = n + 1
        /\ \A i \in 1 .. n : log'[i] = log[i]
        /\ log'[n + 1] = buffer
    BY <1>1, <2>1, <2>2, AppendProperties
  <2>4. n % MaxHistory \in Slots /\ s_history \in [Slots -> Lines]
    BY <1>1, SlotInRing DEF IInv, TypeOK
  <2>5. TypeOK'
    <3>1. /\ reading' = FALSE /\ buffer' = buffer /\ cursor_pos' = cursor_pos
          /\ s_history_index' = s_history_index /\ s_backup' = s_backup
          /\ own' = own /\ draft' = draft /\ strayed' = strayed
      BY DEF Enter, line, browsing
    <3>2. /\ cursor_pos \in 0 .. Len(buffer) /\ s_history_index \in 0 .. n
          /\ s_backup \in Lines /\ draft \in Lines /\ own \in BOOLEAN
          /\ strayed \in BOOLEAN
      BY DEF IInv, TypeOK
    <3>3. s_history_index' \in 0 .. s_history_count' /\ s_history_count' \in Nat
      BY <1>1, <2>1, <3>1, <3>2
    <3>4. s_history' \in [Slots -> Lines]
      BY <1>1, <2>1, <2>4
    <3> QED BY <1>1, <1>2, <2>3, <3>1, <3>2, <3>3, <3>4 DEF TypeOK
  <2>6. RingIsTail'
    <3>1. ASSUME NEW i \in Oldest' .. n
          PROVE  s_history'[i % MaxHistory] = log'[i + 1]
      <4>1. i \in Nat /\ n - i < MaxHistory
        BY <1>1, <2>1 DEF Oldest
      <4>2. CASE i = n
        BY <4>2, <2>1, <2>3, <2>4
      <4>3. CASE i < n
        <5>1. i % MaxHistory # n % MaxHistory
          BY <4>1, <4>3, <1>1, SlotsDiffer
        <5>2. i % MaxHistory \in Slots
          BY <4>1, SlotInRing
        <5>3. s_history'[i % MaxHistory] = s_history[i % MaxHistory]
          BY <5>1, <5>2, <2>1, <2>4
        <5>4. i \in Oldest .. n - 1
          BY <4>1, <4>3, <1>1 DEF Oldest
        <5>5. s_history[i % MaxHistory] = log[i + 1]
          BY <5>4 DEF IInv, RingIsTail
        <5>6. log'[i + 1] = log[i + 1]
          BY <4>1, <4>3, <1>1, <2>3
        <5> QED BY <5>3, <5>5, <5>6
      <4>4. i <= n
        BY <1>1
      <4> QED BY <4>1, <4>2, <4>3, <4>4, <1>1
    <3>2. reading' = FALSE /\ n' - 1 = n
      BY <1>1, <2>1 DEF Enter
    <3> HIDE DEF n
    <3>3. \A i \in Oldest' .. n' - 1 : s_history'[i % MaxHistory] = log'[i + 1]
      BY <3>1, <3>2
    <3>4. Len(log') = n'
      BY <2>1, <2>3
    <3> QED BY <3>2, <3>3, <3>4 DEF RingIsTail, n
  <2>7. NoRepeats'
    <3>1. ASSUME NEW i \in 1 .. n + 1
          PROVE  log'[i] # <<>> /\ (i > 1 => log'[i] # log'[i - 1])
      <4>1. CASE i <= n
        <5>1. i \in DOMAIN log
          BY <4>1, <1>1, <2>2, LenProperties
        <5>2. log[i] # <<>> /\ (i > 1 => log[i] # log[i - 1])
          BY <5>1 DEF IInv, NoRepeats
        <5> QED BY <5>2, <4>1, <1>1, <2>3
      <4>2. CASE i = n + 1
        <5>1. log'[i] # <<>>
          BY <4>2, <2>1, <2>3
        <5>2. ASSUME i > 1 PROVE log'[i] # log'[i - 1]
          <6>1. n > 0 /\ n - 1 \in Oldest .. n - 1
            BY <4>2, <5>2, <1>1 DEF Oldest
          <6>2. s_history[(n - 1) % MaxHistory] = log[(n - 1) + 1]
            BY <6>1 DEF IInv, RingIsTail
          <6>3. (n - 1) + 1 = n /\ i - 1 = n /\ n \in 1 .. n
            BY <6>1, <4>2, <1>1
          <6>4. log'[i - 1] = s_history[(n - 1) % MaxHistory]
            BY <6>2, <6>3, <2>3
          <6> QED BY <6>1, <6>4, <4>2, <2>1, <2>3 DEF Repeated
        <5> QED BY <5>1, <5>2
      <4> QED BY <4>1, <4>2, <1>1
    <3>2. DOMAIN log' = 1 .. n + 1
      BY <2>3, LenProperties
    <3> HIDE DEF n
    <3> QED BY <3>1, <3>2 DEF NoRepeats
  <2> QED BY <2>5, <2>6, <2>7, <1>3 DEF IInv
<1> QED BY <1>4, <1>5

LEMMA MoveKeeps ==
  ASSUME IInv, NEW n \in Int, reading, buffer' = buffer, cursor_pos' = cursor_pos - n,
         cursor_pos' \in 0 .. Len(buffer), Draw(Back(screen, n), cursor_pos')
  PROVE  Shown
<1>1. buffer \in Lines
  BY DEF IInv, TypeOK
<1>2. lost \in BOOLEAN /\ screen \in Row /\ (~ lost => Exact(screen, buffer))
  BY RowNow
<1>3. Back(screen, n) \in Row /\ Back(screen, n).text = screen.text
  BY <1>2, BackRow
<1>4. ~ lost /\ Back(screen, n).col = cursor_pos' =>
        Back(screen, n) \in Row /\ Exact(Back(screen, n), buffer)
  BY <1>2, <1>3 DEF Exact
<1>5. /\ screen' \in [text : [Columns -> Chars], col : Columns]
      /\ lost' \in BOOLEAN
      /\ ~ lost' => screen'.col = cursor_pos' /\ Exact(screen', buffer)
  BY <1>1, <1>2, <1>4, DrawKeeps
<1> QED BY <1>1, <1>5 DEF Shown

LEMMA LeftKeeps == ASSUME IInv, Left PROVE IInv'
<1>1. cursor_pos \in Nat /\ cursor_pos <= Len(buffer) /\ Len(buffer) \in Nat
  BY RowNow DEF Left
<1>2. Shown
  BY <1>1, MoveKeeps DEF Left
<1> QED BY <1>2, EditKeeps DEF Left, history, browsing

LEMMA RightKeeps == ASSUME IInv, Right PROVE IInv'
<1>1. cursor_pos \in Nat /\ cursor_pos <= Len(buffer) /\ Len(buffer) \in Nat
  BY RowNow DEF Right
<1>2. cursor_pos' = cursor_pos - (-1)
  BY <1>1 DEF Right
<1>3. Shown
  BY <1>1, <1>2, MoveKeeps DEF Right
<1> QED BY <1>3, EditKeeps DEF Right, history, browsing

LEMMA TabNoneKeeps == ASSUME IInv, TabNone PROVE IInv'
<1>1. /\ buffer \in Lines /\ lost \in BOOLEAN /\ screen \in Row
      /\ (~ lost => Exact(screen, buffer)) /\ Len(buffer) \in Nat
  BY RowNow DEF IInv, TypeOK, TabNone
<1>2. Len(buffer) \in 0 .. Len(buffer)
  BY <1>1
<1>3. /\ screen' \in [text : [Columns -> Chars], col : Columns] /\ lost' \in BOOLEAN
      /\ ~ lost' => screen'.col = Len(buffer) /\ Exact(screen', buffer)
  BY <1>1, <1>2, DrawKeeps DEF TabNone
<1>4. Shown
  BY <1>1, <1>2, <1>3 DEF Shown, TabNone
<1> QED BY <1>4, EditKeeps DEF TabNone, history, browsing

LEMMA TabManyKeeps == ASSUME IInv, TabMany PROVE IInv'
<1>1. buffer \in Lines /\ Len(buffer) \in 0 .. Len(buffer)
  BY RowNow DEF IInv, TypeOK, TabMany
<1>2. /\ screen' \in [text : [Columns -> Chars], col : Columns] /\ lost' = FALSE
      /\ screen'.col = Len(buffer) /\ Exact(screen', buffer)
  BY <1>1, DrawAnewShows DEF TabMany
<1>3. Shown
  BY <1>1, <1>2 DEF Shown, TabMany
<1> QED BY <1>3, EditKeeps DEF TabMany, history, browsing

LEMMA TypeKeeps == ASSUME IInv, NEW c \in Chars, Type(c) PROVE IInv'
<1> DEFINE k == cursor_pos
           L == Len(buffer)
           t == Append(Before, c) \o After
           u == <<c>> \o After
           w == Put(screen, u)
           scr == Back(w, Len(After))
<1>1. /\ buffer \in Seq(Chars) /\ L \in Nat /\ L < Size - 1 /\ Size \in Nat
      /\ k \in Nat /\ k <= L /\ k \in 0 .. L
      /\ screen \in Row /\ lost \in BOOLEAN /\ (~ lost => screen.col = k /\ Exact(screen, buffer))
  BY RowNow, EditorAssumption DEF Type, Room
<1>2. buffer' = t /\ cursor_pos' = k + 1 /\ Draw(scr, k + 1)
  BY DEF Type
<1>3. /\ t \in Seq(Chars) /\ Len(t) = L + 1
      /\ \A i \in 1 .. L + 1 :
           t[i] = IF i <= k THEN buffer[i] ELSE IF i = k + 1 THEN c ELSE buffer[i - 1]
      /\ u \in Seq(Chars) /\ Len(u) = L - k + 1
      /\ \A j \in 1 .. L - k + 1 : u[j] = t[k + j]
  <2>1. buffer \in Seq(Chars) /\ k \in 0 .. Len(buffer)
    BY <1>1
  <2> QED BY <2>1, Inserted DEF Before, After
<1>4. Len(After) \in Int
  BY <1>1, Cut DEF After
<1> HIDE DEF t, u
<1>5. /\ w \in Row
      /\ \A i \in Columns : w.text[i] =
           IF screen.col <= i /\ i < screen.col + Len(u) THEN u[i - screen.col + 1] ELSE screen.text[i]
  BY <1>1, <1>3, PutRow
<1> HIDE DEF w
<1>6. scr \in Row /\ scr.text = w.text
  BY <1>1, <1>4, <1>5, BackRow
<1> HIDE DEF scr
<1>7. Columns = 0 .. Size
  BY DEF Columns
<1>8. ASSUME ~ lost PROVE Exact(scr, t)
  <2> SUFFICES ASSUME NEW i \in Columns
               PROVE  scr.text[i] = IF i < L + 1 THEN t[i + 1] ELSE Space
    BY <1>3 DEF Exact
  <2>1. screen.col = k /\ screen.text[i] = IF i < L THEN buffer[i + 1] ELSE Space
    BY <1>1, <1>8 DEF Exact
  <2>2. scr.text[i] = IF k <= i /\ i < k + (L - k + 1) THEN u[i - k + 1] ELSE screen.text[i]
    BY <1>3, <1>5, <1>6, <2>1
  <2>3. CASE i < k
    <3>1. i + 1 \in 1 .. L + 1 /\ i + 1 <= k /\ i < L
      BY <2>3, <1>1, <1>7
    <3>2. t[i + 1] = buffer[i + 1]
      BY <3>1, <1>3
    <3>3. ~ (k <= i) /\ i < L + 1
      BY <2>3, <3>1, <1>1, <1>7
    <3> QED BY <2>1, <2>2, <3>1, <3>2, <3>3
  <2>4. CASE k <= i /\ i < L + 1
    <3>1. i - k + 1 \in 1 .. L - k + 1 /\ k + (i - k + 1) = i + 1 /\ i < k + (L - k + 1)
      BY <2>4, <1>1, <1>7
    <3>2. u[i - k + 1] = t[i + 1]
      BY <3>1, <1>3
    <3> QED BY <2>2, <2>4, <3>1, <3>2
  <2>5. CASE i >= L + 1
    BY <2>1, <2>2, <2>5, <1>1, <1>7
  <2> QED BY <2>3, <2>4, <2>5, <1>1, <1>7
<1>9. t \in Lines /\ k + 1 \in 0 .. Len(t)
  BY <1>1, <1>3, LinesAreShort
<1>10. /\ screen' \in [text : [Columns -> Chars], col : Columns] /\ lost' \in BOOLEAN
       /\ ~ lost' => screen'.col = k + 1 /\ Exact(screen', t)
  BY <1>1, <1>2, <1>6, <1>8, <1>9, DrawKeeps
<1>11. Shown
  BY <1>2, <1>9, <1>10 DEF Shown
<1> QED BY <1>11, EditKeeps DEF Type, history, browsing

LEMMA BackspaceKeeps == ASSUME IInv, Backspace PROVE IInv'
<1> DEFINE k == cursor_pos
           L == Len(buffer)
           t == SubSeq(buffer, 1, k - 1) \o After
           u == Append(After, Space)
           b == Back(screen, 1)
           w == Put(b, u)
           scr == Back(w, Len(After) + 1)
<1>1. /\ buffer \in Seq(Chars) /\ L \in Nat /\ L <= Size - 1 /\ Size \in Nat
      /\ k \in Nat /\ 1 <= k /\ k <= L /\ k \in 1 .. L
      /\ screen \in Row /\ lost \in BOOLEAN /\ (~ lost => screen.col = k /\ Exact(screen, buffer))
  BY RowNow, EditorAssumption DEF Backspace
<1>2. buffer' = t /\ cursor_pos' = k - 1 /\ Draw(scr, k - 1)
  BY DEF Backspace
<1>3. /\ t \in Seq(Chars) /\ Len(t) = L - 1
      /\ \A i \in 1 .. L - 1 : t[i] = IF i < k THEN buffer[i] ELSE buffer[i + 1]
      /\ u \in Seq(Chars) /\ Len(u) = L - k + 1
      /\ \A j \in 1 .. L - k : u[j] = t[k - 1 + j]
      /\ u[L - k + 1] = Space
  BY <1>1, Removed DEF After
<1>4. Len(After) + 1 \in Int
  BY <1>1, Cut DEF After
<1> HIDE DEF t, u
<1>5. b \in Row /\ b.text = screen.text /\ b.col = screen.col - 1
  BY <1>1, BackRow
<1> HIDE DEF b
<1>6. /\ w \in Row
      /\ \A i \in Columns : w.text[i] =
           IF b.col <= i /\ i < b.col + Len(u) THEN u[i - b.col + 1] ELSE b.text[i]
  BY <1>3, <1>5, PutRow
<1> HIDE DEF w
<1>7. scr \in Row /\ scr.text = w.text
  BY <1>4, <1>6, BackRow
<1> HIDE DEF scr
<1>8. Columns = 0 .. Size
  BY DEF Columns
<1>9. ASSUME ~ lost PROVE Exact(scr, t)
  <2> SUFFICES ASSUME NEW i \in Columns
               PROVE  scr.text[i] = IF i < L - 1 THEN t[i + 1] ELSE Space
    BY <1>3 DEF Exact
  <2>1. b.col = k - 1 /\ b.text[i] = IF i < L THEN buffer[i + 1] ELSE Space
    BY <1>1, <1>5, <1>9 DEF Exact
  <2>2. scr.text[i] = IF k - 1 <= i /\ i < k - 1 + (L - k + 1) THEN u[i - (k - 1) + 1] ELSE b.text[i]
    BY <1>3, <1>6, <1>7, <2>1
  <2>3. CASE i < k - 1
    <3>1. i + 1 \in 1 .. L - 1 /\ i + 1 < k /\ i < L - 1 /\ i < L
      BY <2>3, <1>1, <1>8
    <3>2. t[i + 1] = buffer[i + 1]
      BY <3>1, <1>3
    <3>3. ~ (k - 1 <= i)
      BY <2>3, <1>1, <1>8
    <3> QED BY <2>1, <2>2, <3>1, <3>2, <3>3
  <2>4. CASE k - 1 <= i /\ i < L - 1
    <3>1. i - (k - 1) + 1 \in 1 .. L - k /\ k - 1 + (i - (k - 1) + 1) = i + 1
          /\ i < k - 1 + (L - k + 1)
      BY <2>4, <1>1, <1>8
    <3>2. u[i - (k - 1) + 1] = t[i + 1]
      BY <3>1, <1>3
    <3> QED BY <2>2, <2>4, <3>1, <3>2
  <2>5. CASE i = L - 1
    <3>1. i - (k - 1) + 1 = L - k + 1 /\ k - 1 <= i /\ i < k - 1 + (L - k + 1) /\ ~ (i < L - 1)
      BY <2>5, <1>1
    <3> QED BY <2>2, <3>1, <1>3
  <2>6. CASE i >= L
    BY <2>1, <2>2, <2>6, <1>1, <1>8
  <2> QED BY <2>3, <2>4, <2>5, <2>6, <1>1, <1>8
<1>10. t \in Lines /\ k - 1 \in 0 .. Len(t)
  BY <1>1, <1>3, LinesAreShort
<1>11. /\ screen' \in [text : [Columns -> Chars], col : Columns] /\ lost' \in BOOLEAN
       /\ ~ lost' => screen'.col = k - 1 /\ Exact(screen', t)
  BY <1>1, <1>2, <1>7, <1>9, <1>10, DrawKeeps
<1>12. Shown
  BY <1>2, <1>10, <1>11 DEF Shown
<1> QED BY <1>12, EditKeeps DEF Backspace, history, browsing

LEMMA TabOneKeeps ==
  ASSUME IInv, NEW s \in Suffixes, NEW d \in BOOLEAN, TabOne(s, d)
  PROVE  IInv'
<1> DEFINE L == Len(buffer)
           a == IF d THEN Append(s, Slash) ELSE s
           t == buffer \o a
           w == Put(screen, a)
<1>1. /\ buffer \in Seq(Chars) /\ L \in Nat /\ Size \in Nat
      /\ screen \in Row /\ lost \in BOOLEAN /\ (~ lost => Exact(screen, buffer))
      /\ s \in Seq(Chars) /\ Slash \in Chars /\ Len(s) \in Nat
  BY RowNow, EditorAssumption, LenProperties DEF TabOne
<1>2. buffer' = t /\ cursor_pos' = Len(t) /\ Draw(w, Len(t)) /\ L + Len(s) < Size - 1
  BY DEF TabOne
<1>3. a \in Seq(Chars) /\ Len(a) \in Nat /\ Len(a) <= Len(s) + 1
  BY <1>1, Appended
<1> HIDE DEF a
<1>4. /\ t \in Seq(Chars) /\ Len(t) = L + Len(a)
      /\ \A i \in 1 .. L + Len(a) : t[i] = IF i <= L THEN buffer[i] ELSE a[i - L]
  BY <1>1, <1>3, Joined
<1> HIDE DEF t
<1>5. /\ w \in Row /\ w.col = screen.col + Len(a)
      /\ \A i \in Columns : w.text[i] =
           IF screen.col <= i /\ i < screen.col + Len(a) THEN a[i - screen.col + 1] ELSE screen.text[i]
  BY <1>1, <1>3, PutRow
<1> HIDE DEF w
<1>6. Columns = 0 .. Size /\ screen.col \in Int
  BY <1>1 DEF Columns, Row
<1>7. ASSUME ~ lost, w.col = Len(t) PROVE Exact(w, t)
  <2> SUFFICES ASSUME NEW i \in Columns
               PROVE  w.text[i] = IF i < L + Len(a) THEN t[i + 1] ELSE Space
    BY <1>4 DEF Exact
  <2>1. screen.col = L /\ screen.text[i] = IF i < L THEN buffer[i + 1] ELSE Space
    BY <1>1, <1>3, <1>4, <1>5, <1>6, <1>7 DEF Exact
  <2>2. w.text[i] = IF L <= i /\ i < L + Len(a) THEN a[i - L + 1] ELSE screen.text[i]
    BY <1>5, <2>1
  <2>3. CASE i < L
    <3>1. i + 1 \in 1 .. L + Len(a) /\ i + 1 <= L /\ i < L + Len(a)
      BY <2>3, <1>1, <1>3, <1>6
    <3>2. t[i + 1] = buffer[i + 1]
      BY <3>1, <1>4
    <3>3. ~ (L <= i)
      BY <2>3, <1>1, <1>6
    <3> QED BY <2>1, <2>2, <2>3, <3>1, <3>2, <3>3
  <2>4. CASE L <= i /\ i < L + Len(a)
    <3>1. i + 1 \in 1 .. L + Len(a) /\ ~ (i + 1 <= L) /\ i + 1 - L = i - L + 1
      BY <2>4, <1>1, <1>3, <1>6
    <3>2. i \in Int /\ L \in Int
      BY <1>1, <1>6
    <3>3. t[i + 1] = a[i - L + 1]
      BY <3>1, <3>2, <1>4
    <3> QED BY <2>2, <2>4, <3>3
  <2>5. CASE i >= L + Len(a)
    BY <2>1, <2>2, <2>5, <1>1, <1>3, <1>6
  <2> QED BY <2>3, <2>4, <2>5, <1>1, <1>3, <1>6
<1>8. t \in Lines /\ Len(t) \in 0 .. Len(t)
  BY <1>1, <1>2, <1>3, <1>4, LinesAreShort
<1>9. /\ screen' \in [text : [Columns -> Chars], col : Columns] /\ lost' \in BOOLEAN
      /\ ~ lost' => screen'.col = Len(t) /\ Exact(screen', t)
  BY <1>1, <1>2, <1>5, <1>7, <1>8, DrawKeeps
<1>10. Shown
  BY <1>2, <1>8, <1>9 DEF Shown
<1> QED BY <1>10, EditKeeps DEF TabOne, history, browsing

\* A line of the history replaces the old one on the row, to its last column.
LEMMA RecallShows ==
  ASSUME IInv, reading, NEW s \in Lines, Recall(s)
  PROVE  Shown
<1> DEFINE k == cursor_pos
           L == Len(buffer)
           e == Back(screen, k - L)
           r == RubOut(e, L)
           w == Put(r, s)
<1>1. /\ L \in Nat /\ L <= Size - 1 /\ Size \in Nat
      /\ k \in Nat /\ k <= L /\ k - L \in Int
      /\ screen \in Row /\ lost \in BOOLEAN /\ (~ lost => screen.col = k /\ Exact(screen, buffer))
      /\ s \in Seq(Chars) /\ Len(s) \in Nat
  BY RowNow, LinesAreShort, LenProperties, EditorAssumption
<1>2. buffer' = s /\ cursor_pos' = Len(s) /\ Draw(w, Len(s))
  BY DEF Recall
<1>3. e \in Row /\ e.text = screen.text /\ e.col = screen.col - (k - L)
  BY <1>1, BackRow
<1> HIDE DEF e
<1>4. /\ r \in Row /\ r.col = e.col - L
      /\ \A i \in Columns : r.text[i] =
           IF e.col - L <= i /\ i < e.col THEN Space ELSE e.text[i]
  BY <1>1, <1>3, RubOutRow
<1> HIDE DEF r
<1>5. /\ w \in Row
      /\ \A i \in Columns : w.text[i] =
           IF r.col <= i /\ i < r.col + Len(s) THEN s[i - r.col + 1] ELSE r.text[i]
  BY <1>1, <1>4, PutRow
<1> HIDE DEF w
<1>6. Columns = 0 .. Size
  BY DEF Columns
<1>7. ASSUME ~ lost PROVE Exact(w, s)
  <2> SUFFICES ASSUME NEW i \in Columns
               PROVE  w.text[i] = IF i < Len(s) THEN s[i + 1] ELSE Space
    BY DEF Exact
  <2>1. e.col = L /\ r.col = 0 /\ i \in Nat
    BY <1>1, <1>3, <1>4, <1>6, <1>7
  <2>2. screen.text[i] = IF i < L THEN buffer[i + 1] ELSE Space
    BY <1>1, <1>7 DEF Exact
  <2>3. r.text[i] = IF L - L <= i /\ i < L THEN Space ELSE screen.text[i]
    BY <1>3, <1>4, <2>1
  <2>4. r.text[i] = Space
    BY <1>1, <2>1, <2>2, <2>3
  <2>5. w.text[i] = IF 0 <= i /\ i < 0 + Len(s) THEN s[i - 0 + 1] ELSE r.text[i]
    BY <1>5, <2>1
  <2>6. 0 <= i /\ i - 0 + 1 = i + 1 /\ 0 + Len(s) = Len(s)
    BY <1>1, <2>1
  <2> QED BY <2>4, <2>5, <2>6
<1>8. Len(s) \in 0 .. Len(s)
  BY <1>1
<1>9. /\ screen' \in [text : [Columns -> Chars], col : Columns] /\ lost' \in BOOLEAN
      /\ ~ lost' => screen'.col = Len(s) /\ Exact(screen', s)
  BY <1>1, <1>2, <1>5, <1>7, <1>8, DrawKeeps
<1> QED BY <1>2, <1>8, <1>9 DEF Shown

LEMMA UpKeeps == ASSUME IInv, Up PROVE IInv'
<1> DEFINE s == s_history[s_history_index' % MaxHistory]
<1>1. /\ s_history_count \in Nat /\ s_history_index \in 0 .. s_history_count
      /\ s_history \in [Slots -> Lines] /\ buffer \in Lines /\ s_backup \in Lines
      /\ draft \in Lines
  BY DEF IInv, TypeOK
<1>2. s_history_index' \in Oldest .. s_history_count
  BY <1>1, EditorAssumption DEF Up, MayGoUp, Oldest
<1>3. s_history_index' \in Nat
  BY <1>1, <1>2, EditorAssumption DEF Oldest
<1>4. s \in Lines
  BY <1>1, <1>3, SlotInRing
<1>5. reading /\ Recall(s)
  BY DEF Up
<1> HIDE DEF s
<1>6. Shown
  BY <1>4, <1>5, RecallShows
<1>7. /\ s_backup' \in Lines /\ draft' \in Lines /\ own' \in BOOLEAN
      /\ strayed' \in BOOLEAN
  BY <1>1 DEF IInv, TypeOK, Up
<1> QED BY <1>2, <1>5, <1>6, <1>7, WalkKeeps DEF Up

LEMMA DownKeeps == ASSUME IInv, Down PROVE IInv'
<1> DEFINE s == IF s_history_index' = s_history_count THEN s_backup
                ELSE s_history[s_history_index' % MaxHistory]
<1>1. /\ s_history_count \in Nat /\ s_history_index \in 0 .. s_history_count
      /\ s_history \in [Slots -> Lines] /\ buffer \in Lines /\ s_backup \in Lines
      /\ draft \in Lines
  BY DEF IInv, TypeOK
<1>2. s_history_index >= Oldest /\ Oldest \in Nat
  BY <1>1, EditorAssumption DEF IInv, RingIsTail, Oldest, Down
<1>3. s_history_index' \in Oldest .. s_history_count /\ s_history_index' \in Nat
  BY <1>1, <1>2 DEF Down
<1>4. s \in Lines
  BY <1>1, <1>3, SlotInRing
<1>5. reading /\ Recall(s)
  BY DEF Down
<1> HIDE DEF s
<1>6. Shown
  BY <1>4, <1>5, RecallShows
<1>7. /\ s_backup' \in Lines /\ draft' \in Lines /\ own' \in BOOLEAN
      /\ strayed' \in BOOLEAN
  BY <1>1, EmptyLine DEF IInv, TypeOK, Down
<1> QED BY <1>3, <1>5, <1>6, <1>7, WalkKeeps DEF Down

-----------------------------------------------------------------------------
(* Theorems *)

LEMMA Initially == Init => IInv
<1> SUFFICES ASSUME Init PROVE IInv
  OBVIOUS
<1> USE DEF Init
<1>1. TypeOK
  <2>1. [i \in Slots |-> <<>>] \in [Slots -> Lines]
    BY EmptyLine
  <2>2. log \in Seq(Lines)
    BY EmptySeq
  <2>3. 0 \in 0 .. Len(buffer) /\ 0 \in 0 .. s_history_count
    BY EmptyLine
  <2> QED BY <2>1, <2>2, <2>3, EmptyLine, ClearRow DEF TypeOK
<1>2. RingIsTail
  BY EditorAssumption, EmptyLine DEF RingIsTail, Oldest
<1>3. NoRepeats
  BY DEF NoRepeats
<1>4. EchoExact
  BY DEF EchoExact, Matches
<1> QED BY <1>1, <1>2, <1>3, <1>4 DEF IInv

LEMMA Kept == IInv /\ [Next]_vars => IInv'
<1> SUFFICES ASSUME IInv, [Next]_vars PROVE IInv'
  OBVIOUS
<1>1. CASE Begin
  BY <1>1, BeginKeeps
<1>2. CASE Enter
  BY <1>2, EnterKeeps
<1>3. CASE Esc
  BY <1>3, EscKeeps
<1>4. CASE Backspace
  BY <1>4, BackspaceKeeps
<1>5. CASE Left
  BY <1>5, LeftKeeps
<1>6. CASE Right
  BY <1>6, RightKeeps
<1>7. ASSUME NEW c \in Chars, Type(c) PROVE IInv'
  BY <1>7, TypeKeeps
<1>8. CASE TabNone
  BY <1>8, TabNoneKeeps
<1>9. ASSUME NEW s \in Suffixes, NEW d \in BOOLEAN, TabOne(s, d) PROVE IInv'
  BY <1>9, TabOneKeeps
<1>10. CASE TabMany
  BY <1>10, TabManyKeeps
<1>11. CASE Up
  BY <1>11, UpKeeps
<1>12. CASE Down
  BY <1>12, DownKeeps
<1>13. CASE UNCHANGED vars
  BY <1>13 DEF vars, line, history, browsing, IInv, TypeOK, RingIsTail, Oldest, NoRepeats, EchoExact, Matches
<1> QED BY <1>1, <1>2, <1>3, <1>4, <1>5, <1>6, <1>7, <1>8, <1>9, <1>10, <1>11, <1>12, <1>13 DEF Next

\* Whatever the keys, the line, the ring and the row hold together.
THEOREM Invariance == Spec => []IInv
BY Initially, Kept, PTL DEF Spec

\* The line and its cursor stay in the buffer (cli_get_input), for every size.
THEOREM TypeCorrect == Spec => []TypeOK
BY Invariance, PTL DEF IInv

\* The ring of add_to_history holds the last lines entered, and the walk of UP
\* and DOWN stays among them.
THEOREM HistoryIsTail == Spec => []RingIsTail
BY Invariance, PTL DEF IInv

\* add_to_history keeps no empty line, and none twice in a row, across every wrap.
THEOREM HistoryNoRepeats == Spec => []NoRepeats
BY Invariance, PTL DEF IInv

\* While the terminal's cursor is where the line's is, the terminal shows the line.
THEOREM TerminalShowsLine == Spec => []EchoExact
BY Invariance, PTL DEF IInv

-----------------------------------------------------------------------------
(* The walk and the draft *)

LEMMA Steps ==
  [Next]_vars => \/ Begin \/ Enter \/ Esc \/ Up \/ Down
                 \/ UNCHANGED <<reading, history, browsing>>
BY DEF Next, vars, Backspace, Left, Right, Type, TabNone, TabOne, TabMany

LEMMA OnlyWalkMoves ==
  ASSUME [Next]_vars, reading, s_history_index' # s_history_index
  PROVE  Up \/ Down
<1>1. ~ Begin
  BY DEF Begin
<1>2. ~ Enter
  BY DEF Enter, browsing
<1>3. ~ Esc
  BY DEF Esc
<1>4. ~ UNCHANGED <<reading, history, browsing>>
  BY DEF browsing
<1> QED BY <1>1, <1>2, <1>3, <1>4, Steps

\* The step that leaves the place in the history, and so moves it to a line of the
\* ring, is UP or DOWN.
THEOREM WalkShowsHistory == Spec => WalkShowsLog
<1> DEFINE Shows == (reading /\ s_history_index' # s_history_index
                      /\ s_history_index' < s_history_count) =>
                       buffer' = log[s_history_index' + 1]
<1>1. ASSUME IInv, [Next]_vars PROVE [Shows]_vars
  <2> SUFFICES ASSUME reading, s_history_index' # s_history_index,
                      s_history_index' < s_history_count
               PROVE  buffer' = log[s_history_index' + 1]
    OBVIOUS
  <2>1. /\ s_history_count \in Nat /\ s_history_index \in 0 .. s_history_count
        /\ s_history_index >= Oldest /\ Oldest \in Nat
        /\ \A i \in Oldest .. s_history_count - 1 : s_history[i % MaxHistory] = log[i + 1]
    BY <1>1, EditorAssumption DEF IInv, TypeOK, RingIsTail, Oldest
  <2>2. CASE Up
    <3>1. s_history_index' \in Oldest .. s_history_count - 1
      BY <2>1, <2>2, EditorAssumption DEF Up, MayGoUp, Oldest
    <3> QED BY <2>1, <2>2, <3>1 DEF Up, Recall
  <2>3. CASE Down
    <3>1. s_history_index' \in Oldest .. s_history_count - 1
      BY <2>1, <2>3 DEF Down
    <3> QED BY <2>1, <2>3, <3>1 DEF Down, Recall
  <2>4. Up \/ Down
    BY <1>1, OnlyWalkMoves
  <2> QED BY <2>2, <2>3, <2>4
<1>2. Spec => [][Shows]_vars
  BY <1>1, Invariance, PTL DEF Spec
<1> QED BY <1>2 DEF WalkShowsLog

\* Where the walk stands off the end, and ESC has not been pressed there, the line is
\* one of the history and the saved line is the user's.
Saved == (reading /\ ~ strayed) =>
           /\ own <=> s_history_index = s_history_count
           /\ ~ own => s_backup = draft

LEMMA SavedKept == ASSUME IInv, Saved, [Next]_vars PROVE Saved'
<1>1. CASE Begin
  BY <1>1 DEF Begin, history, Saved
<1>2. CASE Enter
  BY <1>2 DEF Enter, Saved
<1>3. CASE Esc
  <2>1. s_history_count \in Nat /\ s_history_index \in 0 .. s_history_count
    BY DEF IInv, TypeOK
  <2>2. strayed' = (strayed \/ s_history_index < s_history_count)
    BY <1>3 DEF Esc
  <2>3. ~ strayed' => ~ (s_history_index < s_history_count)
    BY <2>2, Zenon
  <2>4. ~ strayed' => s_history_index = s_history_count
    BY <2>1, <2>3
  <2>5. /\ reading' = reading /\ s_history_count' = s_history_count
        /\ s_history_index' = s_history_index /\ own' = TRUE
    BY <1>3 DEF Esc, history
  <2> QED BY <2>4, <2>5 DEF Saved
<1>4. CASE UNCHANGED <<reading, history, browsing>>
  BY <1>4 DEF history, browsing, Saved
<1>5. CASE Up
  <2>1. s_history_count \in Nat /\ s_history_index \in 0 .. s_history_count
    BY DEF IInv, TypeOK
  <2>2. s_history_index' # s_history_count /\ s_history_count' = s_history_count
    BY <1>5, <2>1 DEF Up, history
  <2> QED BY <1>5, <2>2 DEF Up, Saved
<1>6. CASE Down
  <2>1. s_history_count' = s_history_count
    BY <1>6 DEF Down, history
  <2>2. s_history_index # s_history_count
    BY <1>6 DEF IInv, TypeOK, Down
  <2> QED BY <1>6, <2>1, <2>2 DEF Down, Saved
<1> QED BY <1>1, <1>2, <1>3, <1>4, <1>5, <1>6, Steps

\* What UP saves of a line being typed comes back when DOWN reaches the end of the
\* history, in every session in which ESC has not cleared a line of it before.
THEOREM DraftComesBack == Spec => DraftRestored
<1> DEFINE Returns == (reading /\ ~ own /\ ~ strayed /\ s_history_index' # s_history_index
                      /\ s_history_index' = s_history_count) => buffer' = draft
<1>1. Init => Saved
  BY DEF Init, Saved
<1>2. IInv /\ Saved /\ [Next]_vars => Saved'
  BY SavedKept
<1>3. ASSUME IInv, Saved, [Next]_vars PROVE [Returns]_vars
  <2> SUFFICES ASSUME reading, ~ own, ~ strayed, s_history_index' # s_history_index,
                      s_history_index' = s_history_count
               PROVE  buffer' = draft
    OBVIOUS
  <2>1. /\ s_history_count \in Nat /\ s_history_index \in 0 .. s_history_count
        /\ s_backup = draft
    BY <1>3 DEF IInv, TypeOK, Saved
  <2>2. CASE Up
    BY <2>1, <2>2 DEF Up
  <2>3. CASE Down
    BY <2>1, <2>3 DEF Down, Recall
  <2>4. Up \/ Down
    BY <1>3, OnlyWalkMoves
  <2> QED BY <2>2, <2>3, <2>4
<1>4. Spec => []IInv /\ []Saved
  BY <1>1, <1>2, Invariance, PTL DEF Spec
<1>5. Spec => [][Returns]_vars
  BY <1>3, <1>4, PTL DEF Spec
<1> QED BY <1>5 DEF DraftRestored

-----------------------------------------------------------------------------
(* The two cursors *)

\* Where a key draws with the terminal's cursor on cursor_pos, they stay together.
LEMMA DrawsTogether ==
  ASSUME NEW scr, NEW c, ~ lost, lost', Draw(scr, c)
  PROVE  scr.col # c
BY DEF Draw

\* A step that parts the two cursors is a TAB, from inside the line.
LEMMA OnlyTabParts ==
  ASSUME IInv, [Next]_vars, ~ lost, lost'
  PROVE  /\ cursor_pos < Len(buffer) /\ cursor_pos' = Len(buffer')
         /\ SubSeq(buffer', 1, Len(buffer)) = buffer
         /\ s_history_index' = s_history_index
<1> DEFINE k == cursor_pos
           L == Len(buffer)
<1>1. ~ (Begin \/ Enter \/ Esc \/ TabMany)
  BY DEF Begin, Enter, Esc, TabMany, DrawAnew
<1>2. ~ UNCHANGED vars
  BY DEF vars
<1>3. reading
  BY <1>1, <1>2 DEF Next, Backspace, Left, Right, Type, TabNone, TabOne, Up, Down
<1>4. /\ screen \in Row /\ screen.col = k /\ buffer \in Seq(Chars)
      /\ L \in Nat /\ k \in Nat /\ k <= L
  BY <1>3, RowNow
<1>5. screen.col \in Int /\ k \in 0 .. L
  BY <1>4
<1>6. ~ Left /\ ~ Right
  <2>1. Back(screen, 1).col = screen.col - 1 /\ Back(screen, -1).col = screen.col - (-1)
    BY <1>4 DEF Back, Row
  <2>2. Back(screen, 1).col = k - 1 /\ Back(screen, -1).col = k + 1
    BY <1>4, <2>1
  <2> QED BY <2>2, DrawsTogether DEF Left, Right
<1>7. ASSUME NEW c \in Chars PROVE ~ Type(c)
  <2> DEFINE u == <<c>> \o After
             w == Put(screen, u)
  <2>1. After \in Seq(Chars) /\ Len(After) = L - k
    BY <1>4, <1>5, Cut DEF After
  <2>2. <<c>> \in Seq(Chars) /\ Len(<<c>>) = 1
    OBVIOUS
  <2>3. u \in Seq(Chars) /\ Len(u) = 1 + (L - k)
    BY <2>1, <2>2, Joined
  <2> HIDE DEF u
  <2>4. w \in Row /\ w.col = k + (1 + (L - k))
    BY <1>4, <2>3, PutRow
  <2> HIDE DEF w
  <2>5. Len(After) \in Int
    BY <1>4, <2>1
  <2>6. Back(w, Len(After)).col = w.col - Len(After)
    BY <2>4, <2>5, BackRow
  <2>7. Back(w, Len(After)).col = k + 1
    BY <1>4, <2>1, <2>4, <2>6
  <2> QED BY <2>7, DrawsTogether DEF Type, w, u
<1>8. ~ Backspace
  <2> DEFINE b == Back(screen, 1)
             u == Append(After, Space)
             w == Put(b, u)
             n == Len(After) + 1
  <2>1. After \in Seq(Chars) /\ Len(After) = L - k
    BY <1>4, <1>5, Cut DEF After
  <2>2. b \in Row /\ b.col = screen.col - 1
    BY <1>4 DEF Back, Row
  <2> HIDE DEF b
  <2>3. u \in Seq(Chars) /\ Len(u) = L - k + 1
    BY <2>1, Appended, EditorAssumption
  <2> HIDE DEF u
  <2>4. w \in Row /\ w.col = b.col + Len(u)
    BY <2>2, <2>3, PutRow
  <2> HIDE DEF w
  <2>5. n \in Int /\ n = L - k + 1
    BY <1>4, <2>1
  <2> HIDE DEF n
  <2>6. Back(w, n).col = w.col - n
    BY <2>4, <2>5, BackRow
  <2>7. Back(w, n).col = k - 1
    BY <1>4, <2>2, <2>3, <2>4, <2>5, <2>6
  <2> QED BY <2>7, DrawsTogether DEF Backspace, w, u, b, n
<1>9. ASSUME NEW s \in Lines PROVE ~ Recall(s)
  <2> DEFINE e == Back(screen, k - L)
             r == RubOut(e, L)
             w == Put(r, s)
  <2>1. s \in Seq(Chars) /\ Len(s) \in Nat
    BY LinesAreShort, LenProperties
  <2>2. e \in Row /\ e.col = k - (k - L)
    <3>1. k - L \in Int
      BY <1>4
    <3> QED BY <1>4, <3>1, BackRow
  <2> HIDE DEF e
  <2>3. r \in Row /\ r.col = (k - (k - L)) - L
    BY <1>4, <2>2, RubOutRow
  <2> HIDE DEF r
  <2>4. w \in Row /\ w.col = (k - (k - L)) - L + Len(s)
    BY <2>1, <2>3, PutRow
  <2> HIDE DEF w
  <2>5. w.col = Len(s)
    BY <1>4, <2>1, <2>4
  <2> QED BY <2>5, DrawsTogether DEF Recall, w, r, e
<1>10. ~ Up /\ ~ Down
  <2>1. /\ s_history_count \in Nat /\ s_history_index \in 0 .. s_history_count
        /\ s_history \in [Slots -> Lines] /\ s_backup \in Lines
    BY DEF IInv, TypeOK
  <2>2. (Up \/ Down) => s_history_index' \in Nat
    BY <2>1, EditorAssumption DEF Up, MayGoUp, Down
  <2>3. s_history_index' \in Nat => s_history[s_history_index' % MaxHistory] \in Lines
    BY <2>1, SlotInRing
  <2> QED BY <1>9, <2>1, <2>2, <2>3 DEF Up, Down
<1>11. CASE TabNone
  <2>1. k # L
    BY <1>4, <1>11, DrawsTogether DEF TabNone
  <2>2. SubSeq(buffer, 1, Len(buffer)) = buffer
    BY <1>4
  <2> QED BY <1>4, <1>11, <2>1, <2>2 DEF TabNone, browsing
<1>12. CASE \E s \in Suffixes, d \in BOOLEAN : TabOne(s, d)
  <2>1. PICK s \in Suffixes, d \in BOOLEAN : TabOne(s, d)
    BY <1>12
  <2> DEFINE a == IF d THEN Append(s, Slash) ELSE s
             w == Put(screen, a)
  <2>2. /\ buffer' = buffer \o a /\ cursor_pos' = Len(buffer') /\ Draw(w, Len(buffer'))
        /\ s_history_index' = s_history_index
    BY <2>1 DEF TabOne, browsing
  <2>3. a \in Seq(Chars) /\ Len(a) \in Nat
    <3>1. s \in Seq(Chars) /\ Append(s, Slash) \in Seq(Chars)
      BY EditorAssumption, Appended
    <3> QED BY <3>1, LenProperties
  <2> HIDE DEF a
  <2>4. w.col = k + Len(a)
    BY <1>4, <2>3, PutRow
  <2> HIDE DEF w
  <2>5. /\ buffer' \in Seq(Chars) /\ Len(buffer') = L + Len(a)
        /\ \A i \in 1 .. L : buffer'[i] = buffer[i]
    <3>1. \A i \in 1 .. L : i \in 1 .. L + Len(a) /\ i <= L
      BY <1>4, <2>3
    <3> QED BY <1>4, <2>2, <2>3, <3>1, Joined
  <2>6. k # L
    BY <1>4, <2>2, <2>3, <2>4, <2>5, DrawsTogether
  <2>7. SubSeq(buffer', 1, L) = buffer
    <3>1. L \in 0 .. Len(buffer')
      BY <1>4, <2>3, <2>5
    <3>2. /\ SubSeq(buffer', 1, L) \in Seq(Chars) /\ Len(SubSeq(buffer', 1, L)) = L
          /\ \A i \in 1 .. L : SubSeq(buffer', 1, L)[i] = buffer'[i]
      BY <2>5, <3>1, Cut
    <3> DEFINE t == SubSeq(buffer', 1, L)
    <3>3. t \in Seq(Chars) /\ Len(t) = Len(buffer) /\ \A i \in 1 .. Len(t) : t[i] = buffer[i]
      BY <2>5, <3>2
    <3> HIDE DEF t
    <3>4. t = buffer
      BY <1>4, <3>3, SeqEqual
    <3> QED BY <3>4 DEF t
  <2>8. k < L
    BY <1>4, <2>6
  <2> QED BY <2>2, <2>7, <2>8
<1> QED BY <1>1, <1>2, <1>6, <1>7, <1>8, <1>10, <1>11, <1>12 DEF Next

\* No editing key and no step through the history puts the terminal's cursor apart
\* from the line's: only a TAB inside the line does.
THEOREM OnlyTabLosesCursor == Spec => LostInside
<1>1. IInv /\ [Next]_vars =>
        [ (~ lost /\ lost') => /\ cursor_pos < Len(buffer) /\ cursor_pos' = Len(buffer')
                              /\ SubSeq(buffer', 1, Len(buffer)) = buffer
                              /\ s_history_index' = s_history_index ]_vars
  BY OnlyTabParts
<1> QED BY <1>1, Invariance, PTL DEF Spec, LostInside
=============================================================================
