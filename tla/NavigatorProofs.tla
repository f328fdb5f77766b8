-------------------------- MODULE NavigatorProofs --------------------------
(***************************************************************************)
(* What holds of the node tree and of the shell above it for any heap, any *)
(* image, any paths and any faults.                                        *)
(*                                                                         *)
(*   1. naturals, sequences and folds                                      *)
(*   2. the driver's node tree: its inductive invariant, and what a        *)
(*      listing builds (NodeTree)                                          *)
(*   3. objects by their names, walks along paths                          *)
(*   4. what a search finds                                                *)
(*   5. the shell implements the caller that NodeTree assumes: every step  *)
(*      of the shell is a step of NodeTree or leaves the driver alone      *)
(*   6. where the shell stands, and where cd and cat lead                  *)
(***************************************************************************)
EXTENDS Navigator, FiniteSetTheorems, SequenceTheorems, WellFoundedInduction, TLAPS

-----------------------------------------------------------------------------
(* 1. Naturals, sequences and folds *)

\* Every non-empty set of naturals has a least element.
LEMMA LeastNat ==
  ASSUME NEW T \in SUBSET Nat, T # {}
  PROVE  \E x \in T : \A y \in T : x <= y
<1> DEFINE R == {ss \in Nat \X Nat : ss[1] < ss[2]}
<1>1. IsWellFoundedOn(R, Nat)
  BY NatLessThanWellFounded, Zenon DEF OpToRel
<1>2. \E x \in T : \A y \in T : ~ (<<y, x>> \in R)
  <2> HIDE DEF R
  <2> QED BY <1>1, WFMin
<1>3. PICK x \in T : \A y \in T : ~ (<<y, x>> \in R)
  BY <1>2
<1>4. ASSUME NEW y \in T PROVE x <= y
  <2>1. x \in Nat /\ y \in Nat /\ ~ (<<y, x>> \in R)
    BY <1>3
  <2> QED BY <2>1
<1> QED BY <1>3, <1>4

\* A set that holds 0, and with each natural the next, has all of them.
LEMMA Induction ==
  ASSUME NEW S, 0 \in S, \A n \in Nat : n \in S => n + 1 \in S
  PROVE  \A n \in Nat : n \in S
<1> SUFFICES ASSUME NEW n \in Nat, n \notin S PROVE FALSE
  OBVIOUS
<1>1. Nat \ S \in SUBSET Nat /\ Nat \ S # {}
  OBVIOUS
<1>2. PICK m \in Nat \ S : \A k \in Nat \ S : m <= k
  BY <1>1, LeastNat
<1>3. m - 1 \in Nat /\ m - 1 \in S
  BY <1>2
<1> QED BY <1>2, <1>3

\* The front of a sequence and its last entry.
LEMMA SeqFront ==
  ASSUME NEW S, NEW w \in Seq(S), w # <<>>
  PROVE  /\ Front(w) \in Seq(S) /\ Len(Front(w)) = Len(w) - 1
         /\ w[Len(w)] \in S /\ w = Append(Front(w), w[Len(w)])
<1> DEFINE n == Len(w) - 1
           f == SubSeq(w, 1, n)
<1>1. Front(w) = f
  BY DEF Front
<1>2. n \in Nat /\ Len(w) = n + 1
  OBVIOUS
<1> HIDE DEF n
<1>3. f \in Seq(S) /\ Len(f) = n /\ w[n + 1] \in S /\ \A i \in 1 .. n : f[i] = w[i]
  BY <1>2
<1> HIDE DEF f
<1>4. Append(f, w[n + 1]) \in Seq(S) /\ Len(Append(f, w[n + 1])) = n + 1
  BY <1>2, <1>3
<1>5. \A i \in 1 .. n + 1 : w[i] = Append(f, w[n + 1])[i]
  BY <1>2, <1>3
<1>6. w = Append(f, w[n + 1])
  BY <1>2, <1>4, <1>5, SeqEqual
<1> QED BY <1>1, <1>2, <1>3, <1>6

LEMMA FrontAppend ==
  ASSUME NEW S, NEW w \in Seq(S), NEW c \in S
  PROVE  Append(w, c) # <<>> /\ Front(Append(w, c)) = w
<1> DEFINE q == Append(w, c)
           u == SubSeq(q, 1, Len(w))
<1>1. q \in Seq(S) /\ q # <<>> /\ Len(q) = Len(w) + 1 /\ \A i \in 1 .. Len(w) : q[i] = w[i]
  BY AppendProperties
<1> HIDE DEF q
<1>2. Front(q) = u
  BY <1>1 DEF Front
<1>3. u \in Seq(S) /\ Len(u) = Len(w) /\ \A i \in 1 .. Len(w) : u[i] = w[i]
  BY <1>1
<1> HIDE DEF u
<1>4. u = w
  BY <1>3, SeqEqual
<1> QED BY <1>1, <1>2, <1>4 DEF q

FoldBy(F, b, s) == FoldLeft(LAMBDA x, y : F[x][y], b, s)

\* g folds the entries of s with indices in T, for every T within 1 .. n.
Folds(F, b, s, g, n) ==
  g = [T \in SUBSET (1 .. n) |-> IF T = {} THEN b ELSE F[g[T \ {Max(T)}]][s[Max(T)]]]

\* The recursive function in the definition of FoldLeft exists.
LEMMA FoldExists ==
  ASSUME NEW F, NEW b, NEW s
  PROVE  \A n \in Nat : \E g : Folds(F, b, s, g, n)
<1> DEFINE S == {n \in Nat : \E g : Folds(F, b, s, g, n)}
<1>1. 0 \in S
  <2> DEFINE g == [T \in SUBSET (1 .. 0) |-> b]
  <2>1. \A T \in SUBSET (1 .. 0) : T = {}
    OBVIOUS
  <2>2. Folds(F, b, s, g, 0)
    BY <2>1 DEF Folds
  <2> HIDE DEF g
  <2> QED BY <2>2
<1>2. ASSUME NEW n \in Nat, n \in S PROVE n + 1 \in S
  <2>1. PICK g : Folds(F, b, s, g, n)
    BY <1>2
  <2> DEFINE h == [T \in SUBSET (1 .. n + 1) |->
                     IF n + 1 \in T THEN F[g[T \ {n + 1}]][s[n + 1]] ELSE g[T]]
  <2>2. ASSUME NEW T \in SUBSET (1 .. n + 1)
        PROVE  h[T] = IF T = {} THEN b ELSE F[h[T \ {Max(T)}]][s[Max(T)]]
    <3>1. CASE n + 1 \in T
      <4>1. Max(T) = n + 1
        <5>1. \A y \in T : n + 1 >= y
          OBVIOUS
        <5>2. \A x \in T : (\A y \in T : x >= y) => x = n + 1
          BY <3>1
        <5> QED BY <3>1, <5>1, <5>2 DEF Max
      <4>2. T \ {n + 1} \in SUBSET (1 .. n + 1) /\ n + 1 \notin T \ {n + 1}
        OBVIOUS
      <4> HIDE DEF Max
      <4> QED BY <3>1, <4>1, <4>2
    <3>2. CASE n + 1 \notin T
      <4>1. T \in SUBSET (1 .. n) /\ T \ {Max(T)} \in SUBSET (1 .. n + 1)
            /\ n + 1 \notin T \ {Max(T)}
        <5>1. \A k \in T : k \in 1 .. n
          BY <3>2
        <5> HIDE DEF h, S
        <5> QED BY <3>2, <5>1
      <4>2. h[T] = g[T] /\ h[T \ {Max(T)}] = g[T \ {Max(T)}]
        BY <3>2, <4>1
      <4>3. g[T] = IF T = {} THEN b ELSE F[g[T \ {Max(T)}]][s[Max(T)]]
        BY <2>1, <4>1 DEF Folds
      <4> QED BY <4>2, <4>3
    <3> QED BY <3>1, <3>2
  <2>3. Folds(F, b, s, h, n + 1)
    BY <2>2 DEF Folds
  <2> HIDE DEF h
  <2> QED BY <2>3
<1> HIDE DEF S
<1>3. \A n \in Nat : n \in S
  BY <1>1, <1>2, Induction
<1> QED BY <1>3 DEF S

\* A fold goes through the sequence from one value to the next.
Trace(F, b, s, t) == t[0] = b /\ \A k \in 0 .. Len(s) - 1 : t[k + 1] = F[t[k]][s[k + 1]]

LEMMA FoldTrace ==
  ASSUME NEW F, NEW b, NEW S, NEW s \in Seq(S)
  PROVE  \E t : Trace(F, b, s, t) /\ FoldBy(F, b, s) = t[Len(s)]
<1> DEFINE g == CHOOSE g : Folds(F, b, s, g, Len(s))
           t == [k \in 0 .. Len(s) |-> g[1 .. k]]
<1>1. Len(s) \in Nat /\ DOMAIN s = 1 .. Len(s)
  OBVIOUS
<1>2. Folds(F, b, s, g, Len(s))
  BY <1>1, FoldExists
<1>3. FoldBy(F, b, s) = g[1 .. Len(s)]
  BY <1>1, Zenon DEF FoldBy, FoldLeft, MapThenFoldSet, Folds
<1> HIDE DEF g
<1>4. t[0] = b
  BY <1>1, <1>2 DEF Folds
<1>5. ASSUME NEW k \in 0 .. Len(s) - 1 PROVE t[k + 1] = F[t[k]][s[k + 1]]
  <2>1. Max(1 .. k + 1) = k + 1
    BY DEF Max
  <2>2. (1 .. k + 1) \ {k + 1} = 1 .. k
    <3>1. \A x : x \in (1 .. k + 1) \ {k + 1} <=> x \in 1 .. k
      BY <1>1
    <3> QED BY <3>1
  <2>3. 1 .. k + 1 \in SUBSET (1 .. Len(s)) /\ k + 1 \in 1 .. k + 1
    BY <1>1
  <2> DEFINE T == 1 .. k + 1
  <2>4. T \in SUBSET (1 .. Len(s)) /\ T # {} /\ T \ {Max(T)} = 1 .. k /\ Max(T) = k + 1
    BY <2>1, <2>2, <2>3
  <2> HIDE DEF T, t
  <2>5. g[T] = F[g[T \ {Max(T)}]][s[Max(T)]]
    BY <1>2, <2>4 DEF Folds
  <2>6. g[T] = F[g[1 .. k]][s[k + 1]]
    BY <2>4, <2>5
  <2> QED BY <1>1, <2>6 DEF T, t
<1>6. t[Len(s)] = g[1 .. Len(s)]
  BY <1>1
<1> HIDE DEF t
<1>7. Trace(F, b, s, t)
  BY <1>4, <1>5 DEF Trace
<1> QED BY <1>3, <1>6, <1>7

\* All traces agree, so any of them tells what the fold is.
LEMMA FoldIs ==
  ASSUME NEW F, NEW b, NEW S, NEW s \in Seq(S), NEW t, Trace(F, b, s, t)
  PROVE  FoldBy(F, b, s) = t[Len(s)]
<1>1. PICK u : Trace(F, b, s, u) /\ FoldBy(F, b, s) = u[Len(s)]
  BY FoldTrace
<1> DEFINE I == {n \in Nat : n <= Len(s) => u[n] = t[n]}
<1>2. 0 \in I
  BY <1>1 DEF Trace
<1>3. ASSUME NEW n \in Nat, n \in I PROVE n + 1 \in I
  <2> SUFFICES ASSUME n + 1 <= Len(s) PROVE u[n + 1] = t[n + 1]
    OBVIOUS
  <2>1. n \in 0 .. Len(s) - 1 /\ u[n] = t[n]
    BY <1>3
  <2> QED BY <1>1, <2>1 DEF Trace
<1>4. \A n \in Nat : n \in I
  <2> HIDE DEF I
  <2> QED BY <1>2, <1>3, Induction
<1>5. u[Len(s)] = t[Len(s)]
  BY <1>4
<1> QED BY <1>1, <1>5

LEMMA FoldEmpty ==
  ASSUME NEW F, NEW b
  PROVE  FoldBy(F, b, <<>>) = b
<1> DEFINE t == [k \in {0} |-> b]
<1>1. <<>> \in Seq({}) /\ Len(<<>>) = 0
  OBVIOUS
<1>2. Trace(F, b, <<>>, t)
  BY <1>1 DEF Trace
<1> QED BY <1>1, <1>2, FoldIs

\* A fold over two sequences goes on with the second from where the first led.
LEMMA FoldConcat ==
  ASSUME NEW F, NEW b, NEW S, NEW s \in Seq(S), NEW r \in Seq(S)
  PROVE  FoldBy(F, b, s \o r) = FoldBy(F, FoldBy(F, b, s), r)
<1>1. PICK t : Trace(F, b, s, t) /\ FoldBy(F, b, s) = t[Len(s)]
  BY FoldTrace
<1>2. PICK u : Trace(F, t[Len(s)], r, u) /\ FoldBy(F, t[Len(s)], r) = u[Len(r)]
  BY FoldTrace
<1> DEFINE v == [k \in 0 .. Len(s) + Len(r) |->
                   IF k <= Len(s) THEN t[k] ELSE u[k - Len(s)]]
<1>3. s \o r \in Seq(S) /\ Len(s \o r) = Len(s) + Len(r)
  OBVIOUS
<1>4. v[0] = b
  BY <1>1 DEF Trace
<1>5. ASSUME NEW k \in 0 .. Len(s \o r) - 1 PROVE v[k + 1] = F[v[k]][(s \o r)[k + 1]]
  <2>1. CASE k + 1 <= Len(s)
    <3>1. k \in 0 .. Len(s) - 1 /\ v[k] = t[k] /\ v[k + 1] = t[k + 1]
      BY <1>3, <2>1
    <3>2. (s \o r)[k + 1] = s[k + 1]
      BY <2>1, <3>1
    <3> HIDE DEF v
    <3> QED BY <1>1, <3>1, <3>2 DEF Trace
  <2>2. CASE k >= Len(s)
    <3>1. k - Len(s) \in 0 .. Len(r) - 1 /\ v[k + 1] = u[k - Len(s) + 1]
      BY <1>3, <2>2
    <3>2. v[k] = u[k - Len(s)]
      <4>1. CASE k = Len(s)
        BY <1>2, <1>3, <4>1 DEF Trace
      <4>2. CASE k > Len(s)
        BY <1>3, <4>2
      <4> QED BY <2>2, <4>1, <4>2
    <3>3. (s \o r)[k + 1] = r[k - Len(s) + 1]
      BY <1>3, <2>2
    <3> HIDE DEF v
    <3> QED BY <1>2, <3>1, <3>2, <3>3 DEF Trace
  <2> QED BY <1>3, <2>1, <2>2
<1>6. v[Len(s \o r)] = u[Len(r)]
  <2>1. CASE Len(r) = 0
    BY <1>2, <1>3, <2>1 DEF Trace
  <2>2. CASE Len(r) # 0
    BY <1>3, <2>2
  <2> QED BY <2>1, <2>2
<1>7. Trace(F, b, s \o r, v)
  <2> HIDE DEF v
  <2> QED BY <1>4, <1>5 DEF Trace
<1>8. FoldBy(F, b, s \o r) = v[Len(s \o r)]
  <2> HIDE DEF v
  <2> QED BY <1>3, <1>7, FoldIs
<1> HIDE DEF v
<1> QED BY <1>1, <1>2, <1>6, <1>8

LEMMA FoldOne ==
  ASSUME NEW F, NEW b, NEW c
  PROVE  FoldBy(F, b, <<c>>) = F[b][c]
<1> DEFINE t == [k \in 0 .. 1 |-> IF k = 0 THEN b ELSE F[b][c]]
<1>1. <<c>> \in Seq({c}) /\ Len(<<c>>) = 1
  OBVIOUS
<1>2. Trace(F, b, <<c>>, t)
  BY <1>1 DEF Trace
<1>3. t[1] = F[b][c]
  OBVIOUS
<1> HIDE DEF t
<1> QED BY <1>1, <1>2, <1>3, FoldIs

LEMMA FoldAppend ==
  ASSUME NEW F, NEW b, NEW S, NEW s \in Seq(S), NEW c \in S
  PROVE  FoldBy(F, b, Append(s, c)) = F[FoldBy(F, b, s)][c]
<1> DEFINE e == <<c>>
           x == FoldBy(F, b, s)
<1>1. Append(s, c) = s \o e /\ e \in Seq(S)
  OBVIOUS
<1>2. FoldBy(F, x, e) = F[x][c]
  BY FoldOne
<1> HIDE DEF e
<1>3. FoldBy(F, b, s \o e) = FoldBy(F, x, e)
  BY <1>1, FoldConcat
<1> QED BY <1>1, <1>2, <1>3

\* A set that holds the empty sequence, and each longer one with its front, holds
\* all sequences.
LEMMA SeqInduction ==
  ASSUME NEW S, NEW P, <<>> \in P, \A s \in Seq(S), c \in S : s \in P => Append(s, c) \in P
  PROVE  \A s \in Seq(S) : s \in P
<1> DEFINE I == {n \in Nat : \A s \in Seq(S) : Len(s) = n => s \in P}
<1>1. 0 \in I
  OBVIOUS
<1>2. ASSUME NEW n \in Nat, n \in I PROVE n + 1 \in I
  <2> SUFFICES ASSUME NEW s \in Seq(S), Len(s) = n + 1 PROVE s \in P
    OBVIOUS
  <2> DEFINE f == SubSeq(s, 1, n)
  <2>1. f \in Seq(S) /\ Len(f) = n /\ s[n + 1] \in S
    OBVIOUS
  <2>2. s = Append(f, s[n + 1])
    OBVIOUS
  <2>3. f \in P
    BY <1>2, <2>1
  <2> HIDE DEF f
  <2> QED BY <2>1, <2>2, <2>3
<1>3. \A n \in Nat : n \in I
  <2> HIDE DEF I
  <2> QED BY <1>1, <1>2, Induction
<1> QED BY <1>3

-----------------------------------------------------------------------------
(* 2. The node tree *)

\* A scan of a directory yields the first of its entries with that name, or nothing.
LEMMA MatchNamed ==
  ASSUME NEW d \in Dirs, NEW nm, FirstMatch(d, nm) # Null
  PROVE  FirstMatch(d, nm) \in DirEntry /\ FirstMatch(d, nm).name = nm /\ nm \in Name
<1> DEFINE hits == {i \in DOMAIN Contents[d] : Contents[d][i].name = nm}
           i0 == CHOOSE i \in hits : \A j \in hits : i <= j
<1>1. Contents[d] \in Seq(DirEntry)
  BY DiskAssumption
<1>2. hits # {}
  BY DEF FirstMatch
<1>3. hits \in SUBSET Nat
  BY <1>1
<1>4. i0 \in hits
  <2>1. \E i \in hits : \A j \in hits : i <= j
    <3> HIDE DEF hits
    <3> QED BY <1>2, <1>3, LeastNat
  <2> HIDE DEF hits
  <2> QED BY <2>1
<1>5. FirstMatch(d, nm) = Contents[d][i0]
  BY <1>2 DEF FirstMatch
<1>6. Contents[d][i0].name = nm /\ i0 \in DOMAIN Contents[d]
  <2> HIDE DEF i0
  <2> QED BY <1>4
<1> HIDE DEF i0, hits
<1>7. Contents[d][i0] \in DirEntry
  BY <1>1, <1>6
<1> QED BY <1>5, <1>6, <1>7 DEF DirEntry

LEMMA FirstMatchType ==
  ASSUME NEW d \in Dirs, NEW nm
  PROVE  FirstMatch(d, nm) \in DirEntry \cup {Null}
BY MatchNamed

\* The image gives every directory a list of entries.
LEMMA ContentsType ==
  ASSUME NEW d \in Dirs
  PROVE  Contents[d] \in Seq(DirEntry)
BY DiskAssumption

\* Head and Tail of a non-empty sequence.
LEMMA HeadTail ==
  ASSUME NEW S, NEW s \in Seq(S), s # <<>>
  PROVE  Head(s) \in S /\ Tail(s) \in Seq(S)
OBVIOUS

-----------------------------------------------------------------------------
(* Attach keeps the heap well-typed, a forest, and without a lost node.      *)

LEMMA AttachHeap ==
  ASSUME IInv, Open, root' = root, doomed' = doomed,
         NEW a \in Addr, NEW d \in live, NEW de \in DirEntry,
         ent[d] \in Dirs, Attach(a, d, de)
  PROVE  /\ live' \subseteq Addr
         /\ ent' \in [Addr -> Entry \cup {Null}]
         /\ parent' \in [Addr -> Addr \cup {Null}]
         /\ kids' \in [Addr -> SUBSET Addr]
         /\ where' \in [Addr -> Seq(Name)]
         /\ Shape' /\ Reachable'
         /\ \A x \in Addr : kids'[x] # {} => ent'[x] \in Dirs
         /\ \A x \in live : x # a /\ x \in live' /\ ent'[x] = ent[x]
                            /\ where'[x] = where[x] /\ parent'[x] = parent[x]
<1> USE DEF IInv, Attach, TypeOK
<1>1. a \notin live /\ d \in Addr /\ a # d /\ root \in live /\ root \in Addr /\ a # root
  BY DEF HandlesLive
<1>2. de.name \in Name /\ de.ent \in Entry
  BY DEF DirEntry
<1>3. where[d] \in Seq(Name) /\ Append(where[d], de.name) \in Seq(Name)
  BY <1>1, <1>2
<1>4. Len(Append(where[d], de.name)) = Len(where[d]) + 1
  BY <1>2, <1>3
<1>5. /\ live' \subseteq Addr
      /\ ent' \in [Addr -> Entry \cup {Null}]
      /\ parent' \in [Addr -> Addr \cup {Null}]
      /\ where' \in [Addr -> Seq(Name)]
  BY <1>1, <1>2, <1>3
<1>6. kids' \in [Addr -> SUBSET Addr]
  BY <1>1
<1>7. \A x \in Addr : kids'[x] = IF x = a THEN {} ELSE IF x = d THEN kids[d] \cup {a} ELSE kids[x]
  BY <1>1
<1>8. \A x \in live : x # a /\ x \in live' /\ ent'[x] = ent[x]
                      /\ where'[x] = where[x] /\ parent'[x] = parent[x]
  BY <1>1
<1>9. parent'[a] = d /\ where'[a] = Append(where[d], de.name)
  BY <1>1
<1>10. Shape'
  <2> SUFFICES ASSUME NEW x \in Addr, NEW k \in kids'[x]
               PROVE  /\ x \in live' /\ k \in live' \ {root}
                      /\ parent'[k] = x
                      /\ Len(where'[k]) = Len(where'[x]) + 1
    BY <1>8 DEF Shape
  <2>1. CASE k = a
    BY <2>1, <1>1, <1>4, <1>7, <1>8, <1>9 DEF Shape
  <2>2. CASE k # a
    <3>1. k \in kids[x] /\ x # a
      BY <2>2, <1>7
    <3>2. /\ x \in live /\ k \in live \ {root} /\ parent[k] = x
          /\ Len(where[k]) = Len(where[x]) + 1
      BY <3>1 DEF Shape
    <3> QED BY <3>2, <1>8
  <2> QED BY <2>1, <2>2
<1>11. Reachable'
  <2> SUFFICES ASSUME NEW n \in live' \ {root}
               PROVE  parent'[n] \in live' /\ n \in kids'[parent'[n]]
    BY DEF Reachable
  <2>1. CASE n = a
    BY <2>1, <1>1, <1>7, <1>9
  <2>2. CASE n # a
    <3>1. n \in live \ {root}
      BY <2>2
    <3>2. parent[n] \in live /\ n \in kids[parent[n]]
      BY <3>1 DEF Reachable
    <3> QED BY <3>1, <3>2, <1>7, <1>8
  <2> QED BY <2>1, <2>2
<1>12. \A x \in Addr : kids'[x] # {} => ent'[x] \in Dirs
  <2> SUFFICES ASSUME NEW x \in Addr, kids'[x] # {} PROVE ent'[x] \in Dirs
    OBVIOUS
  <2>1. CASE x = d
    BY <2>1, <1>1, <1>8
  <2>2. CASE x # d
    BY <2>2, <1>7, <1>8 DEF Shape, Standing
  <2> QED BY <2>1, <2>2
<1> QED BY <1>5, <1>6, <1>8, <1>10, <1>11, <1>12

-----------------------------------------------------------------------------
(* The inductive invariant.                                                  *)

LEMMA InitIInv == Init => IInv
<1> SUFFICES ASSUME Init PROVE IInv
  OBVIOUS
<1> USE DEF Init
<1>1. TypeOK
  <2>1. /\ where \in [Addr -> Seq(Name)]
        /\ rest \in Seq(Component)
        /\ todo \in Seq(DirEntry)
        /\ failed \subseteq Faults
        /\ asked \in [from : Seq(Name), comps : Seq(Component)]
    BY DEF Nothing
  <2>2. /\ live \subseteq Addr
        /\ parent \in [Addr -> Addr \cup {Null}]
        /\ kids \in [Addr -> SUBSET Addr]
        /\ root \in Addr /\ dcwd \in Addr
    OBVIOUS
  <2>3. ent \in [Addr -> Entry \cup {Null}]
    BY DiskAssumption
  <2>4. op \in Ops /\ op \notin Busy
    BY DEF Ops, Busy
  <2> QED BY <2>1, <2>2, <2>3, <2>4 DEF TypeOK
<1>2. Shape /\ Reachable
  BY DEF Shape, Reachable
<1>3. HandlesLive /\ NoLeak
  BY DiskAssumption DEF HandlesLive, NoLeak, Busy, Open
<1>4. Standing
  BY DiskAssumption DEF Standing, Open
<1> QED BY <1>1, <1>2, <1>3, <1>4 DEF IInv

\* A step that leaves the heap, the driver and the doomed nodes alone keeps the
\* parts of the invariant that speak of nothing else.
LEMMA HeapAlone ==
  ASSUME IInv, UNCHANGED <<heap, root, doomed>>, Open, Open'
  PROVE  /\ Shape' /\ Reachable' /\ NoLeak'
         /\ root' # Null => where'[root'] = <<>> /\ parent'[root'] = Null
         /\ ent'[root'] \in Dirs
         /\ \A d \in Addr : kids'[d] # {} => ent'[d] \in Dirs
BY DEF IInv, Shape, Reachable, NoLeak, Standing, Open, heap

LEMMA FindStartIInv ==
  ASSUME IInv, CallerFind
  PROVE  IInv'
<1> USE DEF IInv
<1>1. PICK p \in Paths : StartFind(p)
  BY DEF CallerFind
<1>2. p.abs \in BOOLEAN /\ p.comps \in Seq(Component)
  BY PathsAssumption DEF Path
<1>3. Open /\ Open' /\ op' = "find" /\ UNCHANGED <<heap, driver, doomed>>
  BY <1>1 DEF StartFind, Open
<1>4. cur' \in live /\ cur' \in Addr /\ ent[cur'] \in Dirs /\ where[cur'] \in Seq(Name)
  BY <1>1, <1>3 DEF StartFind, HandlesLive, Standing, TypeOK
<1>5. TypeOK'
  BY <1>1, <1>2, <1>3, <1>4 DEF StartFind, TypeOK, Ops, Busy, heap, driver
<1>6. HandlesLive'
  BY <1>3, <1>4 DEF HandlesLive, heap, driver, Open
<1>7. Standing'
  BY <1>1, <1>3, HeapAlone DEF StartFind, Standing, heap, driver, Open
<1> QED BY <1>3, <1>5, <1>6, <1>7, HeapAlone DEF driver

LEMMA FindDotsIInv ==
  ASSUME IInv, FindDots
  PROVE  IInv'
<1> USE DEF IInv
<1>1. Open /\ Open' /\ op = "find" /\ op' = "find" /\ UNCHANGED <<heap, driver, doomed>>
  BY DEF FindDots, Open
<1>2. rest' \in Seq(Component)
  BY HeadTail DEF FindDots, TypeOK
<1>3. cur \in live /\ cur \in Addr /\ ent[cur] \in Dirs
  BY <1>1 DEF FindDots, HandlesLive, TypeOK, Busy
<1>4. cur' \in live /\ cur' \in Addr /\ ent[cur'] \in Dirs
  <2>1. CASE cur' = cur
    BY <2>1, <1>3
  <2>2. CASE cur' # cur
    <3>1. cur' = parent[cur] /\ parent[cur] # Null
      BY <2>2 DEF FindDots
    <3>2. cur # root
      BY <3>1, <1>3, NullAssumption DEF Standing
    <3>3. parent[cur] \in live /\ kids[parent[cur]] # {}
      BY <3>2, <1>3 DEF Reachable
    <3> QED BY <3>1, <3>3 DEF Standing, TypeOK
  <2> QED BY <2>1, <2>2
<1>5. TypeOK'
  BY <1>1, <1>2, <1>4 DEF FindDots, TypeOK, Ops, Busy, heap, driver, results
<1>6. HandlesLive'
  BY <1>1, <1>4 DEF HandlesLive, heap, driver, Open
<1>7. Standing'
  BY <1>1, HeapAlone DEF Standing, heap, driver, Open
<1> QED BY <1>1, <1>5, <1>6, <1>7, HeapAlone DEF driver

LEMMA FindEnterIInv ==
  ASSUME IInv, FindEnter
  PROVE  IInv'
<1> USE DEF IInv
<1> DEFINE de == FirstMatch(ent[cur], Head(rest))
<1>1. /\ op = "find" /\ rest # <<>> /\ rest' = Tail(rest) /\ Usable(de)
      /\ UNCHANGED <<driver, op, todo, doomed, results>>
  BY DEF FindEnter
<1>2. PICK a \in Addr : Attach(a, cur, de) /\ cur' = a
  BY DEF FindEnter
<1>3. Open /\ cur \in live /\ ent[cur] \in Dirs
  BY <1>1 DEF HandlesLive, Open, Busy
<1>4. de \in DirEntry /\ (Tail(rest) = <<>> \/ de.ent \in Dirs)
  BY <1>1, <1>3, FirstMatchType DEF Usable
<1>5. rest' \in Seq(Component)
  BY <1>1, HeadTail DEF TypeOK
<1> HIDE DEF de
<1>6. root' = root /\ dcwd' = dcwd /\ doomed' = doomed /\ op' = op
  BY <1>1 DEF driver
<1>7. /\ live' \subseteq Addr
      /\ ent' \in [Addr -> Entry \cup {Null}]
      /\ parent' \in [Addr -> Addr \cup {Null}]
      /\ kids' \in [Addr -> SUBSET Addr]
      /\ where' \in [Addr -> Seq(Name)]
      /\ Shape' /\ Reachable'
      /\ \A x \in Addr : kids'[x] # {} => ent'[x] \in Dirs
      /\ \A x \in live : x # a /\ x \in live' /\ ent'[x] = ent[x]
                         /\ where'[x] = where[x] /\ parent'[x] = parent[x]
  BY <1>2, <1>3, <1>4, <1>6, AttachHeap
<1>8. root \in live /\ dcwd \in live /\ ent[dcwd] \in Dirs /\ ent[root] \in Dirs
  BY <1>3 DEF HandlesLive, Standing
<1>9. a \in live' /\ ent'[a] = de.ent
  BY <1>2 DEF Attach, TypeOK
<1>10. TypeOK'
  BY <1>1, <1>2, <1>5, <1>7 DEF TypeOK, driver, results
<1>11. HandlesLive'
  BY <1>1, <1>2, <1>4, <1>6, <1>7, <1>8, <1>9 DEF HandlesLive, Open, Busy
<1>12. Standing'
  BY <1>1, <1>3, <1>6, <1>7, <1>8 DEF Standing, Open
<1>13. NoLeak'
  BY <1>1, <1>6 DEF NoLeak
<1> QED BY <1>7, <1>10, <1>11, <1>12, <1>13

LEMMA FindReturnIInv ==
  ASSUME IInv, op = "find", NEW n \in Addr \cup {Null},
         NEW bad \in SUBSET Faults, FindReturn(n, bad)
  PROVE  IInv'
<1> USE DEF IInv
<1>1. Open /\ Open' /\ op' = "idle" /\ UNCHANGED <<heap, driver, doomed>>
  BY DEF FindReturn, Open
<1>2. TypeOK'
  <2>1. rest' \in Seq(Component) /\ asked' \in [from : Seq(Name), comps : Seq(Component)]
    BY DEF FindReturn, Nothing
  <2>2. op' \in Ops /\ op' \notin Busy /\ cur' = Null /\ found' = n
    BY <1>1 DEF FindReturn, Ops, Busy
  <2> QED BY <1>1, <2>1, <2>2 DEF FindReturn, TypeOK, heap, driver
<1>3. HandlesLive'
  BY <1>1 DEF HandlesLive, heap, driver, Open, Busy
<1>4. Standing'
  BY <1>1, HeapAlone DEF Standing, heap, driver, Open
<1> QED BY <1>1, <1>2, <1>3, <1>4, HeapAlone DEF driver

LEMMA ListStartIInv ==
  ASSUME IInv, CallerList
  PROVE  IInv'
<1> USE DEF IInv
<1>1. PICK n \in live : Spared(dcwd, n) /\ StartList(n)
  BY DEF CallerList
<1>2. /\ Open /\ Open' /\ op' = "free" /\ cur' = n /\ doomed' = kids[n]
      /\ todo' = Contents[ent[n]] /\ ent[n] \in Dirs
      /\ UNCHANGED <<heap, driver, rest, results>>
  BY <1>1 DEF StartList, Open
<1>3. PICK S \in SUBSET Addr : kids[n] \subseteq S /\ ClosedUnderKids(S) /\ dcwd \notin S
  BY <1>1 DEF Spared
<1>4. n \in Addr /\ kids[n] \subseteq live /\ kids[n] \subseteq Addr
  BY DEF TypeOK, Shape
<1>5. \A m \in kids[n] : Len(where[m]) > Len(where[n])
  <2> SUFFICES ASSUME NEW m \in kids[n] PROVE Len(where[m]) > Len(where[n])
    OBVIOUS
  <2>1. Len(where[n]) \in Nat /\ Len(where[m]) = Len(where[n]) + 1
    BY <1>4 DEF Shape, TypeOK
  <2> QED BY <2>1
<1>6. todo' \in Seq(DirEntry)
  BY <1>2, ContentsType
<1>7. TypeOK'
  BY <1>2, <1>4, <1>6 DEF TypeOK, Ops, Busy, heap, driver, results
<1>8. Shape' /\ Reachable' /\ NoLeak'
  BY <1>2, <1>4 DEF Shape, Reachable, NoLeak, heap, driver
<1>9. HandlesLive'
  BY <1>2 DEF HandlesLive, heap, driver, Open, Busy
<1>10. Standing'
  <2>1. doomed' \subseteq S /\ ClosedUnderKids(S)' /\ dcwd' \notin S
    BY <1>2, <1>3 DEF ClosedUnderKids, heap, driver
  <2> QED BY <1>2, <1>5, <2>1 DEF Standing, heap, driver, Open
<1> QED BY <1>7, <1>8, <1>9, <1>10

LEMMA FreeChildrenIInv ==
  ASSUME IInv, NEW n \in doomed, FreeChildren(n)
  PROVE  IInv'
<1> USE DEF IInv
<1>1. /\ op \in {"free", "closing"} /\ doomed' = doomed \cup kids[n]
      /\ UNCHANGED <<heap, driver, op, cur, rest, todo, results>>
  BY DEF FreeChildren
<1>2. n \in Addr /\ n \in live /\ kids[n] \subseteq live /\ kids[n] \subseteq Addr
  BY DEF TypeOK, Shape
<1>3. TypeOK'
  BY <1>1, <1>2 DEF TypeOK, heap, driver, results
<1>4. Shape' /\ Reachable' /\ HandlesLive' /\ NoLeak'
  BY <1>1, <1>2 DEF Shape, Reachable, HandlesLive, NoLeak, Open, heap, driver
<1>5. op = "free" => \A m \in doomed' : Len(where[m]) > Len(where[cur])
  <2> SUFFICES ASSUME op = "free", NEW m \in kids[n]
               PROVE  Len(where[m]) > Len(where[cur])
    BY <1>1 DEF Standing
  <2>1. cur \in Addr
    BY DEF TypeOK, Busy
  <2>2. Len(where[n]) \in Nat /\ Len(where[m]) \in Nat /\ Len(where[cur]) \in Nat
    BY <1>2, <2>1 DEF TypeOK
  <2>3. Len(where[m]) = Len(where[n]) + 1 /\ Len(where[n]) > Len(where[cur])
    BY <1>2 DEF Shape, Standing
  <2> QED BY <2>2, <2>3
<1>6. op = "free" => \E S \in SUBSET Addr :
                       doomed' \subseteq S /\ ClosedUnderKids(S) /\ dcwd \notin S
  <2> SUFFICES ASSUME op = "free"
               PROVE  \E S \in SUBSET Addr :
                        doomed' \subseteq S /\ ClosedUnderKids(S) /\ dcwd \notin S
    OBVIOUS
  <2>1. PICK S \in SUBSET Addr : doomed \subseteq S /\ ClosedUnderKids(S) /\ dcwd \notin S
    BY DEF Standing
  <2>2. doomed' \subseteq S
    BY <1>1, <2>1 DEF ClosedUnderKids
  <2> QED BY <2>1, <2>2
<1>7. Standing'
  BY <1>1, <1>5, <1>6 DEF Standing, ClosedUnderKids, heap, driver, Open
<1> QED BY <1>3, <1>4, <1>7

LEMMA FreeNodeIInv ==
  ASSUME IInv, NEW n \in doomed, FreeNode(n)
  PROVE  IInv'
<1> USE DEF IInv
<1>1. /\ op \in {"free", "closing"} /\ kids[n] = {}
      /\ live' = live \ {n} /\ doomed' = doomed \ {n}
      /\ kids' = [d \in Addr |-> kids[d] \ {n}]
      /\ ent' = [ent EXCEPT ![n] = Null]
      /\ parent' = [parent EXCEPT ![n] = Null]
      /\ where' = [where EXCEPT ![n] = <<>>]
      /\ root' = root /\ dcwd' = dcwd
      /\ UNCHANGED <<op, cur, rest, todo, results>>
  BY DEF FreeNode, driver
<1>2. n \in Addr /\ n \in live
  BY DEF TypeOK, Shape
<1>3. \A x \in Addr : x # n => ent'[x] = ent[x] /\ parent'[x] = parent[x]
                               /\ where'[x] = where[x]
  BY <1>1, <1>2 DEF TypeOK
<1>4. \A x \in Addr : kids'[x] = kids[x] \ {n}
  BY <1>1
<1>5. where'[n] = <<>> /\ parent'[n] = Null
  BY <1>1, <1>2 DEF TypeOK
<1>6. TypeOK'
  <2>1. where' \in [Addr -> Seq(Name)]
    BY <1>1 DEF TypeOK
  <2> QED BY <1>1, <2>1 DEF TypeOK, results
<1>7. Shape'
  <2> SUFFICES ASSUME NEW d \in Addr, NEW k \in kids'[d]
               PROVE  /\ d \in live' /\ k \in live' \ {root}
                      /\ parent'[k] = d
                      /\ Len(where'[k]) = Len(where'[d]) + 1
    BY <1>1 DEF Shape
  <2>1. k \in kids[d] /\ k # n /\ d # n /\ k \in Addr
    BY <1>1, <1>4 DEF TypeOK
  <2> QED BY <1>1, <1>3, <2>1 DEF Shape
<1>8. Reachable'
  <2> SUFFICES ASSUME NEW m \in live' \ {root}
               PROVE  parent'[m] \in live' /\ m \in kids'[parent'[m]]
    BY <1>1 DEF Reachable
  <2>1. m \in live \ {root} /\ m # n /\ m \in Addr
    BY <1>1 DEF TypeOK
  <2>2. parent[m] \in live /\ m \in kids[parent[m]] /\ parent[m] \in Addr
    BY <2>1 DEF Reachable, TypeOK
  <2>3. parent[m] # n
    BY <1>1, <2>2
  <2> QED BY <1>1, <1>3, <1>4, <2>1, <2>2, <2>3
<1>9. op = "free" => n # cur /\ n # root /\ n # dcwd /\ root \in live /\ dcwd \in live
                     /\ cur \in live /\ Open
  <2> SUFFICES ASSUME op = "free" PROVE n # cur /\ n # root /\ n # dcwd
    BY DEF HandlesLive, Open, Busy
  <2>1. cur \in Addr /\ root \in Addr
    BY DEF TypeOK, Busy, HandlesLive, Open
  <2>2. Len(where[cur]) \in Nat /\ Len(where[n]) \in Nat
    BY <1>2, <2>1 DEF TypeOK
  <2>3. Len(where[n]) > Len(where[cur])
    BY DEF Standing
  <2>4. root # Null => Len(where[root]) = 0
    BY DEF Standing
  <2>5. n # dcwd
    BY DEF Standing
  <2> QED BY <2>1, <2>2, <2>3, <2>4, <2>5, NullAssumption
<1>10. HandlesLive'
  BY <1>1, <1>3, <1>9 DEF HandlesLive, Open, Busy, TypeOK
<1>11. root # Null => where'[root] = <<>> /\ parent'[root] = Null
  BY <1>1, <1>3, <1>5 DEF Standing, TypeOK
<1>12. \A d \in Addr : kids'[d] # {} => ent'[d] \in Dirs
  BY <1>1, <1>3, <1>4 DEF Standing
<1>13. op = "free" => \A m \in doomed' : Len(where'[m]) > Len(where'[cur])
  BY <1>1, <1>3, <1>9 DEF Standing, TypeOK
<1>14. op = "free" => \E S \in SUBSET Addr :
                        doomed' \subseteq S /\ ClosedUnderKids(S)' /\ dcwd \notin S
  <2> SUFFICES ASSUME op = "free"
               PROVE  \E S \in SUBSET Addr :
                        doomed' \subseteq S /\ ClosedUnderKids(S)' /\ dcwd \notin S
    OBVIOUS
  <2>1. PICK S \in SUBSET Addr : doomed \subseteq S /\ ClosedUnderKids(S) /\ dcwd \notin S
    BY DEF Standing
  <2>2. ClosedUnderKids(S)'
    BY <1>4, <2>1 DEF ClosedUnderKids
  <2> QED BY <1>1, <2>1, <2>2
<1>15. Open => ent'[root] \in Dirs
  BY <1>1, <1>3, <1>9 DEF Standing, Open, TypeOK
<1>16. Standing'
  BY <1>1, <1>11, <1>12, <1>13, <1>14, <1>15 DEF Standing, Open
<1>17. NoLeak'
  BY <1>1 DEF NoLeak
<1> QED BY <1>6, <1>7, <1>8, <1>10, <1>16, <1>17

LEMMA FreeDoneIInv ==
  ASSUME IInv, FreeDone
  PROVE  IInv'
<1> USE DEF IInv
<1>1. /\ op = "free" /\ op' = "fill" /\ Open /\ Open' /\ doomed = {}
      /\ UNCHANGED <<heap, driver, cur, rest, todo, doomed, results>>
  BY DEF FreeDone, Open
<1>2. TypeOK'
  BY <1>1 DEF TypeOK, Ops, Busy, heap, driver, results
<1>3. HandlesLive'
  BY <1>1 DEF HandlesLive, heap, driver, Open, Busy
<1>4. Standing'
  BY <1>1, HeapAlone DEF Standing, heap, driver, Open
<1> QED BY <1>1, <1>2, <1>3, <1>4, HeapAlone DEF driver

LEMMA ListEntryIInv ==
  ASSUME IInv, ListEntry
  PROVE  IInv'
<1> USE DEF IInv
<1> DEFINE de == Head(todo)
<1>1. /\ op = "fill" /\ op' = op /\ root' = root /\ dcwd' = dcwd /\ doomed' = doomed
      /\ todo # <<>> /\ todo' = Tail(todo)
      /\ UNCHANGED <<driver, op, cur, rest, doomed, results>>
  BY DEF ListEntry, driver
<1>2. PICK a \in Addr : Attach(a, cur, de)
  BY DEF ListEntry
<1>3. Open /\ cur \in live /\ ent[cur] \in Dirs
  BY <1>1 DEF HandlesLive, Open, Busy
<1>4. de \in DirEntry /\ todo' \in Seq(DirEntry)
  BY <1>1, HeadTail DEF TypeOK
<1> HIDE DEF de
<1>5. /\ live' \subseteq Addr
      /\ ent' \in [Addr -> Entry \cup {Null}]
      /\ parent' \in [Addr -> Addr \cup {Null}]
      /\ kids' \in [Addr -> SUBSET Addr]
      /\ where' \in [Addr -> Seq(Name)]
      /\ Shape' /\ Reachable'
      /\ \A x \in Addr : kids'[x] # {} => ent'[x] \in Dirs
      /\ \A x \in live : x # a /\ x \in live' /\ ent'[x] = ent[x]
                         /\ where'[x] = where[x] /\ parent'[x] = parent[x]
  BY <1>1, <1>2, <1>3, <1>4, AttachHeap
<1>6. root \in live /\ dcwd \in live /\ ent[dcwd] \in Dirs /\ ent[root] \in Dirs
  BY <1>3 DEF HandlesLive, Standing
<1>7. TypeOK'
  BY <1>1, <1>4, <1>5 DEF TypeOK, driver, results
<1>8. HandlesLive'
  BY <1>1, <1>3, <1>5, <1>6 DEF HandlesLive, Open, Busy
<1>9. Standing'
  BY <1>1, <1>3, <1>5, <1>6 DEF Standing, Open
<1>10. NoLeak'
  BY <1>1 DEF NoLeak
<1> QED BY <1>5, <1>7, <1>8, <1>9, <1>10

LEMMA ListReturnIInv ==
  ASSUME IInv, NEW ok \in BOOLEAN, ListReturn(ok)
  PROVE  IInv'
<1> USE DEF IInv
<1>1. /\ op = "fill" /\ op' = "idle" /\ Open /\ Open' /\ todo' = <<>> /\ listed' = ok
      /\ cur' = Null /\ UNCHANGED <<heap, driver, rest, doomed, found, asked>>
      /\ failed' \subseteq Faults
  BY DEF ListReturn, Open
<1>2. TypeOK'
  <2>1. todo' \in Seq(DirEntry) /\ op' \in Ops /\ op' \notin Busy
    BY <1>1 DEF Ops, Busy
  <2> QED BY <1>1, <2>1 DEF TypeOK, heap, driver
<1>3. HandlesLive'
  BY <1>1 DEF HandlesLive, heap, driver, Open, Busy
<1>4. Standing'
  BY <1>1, HeapAlone DEF Standing, heap, driver, Open
<1> QED BY <1>1, <1>2, <1>3, <1>4, HeapAlone DEF driver

LEMMA SetCurrentIInv ==
  ASSUME IInv, CallerSet
  PROVE  IInv'
<1> USE DEF IInv
<1>1. PICK n \in live : SetCurrentDirectory(n)
  BY DEF CallerSet
<1>2. /\ op = "idle" /\ Open /\ Open' /\ dcwd' = n /\ ent[n] \in Dirs /\ n \in Addr
      /\ UNCHANGED <<heap, root, call, results>>
  BY <1>1 DEF SetCurrentDirectory, Open, TypeOK, call
<1>3. TypeOK'
  BY <1>2 DEF TypeOK, heap, call, results
<1>4. HandlesLive'
  BY <1>2 DEF HandlesLive, heap, call, Open, Busy
<1>5. Standing'
  BY <1>2, HeapAlone DEF Standing, heap, call, Open
<1> QED BY <1>2, <1>3, <1>4, <1>5, HeapAlone DEF call

LEMMA UnmountIInv ==
  ASSUME IInv, Unmount
  PROVE  IInv'
<1> USE DEF IInv
<1>1. /\ op = "idle" /\ op' = "closing" /\ ~ Open' /\ doomed' = {root}
      /\ UNCHANGED <<heap, driver, cur, rest, todo, results>>
  BY DEF Unmount, Open
<1>2. root \in live /\ root \in Addr
  BY <1>1 DEF HandlesLive, Open, TypeOK
<1>3. TypeOK'
  BY <1>1, <1>2 DEF TypeOK, Ops, Busy, heap, driver, results
<1>4. Shape' /\ Reachable' /\ NoLeak' /\ HandlesLive'
  BY <1>1, <1>2 DEF Shape, Reachable, NoLeak, HandlesLive, Busy, heap, driver
<1>5. Standing'
  BY <1>1 DEF Standing, heap, driver
<1> QED BY <1>3, <1>4, <1>5

\* When nothing is left to free the root is gone, and with it every node: a
\* live node of least depth would have a live parent above it.
LEMMA UnmountDoneIInv ==
  ASSUME IInv, UnmountDone
  PROVE  IInv'
<1> USE DEF IInv
<1>1. /\ op = "closing" /\ op' = "closed" /\ ~ Open' /\ doomed = {}
      /\ root' = Null /\ dcwd' = Null
      /\ UNCHANGED <<heap, cur, rest, todo, doomed, results>>
  BY DEF UnmountDone, Open
<1>2. root \notin live
  BY <1>1 DEF Standing
<1>3. live = {}
  <2> SUFFICES ASSUME live # {} PROVE FALSE
    OBVIOUS
  <2> DEFINE depths == {Len(where[n]) : n \in live}
  <2>1. depths \in SUBSET Nat /\ depths # {}
    <3>1. \A n \in live : where[n] \in Seq(Name)
      BY DEF TypeOK
    <3>2. \A n \in live : Len(where[n]) \in Nat
      BY <3>1
    <3> QED BY <3>2
  <2>2. PICK x \in depths : \A y \in depths : x <= y
    <3> HIDE DEF depths
    <3> QED BY <2>1, LeastNat
  <2>3. PICK n \in live : x = Len(where[n])
    BY <2>2
  <2>4. parent[n] \in live /\ n \in kids[parent[n]]
    BY <1>2 DEF Reachable
  <2>5. Len(where[n]) = Len(where[parent[n]]) + 1 /\ Len(where[parent[n]]) \in Nat
    BY <2>4 DEF Shape, TypeOK
  <2>6. x <= Len(where[parent[n]])
    BY <2>2, <2>4
  <2> QED BY <2>3, <2>5, <2>6
<1>4. TypeOK'
  BY <1>1 DEF TypeOK, Ops, Busy, heap, results
<1>5. Shape' /\ Reachable' /\ NoLeak' /\ HandlesLive'
  <2>1. Shape'
    BY <1>1, <1>3 DEF Shape, heap
  <2>2. Reachable' /\ NoLeak'
    BY <1>1, <1>3 DEF Reachable, NoLeak, heap
  <2>3. HandlesLive'
    BY <1>1 DEF HandlesLive, Busy
  <2> QED BY <2>1, <2>2, <2>3
<1>6. Standing'
  BY <1>1 DEF Standing, heap
<1> QED BY <1>4, <1>5, <1>6

LEMMA StutterIInv ==
  ASSUME IInv, UNCHANGED vars
  PROVE  IInv'
<1> USE DEF IInv, vars, heap, driver, call, results
<1>1. TypeOK'
  BY DEF TypeOK
<1>2. Shape' /\ Reachable' /\ NoLeak' /\ HandlesLive'
  BY DEF Shape, Reachable, NoLeak, HandlesLive, Open
<1>3. Standing'
  BY DEF Standing, Open, ClosedUnderKids
<1> QED BY <1>1, <1>2, <1>3

\* Every step of the driver and of its caller keeps the invariant.
LEMMA NextIInv == IInv /\ [Next]_vars => IInv'
<1> SUFFICES ASSUME IInv, [Next]_vars PROVE IInv'
  OBVIOUS
<1>1. CASE CallerFind
  BY <1>1, FindStartIInv
<1>2. CASE CallerList
  BY <1>2, ListStartIInv
<1>3. CASE CallerSet
  BY <1>3, SetCurrentIInv
<1>4. CASE Unmount
  BY <1>4, UnmountIInv
<1>5. CASE FindDots
  BY <1>5, FindDotsIInv
<1>6. CASE FindEnter
  BY <1>6, FindEnterIInv
<1>7. CASE FindFail
  <2>1. PICK bad \in SUBSET Faults : FindReturn(Null, bad)
    BY <1>7 DEF FindFail
  <2> QED BY <1>7, <2>1, FindReturnIInv DEF FindFail
<1>8. CASE FindDone
  <2>1. cur \in Addr \cup {Null}
    BY DEF IInv, TypeOK
  <2> QED BY <1>8, <2>1, FindReturnIInv DEF FindDone
<1>9. CASE \E n \in doomed : FreeChildren(n)
  BY <1>9, FreeChildrenIInv
<1>10. CASE \E n \in doomed : FreeNode(n)
  BY <1>10, FreeNodeIInv
<1>11. CASE FreeDone
  BY <1>11, FreeDoneIInv
<1>12. CASE ListEntry
  BY <1>12, ListEntryIInv
<1>13. CASE \E ok \in BOOLEAN : ListReturn(ok)
  BY <1>13, ListReturnIInv
<1>14. CASE UnmountDone
  BY <1>14, UnmountDoneIInv
<1>15. CASE UNCHANGED vars
  BY <1>15, StutterIInv
<1> QED BY <1>1, <1>2, <1>3, <1>4, <1>5, <1>6, <1>7, <1>8, <1>9, <1>10, <1>11,
           <1>12, <1>13, <1>14, <1>15 DEF Next, DriverStep

-----------------------------------------------------------------------------
(* What a listing builds                                                     *)

\* A listing works through the directory's entries in order: freeing leaves no
\* child of it, and then each entry consumed is a child, each child an entry.
Filling ==
  /\ op = "free" => todo = Contents[ent[cur]] /\ kids[cur] \subseteq doomed
  /\ op = "fill" =>
       LET disk == Contents[ent[cur]]
       IN  \E n \in 0 .. Len(disk) :
             /\ Len(todo) = Len(disk) - n
             /\ \A i \in 1 .. Len(todo) : todo[i] = disk[n + i]
             /\ IsFiniteSet(kids[cur]) /\ Cardinality(kids[cur]) = n
             /\ Built(cur) = {disk[i] : i \in 1 .. n}

LEMMA FreeNodeFilling ==
  ASSUME IInv, Filling, NEW n \in doomed, FreeNode(n)
  PROVE  Filling'
<1>1. CASE op = "free"
  <2>1. n # cur /\ cur \in Addr
    <3>1. cur \in Addr /\ n \in Addr
      BY <1>1 DEF IInv, TypeOK, Busy
    <3>2. Len(where[cur]) \in Nat
      BY <3>1 DEF IInv, TypeOK
    <3>3. Len(where[n]) > Len(where[cur])
      BY <1>1 DEF IInv, Standing
    <3> QED BY <3>1, <3>2, <3>3
  <2>2. ent'[cur] = ent[cur] /\ kids'[cur] = kids[cur] \ {n} /\ doomed' = doomed \ {n}
        /\ op' = op /\ cur' = cur /\ todo' = todo
    BY <2>1 DEF FreeNode, IInv, TypeOK
  <2> QED BY <1>1, <2>2 DEF Filling
<1>2. CASE op # "free"
  BY <1>2 DEF FreeNode, Filling
<1> QED BY <1>1, <1>2

LEMMA FreeDoneFilling ==
  ASSUME IInv, Filling, FreeDone
  PROVE  Filling'
<1>1. /\ op' = "fill" /\ cur' = cur /\ todo' = todo /\ ent' = ent /\ kids' = kids
      /\ where' = where /\ kids[cur] = {} /\ todo = Contents[ent[cur]]
      /\ ent[cur] \in Dirs
  BY DEF FreeDone, Filling, heap, IInv, HandlesLive
<1> DEFINE disk == Contents[ent[cur]]
<1>2. disk \in Seq(DirEntry) /\ Len(disk) \in Nat
  BY <1>1, ContentsType
<1>3. \A i \in 1 .. Len(todo) : todo[i] = disk[0 + i]
  BY <1>1, <1>2
<1>4. IsFiniteSet({}) /\ Cardinality({}) = 0
  BY FS_EmptySet
<1>5. Built(cur)' = {} /\ {disk[i] : i \in 1 .. 0} = {}
  BY <1>1 DEF Built
<1>6. 0 \in 0 .. Len(disk) /\ Len(todo) = Len(disk) - 0
  BY <1>1, <1>2
<1> HIDE DEF disk
<1>7. \E n \in 0 .. Len(disk) :
        /\ Len(todo) = Len(disk) - n
        /\ \A i \in 1 .. Len(todo) : todo[i] = disk[n + i]
        /\ IsFiniteSet(kids'[cur]) /\ Cardinality(kids'[cur]) = n
        /\ Built(cur)' = {disk[i] : i \in 1 .. n}
  BY <1>1, <1>3, <1>4, <1>5, <1>6
<1> QED BY <1>1, <1>7 DEF Filling, Built, disk

LEMMA ListEntryFilling ==
  ASSUME IInv, Filling, ListEntry
  PROVE  Filling'
<1> DEFINE disk == Contents[ent[cur]]
           de == Head(todo)
<1>1. /\ op = "fill" /\ op' = "fill" /\ cur' = cur /\ todo # <<>> /\ todo' = Tail(todo)
      /\ cur \in Addr /\ cur \in live /\ ent[cur] \in Dirs /\ todo \in Seq(DirEntry)
  BY DEF ListEntry, IInv, TypeOK, HandlesLive, Busy
<1>2. PICK a \in Addr : Attach(a, cur, de)
  BY DEF ListEntry
<1>3. PICK n \in 0 .. Len(disk) :
        /\ Len(todo) = Len(disk) - n
        /\ \A i \in 1 .. Len(todo) : todo[i] = disk[n + i]
        /\ IsFiniteSet(kids[cur]) /\ Cardinality(kids[cur]) = n
        /\ Built(cur) = {disk[i] : i \in 1 .. n}
  BY <1>1 DEF Filling
<1>4. disk \in Seq(DirEntry) /\ Len(disk) \in Nat
  BY <1>1, ContentsType
<1>5. a \notin live /\ a # cur /\ a \notin kids[cur]
  BY <1>1, <1>2 DEF Attach, IInv, Shape
<1>6. /\ ent'[cur] = ent[cur] /\ kids'[cur] = kids[cur] \cup {a}
      /\ ent'[a] = de.ent /\ where'[a] = Append(where[cur], de.name)
      /\ \A k \in kids[cur] : ent'[k] = ent[k] /\ where'[k] = where[k]
  BY <1>1, <1>2, <1>5 DEF Attach, IInv, TypeOK
<1>7. /\ de \in DirEntry /\ de = disk[n + 1] /\ n + 1 \in 0 .. Len(disk)
      /\ Len(Tail(todo)) = Len(disk) - (n + 1)
      /\ \A i \in 1 .. Len(Tail(todo)) : Tail(todo)[i] = disk[n + 1 + i]
  <2>1. Len(todo) \in Nat \ {0} /\ de = todo[1] /\ de \in DirEntry
    BY <1>1
  <2>2. Len(Tail(todo)) = Len(todo) - 1
        /\ \A i \in 1 .. Len(todo) - 1 : Tail(todo)[i] = todo[i + 1]
    BY <1>1, <2>1
  <2>3. de = disk[n + 1] /\ n + 1 \in 0 .. Len(disk)
    <3> HIDE DEF disk, de
    <3> QED BY <1>3, <1>4, <2>1
  <2>4. \A i \in 1 .. Len(todo) - 1 : todo[i + 1] = disk[n + 1 + i]
    <3> HIDE DEF disk, de
    <3> TAKE i \in 1 .. Len(todo) - 1
    <3>1. i + 1 \in 1 .. Len(todo) /\ n + (i + 1) = n + 1 + i
      BY <1>3, <2>1
    <3> QED BY <1>3, <3>1
  <2> HIDE DEF disk, de
  <2> QED BY <1>3, <1>4, <2>1, <2>2, <2>3, <2>4
<1>8. Last(where'[a]) = de.name
  <2>1. where[cur] \in Seq(Name) /\ de.name \in Name
    BY <1>1, <1>7 DEF IInv, TypeOK, DirEntry
  <2> HIDE DEF de
  <2>2. Len(Append(where[cur], de.name)) = Len(where[cur]) + 1
        /\ Append(where[cur], de.name)[Len(where[cur]) + 1] = de.name
    BY <2>1
  <2> QED BY <1>6, <2>2 DEF Last
<1>9. [name |-> Last(where'[a]), ent |-> ent'[a]] = de
  BY <1>6, <1>7, <1>8 DEF DirEntry
<1>10. Built(cur)' = {disk[i] : i \in 1 .. n + 1}
  <2>1. Built(cur)' = Built(cur) \cup {de}
    <3>1. Built(cur)' = {[name |-> Last(where'[k]), ent |-> ent'[k]] : k \in kids[cur] \cup {a}}
      BY <1>1, <1>6 DEF Built
    <3> HIDE DEF de
    <3> QED BY <1>6, <1>9, <3>1 DEF Built
  <2>2. 1 .. n + 1 = (1 .. n) \cup {n + 1}
    BY <1>3, <1>4
  <2> HIDE DEF disk, de
  <2> QED BY <1>3, <1>7, <2>1, <2>2
<1>11. IsFiniteSet(kids'[cur]) /\ Cardinality(kids'[cur]) = n + 1
  <2> DEFINE K == kids[cur]
  <2>1. IsFiniteSet(K) /\ a \notin K /\ Cardinality(K) = n
    BY <1>3, <1>5
  <2> HIDE DEF K
  <2>2. IsFiniteSet(K \cup {a}) /\ Cardinality(K \cup {a}) = n + 1
    BY <2>1, FS_AddElement
  <2> QED BY <1>6, <2>2 DEF K
<1>12. Contents[ent'[cur']] = disk /\ kids'[cur'] = kids'[cur]
  BY <1>1, <1>6
<1> HIDE DEF disk, de
<1>13. \E m \in 0 .. Len(disk) :
         /\ Len(todo') = Len(disk) - m
         /\ \A i \in 1 .. Len(todo') : todo'[i] = disk[m + i]
         /\ IsFiniteSet(kids'[cur']) /\ Cardinality(kids'[cur']) = m
         /\ Built(cur)' = {disk[i] : i \in 1 .. m}
  BY <1>1, <1>7, <1>10, <1>11, <1>12
<1> QED BY <1>1, <1>12, <1>13 DEF Filling, disk

LEMMA FillingKept ==
  ASSUME IInv, Filling, [Next]_vars
  PROVE  Filling'
<1>1. CASE CallerFind \/ CallerSet \/ Unmount
  BY <1>1 DEF CallerFind, StartFind, CallerSet, SetCurrentDirectory, call, Unmount, Filling
<1>2. CASE CallerList
  BY <1>2 DEF CallerList, StartList, heap, Filling
<1>3. CASE FindDots \/ FindEnter \/ FindFail \/ FindDone
  BY <1>3 DEF FindDots, FindEnter, FindFail, FindDone, FindReturn, Filling
<1>4. CASE \E n \in doomed : FreeChildren(n)
  BY <1>4 DEF FreeChildren, heap, Filling
<1>5. CASE \E n \in doomed : FreeNode(n)
  BY <1>5, FreeNodeFilling
<1>6. CASE FreeDone \/ ListEntry
  BY <1>6, FreeDoneFilling, ListEntryFilling
<1>7. CASE (\E ok \in BOOLEAN : ListReturn(ok)) \/ UnmountDone
  BY <1>7 DEF ListReturn, UnmountDone, Filling
<1>8. CASE UNCHANGED vars
  <2>1. /\ op' = op /\ todo' = todo /\ cur' = cur /\ doomed' = doomed
        /\ ent' = ent /\ kids' = kids /\ where' = where
    BY <1>8 DEF vars, heap, call
  <2>2. Built(cur)' = Built(cur)
    BY <2>1 DEF Built
  <2> QED BY <2>1, <2>2 DEF Filling
<1> QED BY <1>1, <1>2, <1>3, <1>4, <1>5, <1>6, <1>7, <1>8 DEF Next, DriverStep

LEMMA ReturnsExact ==
  ASSUME IInv, Filling, [Next]_vars, Listing, "fat" \notin failed'
  PROVE  Exact(cur)
<1>1. op = "fill" /\ op' = "idle" /\ listed'
  BY DEF Listing
<1>2. PICK ok \in BOOLEAN : ListReturn(ok)
  BY <1>1 DEF Next, DriverStep, CallerFind, StartFind, CallerList, StartList, CallerSet,
              SetCurrentDirectory, Unmount, FindDots, FindEnter, FindFail, FindDone,
              FindReturn, FreeChildren, FreeNode, FreeDone, ListEntry, UnmountDone, vars, call
<1>3. todo = <<>>
  BY <1>1, <1>2 DEF ListReturn
<1> DEFINE disk == Contents[ent[cur]]
<1>4. disk \in Seq(DirEntry) /\ Len(disk) \in Nat
  BY <1>1, ContentsType DEF IInv, HandlesLive
<1>5. PICK n \in 0 .. Len(disk) :
        /\ Len(todo) = Len(disk) - n
        /\ Cardinality(kids[cur]) = n
        /\ Built(cur) = {disk[i] : i \in 1 .. n}
  BY <1>1 DEF Filling
<1>6. n = Len(disk) /\ 1 .. n = DOMAIN disk
  <2> HIDE DEF disk
  <2> QED BY <1>3, <1>4, <1>5
<1> QED BY <1>5, <1>6 DEF Exact

-----------------------------------------------------------------------------

\* The inductive invariant holds in every reachable state of the driver.
THEOREM Invariance == Spec => []IInv
<1>1. Init => IInv
  BY InitIInv
<1>2. IInv /\ [Next]_vars => IInv'
  BY NextIInv
<1> QED BY <1>1, <1>2, PTL DEF Spec

\* Type correctness of the driver's node tree.
THEOREM TypeCorrect == Spec => []TypeOK
<1>1. IInv => TypeOK
  BY DEF IInv
<1> QED BY <1>1, Invariance, PTL

\* find_path, list_directory and unmount keep the nodes a forest of live memory
\* in which no node is ever lost, and free no node twice.
THEOREM ForestOfLiveNodes == Spec => [](Shape /\ Reachable)
<1>1. IInv => Shape /\ Reachable
  BY DEF IInv
<1> QED BY <1>1, Invariance, PTL

\* No node is ever lost: a listing or an unmount can still reach each of them, and
\* fat_driver_unmount gives all of them back.
THEOREM NothingLost == Spec => []NoNodeLost
<1>1. IInv => NoNodeLost
  BY DEF IInv, NoNodeLost
<1> QED BY <1>1, Invariance, PTL

\* Only a call that frees has nodes to free, all below the directory it lists
\* and none on the way to the driver's own; only directories have children.
THEOREM FreesOnlyBelow == Spec => []Standing
<1>1. IInv => Standing
  BY DEF IInv
<1> QED BY <1>1, Invariance, PTL

\* The driver never works on a freed node while its caller keeps its side.
THEOREM DriverHandlesLive == Spec => []HandlesLive
<1>1. IInv => HandlesLive
  BY DEF IInv
<1> QED BY <1>1, Invariance, PTL

\* After a listing that returned 0 the children are the directory's entries, each
\* once, whatever was attached before and whatever failed but a sector of the FAT.
THEOREM ListsExactly == Spec => ListingExact
<1>1. Init => Filling
  BY DEF Init, Filling
<1>2. IInv /\ Filling /\ [Next]_vars => Filling'
  BY FillingKept
<1>3. IInv /\ Filling /\ [Next]_vars => [ Listing /\ "fat" \notin failed' => Exact(cur) ]_vars
  BY ReturnsExact
<1> QED BY <1>1, <1>2, <1>3, Invariance, PTL DEF Spec, ListingExact

-----------------------------------------------------------------------------
(* 3. Objects by their names, and walks along paths *)

Objects == Entry \cup {Null}

LEMMA IntoType ==
  ASSUME NEW e \in Objects, NEW nm \in Component
  PROVE  /\ Into[e][nm] \in Objects
         /\ Into[e][nm] # Null => e \in Dirs /\ nm \in Name
         /\ e \in Dirs => Into[e][nm] = IF FirstMatch(e, nm) = Null THEN Null
                                        ELSE FirstMatch(e, nm).ent
<1>1. Into[e][nm] = IF e \notin Dirs \/ FirstMatch(e, nm) = Null THEN Null
                    ELSE FirstMatch(e, nm).ent
  BY DEF Into, Objects
<1>2. CASE e \notin Dirs \/ FirstMatch(e, nm) = Null
  BY <1>1, <1>2 DEF Objects
<1>3. CASE e \in Dirs /\ FirstMatch(e, nm) # Null
  <2>1. FirstMatch(e, nm) \in DirEntry /\ nm \in Name
    BY <1>3, MatchNamed
  <2> QED BY <1>1, <1>3, <2>1 DEF Objects, DirEntry
<1> QED BY <1>2, <1>3

LEMMA ObjectFold ==
  ASSUME NEW s
  PROVE  ObjectAt(s) = FoldBy(Into, RootEntry, s)
BY DEF ObjectAt, FoldBy

LEMMA ObjectAtRoot == ObjectAt(<<>>) = RootEntry
BY ObjectFold, FoldEmpty

LEMMA ObjectAtNext ==
  ASSUME NEW w \in Seq(Component), NEW nm \in Component
  PROVE  ObjectAt(Append(w, nm)) = Into[ObjectAt(w)][nm]
BY ObjectFold, FoldAppend

LEMMA ObjectAtType ==
  ASSUME NEW w \in Seq(Component)
  PROVE  ObjectAt(w) \in Objects
<1> DEFINE P == {s \in Seq(Component) : ObjectAt(s) \in Objects}
<1>1. <<>> \in P
  BY ObjectAtRoot, DiskAssumption DEF Objects
<1>2. \A s \in Seq(Component), c \in Component : s \in P => Append(s, c) \in P
  BY ObjectAtNext, IntoType
<1>3. \A s \in Seq(Component) : s \in P
  <2> HIDE DEF P
  <2> QED BY <1>1, <1>2, SeqInduction
<1> QED BY <1>3

\* Names are components, and not the special ones.
LEMMA NamesAreComponents ==
  ASSUME NEW w \in Seq(Name)
  PROVE  w \in Seq(Component)
BY DEF Component

\* What lies below a directory can only be reached through it.
LEMMA ObjectAbove ==
  ASSUME NEW w \in Seq(Name), NEW c \in Component, ObjectAt(Append(w, c)) # Null
  PROVE  ObjectAt(w) \in Dirs /\ c \in Name
BY NamesAreComponents, ObjectAtType, ObjectAtNext, IntoType

Places == {Null} \cup Seq(Name)

\* One step of a walk from a directory.
LEMMA GoFrom ==
  ASSUME NEW w \in Seq(Name), NEW c \in Component, ObjectAt(w) \in Dirs
  PROVE  /\ c = "." => Go[w][c] = w
         /\ c = ".." => Go[w][c] = IF w = <<>> THEN w ELSE Front(w)
         /\ c \notin {".", ".."} =>
              Go[w][c] = IF ObjectAt(Append(w, c)) = Null THEN Null ELSE Append(w, c)
BY NullAssumption DEF Go

LEMMA GoNowhere ==
  ASSUME NEW w \in Places, NEW c \in Component, w = Null \/ ObjectAt(w) \notin Dirs
  PROVE  Go[w][c] = Null
BY DEF Go, Places

LEMMA GoType ==
  ASSUME NEW w \in Places, NEW c \in Component
  PROVE  Go[w][c] \in Places
<1>1. CASE w = Null \/ ObjectAt(w) \notin Dirs
  BY <1>1, GoNowhere DEF Places
<1>2. CASE w \in Seq(Name) /\ ObjectAt(w) \in Dirs
  <2>1. w # <<>> => Front(w) \in Seq(Name)
    BY <1>2, SeqFront
  <2>2. ObjectAt(Append(w, c)) # Null => Append(w, c) \in Seq(Name)
    BY <1>2, ObjectAbove
  <2> QED BY <1>2, <2>1, <2>2, GoFrom DEF Places
<1> QED BY <1>1, <1>2 DEF Places

LEMMA WalkFold ==
  ASSUME NEW f, NEW s
  PROVE  Walk(f, s) = FoldBy(Go, f, s)
BY DEF Walk, FoldBy

LEMMA WalkNext ==
  ASSUME NEW f, NEW s \in Seq(Component), NEW c \in Component
  PROVE  Walk(f, Append(s, c)) = Go[Walk(f, s)][c]
BY WalkFold, FoldAppend

LEMMA WalkNone ==
  ASSUME NEW f
  PROVE  Walk(f, <<>>) = f
BY WalkFold, FoldEmpty

LEMMA WalkOn ==
  ASSUME NEW f, NEW s \in Seq(Component), NEW r \in Seq(Component)
  PROVE  Walk(f, s \o r) = Walk(Walk(f, s), r)
BY WalkFold, FoldConcat

LEMMA WalkType ==
  ASSUME NEW f \in Places, NEW s \in Seq(Component)
  PROVE  Walk(f, s) \in Places
<1> DEFINE P == {r \in Seq(Component) : Walk(f, r) \in Places}
<1>1. <<>> \in P
  BY WalkNone
<1>2. \A r \in Seq(Component), c \in Component : r \in P => Append(r, c) \in P
  BY WalkNext, GoType
<1>3. \A r \in Seq(Component) : r \in P
  <2> HIDE DEF P
  <2> QED BY <1>1, <1>2, SeqInduction
<1> QED BY <1>3

\* A walk that has led nowhere stays there.
LEMMA WalkLost ==
  ASSUME NEW s \in Seq(Component)
  PROVE  Walk(Null, s) = Null
<1> DEFINE P == {r \in Seq(Component) : Walk(Null, r) = Null}
<1>1. <<>> \in P
  BY WalkNone
<1>2. \A r \in Seq(Component), c \in Component : r \in P => Append(r, c) \in P
  BY WalkNext, GoNowhere DEF Places
<1>3. \A r \in Seq(Component) : r \in P
  <2> HIDE DEF P
  <2> QED BY <1>1, <1>2, SeqInduction
<1> QED BY <1>3

\* Over plain names a walk goes down, or nowhere.
LEMMA WalkDown ==
  ASSUME NEW s \in Seq(Name)
  PROVE  Walk(<<>>, s) \in {Null, s}
<1> DEFINE P == {r \in Seq(Name) : Walk(<<>>, r) \in {Null, r}}
<1>1. <<>> \in P
  BY WalkNone
<1>2. ASSUME NEW r \in Seq(Name), NEW c \in Name, r \in P PROVE Append(r, c) \in P
  <2> DEFINE q == Append(r, c)
  <2>1. r \in Seq(Component) /\ c \in Component /\ c \notin {".", ".."}
    BY NamesAreComponents, NameAssumption DEF Component, Special
  <2>2. Walk(<<>>, q) = Go[Walk(<<>>, r)][c] /\ q \in Seq(Name)
    BY <2>1, WalkNext
  <2>3. Walk(<<>>, q) \in {Null, q}
    <3>1. CASE Walk(<<>>, r) = Null \/ ObjectAt(Walk(<<>>, r)) \notin Dirs
      <4>1. Walk(<<>>, r) \in Places
        BY <1>2 DEF Places
      <4>2. Walk(<<>>, q) = Null
        BY <2>1, <2>2, <3>1, <4>1, GoNowhere
      <4> QED BY <4>2
    <3>2. CASE Walk(<<>>, r) = r /\ ObjectAt(r) \in Dirs
      BY <2>1, <2>2, <3>2, GoFrom
    <3> QED BY <1>2, <3>1, <3>2
  <2> HIDE DEF q
  <2>4. q \in P
    BY <2>2, <2>3
  <2> QED BY <2>4 DEF q
<1>3. \A r \in Seq(Name) : r \in P
  <2> HIDE DEF P
  <2> QED BY <1>1, <1>2, SeqInduction
<1> QED BY <1>3

\* An object is where its names lead.
LEMMA WalkToObject ==
  ASSUME NEW w \in Seq(Name), ObjectAt(w) # Null
  PROVE  Walk(<<>>, w) = w
<1> DEFINE P == {s \in Seq(Name) : ObjectAt(s) # Null => Walk(<<>>, s) = s}
<1>1. <<>> \in P
  BY WalkNone
<1>2. ASSUME NEW s \in Seq(Name), NEW c \in Name, s \in P PROVE Append(s, c) \in P
  <2> SUFFICES ASSUME ObjectAt(Append(s, c)) # Null PROVE Walk(<<>>, Append(s, c)) = Append(s, c)
    OBVIOUS
  <2>1. s \in Seq(Component) /\ c \in Component /\ c \notin {".", ".."}
    BY NamesAreComponents, NameAssumption DEF Component, Special
  <2>2. ObjectAt(s) \in Dirs
    BY <2>1, ObjectAbove
  <2>3. Walk(<<>>, s) = s
    BY <1>2, <2>2, NullAssumption, DiskAssumption
  <2>4. Walk(<<>>, Append(s, c)) = Go[s][c]
    BY <2>1, <2>3, WalkNext
  <2>5. Go[s][c] = Append(s, c)
    BY <2>1, <2>2, GoFrom
  <2> QED BY <2>4, <2>5
<1>3. \A s \in Seq(Name) : s \in P
  <2> HIDE DEF P
  <2> QED BY <1>1, <1>2, SeqInduction
<1> QED BY <1>3

\* A walk that comes from names and leads somewhere leads to an object, if it
\* started at one.
LEMMA WalkEnds ==
  ASSUME NEW w \in Seq(Name), ObjectAt(w) # Null, NEW s \in Seq(Component), Walk(w, s) # Null
  PROVE  Walk(w, s) \in Seq(Name) /\ ObjectAt(Walk(w, s)) # Null
<1> DEFINE P == {r \in Seq(Component) : Walk(w, r) # Null => ObjectAt(Walk(w, r)) # Null}
<1>1. <<>> \in P
  BY WalkNone
<1>2. ASSUME NEW r \in Seq(Component), NEW c \in Component, r \in P PROVE Append(r, c) \in P
  <2> SUFFICES ASSUME Walk(w, Append(r, c)) # Null
               PROVE  ObjectAt(Walk(w, Append(r, c))) # Null
    OBVIOUS
  <2> DEFINE v == Walk(w, r)
  <2>1. v \in Places /\ Walk(w, Append(r, c)) = Go[v][c]
    BY WalkType, WalkNext DEF Places
  <2> HIDE DEF v
  <2>2. v \in Seq(Name) /\ ObjectAt(v) \in Dirs
    BY <2>1, GoNowhere DEF Places
  <2>3. ObjectAt(v) # Null
    BY <2>2, NullAssumption, DiskAssumption
  <2>4. CASE c = ".." /\ v # <<>>
    <3>1. Front(v) \in Seq(Name) /\ v[Len(v)] \in Component /\ v = Append(Front(v), v[Len(v)])
      BY <2>2, <2>4, SeqFront DEF Component
    <3>2. ObjectAt(Front(v)) \in Dirs
      BY <2>3, <3>1, ObjectAbove
    <3> QED BY <2>1, <2>2, <2>4, <3>2, GoFrom, NullAssumption, DiskAssumption
  <2>5. CASE c = "." \/ (c = ".." /\ v = <<>>)
    BY <2>1, <2>2, <2>3, <2>5, GoFrom
  <2>6. CASE c \notin {".", ".."}
    BY <2>1, <2>2, <2>6, GoFrom
  <2> QED BY <2>4, <2>5, <2>6
<1>3. \A r \in Seq(Component) : r \in P
  <2> HIDE DEF P
  <2> QED BY <1>1, <1>2, SeqInduction
<1>4. Walk(w, s) \in Places
  BY WalkType DEF Places
<1> QED BY <1>3, <1>4 DEF Places

-----------------------------------------------------------------------------
(* 4. Searches; and the text of a path *)

LEMMA TokenFrom ==
  ASSUME NEW w \in Seq(Name), NEW c \in Component
  PROVE  /\ c \in {".", ""} => Token[w][c] = w
         /\ c = ".." => Token[w][c] = IF w = <<>> THEN w ELSE Front(w)
         /\ c \notin Special => Token[w][c] = Append(w, c)
         /\ Token[w][c] \in Seq(Name)
<1>1. Token[w][c] = CASE c = ".." -> IF w = <<>> THEN w ELSE Front(w)
                      [] c \in {".", ""} -> w
                      [] OTHER -> Append(w, c)
  BY DEF Token
<1>2. w # <<>> => Front(w) \in Seq(Name)
  BY SeqFront
<1>3. c \notin Special => Append(w, c) \in Seq(Name)
  BY DEF Component
<1> QED BY <1>1, <1>2, <1>3 DEF Special

LEMMA NormalizeFold ==
  ASSUME NEW s
  PROVE  Normalize(s) = FoldBy(Token, <<>>, s)
BY DEF Normalize, FoldBy

LEMMA TokensType ==
  ASSUME NEW w \in Seq(Name), NEW s \in Seq(Component)
  PROVE  FoldBy(Token, w, s) \in Seq(Name)
<1> DEFINE P == {r \in Seq(Component) : FoldBy(Token, w, r) \in Seq(Name)}
<1>1. <<>> \in P
  BY FoldEmpty
<1>2. ASSUME NEW r \in Seq(Component), NEW c \in Component, r \in P PROVE Append(r, c) \in P
  <2> DEFINE v == FoldBy(Token, w, r)
  <2>1. v \in Seq(Name) /\ FoldBy(Token, w, Append(r, c)) = Token[v][c]
    BY <1>2, FoldAppend
  <2> HIDE DEF v
  <2>2. Token[v][c] \in Seq(Name)
    BY <2>1, TokenFrom
  <2>3. Append(r, c) \in Seq(Component) /\ FoldBy(Token, w, Append(r, c)) \in Seq(Name)
    BY <2>1, <2>2
  <2> QED BY <2>3
<1>3. \A r \in Seq(Component) : r \in P
  <2> HIDE DEF P
  <2> QED BY <1>1, <1>2, SeqInduction
<1> QED BY <1>3

\* Plain names are left as they are.
LEMMA NormalizeNames ==
  ASSUME NEW w \in Seq(Name)
  PROVE  FoldBy(Token, <<>>, w) = w
<1> DEFINE P == {s \in Seq(Name) : FoldBy(Token, <<>>, s) = s}
<1>1. <<>> \in P
  BY FoldEmpty
<1>2. ASSUME NEW s \in Seq(Name), NEW c \in Name, s \in P PROVE Append(s, c) \in P
  <2>1. c \in Component /\ c \notin Special
    BY NameAssumption DEF Component
  <2>2. FoldBy(Token, <<>>, Append(s, c)) = Token[s][c]
    BY <1>2, FoldAppend
  <2> QED BY <2>1, <2>2, TokenFrom
<1>3. \A s \in Seq(Name) : s \in P
  <2> HIDE DEF P
  <2> QED BY <1>1, <1>2, SeqInduction
<1> QED BY <1>3

\* Where a walk leads somewhere, the text alone leads to the same place.
LEMMA TokensWalk ==
  ASSUME NEW w \in Seq(Name), NEW s \in Seq(Component), Walk(w, s) # Null
  PROVE  FoldBy(Token, w, s) = Walk(w, s)
<1> DEFINE P == {r \in Seq(Component) : Walk(w, r) # Null => FoldBy(Token, w, r) = Walk(w, r)}
<1>1. <<>> \in P
  BY FoldEmpty, WalkNone
<1>2. ASSUME NEW r \in Seq(Component), NEW c \in Component, r \in P PROVE Append(r, c) \in P
  <2> SUFFICES ASSUME Walk(w, Append(r, c)) # Null
               PROVE  FoldBy(Token, w, Append(r, c)) = Walk(w, Append(r, c))
    OBVIOUS
  <2> DEFINE v == Walk(w, r)
  <2>1. v \in Places /\ Walk(w, Append(r, c)) = Go[v][c]
        /\ FoldBy(Token, w, Append(r, c)) = Token[FoldBy(Token, w, r)][c]
    BY WalkType, WalkNext, FoldAppend DEF Places
  <2>2. v # Null => FoldBy(Token, w, r) = v
    BY <1>2
  <2> HIDE DEF v
  <2>3. v \in Seq(Name) /\ ObjectAt(v) \in Dirs
    BY <2>1, GoNowhere DEF Places
  <2>4. FoldBy(Token, w, Append(r, c)) = Token[v][c] /\ Go[v][c] # Null
    BY <2>1, <2>2, <2>3, NullAssumption
  <2>5. c # ""
    BY <2>3, <2>4, GoFrom, ObjectAbove, NameAssumption DEF Special
  <2>6. Token[v][c] = Go[v][c]
    <3> HIDE DEF P
    <3>a. /\ c = "." => Go[v][c] = v
          /\ c = ".." => Go[v][c] = IF v = <<>> THEN v ELSE Front(v)
          /\ c \notin {".", ".."} =>
               Go[v][c] = IF ObjectAt(Append(v, c)) = Null THEN Null ELSE Append(v, c)
      BY <2>3, GoFrom
    <3>b. /\ c \in {".", ""} => Token[v][c] = v
          /\ c = ".." => Token[v][c] = IF v = <<>> THEN v ELSE Front(v)
          /\ c \notin Special => Token[v][c] = Append(v, c)
      BY <2>3, TokenFrom
    <3>1. CASE c = ".." \/ c = "."
      BY <3>1, <3>a, <3>b
    <3>2. CASE c \notin Special
      BY <2>4, <3>2, <3>a, <3>b DEF Special
    <3> QED BY <2>5, <3>1, <3>2 DEF Special
  <2> QED BY <2>1, <2>4, <2>6
<1>3. \A r \in Seq(Component) : r \in P
  <2> HIDE DEF P
  <2> QED BY <1>1, <1>2, SeqInduction
<1> QED BY <1>3

\* cd works out, on text, where a walk from the prompt's path would end.
LEMMA NormalizedWalk ==
  ASSUME NEW w \in Seq(Name), NEW s \in Seq(Component)
  PROVE  /\ Normalize(w \o s) \in Seq(Name)
         /\ Walk(w, s) # Null => Normalize(w \o s) = Walk(w, s)
<1>1. w \in Seq(Component)
  BY NamesAreComponents
<1>2. Normalize(w \o s) = FoldBy(Token, w, s)
  BY <1>1, NormalizeFold, FoldConcat, NormalizeNames
<1> QED BY <1>2, TokensType, TokensWalk

\* The driver, from the root, walks the prompt's path first.
LEMMA WalkFromRoot ==
  ASSUME NEW w \in Seq(Name), ObjectAt(w) # Null, NEW s \in Seq(Component)
  PROVE  Walk(<<>>, w \o s) = Walk(w, s)
BY NamesAreComponents, WalkOn, WalkToObject

\* The first component of a walk is taken first.
LEMMA WalkStep ==
  ASSUME NEW w, NEW s \in Seq(Component), s # <<>>
  PROVE  /\ Head(s) \in Component /\ Tail(s) \in Seq(Component)
         /\ Walk(w, s) = Walk(Go[w][Head(s)], Tail(s))
<1> DEFINE h == <<Head(s)>>
           t == Tail(s)
<1>1. Head(s) \in Component /\ h \in Seq(Component) /\ t \in Seq(Component)
  OBVIOUS
<1>2. s = h \o t
  OBVIOUS
<1>3. FoldBy(Go, w, h) = Go[w][Head(s)]
  BY FoldOne
<1> HIDE DEF h, t
<1>4. FoldBy(Go, w, h \o t) = FoldBy(Go, FoldBy(Go, w, h), t)
  BY <1>1, FoldConcat
<1> QED BY <1>1, <1>2, <1>3, <1>4, WalkFold DEF t

-----------------------------------------------------------------------------
(* The invariant of a search: what it has found so far is what the walk has  *)
(* come to, and the rest of the path leads from there where the whole does.  *)

\* A node hangs below the one with the names before its own.
Named == \A n \in live \ {root} : where[n] # <<>> /\ where[parent[n]] = Front(where[n])

RootHere == Open => ent[root] = RootEntry

\* The node is filled from the object of its names.
Right(n) == n \in live /\ ObjectAt(where[n]) = ent[n]

\* Where a search stands, and all that it can climb to from there.
Trail ==
  op = "find" => \E T \in SUBSET Addr : /\ cur \in T
                                        /\ \A n \in T : Right(n) /\ (n # root => parent[n] \in T)

Progress == op = "find" => Walk(asked.from, asked.comps) = Walk(where[cur], rest)

Search == Named /\ RootHere /\ Trail /\ Progress

\* All nodes are filled from the objects of their names.
AllRight == \A n \in live : Right(n)

\* No directory has two entries of one name.
DistinctNames ==
  \A d \in Dirs : \A i, j \in DOMAIN Contents[d] :
    Contents[d][i].name = Contents[d][j].name => i = j

LEMMA AttachNamed ==
  ASSUME IInv, Named, Open, root' = root, NEW a, NEW d \in live, NEW de \in DirEntry,
         Attach(a, d, de)
  PROVE  Named'
<1> USE DEF IInv, TypeOK, Attach
<1>1. a \in Addr \ live /\ d \in Addr /\ a # d /\ root \in live
  BY DEF HandlesLive
<1>2. where[d] \in Seq(Name) /\ de.name \in Name
  BY <1>1 DEF DirEntry
<1>3. Append(where[d], de.name) # <<>> /\ Front(Append(where[d], de.name)) = where[d]
  BY <1>2, FrontAppend
<1>4. parent'[a] = d /\ where'[a] = Append(where[d], de.name) /\ where'[d] = where[d]
  BY <1>1
<1> SUFFICES ASSUME NEW n \in live' \ {root'}
             PROVE  where'[n] # <<>> /\ where'[parent'[n]] = Front(where'[n])
  BY DEF Named
<1>5. CASE n = a
  BY <1>3, <1>4, <1>5
<1>6. CASE n # a
  <2>1. n \in live \ {root} /\ parent[n] \in live /\ parent[n] # a
    BY <1>1, <1>6 DEF Reachable
  <2>2. parent'[n] = parent[n] /\ where'[n] = where[n] /\ where'[parent[n]] = where[parent[n]]
    BY <1>1, <1>6, <2>1
  <2> QED BY <2>1, <2>2 DEF Named
<1> QED BY <1>5, <1>6

LEMMA FreeNamed ==
  ASSUME IInv, Named, NEW n \in doomed, FreeNode(n)
  PROVE  Named'
<1> USE DEF IInv, TypeOK, FreeNode
<1> SUFFICES ASSUME NEW m \in live' \ {root'}
             PROVE  where'[m] # <<>> /\ where'[parent'[m]] = Front(where'[m])
  BY DEF Named
<1>1. m \in live \ {root} /\ m # n /\ n \in Addr /\ m \in Addr
  BY DEF driver
<1>2. parent[m] \in live /\ m \in kids[parent[m]]
  BY <1>1 DEF Reachable
<1>3. parent[m] # n
  BY <1>2
<1>4. parent'[m] = parent[m] /\ where'[m] = where[m] /\ where'[parent[m]] = where[parent[m]]
  BY <1>1, <1>2, <1>3
<1> QED BY <1>1, <1>4 DEF Named

LEMMA NamedKept ==
  ASSUME IInv, Named, [Next]_vars
  PROVE  Named'
<1>1. CASE UNCHANGED <<heap, root>>
  BY <1>1 DEF Named, heap
<1>2. CASE FindEnter
  <2> DEFINE de == FirstMatch(ent[cur], Head(rest))
  <2>1. PICK a \in Addr : Attach(a, cur, de)
    BY <1>2 DEF FindEnter
  <2>2. Open /\ cur \in live /\ root' = root /\ ent[cur] \in Dirs /\ de # Null
    BY <1>2 DEF FindEnter, Open, Busy, IInv, HandlesLive, driver, Usable
  <2>3. de \in DirEntry
    BY <2>2, FirstMatchType
  <2> HIDE DEF de
  <2> QED BY <2>1, <2>2, <2>3, AttachNamed
<1>3. CASE ListEntry
  <2> DEFINE de == Head(todo)
  <2>1. PICK a \in Addr : Attach(a, cur, de)
    BY <1>3 DEF ListEntry
  <2>2. Open /\ cur \in live /\ root' = root
    BY <1>3 DEF ListEntry, Open, Busy, IInv, HandlesLive, driver
  <2>3. de \in DirEntry
    BY <1>3 DEF ListEntry, IInv, TypeOK
  <2> HIDE DEF de
  <2> QED BY <2>1, <2>2, <2>3, AttachNamed
<1>4. CASE \E n \in doomed : FreeNode(n)
  BY <1>4, FreeNamed
<1>5. CASE UnmountDone
  <2>1. live' = {}
    BY <1>5, UnmountDoneIInv DEF UnmountDone, IInv, NoLeak
  <2> QED BY <2>1 DEF Named
<1>6. CASE CallerFind \/ CallerList \/ CallerSet \/ Unmount
  BY <1>1, <1>6 DEF CallerFind, StartFind, CallerList, StartList, CallerSet,
                    SetCurrentDirectory, Unmount, driver
<1>7. CASE FindDots \/ FindFail \/ FindDone \/ (\E n \in doomed : FreeChildren(n)) \/ FreeDone
           \/ \E ok \in BOOLEAN : ListReturn(ok)
  BY <1>1, <1>7 DEF FindDots, FindFail, FindDone, FindReturn, FreeChildren, FreeDone,
                    ListReturn, driver
<1>8. CASE UNCHANGED vars
  BY <1>1, <1>8 DEF vars, driver
<1> QED BY <1>2, <1>3, <1>4, <1>5, <1>6, <1>7, <1>8 DEF Next, DriverStep

LEMMA RootHereKept ==
  ASSUME IInv, RootHere, [Next]_vars
  PROVE  RootHere'
<1> SUFFICES ASSUME Open' PROVE ent'[root'] = RootEntry
  BY DEF RootHere
<1>1. CASE Open /\ UNCHANGED <<ent, root>>
  BY <1>1 DEF RootHere
<1>2. CASE FindEnter \/ ListEntry
  <2>1. Open /\ root' = root /\ \E a \in Addr \ live : \E e : ent' = [ent EXCEPT ![a] = e]
    BY <1>2 DEF FindEnter, ListEntry, Attach, Open, driver
  <2>2. root \in live /\ root \in Addr
    BY <2>1 DEF IInv, HandlesLive, TypeOK
  <2>3. ent'[root] = ent[root]
    BY <2>1, <2>2 DEF IInv, TypeOK
  <2> QED BY <2>1, <2>3 DEF RootHere
<1>3. CASE \E n \in doomed : FreeNode(n)
  <2>1. PICK n \in doomed : FreeNode(n)
    BY <1>3
  <2>2. op = "free" /\ Open /\ root' = root
    BY <2>1 DEF FreeNode, Open, driver
  <2>3. n \in Addr /\ cur \in Addr /\ Len(where[n]) > Len(where[cur]) /\ where[root] = <<>>
        /\ root \in Addr
    BY <2>2, NullAssumption DEF IInv, TypeOK, Busy, Standing, HandlesLive, Open
  <2>4. Len(where[cur]) \in Nat
    BY <2>3 DEF IInv, TypeOK
  <2>5. n # root
    BY <2>3, <2>4
  <2>6. ent'[root] = ent[root]
    BY <2>1, <2>3, <2>5 DEF FreeNode, IInv, TypeOK
  <2> QED BY <2>2, <2>6 DEF RootHere
<1>4. CASE CallerFind \/ CallerList \/ CallerSet \/ Unmount
  BY <1>1, <1>4 DEF CallerFind, StartFind, CallerList, StartList, CallerSet,
                    SetCurrentDirectory, Unmount, driver, heap, Open
<1>5. CASE FindDots \/ FindFail \/ FindDone \/ (\E n \in doomed : FreeChildren(n)) \/ FreeDone
           \/ \E ok \in BOOLEAN : ListReturn(ok)
  BY <1>1, <1>5 DEF FindDots, FindFail, FindDone, FindReturn, FreeChildren, FreeDone,
                    ListReturn, driver, heap, Open
<1>6. CASE UNCHANGED vars
  BY <1>1, <1>6 DEF vars, driver, heap, call, Open
<1>7. ~ UnmountDone
  BY DEF UnmountDone, Open
<1> QED BY <1>2, <1>3, <1>4, <1>5, <1>6, <1>7 DEF Next, DriverStep

\* The node that find_path attaches, or list_directory when its directory has
\* no other entry of the name, is filled from the object of its names.
LEMMA AttachRight ==
  ASSUME IInv, Open, NEW d \in live, Right(d), ent[d] \in Dirs, NEW a, NEW de \in DirEntry,
         FirstMatch(ent[d], de.name) = de, Attach(a, d, de)
  PROVE  /\ Right(a)' /\ where'[a] = Append(where[d], de.name) /\ ent'[a] = de.ent
         /\ parent'[a] = d
         /\ ObjectAt(Append(where[d], de.name)) = de.ent
         /\ \A n \in live : Right(n) => Right(n)'
<1>1. a \in Addr \ live /\ d \in Addr /\ where[d] \in Seq(Name) /\ de.name \in Name
  BY DEF Attach, IInv, TypeOK, DirEntry
<1>2. /\ where'[a] = Append(where[d], de.name) /\ ent'[a] = de.ent /\ parent'[a] = d
      /\ a \in live' /\ live \subseteq live'
      /\ \A n \in live : ent'[n] = ent[n] /\ where'[n] = where[n]
  BY <1>1 DEF Attach, IInv, TypeOK
<1>3. de.name \in Component /\ where[d] \in Seq(Component)
  BY <1>1, NamesAreComponents DEF Component
<1>4. ObjectAt(Append(where[d], de.name)) = Into[ent[d]][de.name]
  BY <1>3, ObjectAtNext DEF Right
<1>5. ent[d] \in Objects /\ de # Null
  BY DiskAssumption, NullAssumption DEF Objects
<1>6. Into[ent[d]][de.name] = de.ent
  BY <1>3, <1>5, IntoType
<1> QED BY <1>2, <1>4, <1>6 DEF Right

\* What find_path enters is the first entry of the name it looks for.
LEMMA EnterMatch ==
  ASSUME IInv, FindEnter
  PROVE  LET de == FirstMatch(ent[cur], Head(rest))
         IN  /\ Open /\ cur \in live /\ cur \in Addr /\ ent[cur] \in Dirs
             /\ de \in DirEntry /\ de.name = Head(rest) /\ Head(rest) \in Component
             /\ \E a : a \in Addr \ live /\ Attach(a, cur, de) /\ cur' = a
<1> DEFINE de == FirstMatch(ent[cur], Head(rest))
<1>1. Open /\ cur \in live /\ cur \in Addr /\ ent[cur] \in Dirs /\ de # Null
      /\ rest \in Seq(Component) /\ rest # <<>>
  BY DEF FindEnter, Open, Busy, IInv, HandlesLive, TypeOK, Usable
<1>2. de \in DirEntry /\ de.name = Head(rest) /\ Head(rest) \in Component
  BY <1>1, MatchNamed, HeadTail
<1>3. PICK a \in Addr : Attach(a, cur, de) /\ cur' = a
  BY DEF FindEnter
<1>4. a \in Addr \ live
  BY <1>3 DEF Attach
<1> QED BY <1>1, <1>2, <1>3, <1>4

\* A search that starts at the root starts right, and so does one that starts at
\* a node filled from the object of its names, as its directories are.
LEMMA StartSearch ==
  ASSUME IInv, RootHere, CallerFind, dcwd = root \/ AllRight
  PROVE  Trail' /\ Progress'
<1> USE DEF IInv
<1>1. PICK p \in Paths : StartFind(p)
  BY DEF CallerFind
<1>2. /\ Open /\ op' = "find" /\ UNCHANGED <<heap, driver>>
      /\ cur' \in {root, dcwd} /\ rest' = p.comps
      /\ asked' = [from |-> where[cur'], comps |-> p.comps]
  BY <1>1 DEF StartFind, Open
<1>3. UNCHANGED <<live, ent, parent, where, root>>
  BY <1>2 DEF heap, driver
<1>4. root \in live /\ dcwd \in live /\ live \in SUBSET Addr
  BY <1>2 DEF HandlesLive, TypeOK
<1>5. Right(root)
  <2>1. where[root] = <<>> /\ ent[root] = RootEntry
    BY <1>2, <1>4, NullAssumption DEF RootHere, Standing
  <2> QED BY <1>4, <2>1, ObjectAtRoot DEF Right
<1>6. \E T \in SUBSET Addr : cur' \in T /\ \A n \in T : Right(n) /\ (n # root => parent[n] \in T)
  <2>1. CASE cur' = root
    <3>1. {root} \in SUBSET Addr /\ \A n \in {root} : Right(n) /\ (n # root => parent[n] \in {root})
      BY <1>4, <1>5
    <3> QED BY <2>1, <3>1
  <2>2. CASE cur' # root
    <3>1. AllRight /\ cur' \in live
      BY <1>2, <1>4, <2>2
    <3>2. \A n \in live : n # root => parent[n] \in live
      BY DEF Reachable
    <3> QED BY <1>4, <3>1, <3>2 DEF AllRight
  <2> QED BY <2>1, <2>2
<1>7. Trail'
  BY <1>3, <1>6 DEF Trail, Right
<1>8. Progress'
  BY <1>2, <1>3 DEF Progress
<1> QED BY <1>7, <1>8

LEMMA FindDotsSearch ==
  ASSUME IInv, Named, Trail, Progress, FindDots
  PROVE  Trail' /\ Progress'
<1> USE DEF IInv
<1>1. /\ op = "find" /\ rest # <<>> /\ Head(rest) \in {".", ".."} /\ rest' = Tail(rest)
      /\ UNCHANGED <<heap, driver, asked>> /\ rest \in Seq(Component)
      /\ cur' = IF Head(rest) = ".." /\ parent[cur] # Null THEN parent[cur] ELSE cur
  BY DEF FindDots, TypeOK, results
<1>2. UNCHANGED <<live, ent, parent, where, root>>
  BY <1>1 DEF heap, driver
<1>3. cur \in live /\ cur \in Addr /\ root \in live /\ ent[cur] \in Dirs
  BY <1>1 DEF HandlesLive, Open, Busy, TypeOK
<1>4. PICK T \in SUBSET Addr : cur \in T /\ \A n \in T : Right(n) /\ (n # root => parent[n] \in T)
  BY <1>1 DEF Trail
<1>5. parent[cur] = Null <=> cur = root
  <2>1. CASE cur = root
    BY <1>3, <2>1, NullAssumption DEF Standing
  <2>2. CASE cur # root
    BY <1>3, <2>2, NullAssumption DEF Reachable, TypeOK
  <2> QED BY <2>1, <2>2
<1>6. cur' \in T
  BY <1>1, <1>4, <1>5
<1>7. Trail'
  BY <1>2, <1>4, <1>6 DEF Trail, Right
<1> DEFINE w == where[cur]
<1>8. w \in Seq(Name) /\ ObjectAt(w) \in Dirs
  BY <1>3, <1>4 DEF TypeOK, Right
<1>9. Go[w][Head(rest)] = where[cur']
  <2>1. CASE Head(rest) = "."
    BY <1>1, <1>8, <2>1, GoFrom DEF Component, Special
  <2>2. CASE Head(rest) = ".." /\ cur = root
    <3>1. w = <<>> /\ cur' = cur
      BY <1>1, <1>3, <1>5, <2>2, NullAssumption DEF Standing
    <3> QED BY <1>1, <1>8, <2>2, <3>1, GoFrom DEF Component, Special
  <2>3. CASE Head(rest) = ".." /\ cur # root
    <3>1. cur' = parent[cur] /\ w # <<>> /\ where[parent[cur]] = Front(w)
      BY <1>1, <1>3, <1>5, <2>3 DEF Named
    <3> HIDE DEF w
    <3> QED BY <1>1, <1>8, <2>3, <3>1, GoFrom DEF Component, Special
  <2> QED BY <1>1, <2>1, <2>2, <2>3
<1>10. Progress'
  <2>1. Walk(w, rest) = Walk(Go[w][Head(rest)], Tail(rest))
    BY <1>1, WalkStep
  <2> QED BY <1>1, <1>2, <1>9, <2>1 DEF Progress
<1> QED BY <1>7, <1>10

LEMMA FindEnterSearch ==
  ASSUME IInv, Trail, Progress, FindEnter
  PROVE  Trail' /\ Progress'
<1> USE DEF IInv
<1> DEFINE de == FirstMatch(ent[cur], Head(rest))
           w == where[cur]
<1>1. /\ op = "find" /\ rest # <<>> /\ Head(rest) \notin {".", ".."} /\ rest' = Tail(rest)
      /\ asked' = asked /\ root' = root /\ rest \in Seq(Component)
  BY DEF FindEnter, TypeOK, results, driver
<1>2. /\ Open /\ cur \in live /\ cur \in Addr /\ ent[cur] \in Dirs
      /\ de \in DirEntry /\ de.name = Head(rest) /\ Head(rest) \in Component
      /\ \E a : a \in Addr \ live /\ Attach(a, cur, de) /\ cur' = a
  BY EnterMatch
<1>3. PICK a : a \in Addr \ live /\ Attach(a, cur, de) /\ cur' = a
  BY <1>2
<1>4. PICK T \in SUBSET Addr : cur \in T /\ \A n \in T : Right(n) /\ (n # root => parent[n] \in T)
  BY <1>1 DEF Trail
<1>5. FirstMatch(ent[cur], de.name) = de
  BY <1>2
<1> HIDE DEF de
<1>6. /\ Right(a)' /\ where'[a] = Append(w, de.name) /\ parent'[a] = cur
      /\ ObjectAt(Append(w, de.name)) = de.ent
      /\ \A n \in live : Right(n) => Right(n)'
  BY <1>2, <1>3, <1>4, <1>5, AttachRight
<1>7. \A n \in T : n \in live /\ Right(n)' /\ (n # root => parent'[n] \in T)
  <2>1. \A n \in T : n \in live /\ n # a
    BY <1>3, <1>4 DEF Right
  <2>2. \A n \in live : parent'[n] = parent[n]
    BY <1>3 DEF Attach, TypeOK
  <2> QED BY <1>4, <1>6, <2>1, <2>2
<1>8. Trail'
  <2> DEFINE U == T \cup {a}
  <2>1. U \in SUBSET Addr /\ cur' \in U
    BY <1>3
  <2>2. \A n \in U : Right(n)' /\ (n # root' => parent'[n] \in U)
    BY <1>1, <1>4, <1>6, <1>7
  <2> QED BY <2>1, <2>2 DEF Trail
<1>9. w \in Seq(Name) /\ ObjectAt(w) \in Dirs
  BY <1>2, <1>4 DEF TypeOK, Right
<1>10. ObjectAt(Append(w, Head(rest))) # Null
  BY <1>2, <1>6, NullAssumption DEF DirEntry
<1>11. Go[w][Head(rest)] = where'[a]
  <2>1. Go[w][Head(rest)] = Append(w, Head(rest))
    BY <1>1, <1>2, <1>9, <1>10, GoFrom
  <2> HIDE DEF w
  <2> QED BY <1>2, <1>6, <2>1
<1>12. Progress'
  <2>1. Walk(w, rest) = Walk(Go[w][Head(rest)], Tail(rest))
    BY <1>1, WalkStep
  <2> QED BY <1>1, <1>3, <1>11, <2>1 DEF Progress
<1> QED BY <1>8, <1>12

\* A step keeps what a search knows, if it starts where its names say.
LEMMA SearchKept ==
  ASSUME IInv, Search, [Next]_vars, CallerFind => dcwd = root \/ AllRight
  PROVE  Search'
<1> USE DEF Search
<1>1. Named' /\ RootHere'
  BY NamedKept, RootHereKept
<1>2. CASE op' # "find"
  BY <1>1, <1>2 DEF Trail, Progress
<1>3. CASE CallerFind
  BY <1>1, <1>3, StartSearch
<1>4. CASE FindDots
  BY <1>1, <1>4, FindDotsSearch
<1>5. CASE FindEnter
  BY <1>1, <1>5, FindEnterSearch
<1>6. CASE UNCHANGED vars
  <2>1. Trail' /\ Progress'
    BY <1>6 DEF vars, heap, driver, call, results, Trail, Progress, Right
  <2> QED BY <1>1, <2>1
<1>7. CASE CallerList \/ CallerSet \/ Unmount
  BY <1>2, <1>7 DEF CallerList, StartList, CallerSet, SetCurrentDirectory, Unmount, call
<1>8. CASE FindFail \/ FindDone \/ (\E n \in doomed : FreeChildren(n) \/ FreeNode(n)) \/ FreeDone
           \/ ListEntry \/ (\E ok \in BOOLEAN : ListReturn(ok)) \/ UnmountDone
  BY <1>2, <1>8 DEF FindFail, FindDone, FindReturn, FreeChildren, FreeNode, FreeDone,
                    ListEntry, ListReturn, UnmountDone
<1> QED BY <1>3, <1>4, <1>5, <1>6, <1>7, <1>8 DEF Next, DriverStep

\* What a search answers for a walk that ends at `end'.
Says(end) == IF found = Null THEN failed # {} \/ end = Null
             ELSE where[found] = end /\ ent[found] = ObjectAt(end)

\* A search that returns answers for the walk it was asked for.
LEMMA SearchAnswers ==
  ASSUME IInv, Search, [Next]_vars, op = "find", op' = "idle",
         NEW end, end = Walk(asked.from, asked.comps)
  PROVE  Says(end)'
<1> USE DEF Search, IInv
<1> DEFINE w == where[cur]
<1>1. end = Walk(w, rest)
  BY DEF Progress
<1>2. PICK T \in SUBSET Addr : cur \in T /\ \A n \in T : Right(n) /\ (n # root => parent[n] \in T)
  BY DEF Trail
<1>3. cur \in live /\ cur \in Addr /\ w \in Seq(Name) /\ ObjectAt(w) = ent[cur] /\ rest \in Seq(Component)
  BY <1>2 DEF Right, TypeOK
<1>4. CASE FindDone
  <2>1. found' = cur /\ UNCHANGED <<ent, where>> /\ rest = <<>>
    BY <1>4 DEF FindDone, FindReturn, heap
  <2>2. end = w
    BY <1>1, <2>1, WalkNone
  <2>3. found' # Null
    BY <1>3, <2>1, NullAssumption
  <2> QED BY <1>3, <2>1, <2>2, <2>3 DEF Says
<1>5. CASE FindFail
  <2>1. /\ found' = Null /\ rest # <<>> /\ Head(rest) \notin {".", ".."}
        /\ ~ Usable(FirstMatch(ent[cur], Head(rest))) \/ failed' # {}
    BY <1>5 DEF FindFail, FindReturn
  <2>2. CASE failed' # {}
    BY <2>1, <2>2 DEF Says
  <2>3. CASE ~ Usable(FirstMatch(ent[cur], Head(rest)))
    <3> DEFINE h == Head(rest)
               t == Tail(rest)
               q == Append(w, h)
               g == Go[w][h]
    <3>1. h \in Component /\ t \in Seq(Component) /\ Walk(w, rest) = Walk(g, t)
      BY <1>3, <2>1, WalkStep
    <3>2. ent[cur] \in Dirs /\ ent[cur] \in Objects
      BY <2>1, DiskAssumption DEF HandlesLive, Objects
    <3>3. ObjectAt(q) = IF FirstMatch(ent[cur], h) = Null THEN Null ELSE FirstMatch(ent[cur], h).ent
      BY <1>3, <3>1, <3>2, NamesAreComponents, ObjectAtNext, IntoType
    <3>4. g = IF ObjectAt(q) = Null THEN Null ELSE q
      BY <1>3, <2>1, <3>1, <3>2, GoFrom
    <3>5. CASE ObjectAt(q) = Null
      BY <1>1, <2>1, <3>1, <3>4, <3>5, WalkLost DEF Says
    <3>6. CASE ObjectAt(q) # Null
      <4>1. FirstMatch(ent[cur], h) # Null /\ t # <<>> /\ ObjectAt(q) \notin Dirs
        BY <2>3, <3>3, <3>6 DEF Usable
      <4>2. q \in Seq(Name) /\ g = q
        BY <1>3, <3>1, <3>4, <3>6, ObjectAbove
      <4> HIDE DEF q, g, t, h
      <4>3. Head(t) \in Component /\ Tail(t) \in Seq(Component)
            /\ Walk(q, t) = Walk(Go[q][Head(t)], Tail(t))
        BY <3>1, <4>1, WalkStep
      <4>4. Go[q][Head(t)] = Null
        BY <4>1, <4>2, <4>3, GoNowhere DEF Places
      <4>5. Walk(q, t) = Null
        BY <4>3, <4>4, WalkLost
      <4> QED BY <1>1, <2>1, <3>1, <4>2, <4>5 DEF Says
    <3> QED BY <3>5, <3>6
  <2> QED BY <2>1, <2>2, <2>3
<1>6. FindDone \/ FindFail
  BY DEF Next, DriverStep, CallerFind, StartFind, CallerList, StartList, CallerSet,
         SetCurrentDirectory, Unmount, FindDots, FindEnter, FreeChildren, FreeNode, FreeDone,
         ListEntry, ListReturn, UnmountDone, vars, call
<1> QED BY <1>4, <1>5, <1>6

LEMMA SearchResolves ==
  ASSUME IInv, Search, [Next]_vars, op = "find", op' = "idle"
  PROVE  LET end == Walk(asked.from, asked.comps)
         IN  IF found' = Null THEN failed' # {} \/ end = Null
             ELSE where[found'] = end /\ ent[found'] = ObjectAt(end)
<1>1. PICK end : end = Walk(asked.from, asked.comps)
  OBVIOUS
<1>2. Says(end)'
  BY <1>1, SearchAnswers
<1>3. where' = where /\ ent' = ent
  BY DEF Next, DriverStep, CallerFind, StartFind, CallerList, StartList, CallerSet,
         SetCurrentDirectory, Unmount, FindDots, FindEnter, FindFail, FindDone, FindReturn,
         FreeChildren, FreeNode, FreeDone, ListEntry, ListReturn, UnmountDone, vars, call, heap
<1> QED BY <1>1, <1>2, <1>3 DEF Says

\* Where names are distinct, the first entry of a name is the only one.
LEMMA DistinctMatch ==
  ASSUME DistinctNames, NEW d \in Dirs, NEW i \in DOMAIN Contents[d]
  PROVE  FirstMatch(d, Contents[d][i].name) = Contents[d][i]
<1> DEFINE hits == {j \in DOMAIN Contents[d] : Contents[d][j].name = Contents[d][i].name}
<1>1. hits = {i}
  BY DEF DistinctNames
<1>2. i \in Nat
  BY DiskAssumption
<1>3. (CHOOSE k \in {i} : \A j \in {i} : k <= j) = i
  BY <1>2
<1> QED BY <1>1, <1>3 DEF FirstMatch

LEMMA AllRightKept ==
  ASSUME DistinctNames, IInv, Filling, AllRight, [Next]_vars
  PROVE  AllRight'
<1> USE DEF IInv, AllRight
<1>1. CASE UNCHANGED heap
  BY <1>1 DEF heap, Right
<1>2. ASSUME NEW a, NEW de \in DirEntry, Open, cur \in live, ent[cur] \in Dirs,
             FirstMatch(ent[cur], de.name) = de, Attach(a, cur, de)
      PROVE  AllRight'
  <2>1. Right(cur)
    BY <1>2
  <2>2. Right(a)' /\ \A n \in live : Right(n) => Right(n)'
    BY <1>2, <2>1, AttachRight
  <2>3. live' = live \cup {a}
    BY <1>2 DEF Attach
  <2> QED BY <2>2, <2>3
<1>3. CASE FindEnter
  <2> DEFINE de == FirstMatch(ent[cur], Head(rest))
  <2>1. /\ Open /\ cur \in live /\ cur \in Addr /\ ent[cur] \in Dirs
        /\ de \in DirEntry /\ de.name = Head(rest) /\ Head(rest) \in Component
        /\ \E a : a \in Addr \ live /\ Attach(a, cur, de) /\ cur' = a
    BY <1>3, EnterMatch
  <2>2. FirstMatch(ent[cur], de.name) = de
    BY <2>1
  <2> HIDE DEF de
  <2> QED BY <1>2, <2>1, <2>2
<1>4. CASE ListEntry
  <2> DEFINE disk == Contents[ent[cur]]
             de == Head(todo)
  <2>1. op = "fill" /\ todo # <<>> /\ todo \in Seq(DirEntry) /\ Open /\ cur \in live /\ ent[cur] \in Dirs
    BY <1>4 DEF ListEntry, HandlesLive, Busy, Open, TypeOK
  <2>2. PICK a \in Addr : Attach(a, cur, de)
    BY <1>4 DEF ListEntry
  <2>3. PICK n \in 0 .. Len(disk) :
          Len(todo) = Len(disk) - n /\ \A i \in 1 .. Len(todo) : todo[i] = disk[n + i]
    BY <2>1 DEF Filling
  <2>4. disk \in Seq(DirEntry) /\ Len(disk) \in Nat
    BY <2>1, ContentsType
  <2>5. 1 \in 1 .. Len(todo) /\ de = todo[1] /\ de \in DirEntry
    BY <2>1
  <2>6. n + 1 \in DOMAIN disk /\ de = disk[n + 1]
    <3> HIDE DEF disk, de
    <3> QED BY <2>3, <2>4, <2>5
  <2>7. FirstMatch(ent[cur], de.name) = de
    BY <2>1, <2>6, DistinctMatch
  <2> HIDE DEF de, disk
  <2> QED BY <1>2, <2>1, <2>2, <2>5, <2>7
<1>5. CASE \E n \in doomed : FreeNode(n)
  <2>1. PICK n \in doomed : FreeNode(n)
    BY <1>5
  <2>2. /\ live' = live \ {n}
        /\ \A m \in live' : ent'[m] = ent[m] /\ where'[m] = where[m]
    BY <2>1 DEF FreeNode, TypeOK
  <2> QED BY <2>2 DEF Right
<1>6. CASE CallerFind \/ CallerList \/ CallerSet \/ Unmount
  BY <1>1, <1>6 DEF CallerFind, StartFind, CallerList, StartList, CallerSet,
                    SetCurrentDirectory, Unmount
<1>7. CASE FindDots \/ FindFail \/ FindDone \/ (\E n \in doomed : FreeChildren(n)) \/ FreeDone
           \/ (\E ok \in BOOLEAN : ListReturn(ok)) \/ UnmountDone
  BY <1>1, <1>7 DEF FindDots, FindFail, FindDone, FindReturn, FreeChildren, FreeDone,
                    ListReturn, UnmountDone
<1>8. CASE UNCHANGED vars
  BY <1>1, <1>8 DEF vars
<1> QED BY <1>3, <1>4, <1>5, <1>6, <1>7, <1>8 DEF Next, DriverStep

LEMMA SearchInit == Init => Search /\ AllRight /\ Filling
<1> SUFFICES ASSUME Init PROVE Search /\ AllRight /\ Filling
  OBVIOUS
<1>1. Search /\ Filling
  BY DEF Init, Search, Named, RootHere, Trail, Progress, Filling
<1>2. AllRight
  BY ObjectAtRoot DEF Init, AllRight, Right
<1> QED BY <1>1, <1>2

\* On an image whose directories hold no name twice, find_path returns the node
\* of the object its path names from where it starts, whatever the tree has grown
\* to, wherever the driver's current directory is, and it returns NULL only when
\* the path names nothing or a sector cannot be read.
THEOREM FindPathResolves ==
  ASSUME DistinctNames
  PROVE  Spec => FindResolvesPath
<1> DEFINE Inv == IInv /\ Filling /\ Search /\ AllRight
<1>1. Init => Inv
  BY InitIInv, SearchInit
<1>2. Inv /\ [Next]_vars => Inv'
  BY NextIInv, FillingKept, SearchKept, AllRightKept
<1>3. Inv /\ [Next]_vars =>
        [ (op = "find" /\ op' = "idle") =>
             LET end == Walk(asked.from, asked.comps)
             IN  IF found' = Null THEN failed' # {} \/ end = Null
                 ELSE where[found'] = end /\ ent[found'] = ObjectAt(end) ]_vars
  BY SearchResolves
<1> HIDE DEF Inv
<1> QED BY <1>1, <1>2, <1>3, PTL DEF Spec, FindResolvesPath

-----------------------------------------------------------------------------
(* 5. The shell is the caller that NodeTree assumes *)

\* The driver's own current directory stays the root: no command of the shell
\* calls fat_driver_set_current_directory.
DriverAtRoot == Open => dcwd = root

NavIInv == IInv /\ DriverAtRoot

\* Below any node, freeing spares the root.
LEMMA RootSpared ==
  ASSUME IInv, Open, NEW n \in live
  PROVE  Spared(root, n)
<1> DEFINE S == live \ {root}
<1>1. n \in Addr /\ S \in SUBSET Addr
  BY DEF IInv, TypeOK
<1>2. kids[n] \subseteq S /\ ClosedUnderKids(S)
  BY <1>1 DEF IInv, Shape, ClosedUnderKids
<1> QED BY <1>1, <1>2 DEF Spared

\* A command that starts a search makes the call NodeTree's caller may make.
LEMMA FindIsCallerFind ==
  ASSUME NEW c, NEW p, Find(c, p)
  PROVE  CallerFind
BY DEF Find, CallerFind

\* So does a command that starts a listing.
LEMMA ListIsCallerList ==
  ASSUME NavIInv, NEW c, NEW n, List(c, n)
  PROVE  CallerList
<1>1. Open /\ n \in live /\ StartList(n)
  BY DEF List, StartList, Open
<1>2. Spared(dcwd, n)
  BY <1>1, RootSpared DEF NavIInv, DriverAtRoot
<1> QED BY <1>1, <1>2 DEF CallerList

\* Every step of the shell is a step of the driver's specification, or leaves
\* the driver alone.
LEMMA StepSimulation ==
  ASSUME NavIInv, [NavNext]_navvars
  PROVE  [Next]_vars
<1>1. CASE Command
  <2>1. CASE LsHere
    BY <2>1, ListIsCallerList DEF LsHere, Next
  <2>2. CASE \E p \in UserPaths : LsPath(p) \/ CdPath(p) \/ CatPath(p)
    BY <2>2, FindIsCallerFind DEF LsPath, CdPath, CatPath, Next
  <2>3. CASE \E p \in TabDirs : TabPath(p)
    BY <2>3, FindIsCallerFind DEF TabPath, Next
  <2>4. CASE CdRoot \/ CdUp \/ UseFreed
    BY <2>4 DEF CdRoot, CdUp, UseFreed
  <2>5. CASE TabHere \/ TabRoot
    BY <2>5, ListIsCallerList DEF TabHere, TabRoot, Next
  <2>6. CASE Exit
    BY <2>6 DEF Exit, Next
  <2> QED BY <1>1, <2>1, <2>2, <2>3, <2>4, <2>5, <2>6 DEF Command
<1>2. CASE Continue
  <2>1. CASE LsFound \/ TabFound
    BY <2>1, ListIsCallerList DEF LsFound, TabFound, Prompt, Next
  <2>2. CASE LsDone \/ CdFound \/ CatDone \/ TabNone \/ Slashed
    BY <2>2 DEF LsDone, CdFound, CatDone, TabNone, Slashed, Prompt
  <2>3. CASE \E m \in Addr : TabMatch(m)
    BY <2>3 DEF TabMatch
  <2>4. CASE SlashHere \/ SlashFound
    BY <2>4 DEF SlashHere, SlashFound, AddSlash
  <2>5. CASE SlashFind
    BY <2>5, FindIsCallerFind DEF SlashFind, Next
  <2> QED BY <1>2, <2>1, <2>2, <2>3, <2>4, <2>5 DEF Continue
<1>3. CASE DriverStep /\ UNCHANGED nav
  BY <1>3 DEF Next
<1>4. CASE UNCHANGED navvars
  BY <1>4 DEF navvars
<1> QED BY <1>1, <1>2, <1>3, <1>4 DEF NavNext

\* Only unmounting moves the driver's current directory or its root.
LEMMA DriverAtRootKept ==
  ASSUME NavIInv, [NavNext]_navvars
  PROVE  DriverAtRoot'
<1> SUFFICES ASSUME Open' PROVE dcwd' = root'
  BY DEF DriverAtRoot
<1>1. CASE UNCHANGED <<driver, op>>
  BY <1>1 DEF NavIInv, DriverAtRoot, driver, Open
<1>2. CASE Open /\ UNCHANGED driver
  BY <1>2 DEF NavIInv, DriverAtRoot, driver
<1>3. CASE UNCHANGED vars
  BY <1>3 DEF NavIInv, DriverAtRoot, vars, driver, call, Open
<1>4. CASE CallerFind \/ CallerList
  BY <1>4, <1>2 DEF CallerFind, CallerList, StartFind, StartList, Open
<1>5. CASE DriverStep
  BY <1>5, <1>1, <1>2
     DEF DriverStep, FindDots, FindEnter, FindFail, FindDone, FindReturn, FreeChildren,
         FreeNode, FreeDone, ListEntry, ListReturn, UnmountDone, Open
<1>6. CASE Exit
  BY <1>6 DEF Exit, Unmount, Open
<1>7. CASE Command
  <2>1. CASE LsHere \/ TabHere \/ TabRoot
    BY <1>4, <2>1, ListIsCallerList DEF LsHere, TabHere, TabRoot
  <2>2. CASE \E p \in UserPaths : LsPath(p) \/ CdPath(p) \/ CatPath(p)
    BY <1>4, <2>2, FindIsCallerFind DEF LsPath, CdPath, CatPath
  <2>3. CASE \E p \in TabDirs : TabPath(p)
    BY <1>4, <2>3, FindIsCallerFind DEF TabPath
  <2>4. CASE CdRoot \/ CdUp \/ UseFreed
    BY <1>3, <2>4 DEF CdRoot, CdUp, UseFreed
  <2> QED BY <1>6, <1>7, <2>1, <2>2, <2>3, <2>4 DEF Command
<1>8. CASE Continue
  <2>1. CASE LsFound \/ TabFound
    BY <1>3, <1>4, <2>1, ListIsCallerList DEF LsFound, TabFound, Prompt
  <2>2. CASE LsDone \/ CdFound \/ CatDone \/ TabNone \/ Slashed
    BY <1>3, <2>2 DEF LsDone, CdFound, CatDone, TabNone, Slashed, Prompt
  <2>3. CASE \E m \in Addr : TabMatch(m)
    BY <1>3, <2>3 DEF TabMatch
  <2>4. CASE SlashHere \/ SlashFound
    BY <1>3, <2>4 DEF SlashHere, SlashFound, AddSlash
  <2>5. CASE SlashFind
    BY <1>4, <2>5, FindIsCallerFind DEF SlashFind
  <2> QED BY <1>8, <2>1, <2>2, <2>3, <2>4, <2>5 DEF Continue
<1>9. CASE UNCHANGED navvars
  BY <1>3, <1>9 DEF navvars
<1> QED BY <1>5, <1>7, <1>8, <1>9 DEF NavNext

LEMMA NavStart == NavInit => NavIInv
<1> SUFFICES ASSUME NavInit PROVE NavIInv
  OBVIOUS
<1>1. IInv
  BY InitIInv DEF NavInit
<1>2. DriverAtRoot
  BY DEF NavInit, Init, DriverAtRoot
<1> QED BY <1>1, <1>2 DEF NavIInv

\* The shell keeps the driver's contract, whatever the user types, whatever
\* the image and whatever fails.
THEOREM ShellKeepsContract == NavSpec => DriverContract
<1>1. NavInit => Init /\ NavIInv
  BY NavStart DEF NavInit
<1>2. NavIInv /\ [NavNext]_navvars => NavIInv'
  BY StepSimulation, DriverAtRootKept, NextIInv DEF NavIInv
<1>3. NavIInv /\ [NavNext]_navvars => [Next]_vars
  BY StepSimulation
<1> QED BY <1>1, <1>2, <1>3, PTL DEF NavSpec, DriverContract, Spec

\* Below the shell too, the driver never works on a freed node, frees none
\* twice and loses none.
THEOREM DriverSafeBelowShell == NavSpec => [](HandlesLive /\ Shape /\ Reachable /\ NoLeak)
<1>1. IInv => HandlesLive /\ Shape /\ Reachable /\ NoLeak
  BY DEF IInv
<1> QED BY <1>1, ShellKeepsContract, Invariance, PTL DEF DriverContract

-----------------------------------------------------------------------------
(* What a command goes on with is still there.                               *)

Finding == {"lsfind", "cd", "cat", "tabfind", "slashfind"}

\* Where the driver is while a command waits for it: a command that searches waits
\* for a search, so nothing is freed before it goes on; TAB has listed a node.
Waits ==
  /\ cmd = "tab" => target \in Addr
  /\ cmd \in Finding => op \in {"find", "idle"}
  /\ cmd = "matched" => op = "idle"

NavLive == NavIInv /\ Waits /\ ResultsLive

\* A search frees nothing, and what it returns is live.
LEMMA SearchKeepsLive ==
  ASSUME IInv, DriverStep, op \in {"find", "idle"}
  PROVE  /\ live \subseteq live'
         /\ op' \in {"find", "idle"}
         /\ op' = "idle" => found' = Null \/ found' \in live'
<1>1. op = "find"
  BY DEF DriverStep, FindDots, FindEnter, FindFail, FindDone, FreeChildren,
         FreeNode, FreeDone, ListEntry, ListReturn, UnmountDone
<1>2. CASE FindDots
  BY <1>1, <1>2 DEF FindDots, heap
<1>3. CASE FindEnter
  BY <1>1, <1>3 DEF FindEnter, Attach
<1>4. CASE FindFail
  BY <1>1, <1>4 DEF FindFail, FindReturn, heap
<1>5. CASE FindDone
  <2>1. cur \in live
    BY <1>1 DEF IInv, HandlesLive, Busy
  <2> QED BY <1>5, <2>1 DEF FindDone, FindReturn, heap
<1>6. ~ (\E n \in doomed : FreeChildren(n) \/ FreeNode(n))
  BY <1>1 DEF FreeChildren, FreeNode
<1>7. ~ FreeDone /\ ~ ListEntry /\ ~ UnmountDone /\ ~ \E ok \in BOOLEAN : ListReturn(ok)
  BY <1>1 DEF FreeDone, ListEntry, ListReturn, UnmountDone
<1> QED BY <1>2, <1>3, <1>4, <1>5, <1>6, <1>7 DEF DriverStep

\* Starting a search frees nothing, and leaves what TAB holds alone.
LEMMA FindWaits ==
  ASSUME NEW c, NEW p, Find(c, p)
  PROVE  op' = "find" /\ cmd' = c /\ live' = live
BY DEF Find, StartFind, heap

LEMMA NavLiveKept ==
  ASSUME NavLive, [NavNext]_navvars
  PROVE  Waits' /\ ResultsLive'
<1> USE DEF NavLive, NavIInv
<1>1. CASE cmd' \notin Finding \cup {"matched", "tab"}
  BY <1>1 DEF Waits, ResultsLive, Finding
<1>2. CASE UNCHANGED navvars
  BY <1>2 DEF navvars, vars, heap, call, results, nav, locals, Waits, ResultsLive
<1>3. CASE DriverStep /\ UNCHANGED nav
  <2>1. cmd' = cmd /\ match' = match /\ target' = target
    BY <1>3 DEF nav, locals
  <2>2. CASE cmd \in Finding
    <3>1. op \in {"find", "idle"}
      BY <2>2 DEF Waits
    <3>2. /\ live \subseteq live' /\ op' \in {"find", "idle"}
          /\ op' = "idle" => found' = Null \/ found' \in live'
      BY <1>3, <3>1, SearchKeepsLive
    <3> QED BY <2>1, <2>2, <3>2 DEF Waits, ResultsLive, Finding
  <2>3. CASE cmd = "matched"
    <3>1. op = "idle"
      BY <2>3 DEF Waits
    <3> QED BY <1>3, <3>1
         DEF DriverStep, FindDots, FindEnter, FindFail, FindDone, FreeChildren,
             FreeNode, FreeDone, ListEntry, ListReturn, UnmountDone
  <2>4. CASE cmd = "tab"
    BY <2>1, <2>4 DEF Waits, ResultsLive, Finding
  <2> QED BY <1>1, <2>1, <2>2, <2>3, <2>4
<1>4. CASE \E p : Find("slashfind", p) /\ UNCHANGED match /\ cmd = "matched"
  <2>1. match \in live
    BY <1>4 DEF ResultsLive
  <2> QED BY <1>4, <2>1, FindWaits DEF Waits, ResultsLive, Finding
<1>5. CASE \E p : \E c \in Finding \ {"slashfind"} : Find(c, p)
  BY <1>5, FindWaits DEF Waits, ResultsLive, Finding
<1>6. CASE \E n : List("tab", n) \/ List("ls", n)
  BY <1>6 DEF List, StartList, Waits, ResultsLive, Finding, IInv, TypeOK
<1>7. CASE Command
  <2>1. CASE LsHere \/ TabHere \/ TabRoot
    BY <1>6, <2>1 DEF LsHere, TabHere, TabRoot
  <2>2. CASE \E p \in UserPaths : LsPath(p) \/ CdPath(p) \/ CatPath(p)
    BY <1>5, <2>2 DEF LsPath, CdPath, CatPath, Finding
  <2>3. CASE \E p \in TabDirs : TabPath(p)
    BY <1>5, <2>3 DEF TabPath, Finding
  <2>4. CASE CdRoot \/ CdUp \/ UseFreed \/ Exit
    BY <1>1, <2>4 DEF CdRoot, CdUp, UseFreed, Exit, AtPrompt, Finding
  <2> QED BY <1>7, <2>1, <2>2, <2>3, <2>4 DEF Command
<1>8. CASE Continue
  <2>1. CASE LsFound \/ TabFound
    BY <1>1, <1>6, <2>1 DEF LsFound, TabFound, Prompt, Finding
  <2>2. CASE LsDone \/ CdFound \/ CatDone \/ TabNone \/ Slashed
    BY <1>1, <2>2 DEF LsDone, CdFound, CatDone, TabNone, Slashed, Prompt, Finding
  <2>3. CASE \E m \in Addr : TabMatch(m)
    <3>1. PICK m \in Addr : TabMatch(m)
      BY <2>3
    <3>2. m \in kids[target] /\ op = "idle" /\ op' = op /\ live' = live /\ match' = m
          /\ cmd' = "matched"
      BY <3>1 DEF TabMatch, Returned, vars, heap, call
    <3>3. m \in live
      BY <3>1, <3>2 DEF TabMatch, Returned, Waits, IInv, Shape
    <3> QED BY <3>2, <3>3 DEF Waits, ResultsLive, Finding
  <2>4. CASE SlashHere \/ SlashFound
    BY <1>1, <2>4 DEF SlashHere, SlashFound, AddSlash, Finding
  <2>5. CASE SlashFind
    BY <1>4, <2>5 DEF SlashFind, Returned, locals
  <2> QED BY <1>8, <2>1, <2>2, <2>3, <2>4, <2>5 DEF Continue
<1> QED BY <1>2, <1>3, <1>7, <1>8 DEF NavNext

\* Between a driver call and the step of the command that goes on with its result
\* nothing frees what was found or matched.
THEOREM CommandsHoldLive == NavSpec => []ResultsLive
<1>1. NavInit => NavLive
  <2>1. NavInit => Waits /\ ResultsLive
    BY DEF NavInit, Init, Waits, ResultsLive, Finding
  <2> QED BY <2>1, NavStart DEF NavLive
<1>2. NavLive /\ [NavNext]_navvars => NavLive'
  <2>1. NavLive /\ [NavNext]_navvars => NavIInv'
    BY StepSimulation, DriverAtRootKept, NextIInv DEF NavLive, NavIInv
  <2> QED BY <2>1, NavLiveKept DEF NavLive
<1>3. NavLive => ResultsLive
  BY DEF NavLive
<1> QED BY <1>1, <1>2, <1>3, PTL DEF NavSpec

\* Below the shell it does so on any image: the shell leaves the driver's current
\* directory at the root, so every search starts there.
THEOREM ShellResolves == NavSpec => FindResolvesPath
<1> DEFINE Inv == NavIInv /\ Search
<1>1. NavInit => Inv
  BY NavStart, SearchInit DEF NavInit
<1>2. NavIInv /\ CallerFind => dcwd = root
  BY DEF NavIInv, DriverAtRoot, CallerFind, StartFind, Open
<1>3. Inv /\ [NavNext]_navvars => Inv'
  BY <1>2, StepSimulation, DriverAtRootKept, NextIInv, SearchKept DEF NavIInv
<1>4. Inv /\ [NavNext]_navvars =>
        [ (op = "find" /\ op' = "idle") =>
             LET end == Walk(asked.from, asked.comps)
             IN  IF found' = Null THEN failed' # {} \/ end = Null
                 ELSE where[found'] = end /\ ent[found'] = ObjectAt(end) ]_vars
  BY StepSimulation, SearchResolves DEF NavIInv
<1> HIDE DEF Inv
<1> QED BY <1>1, <1>3, <1>4, PTL DEF NavSpec, FindResolvesPath

-----------------------------------------------------------------------------
(* 6. Where the shell stands *)

\* Where the driver is while a command waits for it.
Turns ==
  /\ cmd \in {"prompt", "matched", "slashed", "undefined"} => op = "idle"
  /\ cmd \in {"ls", "tab"} => op \in {"free", "fill", "idle"}
  /\ cmd \in Finding => op \in {"find", "idle"}
  /\ cmd = "exit" => op \in {"closing", "closed"}
  /\ cmd \in Cmds

Gap == IF arg.abs /\ path # <<>> THEN <<"">> ELSE <<>>

\* The components the driver walks from the root for cd and cat.
Sought == IF cmd = "cd" THEN norm ELSE path \o Gap \o arg.comps

\* What cd and cat have the driver look for, and what it has answered.
Seeking ==
  cmd \in {"cd", "cat"} =>
    /\ arg \in UserPaths /\ Sought \in Seq(Component)
    /\ cmd = "cd" => norm = Normalize(path \o arg.comps)
    /\ op = "find" => asked = [from |-> <<>>, comps |-> Sought]
    /\ op = "idle" => Says(Walk(<<>>, Sought))

\* The prompt names a directory of the image.
PromptReal == path \in Seq(Name) /\ ObjectAt(path) \in Dirs

Placed == cmd \notin {"exit", "undefined"} /\ ~ astray

Home == Placed => cwd \in live /\ ent[cwd] \in Dirs /\ where[cwd] = path

\* The subtree of n, with what lies between it and the root, spares the shell's
\* directory.
OffHome(n) ==
  n = root \/ \E S \in SUBSET live : /\ n \in S /\ cwd \notin S /\ root \notin S
                                     /\ ClosedUnderKids(S)
                                     /\ \A m \in S : parent[m] \in S \cup {root}

\* What is freed and what will be listed lies off the shell's directory: a search
\* goes down only through nodes it makes itself.
Away ==
  Placed =>
    /\ op = "find" => OffHome(cur)
    /\ op = "idle" /\ cmd \in {"lsfind", "tabfind"} /\ found # Null => OffHome(found)
    /\ op = "free" => \E S \in SUBSET Addr : doomed \subseteq S /\ ClosedUnderKids(S) /\ cwd \notin S

NavHome == Turns /\ Seeking /\ PromptReal /\ Home /\ Away

\* The inductive invariant of the shell.
ShellInv == NavLive /\ Search /\ NavHome

\* How a step of the driver moves its call on.
LEMMA DriverOps ==
  ASSUME DriverStep
  PROVE  \/ op = "find" /\ op' \in {"find", "idle"}
         \/ op = "free" /\ op' \in {"free", "fill"}
         \/ op = "fill" /\ op' \in {"fill", "idle"}
         \/ op = "closing" /\ op' \in {"closing", "closed"}
BY DEF DriverStep, FindDots, FindEnter, FindFail, FindDone, FindReturn, FreeChildren, FreeNode,
       FreeDone, ListEntry, ListReturn, UnmountDone

LEMMA UserPathType ==
  ASSUME NEW p \in UserPaths
  PROVE  p \in Paths /\ p.abs \in BOOLEAN /\ p.comps \in Seq(Component)
BY UserAssumption, PathsAssumption DEF Path

\* Every search of the shell starts at the root.
LEMMA FindFromRoot ==
  ASSUME NavIInv, NEW c, NEW p, Find(c, p)
  PROVE  /\ op = "idle" /\ op' = "find" /\ cmd' = c /\ cur' = root /\ root' = root
         /\ UNCHANGED heap
         /\ asked' = [from |-> <<>>, comps |-> p.comps]
<1>1. op = "idle" /\ op' = "find" /\ cmd' = c /\ UNCHANGED <<heap, driver>>
      /\ cur' = (IF p.abs THEN root ELSE dcwd)
      /\ asked' = [from |-> where[cur'], comps |-> p.comps]
  BY DEF Find, StartFind
<1>2. dcwd = root /\ root \in live /\ root # Null
  BY <1>1, NullAssumption DEF NavIInv, DriverAtRoot, IInv, HandlesLive, TypeOK, Open
<1>3. where[root] = <<>>
  BY <1>2 DEF NavIInv, IInv, Standing
<1> QED BY <1>1, <1>2, <1>3 DEF driver

LEMMA ListFrees ==
  ASSUME NEW c, NEW n, List(c, n)
  PROVE  /\ op = "idle" /\ op' = "free" /\ cmd' = c /\ n \in live /\ doomed' = kids[n]
         /\ UNCHANGED <<heap, driver>>
         /\ ~ astray' => ~ astray /\ (n = root => cwd = root)
BY DEF List, StartList

\* cd has found the directory that its path names.
LEMMA CdTarget ==
  ASSUME ShellInv, cmd = "cd", op = "idle"
  PROVE  /\ norm \in Seq(Name)
         /\ found # Null => found \in live /\ where[found] = norm /\ ent[found] = ObjectAt(norm)
<1> USE DEF ShellInv, NavHome
<1>1. arg \in UserPaths /\ norm = Normalize(path \o arg.comps) /\ Says(Walk(<<>>, norm))
  BY DEF Seeking, Sought
<1>2. norm \in Seq(Name)
  BY <1>1, UserPathType, NormalizedWalk DEF PromptReal
<1>3. ASSUME found # Null PROVE found \in live /\ where[found] = Walk(<<>>, norm)
                                /\ ent[found] = ObjectAt(Walk(<<>>, norm))
  BY <1>1, <1>3 DEF Says, NavLive, ResultsLive
<1>4. ASSUME found # Null PROVE Walk(<<>>, norm) = norm
  <2>1. where[found] \in Seq(Name)
    BY <1>3, <1>4 DEF NavLive, NavIInv, IInv, TypeOK
  <2> QED BY <1>2, <1>3, <1>4, <2>1, WalkDown, NullAssumption
<1> QED BY <1>2, <1>3, <1>4

\* A node fresh from malloc joins the subtree of its directory.
LEMMA AttachOff ==
  ASSUME IInv, NEW a \in Addr, NEW d \in live, NEW de, Attach(a, d, de), UNCHANGED <<root, cwd>>,
         root \in live, cwd \in live, OffHome(d)
  PROVE  OffHome(a)'
<1> USE DEF IInv, TypeOK, Attach
<1>1. a \notin live /\ d \in Addr /\ a # d /\ a # root /\ a # cwd
  OBVIOUS
<1>2. /\ parent'[a] = d /\ kids'[a] = {} /\ kids'[d] = kids[d] \cup {a} /\ live' = live \cup {a}
      /\ \A m \in live : parent'[m] = parent[m] /\ (m # d => kids'[m] = kids[m])
  BY <1>1
<1>3. CASE d = root
  <2> DEFINE U == {a}
  <2>1. /\ U \in SUBSET live' /\ a \in U /\ cwd' \notin U /\ root' \notin U
        /\ \A m \in U : kids'[m] \subseteq U /\ parent'[m] \in U \cup {root'}
    BY <1>1, <1>2, <1>3
  <2> HIDE DEF U
  <2> QED BY <2>1 DEF OffHome, ClosedUnderKids
<1>4. CASE d # root
  <2>1. PICK S \in SUBSET live : /\ d \in S /\ cwd \notin S /\ root \notin S
                                 /\ ClosedUnderKids(S)
                                 /\ \A m \in S : parent[m] \in S \cup {root}
    BY <1>4 DEF OffHome
  <2> DEFINE U == S \cup {a}
  <2>2. U \in SUBSET live' /\ a \in U /\ cwd' \notin U /\ root' \notin U
    BY <1>1, <1>2, <2>1
  <2>3. \A m \in U : parent'[m] \in U \cup {root'}
    BY <1>1, <1>2, <2>1
  <2>4. \A m \in U : kids'[m] \subseteq U
    BY <1>1, <1>2, <2>1 DEF ClosedUnderKids
  <2> HIDE DEF U
  <2> QED BY <2>2, <2>3, <2>4 DEF OffHome, ClosedUnderKids
<1> QED BY <1>3, <1>4

\* Neither search nor listing touches the shell's directory: a search grows the
\* tree elsewhere, a listing frees what lies off it.
LEMMA DriverAway ==
  ASSUME ShellInv, DriverStep, UNCHANGED nav, Placed
  PROVE  Home' /\ Away'
<1> USE DEF ShellInv, NavHome, NavLive, NavIInv, IInv
<1>1. UNCHANGED <<cwd, path, cmd, astray>> /\ Placed'
  BY DEF nav, locals, Placed
<1>2. cwd \in live /\ cwd \in Addr /\ ent[cwd] \in Dirs /\ where[cwd] = path /\ op # "closing"
  BY DEF Home, TypeOK, Placed, Turns, Cmds, Finding
<1>3. Open /\ root \in live
  <2>1. Open
    BY <1>2, DriverOps DEF Open
  <2> QED BY <2>1 DEF HandlesLive
<1>4. CASE FindDots
  <2>1. /\ op = "find" /\ op' = "find" /\ UNCHANGED <<heap, driver>>
        /\ cur' \in {cur, parent[cur]} /\ (cur' # cur => parent[cur] # Null)
    BY <1>4 DEF FindDots
  <2>2. OffHome(cur)
    BY <2>1 DEF Away
  <2>3. OffHome(cur')
    <3>1. CASE cur' = cur
      BY <2>2, <3>1
    <3>2. CASE cur' # cur /\ cur = root
      BY <1>3, <2>1, <3>2, NullAssumption DEF Standing, TypeOK
    <3>3. CASE cur' # cur /\ cur # root
      BY <2>1, <2>2, <3>3 DEF OffHome
    <3> QED BY <3>1, <3>2, <3>3
  <2>4. OffHome(cur)'
    BY <1>1, <2>1, <2>3 DEF OffHome, ClosedUnderKids, heap, driver
  <2> QED BY <1>1, <1>2, <2>1, <2>4 DEF Home, Away, heap
<1>5. CASE FindEnter
  <2> DEFINE de == FirstMatch(ent[cur], Head(rest))
  <2>1. cur \in live /\ op = "find" /\ op' = "find" /\ root' = root /\ OffHome(cur)
    BY <1>5 DEF FindEnter, HandlesLive, Busy, Away, driver
  <2>2. PICK a \in Addr : Attach(a, cur, de) /\ cur' = a
    BY <1>5 DEF FindEnter
  <2> HIDE DEF de
  <2>3. OffHome(cur)'
    BY <1>1, <1>2, <1>3, <2>1, <2>2, AttachOff
  <2>4. cwd' \in live' /\ ent'[cwd] = ent[cwd] /\ where'[cwd] = where[cwd]
    BY <1>1, <1>2, <2>2 DEF Attach, TypeOK
  <2> QED BY <1>1, <1>2, <2>1, <2>3, <2>4 DEF Home, Away
<1>6. CASE FindFail
  <2>1. op' = "idle" /\ found' = Null /\ UNCHANGED heap
    BY <1>6 DEF FindFail, FindReturn
  <2> QED BY <1>1, <1>2, <2>1 DEF Home, Away, heap
<1>7. CASE FindDone
  <2>1. op = "find" /\ op' = "idle" /\ found' = cur /\ UNCHANGED <<heap, driver>> /\ OffHome(cur)
    BY <1>7 DEF FindDone, FindReturn, Away
  <2>2. OffHome(found)'
    BY <1>1, <2>1 DEF OffHome, ClosedUnderKids, heap, driver
  <2> QED BY <1>1, <1>2, <2>1, <2>2 DEF Home, Away, heap
<1>8. CASE \E n \in doomed : FreeChildren(n)
  <2>1. PICK n \in doomed : FreeChildren(n)
    BY <1>8
  <2>2. op = "free" /\ op' = "free" /\ doomed' = doomed \cup kids[n] /\ UNCHANGED heap
    BY <1>2, <2>1 DEF FreeChildren
  <2>3. PICK S \in SUBSET Addr : doomed \subseteq S /\ ClosedUnderKids(S) /\ cwd \notin S
    BY <2>2 DEF Away
  <2>4. doomed' \subseteq S /\ ClosedUnderKids(S)' /\ cwd' \notin S
    BY <1>1, <2>1, <2>2, <2>3 DEF ClosedUnderKids, heap
  <2> QED BY <1>1, <1>2, <2>2, <2>4 DEF Home, Away, heap
<1>9. CASE \E n \in doomed : FreeNode(n)
  <2>1. PICK n \in doomed : FreeNode(n)
    BY <1>9
  <2>2. op = "free" /\ op' = "free"
    BY <1>2, <2>1 DEF FreeNode
  <2>3. PICK S \in SUBSET Addr : doomed \subseteq S /\ ClosedUnderKids(S) /\ cwd \notin S
    BY <2>2 DEF Away
  <2>4. n # cwd
    BY <2>3
  <2>5. cwd' \in live' /\ ent'[cwd] = ent[cwd] /\ where'[cwd] = where[cwd]
    BY <1>1, <1>2, <2>1, <2>4 DEF FreeNode, TypeOK
  <2>6. doomed' \subseteq S /\ ClosedUnderKids(S)' /\ cwd' \notin S
    BY <1>1, <2>1, <2>3 DEF FreeNode, ClosedUnderKids
  <2> QED BY <1>1, <1>2, <2>2, <2>5, <2>6 DEF Home, Away
<1>10. CASE ListEntry
  <2>1. PICK a \in Addr : Attach(a, cur, Head(todo))
    BY <1>10 DEF ListEntry
  <2>2. cwd' \in live' /\ ent'[cwd] = ent[cwd] /\ where'[cwd] = where[cwd]
    BY <1>1, <1>2, <2>1 DEF Attach, TypeOK
  <2>3. op' = "fill"
    BY <1>10 DEF ListEntry
  <2> QED BY <1>1, <1>2, <2>2, <2>3 DEF Home, Away
<1>11. CASE FreeDone \/ \E ok \in BOOLEAN : ListReturn(ok)
  <2>1. op \in {"free", "fill"} /\ op' \in {"fill", "idle"} /\ UNCHANGED heap
    BY <1>11 DEF FreeDone, ListReturn
  <2>2. cmd \notin {"lsfind", "tabfind"}
    BY <2>1 DEF Turns, Finding
  <2> QED BY <1>1, <1>2, <2>1, <2>2 DEF Home, Away, heap
<1>12. ~ UnmountDone
  BY <1>2 DEF UnmountDone
<1> QED BY <1>4, <1>5, <1>6, <1>7, <1>8, <1>9, <1>10, <1>11, <1>12 DEF DriverStep

\* The driver's steps under a waiting command.
LEMMA DriverHome ==
  ASSUME ShellInv, DriverStep, UNCHANGED nav
  PROVE  NavHome'
<1> USE DEF ShellInv, NavHome, NavLive, NavIInv
<1>1. UNCHANGED <<cwd, path, cmd, arg, norm, astray>>
  BY DEF nav, locals
<1>2. /\ \/ op = "find" /\ op' \in {"find", "idle"}
         \/ op = "free" /\ op' \in {"free", "fill"}
         \/ op = "fill" /\ op' \in {"fill", "idle"}
         \/ op = "closing" /\ op' \in {"closing", "closed"}
      /\ [Next]_vars
  BY DriverOps DEF Next
<1>3. Turns'
  BY <1>1, <1>2 DEF Turns, Cmds, Finding
<1>4. Seeking'
  <2> SUFFICES ASSUME cmd \in {"cd", "cat"} PROVE Seeking'
    BY <1>1 DEF Seeking
  <2>1. op = "find" /\ op' \in {"find", "idle"}
    BY <1>2 DEF Turns, Finding
  <2>2. Sought' = Sought
    BY <1>1 DEF Sought, Gap
  <2>3. PICK end : end = Walk(<<>>, Sought)
    OBVIOUS
  <2>4. asked = [from |-> <<>>, comps |-> Sought] /\ end = Walk(asked.from, asked.comps)
    BY <2>1, <2>3 DEF Seeking
  <2>5. op' = "idle" => Says(end)'
    BY <1>2, <2>1, <2>4, SearchAnswers
  <2>6. op' = "find" => asked' = asked
    BY <2>1, <2>4 DEF DriverStep, FindDots, FindEnter, FindFail, FindDone, FindReturn,
                      FreeChildren, FreeNode, FreeDone, ListEntry, ListReturn, UnmountDone, results
  <2>7. op' = "idle" => Says(Walk(<<>>, Sought))'
    BY <2>2, <2>3, <2>5 DEF Says
  <2> QED BY <1>1, <2>2, <2>4, <2>6, <2>7 DEF Seeking
<1>5. PromptReal'
  BY <1>1 DEF PromptReal
<1>6. Home' /\ Away'
  <2> SUFFICES ASSUME Placed PROVE Home' /\ Away'
    BY <1>1 DEF Home, Away, Placed
  <2> QED BY DriverAway
<1> QED BY <1>3, <1>4, <1>5, <1>6

\* A command that goes on without the driver.
LEMMA PromptHome ==
  ASSUME ShellInv, UNCHANGED <<vars, cwd, path, astray>>, op = "idle",
         cmd' \in {"prompt", "matched", "slashed"}, Placed' => Placed
  PROVE  NavHome'
<1> USE DEF ShellInv, NavHome
<1>1. UNCHANGED <<live, ent, where, op>> /\ cmd' \notin {"cd", "cat", "lsfind", "tabfind"}
  BY DEF vars, heap, call
<1>2. Turns' /\ Seeking' /\ PromptReal'
  BY <1>1 DEF Turns, Seeking, PromptReal, Finding, Cmds
<1>3. Home' /\ Away'
  BY <1>1 DEF Home, Away
<1> QED BY <1>2, <1>3

\* A command that has the driver look something up.
LEMMA FindHome ==
  ASSUME ShellInv, NEW c \in Finding, NEW p, Find(c, p), UNCHANGED <<cwd, path, astray>>,
         c \in {"cd", "cat"} => /\ arg' \in UserPaths /\ Sought' = p.comps
                                /\ Sought' \in Seq(Component)
                                /\ c = "cd" => norm' = Normalize(path \o arg'.comps),
         cmd \in Cmds \ {"exit", "undefined"}
  PROVE  NavHome'
<1> USE DEF ShellInv, NavHome
<1>1. /\ op = "idle" /\ op' = "find" /\ cmd' = c /\ cur' = root /\ root' = root
      /\ UNCHANGED heap
      /\ asked' = [from |-> <<>>, comps |-> p.comps]
  BY FindFromRoot DEF NavLive
<1>2. Turns'
  BY <1>1 DEF Turns, Finding, Cmds
<1>3. Seeking'
  BY <1>1 DEF Seeking
<1>4. PromptReal'
  BY DEF PromptReal
<1>5. Home' /\ Away'
  <2>1. Placed' => Placed
    BY <1>1 DEF Placed
  <2> QED BY <1>1, <2>1 DEF Home, Away, OffHome, heap
<1> QED BY <1>2, <1>3, <1>4, <1>5

\* A command that has the driver list something that lies off its directory, or
\* the directory itself.
LEMMA ListHome ==
  ASSUME ShellInv, NEW c \in {"ls", "tab"}, NEW n, List(c, n), UNCHANGED <<cwd, path>>,
         Placed => n = cwd \/ OffHome(n), cmd \in Cmds \ {"exit", "undefined"}
  PROVE  NavHome'
<1> USE DEF ShellInv, NavHome, NavLive, NavIInv, IInv
<1>1. /\ op = "idle" /\ op' = "free" /\ cmd' = c /\ n \in live /\ doomed' = kids[n]
      /\ UNCHANGED <<heap, driver>>
      /\ ~ astray' => ~ astray /\ (n = root => cwd = root)
  BY ListFrees
<1>2. Turns' /\ Seeking' /\ PromptReal'
  BY <1>1 DEF Turns, Seeking, PromptReal, Finding, Cmds
<1>3. Placed' => Placed /\ (n = root => cwd = root)
  BY <1>1 DEF Placed
<1>4. Home'
  BY <1>1, <1>3 DEF Home, heap
<1>5. ASSUME Placed' PROVE \E S \in SUBSET Addr : kids[n] \subseteq S /\ ClosedUnderKids(S) /\ cwd \notin S
  <2>1. CASE n = cwd
    <3> DEFINE S == {m \in live : Len(where[m]) > Len(where[cwd])}
    <3>1. cwd \in live /\ live \subseteq Addr /\ \A m \in Addr : Len(where[m]) \in Nat
      BY <1>3, <1>5 DEF Home, TypeOK
    <3>2. S \in SUBSET Addr /\ cwd \notin S
      BY <3>1
    <3>3. ASSUME NEW m \in live, Len(where[m]) >= Len(where[cwd]) PROVE kids[m] \subseteq S
      <4> SUFFICES ASSUME NEW k \in kids[m] PROVE k \in S
        OBVIOUS
      <4>1. k \in live /\ Len(where[k]) = Len(where[m]) + 1
        BY <3>1 DEF Shape
      <4> QED BY <3>1, <3>3, <4>1
    <3>4. ClosedUnderKids(S) /\ kids[n] \subseteq S
      <4>1. \A m \in S : m \in live /\ Len(where[m]) >= Len(where[cwd])
        BY <3>1
      <4> HIDE DEF S
      <4> QED BY <2>1, <3>1, <3>3, <4>1 DEF ClosedUnderKids
    <3> HIDE DEF S
    <3> QED BY <3>2, <3>4
  <2>2. CASE n # cwd
    <3>1. PICK S \in SUBSET live : n \in S /\ cwd \notin S /\ ClosedUnderKids(S)
      BY <1>3, <1>5, <2>2 DEF OffHome
    <3> QED BY <3>1 DEF ClosedUnderKids, TypeOK
  <2> QED BY <2>1, <2>2
<1>6. Away'
  <2> SUFFICES ASSUME Placed'
               PROVE \E S \in SUBSET Addr : doomed' \subseteq S /\ ClosedUnderKids(S)' /\ cwd' \notin S
    BY <1>1 DEF Away
  <2>1. PICK S \in SUBSET Addr : kids[n] \subseteq S /\ ClosedUnderKids(S) /\ cwd \notin S
    BY <1>5
  <2> QED BY <1>1, <2>1 DEF ClosedUnderKids, heap
<1> QED BY <1>2, <1>4, <1>6

\* cd without the driver, and cd going on with what the driver found.
LEMMA CdHome ==
  ASSUME ShellInv, CdRoot \/ CdUp \/ CdFound
  PROVE  NavHome'
<1> USE DEF ShellInv, NavHome, NavLive, NavIInv, IInv
<1>1. op = "idle" /\ cmd' = "prompt" /\ UNCHANGED <<vars, live, ent, where, op>>
  BY DEF CdRoot, CdUp, CdFound, AtPrompt, Returned, Prompt, Turns, vars, heap, call
<1>2. Turns' /\ Seeking' /\ Away'
  BY <1>1 DEF Turns, Seeking, Away, Finding, Cmds
<1>3. root \in live /\ where[root] = <<>> /\ ent[root] = RootEntry /\ parent[root] = Null
  BY <1>1, NullAssumption DEF HandlesLive, Open, Standing, TypeOK, Search, RootHere
<1>4. CASE CdRoot
  <2>1. cwd' = root /\ path' = <<>>
    BY <1>4 DEF CdRoot
  <2> QED BY <1>1, <1>2, <1>3, <2>1, ObjectAtRoot, DiskAssumption DEF Home, PromptReal
<1>5. CASE CdUp
  <2>1. /\ cwd \in live /\ parent[cwd] # Null /\ cwd' = parent[cwd] /\ astray' = astray
        /\ path' = (IF path = <<>> THEN <<>> ELSE Front(path)) /\ cmd = "prompt"
    BY <1>5 DEF CdUp, AtPrompt
  <2>2. PromptReal'
    <3>1. CASE path = <<>>
      BY <2>1, <3>1 DEF PromptReal
    <3>2. CASE path # <<>>
      <4>1. Front(path) \in Seq(Name) /\ path[Len(path)] \in Component
            /\ path = Append(Front(path), path[Len(path)])
        BY <3>2, SeqFront DEF PromptReal, Component
      <4>2. ObjectAt(path) # Null
        BY NullAssumption, DiskAssumption DEF PromptReal
      <4>3. ObjectAt(Front(path)) \in Dirs
        BY <4>1, <4>2, ObjectAbove
      <4> QED BY <2>1, <3>2, <4>1, <4>3 DEF PromptReal
    <3> QED BY <3>1, <3>2
  <2>3. Placed' => cwd' \in live /\ ent[cwd'] \in Dirs /\ where[cwd'] = path'
    <3> SUFFICES ASSUME Placed' PROVE cwd' \in live /\ ent[cwd'] \in Dirs /\ where[cwd'] = path'
      OBVIOUS
    <3>1. where[cwd] = path
      BY <2>1 DEF Placed, Home
    <3>2. cwd # root
      BY <1>3, <2>1
    <3>3. cwd' \in live /\ cwd' \in Addr /\ kids[cwd'] # {}
      BY <2>1, <3>2 DEF Reachable, TypeOK
    <3>4. where[cwd] # <<>> /\ where[cwd'] = Front(where[cwd])
      BY <2>1, <3>2 DEF Search, Named
    <3> QED BY <2>1, <3>1, <3>3, <3>4 DEF Standing
  <2> QED BY <1>1, <1>2, <2>2, <2>3 DEF Home
<1>6. CASE CdFound /\ IsDir(found)
  <2>1. cmd = "cd" /\ cwd' = found /\ path' = norm /\ found # Null /\ ent[found] \in Dirs
    BY <1>6 DEF CdFound, Returned, IsDir
  <2>2. norm \in Seq(Name) /\ found \in live /\ where[found] = norm /\ ent[found] = ObjectAt(norm)
    BY <1>1, <2>1, CdTarget
  <2> QED BY <1>1, <1>2, <2>1, <2>2 DEF Home, PromptReal
<1>7. CASE CdFound /\ ~ IsDir(found)
  <2>1. cmd = "cd" /\ UNCHANGED <<cwd, path, astray>>
    BY <1>7 DEF CdFound, Returned
  <2>2. Placed' => Placed
    BY <2>1 DEF Placed
  <2> QED BY <1>1, <2>1, <2>2, PromptHome
<1> QED BY <1>4, <1>5, <1>6, <1>7

LEMMA CommandHome ==
  ASSUME ShellInv, Command
  PROVE  NavHome'
<1> USE DEF ShellInv, NavHome
<1>1. CASE LsHere \/ TabHere
  <2>1. cmd = "prompt" /\ UNCHANGED <<cwd, path>> /\ \E c \in {"ls", "tab"} : List(c, cwd)
    BY <1>1 DEF LsHere, TabHere, AtPrompt
  <2> QED BY <2>1, ListHome DEF Cmds
<1>2. CASE TabRoot
  <2>1. cmd = "prompt" /\ UNCHANGED <<cwd, path>> /\ List("tab", root)
    BY <1>2 DEF TabRoot, AtPrompt
  <2> QED BY <2>1, ListHome DEF Cmds, OffHome
<1>3. ASSUME NEW p \in UserPaths, LsPath(p) PROVE NavHome'
  <2>1. cmd = "prompt" /\ UNCHANGED <<cwd, path, astray>> /\ Find("lsfind", p)
    BY <1>3 DEF LsPath, AtPrompt
  <2> QED BY <2>1, FindHome DEF Cmds, Finding
<1>4. ASSUME NEW p \in TabDirs, TabPath(p) PROVE NavHome'
  <2>1. cmd = "prompt" /\ UNCHANGED <<cwd, path, astray>> /\ Find("tabfind", p)
    BY <1>4 DEF TabPath, AtPrompt
  <2> QED BY <2>1, FindHome DEF Cmds, Finding
<1>5. ASSUME NEW p \in UserPaths, CdPath(p) PROVE NavHome'
  <2>1. cmd = "prompt" /\ UNCHANGED <<cwd, path, astray>> /\ arg' = p
        /\ norm' = Normalize(path \o p.comps) /\ Find("cd", AbsPath(norm'))
    BY <1>5 DEF CdPath, AtPrompt
  <2>2. norm' \in Seq(Name)
    BY <2>1, UserPathType, NormalizedWalk DEF PromptReal
  <2>3. cmd' = "cd"
    BY <2>1 DEF Find
  <2>4. AbsPath(norm').comps = norm' /\ Sought' = norm' /\ norm' \in Seq(Component)
    BY <2>2, <2>3, NamesAreComponents DEF AbsPath, Sought
  <2> QED BY <2>1, <2>4, FindHome DEF Cmds, Finding
<1>6. ASSUME NEW p \in UserPaths, CatPath(p) PROVE NavHome'
  <2> DEFINE gap == IF p.abs /\ path # <<>> THEN <<"">> ELSE <<>>
             c == path \o gap \o p.comps
  <2>1. cmd = "prompt" /\ UNCHANGED <<cwd, path, astray>> /\ arg' = p /\ Find("cat", AbsPath(c))
    BY <1>6 DEF CatPath, AtPrompt
  <2>2. cmd' = "cat"
    BY <2>1 DEF Find
  <2>3. Sought' = c /\ AbsPath(c).comps = c
    BY <2>1, <2>2 DEF AbsPath, Sought, Gap
  <2>4. c \in Seq(Component)
    <3>1. path \in Seq(Component) /\ p.comps \in Seq(Component)
      BY UserPathType, NamesAreComponents DEF PromptReal
    <3>2. gap \in Seq(Component)
      <4>1. "" \in Component
        BY DEF Component, Special
      <4> HIDE DEF c, gap
      <4>2. ASSUME NEW S, NEW x \in S PROVE <<x>> \in Seq(S) /\ <<>> \in Seq(S)
        OBVIOUS
      <4>3. <<"">> \in Seq(Component) /\ <<>> \in Seq(Component)
        BY <4>1, <4>2
      <4> QED BY <4>3 DEF gap
    <3> HIDE DEF gap
    <3> QED BY <3>1, <3>2
  <2> HIDE DEF c
  <2> QED BY <2>1, <2>3, <2>4, FindHome DEF Cmds, Finding
<1>7. CASE CdRoot \/ CdUp
  BY <1>7, CdHome
<1>8. CASE Exit \/ UseFreed
  <2>1. /\ op = "idle" /\ path' = path
        /\ \/ cmd' = "exit" /\ op' = "closing"
           \/ cmd' = "undefined" /\ op' = "idle"
    BY <1>8 DEF Exit, UseFreed, Unmount, AtPrompt, Turns, vars, call
  <2> QED BY <2>1 DEF Turns, Seeking, PromptReal, Home, Away, Placed, Finding, Cmds
<1> QED BY <1>1, <1>2, <1>3, <1>4, <1>5, <1>6, <1>7, <1>8 DEF Command

LEMMA ContinueHome ==
  ASSUME ShellInv, Continue
  PROVE  NavHome'
<1> USE DEF ShellInv, NavHome
<1>1. CASE LsFound \/ TabFound
  <2>1. op = "idle" /\ cmd \in {"lsfind", "tabfind"} /\ UNCHANGED <<cwd, path>>
    BY <1>1 DEF LsFound, TabFound, Returned
  <2>2. CASE IsDir(found) /\ \E c \in {"ls", "tab"} : List(c, found)
    <3>1. Placed => OffHome(found)
      BY <2>1, <2>2 DEF Away, IsDir
    <3> QED BY <2>1, <2>2, <3>1, ListHome DEF Cmds
  <2>3. CASE Prompt /\ UNCHANGED astray
    <3>1. cmd' = "prompt" /\ UNCHANGED vars /\ (Placed' => Placed)
      BY <2>1, <2>3 DEF Prompt, Placed
    <3> QED BY <2>1, <2>3, <3>1, PromptHome
  <2> QED BY <1>1, <2>2, <2>3 DEF LsFound, TabFound
<1>2. CASE LsDone \/ CatDone \/ TabNone \/ Slashed
  <2>1. op = "idle" /\ cmd \notin {"exit", "undefined"} /\ cmd' = "prompt"
        /\ UNCHANGED <<vars, cwd, path, astray>>
    BY <1>2 DEF LsDone, CatDone, TabNone, Slashed, Returned, Prompt
  <2>2. Placed' => Placed
    BY <2>1 DEF Placed
  <2> QED BY <2>1, <2>2, PromptHome
<1>3. CASE \E m \in Addr : TabMatch(m)
  <2>1. op = "idle" /\ cmd = "tab" /\ cmd' = "matched" /\ UNCHANGED <<vars, cwd, path, astray>>
    BY <1>3 DEF TabMatch, Returned
  <2>2. Placed' => Placed
    BY <2>1 DEF Placed
  <2> QED BY <2>1, <2>2, PromptHome
<1>4. CASE SlashHere \/ SlashFound
  <2>1. op = "idle" /\ cmd \in {"matched", "slashfind"} /\ cmd' \in {"slashed", "prompt"}
        /\ UNCHANGED <<vars, cwd, path, astray>>
    BY <1>4 DEF SlashHere, SlashFound, AddSlash, Returned
  <2>2. Placed' => Placed
    BY <2>1 DEF Placed
  <2> QED BY <2>1, <2>2, PromptHome
<1>5. CASE SlashFind
  <2>1. cmd = "matched" /\ Find("slashfind", arg) /\ UNCHANGED <<cwd, path, astray>>
    BY <1>5 DEF SlashFind, Returned
  <2> QED BY <2>1, FindHome DEF Cmds, Finding
<1>6. CASE CdFound
  BY <1>6, CdHome
<1> QED BY <1>1, <1>2, <1>3, <1>4, <1>5, <1>6 DEF Continue

LEMMA ShellInvKept ==
  ASSUME ShellInv, [NavNext]_navvars
  PROVE  ShellInv'
<1> USE DEF ShellInv
<1>1. NavLive'
  <2>1. NavIInv'
    BY StepSimulation, DriverAtRootKept, NextIInv DEF NavLive, NavIInv
  <2> QED BY <2>1, NavLiveKept DEF NavLive
<1>2. Search'
  <2>1. CallerFind => dcwd = root
    BY DEF NavLive, NavIInv, DriverAtRoot, CallerFind, StartFind, Open
  <2> QED BY <2>1, StepSimulation, SearchKept DEF NavLive, NavIInv
<1>3. NavHome'
  <2>1. CASE UNCHANGED navvars
    <3>1. UNCHANGED <<live, ent, parent, kids, where, root, dcwd, op, cur, rest, todo, doomed,
                      found, listed, failed, asked, cwd, path, cmd, arg, norm, target, match, astray>>
      BY <2>1 DEF navvars, vars, heap, driver, call, results, nav, locals
    <3>2. Turns' /\ PromptReal' /\ Home'
      BY <3>1 DEF NavHome, Turns, PromptReal, Home, Placed
    <3>3. Seeking'
      BY <3>1 DEF NavHome, Seeking, Sought, Gap, Says
    <3>4. Away'
      BY <3>1 DEF NavHome, Away, Placed, OffHome, ClosedUnderKids
    <3> QED BY <3>2, <3>3, <3>4 DEF NavHome
  <2> QED BY <2>1, CommandHome, ContinueHome, DriverHome DEF NavNext
<1> QED BY <1>1, <1>2, <1>3

LEMMA ShellInvStart == NavInit => ShellInv
<1> SUFFICES ASSUME NavInit PROVE ShellInv
  OBVIOUS
<1>1. NavLive /\ Search
  <2>1. Waits /\ ResultsLive
    BY DEF NavInit, Init, Waits, ResultsLive, Finding
  <2> QED BY <2>1, NavStart, SearchInit DEF NavLive, NavInit
<1>2. Turns /\ Seeking /\ Away
  BY DEF NavInit, Init, Turns, Seeking, Away, Finding, Cmds
<1>3. PromptReal /\ Home
  BY ObjectAtRoot, DiskAssumption DEF NavInit, Init, PromptReal, Home
<1> QED BY <1>1, <1>2, <1>3 DEF ShellInv, NavHome

\* The shell stands where its prompt says, on any image, with any heap, whatever
\* the user types and whatever fails, until the root is listed from elsewhere.
THEOREM PromptIsHome == NavSpec => []CwdIsPrompt
<1>1. ShellInv => CwdIsPrompt
  BY DEF ShellInv, NavHome, Home, Placed, CwdIsPrompt, AtPrompt
<1> QED BY <1>1, ShellInvStart, ShellInvKept, PTL DEF NavSpec

\* Going on with what cd found.
LEMMA CdArrives ==
  ASSUME ShellInv, [NavNext]_navvars, cmd = "cd", AtPrompt',
         NEW end, end = Walk(path, arg.comps), end # Null, ObjectAt(end) \in Dirs
  PROVE  path' = end \/ (failed # {} /\ path' = path)
<1> USE DEF ShellInv, NavHome
<1>1. CdFound /\ op = "idle"
  BY DEF AtPrompt, NavNext, Command, Continue, LsHere, LsPath, CdRoot, CdUp, CdPath, CatPath,
         TabHere, TabRoot, TabPath, Exit, UseFreed, LsFound, LsDone, CdFound, CatDone, TabFound,
         TabNone, TabMatch, SlashHere, SlashFind, SlashFound, Slashed, Returned, nav, navvars
<1>2. arg \in UserPaths /\ norm = Normalize(path \o arg.comps) /\ Says(Walk(<<>>, norm))
  BY <1>1 DEF Seeking, Sought
<1>3. end \in Seq(Name) /\ norm = end
  <2>1. end \in Places
    BY <1>2, UserPathType, WalkType DEF PromptReal, Places
  <2> QED BY <1>2, <2>1, UserPathType, NormalizedWalk DEF PromptReal, Places
<1>4. Walk(<<>>, end) = end
  BY <1>3, WalkToObject, NullAssumption, DiskAssumption
<1>5. CASE IsDir(found)
  BY <1>1, <1>3, <1>5 DEF CdFound
<1>6. CASE ~ IsDir(found)
  BY <1>1, <1>2, <1>3, <1>4, <1>6 DEF CdFound, IsDir, Says
<1> QED BY <1>5, <1>6

\* A cd whose path leads, from the prompt's, to a directory of the image makes
\* that the prompt, or stays because a sector could not be read; so the text that
\* cd works on and the node the driver finds never part.
THEOREM CdArrivesAlways == NavSpec => CdGoesThere
<1>1. ShellInv /\ [NavNext]_navvars =>
        [ (cmd = "cd" /\ AtPrompt') =>
             LET end == Walk(path, arg.comps)
             IN  end # Null /\ ObjectAt(end) \in Dirs =>
                   path' = end \/ (failed # {} /\ path' = path) ]_navvars
  BY CdArrives
<1> QED BY <1>1, ShellInvStart, ShellInvKept, PTL DEF NavSpec, CdGoesThere

\* Going on with what cat found.
LEMMA CatReads ==
  ASSUME ShellInv, [NavNext]_navvars, cmd = "cat", AtPrompt', ~ arg.abs,
         NEW end, end = Walk(path, arg.comps)
  PROVE  IF found = Null THEN failed # {} \/ end = Null
         ELSE end # Null /\ ent[found] = ObjectAt(end)
<1> USE DEF ShellInv, NavHome
<1>1. op = "idle"
  BY DEF AtPrompt, NavNext, Command, Continue, LsHere, LsPath, CdRoot, CdUp, CdPath, CatPath,
         TabHere, TabRoot, TabPath, Exit, UseFreed, LsFound, LsDone, CdFound, CatDone, TabFound,
         TabNone, TabMatch, SlashHere, SlashFind, SlashFound, Slashed, Returned, nav, navvars
<1>2. arg \in UserPaths /\ Says(Walk(<<>>, path \o <<>> \o arg.comps))
  BY <1>1 DEF Seeking, Sought, Gap
<1>3. path \o <<>> = path /\ path \in Seq(Name) /\ ObjectAt(path) # Null
  BY NullAssumption, DiskAssumption DEF PromptReal
<1>4. Walk(<<>>, path \o arg.comps) = end
  BY <1>2, <1>3, UserPathType, WalkFromRoot
<1>5. Says(end)
  BY <1>2, <1>3, <1>4
<1>6. found # Null => where[found] \in Seq(Name)
  BY DEF NavLive, NavIInv, IInv, TypeOK
<1> QED BY <1>5, <1>6, NullAssumption DEF Says

\* A relative cat reads the object its argument names from the prompt's path, or
\* nothing, if there is none or a sector could not be read.
THEOREM CatReadsAlways == NavSpec => CatReadsNamed
<1>1. ShellInv /\ [NavNext]_navvars =>
        [ (cmd = "cat" /\ AtPrompt' /\ ~ arg.abs) =>
             LET end == Walk(path, arg.comps)
             IN  IF found = Null THEN failed # {} \/ end = Null
                 ELSE end # Null /\ ent[found] = ObjectAt(end) ]_navvars
  BY CatReads
<1> QED BY <1>1, ShellInvStart, ShellInvKept, PTL DEF NavSpec, CatReadsNamed
=============================================================================
