---------------------------- MODULE StackProofs ----------------------------
(* What every command, request and event keeps of the stacking order: the   *)
(* windows that the ring, the X server, the pager and the published list    *)
(* have, the order of the server, the publication of what moves and, if no  *)
(* marks are stale, the order of the layers, the icons through which        *)
(* transients are found and the grabs of buttons by which clicks raise; for *)
(* any windows, layers, styles and transient hints.                         *)
EXTENDS Stack, SequenceTheorems, FiniteSetTheorems, WellFoundedInduction, TLAPS

-----------------------------------------------------------------------------
(* Numbers and recursion.                                                    *)

\* Induction over Nat, for a set of numbers.
LEMMA NatSetInduction ==
  ASSUME NEW P \in SUBSET Nat, 0 \in P, \A n \in P : n + 1 \in P
  PROVE  P = Nat
<1>1. SUFFICES ASSUME Nat \ P # {} PROVE FALSE
  OBVIOUS
<1>2. PICK m \in Nat \ P : \A k \in Nat \ P : ~(<<k, m>> \in OpToRel(<, Nat))
  <2>1. Nat \ P \subseteq Nat
    OBVIOUS
  <2> QED
    BY <1>1, <2>1, NatLessThanWellFounded, WFMin
<1>3. \A k \in Nat \ P : ~(k < m)
  BY <1>2 DEF OpToRel
<1>4. m # 0 /\ m - 1 \in Nat /\ m - 1 < m /\ (m - 1) + 1 = m
  OBVIOUS
<1>5. m - 1 \in P
  BY <1>3, <1>4
<1> QED
  BY <1>4, <1>5

\* A set of numbers has a least member.
LEMMA LeastExists ==
  ASSUME NEW S \in SUBSET Nat, S # {}
  PROVE  Min(S) \in S /\ \A j \in S : Min(S) <= j
<1>1. PICK m \in S : \A k \in S : ~(<<k, m>> \in OpToRel(<, Nat))
  BY NatLessThanWellFounded, WFMin
<1>2. ASSUME NEW k \in S PROVE m <= k
  <2>1. ~(<<k, m>> \in OpToRel(<, Nat)) /\ k \in Nat /\ m \in Nat
    BY <1>1
  <2> QED
    BY <2>1 DEF OpToRel
<1> QED
  BY <1>2 DEF Min

\* What holds at the start and is handed on holds all the way.
LEMMA Along ==
  ASSUME NEW m \in Nat, NEW f, NEW T, f[0] \in T,
         \A n \in 1..m : f[n - 1] \in T => f[n] \in T
  PROVE  \A n \in 0..m : f[n] \in T
<1> DEFINE P == {n \in Nat : n <= m => f[n] \in T}
<1>1. 0 \in P
  OBVIOUS
<1>2. ASSUME NEW n \in P PROVE n + 1 \in P
  <2>1. n + 1 <= m => n + 1 \in 1..m /\ (n + 1) - 1 = n
    OBVIOUS
  <2> QED
    BY <2>1
<1>3. P = Nat
  <2>1. P \in SUBSET Nat
    OBVIOUS
  <2> HIDE DEF P
  <2> QED
    BY <1>1, <1>2, <2>1, NatSetInduction
<1> QED
  BY <1>3

\* A function can be defined by what it is at 0 and how it goes on.
LEMMA Recursion ==
  ASSUME NEW T, NEW A \in T, NEW m \in Nat, NEW g \in [1..m -> [T -> T]]
  PROVE  \E f \in [0..m -> T] : f[0] = A /\ \A n \in 1..m : f[n] = g[n][f[n - 1]]
<1> DEFINE Upto(k, f) == f \in [0..k -> T] /\ f[0] = A /\ \A n \in 1..k : f[n] = g[n][f[n - 1]]
           P == {k \in Nat : k <= m => \E f : Upto(k, f)}
<1>1. 0 \in P
  <2> DEFINE f == [n \in 0..0 |-> A]
  <2>1. Upto(0, f)
    OBVIOUS
  <2> HIDE DEF f, Upto
  <2> QED
    BY <2>1
<1>2. ASSUME NEW k \in P PROVE k + 1 \in P
  <2>1. SUFFICES ASSUME k + 1 <= m PROVE \E f : Upto(k + 1, f)
    <3> HIDE DEF Upto
    <3> QED
      OBVIOUS
  <2>2. PICK f : Upto(k, f)
    BY <2>1
  <2> DEFINE h == [n \in 0..(k + 1) |-> IF n = k + 1 THEN g[k + 1][f[k]] ELSE f[n]]
  <2>3. k + 1 \in 1..m /\ g[k + 1] \in [T -> T] /\ f[k] \in T
    BY <2>1, <2>2
  <2>4. h \in [0..(k + 1) -> T] /\ h[0] = A
    BY <2>2, <2>3
  <2>5. ASSUME NEW n \in 1..(k + 1) PROVE h[n] = g[n][h[n - 1]]
    <3>1. CASE n = k + 1
      <4>1. h[n] = g[k + 1][f[k]] /\ h[n - 1] = f[k]
        BY <3>1
      <4> QED
        BY <3>1, <4>1
    <3>2. CASE n # k + 1
      <4>1. n \in 1..k /\ n - 1 \in 0..k /\ h[n] = f[n] /\ h[n - 1] = f[n - 1]
        BY <3>2
      <4> QED
        BY <2>2, <4>1
    <3> QED
      BY <3>1, <3>2
  <2> HIDE DEF h
  <2>6. Upto(k + 1, h)
    BY <2>4, <2>5
  <2> HIDE DEF Upto
  <2> QED
    BY <2>6
<1>3. P = Nat
  <2>1. P \in SUBSET Nat
    OBVIOUS
  <2> HIDE DEF P
  <2> QED
    BY <1>1, <1>2, <2>1, NatSetInduction
<1>4. \E f : Upto(m, f)
  BY <1>3
<1> QED
  BY <1>4

-----------------------------------------------------------------------------
(* Lists of windows.                                                         *)

\* The lists of windows.
Lists == Seq(Windows)

\* Append leads from one list to another and splits into its parts again.
LEMMA AppendList ==
  ASSUME NEW q \in Lists, NEW w \in Windows
  PROVE  /\ Append(q, w) \in Lists /\ Len(Append(q, w)) = Len(q) + 1
         /\ \A n \in 1..Len(q) : Append(q, w)[n] = q[n]
         /\ Append(q, w)[Len(q) + 1] = w
         /\ ToSet(Append(q, w)) = ToSet(q) \cup {w}
<1>1. /\ Append(q, w) \in Lists /\ Len(Append(q, w)) = Len(q) + 1
      /\ \A n \in 1..Len(q) : Append(q, w)[n] = q[n]
      /\ Append(q, w)[Len(q) + 1] = w
      /\ DOMAIN q = 1..Len(q) /\ DOMAIN Append(q, w) = 1..(Len(q) + 1)
      /\ Len(q) \in Nat
  BY DEF Lists
<1>2. ASSUME NEW i \in 1..(Len(q) + 1) PROVE i \in 1..Len(q) \/ i = Len(q) + 1
  BY <1>1
<1>3. 1..Len(q) \subseteq 1..(Len(q) + 1) /\ Len(q) + 1 \in 1..(Len(q) + 1)
  BY <1>1
<1> QED
  BY <1>1, <1>2, <1>3 DEF ToSet

\* Induction over lists, for a set of lists.
LEMMA ListInduction ==
  ASSUME NEW P \in SUBSET Lists, <<>> \in P,
         \A q \in P : \A w \in Windows : Append(q, w) \in P
  PROVE  P = Lists
<1> DEFINE N == {n \in Nat : \A q \in Lists : Len(q) = n => q \in P}
<1>1. 0 \in N
  <2>1. \A q \in Lists : Len(q) = 0 => q = <<>>
    BY DEF Lists
  <2> QED
    BY <2>1
<1>2. ASSUME NEW n \in N PROVE n + 1 \in N
  <2>1. SUFFICES ASSUME NEW q \in Lists, Len(q) = n + 1 PROVE q \in P
    OBVIOUS
  <2> DEFINE r == SubSeq(q, 1, n)
  <2>2. n \in Nat /\ q[n + 1] \in Windows
    BY <2>1 DEF Lists
  <2>3. r \in Lists /\ Len(r) = n /\ \A i \in 1..n : r[i] = q[i]
    BY <2>1, <2>2 DEF Lists
  <2>4. Append(r, q[n + 1]) = q
    <3>1. /\ Append(r, q[n + 1]) \in Lists /\ Len(Append(r, q[n + 1])) = n + 1
          /\ \A i \in 1..n : Append(r, q[n + 1])[i] = q[i]
          /\ Append(r, q[n + 1])[n + 1] = q[n + 1]
      <4> HIDE DEF r
      <4> QED
        BY <2>2, <2>3, AppendList
    <3>2. \A i \in 1..(n + 1) : Append(r, q[n + 1])[i] = q[i]
      <4>1. \A i \in 1..(n + 1) : i \in 1..n \/ i = n + 1
        BY <2>2
      <4> HIDE DEF r
      <4> QED
        BY <3>1, <4>1
    <3> HIDE DEF r
    <3> QED
      BY <2>1, <3>1, <3>2, SeqEqual DEF Lists
  <2>5. r \in P
    BY <2>3
  <2> QED
    BY <2>2, <2>4, <2>5
<1>3. N = Nat
  <2>1. N \in SUBSET Nat
    OBVIOUS
  <2> HIDE DEF N
  <2> QED
    BY <1>1, <1>2, <2>1, NatSetInduction
<1>4. ASSUME NEW q \in Lists PROVE q \in P
  <2>1. Len(q) \in Nat
    BY DEF Lists
  <2> QED
    BY <1>3, <2>1
<1> QED
  BY <1>4

\* No window is in the empty list, and a list of one has that one.
LEMMA ShortLists ==
  /\ <<>> \in Lists /\ ToSet(<<>>) = {} /\ Len(<<>>) = 0 /\ IsInjective(<<>>)
  /\ \A w \in Windows :
       /\ <<w>> \in Lists /\ ToSet(<<w>>) = {w} /\ Len(<<w>>) = 1
       /\ IsInjective(<<w>>) /\ <<w>>[1] = w
       /\ <<w>> = Append(<<>>, w)
<1>1. <<>> \in Lists /\ ToSet(<<>>) = {} /\ Len(<<>>) = 0 /\ IsInjective(<<>>)
  BY DEF Lists, ToSet, IsInjective
<1>2. ASSUME NEW w \in Windows
      PROVE  /\ <<w>> \in Lists /\ ToSet(<<w>>) = {w} /\ Len(<<w>>) = 1
             /\ IsInjective(<<w>>) /\ <<w>>[1] = w
             /\ <<w>> = Append(<<>>, w)
  BY DEF Lists, ToSet, IsInjective
<1> QED
  BY <1>1, <1>2

\* A list has the windows at its places.
LEMMA ListPlaces ==
  ASSUME NEW q \in Lists
  PROVE  /\ Len(q) \in Nat /\ DOMAIN q = 1..Len(q) /\ ToSet(q) \subseteq Windows
         /\ \A i \in 1..Len(q) : q[i] \in ToSet(q)
         /\ \A w \in ToSet(q) : \E i \in 1..Len(q) : q[i] = w
         /\ (q = <<>>) = (Len(q) = 0) /\ (q = <<>>) = (ToSet(q) = {})
<1>1. Len(q) \in Nat /\ DOMAIN q = 1..Len(q) /\ \A i \in 1..Len(q) : q[i] \in Windows
  BY DEF Lists
<1>2. (q = <<>>) = (Len(q) = 0)
  BY DEF Lists
<1>3. /\ \A i \in 1..Len(q) : q[i] \in ToSet(q)
      /\ \A w \in ToSet(q) : \E i \in 1..Len(q) : q[i] = w
  BY <1>1 DEF ToSet
<1>4. Len(q) = 0 => ToSet(q) = {}
  BY <1>3, <1>1
<1>5. Len(q) # 0 => 1 \in 1..Len(q)
  BY <1>1
<1> QED
  BY <1>1, <1>2, <1>3, <1>4, <1>5

\* A list extended by a window has it once if it was not there.
LEMMA AppendOnce ==
  ASSUME NEW q \in Lists, NEW w \in Windows
  PROVE  IsInjective(Append(q, w)) = (IsInjective(q) /\ w \notin ToSet(q))
<1> DEFINE r == Append(q, w)
<1>1. /\ DOMAIN q = 1..Len(q) /\ Len(q) \in Nat /\ DOMAIN r = 1..(Len(q) + 1)
      /\ \A n \in 1..Len(q) : r[n] = q[n]
      /\ r[Len(q) + 1] = w
  BY AppendList, ListPlaces
<1>2. \A i \in 1..(Len(q) + 1) : i \in 1..Len(q) \/ i = Len(q) + 1
  BY <1>1
<1>3. /\ \A i \in 1..Len(q) : i \in 1..(Len(q) + 1) /\ i # Len(q) + 1
      /\ Len(q) + 1 \in 1..(Len(q) + 1)
  BY <1>1
<1>4. /\ \A i \in 1..Len(q) : q[i] \in ToSet(q)
      /\ \A v \in ToSet(q) : \E i \in 1..Len(q) : q[i] = v
  BY ListPlaces
<1> HIDE DEF r
<1>5. ASSUME IsInjective(r) PROVE IsInjective(q) /\ w \notin ToSet(q)
  BY <1>1, <1>3, <1>4, <1>5 DEF IsInjective
<1>6. ASSUME IsInjective(q), w \notin ToSet(q) PROVE IsInjective(r)
  <2>1. ASSUME NEW i \in DOMAIN r, NEW j \in DOMAIN r, r[i] = r[j] PROVE i = j
    <3>1. CASE i \in 1..Len(q) /\ j \in 1..Len(q)
      BY <1>1, <1>6, <2>1, <3>1 DEF IsInjective
    <3>2. CASE i = Len(q) + 1 \/ j = Len(q) + 1
      BY <1>1, <1>2, <1>4, <1>6, <2>1, <3>2
    <3> QED
      BY <1>1, <1>2, <2>1, <3>1, <3>2
  <2> QED
    BY <2>1 DEF IsInjective
<1>7. IsInjective(r) = (IsInjective(q) /\ w \notin ToSet(q))
  BY <1>5, <1>6 DEF IsInjective
<1> QED
  BY <1>7 DEF r

\* L falls from the first window of q to the last.
Descending(L, q) == \A i, j \in DOMAIN q : i < j => L[q[i]] >= L[q[j]]

\* What orders windows: their layers, or their ranks.
Levels == [Windows -> Int]

\* A list that descends still does with a lower window at its end.
LEMMA AppendDescending ==
  ASSUME NEW L \in Levels, NEW q \in Lists, NEW w \in Windows
  PROVE  Descending(L, Append(q, w))
           <=> Descending(L, q) /\ \A v \in ToSet(q) : L[v] >= L[w]
<1> DEFINE r == Append(q, w)
<1>1. /\ DOMAIN q = 1..Len(q) /\ Len(q) \in Nat /\ DOMAIN r = 1..(Len(q) + 1)
      /\ \A n \in 1..Len(q) : r[n] = q[n]
      /\ r[Len(q) + 1] = w
  BY AppendList, ListPlaces
<1>2. \A i \in 1..(Len(q) + 1) : i \in 1..Len(q) \/ i = Len(q) + 1
  BY <1>1
<1>3. /\ \A i \in 1..Len(q) : i \in 1..(Len(q) + 1) /\ i < Len(q) + 1
      /\ Len(q) + 1 \in 1..(Len(q) + 1)
  BY <1>1
<1>4. /\ \A i \in 1..Len(q) : q[i] \in ToSet(q)
      /\ \A v \in ToSet(q) : \E i \in 1..Len(q) : q[i] = v
  BY ListPlaces
<1> HIDE DEF r
<1>5. Descending(L, r) => Descending(L, q) /\ \A v \in ToSet(q) : L[v] >= L[w]
  BY <1>1, <1>3, <1>4 DEF Descending
<1>6. Descending(L, q) /\ (\A v \in ToSet(q) : L[v] >= L[w]) => Descending(L, r)
  <2>1. SUFFICES ASSUME Descending(L, q), \A v \in ToSet(q) : L[v] >= L[w],
                        NEW i \in DOMAIN r, NEW j \in DOMAIN r, i < j
                 PROVE  L[r[i]] >= L[r[j]]
    BY DEF Descending
  <2>2. i \in 1..Len(q)
    BY <1>1, <2>1
  <2>3. CASE j \in 1..Len(q)
    BY <1>1, <2>1, <2>2, <2>3 DEF Descending
  <2>4. CASE j = Len(q) + 1
    BY <1>1, <1>4, <2>1, <2>2, <2>4
  <2> QED
    BY <1>1, <1>2, <2>3, <2>4
<1> QED
  BY <1>5, <1>6 DEF r

\* A list joined to another is a list, and so is one joined window by window.
LEMMA JoinAppend ==
  ASSUME NEW p \in Lists, NEW q \in Lists, NEW w \in Windows
  PROVE  /\ p \o q \in Lists /\ p \o <<>> = p /\ <<>> \o p = p
         /\ p \o Append(q, w) = Append(p \o q, w)
         /\ p \o <<w>> = Append(p, w)
<1>1. p \o q \in Lists /\ p \o <<>> = p /\ <<>> \o p = p
  BY DEF Lists
<1>2. p \o Append(q, w) = Append(p \o q, w)
  BY DEF Lists
<1>3. p \o <<w>> = Append(p, w)
  BY DEF Lists
<1> QED
  BY <1>1, <1>2, <1>3

\* Lists may be joined in either order.
LEMMA JoinAssoc ==
  ASSUME NEW p \in Lists, NEW q \in Lists, NEW r \in Lists
  PROVE  (p \o q) \o r = p \o (q \o r)
BY DEF Lists

\* Two lists joined have the windows of both, once if the lists share none.
LEMMA JoinLists ==
  ASSUME NEW p \in Lists, NEW q \in Lists
  PROVE  /\ p \o q \in Lists /\ ToSet(p \o q) = ToSet(p) \cup ToSet(q)
         /\ IsInjective(p \o q)
              = (IsInjective(p) /\ IsInjective(q) /\ ToSet(p) \cap ToSet(q) = {})
<1> DEFINE Fits(r) == /\ p \o r \in Lists /\ ToSet(p \o r) = ToSet(p) \cup ToSet(r)
                      /\ IsInjective(p \o r)
                           = (IsInjective(p) /\ IsInjective(r) /\ ToSet(p) \cap ToSet(r) = {})
           P == {r \in Lists : Fits(r)}
<1>1. <<>> \in P
  <2>1. IsInjective(p) \in BOOLEAN
    BY DEF IsInjective
  <2>2. Fits(<<>>)
    BY <2>1, ShortLists, JoinAppend
  <2> QED
    BY <2>2, ShortLists
<1>2. ASSUME NEW r \in P, NEW w \in Windows PROVE Append(r, w) \in P
  <2>1. r \in Lists /\ Fits(r)
    OBVIOUS
  <2>2. /\ p \o Append(r, w) = Append(p \o r, w) /\ p \o r \in Lists
        /\ Append(r, w) \in Lists /\ ToSet(Append(r, w)) = ToSet(r) \cup {w}
        /\ Append(p \o r, w) \in Lists
        /\ ToSet(Append(p \o r, w)) = ToSet(p \o r) \cup {w}
    BY <2>1, JoinAppend, AppendList
  <2>3. /\ IsInjective(Append(r, w)) <=> (IsInjective(r) /\ w \notin ToSet(r))
        /\ IsInjective(Append(p \o r, w)) <=> (IsInjective(p \o r) /\ w \notin ToSet(p \o r))
    BY <2>1, <2>2, AppendOnce
  <2>4. /\ IsInjective(Append(r, w)) \in BOOLEAN /\ IsInjective(Append(p \o r, w)) \in BOOLEAN
        /\ IsInjective(r) \in BOOLEAN /\ IsInjective(p \o r) \in BOOLEAN
    BY DEF IsInjective
  <2>5. Fits(Append(r, w))
    BY <2>1, <2>2, <2>3, <2>4
  <2> QED
    BY <2>2, <2>5
<1>3. P = Lists
  <2>1. P \in SUBSET Lists
    OBVIOUS
  <2> HIDE DEF P
  <2> QED
    BY <1>1, <1>2, <2>1, ListInduction
<1> QED
  BY <1>3

\* Two lists joined fall if both do and nothing in the second is above the first.
LEMMA JoinDescending ==
  ASSUME NEW L \in Levels, NEW p \in Lists, NEW q \in Lists
  PROVE  Descending(L, p \o q)
           = (/\ Descending(L, p) /\ Descending(L, q)
              /\ \A v \in ToSet(p), w \in ToSet(q) : L[v] >= L[w])
<1> DEFINE Falls(r) == Descending(L, p \o r)
                         = (/\ Descending(L, p) /\ Descending(L, r)
                            /\ \A v \in ToSet(p), w \in ToSet(r) : L[v] >= L[w])
           P == {r \in Lists : Falls(r)}
<1>0. \A r \in Lists : Descending(L, r) \in BOOLEAN
  BY DEF Descending
<1>1. <<>> \in P
  <2>1. Descending(L, <<>>)
    BY DEF Descending
  <2>2. p \o <<>> = p /\ ToSet(<<>>) = {} /\ Descending(L, p) \in BOOLEAN
    BY <1>0, ShortLists, JoinAppend
  <2>3. \A v \in ToSet(p), w \in ToSet(<<>>) : L[v] >= L[w]
    BY <2>2
  <2>4. Falls(<<>>)
    BY <2>1, <2>2, <2>3
  <2> QED
    BY <2>4, ShortLists
<1>2. ASSUME NEW r \in P, NEW w \in Windows PROVE Append(r, w) \in P
  <2>1. r \in Lists /\ Falls(r)
    OBVIOUS
  <2>0. p \o r \in Lists /\ ToSet(p \o r) = ToSet(p) \cup ToSet(r)
    BY <2>1, JoinLists
  <2>2. /\ p \o Append(r, w) = Append(p \o r, w) /\ p \o r \in Lists
        /\ Append(r, w) \in Lists /\ ToSet(Append(r, w)) = ToSet(r) \cup {w}
        /\ ToSet(p \o r) = ToSet(p) \cup ToSet(r)
        /\ Append(p \o r, w) \in Lists
    BY <2>0, <2>1, JoinAppend, AppendList
  <2>3. /\ Descending(L, Append(r, w))
             <=> (Descending(L, r) /\ \A v \in ToSet(r) : L[v] >= L[w])
        /\ Descending(L, Append(p \o r, w))
             <=> (Descending(L, p \o r) /\ \A v \in ToSet(p \o r) : L[v] >= L[w])
    BY <2>1, <2>2, AppendDescending
  <2>4. Falls(Append(r, w))
    BY <1>0, <2>1, <2>2, <2>3
  <2> QED
    BY <2>2, <2>4
<1>3. P = Lists
  <2>1. P \in SUBSET Lists
    OBVIOUS
  <2> HIDE DEF P
  <2> QED
    BY <1>1, <1>2, <2>1, ListInduction
<1> QED
  BY <1>3

\* A list is its first i windows and the others.
LEMMA SplitList ==
  ASSUME NEW q \in Lists, NEW i \in 0..Len(q)
  PROVE  LET a == SubSeq(q, 1, i)
             b == SubSeq(q, i + 1, Len(q))
         IN /\ a \in Lists /\ b \in Lists /\ q = a \o b
            /\ Len(a) = i /\ Len(b) = Len(q) - i
            /\ \A k \in 1..i : a[k] = q[k]
            /\ \A k \in 1..(Len(q) - i) : b[k] = q[i + k]
            /\ \A w \in ToSet(a) : \E k \in 1..i : q[k] = w
            /\ \A w \in ToSet(b) : \E k \in (i + 1)..Len(q) : q[k] = w
<1> DEFINE a == SubSeq(q, 1, i)
           b == SubSeq(q, i + 1, Len(q))
<1>1. /\ a \in Lists /\ b \in Lists
      /\ Len(a) = i /\ Len(b) = Len(q) - i
      /\ \A k \in 1..i : a[k] = q[k]
      /\ \A k \in 1..(Len(q) - i) : b[k] = q[i + k]
  BY DEF Lists
<1>2. q = a \o b
  <2>1. /\ q \in Seq(Windows) /\ 1 \in 1..(Len(q) + 1) /\ i \in (1 - 1)..Len(q)
        /\ Len(q) \in i..Len(q) /\ Len(q) \in Nat
    BY DEF Lists
  <2>2. a \o b = SubSeq(q, 1, Len(q))
    BY <2>1, ConcatAdjacentSubSeq
  <2>3. SubSeq(q, 1, Len(q)) = q
    BY <2>1, SubSeqFull
  <2> QED
    BY <2>2, <2>3
<1>3. Len(q) \in Nat
  BY DEF Lists
<1>4. \A w \in ToSet(a) : \E k \in 1..i : q[k] = w
  <2> HIDE DEF a, b
  <2> QED
    BY <1>1, ListPlaces
<1>5. \A w \in ToSet(b) : \E k \in (i + 1)..Len(q) : q[k] = w
  <2>1. SUFFICES ASSUME NEW w \in ToSet(b) PROVE \E k \in (i + 1)..Len(q) : q[k] = w
    OBVIOUS
  <2> HIDE DEF a, b
  <2>2. PICK k \in 1..(Len(q) - i) : b[k] = w
    BY <1>1, ListPlaces
  <2>3. i + k \in (i + 1)..Len(q) /\ q[i + k] = w
    BY <1>1, <1>3, <2>2
  <2> QED
    BY <2>3
<1> HIDE DEF a, b
<1> QED
  BY <1>1, <1>2, <1>4, <1>5 DEF a, b

\* Where a window is in a list.
LEMMA PlaceIn ==
  ASSUME NEW q \in Lists, NEW w \in ToSet(q)
  PROVE  Place(q, w) \in 1..Len(q) /\ q[Place(q, w)] = w
BY ListPlaces DEF Place

\* A window that a list has once is at one place.
LEMMA PlaceIs ==
  ASSUME NEW q \in Lists, IsInjective(q), NEW i \in 1..Len(q)
  PROVE  Place(q, q[i]) = i
<1>1. q[i] \in ToSet(q) /\ DOMAIN q = 1..Len(q)
  BY ListPlaces
<1>2. Place(q, q[i]) \in 1..Len(q) /\ q[Place(q, q[i])] = q[i]
  BY <1>1, PlaceIn
<1> QED
  BY <1>1, <1>2 DEF IsInjective

\* Splicing a list into another.
LEMMA SpliceLists ==
  ASSUME NEW q \in Lists, NEW p \in Lists, NEW i \in 0..Len(q)
  PROVE  /\ Splice(q, i, p) \in Lists
         /\ ToSet(Splice(q, i, p)) = ToSet(q) \cup ToSet(p)
         /\ IsInjective(q) /\ IsInjective(p) /\ ToSet(q) \cap ToSet(p) = {}
              => IsInjective(Splice(q, i, p))
<1> DEFINE a == SubSeq(q, 1, i)
           b == SubSeq(q, i + 1, Len(q))
<1>1. a \in Lists /\ b \in Lists /\ q = a \o b
  BY SplitList
<1>2. Splice(q, i, p) = (a \o p) \o b
  BY DEF Splice
<1> HIDE DEF a, b
<1>3. /\ a \o p \in Lists /\ ToSet(a \o p) = ToSet(a) \cup ToSet(p)
      /\ IsInjective(a \o p)
           = (IsInjective(a) /\ IsInjective(p) /\ ToSet(a) \cap ToSet(p) = {})
  BY <1>1, JoinLists
<1>4. /\ (a \o p) \o b \in Lists /\ ToSet((a \o p) \o b) = ToSet(a \o p) \cup ToSet(b)
      /\ IsInjective((a \o p) \o b)
           = (IsInjective(a \o p) /\ IsInjective(b) /\ ToSet(a \o p) \cap ToSet(b) = {})
  BY <1>1, <1>3, JoinLists
<1>5. /\ ToSet(q) = ToSet(a) \cup ToSet(b)
      /\ IsInjective(q)
           = (IsInjective(a) /\ IsInjective(b) /\ ToSet(a) \cap ToSet(b) = {})
  BY <1>1, JoinLists
<1>6. \A r \in Lists : IsInjective(r) \in BOOLEAN
  BY DEF IsInjective
<1> QED
  BY <1>1, <1>2, <1>3, <1>4, <1>5, <1>6

\* Windows of one level go between those above it and those below.
LEMMA SpliceDescending ==
  ASSUME NEW L \in Levels, NEW q \in Lists, NEW p \in Lists, NEW i \in 0..Len(q),
         NEW l \in Int,
         Descending(L, q), \A v \in ToSet(p) : L[v] = l,
         \A k \in 1..i : L[q[k]] >= l, \A k \in (i + 1)..Len(q) : L[q[k]] <= l
  PROVE  Descending(L, Splice(q, i, p))
<1> DEFINE a == SubSeq(q, 1, i)
           b == SubSeq(q, i + 1, Len(q))
<1>1. /\ a \in Lists /\ b \in Lists /\ q = a \o b
      /\ \A w \in ToSet(a) : \E k \in 1..i : q[k] = w
      /\ \A w \in ToSet(b) : \E k \in (i + 1)..Len(q) : q[k] = w
  BY SplitList
<1>2. Splice(q, i, p) = (a \o p) \o b
  BY DEF Splice
<1> HIDE DEF a, b
<1>3. (\A w \in ToSet(a) : L[w] >= l) /\ (\A w \in ToSet(b) : L[w] <= l)
  BY <1>1
<1>4. \A r \in Lists : Descending(L, r) \in BOOLEAN /\ ToSet(r) \subseteq Windows
  BY ListPlaces DEF Descending
<1>5. Descending(L, a) /\ Descending(L, b)
  BY <1>1, <1>4, JoinDescending
<1>6. Descending(L, p)
  <2>1. SUFFICES ASSUME NEW j \in DOMAIN p, NEW k \in DOMAIN p PROVE L[p[j]] >= L[p[k]]
    BY DEF Descending
  <2>2. L[p[j]] = l /\ L[p[k]] = l
    BY ListPlaces
  <2> QED
    BY <2>2
<1>7. a \o p \in Lists /\ ToSet(a \o p) = ToSet(a) \cup ToSet(p)
  BY <1>1, JoinLists
<1>8. Descending(L, a \o p)
  <2>1. \A v \in ToSet(a), w \in ToSet(p) : L[v] >= L[w]
    BY <1>3
  <2> QED
    BY <1>1, <1>4, <1>5, <1>6, <1>7, <2>1, JoinDescending
<1>9. Descending(L, (a \o p) \o b)
  <2>1. \A v \in ToSet(a \o p), w \in ToSet(b) : L[v] >= L[w]
    <3>1. SUFFICES ASSUME NEW v \in ToSet(a \o p), NEW w \in ToSet(b) PROVE L[v] >= L[w]
      OBVIOUS
    <3>2. L[v] \in Int /\ L[w] \in Int /\ L[v] >= l /\ L[w] <= l
      BY <1>1, <1>3, <1>4, <1>7 DEF Levels
    <3> QED
      BY <3>2
  <2>2. (a \o p) \o b \in Lists
    BY <1>1, <1>7, JoinLists
  <2> QED
    BY <1>1, <1>4, <1>5, <1>7, <1>8, <2>1, <2>2, JoinDescending
<1> QED
  BY <1>2, <1>9

-----------------------------------------------------------------------------
(* Taking windows out of a list.                                             *)

\* The recursion of Without.
RestStep(q, W, f, n) ==
  IF n = 0 THEN <<>> ELSE IF q[n] \in W THEN f[n - 1] ELSE Append(f[n - 1], q[n])

\* How Without goes through a list.
LEMMA WithoutRecursion ==
  ASSUME NEW q \in Lists, NEW W
  PROVE  \E f \in [0..Len(q) -> Lists] :
           /\ f[0] = <<>> /\ Without(q, W) = f[Len(q)]
           /\ \A n \in 1..Len(q) :
                f[n] = IF q[n] \in W THEN f[n - 1] ELSE Append(f[n - 1], q[n])
<1> DEFINE m == Len(q)
           g == [n \in 1..m |-> [s \in Lists |-> IF q[n] \in W THEN s ELSE Append(s, q[n])]]
           k == CHOOSE f : f = [n \in 0..m |-> RestStep(q, W, f, n)]
<1>1. m \in Nat /\ <<>> \in Lists /\ \A n \in 1..m : q[n] \in Windows
  BY ShortLists DEF Lists
<1>2. g \in [1..m -> [Lists -> Lists]]
  BY <1>1, AppendList
<1>3. PICK h \in [0..m -> Lists] : h[0] = <<>> /\ \A n \in 1..m : h[n] = g[n][h[n - 1]]
  <2>1. m \in Nat /\ <<>> \in Lists
    BY <1>1
  <2> HIDE DEF g, m
  <2> QED
    BY <1>2, <2>1, Recursion
<1>4. ASSUME NEW n \in 1..m
      PROVE  h[n] = IF q[n] \in W THEN h[n - 1] ELSE Append(h[n - 1], q[n])
  <2>1. h[n - 1] \in Lists
    BY <1>1
  <2> QED
    BY <1>3, <2>1
<1>5. h = [n \in 0..m |-> RestStep(q, W, h, n)]
  <2>1. ASSUME NEW n \in 0..m PROVE h[n] = RestStep(q, W, h, n)
    <3>1. n = 0 \/ n \in 1..m
      BY <1>1
    <3> QED
      BY <1>1, <1>3, <1>4, <3>1 DEF RestStep
  <2> QED
    BY <2>1
<1>6. k = [n \in 0..m |-> RestStep(q, W, k, n)]
  BY <1>5, Zenon
<1>7. Without(q, W) = k[m]
  BY Zenon DEF Without, RestStep
<1> HIDE DEF k, g
<1>8. /\ k[0] = <<>>
      /\ \A n \in 1..m : k[n] = IF q[n] \in W THEN k[n - 1] ELSE Append(k[n - 1], q[n])
  <2>1. 0 \in 0..m /\ \A n \in 1..m : n \in 0..m /\ n # 0
    BY <1>1
  <2> HIDE DEF m
  <2> QED
    BY <1>6, <2>1 DEF RestStep
<1>9. \A n \in 0..m : k[n] \in Lists
  <2>1. ASSUME NEW n \in 1..m, k[n - 1] \in Lists PROVE k[n] \in Lists
    BY <1>1, <1>8, <2>1, AppendList
  <2>2. m \in Nat /\ k[0] \in Lists
    BY <1>1, <1>8
  <2>3. \A n \in 1..m : k[n - 1] \in Lists => k[n] \in Lists
    BY <2>1
  <2> HIDE DEF m
  <2> QED
    BY <2>2, <2>3, Along
<1>10. k \in [0..m -> Lists]
  <2> HIDE DEF m
  <2>1. k = [n \in 0..m |-> k[n]]
    BY <1>6
  <2> QED
    BY <1>9, <2>1
<1> QED
  BY <1>7, <1>8, <1>10

\* Nothing can be taken out of an empty list.
LEMMA WithoutEmpty ==
  ASSUME NEW W PROVE Without(<<>>, W) = <<>>
BY ShortLists, WithoutRecursion

\* A window at the end stays at the end, or goes.
LEMMA WithoutAppend ==
  ASSUME NEW q \in Lists, NEW w \in Windows, NEW W
  PROVE  /\ Without(q, W) \in Lists
         /\ Without(Append(q, w), W)
              = IF w \in W THEN Without(q, W) ELSE Append(Without(q, W), w)
<1> DEFINE r == Append(q, w)
           m == Len(q)
<1>1. /\ r \in Lists /\ Len(r) = m + 1 /\ m \in Nat /\ r[m + 1] = w
      /\ \A n \in 1..m : r[n] = q[n]
  BY AppendList, ListPlaces
<1> HIDE DEF r
<1>2. PICK f \in [0..m -> Lists] :
        /\ f[0] = <<>> /\ Without(q, W) = f[m]
        /\ \A n \in 1..m : f[n] = IF q[n] \in W THEN f[n - 1] ELSE Append(f[n - 1], q[n])
  BY WithoutRecursion
<1>3. PICK h \in [0..Len(r) -> Lists] :
        /\ h[0] = <<>> /\ Without(r, W) = h[Len(r)]
        /\ \A n \in 1..Len(r) :
             h[n] = IF r[n] \in W THEN h[n - 1] ELSE Append(h[n - 1], r[n])
  <2>1. r \in Lists
    BY <1>1
  <2> QED
    BY <2>1, WithoutRecursion
<1> HIDE DEF m
<1> DEFINE P == {n \in Nat : n <= m => f[n] = h[n]}
<1>4. 0 \in P
  BY <1>2, <1>3
<1>5. ASSUME NEW n \in P PROVE n + 1 \in P
  <2>1. SUFFICES ASSUME n + 1 <= m PROVE f[n + 1] = h[n + 1]
    OBVIOUS
  <2>2. /\ n + 1 \in 1..m /\ n + 1 \in 1..Len(r) /\ (n + 1) - 1 = n
        /\ f[n] = h[n] /\ r[n + 1] = q[n + 1]
    BY <1>1, <2>1
  <2> QED
    BY <1>2, <1>3, <2>2
<1>6. P = Nat
  <2>1. P \in SUBSET Nat
    OBVIOUS
  <2> HIDE DEF P
  <2> QED
    BY <1>4, <1>5, <2>1, NatSetInduction
<1>7. f[m] = h[m]
  BY <1>1, <1>6
<1>8. h[m + 1] = IF w \in W THEN h[m] ELSE Append(h[m], w)
  <2>1. m + 1 \in 1..Len(r) /\ (m + 1) - 1 = m
    BY <1>1
  <2> QED
    BY <1>1, <1>3, <2>1
<1>9. f[m] \in Lists
  BY <1>1
<1> QED
  BY <1>1, <1>2, <1>3, <1>7, <1>8, <1>9 DEF r

\* What is left of a list: the other windows, once and falling as before.
LEMMA WithoutDoes ==
  ASSUME NEW q \in Lists, NEW W
  PROVE  /\ Without(q, W) \in Lists /\ ToSet(Without(q, W)) = ToSet(q) \ W
         /\ IsInjective(q) => IsInjective(Without(q, W))
         /\ W \cap ToSet(q) = {} => Without(q, W) = q
<1> DEFINE Fits(r) == /\ Without(r, W) \in Lists /\ ToSet(Without(r, W)) = ToSet(r) \ W
                      /\ IsInjective(r) => IsInjective(Without(r, W))
                      /\ W \cap ToSet(r) = {} => Without(r, W) = r
           P == {r \in Lists : Fits(r)}
<1>1. <<>> \in P
  BY ShortLists, WithoutEmpty
<1>2. ASSUME NEW r \in P, NEW w \in Windows PROVE Append(r, w) \in P
  <2>1. r \in Lists /\ Fits(r)
    OBVIOUS
  <2>2. /\ Append(r, w) \in Lists /\ ToSet(Append(r, w)) = ToSet(r) \cup {w}
        /\ IsInjective(Append(r, w)) <=> (IsInjective(r) /\ w \notin ToSet(r))
        /\ Without(Append(r, w), W)
             = IF w \in W THEN Without(r, W) ELSE Append(Without(r, W), w)
    BY <2>1, AppendList, AppendOnce, WithoutAppend
  <2>3. /\ Append(Without(r, W), w) \in Lists
        /\ ToSet(Append(Without(r, W), w)) = ToSet(Without(r, W)) \cup {w}
        /\ IsInjective(Append(Without(r, W), w))
             <=> (IsInjective(Without(r, W)) /\ w \notin ToSet(Without(r, W)))
    BY <2>1, AppendList, AppendOnce
  <2>4. CASE w \in W
    <3>1. Without(Append(r, w), W) = Without(r, W)
      BY <2>2, <2>4
    <3>2. Fits(Append(r, w))
      BY <2>1, <2>2, <2>4, <3>1
    <3> QED
      BY <2>2, <3>2
  <2>5. CASE w \notin W
    <3>1. Without(Append(r, w), W) = Append(Without(r, W), w)
      BY <2>2, <2>5
    <3>2. Fits(Append(r, w))
      BY <2>1, <2>2, <2>3, <2>5, <3>1
    <3> QED
      BY <2>2, <3>2
  <2> QED
    BY <2>4, <2>5
<1>3. P = Lists
  <2>1. P \in SUBSET Lists
    OBVIOUS
  <2> HIDE DEF P
  <2> QED
    BY <1>1, <1>2, <2>1, ListInduction
<1> QED
  BY <1>3

\* What is left of a list that descends descends.
LEMMA WithoutDescending ==
  ASSUME NEW L \in Levels, NEW q \in Lists, NEW W, Descending(L, q)
  PROVE  Descending(L, Without(q, W))
<1> DEFINE P == {r \in Lists : Descending(L, r) => Descending(L, Without(r, W))}
<1>1. <<>> \in P
  BY ShortLists, WithoutEmpty
<1>2. ASSUME NEW r \in P, NEW w \in Windows PROVE Append(r, w) \in P
  <2>1. r \in Lists /\ (Descending(L, r) => Descending(L, Without(r, W)))
    OBVIOUS
  <2>2. /\ Append(r, w) \in Lists /\ Without(r, W) \in Lists
        /\ ToSet(Without(r, W)) \subseteq ToSet(r)
        /\ Without(Append(r, w), W)
             = IF w \in W THEN Without(r, W) ELSE Append(Without(r, W), w)
    <3>1. Append(r, w) \in Lists
      BY <2>1, AppendList
    <3>2. Without(r, W) \in Lists /\ ToSet(Without(r, W)) \subseteq ToSet(r)
      BY <2>1, WithoutDoes
    <3> QED
      BY <2>1, <3>1, <3>2, WithoutAppend
  <2>3. /\ Descending(L, Append(r, w))
             <=> (Descending(L, r) /\ \A v \in ToSet(r) : L[v] >= L[w])
        /\ Descending(L, Append(Without(r, W), w))
             <=> (/\ Descending(L, Without(r, W))
                  /\ \A v \in ToSet(Without(r, W)) : L[v] >= L[w])
    BY <2>1, <2>2, AppendDescending
  <2>4. Descending(L, Append(r, w)) => Descending(L, Without(Append(r, w), W))
    BY <2>1, <2>2, <2>3
  <2> QED
    BY <2>2, <2>4
<1>3. P = Lists
  <2>1. P \in SUBSET Lists
    OBVIOUS
  <2> HIDE DEF P
  <2> QED
    BY <1>1, <1>2, <2>1, ListInduction
<1> QED
  BY <1>3

\* Taking out is done in each part of a list.
LEMMA WithoutJoin ==
  ASSUME NEW p \in Lists, NEW q \in Lists, NEW W
  PROVE  Without(p \o q, W) = Without(p, W) \o Without(q, W)
<1> DEFINE P == {r \in Lists : Without(p \o r, W) = Without(p, W) \o Without(r, W)}
<1>0. Without(p, W) \in Lists
  BY WithoutDoes
<1>1. <<>> \in P
  <2>1. p \o <<>> = p /\ Without(p, W) \o <<>> = Without(p, W)
    BY <1>0, JoinAppend
  <2>2. Without(<<>>, W) = <<>>
    BY WithoutEmpty
  <2>3. Without(p \o <<>>, W) = Without(p, W) \o Without(<<>>, W)
    BY <2>1, <2>2
  <2> QED
    BY <2>3, ShortLists
<1>2. ASSUME NEW r \in P, NEW w \in Windows PROVE Append(r, w) \in P
  <2>1. r \in Lists /\ Without(p \o r, W) = Without(p, W) \o Without(r, W)
    OBVIOUS
  <2>2. /\ p \o r \in Lists /\ Without(r, W) \in Lists
        /\ p \o Append(r, w) = Append(p \o r, w) /\ Append(r, w) \in Lists
    <3>1. p \o r \in Lists
      BY <2>1, JoinLists
    <3>2. Without(r, W) \in Lists
      BY <2>1, WithoutDoes
    <3>3. p \o Append(r, w) = Append(p \o r, w)
      BY <2>1, JoinAppend
    <3>4. Append(r, w) \in Lists
      BY <2>1, AppendList
    <3> QED
      BY <3>1, <3>2, <3>3, <3>4
  <2>3. /\ Without(p, W) \o Append(Without(r, W), w)
             = Append(Without(p, W) \o Without(r, W), w)
    BY <1>0, <2>2, JoinAppend
  <2>4. /\ Without(Append(r, w), W)
             = IF w \in W THEN Without(r, W) ELSE Append(Without(r, W), w)
        /\ Without(Append(p \o r, w), W)
             = IF w \in W THEN Without(p \o r, W) ELSE Append(Without(p \o r, W), w)
    <3>1. \A s \in Lists : Without(Append(s, w), W)
                             = IF w \in W THEN Without(s, W) ELSE Append(Without(s, W), w)
      BY WithoutAppend
    <3> QED
      BY <2>1, <2>2, <3>1
  <2>5. Without(p \o Append(r, w), W) = Without(p, W) \o Without(Append(r, w), W)
    BY <2>1, <2>2, <2>3, <2>4
  <2> QED
    BY <2>2, <2>5
<1>3. P = Lists
  <2>1. P \in SUBSET Lists
    OBVIOUS
  <2> HIDE DEF P
  <2> QED
    BY <1>1, <1>2, <2>1, ListInduction
<1> QED
  BY <1>3

\* The same for any two lists.
LEMMA WithoutJoins ==
  \A V : \A c, d \in Lists : Without(c \o d, V) = Without(c, V) \o Without(d, V)
<1>1. ASSUME NEW V, NEW c \in Lists, NEW d \in Lists
      PROVE  Without(c \o d, V) = Without(c, V) \o Without(d, V)
  BY WithoutJoin
<1> QED
  BY <1>1, Zenon

\* Taking everything out leaves nothing.
LEMMA WithoutAll ==
  ASSUME NEW q \in Lists, NEW W, ToSet(q) \subseteq W
  PROVE  Without(q, W) = <<>>
<1>1. Without(q, W) \in Lists /\ ToSet(Without(q, W)) = {}
  BY WithoutDoes
<1> QED
  BY <1>1, ListPlaces, ShortLists

\* Taking out twice is taking out both.
LEMMA WithoutTwice ==
  ASSUME NEW q \in Lists, NEW V, NEW W
  PROVE  Without(Without(q, V), W) = Without(q, V \cup W)
<1> DEFINE P == {r \in Lists : Without(Without(r, V), W) = Without(r, V \cup W)}
<1>1. <<>> \in P
  BY ShortLists, WithoutEmpty
<1>2. ASSUME NEW r \in P, NEW w \in Windows PROVE Append(r, w) \in P
  <2>1. r \in Lists /\ Without(Without(r, V), W) = Without(r, V \cup W)
    OBVIOUS
  <2>2. Append(r, w) \in Lists /\ Without(r, V) \in Lists
    BY <2>1, AppendList, WithoutDoes
  <2>3. /\ Without(Append(r, w), V)
             = IF w \in V THEN Without(r, V) ELSE Append(Without(r, V), w)
        /\ Without(Append(r, w), V \cup W)
             = IF w \in V \cup W THEN Without(r, V \cup W) ELSE Append(Without(r, V \cup W), w)
        /\ Without(Append(Without(r, V), w), W)
             = IF w \in W THEN Without(Without(r, V), W)
               ELSE Append(Without(Without(r, V), W), w)
    <3>1. Without(Append(r, w), V)
            = IF w \in V THEN Without(r, V) ELSE Append(Without(r, V), w)
      BY <2>1, WithoutAppend
    <3>2. Without(Append(r, w), V \cup W)
            = IF w \in V \cup W THEN Without(r, V \cup W) ELSE Append(Without(r, V \cup W), w)
      BY <2>1, WithoutAppend
    <3>3. Without(Append(Without(r, V), w), W)
            = IF w \in W THEN Without(Without(r, V), W)
              ELSE Append(Without(Without(r, V), W), w)
      BY <2>2, WithoutAppend
    <3> QED
      BY <3>1, <3>2, <3>3
  <2>4. Without(Without(Append(r, w), V), W) = Without(Append(r, w), V \cup W)
    BY <2>1, <2>3
  <2> QED
    BY <2>2, <2>4
<1>3. P = Lists
  <2>1. P \in SUBSET Lists
    OBVIOUS
  <2> HIDE DEF P
  <2> QED
    BY <1>1, <1>2, <2>1, ListInduction
<1> QED
  BY <1>3

\* A window at the end comes after the others, which stay where they are.
LEMMA PlaceAppend ==
  ASSUME NEW q \in Lists, NEW w \in Windows, IsInjective(q), w \notin ToSet(q)
  PROVE  /\ Place(Append(q, w), w) = Len(q) + 1
         /\ \A v \in ToSet(q) : /\ Place(Append(q, w), v) = Place(q, v)
                                /\ Place(q, v) \in 1..Len(q)
<1> DEFINE r == Append(q, w)
<1>1. /\ r \in Lists /\ Len(r) = Len(q) + 1 /\ r[Len(q) + 1] = w /\ Len(q) \in Nat
      /\ \A i \in 1..Len(q) : r[i] = q[i]
  BY AppendList, ListPlaces
<1>2. IsInjective(r)
  BY AppendOnce
<1> HIDE DEF r
<1>3. \A i \in 1..Len(r) : Place(r, r[i]) = i
  BY <1>1, <1>2, PlaceIs
<1>4. Place(r, w) = Len(q) + 1
  <2>1. Len(q) + 1 \in 1..Len(r)
    BY <1>1
  <2> QED
    BY <1>1, <1>3, <2>1
<1>5. ASSUME NEW v \in ToSet(q)
      PROVE  Place(r, v) = Place(q, v) /\ Place(q, v) \in 1..Len(q)
  <2>1. Place(q, v) \in 1..Len(q) /\ q[Place(q, v)] = v
    BY PlaceIn
  <2>2. Place(q, v) \in 1..Len(r)
    BY <1>1, <2>1
  <2> QED
    BY <1>1, <1>3, <2>1, <2>2
<1> QED
  BY <1>4, <1>5 DEF r

\* What stays in a list stays in its order.
LEMMA WithoutOrder ==
  ASSUME NEW q \in Lists, IsInjective(q), NEW W, NEW u \in ToSet(q) \ W,
         NEW v \in ToSet(q) \ W
  PROVE  (Place(q, u) < Place(q, v))
           = (Place(Without(q, W), u) < Place(Without(q, W), v))
<1> DEFINE Fits(r) == IsInjective(r) /\ u \in ToSet(r) /\ v \in ToSet(r) =>
                        (Place(r, u) < Place(r, v))
                          = (Place(Without(r, W), u) < Place(Without(r, W), v))
           P == {r \in Lists : Fits(r)}
<1>1. <<>> \in P
  BY ShortLists
<1>2. ASSUME NEW r \in P, NEW w \in Windows PROVE Append(r, w) \in P
  <2> DEFINE a == Append(r, w)
             o == Without(r, W)
  <2>1. /\ r \in Lists /\ Fits(r)
        /\ a \in Lists /\ ToSet(a) = ToSet(r) \cup {w}
        /\ IsInjective(a) = (IsInjective(r) /\ w \notin ToSet(r))
    BY AppendList, AppendOnce
  <2>2. /\ o \in Lists /\ ToSet(o) = ToSet(r) \ W /\ (IsInjective(r) => IsInjective(o))
        /\ Without(a, W) = IF w \in W THEN o ELSE Append(o, w)
    BY <2>1, WithoutDoes, WithoutAppend
  <2> HIDE DEF o
  <2>3. SUFFICES ASSUME IsInjective(a), u \in ToSet(a), v \in ToSet(a)
                 PROVE  (Place(a, u) < Place(a, v))
                          = (Place(Without(a, W), u) < Place(Without(a, W), v))
    BY <2>1
  <2>4. /\ Place(a, w) = Len(r) + 1 /\ Len(r) \in Nat
        /\ \A c \in ToSet(r) : Place(a, c) = Place(r, c) /\ Place(r, c) \in 1..Len(r)
    <3>1. IsInjective(r) /\ w \notin ToSet(r)
      BY <2>1, <2>3
    <3> QED
      BY <2>1, <3>1, PlaceAppend, ListPlaces
  <2>5. w \notin W
        => /\ Place(Append(o, w), w) = Len(o) + 1 /\ Len(o) \in Nat
           /\ \A c \in ToSet(o) :
                Place(Append(o, w), c) = Place(o, c) /\ Place(o, c) \in 1..Len(o)
    <3>1. IsInjective(o) /\ w \notin ToSet(o)
      BY <2>1, <2>2, <2>3
    <3> QED
      BY <2>2, <3>1, PlaceAppend, ListPlaces
  <2> HIDE DEF a, Fits
  <2>6. CASE u \in ToSet(r) /\ v \in ToSet(r)
    <3>1. (Place(r, u) < Place(r, v)) = (Place(o, u) < Place(o, v))
      BY <2>1, <2>3, <2>6 DEF Fits, o
    <3>2. u \in ToSet(o) /\ v \in ToSet(o)
      BY <2>2, <2>6
    <3> QED
      BY <2>2, <2>4, <2>5, <2>6, <3>1, <3>2
  <2>7. CASE u \notin ToSet(r) /\ v \in ToSet(r)
    <3>1. u = w /\ w \notin W /\ v \in ToSet(o)
      BY <2>1, <2>2, <2>3, <2>7
    <3>2. ~(Place(a, u) < Place(a, v))
      BY <2>4, <2>7, <3>1
    <3>3. ~(Place(Without(a, W), u) < Place(Without(a, W), v))
      BY <2>2, <2>5, <3>1
    <3> QED
      BY <3>2, <3>3
  <2>8. CASE u \in ToSet(r) /\ v \notin ToSet(r)
    <3>1. v = w /\ w \notin W /\ u \in ToSet(o)
      BY <2>1, <2>2, <2>3, <2>8
    <3>2. Place(a, u) < Place(a, v)
      BY <2>4, <2>8, <3>1
    <3>3. Place(Without(a, W), u) < Place(Without(a, W), v)
      BY <2>2, <2>5, <3>1
    <3> QED
      BY <3>2, <3>3
  <2>9. CASE u \notin ToSet(r) /\ v \notin ToSet(r)
    <3>1. u = w /\ v = w /\ w \notin W
      BY <2>1, <2>3, <2>9
    <3>2. ~(Place(a, u) < Place(a, v))
      BY <2>4, <3>1
    <3>3. ~(Place(Without(a, W), u) < Place(Without(a, W), v))
      BY <2>2, <2>5, <3>1
    <3> QED
      BY <3>2, <3>3
  <2> QED
    BY <2>6, <2>7, <2>8, <2>9
<1>3. P = Lists
  <2>1. P \in SUBSET Lists
    OBVIOUS
  <2> HIDE DEF P
  <2> QED
    BY <1>1, <1>2, <2>1, ListInduction
<1>4. Fits(q)
  BY <1>3
<1> QED
  BY <1>4

\* What is kept of a list.
LEMMA OnlyDoes ==
  ASSUME NEW q \in Lists, NEW W
  PROVE  /\ Only(q, W) \in Lists /\ ToSet(Only(q, W)) = ToSet(q) \cap W
         /\ IsInjective(q) => IsInjective(Only(q, W))
BY WithoutDoes DEF Only

-----------------------------------------------------------------------------
(* Placing windows in a list.                                                *)

\* A list without its first window.
LEMMA TailList ==
  ASSUME NEW p \in Lists, p # <<>>
  PROVE  /\ p[1] \in Windows /\ Tail(p) \in Lists /\ p = <<p[1]>> \o Tail(p)
         /\ ToSet(p) = {p[1]} \cup ToSet(Tail(p))
         /\ IsInjective(p) => IsInjective(Tail(p)) /\ p[1] \notin ToSet(Tail(p))
<1>1. p[1] \in Windows /\ Tail(p) \in Lists
  BY DEF Lists
<1>2. p = <<p[1]>> \o Tail(p)
  <2>1. Len(p) \in Nat /\ Len(p) # 0 /\ p \in Seq(Windows)
    BY DEF Lists
  <2>2. 1 \in 1..Len(p) /\ Len(p) \in 1..Len(p)
    BY <2>1
  <2>3. SubSeq(p, 1, Len(p)) = <<p[1]>> \o SubSeq(p, 2, Len(p))
    BY <2>1, <2>2, SubSeqRecursiveFirst
  <2>4. SubSeq(p, 1, Len(p)) = p
    BY <2>1, SubSeqFull
  <2>5. Tail(p) = SubSeq(p, 2, Len(p))
    BY <2>1, TailIsSubSeq
  <2> QED
    BY <2>3, <2>4, <2>5
<1>3. <<p[1]>> \in Lists /\ ToSet(<<p[1]>>) = {p[1]}
  BY <1>1, ShortLists
<1>4. /\ ToSet(<<p[1]>> \o Tail(p)) = {p[1]} \cup ToSet(Tail(p))
      /\ IsInjective(<<p[1]>> \o Tail(p))
           = (IsInjective(<<p[1]>>) /\ IsInjective(Tail(p)) /\ {p[1]} \cap ToSet(Tail(p)) = {})
  BY <1>1, <1>3, JoinLists
<1>5. IsInjective(Tail(p)) \in BOOLEAN /\ IsInjective(p) \in BOOLEAN
  BY DEF IsInjective
<1> QED
  BY <1>1, <1>2, <1>4, <1>5

\* Bringing a window to the top keeps the others.
LEMMA ToTopDoes ==
  ASSUME NEW q \in Lists, NEW w \in Windows
  PROVE  /\ ToTop(q, w) \in Lists /\ ToSet(ToTop(q, w)) = ToSet(q) \cup {w}
         /\ IsInjective(q) => IsInjective(ToTop(q, w))
<1> DEFINE o == Without(q, {w})
<1>1. o \in Lists /\ ToSet(o) = ToSet(q) \ {w} /\ (IsInjective(q) => IsInjective(o))
  BY WithoutDoes
<1>2. <<w>> \in Lists /\ ToSet(<<w>>) = {w} /\ IsInjective(<<w>>)
  BY ShortLists
<1>3. ToTop(q, w) = <<w>> \o o
  BY DEF ToTop
<1> HIDE DEF o
<1>4. /\ <<w>> \o o \in Lists /\ ToSet(<<w>> \o o) = ToSet(<<w>>) \cup ToSet(o)
      /\ IsInjective(<<w>> \o o)
           = (IsInjective(<<w>>) /\ IsInjective(o) /\ ToSet(<<w>>) \cap ToSet(o) = {})
  BY <1>1, <1>2, JoinLists
<1> QED
  BY <1>1, <1>2, <1>3, <1>4

\* Putting a window at the bottom keeps the others.
LEMMA ToBottomDoes ==
  ASSUME NEW q \in Lists, NEW w \in Windows
  PROVE  /\ ToBottom(q, w) \in Lists /\ ToSet(ToBottom(q, w)) = ToSet(q) \cup {w}
         /\ IsInjective(q) => IsInjective(ToBottom(q, w))
<1> DEFINE o == Without(q, {w})
<1>1. o \in Lists /\ ToSet(o) = ToSet(q) \ {w} /\ (IsInjective(q) => IsInjective(o))
  BY WithoutDoes
<1>2. ToBottom(q, w) = Append(o, w)
  BY DEF ToBottom
<1> HIDE DEF o
<1>3. /\ Append(o, w) \in Lists /\ ToSet(Append(o, w)) = ToSet(o) \cup {w}
      /\ IsInjective(Append(o, w)) <=> (IsInjective(o) /\ w \notin ToSet(o))
  BY <1>1, AppendList, AppendOnce
<1> QED
  BY <1>1, <1>2, <1>3

\* Windows put next to another one are taken out of the list first.
LEMMA PlaceBelowDoes ==
  ASSUME NEW q \in Lists, NEW p \in Lists, NEW r \in ToSet(q) \ ToSet(p)
  PROVE  /\ PlaceBelow(q, p, r) \in Lists
         /\ ToSet(PlaceBelow(q, p, r)) = ToSet(q) \cup ToSet(p)
         /\ IsInjective(q) /\ IsInjective(p) => IsInjective(PlaceBelow(q, p, r))
<1> DEFINE o == Without(q, ToSet(p))
           i == Place(o, r)
<1>1. o \in Lists /\ ToSet(o) = ToSet(q) \ ToSet(p) /\ (IsInjective(q) => IsInjective(o))
  BY WithoutDoes
<1>2. PlaceBelow(q, p, r) = Splice(o, i, p)
  BY DEF PlaceBelow
<1>3. i \in 0..Len(o)
  <2> HIDE DEF o
  <2>1. i \in 1..Len(o) /\ Len(o) \in Nat
    BY <1>1, PlaceIn, ListPlaces
  <2> QED
    BY <2>1
<1> HIDE DEF o, i
<1>4. /\ Splice(o, i, p) \in Lists /\ ToSet(Splice(o, i, p)) = ToSet(o) \cup ToSet(p)
      /\ IsInjective(o) /\ IsInjective(p) /\ ToSet(o) \cap ToSet(p) = {}
           => IsInjective(Splice(o, i, p))
  BY <1>1, <1>3, SpliceLists
<1> QED
  BY <1>1, <1>2, <1>4

\* Placing windows above s keeps the others.
LEMMA PlaceAboveDoes ==
  ASSUME NEW q \in Lists, NEW p \in Lists, NEW s \in ToSet(q) \ ToSet(p)
  PROVE  /\ PlaceAbove(q, p, s) \in Lists
         /\ ToSet(PlaceAbove(q, p, s)) = ToSet(q) \cup ToSet(p)
         /\ IsInjective(q) /\ IsInjective(p) => IsInjective(PlaceAbove(q, p, s))
<1> DEFINE o == Without(q, ToSet(p))
           i == Place(o, s) - 1
<1>1. o \in Lists /\ ToSet(o) = ToSet(q) \ ToSet(p) /\ (IsInjective(q) => IsInjective(o))
  BY WithoutDoes
<1>2. PlaceAbove(q, p, s) = Splice(o, i, p)
  BY DEF PlaceAbove
<1>3. i \in 0..Len(o)
  <2> HIDE DEF o
  <2>1. Place(o, s) \in 1..Len(o) /\ Len(o) \in Nat
    BY <1>1, PlaceIn, ListPlaces
  <2> QED
    BY <2>1
<1> HIDE DEF o, i
<1>4. /\ Splice(o, i, p) \in Lists /\ ToSet(Splice(o, i, p)) = ToSet(o) \cup ToSet(p)
      /\ IsInjective(o) /\ IsInjective(p) /\ ToSet(o) \cap ToSet(p) = {}
           => IsInjective(Splice(o, i, p))
  BY <1>1, <1>3, SpliceLists
<1> QED
  BY <1>1, <1>2, <1>4

\* The windows of p all end up in the list, the first where it was.
LEMMA XRestackDoes ==
  ASSUME NEW q \in Lists, NEW p \in Lists, p # <<>>, IsInjective(p), p[1] \in ToSet(q)
  PROVE  /\ XRestackWindows(q, p) \in Lists
         /\ ToSet(XRestackWindows(q, p)) = ToSet(q) \cup ToSet(p)
         /\ IsInjective(q) => IsInjective(XRestackWindows(q, p))
<1>1. /\ Tail(p) \in Lists /\ ToSet(p) = {p[1]} \cup ToSet(Tail(p))
      /\ IsInjective(Tail(p)) /\ p[1] \notin ToSet(Tail(p))
  BY TailList
<1>2. p[1] \in ToSet(q) \ ToSet(Tail(p))
  BY <1>1
<1>3. XRestackWindows(q, p) = PlaceBelow(q, Tail(p), p[1])
  BY DEF XRestackWindows
<1>4. /\ PlaceBelow(q, Tail(p), p[1]) \in Lists
      /\ ToSet(PlaceBelow(q, Tail(p), p[1])) = ToSet(q) \cup ToSet(Tail(p))
      /\ IsInjective(q) /\ IsInjective(Tail(p)) => IsInjective(PlaceBelow(q, Tail(p), p[1]))
  BY <1>1, <1>2, PlaceBelowDoes
<1> QED
  BY <1>1, <1>3, <1>4

\* If no other window than those of p is above the first of them, p is on top
\* afterwards.
LEMMA XRestackTop ==
  ASSUME NEW y \in Lists, IsInjective(y), NEW p \in Lists, p # <<>>, IsInjective(p),
         NEW rest \in Lists, Without(y, ToSet(Tail(p))) = <<p[1]>> \o rest
  PROVE  XRestackWindows(y, p) = p \o rest
<1> DEFINE o == Without(y, ToSet(Tail(p)))
           b == SubSeq(o, 2, Len(o))
<1>1. p[1] \in Windows /\ Tail(p) \in Lists /\ p = <<p[1]>> \o Tail(p)
  BY TailList
<1>2. o \in Lists /\ IsInjective(o) /\ o = <<p[1]>> \o rest
  BY WithoutDoes
<1>3. XRestackWindows(y, p) = Splice(o, Place(o, p[1]), Tail(p))
  BY DEF XRestackWindows, PlaceBelow
<1> HIDE DEF o
<1>4. /\ Len(o) = Len(rest) + 1 /\ o[1] = p[1] /\ Len(rest) \in Nat
      /\ \A k \in 1..Len(rest) : o[1 + k] = rest[k]
  BY <1>1, <1>2 DEF Lists
<1>5. Place(o, p[1]) = 1
  <2>1. 1 \in 1..Len(o)
    BY <1>4
  <2> QED
    BY <1>2, <1>4, <2>1, PlaceIs
<1>6. SubSeq(o, 1, 1) = <<p[1]>>
  <2>1. 1 \in 1..Len(o) /\ Len(o) \in Nat
    BY <1>4
  <2>2. /\ SubSeq(o, 1, 1) \in Lists /\ Len(SubSeq(o, 1, 1)) = 1
        /\ SubSeq(o, 1, 1)[1] = o[1]
    BY <1>2, <2>1 DEF Lists
  <2>3. /\ <<p[1]>> \in Lists /\ Len(<<p[1]>>) = 1 /\ <<p[1]>>[1] = p[1]
        /\ \A i \in 1..1 : i = 1
    BY <1>1, ShortLists
  <2> QED
    BY <1>4, <2>2, <2>3, SeqEqual DEF Lists
<1>7. b = rest
  <2>1. Len(o) \in Nat /\ Len(o) >= 1 /\ Len(o) - 1 = Len(rest)
    BY <1>4
  <2>2. b \in Lists /\ Len(b) = Len(o) - 1 /\ \A k \in 1..(Len(o) - 1) : b[k] = o[1 + k]
    BY <1>2, <2>1 DEF Lists
  <2>3. b \in Lists /\ Len(b) = Len(rest) /\ \A k \in 1..Len(rest) : b[k] = rest[k]
    <3> HIDE DEF b
    <3> QED
      BY <1>4, <2>1, <2>2
  <2> HIDE DEF b
  <2> QED
    BY <2>3, SeqEqual DEF Lists
<1> HIDE DEF b
<1>8. Splice(o, 1, Tail(p)) = (<<p[1]>> \o Tail(p)) \o b
  <2>1. 1 + 1 = 2
    OBVIOUS
  <2> QED
    BY <1>6, <2>1, Zenon DEF Splice, b
<1> QED
  BY <1>1, <1>3, <1>5, <1>7, <1>8

\* A list spliced in at the top.
LEMMA SpliceTop ==
  ASSUME NEW q \in Lists, NEW p \in Lists
  PROVE  Splice(q, 0, p) = p \o q
<1>1. Len(q) \in Nat /\ q \in Seq(Windows)
  BY DEF Lists
<1>2. SubSeq(q, 1, 0) = <<>>
  BY SubSeqEmpty
<1>3. SubSeq(q, 1, Len(q)) = q
  BY <1>1, SubSeqFull
<1>4. Splice(q, 0, p) = (<<>> \o p) \o q
  BY <1>2, <1>3 DEF Splice
<1>5. <<>> \o p = p
  BY JoinAppend
<1> QED
  BY <1>4, <1>5

\* The order that RestackWindowList makes in the server from the order y.
Placed(y, r, p, s, lower) ==
  IF r # None THEN PlaceBelow(y, p, r)
  ELSE IF s # None THEN XRestackWindows(PlaceAbove(y, <<p[1]>>, s), p)
  ELSE XRestackWindows(IF lower THEN ToTop(y, p[1]) ELSE ToBottom(y, p[1]), p)

\* It loses no window and has none twice.
LEMMA PlacedWindows ==
  ASSUME NEW y \in Lists, IsInjective(y), NEW p \in Lists, p # <<>>, IsInjective(p),
         ToSet(p) \subseteq ToSet(y), NEW lower,
         NEW r \in {None} \cup (ToSet(y) \ ToSet(p)),
         NEW s \in {None} \cup (ToSet(y) \ ToSet(p))
  PROVE  /\ Placed(y, r, p, s, lower) \in Lists
         /\ ToSet(Placed(y, r, p, s, lower)) = ToSet(y)
         /\ IsInjective(Placed(y, r, p, s, lower))
<1>1. p[1] \in Windows /\ p[1] \in ToSet(p)
  <2>1. p[1] \in Windows /\ ToSet(p) = {p[1]} \cup ToSet(Tail(p))
    BY TailList
  <2> QED
    BY <2>1
<1>2. /\ <<p[1]>> \in Lists /\ ToSet(<<p[1]>>) = {p[1]} /\ IsInjective(<<p[1]>>)
  BY <1>1, ShortLists
<1>3. ASSUME NEW z \in Lists, ToSet(z) = ToSet(y), IsInjective(z)
      PROVE  /\ XRestackWindows(z, p) \in Lists
             /\ ToSet(XRestackWindows(z, p)) = ToSet(y)
             /\ IsInjective(XRestackWindows(z, p))
  <2>1. p[1] \in ToSet(z)
    BY <1>1, <1>3
  <2>2. /\ XRestackWindows(z, p) \in Lists
        /\ ToSet(XRestackWindows(z, p)) = ToSet(z) \cup ToSet(p)
        /\ IsInjective(z) => IsInjective(XRestackWindows(z, p))
    BY <2>1, XRestackDoes
  <2> QED
    BY <1>3, <2>2
<1>4. CASE r # None
  <2>1. /\ PlaceBelow(y, p, r) \in Lists
        /\ ToSet(PlaceBelow(y, p, r)) = ToSet(y) \cup ToSet(p)
        /\ IsInjective(y) /\ IsInjective(p) => IsInjective(PlaceBelow(y, p, r))
    BY <1>4, PlaceBelowDoes
  <2> QED
    BY <1>4, <2>1 DEF Placed
<1>5. CASE r = None /\ s # None
  <2>1. s \in ToSet(y) \ ToSet(<<p[1]>>)
    BY <1>1, <1>2, <1>5
  <2>2. /\ PlaceAbove(y, <<p[1]>>, s) \in Lists
        /\ ToSet(PlaceAbove(y, <<p[1]>>, s)) = ToSet(y) \cup ToSet(<<p[1]>>)
        /\ IsInjective(y) /\ IsInjective(<<p[1]>>)
             => IsInjective(PlaceAbove(y, <<p[1]>>, s))
    BY <1>2, <2>1, PlaceAboveDoes
  <2>3. ToSet(PlaceAbove(y, <<p[1]>>, s)) = ToSet(y)
    BY <1>1, <1>2, <2>2
  <2> QED
    BY <1>2, <1>3, <1>5, <2>2, <2>3 DEF Placed
<1>6. CASE r = None /\ s = None
  <2> DEFINE z == IF lower THEN ToTop(y, p[1]) ELSE ToBottom(y, p[1])
  <2>1. /\ ToTop(y, p[1]) \in Lists /\ ToSet(ToTop(y, p[1])) = ToSet(y) \cup {p[1]}
        /\ IsInjective(ToTop(y, p[1]))
    BY <1>1, ToTopDoes
  <2>2. /\ ToBottom(y, p[1]) \in Lists /\ ToSet(ToBottom(y, p[1])) = ToSet(y) \cup {p[1]}
        /\ IsInjective(ToBottom(y, p[1]))
    BY <1>1, ToBottomDoes
  <2>3. z \in Lists /\ ToSet(z) = ToSet(y) /\ IsInjective(z)
    BY <1>1, <2>1, <2>2
  <2>4. Placed(y, r, p, s, lower) = XRestackWindows(z, p)
    BY <1>6, Zenon DEF Placed
  <2> HIDE DEF z
  <2> QED
    BY <1>3, <2>3, <2>4
<1> QED
  BY <1>4, <1>5, <1>6

\* r and s are next to place i of q.
Between(q, i, r, s) ==
  /\ i \in 0..Len(q)
  /\ r = IF i = 0 THEN None ELSE q[i]
  /\ s = IF i = Len(q) THEN None ELSE q[i + 1]

\* It puts the windows of p where they go in the stack ring.
LEMMA PlacedExact ==
  ASSUME NEW y \in Lists, IsInjective(y), NEW p \in Lists, p # <<>>, IsInjective(p),
         NEW lower, NEW q, q = Without(y, ToSet(p)), NEW i,
         NEW r, NEW s, Between(q, i, r, s)
  PROVE  Placed(y, r, p, s, lower) = Splice(q, i, p)
<1>a. i \in 0..Len(q)
  BY DEF Between
<1> DEFINE T == ToSet(Tail(p))
           o == Without(y, {p[1]})
<1>0. /\ q \in Lists /\ IsInjective(q) /\ Len(q) \in Nat
      /\ \A k \in 1..Len(q) : q[k] \in Windows
      /\ None \notin Windows
  BY WithoutDoes, ListPlaces, NamesAssumption
<1>1. /\ p[1] \in Windows /\ Tail(p) \in Lists /\ ToSet(p) = {p[1]} \cup T
      /\ p[1] \notin T
  BY TailList
<1>2. /\ <<p[1]>> \in Lists /\ ToSet(<<p[1]>>) = {p[1]} /\ IsInjective(<<p[1]>>)
  BY <1>1, ShortLists
<1>3. /\ o \in Lists /\ IsInjective(o) /\ ToSet(o) = ToSet(y) \ {p[1]}
      /\ Without(o, T) = q
  <2>1. Without(o, T) = Without(y, {p[1]} \cup T)
    BY WithoutTwice
  <2> QED
    BY <1>1, <2>1, WithoutDoes
<1>4. Without(<<p[1]>>, T) = <<p[1]>>
  <2>1. T \cap ToSet(<<p[1]>>) = {}
    BY <1>1, <1>2
  <2> QED
    BY <1>2, <2>1, WithoutDoes
<1>4a. \A u, v \in Lists : Without(u \o v, T) = Without(u, T) \o Without(v, T)
  <2> HIDE DEF T
  <2> SUFFICES ASSUME NEW u \in Lists, NEW v \in Lists
               PROVE  Without(u \o v, T) = Without(u, T) \o Without(v, T)
    OBVIOUS
  <2> QED
    BY WithoutJoin, SMTT(30)
<1>5. CASE i # 0
  <2>1. i \in 1..Len(q) /\ r = q[i] /\ r # None
    BY <1>a, <1>0, <1>5 DEF Between
  <2>2. Place(q, r) = i
    BY <1>0, <2>1, PlaceIs
  <2> QED
    BY <2>1, <2>2 DEF Placed, PlaceBelow
<1>6. CASE i = 0 /\ q # <<>>
  <2>1. /\ 1 \in 1..Len(q) /\ r = None /\ s = q[1] /\ s # None /\ s \in ToSet(q)
    <3>1. Len(q) # 0
      BY <1>0, <1>6, ListPlaces
    <3>2. 1 \in 1..Len(q) /\ i # Len(q) /\ i + 1 = 1
      BY <1>0, <1>6, <3>1
    <3>3. r = None /\ s = q[1]
      BY <1>6, <3>2 DEF Between
    <3> QED
      BY <1>0, <1>6, <3>2, <3>3, ListPlaces
  <2>2. s \in ToSet(o)
    <3>1. ToSet(q) = ToSet(o) \ T
      BY <1>3, WithoutDoes
    <3> QED
      BY <2>1, <3>1
  <2> DEFINE k == Place(o, s)
             a == SubSeq(o, 1, k - 1)
             b == SubSeq(o, (k - 1) + 1, Len(o))
             z == PlaceAbove(y, <<p[1]>>, s)
  <2>3. k \in 1..Len(o) /\ o[k] = s /\ Len(o) \in Nat /\ k - 1 \in 0..Len(o)
    <3>1. k \in 1..Len(o) /\ o[k] = s /\ Len(o) \in Nat
      <4> HIDE DEF o
      <4> QED
        BY <1>3, <2>2, PlaceIn, ListPlaces
    <3> HIDE DEF k, o
    <3> QED
      BY <3>1
  <2>4. z = (a \o <<p[1]>>) \o b
    BY <1>2 DEF PlaceAbove, Splice
  <2>5. /\ a \in Lists /\ b \in Lists /\ o = a \o b
        /\ \A w \in ToSet(a) : \E j \in 1..(k - 1) : o[j] = w
    <3> HIDE DEF o, k
    <3> QED
      BY <1>3, <2>3, SplitList
  <2> HIDE DEF o, k, a, b, z, T
  <2>6. q = Without(a, T) \o Without(b, T)
    <3>1. Without(a \o b, T) = Without(a, T) \o Without(b, T)
      BY <1>4a, <2>5
    <3> QED
      BY <1>3, <2>5, <3>1
  <2>7. Without(a, T) = <<>>
    <3>1. SUFFICES ASSUME Without(a, T) # <<>> PROVE FALSE
      OBVIOUS
    <3>2. /\ Without(a, T) \in Lists /\ Without(b, T) \in Lists
          /\ ToSet(Without(a, T)) \subseteq ToSet(a)
      BY <2>5, WithoutDoes
    <3>3. q[1] = Without(a, T)[1] /\ 1 \in 1..Len(Without(a, T))
      BY <2>6, <3>1, <3>2 DEF Lists
    <3>4. s \in ToSet(a)
      BY <2>1, <3>2, <3>3, ListPlaces
    <3>5. PICK j \in 1..(k - 1) : o[j] = s
      BY <2>5, <3>4
    <3>6. j \in 1..Len(o) /\ j # k /\ DOMAIN o = 1..Len(o)
      BY <1>3, <2>3, ListPlaces
    <3> QED
      BY <1>3, <2>3, <3>5, <3>6 DEF IsInjective
  <2>8. Without(b, T) \in Lists /\ Without(b, T) = q
    <3>1. Without(b, T) \in Lists
      BY <2>5, WithoutDoes
    <3>2. <<>> \o Without(b, T) = Without(b, T)
      BY <3>1, JoinAppend
    <3> QED
      BY <2>6, <2>7, <3>1, <3>2
  <2>9. Without(z, T) = <<p[1]>> \o q
    <3>1. a \o <<p[1]>> \in Lists
      BY <1>2, <2>5, JoinLists
    <3>2. Without(a \o <<p[1]>>, T) = Without(a, T) \o Without(<<p[1]>>, T)
      BY <1>2, <1>4a, <2>5
    <3>3. Without(z, T) = Without(a \o <<p[1]>>, T) \o Without(b, T)
      BY <1>4a, <2>4, <2>5, <3>1
    <3>4. <<>> \o <<p[1]>> = <<p[1]>>
      BY <1>2, JoinAppend
    <3> QED
      BY <1>4, <2>7, <2>8, <3>2, <3>3, <3>4
  <2>10. z \in Lists /\ IsInjective(z)
    <3>1. s \in ToSet(y) \ ToSet(<<p[1]>>)
      BY <1>2, <1>3, <2>2
    <3> QED
      BY <1>2, <3>1, PlaceAboveDoes DEF z
  <2>11. XRestackWindows(z, p) = p \o q
    BY <1>0, <2>9, <2>10, XRestackTop DEF T
  <2>12. Placed(y, r, p, s, lower) = XRestackWindows(z, p)
    BY <2>1 DEF Placed, z
  <2> QED
    BY <1>0, <1>6, <2>11, <2>12, SpliceTop
<1>7. CASE i = 0 /\ q = <<>>
  <2> DEFINE z == IF lower THEN ToTop(y, p[1]) ELSE ToBottom(y, p[1])
  <2>1. r = None /\ s = None
    BY <1>7, ShortLists DEF Between
  <2>2. z \in Lists /\ IsInjective(z)
    BY <1>1, ToTopDoes, ToBottomDoes
  <2>3. Without(z, T) = <<p[1]>> \o <<>>
    <3>1. <<p[1]>> \o <<>> = <<p[1]>> /\ <<>> \o <<p[1]>> = <<p[1]>>
      BY <1>2, JoinAppend
    <3>2. Without(ToTop(y, p[1]), T) = <<p[1]>>
      <4>1. Without(<<p[1]>> \o o, T) = Without(<<p[1]>>, T) \o Without(o, T)
        BY <1>2, <1>3, <1>4a
      <4> QED
        BY <1>3, <1>4, <1>7, <3>1, <4>1 DEF ToTop
    <3>3. Without(ToBottom(y, p[1]), T) = <<p[1]>>
      <4>1. ToBottom(y, p[1]) = o \o <<p[1]>>
        BY <1>1, <1>3, JoinAppend DEF ToBottom
      <4>2. Without(o \o <<p[1]>>, T) = Without(o, T) \o Without(<<p[1]>>, T)
        BY <1>2, <1>3, <1>4a
      <4> QED
        BY <1>3, <1>4, <1>7, <3>1, <4>1, <4>2
    <3> QED
      BY <3>1, <3>2, <3>3
  <2> HIDE DEF z
  <2>4. XRestackWindows(z, p) = p \o <<>>
    BY <2>2, <2>3, XRestackTop, ShortLists DEF T
  <2>5. Placed(y, r, p, s, lower) = XRestackWindows(z, p)
    BY <2>1, Zenon DEF Placed, z
  <2> QED
    BY <1>0, <1>7, <2>4, <2>5, SpliceTop
<1> QED
  BY <1>5, <1>6, <1>7

-----------------------------------------------------------------------------
(* Transients.                                                               *)

\* One window's entry in MarkSubtree, for the windows M marked so far.
JoinsSubtree(S, base, mode, ignoreIcons, M, w) ==
  /\ w \in base.linked
  /\ S.parent[w] \in M
  /\ Moves(S.parent[w], mode)
  /\ ignoreIcons => w \notin S.iconified

\* One round of marking, which MarkSubtree repeats.
MarkStep(S, base, t, W, mode, ignoreIcons, M, n) ==
  IF n = 0 THEN base.in \cup {t}
  ELSE M[n - 1] \cup {w \in W : JoinsSubtree(S, base, mode, ignoreIcons, M[n - 1], w)}

\* Marking is done in rounds, as many as there are windows.
LEMMA MarkSubtreeRounds ==
  ASSUME NEW S, NEW base, NEW t, NEW W, NEW mode, NEW ignoreIcons
  PROVE  \E k : /\ k[0] = base.in \cup {t}
                /\ \A n \in 1..Cardinality(Windows) :
                     k[n] = k[n - 1] \cup
                            {w \in W : JoinsSubtree(S, base, mode, ignoreIcons, k[n - 1], w)}
                /\ MarkSubtree(S, base, t, W, mode, ignoreIcons) = k[Cardinality(Windows)]
<1> DEFINE m == Cardinality(Windows)
           A == base.in \cup {t}
           T == {X \in SUBSET (A \cup W) : A \subseteq X}
           Grown(X) == X \cup {w \in W : JoinsSubtree(S, base, mode, ignoreIcons, X, w)}
           g == [n \in 1..m |-> [X \in T |-> Grown(X)]]
           k == CHOOSE M : M = [n \in 0..m |-> MarkStep(S, base, t, W, mode, ignoreIcons, M, n)]
<1>1. m \in Nat /\ A \in T
  BY WindowsAssumption, FS_CardinalityType
<1>2. \A X \in T : Grown(X) \in T
  <2>1. \A X : Grown(X) \subseteq X \cup W /\ X \subseteq Grown(X)
    OBVIOUS
  <2> HIDE DEF Grown, A
  <2> QED
    BY <2>1
<1>3. PICK h \in [0..m -> T] : h[0] = A /\ \A n \in 1..m : h[n] = g[n][h[n - 1]]
  <2>1. g \in [1..m -> [T -> T]]
    <3> HIDE DEF Grown, T, m
    <3> QED
      BY <1>2
  <2> HIDE DEF g, m, T, A
  <2> QED
    BY <1>1, <2>1, Recursion
<1>4. h = [n \in 0..m |-> MarkStep(S, base, t, W, mode, ignoreIcons, h, n)]
  <2>1. ASSUME NEW n \in 0..m
        PROVE  h[n] = MarkStep(S, base, t, W, mode, ignoreIcons, h, n)
    <3>1. CASE n = 0
      BY <1>3, <3>1 DEF MarkStep
    <3>2. CASE n # 0
      <4>1. n \in 1..m /\ n - 1 \in 0..m
        BY <1>1, <3>2
      <4>2. h[n - 1] \in T /\ h[n] = g[n][h[n - 1]]
        <5> HIDE DEF T, g, m, A
        <5> QED
          BY <1>3, <4>1
      <4>3. g[n][h[n - 1]] = Grown(h[n - 1])
        <5> HIDE DEF T, Grown, m
        <5> QED
          BY <4>1, <4>2
      <4> HIDE DEF g, m, T
      <4> QED
        BY <3>2, <4>2, <4>3 DEF MarkStep
    <3> QED
      BY <3>1, <3>2
  <2> QED
    BY <2>1
<1>5. k = [n \in 0..m |-> MarkStep(S, base, t, W, mode, ignoreIcons, k, n)]
  BY <1>4, Zenon
<1>6. MarkSubtree(S, base, t, W, mode, ignoreIcons) = k[m]
  BY Zenon DEF MarkSubtree, MarkStep, JoinsSubtree
<1> HIDE DEF k, g
<1>7. k[0] = A /\ \A n \in 1..m : k[n] = Grown(k[n - 1])
  <2>1. 0 \in 0..m /\ \A n \in 1..m : n \in 0..m /\ n # 0
    BY <1>1
  <2> HIDE DEF m
  <2> QED
    BY <1>5, <2>1 DEF MarkStep
<1> HIDE DEF k
<1> QED
  BY <1>6, <1>7

\* Marking starts from what was marked and marks windows of W.
LEMMA MarkSubtreeDoes ==
  ASSUME NEW S, NEW base, NEW t, NEW W, NEW mode, NEW ignoreIcons
  PROVE  /\ base.in \cup {t} \subseteq MarkSubtree(S, base, t, W, mode, ignoreIcons)
         /\ MarkSubtree(S, base, t, W, mode, ignoreIcons) \subseteq base.in \cup {t} \cup W
<1> DEFINE m == Cardinality(Windows)
           A == base.in \cup {t}
           T == {X \in SUBSET (A \cup W) : A \subseteq X}
           Grown(X) == X \cup {w \in W : JoinsSubtree(S, base, mode, ignoreIcons, X, w)}
<1>1. m \in Nat /\ A \in T
  BY WindowsAssumption, FS_CardinalityType
<1>2. \A X \in T : Grown(X) \in T
  <2>1. \A X : Grown(X) \subseteq X \cup W /\ X \subseteq Grown(X)
    OBVIOUS
  <2> HIDE DEF Grown, A
  <2> QED
    BY <2>1
<1>3. PICK k : /\ k[0] = A /\ \A n \in 1..m : k[n] = Grown(k[n - 1])
               /\ MarkSubtree(S, base, t, W, mode, ignoreIcons) = k[m]
  BY MarkSubtreeRounds
<1>4. \A n \in 0..m : k[n] \in T
  <2>1. k[0] \in T /\ \A n \in 1..m : k[n - 1] \in T => k[n] \in T
    <3> HIDE DEF T, Grown, A, m
    <3> QED
      BY <1>1, <1>2, <1>3
  <2> HIDE DEF m, T
  <2> QED
    BY <1>1, <2>1, Along
<1>5. k[m] \in T
  <2> HIDE DEF T, m
  <2> QED
    BY <1>1, <1>4
<1> QED
  BY <1>3, <1>5

\* The recursion of Ranks.
RankStep(S, from, bonus, r, n) ==
  IF n = 0 THEN bonus
  ELSE [w \in Windows |-> IF w \in from \/ S.parent[w] \notin Windows THEN bonus[w]
                          ELSE r[n - 1][S.parent[w]] + 1 + bonus[w]]

\* Ranks are numbers.
LEMMA RanksType ==
  ASSUME NEW S, NEW from, NEW bonus \in Levels
  PROVE  Ranks(S, from, bonus) \in Levels
<1> DEFINE m == Cardinality(Windows)
           Next1(q) == [w \in Windows |->
                          IF w \in from \/ S.parent[w] \notin Windows THEN bonus[w]
                          ELSE q[S.parent[w]] + 1 + bonus[w]]
           g == [n \in 1..m |-> [q \in Levels |-> Next1(q)]]
           k == CHOOSE r : r = [n \in 0..m |-> RankStep(S, from, bonus, r, n)]
<1>1. m \in Nat
  BY WindowsAssumption, FS_CardinalityType
<1>2. \A q \in Levels : Next1(q) \in Levels
  BY DEF Levels
<1>3. PICK h \in [0..m -> Levels] : h[0] = bonus /\ \A n \in 1..m : h[n] = g[n][h[n - 1]]
  <2>1. g \in [1..m -> [Levels -> Levels]]
    <3> HIDE DEF Next1, m
    <3> QED
      BY <1>2
  <2> HIDE DEF g, m
  <2> QED
    BY <1>1, <2>1, Recursion
<1>4. h = [n \in 0..m |-> RankStep(S, from, bonus, h, n)]
  <2>1. ASSUME NEW n \in 0..m PROVE h[n] = RankStep(S, from, bonus, h, n)
    <3>1. CASE n = 0
      BY <1>3, <3>1 DEF RankStep
    <3>2. CASE n # 0
      <4>1. n \in 1..m /\ n - 1 \in 0..m
        BY <1>1, <3>2
      <4>2. h[n - 1] \in Levels /\ h[n] = g[n][h[n - 1]]
        <5> HIDE DEF g, m
        <5> QED
          BY <1>3, <4>1
      <4>3. g[n][h[n - 1]] = Next1(h[n - 1])
        <5> HIDE DEF Next1, m
        <5> QED
          BY <4>1, <4>2
      <4> HIDE DEF g, m
      <4> QED
        BY <3>2, <4>2, <4>3 DEF RankStep
    <3> QED
      BY <3>1, <3>2
  <2> QED
    BY <2>1
<1>5. k = [n \in 0..m |-> RankStep(S, from, bonus, k, n)]
  BY <1>4, Zenon
<1>6. Ranks(S, from, bonus) = k[m]
  BY Zenon DEF Ranks, RankStep
<1> HIDE DEF k, g
<1>7. k[0] = bonus /\ \A n \in 1..m : k[n] = Next1(k[n - 1])
  <2>1. 0 \in 0..m /\ \A n \in 1..m : n \in 0..m /\ n # 0
    BY <1>1
  <2> HIDE DEF m
  <2> QED
    BY <1>5, <2>1 DEF RankStep
<1>8. \A n \in 0..m : k[n] \in Levels
  <2>1. k[0] \in Levels /\ \A n \in 1..m : k[n - 1] \in Levels => k[n] \in Levels
    <3> HIDE DEF Next1, m
    <3> QED
      BY <1>1, <1>2, <1>7
  <2> HIDE DEF m
  <2> QED
    BY <1>1, <2>1, Along
<1> HIDE DEF k
<1> QED
  BY <1>1, <1>6, <1>8

\* Sorting the transients gives each of them once.
LEMMA SortTransientsDoes ==
  ASSUME NEW S, S.ring \in Lists, IsInjective(S.ring),
         NEW F \in SUBSET ToSet(S.ring), NEW rank \in Levels
  PROVE  /\ SortTransients(S, F, rank) \in Lists
         /\ ToSet(SortTransients(S, F, rank)) = F
         /\ IsInjective(SortTransients(S, F, rank))
<1> DEFINE Before(v, w) == \/ rank[v] > rank[w]
                           \/ /\ rank[v] = rank[w]
                              /\ Place(S.ring, v) < Place(S.ring, w)
           Over(w) == {v \in F : Before(v, w)}
           N(w) == Cardinality(Over(w))
           n == Cardinality(F)
           p == SortTransients(S, F, rank)
<1>1. F \subseteq Windows /\ IsFiniteSet(F) /\ n \in Nat
  <2>1. F \subseteq Windows
    BY ListPlaces
  <2>2. IsFiniteSet(F)
    BY <2>1, WindowsAssumption, FS_Subset
  <2> QED
    BY <2>1, <2>2, FS_CardinalityType
<1>2. ASSUME NEW v \in F, NEW w \in F
      PROVE  /\ rank[v] \in Int /\ Place(S.ring, v) \in Int
             /\ v # w => Place(S.ring, v) # Place(S.ring, w)
  <2>1. /\ Place(S.ring, v) \in 1..Len(S.ring) /\ S.ring[Place(S.ring, v)] = v
        /\ Place(S.ring, w) \in 1..Len(S.ring) /\ S.ring[Place(S.ring, w)] = w
    BY PlaceIn
  <2> QED
    BY <1>1, <2>1 DEF Levels
<1>3. /\ \A v \in F : ~Before(v, v)
      /\ \A u, v, w \in F : Before(u, v) /\ Before(v, w) => Before(u, w)
      /\ \A v, w \in F : v # w => Before(v, w) \/ Before(w, v)
  BY <1>2
<1> HIDE DEF Before
<1>4. ASSUME NEW w \in F PROVE IsFiniteSet(Over(w)) /\ N(w) \in 0..(n - 1)
  <2>1. Over(w) \in SUBSET (F \ {w})
    BY <1>3
  <2>2. IsFiniteSet(F \ {w}) /\ Cardinality(F \ {w}) = n - 1
    BY <1>1, FS_RemoveElement
  <2> HIDE DEF Over, n
  <2>3. IsFiniteSet(Over(w)) /\ Cardinality(Over(w)) <= Cardinality(F \ {w})
    BY <2>1, <2>2, FS_Subset
  <2>4. Cardinality(Over(w)) \in Nat
    BY <2>3, FS_CardinalityType
  <2> QED
    BY <1>1, <2>2, <2>3, <2>4
<1>5. ASSUME NEW v \in F, NEW w \in F, Before(v, w) PROVE N(v) < N(w)
  <2>1. Over(v) \in SUBSET Over(w) /\ v \in Over(w) /\ v \notin Over(v)
    BY <1>3, <1>5
  <2> HIDE DEF Over
  <2>2. N(v) <= N(w) /\ (N(w) = N(v) => Over(w) = Over(v))
    BY <1>4, <2>1, FS_Subset
  <2>3. N(v) \in Int /\ N(w) \in Int
    BY <1>4
  <2> HIDE DEF N
  <2> QED
    BY <2>1, <2>2, <2>3
<1>6. \A v, w \in F : N(v) = N(w) => v = w
  <2>1. \A v \in F : N(v) \in Int
    BY <1>4
  <2> HIDE DEF N
  <2> QED
    BY <1>3, <1>5, <2>1
<1> HIDE DEF Over
<1> DEFINE T == 0..(n - 1)
           f == [w \in F |-> N(w)]
<1>7. f \in Injection(F, T)
  <2>1. f \in [F -> T]
    <3> HIDE DEF N, n
    <3> QED
      BY <1>4
  <2>2. \A v, w \in F : f[v] = f[w] => v = w
    <3> HIDE DEF N
    <3> QED
      BY <1>6
  <2> HIDE DEF f, T
  <2> QED
    BY <2>1, <2>2 DEF Injection, IsInjective
<1>8. IsFiniteSet(T) /\ Cardinality(T) = n
  <2>1. IsFiniteSet(T) /\ Cardinality(T) = IF 0 > n - 1 THEN 0 ELSE (n - 1) - 0 + 1
    <3>1. 0 \in Int /\ n - 1 \in Int
      BY <1>1
    <3> HIDE DEF n
    <3> QED
      BY <3>1, FS_Interval
  <2> HIDE DEF n, T
  <2> QED
    BY <1>1, <2>1
<1>9. \A j \in T : \E w \in F : N(w) = j
  <2>1. f \in Surjection(F, T)
    <3> HIDE DEF f, T
    <3> QED
      BY <1>7, <1>8, FS_Injection
  <2>2. \A j \in T : \E w \in F : f[w] = j
    <3> HIDE DEF f, T
    <3> QED
      BY <2>1 DEF Surjection
  <2> HIDE DEF N, T
  <2> QED
    BY <2>2
<1>10. p = [i \in 1..n |-> CHOOSE w \in F : N(w) = i - 1]
  BY Zenon DEF SortTransients, Before, Over
<1> HIDE DEF N, n, p
<1>11. ASSUME NEW i \in 1..n PROVE p[i] \in F /\ N(p[i]) = i - 1
  <2>1. i - 1 \in T
    BY <1>1
  <2>2. \E w \in F : N(w) = i - 1
    BY <1>9, <2>1
  <2>3. p[i] = CHOOSE w \in F : N(w) = i - 1
    BY <1>10
  <2> QED
    BY <2>2, <2>3
<1>12. p \in Lists /\ Len(p) = n /\ DOMAIN p = 1..n
  <2>1. DOMAIN p = 1..n /\ p \in [1..n -> Windows]
    BY <1>1, <1>10, <1>11
  <2> QED
    BY <1>1, <2>1 DEF Lists
<1>13. ToSet(p) = F
  <2>1. ToSet(p) \subseteq F
    BY <1>11, <1>12 DEF ToSet
  <2>2. ASSUME NEW w \in F PROVE w \in ToSet(p)
    <3>1. N(w) + 1 \in 1..n /\ (N(w) + 1) - 1 = N(w)
      BY <1>1, <1>4
    <3>2. p[N(w) + 1] = w
      BY <1>6, <1>11, <3>1
    <3> QED
      BY <1>12, <3>1, <3>2 DEF ToSet
  <2> QED
    BY <2>1, <2>2
<1>14. IsInjective(p)
  <2>1. \A i, j \in 1..n : p[i] = p[j] => i = j
    <3>1. SUFFICES ASSUME NEW i \in 1..n, NEW j \in 1..n, p[i] = p[j] PROVE i = j
      OBVIOUS
    <3>2. N(p[i]) = i - 1 /\ N(p[j]) = j - 1
      BY <1>11
    <3> QED
      BY <1>1, <3>1, <3>2
  <2> QED
    BY <1>12, <2>1 DEF IsInjective
<1> QED
  BY <1>12, <1>13, <1>14 DEF p

-----------------------------------------------------------------------------
(* The record of all that depends on the stacking order.                     *)

\* The types of marks and of the record that the operators work on.
Marks == [kept : BOOLEAN, in : SUBSET Windows, linked : SUBSET Windows]

States ==
  [ring : Lists, layer : [Windows -> Layers],
   parent : [Windows -> Windows \cup {None, Root}],
   iconified : SUBSET Windows, byParent : SUBSET Windows, mapped : SUBSET Windows,
   x : Lists, view : Lists, published : Lists, grabbed : SUBSET Windows, marks : Marks]

\* No list has a window twice, the server and the pager have the windows of the
\* ring, and nothing is known of other windows.
Fine(S) ==
  /\ S \in States
  /\ IsInjective(S.ring) /\ IsInjective(S.x) /\ ToSet(S.x) = ToSet(S.ring)
  /\ Listening => ToSet(S.view) = ToSet(S.ring)
  /\ S.iconified \cup S.byParent \cup S.mapped \subseteq ToSet(S.ring)
  /\ S.mapped \cap S.iconified = {}
  /\ S.grabbed \cup S.marks.in \subseteq ToSet(S.ring)

\* The same windows as before, with the same flags, layers and hints.
SameWindows(S, T) ==
  /\ Fine(T) /\ ToSet(T.ring) = ToSet(S.ring)
  /\ T.layer = S.layer /\ T.parent = S.parent /\ T.iconified = S.iconified
  /\ T.byParent = S.byParent /\ T.mapped = S.mapped

\* What a step from S to T does with _NET_CLIENT_LIST_STACKING, with the order
\* in the server and with the order of the layers.
Publishes(S, T) ==
  T.published = T.ring \/ (T.published = S.published /\ T.ring = S.ring)

\* The server has the order of the ring if it had it.
Serves(S, T) == S.x = S.ring => T.x = T.ring

\* The ring is in the order of the layers if it was.
KeepsLayers(S, T) == Descending(S.layer, S.ring) => Descending(T.layer, T.ring)

\* Windows of other layers than l stay where they are among each other.
OfLayer(S, l) == {v \in Windows : S.layer[v] = l}
OthersStay(S, T, l) == Without(T.ring, OfLayer(S, l)) = Without(S.ring, OfLayer(S, l))

\* Nothing has moved.
Still(S, T) ==
  /\ SameWindows(S, T) /\ T.ring = S.ring /\ T.x = S.x /\ T.published = S.published
  /\ T.marks \in {S.marks, NoMarks}

\* What holds of two operations holds of one after the other.
LEMMA Transitive ==
  ASSUME NEW R, NEW S, NEW T
  PROVE  /\ SameWindows(R, S) /\ SameWindows(S, T) => SameWindows(R, T)
         /\ Publishes(R, S) /\ Publishes(S, T) => Publishes(R, T)
         /\ Serves(R, S) /\ Serves(S, T) => Serves(R, T)
         /\ KeepsLayers(R, S) /\ KeepsLayers(S, T) => KeepsLayers(R, T)
         /\ Still(R, S) /\ Still(S, T) => Still(R, T)
<1>1. SameWindows(R, S) /\ SameWindows(S, T) => SameWindows(R, T)
  BY DEF SameWindows
<1>2. Publishes(R, S) /\ Publishes(S, T) => Publishes(R, T)
  BY DEF Publishes
<1>3. Serves(R, S) /\ Serves(S, T) => Serves(R, T)
  BY DEF Serves
<1>4. KeepsLayers(R, S) /\ KeepsLayers(S, T) => KeepsLayers(R, T)
  BY DEF KeepsLayers
<1>5. Still(R, S) /\ Still(S, T) => Still(R, T)
  BY <1>1 DEF Still
<1> QED
  BY <1>1, <1>2, <1>3, <1>4, <1>5

\* An operation that moves nothing does no harm.
LEMMA StillDoes ==
  ASSUME NEW S, NEW T, Still(S, T)
  PROVE  SameWindows(S, T) /\ Publishes(S, T) /\ Serves(S, T) /\ KeepsLayers(S, T)
BY DEF Still, SameWindows, Publishes, Serves, KeepsLayers

\* Neither does doing nothing.
LEMMA StillSame ==
  ASSUME NEW S, Fine(S) PROVE Still(S, S) /\ SameWindows(S, S)
BY DEF Still, SameWindows

\* The fields of a state.
LEMMA Fields ==
  ASSUME NEW S \in States
  PROVE  /\ S.ring \in Lists /\ S.layer \in [Windows -> Layers] /\ S.layer \in Levels
         /\ S.parent \in [Windows -> Windows \cup {None, Root}]
         /\ S.iconified \in SUBSET Windows /\ S.byParent \in SUBSET Windows
         /\ S.mapped \in SUBSET Windows /\ S.grabbed \in SUBSET Windows
         /\ S.x \in Lists /\ S.view \in Lists /\ S.published \in Lists
         /\ S.marks \in Marks
<1>1. /\ S.ring \in Lists /\ S.layer \in [Windows -> Layers]
      /\ S.parent \in [Windows -> Windows \cup {None, Root}]
      /\ S.iconified \in SUBSET Windows /\ S.byParent \in SUBSET Windows
      /\ S.mapped \in SUBSET Windows /\ S.grabbed \in SUBSET Windows
      /\ S.x \in Lists /\ S.view \in Lists /\ S.published \in Lists
      /\ S.marks \in Marks
  BY DEF States
<1>2. S.layer \in Levels
  <2>1. Layers \subseteq Int
    BY LayersAssumption
  <2> QED
    BY <1>1, <2>1 DEF Levels
<1> QED
  BY <1>1, <1>2

\* NoMarks are marks, of no window.
LEMMA NoMarksType ==
  NoMarks \in Marks /\ NoMarks.in = {} /\ NoMarks.kept = FALSE /\ NoMarks.linked = {}
BY DEF NoMarks, Marks

-----------------------------------------------------------------------------
(* Telling the pager.                                                        *)

\* A part of a list.
LEMMA SubList ==
  ASSUME NEW q \in Lists, IsInjective(q), NEW i \in 1..Len(q), NEW j \in i..Len(q)
  PROVE  LET p == SubSeq(q, i, j)
         IN /\ p \in Lists /\ p # <<>> /\ IsInjective(p) /\ p[1] = q[i]
            /\ ToSet(p) \subseteq ToSet(q)
<1> DEFINE p == SubSeq(q, i, j)
<1>1. /\ p \in Lists /\ Len(p) = j - i + 1 /\ p[1] = q[i]
      /\ \A k \in 1..Len(p) : p[k] = q[i + k - 1]
  BY DEF Lists
<1>2. \A k \in 1..(j - i + 1) : i + k - 1 \in 1..Len(q)
  BY DEF Lists
<1>3. DOMAIN q = 1..Len(q) /\ \A k \in 1..Len(q) : q[k] \in ToSet(q)
  BY ListPlaces
<1> HIDE DEF p
<1>4. DOMAIN p = 1..Len(p) /\ \A w \in ToSet(p) : \E k \in 1..Len(p) : p[k] = w
  BY <1>1, ListPlaces
<1>5. ToSet(p) \subseteq ToSet(q)
  BY <1>1, <1>2, <1>3, <1>4
<1>6. IsInjective(p)
  <2>1. SUFFICES ASSUME NEW k \in 1..Len(p), NEW l \in 1..Len(p), p[k] = p[l] PROVE k = l
    BY <1>4 DEF IsInjective
  <2>2. /\ p[k] = q[i + k - 1] /\ p[l] = q[i + l - 1]
        /\ i + k - 1 \in 1..Len(q) /\ i + l - 1 \in 1..Len(q)
    BY <1>1, <1>2
  <2>3. i + k - 1 = i + l - 1
    BY <1>3, <2>1, <2>2 DEF IsInjective
  <2> QED
    BY <2>3
<1>7. p # <<>>
  BY <1>1, ShortLists
<1> QED
  BY <1>1, <1>5, <1>6, <1>7 DEF p

\* s1 is above s2 in q; None stands for the first or the last window.
Above(q, s1, s2) ==
  LET from == IF s1 = None THEN q[1] ELSE s1
      to == IF s2 = None THEN Last(q) ELSE s2
  IN /\ from \in ToSet(q) /\ to \in ToSet(q)
     /\ Place(q, from) <= Place(q, to)

\* A packet changes nothing but the view of the pager.
LEMMA SendDoes ==
  ASSUME NEW S, Fine(S), NEW v \in Lists, ToSet(S.view) \subseteq ToSet(v),
         ToSet(v) \subseteq ToSet(S.view) \cup ToSet(S.ring)
  PROVE  /\ Still(S, Send(S, v))
         /\ Send(S, v).marks = S.marks
         /\ Send(S, v).grabbed = S.grabbed
<1>1. S \in States
  BY DEF Fine
<1> DEFINE T == [S EXCEPT !.view = v]
<1>2. /\ T \in States /\ T.view = v /\ T.ring = S.ring /\ T.layer = S.layer
      /\ T.parent = S.parent /\ T.iconified = S.iconified /\ T.byParent = S.byParent
      /\ T.mapped = S.mapped /\ T.x = S.x /\ T.published = S.published
      /\ T.grabbed = S.grabbed /\ T.marks = S.marks
  BY <1>1 DEF States
<1> HIDE DEF T
<1>3. CASE Listening
  <2>1. Send(S, v) = T
    BY <1>3 DEF Send, T
  <2>2. ToSet(v) = ToSet(S.ring)
    BY <1>3 DEF Fine
  <2>3. Fine(T)
    BY <1>2, <2>2 DEF Fine
  <2> QED
    BY <1>2, <2>1, <2>3 DEF Still, SameWindows
<1>4. CASE ~Listening
  <2>1. Send(S, v) = S
    BY <1>4 DEF Send
  <2> QED
    BY <2>1, StillSame
<1> QED
  BY <1>3, <1>4

\* BroadcastRestack changes what the pager sees and nothing else.
LEMMA BroadcastDoes ==
  ASSUME NEW S, Fine(S), NEW s1, NEW s2, Above(S.ring, s1, s2)
  PROVE  /\ Still(S, BroadcastRestack(S, s1, s2))
         /\ BroadcastRestack(S, s1, s2).marks = S.marks
         /\ BroadcastRestack(S, s1, s2).grabbed = S.grabbed
<1> DEFINE q == S.ring
           from == IF s1 = None THEN q[1] ELSE s1
           to == IF s2 = None THEN Last(q) ELSE s2
           raised == IF s1 = None THEN ToTop(S.view, from) ELSE S.view
           packet == SubSeq(q, Place(q, from), Place(q, to))
           quiet == from = to \/ (s1 = None /\ NextIn(q, from) = to)
           v == IF quiet THEN raised ELSE XRestackWindows(raised, packet)
<1>1. S \in States /\ q \in Lists /\ IsInjective(q) /\ S.view \in Lists
  BY Fields DEF Fine
<1>2. /\ from \in ToSet(q) /\ to \in ToSet(q)
      /\ Place(q, from) <= Place(q, to)
  BY DEF Above
<1>3. BroadcastRestack(S, s1, s2) = Send(S, v)
  BY DEF BroadcastRestack
<1> HIDE DEF from, to, q, quiet
<1>4. /\ Place(q, from) \in 1..Len(q) /\ q[Place(q, from)] = from
      /\ Place(q, to) \in Place(q, from)..Len(q) /\ from \in Windows
  <2>1. Place(q, from) \in 1..Len(q) /\ q[Place(q, from)] = from
    BY <1>1, <1>2, PlaceIn
  <2>2. Place(q, to) \in 1..Len(q)
    BY <1>1, <1>2, PlaceIn
  <2>3. from \in Windows
    BY <1>1, <1>2, ListPlaces
  <2> QED
    BY <1>2, <2>1, <2>2, <2>3
<1>5. /\ packet \in Lists /\ packet # <<>> /\ IsInjective(packet) /\ packet[1] = from
      /\ ToSet(packet) \subseteq ToSet(q)
  BY <1>1, <1>4, SubList
<1> HIDE DEF packet
<1>6. /\ raised \in Lists /\ ToSet(S.view) \subseteq ToSet(raised)
      /\ ToSet(raised) \subseteq ToSet(S.view) \cup ToSet(q)
  <2>1. ToTop(S.view, from) \in Lists /\ ToSet(ToTop(S.view, from)) = ToSet(S.view) \cup {from}
    BY <1>1, <1>4, ToTopDoes
  <2> QED
    BY <1>1, <1>2, <2>1
<1> HIDE DEF raised
<1>7. CASE Listening
  <2>1. from \in ToSet(raised)
    BY <1>2, <1>6, <1>7 DEF Fine, q
  <2>2. /\ XRestackWindows(raised, packet) \in Lists
        /\ ToSet(XRestackWindows(raised, packet)) = ToSet(raised) \cup ToSet(packet)
    BY <1>5, <1>6, <2>1, XRestackDoes
  <2>3. /\ v \in Lists /\ ToSet(S.view) \subseteq ToSet(v)
        /\ ToSet(v) \subseteq ToSet(S.view) \cup ToSet(S.ring)
    BY <1>5, <1>6, <2>2 DEF q
  <2> HIDE DEF v
  <2> QED
    BY <1>3, <2>3, SendDoes
<1>8. CASE ~Listening
  <2>1. Send(S, v) = S
    BY <1>8 DEF Send
  <2> QED
    BY <1>3, <2>1, StillSame
<1> QED
  BY <1>7, <1>8

\* The whole ring can be told of.
LEMMA AboveAll ==
  ASSUME NEW q \in Lists, IsInjective(q), q # <<>>
  PROVE  Above(q, q[1], Last(q)) /\ Above(q, None, None)
<1>1. Len(q) \in 1..Len(q) /\ 1 \in 1..Len(q) /\ 1 <= Len(q)
  BY ListPlaces
<1>2. Place(q, q[1]) = 1 /\ Place(q, q[Len(q)]) = Len(q)
  BY <1>1, PlaceIs
<1>3. q[1] \in ToSet(q) /\ q[Len(q)] \in ToSet(q) /\ None \notin Windows
  BY <1>1, ListPlaces, NamesAssumption
<1>4. q[1] # None /\ q[Len(q)] # None
  BY <1>3, ListPlaces
<1> QED
  BY <1>1, <1>2, <1>3, <1>4 DEF Above, Last

\* Only the marks change.
LEMMA MarksDo ==
  ASSUME NEW S, Fine(S), NEW m \in Marks, m.in \subseteq ToSet(S.ring),
         NEW T, T = [S EXCEPT !.marks = m]
  PROVE  /\ SameWindows(S, T) /\ T.ring = S.ring /\ T.x = S.x
         /\ T.published = S.published /\ T.marks = m /\ T.layer = S.layer
         /\ T.grabbed = S.grabbed
<1>1. S \in States
  BY DEF Fine
<1>2. /\ T \in States /\ T.ring = S.ring /\ T.layer = S.layer /\ T.parent = S.parent
      /\ T.iconified = S.iconified /\ T.byParent = S.byParent /\ T.mapped = S.mapped
      /\ T.x = S.x /\ T.view = S.view /\ T.published = S.published
      /\ T.grabbed = S.grabbed /\ T.marks = m
  BY <1>1 DEF States
<1>3. Fine(T)
  BY <1>2 DEF Fine
<1> QED
  BY <1>2, <1>3 DEF SameWindows

\* Marks that are not kept are cleaned.
LEMMA CleanDoes ==
  ASSUME NEW S, Fine(S), NEW T, T = [S EXCEPT !.marks = NoMarks]
  PROVE  Still(S, T) /\ T.marks = NoMarks /\ T.grabbed = S.grabbed
<1>1. NoMarks \in Marks /\ NoMarks.in \subseteq ToSet(S.ring)
  BY NoMarksType
<1>2. /\ SameWindows(S, T) /\ T.ring = S.ring /\ T.x = S.x
      /\ T.published = S.published /\ T.marks = NoMarks /\ T.grabbed = S.grabbed
  BY <1>1, MarksDo
<1> QED
  BY <1>2 DEF Still

-----------------------------------------------------------------------------
(* Grabs of buttons.                                                         *)

\* Marking for is_on_top_of_layer_ignore_rom clears the marks and moves nothing.
LEMMA UseMarksDoes ==
  ASSUME NEW S, Fine(S), NEW w
  PROVE  Still(S, UseMarks(S, w))
<1> DEFINE T == [S EXCEPT !.marks = NoMarks]
<1>1. S \in States
  BY DEF Fine
<1>2. /\ T \in States /\ T.view = S.view /\ T.ring = S.ring /\ T.layer = S.layer
      /\ T.parent = S.parent /\ T.iconified = S.iconified /\ T.byParent = S.byParent
      /\ T.mapped = S.mapped /\ T.x = S.x /\ T.published = S.published
      /\ T.grabbed = S.grabbed /\ T.marks = NoMarks
  BY <1>1, NoMarksType DEF States
<1> HIDE DEF T
<1>3. Fine(T)
  BY <1>2, NoMarksType DEF Fine
<1>4. Still(S, T)
  BY <1>2, <1>3 DEF Still, SameWindows
<1> QED
  BY <1>4, StillSame DEF UseMarks, T

\* Windows that a click should raise and cannot, as ClicksLost has them when no
\* MapNotify is on its way.
Lost(S) ==
  {v \in (ClickRaise \ RaiseTr) \cap (S.mapped \ S.grabbed) :
     AboveInLayer(S, v) \cap S.mapped # {}}

\* A window that is on top of its layer has no mapped window above it there.
LEMMA OnTopDoes ==
  ASSUME NEW S, Fine(S), NEW w \in S.mapped, w \notin RaiseTr, IsOnTopOfLayer(S, w)
  PROVE  AboveInLayer(S, w) \cap S.mapped = {}
<1>1. \A t \in S.mapped : IsVisible(S, t)
  BY DEF Fine, IsVisible
<1>2. \A t \in InLayer(S, S.layer[w]) :
        ~(Place(S.ring, t) < Place(S.ring, w) /\ IsVisible(S, t) /\ IsVisible(S, w))
  BY Zenon DEF IsOnTopOfLayer
<1>3. \A t \in AboveInLayer(S, w) :
        t \in InLayer(S, S.layer[w]) /\ Place(S.ring, t) < Place(S.ring, w)
  BY Zenon DEF AboveInLayer
<1> QED
  BY <1>1, <1>2, <1>3, Zenon

\* focus_grab_buttons moves nothing, and gives the window the click that raises it.
LEMMA FocusGrabButtonsDoes ==
  ASSUME NEW S, Fine(S), NEW w \in ToSet(S.ring)
  PROVE  /\ Still(S, FocusGrabButtons(S, w))
         /\ Lost(FocusGrabButtons(S, w)) \subseteq Lost(S) \ {w}
<1> DEFINE R == IF w \in ClickFocus THEN S ELSE UseMarks(S, w)
           want == IF w \in ClickFocus THEN TRUE
                   ELSE ~IsOnTopOfLayer(S, w) /\ w \in ClickRaise
           G == IF want THEN R.grabbed \cup {w} ELSE R.grabbed \ {w}
           T == [R EXCEPT !.grabbed = G]
<1>1. Still(S, R)
  BY UseMarksDoes, StillSame
<1>2. FocusGrabButtons(S, w) = IF w \notin S.mapped THEN S ELSE T
  BY DEF FocusGrabButtons
<1> HIDE DEF R, want
<1>3. R \in States /\ Fine(R) /\ R.ring = S.ring
  BY <1>1 DEF Still, SameWindows, Fine
<1>4. G \subseteq ToSet(R.ring) /\ ToSet(R.ring) \subseteq Windows
  <2>1. R.grabbed \subseteq ToSet(R.ring) /\ R.ring \in Lists
    BY <1>3, Fields DEF Fine
  <2> QED
    BY <1>3, <2>1, ListPlaces
<1> HIDE DEF G
<1>5. /\ T \in States /\ T.view = R.view /\ T.ring = R.ring /\ T.layer = R.layer
      /\ T.parent = R.parent /\ T.iconified = R.iconified /\ T.byParent = R.byParent
      /\ T.mapped = R.mapped /\ T.x = R.x /\ T.published = R.published
      /\ T.grabbed = G /\ T.marks = R.marks
  <2>1. G \in SUBSET Windows
    BY <1>4
  <2> QED
    BY <1>3, <2>1 DEF States
<1> HIDE DEF T
<1>6. Still(R, T)
  <2>1. Fine(T)
    BY <1>3, <1>4, <1>5 DEF Fine
  <2> QED
    BY <1>5, <2>1 DEF Still, SameWindows
<1>7. Still(S, FocusGrabButtons(S, w))
  BY <1>1, <1>2, <1>6, StillSame, Transitive
<1>8. CASE w \notin S.mapped
  <2>1. FocusGrabButtons(S, w) = S
    BY <1>2, <1>8
  <2>2. w \notin Lost(S)
    BY <1>8 DEF Lost
  <2> QED
    BY <1>7, <2>1, <2>2
<1>9. CASE w \in S.mapped
  <2>1. Still(S, T)
    BY <1>1, <1>6, Transitive
  <2>2. T.ring = S.ring /\ T.layer = S.layer /\ T.mapped = S.mapped
    BY <2>1 DEF Still, SameWindows
  <2>3. \A v : AboveInLayer(T, v) = AboveInLayer(S, v)
    BY <2>2 DEF AboveInLayer, InLayer
  <2>4. R.grabbed = S.grabbed
    <3>1. [S EXCEPT !.marks = NoMarks].grabbed = S.grabbed
      BY CleanDoes
    <3> QED
      BY <3>1 DEF R, UseMarks
  <2>5. \A v \in Lost(T) : v # w => v \in Lost(S)
    BY <1>5, <2>2, <2>3, <2>4 DEF Lost, G
  <2>6. w \notin Lost(T)
    <3>1. SUFFICES ASSUME w \in Lost(T) PROVE FALSE
      OBVIOUS
    <3>2. /\ w \in ClickRaise /\ w \notin RaiseTr /\ w \notin G
          /\ AboveInLayer(S, w) \cap S.mapped # {}
      BY <1>5, <2>2, <2>3, <3>1 DEF Lost
    <3>3. ~want
      BY <3>2 DEF G
    <3>4. IsOnTopOfLayer(S, w)
      BY <3>2, <3>3 DEF want
    <3> QED
      BY <1>9, <3>2, <3>4, OnTopDoes
  <2>7. FocusGrabButtons(S, w) = T
    BY <1>2, <1>9
  <2> QED
    BY <1>7, <2>5, <2>6, <2>7
<1> QED
  BY <1>7, <1>8, <1>9

\* The recursion of FocusGrabButtonsOnLayer.
GrabStep(S, q, done, n) == IF n = 0 THEN S ELSE FocusGrabButtons(done[n - 1], q[n])

\* focus_grab_buttons_on_layer moves nothing, and gives the windows of the layer
\* the clicks that raise them.
LEMMA GrabsDo ==
  ASSUME NEW S, Fine(S), NEW l
  PROVE  /\ Still(S, FocusGrabButtonsOnLayer(S, l))
         /\ \A v \in Lost(FocusGrabButtonsOnLayer(S, l)) : v \in Lost(S) /\ S.layer[v] # l
<1> DEFINE q == Only(S.ring, InLayer(S, l))
           m == Len(q)
           T == {R \in States : Still(S, R) /\ Lost(R) \subseteq Lost(S)}
           g == [n \in 1..m |-> [R \in T |-> FocusGrabButtons(R, q[n])]]
           k == CHOOSE d : d = [n \in 0..m |-> GrabStep(S, q, d, n)]
<1>1. S \in States /\ S.ring \in Lists
  BY Fields DEF Fine
<1>2. /\ q \in Lists /\ ToSet(q) \subseteq ToSet(S.ring)
      /\ ToSet(q) = ToSet(S.ring) \cap InLayer(S, l)
  BY <1>1, OnlyDoes
<1> HIDE DEF q
<1>3. m \in Nat /\ \A n \in 1..m : q[n] \in ToSet(S.ring)
  BY <1>2, ListPlaces
<1>4. S \in T
  BY <1>1, StillSame
<1>5. ASSUME NEW R \in T, NEW n \in 1..m
      PROVE  /\ FocusGrabButtons(R, q[n]) \in T
             /\ Lost(FocusGrabButtons(R, q[n])) \subseteq Lost(R) \ {q[n]}
  <2>1. Still(S, R) /\ Lost(R) \subseteq Lost(S)
    OBVIOUS
  <2>2. Fine(R) /\ q[n] \in ToSet(R.ring)
    BY <1>3, <2>1 DEF Still, SameWindows
  <2>3. /\ Still(R, FocusGrabButtons(R, q[n]))
        /\ Lost(FocusGrabButtons(R, q[n])) \subseteq Lost(R) \ {q[n]}
    BY <2>2, FocusGrabButtonsDoes
  <2>4. Still(S, FocusGrabButtons(R, q[n]))
    BY <2>1, <2>3, Transitive
  <2>5. FocusGrabButtons(R, q[n]) \in States
    BY <2>3 DEF Still, SameWindows, Fine
  <2> QED
    BY <2>1, <2>3, <2>4, <2>5
<1>6. PICK h \in [0..m -> T] : h[0] = S /\ \A n \in 1..m : h[n] = g[n][h[n - 1]]
  <2>1. g \in [1..m -> [T -> T]]
    <3> HIDE DEF T, m
    <3> QED
      BY <1>5
  <2>2. m \in Nat
    BY <1>3
  <2> HIDE DEF g, m, T
  <2> QED
    BY <1>4, <2>1, <2>2, Recursion
<1>7. h = [n \in 0..m |-> GrabStep(S, q, h, n)]
  <2>1. ASSUME NEW n \in 0..m PROVE h[n] = GrabStep(S, q, h, n)
    <3>1. CASE n = 0
      BY <1>6, <3>1 DEF GrabStep
    <3>2. CASE n # 0
      <4>1. n \in 1..m /\ n - 1 \in 0..m
        BY <1>3, <3>2
      <4>2. h[n - 1] \in T /\ h[n] = g[n][h[n - 1]]
        <5> HIDE DEF g, m, T
        <5> QED
          BY <1>6, <4>1
      <4>3. g[n][h[n - 1]] = FocusGrabButtons(h[n - 1], q[n])
        <5> HIDE DEF T, m
        <5> QED
          BY <4>1, <4>2
      <4> HIDE DEF g, m, T
      <4> QED
        BY <3>2, <4>2, <4>3 DEF GrabStep
    <3> QED
      BY <3>1, <3>2
  <2> QED
    BY <2>1
<1>8. k = [n \in 0..m |-> GrabStep(S, q, k, n)]
  BY <1>7, Zenon
<1>9. FocusGrabButtonsOnLayer(S, l) = k[m]
  BY Zenon DEF FocusGrabButtonsOnLayer, GrabStep, q
<1> HIDE DEF k, g
<1>10. k[0] = S /\ \A n \in 1..m : k[n] = FocusGrabButtons(k[n - 1], q[n])
  <2>1. 0 \in 0..m /\ \A n \in 1..m : n \in 0..m /\ n # 0
    BY <1>3
  <2> HIDE DEF m
  <2> QED
    BY <1>8, <2>1 DEF GrabStep
<1>11. ASSUME NEW n \in 0..m PROVE k[n] \in T
  <2>1. m \in Nat
    BY <1>3
  <2>2. k[0] \in T /\ \A i \in 1..m : k[i - 1] \in T => k[i] \in T
    <3> HIDE DEF T, m
    <3> QED
      BY <1>4, <1>5, <1>10
  <2> HIDE DEF T, m
  <2> QED
    BY <2>1, <2>2, Along
<1>12. ASSUME NEW v \in Lost(k[m]) PROVE S.layer[v] # l
  <2>1. SUFFICES ASSUME S.layer[v] = l PROVE FALSE
    OBVIOUS
  <2>2. m \in 0..m /\ m \in Nat
    BY <1>3
  <2>3. k[m] \in T
    BY <1>11, <2>2
  <2>4. v \in ToSet(q)
    <3>1. v \in Lost(S)
      BY <2>3
    <3>2. v \in ToSet(S.ring)
      BY <3>1 DEF Lost, Fine
    <3> QED
      BY <1>2, <2>1, <3>2 DEF InLayer
  <2>5. PICK j \in 1..m : q[j] = v
    BY <1>2, <2>4, ListPlaces
  <2> DEFINE P == {n \in Nat : j <= n /\ n <= m => v \notin Lost(k[n])}
  <2>6. 0 \in P
    BY <2>2
  <2>7. ASSUME NEW n \in P PROVE n + 1 \in P
    <3>1. SUFFICES ASSUME j <= n + 1, n + 1 <= m PROVE v \notin Lost(k[n + 1])
      OBVIOUS
    <3>2. n + 1 \in 1..m /\ n \in 0..m /\ (n + 1) - 1 = n
      BY <2>2, <3>1
    <3>3. k[n] \in T /\ k[n + 1] = FocusGrabButtons(k[n], q[n + 1])
      <4> HIDE DEF T, m
      <4> QED
        BY <1>10, <1>11, <3>2
    <3>4. Lost(k[n + 1]) \subseteq Lost(k[n]) \ {q[n + 1]}
      <4> HIDE DEF T, m
      <4> QED
        BY <1>5, <3>2, <3>3
    <3>5. CASE j = n + 1
      BY <2>5, <3>4, <3>5
    <3>6. CASE j # n + 1
      <4>1. j <= n /\ n <= m
        BY <2>2, <3>1, <3>6
      <4>2. v \notin Lost(k[n])
        BY <4>1
      <4> QED
        BY <3>4, <4>2
    <3> QED
      BY <3>5, <3>6
  <2>8. P = Nat
    <3>1. P \in SUBSET Nat
      OBVIOUS
    <3> HIDE DEF P
    <3> QED
      BY <2>6, <2>7, <3>1, NatSetInduction
  <2>9. m \in P
    BY <2>2, <2>8
  <2> QED
    BY <2>2, <2>5, <2>9
<1>13. k[m] \in T
  <2>1. m \in 0..m
    BY <1>3
  <2> QED
    BY <1>11, <2>1
<1> QED
  BY <1>9, <1>12, <1>13

\* A click that is lost in T was lost in S, for a window that is not in V, if no
\* window of V is in its layer and the others are in the order they had.
LEMMA LostKept ==
  ASSUME NEW S, Fine(S), NEW T, Fine(T), NEW V,
         Without(T.ring, V) = Without(S.ring, V),
         T.mapped \ V \subseteq S.mapped, S.grabbed \ V \subseteq T.grabbed,
         NEW v \in Lost(T), v \notin V,
         \A u \in ToSet(T.ring) : T.layer[u] = T.layer[v]
           => u \notin V /\ S.layer[u] = S.layer[v]
  PROVE  v \in Lost(S)
<1>1. /\ v \in ClickRaise \ RaiseTr /\ v \in T.mapped \ T.grabbed
      /\ AboveInLayer(T, v) \cap T.mapped # {}
  BY DEF Lost
<1>2. PICK u : u \in AboveInLayer(T, v) /\ u \in T.mapped
  BY <1>1
<1>3. u \in ToSet(T.ring) /\ T.layer[u] = T.layer[v] /\ Place(T.ring, u) < Place(T.ring, v)
  BY <1>2 DEF AboveInLayer, InLayer
<1>4. u \notin V /\ S.layer[u] = S.layer[v] /\ u \in S.mapped /\ v \in S.mapped \ S.grabbed
  BY <1>1, <1>2, <1>3
<1>5. /\ S.ring \in Lists /\ T.ring \in Lists /\ IsInjective(S.ring) /\ IsInjective(T.ring)
      /\ S.mapped \subseteq ToSet(S.ring) /\ T.mapped \subseteq ToSet(T.ring)
  BY Fields DEF Fine
<1>6. /\ u \in ToSet(S.ring) \ V /\ v \in ToSet(S.ring) \ V
      /\ u \in ToSet(T.ring) \ V /\ v \in ToSet(T.ring) \ V
  BY <1>1, <1>2, <1>4, <1>5
<1>7. (Place(T.ring, u) < Place(T.ring, v))
        = (Place(Without(T.ring, V), u) < Place(Without(T.ring, V), v))
  BY <1>5, <1>6, WithoutOrder
<1>8. (Place(S.ring, u) < Place(S.ring, v))
        = (Place(Without(S.ring, V), u) < Place(Without(S.ring, V), v))
  BY <1>5, <1>6, WithoutOrder
<1>9. Place(S.ring, u) < Place(S.ring, v)
  BY <1>3, <1>7, <1>8
<1>10. u \in AboveInLayer(S, v)
  BY <1>4, <1>6, <1>9 DEF AboveInLayer, InLayer
<1> QED
  BY <1>1, <1>4, <1>10 DEF Lost

\* Moving windows of layer l takes clicks in layer l only.
LEMMA LostInLayer ==
  ASSUME NEW S, Fine(S), NEW T, SameWindows(S, T), T.grabbed = S.grabbed, NEW l,
         OthersStay(S, T, l)
  PROVE  \A v \in Lost(T) : v \in Lost(S) \/ T.layer[v] = l
<1> SUFFICES ASSUME NEW v \in Lost(T), T.layer[v] # l PROVE v \in Lost(S)
  OBVIOUS
<1> DEFINE V == OfLayer(S, l)
<1>1. Fine(T) /\ T.layer = S.layer /\ T.mapped = S.mapped
  BY DEF SameWindows
<1>2. Without(T.ring, V) = Without(S.ring, V)
  BY DEF OthersStay
<1>3. v \notin V /\ \A u : T.layer[u] = T.layer[v] => u \notin V
  BY <1>1 DEF OfLayer
<1> HIDE DEF V
<1> QED
  BY <1>1, <1>2, <1>3, LostKept

\* Grabbing buttons there gives them back.
LEMMA LostAndGiven ==
  ASSUME NEW S, NEW T, Fine(T), NEW l, \A v \in Lost(T) : v \in Lost(S) \/ T.layer[v] = l
  PROVE  Lost(FocusGrabButtonsOnLayer(T, l)) \subseteq Lost(S)
BY GrabsDo

\* Clicks are lost by windows, layers, flags and grabs.
LEMMA LostSame ==
  ASSUME NEW S, NEW T, T.ring = S.ring, T.layer = S.layer, T.mapped = S.mapped,
         T.grabbed = S.grabbed
  PROVE  Lost(T) = Lost(S)
BY DEF Lost, AboveInLayer, InLayer

-----------------------------------------------------------------------------
(* Restacking a list of windows.                                             *)

\* With None on one side, there is nothing to be in the wrong order.
LEMMA AboveSome ==
  ASSUME NEW q \in Lists, IsInjective(q), q # <<>>,
         NEW s1 \in {None} \cup ToSet(q), NEW s2 \in {None} \cup ToSet(q),
         s1 = None \/ s2 = None \/ Place(q, s1) <= Place(q, s2)
  PROVE  Above(q, s1, s2)
<1>1. Len(q) \in Nat /\ Len(q) \in 1..Len(q) /\ 1 \in 1..Len(q)
  BY ListPlaces
<1>2. /\ Place(q, q[1]) = 1 /\ Place(q, q[Len(q)]) = Len(q)
      /\ q[1] \in ToSet(q) /\ q[Len(q)] \in ToSet(q)
  BY <1>1, PlaceIs, ListPlaces
<1>3. \A w \in ToSet(q) : Place(q, w) \in 1..Len(q)
  BY PlaceIn
<1> DEFINE from == IF s1 = None THEN q[1] ELSE s1
           to == IF s2 = None THEN q[Len(q)] ELSE s2
<1>4. from \in ToSet(q) /\ to \in ToSet(q)
  BY <1>2
<1>5. Place(q, from) <= Place(q, to)
  <2>1. CASE s1 = None
    <3>1. Place(q, from) = 1 /\ Place(q, to) \in 1..Len(q)
      <4> HIDE DEF to
      <4> QED
        BY <1>2, <1>3, <1>4, <2>1
    <3> QED
      BY <1>1, <3>1
  <2>2. CASE s1 # None /\ s2 = None
    <3>1. Place(q, to) = Len(q) /\ Place(q, from) \in 1..Len(q)
      <4> HIDE DEF from
      <4> QED
        BY <1>2, <1>3, <1>4, <2>2
    <3> QED
      BY <1>1, <3>1
  <2>3. CASE s1 # None /\ s2 # None
    BY <2>3
  <2> QED
    BY <2>1, <2>2, <2>3
<1> QED
  BY <1>4, <1>5 DEF Above, Last

\* __restack_window_list puts windows where the ring has them, if r and s are their
\* neighbours there, and publishes the ring.
LEMMA RestackWindowListDoes ==
  ASSUME NEW S, Fine(S), NEW p \in Lists, p # <<>>, IsInjective(p),
         ToSet(p) \subseteq ToSet(S.ring), NEW all, NEW lower,
         NEW r \in {None} \cup (ToSet(S.ring) \ ToSet(p)),
         NEW s \in {None} \cup (ToSet(S.ring) \ ToSet(p)),
         Above(S.ring, r, s)
  PROVE  LET T == RestackWindowList(S, r, p, s, all, lower)
         IN /\ SameWindows(S, T) /\ T.ring = S.ring /\ T.published = T.ring
            /\ T.x = Placed(S.x, r, p, s, lower) /\ T.marks = S.marks
            /\ T.grabbed = S.grabbed
<1> DEFINE placed == Placed(S.x, r, p, s, lower)
           R == [S EXCEPT !.x = placed, !.published = S.ring]
           T == RestackWindowList(S, r, p, s, all, lower)
<1>1. S \in States /\ S.ring \in Lists /\ S.x \in Lists
  BY Fields DEF Fine
<1>2. placed \in Lists /\ ToSet(placed) = ToSet(S.ring) /\ IsInjective(placed)
  <2>1. IsInjective(S.x) /\ ToSet(S.x) = ToSet(S.ring)
    BY DEF Fine
  <2> QED
    BY <1>1, <2>1, PlacedWindows
<1>3. T = IF all THEN BroadcastRestackAllWindows(R) ELSE BroadcastRestack(R, r, s)
  BY DEF RestackWindowList, Placed
<1> HIDE DEF placed
<1>4. /\ R \in States /\ R.view = S.view /\ R.ring = S.ring /\ R.layer = S.layer
      /\ R.parent = S.parent /\ R.iconified = S.iconified /\ R.byParent = S.byParent
      /\ R.mapped = S.mapped /\ R.x = placed /\ R.published = S.ring
      /\ R.grabbed = S.grabbed /\ R.marks = S.marks
  BY <1>1, <1>2 DEF States
<1> HIDE DEF R, T
<1>5. Fine(R)
  BY <1>2, <1>4 DEF Fine
<1>6. SameWindows(S, R)
  BY <1>4, <1>5 DEF SameWindows
<1>7. R.ring # <<>> /\ IsInjective(R.ring)
  <2>1. ToSet(p) # {}
    BY ListPlaces
  <2> QED
    BY <1>4, <1>5, <2>1, ShortLists DEF Fine
<1>8. Still(R, T) /\ T.marks = R.marks /\ T.grabbed = R.grabbed
  <2>1. Above(R.ring, R.ring[1], Last(R.ring))
    BY <1>1, <1>4, <1>7, AboveAll
  <2>2. Above(R.ring, r, s)
    BY <1>4
  <2>3. /\ Still(R, BroadcastRestack(R, R.ring[1], Last(R.ring)))
        /\ BroadcastRestack(R, R.ring[1], Last(R.ring)).marks = R.marks
        /\ BroadcastRestack(R, R.ring[1], Last(R.ring)).grabbed = R.grabbed
    BY <1>5, <2>1, BroadcastDoes
  <2>4. /\ Still(R, BroadcastRestack(R, r, s))
        /\ BroadcastRestack(R, r, s).marks = R.marks
        /\ BroadcastRestack(R, r, s).grabbed = R.grabbed
    BY <1>5, <2>2, BroadcastDoes
  <2> QED
    BY <1>3, <2>3, <2>4 DEF BroadcastRestackAllWindows
<1>9. SameWindows(S, T)
  BY <1>6, <1>8, Transitive DEF Still
<1> QED
  BY <1>4, <1>8, <1>9 DEF Still, T, placed

\* What two joined lists have at their places.
LEMMA JoinPlaces ==
  ASSUME NEW p \in Lists, NEW q \in Lists
  PROVE  /\ Len(p \o q) = Len(p) + Len(q)
         /\ \A j \in 1..Len(p) : (p \o q)[j] = p[j]
         /\ \A j \in 1..Len(q) : (p \o q)[Len(p) + j] = q[j]
<1>1. p \in Seq(Windows) /\ q \in Seq(Windows)
  BY DEF Lists
<1>2. Len(p) \in Nat /\ Len(q) \in Nat
  BY <1>1
<1>3. /\ Len(p \o q) = Len(p) + Len(q)
      /\ \A i \in 1..(Len(p) + Len(q)) :
           (p \o q)[i] = IF i <= Len(p) THEN p[i] ELSE q[i - Len(p)]
  BY <1>1, ConcatProperties
<1>4. ASSUME NEW j \in 1..Len(p) PROVE (p \o q)[j] = p[j]
  <2>1. j \in 1..(Len(p) + Len(q)) /\ j <= Len(p)
    BY <1>2
  <2> QED
    BY <1>3, <2>1
<1>5. ASSUME NEW j \in 1..Len(q) PROVE (p \o q)[Len(p) + j] = q[j]
  <2>1. Len(p) + j \in 1..(Len(p) + Len(q)) /\ ~(Len(p) + j <= Len(p)) /\ (Len(p) + j) - Len(p) = j
    BY <1>2
  <2> QED
    BY <1>3, <2>1
<1> QED
  BY <1>3, <1>4, <1>5

\* What a spliced list has at its places.
LEMMA SplicePlaces ==
  ASSUME NEW q \in Lists, NEW p \in Lists, NEW i \in 0..Len(q)
  PROVE  /\ Len(Splice(q, i, p)) = Len(q) + Len(p)
         /\ \A j \in 1..i : Splice(q, i, p)[j] = q[j]
         /\ \A j \in (i + 1)..Len(q) : Splice(q, i, p)[j + Len(p)] = q[j]
<1> DEFINE a == SubSeq(q, 1, i)
           b == SubSeq(q, i + 1, Len(q))
<1>1. /\ a \in Lists /\ b \in Lists /\ Len(a) = i /\ Len(b) = Len(q) - i
      /\ \A k \in 1..i : a[k] = q[k]
      /\ \A k \in 1..(Len(q) - i) : b[k] = q[i + k]
  BY SplitList
<1>2. Splice(q, i, p) = (a \o p) \o b
  BY DEF Splice
<1>3. Len(q) \in Nat /\ Len(p) \in Nat
  BY ListPlaces
<1> HIDE DEF a, b
<1>4. /\ a \o p \in Lists /\ Len(a \o p) = i + Len(p)
      /\ \A j \in 1..i : (a \o p)[j] = a[j]
  <2>1. a \o p \in Lists
    BY <1>1, JoinLists
  <2> QED
    BY <1>1, <2>1, JoinPlaces
<1>5. /\ Len((a \o p) \o b) = (i + Len(p)) + (Len(q) - i)
      /\ \A j \in 1..(i + Len(p)) : ((a \o p) \o b)[j] = (a \o p)[j]
      /\ \A k \in 1..(Len(q) - i) : ((a \o p) \o b)[(i + Len(p)) + k] = b[k]
  <2> DEFINE c == a \o p
  <2>1. c \in Lists /\ Len(c) = i + Len(p)
    BY <1>4
  <2> HIDE DEF c
  <2>2. /\ Len(c \o b) = Len(c) + Len(b)
        /\ \A j \in 1..Len(c) : (c \o b)[j] = c[j]
        /\ \A j \in 1..Len(b) : (c \o b)[Len(c) + j] = b[j]
    BY <1>1, <2>1, JoinPlaces
  <2>3. /\ Len(c \o b) = (i + Len(p)) + (Len(q) - i)
        /\ \A j \in 1..(i + Len(p)) : (c \o b)[j] = c[j]
        /\ \A k \in 1..(Len(q) - i) : (c \o b)[(i + Len(p)) + k] = b[k]
    BY <1>1, <2>1, <2>2
  <2> QED
    BY <2>3 DEF c
<1>6. ASSUME NEW j \in (i + 1)..Len(q) PROVE ((a \o p) \o b)[j + Len(p)] = q[j]
  <2>1. j - i \in 1..(Len(q) - i) /\ (i + Len(p)) + (j - i) = j + Len(p) /\ i + (j - i) = j
    BY <1>3
  <2>2. ((a \o p) \o b)[(i + Len(p)) + (j - i)] = b[j - i] /\ b[j - i] = q[i + (j - i)]
    BY <1>1, <1>5, <2>1
  <2> QED
    BY <2>1, <2>2
<1>7. ASSUME NEW j \in 1..i PROVE ((a \o p) \o b)[j] = q[j]
  <2>1. j \in 1..(i + Len(p))
    BY <1>3
  <2> QED
    BY <1>1, <1>4, <1>5, <2>1
<1>8. Len((a \o p) \o b) = Len(q) + Len(p)
  BY <1>3, <1>5
<1> QED
  BY <1>2, <1>6, <1>7, <1>8

\* A list without one window.
LEMMA RemoveOne ==
  ASSUME NEW q \in Lists, IsInjective(q), NEW w \in ToSet(q)
  PROVE  LET o == Without(q, {w})
             k == Place(q, w)
         IN /\ k \in 1..Len(q) /\ q[k] = w /\ Len(o) = Len(q) - 1
            /\ \A j \in 1..(k - 1) : o[j] = q[j]
            /\ \A j \in k..(Len(q) - 1) : o[j] = q[j + 1]
<1> DEFINE k == Place(q, w)
           a == SubSeq(q, 1, k)
           c == SubSeq(q, 1, k - 1)
           b == SubSeq(q, k + 1, Len(q))
<1>1. k \in 1..Len(q) /\ q[k] = w /\ Len(q) \in Nat /\ w \in Windows
  BY PlaceIn, ListPlaces
<1> HIDE DEF k
<1>2. /\ a \in Lists /\ b \in Lists /\ q = a \o b /\ Len(b) = Len(q) - k
      /\ \A j \in 1..(Len(q) - k) : b[j] = q[k + j]
  <2>1. k \in 0..Len(q)
    BY <1>1
  <2> QED
    BY <2>1, SplitList
<1>3. c \in Lists /\ Len(c) = k - 1 /\ \A j \in 1..(k - 1) : c[j] = q[j]
  <2>1. k - 1 \in 0..Len(q)
    BY <1>1
  <2> QED
    BY <2>1, SplitList
<1>4. a = c \o <<w>>
  <2>1. 1 \in 1..Len(q) /\ k \in 1..Len(q) /\ q \in Seq(Windows)
    BY <1>1 DEF Lists
  <2> QED
    BY <1>1, <2>1, SubSeqRecursiveSecond
<1> HIDE DEF a, b, c
<1>5. <<w>> \in Lists /\ ToSet(<<w>>) = {w}
  BY <1>1, ShortLists
<1>6. {w} \cap ToSet(c) = {} /\ {w} \cap ToSet(b) = {}
  <2>1. /\ IsInjective(a \o b)
             = (IsInjective(a) /\ IsInjective(b) /\ ToSet(a) \cap ToSet(b) = {})
        /\ IsInjective(c \o <<w>>)
             = (IsInjective(c) /\ IsInjective(<<w>>) /\ ToSet(c) \cap ToSet(<<w>>) = {})
        /\ ToSet(c \o <<w>>) = ToSet(c) \cup ToSet(<<w>>)
    BY <1>2, <1>3, <1>5, JoinLists
  <2>2. \A p \in Lists : IsInjective(p) \in BOOLEAN
    BY DEF IsInjective
  <2>3. ToSet(a) \cap ToSet(b) = {} /\ IsInjective(a)
    BY <1>2, <2>1, <2>2
  <2> QED
    BY <1>2, <1>3, <1>4, <1>5, <2>1, <2>2, <2>3
<1>7. Without(q, {w}) = c \o b
  <2>0. \A u, v \in Lists : Without(u \o v, {w}) = Without(u, {w}) \o Without(v, {w})
    BY WithoutJoin
  <2>1. Without(a \o b, {w}) = Without(a, {w}) \o Without(b, {w})
    BY <1>2, <2>0
  <2>2. Without(c \o <<w>>, {w}) = Without(c, {w}) \o Without(<<w>>, {w})
    BY <1>3, <1>5, <2>0
  <2>3. Without(b, {w}) = b /\ Without(c, {w}) = c
    BY <1>2, <1>3, <1>6, WithoutDoes
  <2>4. Without(<<w>>, {w}) = <<>>
    <3>1. Without(<<w>>, {w}) \in Lists /\ ToSet(Without(<<w>>, {w})) = {}
      BY <1>5, WithoutDoes
    <3> QED
      BY <3>1, ListPlaces
  <2>5. c \o <<>> = c
    BY <1>3, JoinAppend
  <2> QED
    BY <1>2, <1>4, <2>1, <2>2, <2>3, <2>4, <2>5
<1>8. /\ Len(c \o b) = (k - 1) + (Len(q) - k)
      /\ \A j \in 1..(k - 1) : (c \o b)[j] = c[j]
      /\ \A j \in 1..(Len(q) - k) : (c \o b)[(k - 1) + j] = b[j]
  <2>1. /\ Len(c \o b) = Len(c) + Len(b)
        /\ \A j \in 1..Len(c) : (c \o b)[j] = c[j]
        /\ \A j \in 1..Len(b) : (c \o b)[Len(c) + j] = b[j]
    BY <1>2, <1>3, JoinPlaces
  <2> QED
    BY <1>2, <1>3, <2>1
<1>9. ASSUME NEW j \in k..(Len(q) - 1) PROVE (c \o b)[j] = q[j + 1]
  <2> DEFINE d == j - (k - 1)
  <2>1. d \in 1..(Len(q) - k) /\ (k - 1) + d = j /\ k + d = j + 1
    BY <1>1
  <2> HIDE DEF d
  <2>2. (c \o b)[(k - 1) + d] = b[d] /\ b[d] = q[k + d]
    BY <1>2, <1>8, <2>1
  <2> QED
    BY <2>1, <2>2
<1>10. Len(c \o b) = Len(q) - 1
  BY <1>1, <1>8
<1> QED
  BY <1>1, <1>3, <1>7, <1>8, <1>9, <1>10 DEF k

-----------------------------------------------------------------------------
(* Where a window goes.                                                      *)

\* Above the place that FirstAtMost finds, all layers are higher.
LEMMA FirstAtMostDoes ==
  ASSUME NEW S, S.layer \in Levels, NEW q \in Lists, NEW l \in Int
  PROVE  /\ FirstAtMost(S, q, l) \in 0..Len(q)
         /\ \A k \in 1..FirstAtMost(S, q, l) : S.layer[q[k]] > l
         /\ Descending(S.layer, q)
              => \A k \in (FirstAtMost(S, q, l) + 1)..Len(q) : S.layer[q[k]] <= l
<1> DEFINE I == {k \in 1..Len(q) : S.layer[q[k]] <= l}
           f == IF I # {} THEN Min(I) ELSE 0
           n == FirstAtMost(S, q, l)
<1>1. n = IF f = 0 THEN Len(q) ELSE f - 1
  BY DEF FirstAtMost, SelectInSeq
<1>2. Len(q) \in Nat /\ DOMAIN q = 1..Len(q) /\ \A k \in 1..Len(q) : S.layer[q[k]] \in Int
  BY ListPlaces DEF Levels
<1>3. CASE I = {}
  <2>1. n = Len(q)
    BY <1>1, <1>3
  <2>2. \A k \in 1..Len(q) : ~(S.layer[q[k]] <= l)
    BY <1>3
  <2> HIDE DEF n
  <2>3. n \in 0..Len(q) /\ (\A k \in 1..n : S.layer[q[k]] > l) /\ (n + 1)..Len(q) = {}
    BY <1>2, <2>1, <2>2
  <2> QED
    BY <2>3 DEF n
<1>4. CASE I # {}
  <2>1. Min(I) \in I /\ \A j \in I : Min(I) <= j
    <3>1. I \in SUBSET Nat
      OBVIOUS
    <3> HIDE DEF I
    <3> QED
      BY <1>4, <3>1, LeastExists
  <2> DEFINE m == Min(I)
  <2>2. m \in 1..Len(q) /\ S.layer[q[m]] <= l
    BY <2>1
  <2>3. \A j \in 1..Len(q) : j < m => ~(S.layer[q[j]] <= l)
    <3> SUFFICES ASSUME NEW j \in 1..Len(q), j < m, S.layer[q[j]] <= l PROVE FALSE
      OBVIOUS
    <3>1. j \in I
      OBVIOUS
    <3>2. m <= j
      BY <2>1, <3>1
    <3> HIDE DEF m
    <3> QED
      BY <2>2, <3>2
  <2>4. f = m
    BY <1>4
  <2> HIDE DEF m, f
  <2>5. n = m - 1
    BY <1>1, <2>2, <2>4
  <2> HIDE DEF n
  <2>6. n \in 0..Len(q) /\ \A k \in 1..n : S.layer[q[k]] > l
    BY <1>2, <2>2, <2>3, <2>5
  <2>7. ASSUME Descending(S.layer, q), NEW k \in (n + 1)..Len(q)
        PROVE  S.layer[q[k]] <= l
    <3>1. k \in 1..Len(q) /\ (k = m \/ m < k)
      BY <1>2, <2>2, <2>5
    <3>2. m < k => S.layer[q[m]] >= S.layer[q[k]]
      BY <1>2, <2>2, <2>7, <3>1 DEF Descending
    <3> QED
      BY <1>2, <2>2, <3>1, <3>2
  <2> QED
    BY <2>6, <2>7 DEF n
<1> QED
  BY <1>3, <1>4

\* The place where Reinsert puts t and its family F.
InsertPlace(S, t, mode, F) ==
  IF mode = "restack" THEN Place(Without(S.ring, F), t) - 1
  ELSE InsertAfter(S, Without(S.ring, F \cup {t}), t, mode)

\* The place at which a window is inserted is within its layer.
LEMMA InsertPlaceDoes ==
  ASSUME NEW S, Fine(S), NEW t \in ToSet(S.ring), NEW mode,
         NEW F \in SUBSET (ToSet(S.ring) \ {t}),
         NEW q, q = Without(S.ring, F \cup {t})
  PROVE  /\ InsertPlace(S, t, mode, F) \in 0..Len(q)
         /\ Descending(S.layer, q) /\ (mode = "restack" => Descending(S.layer, S.ring))
              => /\ \A k \in 1..InsertPlace(S, t, mode, F) : S.layer[q[k]] >= S.layer[t]
                 /\ \A k \in (InsertPlace(S, t, mode, F) + 1)..Len(q) :
                      S.layer[q[k]] <= S.layer[t]
<1>1. S.ring \in Lists /\ IsInjective(S.ring) /\ S.layer \in Levels /\ t \in Windows
  BY Fields, ListPlaces DEF Fine
<1>2. q \in Lists /\ Len(q) \in Nat
  BY <1>1, WithoutDoes, ListPlaces
<1>3. S.layer[t] \in Int
  BY <1>1 DEF Levels
<1>4. CASE mode = "restack"
  <2> DEFINE below == Without(S.ring, F)
             i == Place(below, t) - 1
  <2>1. below \in Lists /\ IsInjective(below) /\ t \in ToSet(below)
    BY <1>1, WithoutDoes
  <2>2. q = Without(below, {t})
    BY <1>1, WithoutTwice
  <2>3. InsertPlace(S, t, mode, F) = i
    BY <1>4 DEF InsertPlace
  <2>4. Descending(S.layer, S.ring) => Descending(S.layer, below)
    BY <1>1, WithoutDescending
  <2> HIDE DEF below
  <2>5. /\ i + 1 \in 1..Len(below) /\ below[i + 1] = t /\ Len(q) = Len(below) - 1
        /\ \A j \in 1..i : q[j] = below[j]
        /\ \A j \in (i + 1)..Len(q) : q[j] = below[j + 1]
    <3> DEFINE k == Place(below, t)
    <3>1. /\ k \in 1..Len(below) /\ below[k] = t /\ Len(q) = Len(below) - 1
          /\ \A j \in 1..(k - 1) : q[j] = below[j]
          /\ \A j \in k..(Len(below) - 1) : q[j] = below[j + 1]
      <4>1. /\ k \in 1..Len(below) /\ below[k] = t
            /\ Len(Without(below, {t})) = Len(below) - 1
            /\ \A j \in 1..(k - 1) : Without(below, {t})[j] = below[j]
            /\ \A j \in k..(Len(below) - 1) : Without(below, {t})[j] = below[j + 1]
        BY <2>1, RemoveOne
      <4> HIDE DEF k
      <4> QED
        BY <2>2, <4>1
    <3> HIDE DEF k
    <3>2. (k - 1) + 1 = k
      BY <3>1
    <3> QED
      BY <3>1, <3>2 DEF k
  <2> HIDE DEF i
  <2>6. Len(below) \in Nat /\ DOMAIN below = 1..Len(below) /\ i \in Int
    <3>1. Len(below) \in Nat /\ DOMAIN below = 1..Len(below)
      BY <2>1, ListPlaces
    <3>2. Place(below, t) \in 1..Len(below)
      BY <2>1, PlaceIn
    <3> QED
      BY <3>1, <3>2 DEF i
  <2>7. i \in 0..Len(q)
    BY <2>5, <2>6
  <2>8. ASSUME Descending(S.layer, below)
        PROVE  /\ \A k \in 1..i : S.layer[q[k]] >= S.layer[t]
               /\ \A k \in (i + 1)..Len(q) : S.layer[q[k]] <= S.layer[t]
    <3>1. ASSUME NEW k \in 1..i PROVE S.layer[q[k]] >= S.layer[t]
      <4>1. k \in 1..Len(below) /\ k < i + 1
        BY <2>5, <2>6
      <4> QED
        BY <2>5, <2>6, <2>8, <4>1 DEF Descending
    <3>2. ASSUME NEW k \in (i + 1)..Len(q) PROVE S.layer[q[k]] <= S.layer[t]
      <4>1. k + 1 \in 1..Len(below) /\ i + 1 < k + 1 /\ q[k] = below[k + 1]
        <5>1. Len(q) = Len(below) - 1 /\ i + 1 >= 1
          BY <2>5, <2>6
        <5>2. k \in Int /\ k >= i + 1 /\ k <= Len(below) - 1
          BY <2>6, <5>1
        <5>3. k + 1 \in 1..Len(below) /\ i + 1 < k + 1
          BY <2>6, <5>1, <5>2
        <5>4. q[k] = below[k + 1]
          BY <2>5
        <5> QED
          BY <5>3, <5>4
      <4>2. S.layer[below[i + 1]] >= S.layer[below[k + 1]]
        BY <2>5, <2>6, <2>8, <4>1 DEF Descending
      <4>3. S.layer[below[k + 1]] \in Int
        BY <1>1, <2>1, <4>1, ListPlaces DEF Levels
      <4> QED
        BY <1>3, <2>5, <4>1, <4>2, <4>3
    <3> QED
      BY <3>1, <3>2
  <2> QED
    BY <1>4, <2>3, <2>4, <2>7, <2>8
<1>5. CASE mode # "restack"
  <2> DEFINE l == IF mode = "lower" THEN S.layer[t] - 1 ELSE S.layer[t]
             i == FirstAtMost(S, q, l)
  <2>1. InsertPlace(S, t, mode, F) = i
    BY <1>5 DEF InsertPlace, InsertAfter
  <2>2. l \in Int /\ (l = S.layer[t] - 1 \/ l = S.layer[t])
    BY <1>3
  <2> HIDE DEF l
  <2>3. /\ i \in 0..Len(q)
        /\ \A k \in 1..i : S.layer[q[k]] > l
        /\ Descending(S.layer, q) => \A k \in (i + 1)..Len(q) : S.layer[q[k]] <= l
    BY <1>1, <1>2, <2>2, FirstAtMostDoes
  <2>4. \A k \in 1..Len(q) : S.layer[q[k]] \in Int
    BY <1>1, <1>2, ListPlaces DEF Levels
  <2> HIDE DEF i
  <2>5. \A k \in 1..i : k \in 1..Len(q)
    BY <1>2, <2>3
  <2>6. \A k \in (i + 1)..Len(q) : k \in 1..Len(q)
    BY <1>2, <2>3
  <2>7. \A k \in 1..i : S.layer[q[k]] >= S.layer[t]
    <3> SUFFICES ASSUME NEW k \in 1..i PROVE S.layer[q[k]] >= S.layer[t]
      OBVIOUS
    <3>1. S.layer[q[k]] \in Int /\ S.layer[q[k]] > l
      BY <2>3, <2>4, <2>5
    <3> QED
      BY <1>3, <2>2, <3>1
  <2>8. Descending(S.layer, q) => \A k \in (i + 1)..Len(q) : S.layer[q[k]] <= S.layer[t]
    <3> SUFFICES ASSUME Descending(S.layer, q), NEW k \in (i + 1)..Len(q)
                 PROVE  S.layer[q[k]] <= S.layer[t]
      OBVIOUS
    <3>1. S.layer[q[k]] \in Int /\ S.layer[q[k]] <= l
      BY <2>3, <2>4, <2>6
    <3> QED
      BY <1>3, <2>2, <3>1
  <2> QED
    BY <2>1, <2>3, <2>7, <2>8
<1> QED
  BY <1>4, <1>5

\* A window of the ring that is put next to no window stands at its end.
LEMMA SpliceAbove ==
  ASSUME NEW q \in Lists, NEW p \in Lists, p # <<>>, NEW i \in 0..Len(q),
         NEW z, z = Splice(q, i, p), IsInjective(z),
         NEW r, r = IF i = 0 THEN None ELSE q[i],
         NEW s, s = IF i = Len(q) THEN None ELSE q[i + 1]
  PROVE  Above(z, r, s)
<1>1. /\ z \in Lists /\ ToSet(z) = ToSet(q) \cup ToSet(p)
      /\ Len(q) \in Nat /\ Len(p) \in Nat /\ ToSet(p) # {}
      /\ \A k \in 1..Len(q) : q[k] \in ToSet(q)
  <2>1. z \in Lists /\ ToSet(z) = ToSet(q) \cup ToSet(p)
    BY SpliceLists
  <2>2. Len(q) \in Nat /\ \A k \in 1..Len(q) : q[k] \in ToSet(q)
    BY ListPlaces
  <2>3. Len(p) \in Nat /\ ToSet(p) # {}
    BY ListPlaces
  <2> QED
    BY <2>1, <2>2, <2>3
<1>2. /\ Len(z) = Len(q) + Len(p)
      /\ \A j \in 1..i : z[j] = q[j]
      /\ \A j \in (i + 1)..Len(q) : z[j + Len(p)] = q[j]
  BY SplicePlaces
<1>3. z # <<>>
  BY <1>1, ShortLists
<1>4. r \in {None} \cup ToSet(z) /\ s \in {None} \cup ToSet(z)
  <2>1. i # 0 => i \in 1..Len(q)
    BY <1>1
  <2>2. i # Len(q) => i + 1 \in 1..Len(q)
    BY <1>1
  <2> QED
    BY <1>1, <2>1, <2>2
<1>5. r = None \/ s = None \/ Place(z, r) <= Place(z, s)
  <2>1. SUFFICES ASSUME r # None, s # None PROVE Place(z, r) <= Place(z, s)
    OBVIOUS
  <2>2. i \in 1..i /\ i \in 1..Len(z) /\ i + 1 \in (i + 1)..Len(q)
        /\ (i + 1) + Len(p) \in 1..Len(z) /\ i <= (i + 1) + Len(p)
    BY <1>1, <1>2, <2>1
  <2>3. z[i] = r /\ z[(i + 1) + Len(p)] = s
    BY <1>2, <2>1, <2>2
  <2>4. Place(z, z[i]) = i /\ Place(z, z[(i + 1) + Len(p)]) = (i + 1) + Len(p)
    BY <1>1, <2>2, PlaceIs
  <2> QED
    BY <2>2, <2>3, <2>4
<1> QED
  BY <1>1, <1>3, <1>4, <1>5, AboveSome

\* Windows that are not spliced in stay where they are among each other.
LEMMA SpliceOthers ==
  ASSUME NEW q \in Lists, NEW o \in Lists, NEW p \in Lists, NEW V, ToSet(p) \subseteq V,
         q = Without(o, ToSet(p)), NEW i \in 0..Len(q)
  PROVE  Without(Splice(q, i, p), V) = Without(o, V)
<1> DEFINE a == SubSeq(q, 1, i)
           b == SubSeq(q, i + 1, Len(q))
<1>0. \A c, d \in Lists : Without(c \o d, V) = Without(c, V) \o Without(d, V)
  BY WithoutJoins, Zenon
<1>1. a \in Lists /\ b \in Lists /\ q = a \o b
  BY SplitList
<1>2. Splice(q, i, p) = (a \o p) \o b
  BY DEF Splice
<1> HIDE DEF a, b
<1>3. a \o p \in Lists
  BY <1>1, JoinLists
<1>4. Without((a \o p) \o b, V) = Without(a \o p, V) \o Without(b, V)
  BY <1>0, <1>1, <1>3
<1>5. Without(a \o p, V) = Without(a, V) \o Without(p, V)
  BY <1>0, <1>1
<1>6. Without(p, V) = <<>> /\ Without(a, V) \in Lists
  BY <1>1, WithoutAll, WithoutDoes
<1>7. Without(a, V) \o <<>> = Without(a, V)
  BY <1>6, JoinAppend
<1>8. Without(q, V) = Without(a, V) \o Without(b, V)
  BY <1>0, <1>1
<1>9. Without(q, V) = Without(o, ToSet(p) \cup V)
  BY WithoutTwice
<1>10. ToSet(p) \cup V = V
  OBVIOUS
<1> QED
  BY <1>2, <1>4, <1>5, <1>6, <1>7, <1>8, <1>9, <1>10

-----------------------------------------------------------------------------
(* Restacking one window with its transients.                                *)

\* PositionNewWindow restacks such a window once more.
Skips(S, t, isNew) == isNew /\ IsTransient(S, t) /\ t \in StackParent /\ t \notin S.iconified

\* When the family F of t can go back into the ring q in the order of the layers.
KeepsFamily(S, q, F, t, mode) ==
  /\ \A v \in F : S.layer[v] = S.layer[t]
  /\ Descending(S.layer, q)
  /\ mode = "restack" => Descending(S.layer, S.ring)

\* What Reinsert does to S: it moves t and F in the ring, in the server and in the
\* published list alike, to where their layer is.
Reinserts(S, t, mode, F, isNew, T) ==
  /\ SameWindows(S, T) /\ T.marks = S.marks /\ T.grabbed = S.grabbed
  /\ (\A v \in F : S.layer[v] = S.layer[t]) => OthersStay(S, T, S.layer[t])
  /\ ~Skips(S, t, isNew) => T.published = T.ring /\ Serves(S, T)
  /\ (\A v \in F : S.layer[v] = S.layer[t]) => KeepsLayers(S, T)
  /\ F = {} /\ mode # "restack" /\ Descending(S.layer, Without(S.ring, {t}))
       => Descending(T.layer, T.ring)

\* The rest of __restack_window does what Reinserts says.
LEMMA ReinsertDoes ==
  ASSUME NEW S, Fine(S), NEW t \in ToSet(S.ring), NEW mode,
         NEW F \in SUBSET (ToSet(S.ring) \ {t}), NEW rank \in Levels, NEW isNew
  PROVE  Reinserts(S, t, mode, F, isNew, Reinsert(S, t, mode, F, rank, isNew))
<1> DEFINE f == SortTransients(S, F, rank)
           p == Append(f, t)
           q == Without(S.ring, F \cup {t})
           i == InsertPlace(S, t, mode, F)
           r == IF i = 0 THEN None ELSE q[i]
           s == IF i = Len(q) THEN None ELSE q[i + 1]
           z == Splice(q, i, p)
           R == [S EXCEPT !.ring = z]
           T == Reinsert(S, t, mode, F, rank, isNew)
           L == RestackWindowList(R, r, p, s, F # {}, mode = "lower")
<1>1. /\ S \in States /\ S.ring \in Lists /\ IsInjective(S.ring) /\ S.layer \in Levels
      /\ t \in Windows /\ S.x \in Lists
  BY Fields, ListPlaces DEF Fine
<1>2. /\ p \in Lists /\ p # <<>> /\ IsInjective(p) /\ ToSet(p) = F \cup {t}
  <2>1. f \in Lists /\ ToSet(f) = F /\ IsInjective(f)
    BY <1>1, SortTransientsDoes
  <2> HIDE DEF f
  <2>2. p \in Lists /\ ToSet(p) = ToSet(f) \cup {t}
    BY <1>1, <2>1, AppendList
  <2>3. IsInjective(p)
    BY <1>1, <2>1, AppendOnce
  <2> HIDE DEF p
  <2>4. p # <<>>
    BY <2>2, ShortLists
  <2> QED
    BY <2>1, <2>2, <2>3, <2>4
<1>3. q \in Lists /\ IsInjective(q) /\ ToSet(q) = ToSet(S.ring) \ (F \cup {t})
  BY <1>1, WithoutDoes
<1>4. /\ i \in 0..Len(q)
      /\ Descending(S.layer, q) /\ (mode = "restack" => Descending(S.layer, S.ring))
           => /\ \A k \in 1..i : S.layer[q[k]] >= S.layer[t]
              /\ \A k \in (i + 1)..Len(q) : S.layer[q[k]] <= S.layer[t]
  BY InsertPlaceDoes
<1>5. T = IF Skips(S, t, isNew) THEN R ELSE L
  BY Zenon DEF Reinsert, Skips, InsertPlace
<1>5a. q = Without(S.ring, ToSet(p))
  BY <1>2
<1>5b. r = (IF i = 0 THEN None ELSE q[i]) /\ s = (IF i = Len(q) THEN None ELSE q[i + 1])
  OBVIOUS
<1> HIDE DEF p, q, i, r, s, L
<1>6. z \in Lists /\ ToSet(z) = ToSet(S.ring) /\ IsInjective(z)
  <2>1. /\ z \in Lists /\ ToSet(z) = ToSet(q) \cup ToSet(p)
        /\ IsInjective(q) /\ IsInjective(p) /\ ToSet(q) \cap ToSet(p) = {} => IsInjective(z)
    BY <1>2, <1>3, <1>4, SpliceLists
  <2>2. t \in ToSet(S.ring) /\ F \subseteq ToSet(S.ring)
    OBVIOUS
  <2> HIDE DEF z
  <2> QED
    BY <1>2, <1>3, <2>1, <2>2
<1>7. Above(z, r, s)
  BY <1>2, <1>3, <1>4, <1>5b, <1>6, SpliceAbove
<1>8. /\ r \in {None} \cup (ToSet(S.ring) \ ToSet(p))
      /\ s \in {None} \cup (ToSet(S.ring) \ ToSet(p))
  <2>1. /\ i # 0 => i \in 1..Len(q)
        /\ i # Len(q) => i + 1 \in 1..Len(q)
    BY <1>3, <1>4, ListPlaces
  <2>2. \A k \in 1..Len(q) : q[k] \in ToSet(q)
    BY <1>3, ListPlaces
  <2> QED
    BY <1>2, <1>3, <1>5b, <2>1, <2>2
<1>9. /\ Descending(S.layer, q) /\ (mode = "restack" => Descending(S.layer, S.ring))
      /\ \A v \in F : S.layer[v] = S.layer[t]
      => Descending(S.layer, z)
  <2>2. S.layer[t] \in Int
    BY <1>1 DEF Levels
  <2>3. SUFFICES ASSUME Descending(S.layer, q),
                        mode = "restack" => Descending(S.layer, S.ring),
                        \A v \in F : S.layer[v] = S.layer[t]
                 PROVE  Descending(S.layer, z)
    OBVIOUS
  <2>4. \A v \in ToSet(p) : S.layer[v] = S.layer[t]
    BY <1>2, <2>3
  <2> QED
    BY <1>1, <1>2, <1>3, <1>4, <2>2, <2>3, <2>4, SpliceDescending
<1>10a. (\A v \in F : S.layer[v] = S.layer[t])
        => Without(z, OfLayer(S, S.layer[t])) = Without(S.ring, OfLayer(S, S.layer[t]))
  <2> DEFINE V == OfLayer(S, S.layer[t])
  <2>1. SUFFICES ASSUME \A v \in F : S.layer[v] = S.layer[t]
                 PROVE  Without(z, V) = Without(S.ring, V)
    OBVIOUS
  <2>2. ToSet(p) \subseteq V
    <3>1. ToSet(p) \subseteq Windows
      BY <1>2, ListPlaces
    <3> QED
      BY <1>2, <2>1, <3>1 DEF OfLayer
  <2> DEFINE o == S.ring
  <2>3. /\ q \in Lists /\ o \in Lists /\ p \in Lists /\ i \in 0..Len(q)
        /\ q = Without(o, ToSet(p))
    BY <1>1, <1>2, <1>3, <1>4, <1>5a
  <2> HIDE DEF V, o
  <2>4. Without(Splice(q, i, p), V) = Without(o, V)
    BY <2>2, <2>3, SpliceOthers, SMTT(30)
  <2> QED
    BY <2>4 DEF z, o
<1>10. S.x = S.ring => Placed(S.x, r, p, s, mode = "lower") = z
  <2>1. SUFFICES ASSUME S.x = S.ring PROVE Placed(S.ring, r, p, s, mode = "lower") = z
    OBVIOUS
  <2> DEFINE lower == mode = "lower"
  <2> HIDE DEF lower
  <2>2. Between(q, i, r, s)
    BY <1>4, <1>5b DEF Between
  <2>3. p \in Lists /\ p # <<>> /\ IsInjective(p)
    BY <1>2
  <2>4. Placed(S.ring, r, p, s, lower) = Splice(q, i, p)
    BY <1>1, <1>5a, <2>2, <2>3, PlacedExact
  <2> QED
    BY <2>4 DEF lower
<1> HIDE DEF z
<1>11. /\ R \in States /\ R.view = S.view /\ R.ring = z /\ R.layer = S.layer
       /\ R.parent = S.parent /\ R.iconified = S.iconified /\ R.byParent = S.byParent
       /\ R.mapped = S.mapped /\ R.x = S.x /\ R.published = S.published
       /\ R.grabbed = S.grabbed /\ R.marks = S.marks
  BY <1>1, <1>6 DEF States
<1> HIDE DEF R, T
<1>12. Fine(R)
  BY <1>6, <1>11 DEF Fine
<1>13. SameWindows(S, R)
  BY <1>6, <1>11, <1>12 DEF SameWindows
<1>14. /\ SameWindows(R, L) /\ L.ring = R.ring /\ L.published = L.ring
       /\ L.x = Placed(R.x, r, p, s, mode = "lower") /\ L.marks = R.marks
      /\ L.grabbed = R.grabbed
  <2>1. /\ ToSet(p) \subseteq ToSet(R.ring)
        /\ r \in {None} \cup (ToSet(R.ring) \ ToSet(p))
        /\ s \in {None} \cup (ToSet(R.ring) \ ToSet(p))
        /\ Above(R.ring, r, s)
    BY <1>2, <1>6, <1>7, <1>8, <1>11
  <2> QED
    BY <1>2, <1>12, <2>1, RestackWindowListDoes DEF L
<1>15. SameWindows(S, L)
  BY <1>13, <1>14, Transitive
<1>16. Serves(S, L)
  BY <1>10, <1>11, <1>14 DEF Serves
<1>17. /\ T.ring = z /\ SameWindows(S, T) /\ T.marks = S.marks /\ T.layer = S.layer
       /\ T.grabbed = S.grabbed
  BY <1>5, <1>11, <1>13, <1>14, <1>15 DEF SameWindows
<1>18. ~Skips(S, t, isNew) => T.published = T.ring /\ Serves(S, T)
  BY <1>5, <1>14, <1>16
<1>19. KeepsFamily(S, q, F, t, mode) => Descending(T.layer, T.ring)
  BY <1>9, <1>17 DEF KeepsFamily
<1>20. (\A v \in F : S.layer[v] = S.layer[t]) => KeepsLayers(S, T)
  <2>1. SUFFICES ASSUME \A v \in F : S.layer[v] = S.layer[t], Descending(S.layer, S.ring)
                 PROVE  Descending(T.layer, T.ring)
    BY DEF KeepsLayers
  <2>2. Descending(S.layer, q)
    BY <1>1, <2>1, WithoutDescending DEF q
  <2> QED
    BY <1>19, <2>1, <2>2 DEF KeepsFamily
<1>21. F = {} /\ mode # "restack" /\ Descending(S.layer, Without(S.ring, {t}))
       => Descending(T.layer, T.ring)
  <2>1. SUFFICES ASSUME F = {}, mode # "restack", Descending(S.layer, Without(S.ring, {t}))
                 PROVE  Descending(T.layer, T.ring)
    OBVIOUS
  <2>2. F \cup {t} = {t}
    BY <2>1
  <2>3. q = Without(S.ring, {t})
    BY <2>2 DEF q
  <2> QED
    BY <1>19, <2>1, <2>3 DEF KeepsFamily
<1>22a. (\A v \in F : S.layer[v] = S.layer[t]) => OthersStay(S, T, S.layer[t])
  BY <1>10a, <1>17 DEF OthersStay
<1>22. Reinserts(S, t, mode, F, isNew, T)
  BY <1>17, <1>22a, <1>18, <1>20, <1>21 DEF Reinserts
<1> QED
  BY <1>22 DEF T

\* The window above t and the first one below it that is not in M.
LEMMA AroundDoes ==
  ASSUME NEW q \in Lists, IsInjective(q), NEW t \in ToSet(q), NEW M,
         NEW under, under = Without(SubSeq(q, Place(q, t) + 1, Len(q)), M)
  PROVE  Above(q, PrevIn(q, t), IF under = <<>> THEN None ELSE under[1])
<1> DEFINE k == Place(q, t)
           b == SubSeq(q, k + 1, Len(q))
           s1 == PrevIn(q, t)
           s2 == IF under = <<>> THEN None ELSE under[1]
<1>1. k \in 1..Len(q) /\ q[k] = t /\ Len(q) \in Nat /\ q # <<>>
  BY PlaceIn, ListPlaces
<1> HIDE DEF k
<1>2. \A i \in 1..Len(q) : q[i] \in ToSet(q) /\ Place(q, q[i]) = i
  BY ListPlaces, PlaceIs
<1>3. s1 = None \/ (s1 \in ToSet(q) /\ Place(q, s1) <= k)
  <2>1. SUFFICES ASSUME t # q[1] PROVE s1 \in ToSet(q) /\ Place(q, s1) <= k
    BY DEF PrevIn
  <2>2. s1 = q[k - 1]
    BY <2>1 DEF PrevIn, k
  <2>3. k # 1
    BY <1>1, <2>1
  <2>4. k - 1 \in 1..Len(q) /\ k - 1 <= k
    BY <1>1, <2>3
  <2> HIDE DEF s1
  <2> QED
    BY <1>2, <2>2, <2>4
<1>4. s2 = None \/ (s2 \in ToSet(q) /\ k <= Place(q, s2))
  <2>1. SUFFICES ASSUME under # <<>> PROVE under[1] \in ToSet(q) /\ k <= Place(q, under[1])
    OBVIOUS
  <2>2. k \in 0..Len(q)
    BY <1>1
  <2>3. b \in Lists /\ \A w \in ToSet(b) : \E j \in (k + 1)..Len(q) : q[j] = w
    BY <2>2, SplitList
  <2> HIDE DEF b
  <2>4. under = Without(b, M)
    BY DEF b, k
  <2>5. under \in Lists /\ ToSet(under) \subseteq ToSet(b)
    BY <2>3, <2>4, WithoutDoes
  <2>6. under[1] \in ToSet(under)
    <3>1. Len(under) \in Nat /\ Len(under) # 0
      BY <2>1, <2>5, ListPlaces
    <3>2. 1 \in 1..Len(under)
      BY <3>1
    <3> QED
      BY <2>5, <3>2, ListPlaces
  <2>7. PICK j \in (k + 1)..Len(q) : q[j] = under[1]
    BY <2>3, <2>5, <2>6
  <2>8. j \in 1..Len(q) /\ k <= j
    BY <1>1, <2>7
  <2> QED
    BY <1>2, <2>7, <2>8
<1> HIDE DEF s1, s2
<1>5. s1 = None \/ s2 = None \/ Place(q, s1) <= Place(q, s2)
  <2>1. \A w \in ToSet(q) : Place(q, w) \in Int
    BY <1>1, PlaceIn
  <2> QED
    BY <1>1, <1>3, <1>4, <2>1
<1> QED
  BY <1>1, <1>3, <1>4, <1>5, AboveSome DEF s1, s2

\* A pass of marking from t that starts with the marks of C.
Pass(S, t, mode, C, base, M) ==
  /\ C = S \/ C = [S EXCEPT !.marks = NoMarks]
  /\ base = MarkBase(C, InLayer(S, S.layer[t]))
  /\ M = MarkSubtree(S, base, t, InLayer(S, S.layer[t]), mode, TRUE)

\* The windows it marks.
PassMarks(S, t, C, base, M) ==
  /\ t \in M /\ M \subseteq ToSet(S.ring) /\ base.linked \in SUBSET Windows
  /\ C.marks.kept = FALSE => \A v \in M : S.layer[v] = S.layer[t]

\* Marks that were kept are those of windows of any layer; marks of a new pass
\* are in the layer of t.
LEMMA MarksOfPass ==
  ASSUME NEW S, Fine(S), NEW t \in ToSet(S.ring), NEW mode, NEW C, NEW base, NEW M,
         Pass(S, t, mode, C, base, M)
  PROVE  PassMarks(S, t, C, base, M)
<1> DEFINE W == InLayer(S, S.layer[t])
<1>1. S \in States /\ S.marks \in Marks /\ S.marks.in \subseteq ToSet(S.ring)
      /\ ToSet(S.ring) \subseteq Windows
  BY Fields, ListPlaces DEF Fine
<1>2. C.marks \in Marks /\ C.marks.in \subseteq ToSet(S.ring)
  <2>1. CASE C = S
    BY <1>1, <2>1
  <2>2. CASE C = [S EXCEPT !.marks = NoMarks]
    BY <2>2, CleanDoes, NoMarksType
  <2> QED
    BY <2>1, <2>2 DEF Pass
<1>3. W \subseteq ToSet(S.ring) /\ \A v \in W : S.layer[v] = S.layer[t]
  BY DEF InLayer
<1> HIDE DEF W
<1>4. /\ base.in \subseteq ToSet(S.ring) /\ base.linked \in SUBSET Windows
      /\ C.marks.kept = FALSE => base.in = {}
  <2>1. CASE C.marks.kept = TRUE
    <3>1. base = C.marks
      BY <2>1 DEF MarkBase, Pass
    <3> QED
      BY <1>2, <2>1, <3>1 DEF Marks
  <2>2. CASE C.marks.kept = FALSE
    <3>1. base = [kept |-> FALSE, in |-> {},
                  linked |-> {w \in W : TransientFor(C, w) # None}]
      BY <2>2 DEF MarkBase, W, Pass
    <3>2. base.in = {} /\ base.linked = {w \in W : TransientFor(C, w) # None}
      BY <3>1
    <3> QED
      BY <1>1, <1>3, <3>2
  <2> QED
    BY <1>2, <2>1, <2>2 DEF Marks
<1>5. base.in \cup {t} \subseteq M /\ M \subseteq base.in \cup {t} \cup W
  <2>1. ASSUME NEW icons
        PROVE  /\ base.in \cup {t} \subseteq MarkSubtree(S, base, t, W, mode, icons)
               /\ MarkSubtree(S, base, t, W, mode, icons) \subseteq base.in \cup {t} \cup W
    BY MarkSubtreeDoes
  <2>2. M = MarkSubtree(S, base, t, W, mode, TRUE)
    BY DEF W, Pass
  <2> QED
    BY <2>1, <2>2, Zenon
<1> QED
  BY <1>3, <1>4, <1>5 DEF PassMarks

\* The branches of RestackWindow1.
Straightened(S, t, base, M) ==
  LET under == Without(SubSeq(S.ring, Place(S.ring, t) + 1, Len(S.ring)), M)
  IN BroadcastRestack(
       [S EXCEPT !.marks = [kept |-> TRUE, in |-> M, linked |-> base.linked]],
       PrevIn(S.ring, t), IF under = <<>> THEN None ELSE under[1])

\* A subtree that is in its place is announced, and its marks are kept.
LEMMA StraightenedDoes ==
  ASSUME NEW S, Fine(S), NEW t \in ToSet(S.ring), NEW M \in SUBSET ToSet(S.ring),
         NEW base, base.linked \in SUBSET Windows
  PROVE  LET T == Straightened(S, t, base, M)
         IN /\ SameWindows(S, T) /\ T.ring = S.ring /\ T.x = S.x /\ T.published = S.published
            /\ T.grabbed = S.grabbed
<1> DEFINE m == [kept |-> TRUE, in |-> M, linked |-> base.linked]
           K == [S EXCEPT !.marks = m]
           under == Without(SubSeq(S.ring, Place(S.ring, t) + 1, Len(S.ring)), M)
           s1 == PrevIn(S.ring, t)
           s2 == IF under = <<>> THEN None ELSE under[1]
           T == BroadcastRestack(K, s1, s2)
<1>1. S.ring \in Lists /\ IsInjective(S.ring) /\ ToSet(S.ring) \subseteq Windows
  BY Fields, ListPlaces DEF Fine
<1>2. m \in Marks /\ m.in = M
  BY <1>1 DEF Marks
<1> HIDE DEF m
<1>3. /\ SameWindows(S, K) /\ K.ring = S.ring /\ K.x = S.x /\ K.published = S.published
      /\ K.grabbed = S.grabbed
  BY <1>2, MarksDo
<1> HIDE DEF K
<1>4. Above(S.ring, s1, s2)
  <2> DEFINE u == Without(SubSeq(S.ring, Place(S.ring, t) + 1, Len(S.ring)), M)
  <2> HIDE DEF u
  <2>1. u = Without(SubSeq(S.ring, Place(S.ring, t) + 1, Len(S.ring)), M)
    BY DEF u
  <2>2. Above(S.ring, PrevIn(S.ring, t), IF u = <<>> THEN None ELSE u[1])
    BY <1>1, <2>1, AroundDoes
  <2> QED
    BY <2>2 DEF u
<1> HIDE DEF s1, s2
<1>5. Fine(K) /\ Above(K.ring, s1, s2)
  BY <1>3, <1>4 DEF SameWindows
<1>6. Still(K, T) /\ T.grabbed = K.grabbed
  BY <1>5, BroadcastDoes
<1> HIDE DEF T
<1>7. /\ SameWindows(S, T) /\ T.ring = S.ring /\ T.x = S.x /\ T.published = S.published
      /\ T.grabbed = S.grabbed
  BY <1>3, <1>6, Transitive DEF Still
<1> QED
  BY <1>7, Zenon DEF T, K, m, s1, s2, Straightened

\* What restacking windows of layer l with their transients does.
Restacks(S, T, mode, l) ==
  /\ SameWindows(S, T) /\ Publishes(S, T) /\ Serves(S, T)
  /\ mode # "restack" \/ S.marks.kept = FALSE => KeepsLayers(S, T) /\ OthersStay(S, T, l)
  /\ mode = "restack" /\ S.marks.kept = FALSE => T.marks.kept = FALSE

\* __restack_window keeps the windows, and moves them in the server as in the ring.
LEMMA RestackWindow1Does ==
  ASSUME NEW S, Fine(S), NEW t \in ToSet(S.ring), NEW mode, NEW bonus \in Levels
  PROVE  /\ Restacks(S, RestackWindow1(S, t, mode, bonus, FALSE), mode, S.layer[t])
         /\ RestackWindow1(S, t, mode, bonus, FALSE).grabbed = S.grabbed
<1> DEFINE W == InLayer(S, S.layer[t])
           C == [S EXCEPT !.marks = NoMarks]
           D == IF mode = "restack" THEN S ELSE C
           base == MarkBase(D, W)
           M == MarkSubtree(S, base, t, W, mode, TRUE)
           F == M \ {t}
           none == {}
           old == FALSE
           rank == Ranks(S, base.in \cup {t}, bonus)
           move == MustMoveTransients(S, t, mode)
           straight == mode # "restack" /\ IsSubtreeStraight(S, t, mode, M, rank)
           placed == \/ mode = "raise" /\ PrevIn(S.ring, t) \notin W
                     \/ mode = "lower" /\ NextIn(S.ring, t) \notin W
           T == RestackWindow1(S, t, mode, bonus, FALSE)
<1>1. T = IF move /\ straight THEN Straightened(S, t, base, M)
          ELSE IF move THEN Reinsert(C, t, mode, F, rank, old)
          ELSE IF placed THEN S ELSE Reinsert(S, t, mode, none, rank, old)
  BY Zenon DEF RestackWindow1, Straightened
<1>2. rank \in Levels
  BY RanksType
<1>3. /\ t \in M /\ M \subseteq ToSet(S.ring) /\ base.linked \in SUBSET Windows
      /\ D.marks.kept = FALSE => \A v \in M : S.layer[v] = S.layer[t]
  <2> HIDE DEF D, base, M
  <2>1. D = S \/ D = C
    BY DEF D
  <2>2. Pass(S, t, mode, D, base, M)
    BY <2>1, Zenon DEF Pass, base, M
  <2>3. PassMarks(S, t, D, base, M)
    BY <2>2, MarksOfPass
  <2> QED
    BY <2>3 DEF PassMarks
<1>4. /\ Still(S, C) /\ C.marks = NoMarks /\ C.marks.kept = FALSE
      /\ C.grabbed = S.grabbed
  BY CleanDoes, NoMarksType
<1>5. D = (IF mode = "restack" THEN S ELSE C)
  BY DEF D
<1> DEFINE l == S.layer[t]
<1>6. SUFFICES Restacks(S, T, mode, l) /\ T.grabbed = S.grabbed
  OBVIOUS
<1> HIDE DEF C, D, base, M, rank, move, straight, placed, T, W, old
<1>7. mode # "restack" \/ S.marks.kept = FALSE => \A v \in M : S.layer[v] = S.layer[t]
  BY <1>3, <1>4, <1>5
<1>8. ~Skips(C, t, old) /\ ~Skips(S, t, old)
  BY DEF Skips, old
<1>9. CASE T = Straightened(S, t, base, M) /\ straight
  <2>1. /\ SameWindows(S, T) /\ T.ring = S.ring /\ T.x = S.x /\ T.published = S.published
        /\ T.grabbed = S.grabbed
    BY <1>3, <1>9, StraightenedDoes
  <2>2. mode # "restack"
    BY <1>9 DEF straight
  <2>3. Publishes(S, T) /\ Serves(S, T) /\ KeepsLayers(S, T) /\ OthersStay(S, T, l)
    BY <2>1 DEF SameWindows, Publishes, Serves, KeepsLayers, OthersStay
  <2> QED
    BY <2>1, <2>2, <2>3 DEF Restacks
<1>10. CASE T = Reinsert(C, t, mode, F, rank, old)
  <2>1. Fine(C) /\ C.ring = S.ring /\ C.layer = S.layer
    BY <1>4 DEF Still, SameWindows
  <2>2. t \in ToSet(C.ring) /\ F \in SUBSET (ToSet(C.ring) \ {t})
    BY <1>3, <2>1
  <2> HIDE DEF F
  <2>2a. Reinserts(C, t, mode, F, old, T)
    BY <1>2, <1>10, <2>1, <2>2, ReinsertDoes
  <2>3. /\ SameWindows(C, T) /\ T.marks = C.marks
        /\ ~Skips(C, t, old) => T.published = T.ring /\ Serves(C, T)
        /\ (\A v \in F : C.layer[v] = C.layer[t])
             => KeepsLayers(C, T) /\ OthersStay(C, T, C.layer[t])
        /\ T.grabbed = C.grabbed
    BY <2>2a DEF Reinserts
  <2>4. SameWindows(S, T) /\ Serves(S, T)
    BY <1>4, <1>8, <2>3, StillDoes, Transitive
  <2>5. mode # "restack" \/ S.marks.kept = FALSE
        => KeepsLayers(S, T) /\ OthersStay(S, T, l)
    <3>1. SUFFICES ASSUME mode # "restack" \/ S.marks.kept = FALSE
                   PROVE  KeepsLayers(S, T) /\ OthersStay(S, T, l)
      OBVIOUS
    <3>2. \A v \in F : S.layer[v] = S.layer[t]
      BY <1>7, <3>1 DEF F
    <3> QED
      BY <2>1, <2>3, <3>2 DEF KeepsLayers, OthersStay, OfLayer
  <2>6. Publishes(S, T) /\ T.marks.kept = FALSE /\ T.grabbed = S.grabbed
    BY <1>4, <1>8, <2>3 DEF Publishes
  <2> QED
    BY <2>4, <2>5, <2>6 DEF Restacks
<1>11. CASE T = S
  BY <1>11, StillSame, StillDoes DEF Restacks, OthersStay
<1>12. CASE T = Reinsert(S, t, mode, none, rank, old)
  <2>1. none \in SUBSET (ToSet(S.ring) \ {t}) /\ \A v \in none : S.layer[v] = S.layer[t]
    OBVIOUS
  <2> HIDE DEF none
  <2>2. /\ SameWindows(S, T) /\ T.marks = S.marks
        /\ ~Skips(S, t, old) => T.published = T.ring /\ Serves(S, T)
        /\ (\A v \in none : S.layer[v] = S.layer[t])
             => KeepsLayers(S, T) /\ OthersStay(S, T, l)
        /\ T.grabbed = S.grabbed
    <3>1. Reinserts(S, t, mode, none, old, T)
      BY <1>2, <1>12, <2>1, ReinsertDoes
    <3> QED
      BY <3>1 DEF Reinserts
  <2>3. Publishes(S, T)
    BY <1>8, <2>2 DEF Publishes
  <2> QED
    BY <1>8, <2>1, <2>2, <2>3 DEF Restacks
<1> QED
  BY <1>1, <1>9, <1>10, <1>11, <1>12

\* A window that has just been put on top of the ring goes into its layer.
LEMMA NewWindowDoes ==
  ASSUME NEW S, Fine(S), NEW t \in ToSet(S.ring), NEW mode, mode # "restack",
         NEW bonus \in Levels, NEW T, T = RestackWindow1(S, t, mode, bonus, TRUE),
         NEW isNew, isNew = TRUE
  PROVE  /\ SameWindows(S, T)
         /\ ~Skips(S, t, isNew) => T.published = T.ring /\ Serves(S, T)
         /\ Descending(S.layer, Without(S.ring, {t})) => Descending(T.layer, T.ring)
<1> DEFINE W == InLayer(S, S.layer[t])
           C == [S EXCEPT !.marks = NoMarks]
           base == MarkBase(IF mode = "restack" THEN S ELSE C, W)
           rank == Ranks(S, base.in \cup {t}, bonus)
           none == {}
<1>1. T = Reinsert(S, t, mode, none, rank, isNew)
  BY Zenon DEF RestackWindow1
<1>2. rank \in Levels
  BY RanksType
<1> HIDE DEF rank
<1>3. none \in SUBSET (ToSet(S.ring) \ {t}) /\ none = {}
  OBVIOUS
<1> HIDE DEF none
<1>4. Reinserts(S, t, mode, none, isNew, T)
  BY <1>1, <1>2, <1>3, ReinsertDoes
<1> QED
  BY <1>3, <1>4 DEF Reinserts

\* What a window is transient for, if it is managed.
LEMMA ParentsManaged ==
  ASSUME NEW S, NEW w, TransientFor(S, w) # None
  PROVE  S.parent[w] \in ToSet(S.ring)
BY DEF TransientFor

\* One step of Branch.
BranchNext(S, q) == IF Climbs(S, q[1]) THEN <<S.parent[q[1]]>> \o q ELSE q
BranchStep(S, t, up, n) == IF n = 0 THEN <<t>> ELSE BranchNext(S, up[n - 1])

\* The windows that are restacked one after the other are managed.
LEMMA BranchDoes ==
  ASSUME NEW S, Fine(S), NEW t \in ToSet(S.ring)
  PROVE  /\ Branch(S, t) \in Lists /\ Branch(S, t) # <<>>
         /\ ToSet(Branch(S, t)) \subseteq InLayer(S, S.layer[t])
<1> DEFINE m == Cardinality(Windows)
           T == {q \in Lists : q # <<>> /\ ToSet(q) \subseteq InLayer(S, S.layer[t])}
<1>0. S.ring \in Lists /\ ToSet(S.ring) \subseteq Windows
  BY Fields, ListPlaces DEF Fine
<1>1. m \in Nat
  BY WindowsAssumption, FS_CardinalityType
<1>2. <<t>> \in T
  <2>1. <<t>> \in Lists /\ ToSet(<<t>>) = {t}
    BY <1>0, ShortLists
  <2>2. <<t>> # <<>>
    BY <2>1, ShortLists
  <2>3. t \in InLayer(S, S.layer[t])
    BY DEF InLayer
  <2> QED
    BY <2>1, <2>2, <2>3
<1>3. ASSUME NEW R \in T, NEW n \in 1..m PROVE BranchNext(S, R) \in T
  <2>1. CASE Climbs(S, R[1])
    <3> DEFINE p == S.parent[R[1]]
    <3>1. p \in InLayer(S, S.layer[t])
      <4>1. R[1] \in InLayer(S, S.layer[t])
        <5>1. R \in Lists /\ R # <<>>
          OBVIOUS
        <5>2. R[1] \in ToSet(R)
          BY <5>1, TailList
        <5> QED
          BY <5>2
      <4>2. TransientFor(S, R[1]) # None /\ S.layer[TransientFor(S, R[1])] = S.layer[R[1]]
        BY <2>1, Zenon DEF Climbs
      <4>3. p \in ToSet(S.ring) /\ TransientFor(S, R[1]) = p
        BY <4>2 DEF TransientFor
      <4> QED
        BY <4>1, <4>2, <4>3 DEF InLayer
    <3>1a. p \in ToSet(S.ring)
      BY <3>1 DEF InLayer
    <3>2. BranchNext(S, R) = <<p>> \o R
      BY <2>1 DEF BranchNext
    <3> HIDE DEF p
    <3>3. <<p>> \in Lists /\ ToSet(<<p>>) = {p}
      BY <1>0, <3>1a, ShortLists
    <3>4. <<p>> \o R \in Lists /\ ToSet(<<p>> \o R) = {p} \cup ToSet(R)
      BY <3>3, JoinLists
    <3>5. <<p>> \o R # <<>>
      BY <3>4, ShortLists
    <3> QED
      BY <3>1, <3>2, <3>4, <3>5
  <2>2. CASE ~Climbs(S, R[1])
    BY <2>2 DEF BranchNext
  <2> QED
    BY <2>1, <2>2
<1> DEFINE g == [n \in 1..m |-> [R \in T |-> BranchNext(S, R)]]
           k == CHOOSE d : d = [n \in 0..m |-> BranchStep(S, t, d, n)]
<1>4. PICK h \in [0..m -> T] : h[0] = <<t>> /\ \A n \in 1..m : h[n] = g[n][h[n - 1]]
  <2>1. g \in [1..m -> [T -> T]]
    <3> HIDE DEF T, m
    <3> QED
      BY <1>3
  <2>2. m \in Nat
    BY <1>1
  <2> HIDE DEF g, m, T
  <2>3. ASSUME NEW A \in T
        PROVE  \E h \in [0..m -> T] : h[0] = A /\ \A n \in 1..m : h[n] = g[n][h[n - 1]]
    BY <2>1, <2>2, Recursion
  <2> QED
    BY <1>2, <2>3
<1>5. h = [n \in 0..m |-> BranchStep(S, t, h, n)]
  <2>1. ASSUME NEW n \in 0..m PROVE h[n] = BranchStep(S, t, h, n)
    <3>1. CASE n = 0
      BY <1>4, <3>1 DEF BranchStep
    <3>2. CASE n # 0
      <4>1. n \in 1..m /\ n - 1 \in 0..m
        BY <1>1, <3>2
      <4>2. h[n - 1] \in T /\ h[n] = g[n][h[n - 1]]
        <5> HIDE DEF g, m, T
        <5> QED
          BY <1>4, <4>1
      <4>3. g[n][h[n - 1]] = BranchNext(S, h[n - 1])
        <5> HIDE DEF T, m
        <5> QED
          BY <4>1, <4>2
      <4> HIDE DEF g, m, T
      <4> QED
        BY <3>2, <4>2, <4>3 DEF BranchStep
    <3> QED
      BY <3>1, <3>2
  <2> QED
    BY <2>1
<1>6. k = [n \in 0..m |-> BranchStep(S, t, k, n)]
  BY <1>5, Zenon
<1>7. Branch(S, t) = k[m]
  BY Zenon DEF Branch, BranchStep, BranchNext
<1> HIDE DEF k, g
<1>8. k[0] = <<t>> /\ \A n \in 1..m : k[n] = BranchNext(S, k[n - 1])
  <2>1. 0 \in 0..m /\ \A n \in 1..m : n \in 0..m /\ n # 0
    BY <1>1
  <2> HIDE DEF m
  <2> QED
    BY <1>6, <2>1 DEF BranchStep
<1>9. k[m] \in T
  <2>1. m \in Nat /\ m \in 0..m
    BY <1>1
  <2>2. k[0] \in T /\ \A n \in 1..m : k[n - 1] \in T => k[n] \in T
    <3> HIDE DEF T, m
    <3> QED
      BY <1>2, <1>3, <1>8
  <2> HIDE DEF T, m
  <2>3. \A n \in 0..m : k[n] \in T
    BY <2>1, <2>2, Along
  <2> QED
    BY <2>1, <2>3
<1> QED
  BY <1>7, <1>9 DEF T

\* The bonus of a window of the branch is a number.
LEMMA BonusType ==
  ASSUME NEW S, NEW branch, NEW mode
  PROVE  Bonus(S, branch, mode) \in Levels
BY DEF Bonus, Levels, LowerPenalty, MaxTransientsInBranch

\* Restacking one window after another is restacking.
LEMMA RestacksTwice ==
  ASSUME NEW R, NEW S, NEW T, NEW mode, NEW l,
         Restacks(R, S, mode, l), Restacks(S, T, mode, l)
  PROVE  Restacks(R, T, mode, l)
<1>1. SameWindows(R, T) /\ Publishes(R, T) /\ Serves(R, T)
  BY Transitive DEF Restacks
<1>2. mode # "restack" \/ R.marks.kept = FALSE => KeepsLayers(R, T) /\ OthersStay(R, T, l)
  BY Transitive DEF Restacks, OthersStay, OfLayer, SameWindows
<1> QED
  BY <1>1, <1>2 DEF Restacks

\* One step of RaiseOrLowerWindow.
RaiseNext(S, branch, mode, R, w) ==
  IF w # branch[1] /\ Moves(S.parent[w], mode) THEN R
  ELSE RestackWindow1(R, w, mode, Bonus(S, branch, mode), FALSE)
RaiseStep(S, branch, mode, done, n) ==
  IF n = 0 THEN S ELSE RaiseNext(S, branch, mode, done[n - 1], branch[n])

\* Restacking a branch of transients, from the top of the family downwards.
LEMMA RaiseOrLowerDoes ==
  ASSUME NEW S, Fine(S), NEW t \in ToSet(S.ring), NEW mode
  PROVE  /\ Restacks(S, RaiseOrLowerWindow(S, t, mode), mode, S.layer[t])
         /\ RaiseOrLowerWindow(S, t, mode).grabbed = S.grabbed
<1> DEFINE branch == Branch(S, t)
           m == Len(branch)
           l == S.layer[t]
           T == {R \in States : Restacks(S, R, mode, l) /\ R.grabbed = S.grabbed}
<1>0. /\ branch \in Lists /\ ToSet(branch) \subseteq ToSet(S.ring)
      /\ \A w \in ToSet(branch) : S.layer[w] = l
  BY BranchDoes DEF InLayer
<1> HIDE DEF branch
<1>1. m \in Nat
  BY <1>0, ListPlaces
<1>2. S \in T
  <2>1. Restacks(S, S, mode, l)
    BY StillSame, StillDoes DEF Restacks, OthersStay
  <2> QED
    BY <2>1 DEF Fine
<1>3. ASSUME NEW R \in T, NEW n \in 1..m PROVE RaiseNext(S, branch, mode, R, branch[n]) \in T
  <2>1. branch[n] \in ToSet(S.ring) /\ S.layer[branch[n]] = l
    BY <1>0, ListPlaces
  <2>2. Restacks(S, R, mode, l) /\ R.grabbed = S.grabbed
    OBVIOUS
  <2> DEFINE w == branch[n]
             Q == RestackWindow1(R, w, mode, Bonus(S, branch, mode), FALSE)
  <2>3. Fine(R) /\ w \in ToSet(R.ring) /\ R.layer[w] = l
    BY <2>1, <2>2 DEF Restacks, SameWindows
  <2> HIDE DEF w
  <2>4. Restacks(R, Q, mode, l) /\ Q.grabbed = R.grabbed
    BY <2>3, BonusType, RestackWindow1Does
  <2> HIDE DEF Q
  <2>5. Restacks(S, Q, mode, l) /\ Q.grabbed = S.grabbed
    BY <2>2, <2>4, RestacksTwice
  <2>6. Q \in States
    BY <2>5 DEF Restacks, SameWindows, Fine
  <2>7. RaiseNext(S, branch, mode, R, w) \in {R, Q}
    BY Zenon DEF RaiseNext, Q
  <2> QED
    BY <2>5, <2>6, <2>7 DEF w
<1> DEFINE g == [n \in 1..m |-> [R \in T |-> RaiseNext(S, branch, mode, R, branch[n])]]
           k == CHOOSE d : d = [n \in 0..m |-> RaiseStep(S, branch, mode, d, n)]
<1>4. PICK h \in [0..m -> T] : h[0] = S /\ \A n \in 1..m : h[n] = g[n][h[n - 1]]
  <2>1. g \in [1..m -> [T -> T]]
    <3> HIDE DEF T, m
    <3> QED
      BY <1>3
  <2>2. m \in Nat
    BY <1>1
  <2> HIDE DEF g, m, T
  <2>3. ASSUME NEW A \in T
        PROVE  \E h \in [0..m -> T] : h[0] = A /\ \A n \in 1..m : h[n] = g[n][h[n - 1]]
    BY <2>1, <2>2, Recursion
  <2> QED
    BY <1>2, <2>3
<1>5. h = [n \in 0..m |-> RaiseStep(S, branch, mode, h, n)]
  <2>1. ASSUME NEW n \in 0..m PROVE h[n] = RaiseStep(S, branch, mode, h, n)
    <3>1. CASE n = 0
      BY <1>4, <3>1 DEF RaiseStep
    <3>2. CASE n # 0
      <4>1. n \in 1..m /\ n - 1 \in 0..m
        BY <1>1, <3>2
      <4>2. h[n - 1] \in T /\ h[n] = g[n][h[n - 1]]
        <5> HIDE DEF g, m, T
        <5> QED
          BY <1>4, <4>1
      <4>3. g[n][h[n - 1]] = RaiseNext(S, branch, mode, h[n - 1], branch[n])
        <5> HIDE DEF T, m
        <5> QED
          BY <4>1, <4>2
      <4> HIDE DEF g, m, T
      <4> QED
        BY <3>2, <4>2, <4>3 DEF RaiseStep
    <3> QED
      BY <3>1, <3>2
  <2> QED
    BY <2>1
<1>6. k = [n \in 0..m |-> RaiseStep(S, branch, mode, k, n)]
  BY <1>5, Zenon
<1>7. RaiseOrLowerWindow(S, t, mode) = k[m]
  BY Zenon DEF RaiseOrLowerWindow, RaiseStep, RaiseNext, branch
<1> HIDE DEF k, g
<1>8. k[0] = S /\ \A n \in 1..m : k[n] = RaiseNext(S, branch, mode, k[n - 1], branch[n])
  <2>1. 0 \in 0..m /\ \A n \in 1..m : n \in 0..m /\ n # 0
    BY <1>1
  <2> HIDE DEF m
  <2> QED
    BY <1>6, <2>1 DEF RaiseStep
<1>9. k[m] \in T
  <2>1. m \in Nat /\ m \in 0..m
    BY <1>1
  <2>2. k[0] \in T /\ \A n \in 1..m : k[n - 1] \in T => k[n] \in T
    <3> HIDE DEF T, m
    <3> QED
      BY <1>2, <1>3, <1>8
  <2> HIDE DEF T, m
  <2>3. \A n \in 0..m : k[n] \in T
    BY <2>1, <2>2, Along
  <2> QED
    BY <2>1, <2>3
<1> QED
  BY <1>7, <1>9 DEF T

-----------------------------------------------------------------------------
(* The commands.                                                             *)

\* What all of them do, whatever they do to flags and layers.
Keeps(S, T) ==
  /\ Fine(T) /\ ToSet(T.ring) = ToSet(S.ring)
  /\ Publishes(S, T) /\ Serves(S, T) /\ KeepsLayers(S, T)

\* No window becomes an icon or ceases to be one, or another's transient.
SameFlags(S, T) ==
  /\ T.parent = S.parent /\ T.iconified = S.iconified /\ T.byParent = S.byParent
  /\ T.mapped = S.mapped

\* What IconsReachable says of a state.
Reachable(S) ==
  \A u \in S.byParent : u \in S.iconified /\ S.parent[u] \in S.iconified

\* Grabbing buttons changes no such flag.
LEMMA GrabsFlags ==
  ASSUME NEW S, NEW T, Fine(T), SameFlags(S, T), NEW l
  PROVE  SameFlags(S, FocusGrabButtonsOnLayer(T, l))
<1>1. Still(T, FocusGrabButtonsOnLayer(T, l))
  BY GrabsDo
<1> QED
  BY <1>1 DEF Still, SameWindows, SameFlags

\* Two operations that keep all in order do so together.
LEMMA KeepsTwice ==
  ASSUME NEW R, NEW S, NEW T, Keeps(R, S), Keeps(S, T)
  PROVE  Keeps(R, T)
<1>1. Publishes(R, T) /\ Serves(R, T) /\ KeepsLayers(R, T)
  BY Transitive DEF Keeps
<1> QED
  BY <1>1 DEF Keeps

\* What moves nothing keeps all in order.
LEMMA KeepsStill ==
  ASSUME NEW S, NEW T, Still(S, T)
  PROVE  Keeps(S, T)
BY StillDoes DEF Keeps, SameWindows

\* Restacking keeps all in order, unless it heeds marks that were kept.
LEMMA KeepsRestacks ==
  ASSUME NEW S, NEW T, NEW mode, NEW l, Restacks(S, T, mode, l),
         mode # "restack" \/ S.marks.kept = FALSE
  PROVE  Keeps(S, T)
BY DEF Restacks, Keeps, SameWindows

\* Grabbing buttons afterwards keeps all in order.
LEMMA KeepsGrabs ==
  ASSUME NEW S, NEW T, Keeps(S, T), NEW l
  PROVE  Keeps(S, FocusGrabButtonsOnLayer(T, l))
<1>1. Still(T, FocusGrabButtonsOnLayer(T, l))
  BY GrabsDo DEF Keeps
<1> QED
  BY <1>1, KeepsStill, KeepsTwice

\* raise_window and lower_window.
LEMMA RaiseWindowDoes ==
  ASSUME NEW S, Fine(S), NEW t \in ToSet(S.ring)
  PROVE  /\ Keeps(S, RaiseWindow(S, t)) /\ SameFlags(S, RaiseWindow(S, t))
         /\ Lost(RaiseWindow(S, t)) \subseteq Lost(S)
<1> DEFINE R == Send(S, ToTop(S.view, t))
           T == RaiseOrLowerWindow(R, t, "raise")
<1>1. /\ S.view \in Lists /\ t \in Windows
  BY Fields, ListPlaces DEF Fine
<1>2. ToTop(S.view, t) \in Lists /\ ToSet(ToTop(S.view, t)) = ToSet(S.view) \cup {t}
  BY <1>1, ToTopDoes
<1>3. Still(S, R) /\ R.grabbed = S.grabbed
  <2>1. /\ ToSet(S.view) \subseteq ToSet(ToTop(S.view, t))
        /\ ToSet(ToTop(S.view, t)) \subseteq ToSet(S.view) \cup ToSet(S.ring)
    BY <1>2
  <2> QED
    BY <1>2, <2>1, SendDoes
<1> HIDE DEF R
<1>4. Fine(R) /\ t \in ToSet(R.ring)
  BY <1>3 DEF Still, SameWindows
<1>5. Restacks(R, T, "raise", R.layer[t]) /\ T.grabbed = R.grabbed
  BY <1>4, RaiseOrLowerDoes
<1> HIDE DEF T
<1>6. Keeps(S, T)
  BY <1>3, <1>5, KeepsStill, KeepsRestacks, KeepsTwice
<1>7. RaiseWindow(S, t) = FocusGrabButtonsOnLayer(T, S.layer[t])
  BY Zenon DEF RaiseWindow, T, R
<1>8. Fine(T) /\ SameFlags(S, T)
  BY <1>3, <1>5 DEF Still, Restacks, SameWindows, SameFlags
<1>9. Keeps(S, FocusGrabButtonsOnLayer(T, S.layer[t]))
  BY <1>6, KeepsGrabs
<1>10. SameFlags(S, FocusGrabButtonsOnLayer(T, S.layer[t]))
  BY <1>8, GrabsFlags
<1>11. Lost(FocusGrabButtonsOnLayer(T, S.layer[t])) \subseteq Lost(S)
  <2>1. Lost(R) = Lost(S)
    BY <1>3, LostSame DEF Still, SameWindows
  <2>2. R.layer = S.layer
    BY <1>3 DEF Still, SameWindows
  <2>3. \A v \in Lost(T) : v \in Lost(R) \/ T.layer[v] = R.layer[t]
    <3> DEFINE l == R.layer[t]
    <3>1. SameWindows(R, T) /\ OthersStay(R, T, l) /\ T.grabbed = R.grabbed
      BY <1>5 DEF Restacks
    <3> HIDE DEF l
    <3>2. \A v \in Lost(T) : v \in Lost(R) \/ T.layer[v] = l
      BY <1>4, <3>1, LostInLayer
    <3> QED
      BY <3>2 DEF l
  <2> QED
    BY <1>8, <2>1, <2>2, <2>3, LostAndGiven
<1> QED
  BY <1>7, <1>9, <1>10, <1>11

\* LowerWindow keeps all in order.
LEMMA LowerWindowDoes ==
  ASSUME NEW S, Fine(S), NEW t \in ToSet(S.ring)
  PROVE  /\ Keeps(S, LowerWindow(S, t)) /\ SameFlags(S, LowerWindow(S, t))
         /\ Lost(LowerWindow(S, t)) \subseteq Lost(S)
<1> DEFINE R == Send(S, ToBottom(S.view, t))
           T == RaiseOrLowerWindow(R, t, "lower")
<1>1. /\ S.view \in Lists /\ t \in Windows
  BY Fields, ListPlaces DEF Fine
<1>2. ToBottom(S.view, t) \in Lists /\ ToSet(ToBottom(S.view, t)) = ToSet(S.view) \cup {t}
  BY <1>1, ToBottomDoes
<1>3. Still(S, R) /\ R.grabbed = S.grabbed
  <2>1. /\ ToSet(S.view) \subseteq ToSet(ToBottom(S.view, t))
        /\ ToSet(ToBottom(S.view, t)) \subseteq ToSet(S.view) \cup ToSet(S.ring)
    BY <1>2
  <2> QED
    BY <1>2, <2>1, SendDoes
<1> HIDE DEF R
<1>4. Fine(R) /\ t \in ToSet(R.ring)
  BY <1>3 DEF Still, SameWindows
<1>5. Restacks(R, T, "lower", R.layer[t]) /\ T.grabbed = R.grabbed
  BY <1>4, RaiseOrLowerDoes
<1> HIDE DEF T
<1>6. Keeps(S, T)
  BY <1>3, <1>5, KeepsStill, KeepsRestacks, KeepsTwice
<1>7. LowerWindow(S, t) = FocusGrabButtonsOnLayer(T, S.layer[t])
  BY Zenon DEF LowerWindow, T, R
<1>8. Fine(T) /\ SameFlags(S, T)
  BY <1>3, <1>5 DEF Still, Restacks, SameWindows, SameFlags
<1>9. Keeps(S, FocusGrabButtonsOnLayer(T, S.layer[t]))
  BY <1>6, KeepsGrabs
<1>10. SameFlags(S, FocusGrabButtonsOnLayer(T, S.layer[t]))
  BY <1>8, GrabsFlags
<1>11. Lost(FocusGrabButtonsOnLayer(T, S.layer[t])) \subseteq Lost(S)
  <2>1. Lost(R) = Lost(S)
    BY <1>3, LostSame DEF Still, SameWindows
  <2>2. R.layer = S.layer
    BY <1>3 DEF Still, SameWindows
  <2>3. \A v \in Lost(T) : v \in Lost(R) \/ T.layer[v] = R.layer[t]
    <3> DEFINE l == R.layer[t]
    <3>1. SameWindows(R, T) /\ OthersStay(R, T, l) /\ T.grabbed = R.grabbed
      BY <1>5 DEF Restacks
    <3> HIDE DEF l
    <3>2. \A v \in Lost(T) : v \in Lost(R) \/ T.layer[v] = l
      BY <1>4, <3>1, LostInLayer
    <3> QED
      BY <3>2 DEF l
  <2> QED
    BY <1>8, <2>1, <2>2, <2>3, LostAndGiven
<1> QED
  BY <1>7, <1>9, <1>10, <1>11

\* restack_window keeps the layers apart if no marks are kept.
LEMMA RestackWindowDoes ==
  ASSUME NEW S, Fine(S), NEW t \in ToSet(S.ring)
  PROVE  /\ Restacks(S, RestackWindow(S, t), "restack", S.layer[t])
         /\ S.marks.kept = FALSE => Lost(RestackWindow(S, t)) \subseteq Lost(S)
<1> DEFINE R == RaiseOrLowerWindow(S, t, "restack")
           T == FocusGrabButtonsOnLayer(R, S.layer[t])
<1> DEFINE l == S.layer[t]
<1>1. Restacks(S, R, "restack", l) /\ R.grabbed = S.grabbed
  BY RaiseOrLowerDoes
<1> HIDE DEF R
<1>2. Still(R, T)
  BY <1>1, GrabsDo DEF Restacks, SameWindows
<1> HIDE DEF T
<1>3. Restacks(R, T, "restack", l)
  <2>1. /\ SameWindows(R, T) /\ Publishes(R, T) /\ Serves(R, T) /\ KeepsLayers(R, T)
        /\ OthersStay(R, T, l)
    BY <1>2, StillDoes DEF OthersStay, Still
  <2>2. R.marks.kept = FALSE => T.marks.kept = FALSE
    BY <1>2, NoMarksType DEF Still
  <2> QED
    BY <2>1, <2>2 DEF Restacks
<1>4. Restacks(S, T, "restack", l)
  BY <1>1, <1>3, RestacksTwice
<1>5. S.marks.kept = FALSE => Lost(FocusGrabButtonsOnLayer(R, l)) \subseteq Lost(S)
  <2>1. SUFFICES ASSUME S.marks.kept = FALSE
                 PROVE  Lost(FocusGrabButtonsOnLayer(R, l)) \subseteq Lost(S)
    OBVIOUS
  <2> HIDE DEF l
  <2>2. SameWindows(S, R) /\ OthersStay(S, R, l) /\ R.grabbed = S.grabbed
    BY <1>1, <2>1 DEF Restacks
  <2>3. \A v \in Lost(R) : v \in Lost(S) \/ R.layer[v] = l
    BY <2>2, LostInLayer
  <2>4. Fine(R)
    BY <2>2 DEF SameWindows
  <2> QED
    BY <2>3, <2>4, LostAndGiven
<1>6. RestackWindow(S, t) = T /\ T = FocusGrabButtonsOnLayer(R, l)
  BY Zenon DEF RestackWindow, T, R, l
<1> HIDE DEF R
<1> QED
  BY <1>4, <1>5, <1>6

\* A list of one window.
LEMMA OneWindow ==
  ASSUME NEW q \in Lists, IsInjective(q), NEW w, ToSet(q) = {w}
  PROVE  q = <<w>>
<1>1. q # <<>>
  BY ShortLists
<1>2. /\ q[1] \in Windows /\ Tail(q) \in Lists /\ q = <<q[1]>> \o Tail(q)
      /\ ToSet(q) = {q[1]} \cup ToSet(Tail(q)) /\ q[1] \notin ToSet(Tail(q))
  BY <1>1, TailList
<1>3. q[1] = w /\ ToSet(Tail(q)) = {}
  BY <1>2
<1>4. Tail(q) = <<>>
  BY <1>2, <1>3, ListPlaces
<1>5. <<q[1]>> \in Lists
  BY <1>2, ShortLists
<1>6. <<q[1]>> \o <<>> = <<q[1]>>
  BY <1>5, JoinAppend
<1> QED
  BY <1>2, <1>3, <1>4, <1>6

\* XRestackWindows of all windows makes the server's order that of the ring.
LEMMA XRestackAll ==
  ASSUME NEW y \in Lists, IsInjective(y), NEW p \in Lists, p # <<>>, IsInjective(p),
         ToSet(y) = ToSet(p)
  PROVE  XRestackWindows(y, p) = p
<1> DEFINE o == Without(y, ToSet(Tail(p)))
<1>1. /\ p[1] \in Windows /\ ToSet(p) = {p[1]} \cup ToSet(Tail(p))
      /\ p[1] \notin ToSet(Tail(p))
  BY TailList
<1>2. o \in Lists /\ IsInjective(o) /\ ToSet(o) = ToSet(y) \ ToSet(Tail(p))
  BY WithoutDoes
<1> HIDE DEF o
<1>3. ToSet(o) = {p[1]}
  BY <1>1, <1>2
<1>4. o = <<p[1]>>
  BY <1>2, <1>3, OneWindow
<1>5. <<p[1]>> \in Lists /\ <<>> \in Lists
  BY <1>1, ShortLists
<1>6. <<p[1]>> \o <<>> = <<p[1]>> /\ p \o <<>> = p
  BY <1>5, JoinAppend
<1>7. Without(y, ToSet(Tail(p))) = <<p[1]>> \o <<>>
  BY <1>4, <1>6 DEF o
<1>8. XRestackWindows(y, p) = p \o <<>>
  BY <1>5, <1>7, XRestackTop
<1> QED
  BY <1>6, <1>8

\* ResyncXStackingOrder.
LEMMA ResyncDoes ==
  ASSUME NEW S, Fine(S), S.ring # <<>>
  PROVE  LET T == ResyncXStackingOrder(S)
         IN /\ SameWindows(S, T) /\ T.ring = S.ring /\ T.published = S.published
            /\ T.x = T.ring
<1> DEFINE y == XRestackWindows(S.x, S.ring)
           R == [S EXCEPT !.x = y]
           T == BroadcastRestack(R, R.ring[1], Last(R.ring))
<1>1. S \in States /\ S.ring \in Lists /\ S.x \in Lists /\ IsInjective(S.ring)
      /\ IsInjective(S.x) /\ ToSet(S.x) = ToSet(S.ring)
  BY Fields DEF Fine
<1>2. y = S.ring
  BY <1>1, XRestackAll
<1> HIDE DEF y
<1>3. /\ R \in States /\ R.view = S.view /\ R.ring = S.ring /\ R.layer = S.layer
      /\ R.parent = S.parent /\ R.iconified = S.iconified /\ R.byParent = S.byParent
      /\ R.mapped = S.mapped /\ R.x = y /\ R.published = S.published
      /\ R.grabbed = S.grabbed /\ R.marks = S.marks
  BY <1>1, <1>2 DEF States
<1> HIDE DEF R
<1>4. Fine(R)
  BY <1>1, <1>2, <1>3 DEF Fine
<1>5. SameWindows(S, R)
  BY <1>3, <1>4 DEF SameWindows
<1>6. Still(R, T)
  <2>1. R.ring \in Lists /\ IsInjective(R.ring) /\ R.ring # <<>>
    BY <1>1, <1>3
  <2>2. Above(R.ring, R.ring[1], Last(R.ring))
    BY <2>1, AboveAll
  <2> QED
    BY <1>4, <2>2, BroadcastDoes
<1>7. ResyncXStackingOrder(S) = T
  BY Zenon DEF ResyncXStackingOrder, BroadcastRestackAllWindows, T, R, y
<1> HIDE DEF T
<1>8. SameWindows(S, T) /\ T.ring = S.ring /\ T.published = S.published /\ T.x = T.ring
  BY <1>2, <1>3, <1>5, <1>6, Transitive DEF Still
<1> QED
  BY <1>7, <1>8

\* The ring has no windows exactly if it is empty.
LEMMA RingNotEmpty ==
  ASSUME NEW S, Fine(S), NEW t \in ToSet(S.ring)
  PROVE  S.ring # <<>>
BY ShortLists

\* A new window, put on top of the ring, goes where its layer is.
LEMMA PositionNewWindowDoes ==
  ASSUME NEW S, Fine(S), NEW t \in ToSet(S.ring), NEW lower
  PROVE  LET T == PositionNewWindow(S, t, lower)
         IN /\ SameWindows(S, T) /\ Serves(S, T)
            /\ Descending(S.layer, Without(S.ring, {t})) => Descending(T.layer, T.ring)
<1> DEFINE mode == IF lower THEN "lower" ELSE "raise"
           isNew == TRUE
           zero == [w \in Windows |-> 0]
           R == RestackWindow1(S, t, mode, zero, TRUE)
           Q == RaiseOrLowerWindow(R, t, mode)
           T == PositionNewWindow(S, t, lower)
<1>1. zero \in Levels /\ mode # "restack" /\ isNew = TRUE
  BY DEF Levels
<1> HIDE DEF zero, mode, isNew
<1>2. /\ SameWindows(S, R)
      /\ ~Skips(S, t, isNew) => R.published = R.ring /\ Serves(S, R)
      /\ Descending(S.layer, Without(S.ring, {t})) => Descending(R.layer, R.ring)
  BY <1>1, NewWindowDoes
<1>3. T = IF IsTransient(S, t) /\ t \in StackParent THEN ResyncXStackingOrder(Q) ELSE R
  BY Zenon DEF PositionNewWindow, mode, zero
<1> HIDE DEF R
<1>4. Restacks(R, Q, mode, R.layer[t])
  <2>1. Fine(R) /\ t \in ToSet(R.ring)
    BY <1>2 DEF SameWindows
  <2> QED
    BY <2>1, RaiseOrLowerDoes
<1> HIDE DEF Q, T
<1>5. CASE IsTransient(S, t) /\ t \in StackParent
  <2>1. /\ SameWindows(R, Q)
        /\ Descending(R.layer, R.ring) => Descending(Q.layer, Q.ring)
    BY <1>1, <1>4 DEF Restacks, KeepsLayers
  <2>2. Fine(Q) /\ t \in ToSet(Q.ring)
    BY <1>2, <2>1 DEF SameWindows
  <2>3. Q.ring # <<>>
    BY <2>2, RingNotEmpty
  <2>4. /\ SameWindows(Q, T) /\ T.ring = Q.ring /\ T.published = Q.published
        /\ T.x = T.ring
    BY <1>3, <1>5, <2>2, <2>3, ResyncDoes
  <2>5. SameWindows(S, T)
    BY <1>2, <2>1, <2>4, Transitive
  <2>6. Serves(S, T)
    BY <2>4 DEF Serves
  <2>7. Descending(S.layer, Without(S.ring, {t})) => Descending(T.layer, T.ring)
    BY <1>2, <2>1, <2>4 DEF SameWindows
  <2> QED
    BY <2>5, <2>6, <2>7 DEF T
<1>6. CASE ~(IsTransient(S, t) /\ t \in StackParent)
  <2>1. ~Skips(S, t, isNew)
    BY <1>6 DEF Skips
  <2> QED
    BY <1>2, <1>3, <1>6, <2>1 DEF T
<1> QED
  BY <1>5, <1>6

-----------------------------------------------------------------------------
(* Layers.                                                                   *)

\* There is a function that begins with A and goes on by g.
Iterates(T, A, m, g) ==
  \E f \in [0..m -> T] : f[0] = A /\ \A n \in 1..m : f[n] = g[n][f[n - 1]]

\* Recursion, with its conclusion as a defined predicate.
LEMMA Iteration ==
  ASSUME NEW T, NEW A \in T, NEW m \in Nat, NEW g \in [1..m -> [T -> T]]
  PROVE  Iterates(T, A, m, g)
BY Recursion DEF Iterates


\* One step of TopParent.
ParentNext(S, w) ==
  IF TransientFor(S, w) = None \/ w \notin StackParent THEN w ELSE S.parent[w]
ParentStep(S, t, up, n) == IF n = 0 THEN t ELSE ParentNext(S, up[n - 1])

\* The window that gets the new layer is managed.
LEMMA TopParentDoes ==
  ASSUME NEW S, NEW t \in ToSet(S.ring)
  PROVE  TopParent(S, t) \in ToSet(S.ring)
<1> DEFINE m == Cardinality(Windows)
           T == ToSet(S.ring)
<1>1. m \in Nat
  BY WindowsAssumption, FS_CardinalityType
<1>2. t \in T
  OBVIOUS
<1>3. ASSUME NEW R \in T, NEW n \in 1..m PROVE ParentNext(S, R) \in T
  BY ParentsManaged DEF ParentNext
<1> DEFINE g == [n \in 1..m |-> [R \in T |-> ParentNext(S, R)]]
           k == CHOOSE d : d = [n \in 0..m |-> ParentStep(S, t, d, n)]
<1>4. PICK h \in [0..m -> T] : h[0] = t /\ \A n \in 1..m : h[n] = g[n][h[n - 1]]
  <2>1. g \in [1..m -> [T -> T]]
    <3> HIDE DEF T, m
    <3> QED
      BY <1>3
  <2>2. m \in Nat
    BY <1>1
  <2> HIDE DEF g, m, T
  <2>3. Iterates(T, t, m, g)
    BY <1>2, <2>1, <2>2, Iteration
  <2> QED
    BY <2>3 DEF Iterates
<1>5. h = [n \in 0..m |-> ParentStep(S, t, h, n)]
  <2>1. ASSUME NEW n \in 0..m PROVE h[n] = ParentStep(S, t, h, n)
    <3>1. CASE n = 0
      BY <1>4, <3>1 DEF ParentStep
    <3>2. CASE n # 0
      <4>1. n \in 1..m /\ n - 1 \in 0..m
        BY <1>1, <3>2
      <4>2. h[n - 1] \in T /\ h[n] = g[n][h[n - 1]]
        <5> HIDE DEF g, m, T
        <5> QED
          BY <1>4, <4>1
      <4>3. g[n][h[n - 1]] = ParentNext(S, h[n - 1])
        <5> HIDE DEF T, m
        <5> QED
          BY <4>1, <4>2
      <4> HIDE DEF g, m, T
      <4> QED
        BY <3>2, <4>2, <4>3 DEF ParentStep
    <3> QED
      BY <3>1, <3>2
  <2> QED
    BY <2>1
<1>6. k = [n \in 0..m |-> ParentStep(S, t, k, n)]
  BY <1>5, Zenon
<1>7. TopParent(S, t) = k[m]
  BY Zenon DEF TopParent, ParentStep, ParentNext
<1> HIDE DEF k, g
<1>8. k[0] = t /\ \A n \in 1..m : k[n] = ParentNext(S, k[n - 1])
  <2>1. 0 \in 0..m /\ \A n \in 1..m : n \in 0..m /\ n # 0
    BY <1>1
  <2> HIDE DEF m
  <2> QED
    BY <1>6, <2>1 DEF ParentStep
<1>9. k[m] \in T
  <2>1. m \in Nat /\ m \in 0..m
    BY <1>1
  <2>2. k[0] \in T /\ \A n \in 1..m : k[n - 1] \in T => k[n] \in T
    <3> HIDE DEF T, m
    <3> QED
      BY <1>2, <1>3, <1>8
  <2> HIDE DEF T, m
  <2>3. \A n \in 0..m : k[n] \in T
    BY <2>1, <2>2, Along
  <2> QED
    BY <2>1, <2>3
<1> QED
  BY <1>7, <1>9 DEF T

\* The windows that new_layer moves: marked from the top parent t on.
LEMMA MarkedDoes ==
  ASSUME NEW S, Fine(S), NEW t \in ToSet(S.ring), NEW mode
  PROVE  t \in Marked(S, t, mode) /\ Marked(S, t, mode) \subseteq ToSet(S.ring)
<1> DEFINE W == InLayer(S, S.layer[t])
           base == MarkBase(S, W)
           M == Marked(S, t, mode)
<1>1. M = MarkSubtree(S, base, t, W, mode, TRUE)
  BY Zenon DEF Marked
<1> HIDE DEF base, M
<1>2. Pass(S, t, mode, S, base, M)
  BY <1>1, Zenon DEF Pass, base
<1>3. PassMarks(S, t, S, base, M)
  BY <1>2, MarksOfPass
<1> QED
  BY <1>3 DEF PassMarks, M

\* new_layer puts the family where windows of the new layer are.
LEMMA NewLayerDoes ==
  ASSUME NEW S, Fine(S), NEW w \in ToSet(S.ring), NEW l \in Layers
  PROVE  /\ Keeps(S, NewLayer(S, w, l)) /\ SameFlags(S, NewLayer(S, w, l))
         /\ Lost(NewLayer(S, w, l)) \subseteq Lost(S)
<1> DEFINE t == TopParent(S, w)
           old == S.layer[t]
           lower == l < old
           M == Marked(S, t, IF lower THEN "lower" ELSE "raise")
           p == Only(S.ring, M)
           q == Without(S.ring, M)
           i == FirstAtMost(S, q, IF lower THEN l - 1 ELSE l)
           r == IF i = 0 THEN None ELSE q[i]
           s == IF i = Len(q) THEN None ELSE q[i + 1]
           L == [v \in Windows |-> IF v \in M THEN l ELSE S.layer[v]]
           z == Splice(q, i, p)
           R == [S EXCEPT !.ring = z, !.marks = NoMarks, !.layer = L]
           all == Len(p) > 1
           T == RestackWindowList(R, r, p, s, all, lower)
           U == FocusGrabButtonsOnLayer(T, l)
           V == FocusGrabButtonsOnLayer(U, old)
<1>1. NewLayer(S, w, l) = IF l = old THEN S ELSE V
  BY Zenon DEF NewLayer
<1>2. /\ S \in States /\ S.ring \in Lists /\ IsInjective(S.ring) /\ S.layer \in Levels
      /\ S.layer \in [Windows -> Layers] /\ S.x \in Lists /\ IsInjective(S.x)
      /\ ToSet(S.ring) \subseteq Windows
  BY Fields, ListPlaces DEF Fine
<1>3. t \in ToSet(S.ring)
  BY TopParentDoes
<1> HIDE DEF t
<1>4. t \in M /\ M \subseteq ToSet(S.ring)
  BY <1>3, MarkedDoes
<1> HIDE DEF M
<1>5. /\ p \in Lists /\ ToSet(p) = ToSet(S.ring) \cap M /\ IsInjective(p)
  BY <1>2, OnlyDoes
<1>6. ToSet(p) = M
  BY <1>4, <1>5
<1>7. p # <<>>
  BY <1>4, <1>6, ShortLists
<1>8. q \in Lists /\ IsInjective(q) /\ ToSet(q) = ToSet(S.ring) \ M
  BY <1>2, WithoutDoes
<1>9. q = Without(S.ring, ToSet(p))
  BY <1>6
<1> HIDE DEF p, q
<1>10. l \in Int /\ old \in Int
  BY <1>2, <1>3, LayersAssumption DEF Levels
<1> HIDE DEF old
<1>11. /\ i \in 0..Len(q)
       /\ \A k \in 1..i : S.layer[q[k]] >= l
       /\ Descending(S.layer, q) => \A k \in (i + 1)..Len(q) : S.layer[q[k]] <= l
  <2> DEFINE n == IF lower THEN l - 1 ELSE l
  <2>1. n \in Int /\ (n = l - 1 \/ n = l)
    BY <1>10
  <2> HIDE DEF n
  <2>2. /\ i \in 0..Len(q)
        /\ \A k \in 1..i : S.layer[q[k]] > n
        /\ Descending(S.layer, q) => \A k \in (i + 1)..Len(q) : S.layer[q[k]] <= n
    <3>1. i = FirstAtMost(S, q, n)
      BY DEF n
    <3> HIDE DEF i
    <3> QED
      BY <1>2, <1>8, <2>1, <3>1, FirstAtMostDoes
  <2> HIDE DEF i
  <2>3. \A k \in 1..Len(q) : S.layer[q[k]] \in Int
    BY <1>2, <1>8, ListPlaces DEF Levels
  <2>4. Len(q) \in Nat
    BY <1>8, ListPlaces
  <2>5. ASSUME NEW k \in 1..i PROVE S.layer[q[k]] >= l
    <3>1. k \in 1..Len(q)
      BY <2>2, <2>4
    <3>2. S.layer[q[k]] \in Int /\ S.layer[q[k]] > n
      BY <2>2, <2>3, <3>1
    <3> QED
      BY <1>10, <2>1, <3>2
  <2>6. ASSUME Descending(S.layer, q), NEW k \in (i + 1)..Len(q)
        PROVE  S.layer[q[k]] <= l
    <3>1. k \in 1..Len(q)
      BY <2>2, <2>4
    <3>2. S.layer[q[k]] \in Int /\ S.layer[q[k]] <= n
      BY <2>2, <2>3, <2>6, <3>1
    <3> QED
      BY <1>10, <2>1, <3>2
  <2> QED
    BY <2>2, <2>5, <2>6
<1>12. Between(q, i, r, s)
  BY <1>11 DEF Between
<1>13. r = (IF i = 0 THEN None ELSE q[i]) /\ s = (IF i = Len(q) THEN None ELSE q[i + 1])
  OBVIOUS
<1> HIDE DEF i, r, s
<1>14. z \in Lists /\ ToSet(z) = ToSet(S.ring) /\ IsInjective(z)
  <2>1. i \in 0..Len(q)
    BY <1>11
  <2>2. /\ z \in Lists /\ ToSet(z) = ToSet(q) \cup ToSet(p)
        /\ IsInjective(q) /\ IsInjective(p) /\ ToSet(q) \cap ToSet(p) = {} => IsInjective(z)
    BY <1>5, <1>8, <2>1, SpliceLists
  <2> HIDE DEF z
  <2> QED
    BY <1>4, <1>5, <1>6, <1>8, <2>2
<1>14a. Without(z, M) = Without(S.ring, M)
  <2> DEFINE o == S.ring
  <2>1. /\ q \in Lists /\ o \in Lists /\ p \in Lists /\ i \in 0..Len(q)
        /\ q = Without(o, ToSet(p)) /\ ToSet(p) \subseteq M
    BY <1>2, <1>5, <1>6, <1>8, <1>9, <1>11
  <2> HIDE DEF o
  <2>2. Without(Splice(q, i, p), M) = Without(o, M)
    BY <2>1, SpliceOthers, SMTT(30)
  <2> QED
    BY <2>2 DEF z, o
<1>15. Above(z, r, s)
  <2>1. i \in 0..Len(q)
    BY <1>11
  <2> QED
    BY <1>5, <1>7, <1>8, <1>13, <1>14, <2>1, SpliceAbove
<1>16. /\ r \in {None} \cup (ToSet(S.ring) \ ToSet(p))
       /\ s \in {None} \cup (ToSet(S.ring) \ ToSet(p))
  <2>1. /\ i # 0 => i \in 1..Len(q)
        /\ i # Len(q) => i + 1 \in 1..Len(q)
    <3>1. i \in 0..Len(q)
      BY <1>11
    <3>2. Len(q) \in Nat
      BY <1>8, ListPlaces
    <3> QED
      BY <3>1, <3>2
  <2>2. \A k \in 1..Len(q) : q[k] \in ToSet(q)
    BY <1>8, ListPlaces
  <2> QED
    BY <1>6, <1>8, <1>13, <2>1, <2>2
<1>17. /\ L \in [Windows -> Layers] /\ L \in Levels
       /\ \A v \in M : L[v] = l
       /\ \A v \in Windows \ M : L[v] = S.layer[v]
  <2>1. L \in [Windows -> Layers]
    BY <1>2
  <2>2. /\ \A v \in M : L[v] = l
        /\ \A v \in Windows \ M : L[v] = S.layer[v]
    BY <1>2, <1>4
  <2> HIDE DEF L
  <2>3. L \in Levels
    <3>1. Layers \subseteq Int
      BY LayersAssumption
    <3> QED
      BY <2>1, <3>1 DEF Levels
  <2> QED
    BY <2>1, <2>2, <2>3
<1> HIDE DEF L
<1>18. Descending(S.layer, S.ring) => Descending(L, z)
  <2>1. SUFFICES ASSUME Descending(S.layer, S.ring) PROVE Descending(L, z)
    OBVIOUS
  <2>2. Descending(S.layer, q)
    BY <1>2, <2>1, WithoutDescending DEF q
  <2>3. DOMAIN q = 1..Len(q) /\ Len(q) \in Nat /\ i \in 0..Len(q)
    BY <1>8, <1>11, ListPlaces
  <2>4. \A k \in 1..Len(q) : L[q[k]] = S.layer[q[k]]
    <3>1. \A k \in 1..Len(q) : q[k] \in ToSet(q)
      BY <1>8, ListPlaces
    <3>2. ToSet(q) \subseteq Windows \ M
      BY <1>2, <1>8
    <3> QED
      BY <1>17, <3>1, <3>2
  <2>5. Descending(L, q)
    BY <2>2, <2>3, <2>4 DEF Descending
  <2>6. \A k \in 1..i : L[q[k]] >= l
    <3> SUFFICES ASSUME NEW k \in 1..i PROVE L[q[k]] >= l
      OBVIOUS
    <3>1. k \in 1..Len(q)
      BY <2>3
    <3> QED
      BY <1>11, <2>4, <3>1
  <2>7. \A k \in (i + 1)..Len(q) : L[q[k]] <= l
    <3> SUFFICES ASSUME NEW k \in (i + 1)..Len(q) PROVE L[q[k]] <= l
      OBVIOUS
    <3>1. k \in 1..Len(q)
      BY <2>3
    <3> QED
      BY <1>11, <2>2, <2>4, <3>1
  <2>8. \A v \in ToSet(p) : L[v] = l
    BY <1>6, <1>17
  <2> QED
    BY <1>5, <1>8, <1>10, <1>17, <2>3, <2>5, <2>6, <2>7, <2>8, SpliceDescending
<1> HIDE DEF lower
<1>19. S.x = S.ring => Placed(S.x, r, p, s, lower) = z
  <2>1. SUFFICES ASSUME S.x = S.ring PROVE Placed(S.ring, r, p, s, lower) = z
    OBVIOUS
  <2>2. p \in Lists /\ p # <<>> /\ IsInjective(p) /\ S.ring \in Lists /\ IsInjective(S.ring)
    BY <1>2, <1>5, <1>7
  <2> QED
    BY <1>9, <1>12, <2>2, PlacedExact
<1> HIDE DEF z
<1>20. /\ R \in States /\ R.view = S.view /\ R.ring = z /\ R.layer = L
       /\ R.parent = S.parent /\ R.iconified = S.iconified /\ R.byParent = S.byParent
       /\ R.mapped = S.mapped /\ R.x = S.x /\ R.published = S.published
       /\ R.grabbed = S.grabbed /\ R.marks = NoMarks
  BY <1>2, <1>14, <1>17, NoMarksType DEF States
<1> HIDE DEF R, all
<1>21. Fine(R)
  BY <1>14, <1>20, NoMarksType DEF Fine
<1>22. /\ SameWindows(R, T) /\ T.ring = R.ring /\ T.published = T.ring
       /\ T.x = Placed(R.x, r, p, s, lower) /\ T.grabbed = R.grabbed
  <2>1. /\ ToSet(p) \subseteq ToSet(R.ring)
        /\ r \in {None} \cup (ToSet(R.ring) \ ToSet(p))
        /\ s \in {None} \cup (ToSet(R.ring) \ ToSet(p))
        /\ Above(R.ring, r, s)
    BY <1>5, <1>14, <1>15, <1>16, <1>20
  <2> QED
    BY <1>5, <1>7, <1>21, <2>1, RestackWindowListDoes
<1> HIDE DEF T
<1>23. Keeps(S, T)
  <2>1. Fine(T) /\ ToSet(T.ring) = ToSet(S.ring) /\ T.layer = L /\ T.ring = z
    BY <1>14, <1>20, <1>22 DEF SameWindows
  <2>2. Publishes(S, T)
    BY <1>22 DEF Publishes
  <2>3. Serves(S, T)
    BY <1>19, <1>20, <1>22 DEF Serves
  <2>4. KeepsLayers(S, T)
    BY <1>18, <2>1 DEF KeepsLayers
  <2> QED
    BY <2>1, <2>2, <2>3, <2>4 DEF Keeps
<1>24. SameFlags(S, T)
  BY <1>20, <1>22 DEF SameWindows, SameFlags
<1>24a. \A v \in Lost(T) : v \in Lost(S) \/ T.layer[v] = l
  <2>1. SUFFICES ASSUME NEW v \in Lost(T), T.layer[v] # l PROVE v \in Lost(S)
    OBVIOUS
  <2>2. /\ Fine(T) /\ T.layer = L /\ T.ring = z /\ T.grabbed = S.grabbed
        /\ T.mapped = S.mapped /\ ToSet(T.ring) = ToSet(S.ring)
    BY <1>14, <1>20, <1>22 DEF SameWindows
  <2>3. v \notin M /\ v \in Windows
    <3>1. v \in ToSet(S.ring)
      BY <2>2 DEF Lost, Fine
    <3> QED
      BY <1>2, <1>17, <2>1, <2>2, <3>1
  <2>4. \A u \in ToSet(T.ring) : T.layer[u] = T.layer[v]
          => u \notin M /\ S.layer[u] = S.layer[v]
    BY <1>2, <1>17, <2>1, <2>2, <2>3
  <2> QED
    BY <1>14a, <2>2, <2>3, <2>4, LostKept
<1>25. Keeps(S, U) /\ SameFlags(S, U)
  <2>1. Keeps(S, U)
    BY <1>23, KeepsGrabs
  <2>2. SameFlags(S, U)
    BY <1>23, <1>24, GrabsFlags DEF Keeps
  <2> QED
    BY <2>1, <2>2
<1>25a. Lost(U) \subseteq Lost(S)
  BY <1>23, <1>24a, LostAndGiven DEF Keeps
<1> HIDE DEF U
<1>26. Keeps(S, V) /\ SameFlags(S, V)
  <2>1. Keeps(S, V)
    BY <1>25, KeepsGrabs
  <2>2. SameFlags(S, V)
    BY <1>25, GrabsFlags DEF Keeps
  <2> QED
    BY <2>1, <2>2
<1>26a. Lost(V) \subseteq Lost(S)
  BY <1>25, <1>25a, GrabsDo DEF Keeps
<1>27. Keeps(S, S) /\ SameFlags(S, S)
  BY StillSame, KeepsStill DEF SameFlags
<1> QED
  BY <1>1, <1>26, <1>26a, <1>27

-----------------------------------------------------------------------------
(* Icons and hints.                                                          *)

\* Flags and hints may change while the ring stays as it is.
LEMMA FlagsDo ==
  ASSUME NEW S, Fine(S), NEW T \in States, T.ring = S.ring, T.layer = S.layer,
         T.x = S.x, T.view = S.view, T.published = S.published,
         T.grabbed \cup T.marks.in \subseteq ToSet(S.ring),
         T.iconified \cup T.byParent \cup T.mapped \subseteq ToSet(S.ring),
         T.mapped \cap T.iconified = {}
  PROVE  Keeps(S, T)
<1>1. Fine(T)
  BY DEF Fine
<1>2. Publishes(S, T) /\ Serves(S, T) /\ KeepsLayers(S, T)
  BY DEF Publishes, Serves, KeepsLayers
<1> QED
  BY <1>1, <1>2 DEF Keeps

\* The windows that become icons, or no longer are.
LEMMA MarkedInAllLayersDoes ==
  ASSUME NEW S, Fine(S), NEW t \in ToSet(S.ring)
  PROVE  MarkedInAllLayers(S, t) \subseteq ToSet(S.ring)
<1> DEFINE W == ToSet(S.ring)
           base == MarkBase(S, W)
           M == MarkedInAllLayers(S, t)
<1>1. M = MarkSubtree(S, base, t, W, "all", FALSE)
  BY Zenon DEF MarkedInAllLayers
<1>2. base.in \subseteq W
  <2>1. S.marks.in \subseteq W
    BY DEF Fine
  <2>2. CASE S.marks.kept
    BY <2>1, <2>2 DEF MarkBase
  <2>3. CASE ~S.marks.kept
    <3>1. base = [kept |-> FALSE, in |-> {},
                  linked |-> {w \in W : TransientFor(S, w) # None}]
      BY <2>3 DEF MarkBase
    <3>2. base.in = {}
      BY <3>1
    <3> QED
      BY <3>2
  <2> QED
    BY <2>2, <2>3
<1>3. t \in W
  OBVIOUS
<1> HIDE DEF base, M, W
<1>4. M \subseteq base.in \cup {t} \cup W
  <2>1. ASSUME NEW mode, NEW icons
        PROVE  MarkSubtree(S, base, t, W, mode, icons) \subseteq base.in \cup {t} \cup W
    BY MarkSubtreeDoes
  <2> QED
    BY <1>1, <2>1, Zenon
<1> QED
  BY <1>2, <1>3, <1>4 DEF M, W

\* Sets that only grow, in as many rounds as there are windows, grow no more in
\* the end.
LEMMA RoundsEnd ==
  ASSUME NEW W \in SUBSET Windows, NEW k, NEW g \in [SUBSET W -> SUBSET W],
         \A X \in SUBSET W : X \subseteq g[X],
         k[0] \in SUBSET W, k[0] # {},
         \A n \in 1..Cardinality(Windows) : k[n] = g[k[n - 1]]
  PROVE  g[k[Cardinality(Windows)]] = k[Cardinality(Windows)]
<1> DEFINE m == Cardinality(Windows)
           Done(n) == Cardinality(k[n]) > n \/ g[k[n]] = k[n]
           P == {n \in Nat : n <= m => k[n] \in SUBSET W /\ Done(n)}
<1>1. m \in Nat
  BY WindowsAssumption, FS_CardinalityType
<1>2. ASSUME NEW X \in SUBSET W
      PROVE  /\ IsFiniteSet(X) /\ Cardinality(X) \in Nat /\ Cardinality(X) <= m
             /\ X # {} => Cardinality(X) > 0
  <2>1. X \in SUBSET Windows
    OBVIOUS
  <2>2. IsFiniteSet(X) /\ Cardinality(X) <= m
    BY <2>1, WindowsAssumption, FS_Subset
  <2>3. Cardinality(X) \in Nat /\ (Cardinality(X) = 0 <=> X = {})
    BY <2>2, FS_CardinalityType, FS_EmptySet
  <2> QED
    BY <2>2, <2>3
<1>3. 0 \in P
  BY <1>2
<1>4. ASSUME NEW n \in P PROVE n + 1 \in P
  <2>1. SUFFICES ASSUME n + 1 <= m
        PROVE  k[n + 1] \in SUBSET W /\ Done(n + 1)
    OBVIOUS
  <2>2. n + 1 \in 1..m /\ (n + 1) - 1 = n /\ n <= m /\ n \in Nat
    BY <1>1, <2>1
  <2>3. k[n + 1] = g[k[n]]
    BY <2>2
  <2>4. k[n] \in SUBSET W /\ Done(n)
    BY <2>2
  <2>5. k[n + 1] \in SUBSET W /\ k[n] \subseteq k[n + 1]
    BY <2>3, <2>4
  <2> HIDE DEF m
  <2>6. CASE g[k[n]] = k[n]
    BY <2>3, <2>5, <2>6
  <2>7. CASE g[k[n]] # k[n]
    <3>1. IsFiniteSet(k[n + 1]) /\ Cardinality(k[n + 1]) \in Nat /\ Cardinality(k[n]) \in Nat
      BY <1>2, <2>4, <2>5
    <3>2. /\ Cardinality(k[n]) <= Cardinality(k[n + 1])
          /\ Cardinality(k[n + 1]) = Cardinality(k[n]) => k[n + 1] = k[n]
      BY <2>5, <3>1, FS_Subset
    <3>3. k[n + 1] # k[n]
      BY <2>3, <2>7
    <3>4. Cardinality(k[n + 1]) > n + 1
      BY <2>2, <2>4, <2>7, <3>1, <3>2, <3>3
    <3> QED
      BY <2>5, <3>4
  <2> QED
    BY <2>6, <2>7
<1>5. P = Nat
  <2>1. P \in SUBSET Nat
    OBVIOUS
  <2> HIDE DEF P
  <2> QED
    BY <1>3, <1>4, <2>1, NatSetInduction
<1>6. k[m] \in SUBSET W /\ Done(m)
  <2>1. m \in P /\ m <= m
    BY <1>1, <1>5
  <2> QED
    BY <2>1
<1> HIDE DEF m
<1> QED
  BY <1>1, <1>2, <1>6 DEF m

\* When no marks were kept the marked windows are those that hang on t by their
\* transient hints, all of them.
LEMMA MarkedInAllLayersClosed ==
  ASSUME NEW S, Fine(S), S.marks.kept = FALSE, NEW t \in ToSet(S.ring)
  PROVE  /\ t \in MarkedInAllLayers(S, t)
         /\ \A u \in MarkedInAllLayers(S, t) \ {t} : S.parent[u] \in MarkedInAllLayers(S, t)
         /\ \A u \in ToSet(S.ring) :
              S.parent[u] \in MarkedInAllLayers(S, t) => u \in MarkedInAllLayers(S, t)
<1> DEFINE W == ToSet(S.ring)
           base == MarkBase(S, W)
           m == Cardinality(Windows)
           no == FALSE
           Grown(X) == X \cup {w \in W : JoinsSubtree(S, base, "all", no, X, w)}
           Hang(X) == X \cup {w \in W : S.parent[w] \in X}
           M == MarkedInAllLayers(S, t)
           T == {X \in SUBSET W : t \in X /\ \A u \in X \ {t} : S.parent[u] \in X}
<1>1. base.in = {} /\ base.linked = {w \in W : TransientFor(S, w) # None}
  BY DEF MarkBase
<1>2. W \in SUBSET Windows /\ None \notin Windows
  BY Fields, ListPlaces, NamesAssumption DEF Fine
<1>3. ASSUME NEW X \in SUBSET W PROVE Grown(X) = Hang(X)
  <2>1. ASSUME NEW w \in W
        PROVE  JoinsSubtree(S, base, "all", no, X, w) <=> S.parent[w] \in X
    <3>1. S.parent[w] \in X => TransientFor(S, w) # None
      BY <1>2 DEF TransientFor
    <3> HIDE DEF base
    <3> QED
      BY <1>1, <3>1 DEF JoinsSubtree, Moves
  <2> HIDE DEF base, W
  <2> QED
    BY <2>1
<1>4. PICK k : /\ k[0] = base.in \cup {t}
               /\ \A n \in 1..m : k[n] = Grown(k[n - 1])
               /\ M = k[m]
  <2>1. M = MarkSubtree(S, base, t, W, "all", no)
    BY Zenon DEF MarkedInAllLayers
  <2> HIDE DEF base, m, M, W, no
  <2> QED
    BY <2>1, MarkSubtreeRounds DEF m
<1>5. k[0] = {t}
  <2> HIDE DEF base
  <2> QED
    BY <1>1, <1>4
<1>6. m \in Nat
  BY WindowsAssumption, FS_CardinalityType
<1> HIDE DEF M, Grown, base, m
<1>7. {t} \in T /\ \A X \in T : Hang(X) \in T
  OBVIOUS
<1>8. \A n \in 0..m : k[n] \in T
  <2>1. \A n \in 1..m : k[n - 1] \in T => k[n] \in T
    <3> SUFFICES ASSUME NEW n \in 1..m, k[n - 1] \in T PROVE k[n] \in T
      OBVIOUS
    <3>1. k[n] = Hang(k[n - 1])
      BY <1>3, <1>4
    <3> HIDE DEF T, Hang
    <3> QED
      BY <1>7, <3>1
  <2>2. k[0] \in T
    BY <1>5, <1>7
  <2> HIDE DEF T
  <2> QED
    BY <1>6, <2>1, <2>2, Along
<1>9. M \in T
  <2>1. m \in 0..m
    BY <1>6
  <2> HIDE DEF T
  <2> QED
    BY <1>4, <1>8, <2>1
<1>10. Hang(M) = M
  <2>1. \A n \in 1..m : k[n] = Hang(k[n - 1])
    <3> SUFFICES ASSUME NEW n \in 1..m PROVE k[n] = Hang(k[n - 1])
      OBVIOUS
    <3>1. n - 1 \in 0..m
      BY <1>6
    <3>2. k[n - 1] \in SUBSET W
      BY <1>8, <3>1
    <3> HIDE DEF W, Hang
    <3> QED
      BY <1>3, <1>4, <3>2
  <2>2. \A X \in SUBSET W : Hang(X) \in SUBSET W /\ X \subseteq Hang(X)
    OBVIOUS
  <2>3. k[0] \in SUBSET W /\ k[0] # {}
    BY <1>5
  <2> DEFINE g == [X \in SUBSET W |-> Hang(X)]
  <2>4. g \in [SUBSET W -> SUBSET W] /\ \A X \in SUBSET W : g[X] = Hang(X)
    <3> HIDE DEF W, Hang
    <3> QED
      BY <2>2
  <2>5. \A n \in 0..m : k[n] \in SUBSET W
    BY <1>8
  <2> HIDE DEF W, Hang, g
  <2>6. \A n \in 1..m : k[n] = g[k[n - 1]]
    <3> SUFFICES ASSUME NEW n \in 1..m PROVE k[n] = g[k[n - 1]]
      OBVIOUS
    <3>1. n - 1 \in 0..m
      BY <1>6
    <3> QED
      BY <2>1, <2>4, <2>5, <3>1
  <2>7. \A X \in SUBSET W : X \subseteq g[X]
    BY <2>2, <2>4
  <2>8. g[k[m]] = k[m]
    BY <1>2, <2>3, <2>4, <2>6, <2>7, RoundsEnd DEF m
  <2>9. k[m] \in SUBSET W
    BY <1>6, <2>5
  <2> QED
    BY <1>4, <2>4, <2>8, <2>9
<1> QED
  BY <1>9, <1>10 DEF M

\* Iconify lowers the window, with its transients, and makes icons of them.
LEMMA IconifyDoes ==
  ASSUME NEW S, Fine(S), NEW w \in ToSet(S.ring)
  PROVE  /\ Keeps(S, IconifyWindow(S, w))
         /\ Lost(IconifyWindow(S, w)) \subseteq Lost(S)
         /\ S.marks.kept = FALSE /\ w \notin S.byParent /\ Reachable(S)
              => Reachable(IconifyWindow(S, w))
<1> DEFINE M == MarkedInAllLayers(S, w)
           I == S.iconified \cup M
           N == S.mapped \ M
           B == S.byParent \cup (M \ {w})
           R == [S EXCEPT !.iconified = I, !.mapped = N, !.byParent = B,
                          !.marks = NoMarks]
           Q == LowerWindow(R, w)
           T == FocusGrabButtonsOnLayer(Q, S.layer[w])
<1>1. S \in States /\ ToSet(S.ring) \subseteq Windows
  BY Fields, ListPlaces DEF Fine
<1>2. M \subseteq ToSet(S.ring)
  BY MarkedInAllLayersDoes
<1>3. IconifyWindow(S, w) = IF w \in S.byParent THEN R ELSE T
  BY Zenon DEF IconifyWindow
<1>10. S.marks.kept = FALSE => \A u \in M \ {w} : S.parent[u] \in M
  BY MarkedInAllLayersClosed
<1> HIDE DEF M
<1>4. /\ I \cup B \cup N \subseteq ToSet(S.ring) /\ N \cap I = {}
  BY <1>2 DEF Fine
<1>11. S.marks.kept = FALSE /\ Reachable(S)
       => \A u \in B : u \in I /\ S.parent[u] \in I
  BY <1>10 DEF Reachable
<1>14. N \subseteq S.mapped
  OBVIOUS
<1> HIDE DEF I, N, B
<1>5. /\ R \in States /\ R.view = S.view /\ R.ring = S.ring /\ R.layer = S.layer
      /\ R.iconified = I /\ R.byParent = B /\ R.mapped = N /\ R.x = S.x /\ R.parent = S.parent
      /\ R.published = S.published /\ R.grabbed = S.grabbed /\ R.marks = NoMarks
  BY <1>1, <1>4, NoMarksType DEF States
<1> HIDE DEF R
<1>6. Keeps(S, R)
  <2>1. /\ R.grabbed \cup R.marks.in \subseteq ToSet(S.ring)
        /\ R.iconified \cup R.byParent \cup R.mapped \subseteq ToSet(S.ring)
        /\ R.mapped \cap R.iconified = {}
    BY <1>4, <1>5, NoMarksType DEF Fine
  <2> QED
    BY <1>5, <2>1, FlagsDo
<1>15. Lost(R) \subseteq Lost(S)
  BY <1>5, <1>14 DEF Lost, AboveInLayer, InLayer
<1>7. Keeps(R, Q) /\ SameFlags(R, Q) /\ Lost(Q) \subseteq Lost(R)
  <2>1. Fine(R) /\ w \in ToSet(R.ring)
    BY <1>5, <1>6 DEF Keeps
  <2> QED
    BY <2>1, LowerWindowDoes
<1> HIDE DEF Q
<1>8. Keeps(S, Q)
  BY <1>6, <1>7, KeepsTwice
<1>9. Keeps(S, T)
  BY <1>8, KeepsGrabs
<1>12. SameFlags(R, T)
  BY <1>7, GrabsFlags DEF Keeps
<1>16. Lost(T) \subseteq Lost(S)
  BY <1>7, <1>15, GrabsDo DEF Keeps
<1> HIDE DEF T
<1>13. S.marks.kept = FALSE /\ Reachable(S) => Reachable(T)
  BY <1>5, <1>11, <1>12 DEF Reachable, SameFlags
<1> QED
  BY <1>3, <1>6, <1>9, <1>13, <1>15, <1>16

\* One step of IconOwner.
OwnerNext(S, w) ==
  IF w \in S.byParent /\ TransientFor(S, w) # None THEN S.parent[w] ELSE w
OwnerStep(S, w, up, n) == IF n = 0 THEN w ELSE OwnerNext(S, up[n - 1])

\* The window whose icon stands for a managed window is managed.
LEMMA IconOwnerDoes ==
  ASSUME NEW S, NEW w \in ToSet(S.ring)
  PROVE  IconOwner(S, w) \in ToSet(S.ring)
<1> DEFINE m == Cardinality(Windows)
           T == ToSet(S.ring)
<1>1. m \in Nat
  BY WindowsAssumption, FS_CardinalityType
<1>2. w \in T
  OBVIOUS
<1>3. ASSUME NEW R \in T, NEW n \in 1..m PROVE OwnerNext(S, R) \in T
  BY ParentsManaged DEF OwnerNext
<1> DEFINE g == [n \in 1..m |-> [R \in T |-> OwnerNext(S, R)]]
           k == CHOOSE d : d = [n \in 0..m |-> OwnerStep(S, w, d, n)]
<1>4. PICK h \in [0..m -> T] : h[0] = w /\ \A n \in 1..m : h[n] = g[n][h[n - 1]]
  <2>1. g \in [1..m -> [T -> T]]
    <3> HIDE DEF T, m
    <3> QED
      BY <1>3
  <2>2. m \in Nat
    BY <1>1
  <2> HIDE DEF g, m, T
  <2>3. Iterates(T, w, m, g)
    BY <1>2, <2>1, <2>2, Iteration
  <2> QED
    BY <2>3 DEF Iterates
<1>5. h = [n \in 0..m |-> OwnerStep(S, w, h, n)]
  <2>1. ASSUME NEW n \in 0..m PROVE h[n] = OwnerStep(S, w, h, n)
    <3>1. CASE n = 0
      BY <1>4, <3>1 DEF OwnerStep
    <3>2. CASE n # 0
      <4>1. n \in 1..m /\ n - 1 \in 0..m
        BY <1>1, <3>2
      <4>2. h[n - 1] \in T /\ h[n] = g[n][h[n - 1]]
        <5> HIDE DEF g, m, T
        <5> QED
          BY <1>4, <4>1
      <4>3. g[n][h[n - 1]] = OwnerNext(S, h[n - 1])
        <5> HIDE DEF T, m
        <5> QED
          BY <4>1, <4>2
      <4> HIDE DEF g, m, T
      <4> QED
        BY <3>2, <4>2, <4>3 DEF OwnerStep
    <3> QED
      BY <3>1, <3>2
  <2> QED
    BY <2>1
<1>6. k = [n \in 0..m |-> OwnerStep(S, w, k, n)]
  BY <1>5, Zenon
<1>7. IconOwner(S, w) = k[m]
  BY Zenon DEF IconOwner, OwnerStep, OwnerNext
<1> HIDE DEF k, g
<1>8. k[0] = w /\ \A n \in 1..m : k[n] = OwnerNext(S, k[n - 1])
  <2>1. 0 \in 0..m /\ \A n \in 1..m : n \in 0..m /\ n # 0
    BY <1>1
  <2> HIDE DEF m
  <2> QED
    BY <1>6, <2>1 DEF OwnerStep
<1>9. k[m] \in T
  <2>1. m \in Nat /\ m \in 0..m
    BY <1>1
  <2>2. k[0] \in T /\ \A n \in 1..m : k[n - 1] \in T => k[n] \in T
    <3> HIDE DEF T, m
    <3> QED
      BY <1>2, <1>3, <1>8
  <2> HIDE DEF T, m
  <2>3. \A n \in 0..m : k[n] \in T
    BY <2>1, <2>2, Along
  <2> QED
    BY <2>1, <2>3
<1> QED
  BY <1>7, <1>9 DEF T

\* DeIconify raises the window that owns the icon, with its transients.
LEMMA DeIconifyDoes ==
  ASSUME NEW S, Fine(S), NEW w \in ToSet(S.ring)
  PROVE  /\ Keeps(S, DeIconifyWindow(S, w))
         /\ DeIconifyWindow(S, w).mapped \subseteq S.mapped
              => Lost(DeIconifyWindow(S, w)) \subseteq Lost(S)
         /\ S.marks.kept = FALSE /\ Reachable(S) => Reachable(DeIconifyWindow(S, w))
<1> DEFINE o == IconOwner(S, w)
           M == MarkedInAllLayers(S, o)
           I == S.iconified \ M
           N == S.mapped \cup M
           B == S.byParent \ (M \cup {o})
           R == [S EXCEPT !.iconified = I, !.mapped = N, !.byParent = B,
                          !.marks = NoMarks]
           Q == RaiseWindow(R, o)
           T == FocusGrabButtonsOnLayer(Q, S.layer[o])
<1>1. S \in States /\ ToSet(S.ring) \subseteq Windows
  BY Fields, ListPlaces DEF Fine
<1>2. DeIconifyWindow(S, w) = T
  BY Zenon DEF DeIconifyWindow
<1>3. o \in ToSet(S.ring)
  BY IconOwnerDoes
<1> HIDE DEF o
<1>4. M \subseteq ToSet(S.ring)
  BY <1>3, MarkedInAllLayersDoes
<1>11. S.marks.kept = FALSE
       => \A u \in ToSet(S.ring) : S.parent[u] \in M => u \in M
  BY <1>3, MarkedInAllLayersClosed
<1> HIDE DEF M
<1>5. /\ I \cup B \cup N \subseteq ToSet(S.ring) /\ N \cap I = {}
  BY <1>4 DEF Fine
<1>12. S.marks.kept = FALSE /\ Reachable(S)
       => \A u \in B : u \in I /\ S.parent[u] \in I
  BY <1>11 DEF Reachable, Fine
<1> HIDE DEF I, N, B
<1>6. /\ R \in States /\ R.view = S.view /\ R.ring = S.ring /\ R.layer = S.layer
      /\ R.iconified = I /\ R.byParent = B /\ R.mapped = N /\ R.x = S.x /\ R.parent = S.parent
      /\ R.published = S.published /\ R.grabbed = S.grabbed /\ R.marks = NoMarks
  BY <1>1, <1>5, NoMarksType DEF States
<1> HIDE DEF R
<1>7. Keeps(S, R)
  <2>1. /\ R.grabbed \cup R.marks.in \subseteq ToSet(S.ring)
        /\ R.iconified \cup R.byParent \cup R.mapped \subseteq ToSet(S.ring)
        /\ R.mapped \cap R.iconified = {}
    BY <1>5, <1>6, NoMarksType DEF Fine
  <2> QED
    BY <1>6, <2>1, FlagsDo
<1>8. Keeps(R, Q) /\ SameFlags(R, Q) /\ Lost(Q) \subseteq Lost(R)
  <2>1. Fine(R) /\ o \in ToSet(R.ring)
    BY <1>3, <1>6, <1>7 DEF Keeps
  <2> QED
    BY <2>1, RaiseWindowDoes
<1> HIDE DEF Q
<1>9. Keeps(S, Q)
  BY <1>7, <1>8, KeepsTwice
<1>10. Keeps(S, T)
  BY <1>9, KeepsGrabs
<1>13. SameFlags(R, T)
  BY <1>8, GrabsFlags DEF Keeps
<1>15. Lost(T) \subseteq Lost(R)
  BY <1>8, GrabsDo DEF Keeps
<1> HIDE DEF T
<1>16. T.mapped \subseteq S.mapped => Lost(R) \subseteq Lost(S)
  BY <1>6, <1>13 DEF SameFlags, Lost, AboveInLayer, InLayer
<1>14. S.marks.kept = FALSE /\ Reachable(S) => Reachable(T)
  BY <1>6, <1>12, <1>13 DEF Reachable, SameFlags
<1> QED
  BY <1>2, <1>10, <1>14, <1>15, <1>16

-----------------------------------------------------------------------------
(* The steps of the specification.                                           *)

\* There is a lowest layer.
LEMMA LowestLayerExists == LowestLayer \in Layers
<1>1. Min(Layers) \in Layers /\ \A m \in Layers : Min(Layers) <= m
  BY LayersAssumption, LeastExists
<1> QED
  BY <1>1 DEF LowestLayer

\* The inductive invariant of the theorems that need no more than that.
Consistent ==
  /\ Fine(Now) /\ ToSet(published) = Managed /\ mapping \subseteq Managed
  /\ ServerAgrees

\* What a step says of the published list.
ListStep == published' = ring' \/ (ring' = ring /\ published' = published)

\* A step that changes no flag of icons and no hint.
FlagsKept == parent' = parent /\ iconified' = iconified /\ byParent' = byParent

\* The fields of the record of the present state.
LEMMA NowFields ==
  /\ Now.ring = ring /\ Now.layer = layer /\ Now.parent = parent
  /\ Now.iconified = iconified /\ Now.byParent = byParent /\ Now.mapped = mapped
  /\ Now.x = x /\ Now.view = view /\ Now.published = published
  /\ Now.grabbed = grabbed /\ Now.marks = marks
BY DEF Now

\* The record of the next state.
LEMMA NowBecomes ==
  ASSUME NEW STATE S, S \in States, Becomes(S)
  PROVE  Now' = S
<1>1. S = [ring |-> S.ring, layer |-> S.layer, parent |-> S.parent,
           iconified |-> S.iconified, byParent |-> S.byParent, mapped |-> S.mapped,
           x |-> S.x, view |-> S.view, published |-> S.published,
           grabbed |-> S.grabbed, marks |-> S.marks]
  BY DEF States
<1> QED
  BY <1>1, Zenon DEF Now, Becomes

\* A step to a state that has the same windows keeps the invariant.
LEMMA ConsistentStep ==
  ASSUME Consistent, NEW STATE S, Becomes(S), Fine(S), ToSet(S.ring) = ToSet(Now.ring),
         Publishes(Now, S), Serves(Now, S), mapping' \subseteq ToSet(S.ring)
  PROVE  Consistent' /\ ListStep
<1>1. /\ Fine(S) /\ ring' = S.ring /\ published' = S.published /\ x' = S.x
      /\ ToSet(S.ring) = ToSet(ring)
  BY NowFields DEF Becomes
<1>2. S \in States
  BY DEF Fine
<1>3. Now' = S
  BY <1>2, NowBecomes
<1>4. Fine(Now)'
  BY <1>1, <1>3, Zenon
<1>5. ListStep
  BY <1>1, NowFields DEF ListStep, Publishes
<1>6. ServerAgrees'
  BY <1>1, NowFields DEF Serves, Consistent, ServerAgrees
<1>7. ToSet(published') = ToSet(ring') /\ mapping' \subseteq ToSet(ring')
  BY <1>1, <1>5 DEF ListStep, Consistent, Managed
<1> QED
  BY <1>4, <1>5, <1>6, <1>7 DEF Consistent, Managed

\* A step that keeps all in order.
LEMMA KeepsStep ==
  ASSUME Consistent, NEW STATE S, Becomes(S), Keeps(Now, S), mapping' \subseteq ToSet(S.ring)
  PROVE  Consistent' /\ ListStep /\ (LayerOrder => LayerOrder')
<1>1. Consistent' /\ ListStep
  BY ConsistentStep DEF Keeps
<1>2. layer' = S.layer /\ ring' = S.ring
  BY DEF Becomes
<1>3. Descending(layer, ring) => Descending(layer', ring')
  BY <1>2, NowFields DEF Keeps, KeepsLayers
<1> QED
  BY <1>1, <1>3 DEF LayerOrder, Descending

\* A step that leaves the mapping of windows alone.
LEMMA KeepsUnchanged ==
  ASSUME Consistent, NEW STATE S, Becomes(S), Keeps(Now, S), UNCHANGED mapping
  PROVE  Consistent' /\ ListStep /\ (LayerOrder => LayerOrder')
<1>1. mapping' \subseteq ToSet(S.ring)
  BY NowFields DEF Consistent, Managed, Keeps
<1> QED
  BY <1>1, KeepsStep

\* A step to a state with the same flags.
LEMMA FlagsStep ==
  ASSUME NEW STATE S, Becomes(S), SameFlags(Now, S)
  PROVE  FlagsKept
BY NowFields DEF Becomes, SameFlags, FlagsKept

\* No mark is kept when one that needs none kept may start.
LEMMA NoneKept ==
  ASSUME Consistent, Unmarked, ~StaleMarks
  PROVE  Now.marks.kept = FALSE
<1>1. Now.marks.kept \in BOOLEAN
  BY Fields DEF Consistent, Fine, Marks
<1>2. ~Now.marks.kept
  BY NowFields DEF Unmarked
<1> QED
  BY <1>1, <1>2

\* The flags of icons in the next state.
LEMMA ReachableStep ==
  ASSUME NEW STATE S, Becomes(S)
  PROVE  (IconsReachable <=> Reachable(Now)) /\ (IconsReachable' <=> Reachable(S))
BY NowFields DEF Becomes, IconsReachable, Reachable

\* What ClicksRaise says of a step.
ClicksKept ==
  mapping' = {} => ClicksLost' \subseteq {v \in ClicksLost : \A w \in mapping : layer[w] # layer[v]}

\* The clicks that are lost now, and in the next state.
LEMMA ClicksAre ==
  ASSUME Consistent, NEW S, S = [Now EXCEPT !.mapped = mapped \ mapping]
  PROVE  /\ Fine(S) /\ Lost(S) = ClicksLost /\ S.ring = ring /\ S.layer = layer
         /\ S.mapped = mapped \ mapping /\ S.grabbed = grabbed
<1>1. Now \in States /\ Fine(Now)
  BY DEF Consistent, Fine
<1>2. /\ S \in States /\ S.view = view /\ S.ring = ring /\ S.layer = layer
      /\ S.iconified = iconified /\ S.byParent = byParent /\ S.parent = parent
      /\ S.mapped = mapped \ mapping /\ S.x = x /\ S.published = published
      /\ S.grabbed = grabbed /\ S.marks = marks
  <2>1. mapped \ mapping \in SUBSET Windows
    BY <1>1, Fields, NowFields
  <2> QED
    BY <1>1, <2>1, NowFields DEF States
<1>3. Fine(S)
  BY <1>1, <1>2, NowFields DEF Fine
<1>4. Lost(S) = ClicksLost
  BY <1>2, NowFields DEF Lost, ClicksLost, AboveInLayer, InLayer
<1> QED
  BY <1>2, <1>3, <1>4

\* If no MapNotify is on its way, they are those of the record.
LEMMA ClicksNow ==
  ASSUME mapping = {} PROVE Lost(Now) = ClicksLost
BY NowFields DEF Lost, ClicksLost, AboveInLayer, InLayer

\* The clicks that are lost in the next state.
LEMMA ClicksNext ==
  ASSUME NEW STATE S, Becomes(S), mapping' = {}
  PROVE  ClicksLost' = Lost(S)
<1>1. /\ ring' = S.ring /\ layer' = S.layer /\ mapped' = S.mapped /\ grabbed' = S.grabbed
  BY DEF Becomes
<1> QED
  BY <1>1 DEF Lost, ClicksLost, AboveInLayer, InLayer, Now

\* A step that takes no click while no MapNotify is on its way.
LEMMA ClicksStep ==
  ASSUME NEW STATE S, Becomes(S), Lost(S) \subseteq Lost(Now), mapping = {}
  PROVE  ClicksKept
BY ClicksNow, ClicksNext DEF ClicksKept

\* The same for a step that leaves the mapping of windows alone.
LEMMA ClicksUnchanged ==
  ASSUME NEW STATE S, Becomes(S), Lost(S) \subseteq Lost(Now), UNCHANGED mapping
  PROVE  ClicksKept
<1>1. CASE mapping' = {}
  BY <1>1, ClicksStep
<1>2. CASE mapping' # {}
  BY <1>2 DEF ClicksKept
<1> QED
  BY <1>1, <1>2

\* Raise.
LEMMA RaiseStepKeeps ==
  ASSUME Consistent, NEW w \in Windows, CmdRaise(w)
  PROVE  /\ Consistent' /\ ListStep /\ (LayerOrder => LayerOrder') /\ FlagsKept
         /\ ClicksKept
<1> DEFINE S == RaiseWindow(Now, w)
<1>1. Fine(Now) /\ w \in ToSet(Now.ring)
  BY NowFields DEF Consistent, CmdRaise, Managed
<1>2. Keeps(Now, S) /\ SameFlags(Now, S) /\ Lost(S) \subseteq Lost(Now)
  BY <1>1, RaiseWindowDoes
<1>3. Becomes(S) /\ UNCHANGED mapping
  BY DEF CmdRaise
<1> HIDE DEF S
<1> QED
  BY <1>2, <1>3, KeepsUnchanged, FlagsStep, ClicksUnchanged

\* Lower.
LEMMA LowerKeeps ==
  ASSUME Consistent, NEW w \in Windows, CmdLower(w)
  PROVE  /\ Consistent' /\ ListStep /\ (LayerOrder => LayerOrder') /\ FlagsKept
         /\ ClicksKept
<1> DEFINE S == LowerWindow(Now, w)
<1>1. Fine(Now) /\ w \in ToSet(Now.ring)
  BY NowFields DEF Consistent, CmdLower, Managed
<1>2. Keeps(Now, S) /\ SameFlags(Now, S) /\ Lost(S) \subseteq Lost(Now)
  BY <1>1, LowerWindowDoes
<1>3. Becomes(S) /\ UNCHANGED mapping
  BY DEF CmdLower
<1> HIDE DEF S
<1> QED
  BY <1>2, <1>3, KeepsUnchanged, FlagsStep, ClicksUnchanged

\* RestackTransients keeps the layers apart if no marks are kept.
LEMMA RestackKeeps ==
  ASSUME Consistent, NEW w \in Windows, CmdRestackTransients(w)
  PROVE  /\ Consistent' /\ ListStep /\ (~StaleMarks /\ LayerOrder => LayerOrder')
         /\ FlagsKept /\ (~StaleMarks => ClicksKept)
<1> DEFINE S == RestackWindow(Now, w)
<1>1. Fine(Now) /\ w \in ToSet(Now.ring)
  BY NowFields DEF Consistent, CmdRestackTransients, Managed
<1>2. /\ Restacks(Now, S, "restack", Now.layer[w])
      /\ Now.marks.kept = FALSE => Lost(S) \subseteq Lost(Now)
  BY <1>1, RestackWindowDoes
<1>3. Becomes(S) /\ UNCHANGED mapping /\ Unmarked
  BY DEF CmdRestackTransients
<1> HIDE DEF S
<1>4. /\ Fine(S) /\ ToSet(S.ring) = ToSet(Now.ring) /\ Publishes(Now, S)
      /\ Serves(Now, S) /\ mapping' \subseteq ToSet(S.ring)
  BY <1>2, <1>3, NowFields DEF Restacks, SameWindows, Consistent, Managed
<1>5. Consistent' /\ ListStep
  BY <1>3, <1>4, ConsistentStep
<1>6. ASSUME ~StaleMarks PROVE LayerOrder => LayerOrder'
  <2>1. Now.marks.kept = FALSE
    BY <1>3, <1>6, NoneKept
  <2>2. Keeps(Now, S)
    BY <1>2, <2>1, KeepsRestacks
  <2> QED
    BY <1>3, <2>2, KeepsUnchanged
<1>7. FlagsKept
  <2>1. SameFlags(Now, S)
    BY <1>2 DEF Restacks, SameWindows, SameFlags
  <2> QED
    BY <1>3, <2>1, FlagsStep
<1>8. ASSUME ~StaleMarks PROVE ClicksKept
  <2>1. Now.marks.kept = FALSE
    BY <1>3, <1>8, NoneKept
  <2> QED
    BY <1>2, <1>3, <2>1, ClicksUnchanged
<1> QED
  BY <1>5, <1>6, <1>7, <1>8

\* RaiseLower, which raises or lowers.
LEMMA RaiseLowerKeeps ==
  ASSUME Consistent, NEW w \in Windows, CmdRaiseLower(w)
  PROVE  /\ Consistent' /\ ListStep /\ (LayerOrder => LayerOrder') /\ FlagsKept
         /\ ClicksKept
<1> DEFINE R == UseMarks(Now, w)
           S == IF IsOnTopOfLayer(Now, w) THEN LowerWindow(R, w) ELSE RaiseWindow(R, w)
<1>1. Fine(Now) /\ w \in ToSet(Now.ring)
  BY NowFields DEF Consistent, CmdRaiseLower, Managed
<1>2. Still(Now, R) /\ R.grabbed = Now.grabbed
  <2>1. Still(Now, R)
    BY <1>1, UseMarksDoes
  <2>2. [Now EXCEPT !.marks = NoMarks].grabbed = Now.grabbed
    BY <1>1, CleanDoes
  <2> QED
    BY <2>1, <2>2 DEF UseMarks
<1>3. Becomes(S) /\ UNCHANGED mapping
  BY Zenon DEF CmdRaiseLower
<1> HIDE DEF R
<1>4. Fine(R) /\ w \in ToSet(R.ring)
  BY <1>1, <1>2 DEF Still, SameWindows
<1>5. /\ Keeps(R, LowerWindow(R, w)) /\ Keeps(R, RaiseWindow(R, w))
      /\ SameFlags(R, LowerWindow(R, w)) /\ SameFlags(R, RaiseWindow(R, w))
      /\ Lost(LowerWindow(R, w)) \subseteq Lost(R) /\ Lost(RaiseWindow(R, w)) \subseteq Lost(R)
  BY <1>4, LowerWindowDoes, RaiseWindowDoes
<1>6. Keeps(R, S) /\ SameFlags(R, S) /\ Lost(S) \subseteq Lost(R)
  BY <1>5
<1> HIDE DEF S
<1>7. Keeps(Now, S)
  BY <1>2, <1>6, KeepsStill, KeepsTwice
<1>8. SameFlags(Now, S)
  BY <1>2, <1>6 DEF Still, SameWindows, SameFlags
<1>9. Lost(S) \subseteq Lost(Now)
  BY <1>2, <1>6, LostSame DEF Still, SameWindows
<1> QED
  BY <1>3, <1>7, <1>8, <1>9, KeepsUnchanged, FlagsStep, ClicksUnchanged

\* Layer: the windows that get the new layer go where it begins or ends.
LEMMA LayerKeeps ==
  ASSUME Consistent, NEW w \in Windows, NEW l \in Layers, CmdLayer(w, l)
  PROVE  /\ Consistent' /\ ListStep /\ (LayerOrder => LayerOrder') /\ FlagsKept
         /\ ClicksKept
<1> DEFINE S == NewLayer(Now, w, l)
<1>1. Fine(Now) /\ w \in ToSet(Now.ring)
  BY NowFields DEF Consistent, CmdLayer, Managed
<1>2. Keeps(Now, S) /\ SameFlags(Now, S) /\ Lost(S) \subseteq Lost(Now)
  BY <1>1, NewLayerDoes
<1>3. Becomes(S) /\ UNCHANGED mapping
  BY DEF CmdLayer
<1> HIDE DEF S
<1> QED
  BY <1>2, <1>3, KeepsUnchanged, FlagsStep, ClicksUnchanged

\* A MapNotify moves nothing.
LEMMA MapNotifyKeeps ==
  ASSUME Consistent, NEW w \in Windows, HandleMapNotify(w)
  PROVE  /\ Consistent' /\ ListStep /\ (LayerOrder => LayerOrder')
         /\ parent' = parent /\ byParent' = byParent /\ iconified' = iconified \ {w}
         /\ ClicksKept
<1> DEFINE N == mapped \cup {w}
           I == iconified \ {w}
           R == [Now EXCEPT !.mapped = @ \cup {w}, !.iconified = @ \ {w}]
           S == FocusGrabButtonsOnLayer(R, layer[w])
<1>1. Fine(Now) /\ Now \in States /\ w \in ToSet(Now.ring)
  BY NowFields DEF Consistent, HandleMapNotify, Managed, Fine
<1>2. Becomes(S) /\ mapping' = mapping \ {w}
  BY Zenon DEF HandleMapNotify
<1>3. /\ N \cup I \subseteq ToSet(Now.ring) /\ N \cap I = {}
  BY <1>1, NowFields DEF Fine
<1>4. R = [Now EXCEPT !.mapped = N, !.iconified = I]
  BY <1>1, NowFields DEF States
<1> HIDE DEF N, I
<1>5. /\ R \in States /\ R.view = Now.view /\ R.ring = Now.ring /\ R.layer = Now.layer
      /\ R.iconified = I /\ R.byParent = Now.byParent /\ R.parent = Now.parent /\ R.mapped = N /\ R.x = Now.x
      /\ R.published = Now.published /\ R.grabbed = Now.grabbed /\ R.marks = Now.marks
  <2>1. N \in SUBSET Windows /\ I \in SUBSET Windows
    <3>1. ToSet(Now.ring) \subseteq Windows
      BY <1>1, Fields, ListPlaces
    <3> QED
      BY <1>3, <3>1
  <2> HIDE DEF R
  <2> QED
    BY <1>1, <1>4, <2>1 DEF States
<1> HIDE DEF R
<1>6. Keeps(Now, R)
  <2>1. /\ R.grabbed \cup R.marks.in \subseteq ToSet(Now.ring)
        /\ R.iconified \cup R.byParent \cup R.mapped \subseteq ToSet(Now.ring)
        /\ R.mapped \cap R.iconified = {}
    BY <1>1, <1>3, <1>5 DEF Fine
  <2> QED
    BY <1>1, <1>5, <2>1, FlagsDo
<1>6a. R.mapped = mapped \cup {w}
  BY <1>5 DEF N
<1>7. R.iconified = iconified \ {w} /\ R.parent = parent /\ R.byParent = byParent
  BY <1>5, NowFields DEF I
<1>8. SameFlags(R, S)
  BY <1>6, GrabsFlags DEF Keeps, SameFlags
<1>9. Keeps(Now, S)
  BY <1>6, KeepsGrabs
<1>9a. Fine(R) /\ \A v \in Lost(S) : v \in Lost(R) /\ R.layer[v] # layer[w]
  BY <1>6, GrabsDo DEF Keeps
<1>9b. ClicksKept
  <2>1. SUFFICES ASSUME mapping' = {}, NEW v \in ClicksLost'
                 PROVE  v \in ClicksLost /\ \A u \in mapping : layer[u] # layer[v]
    BY DEF ClicksKept
  <2>2. v \in Lost(S)
    BY <1>2, <2>1, ClicksNext
  <2>3. v \in Lost(R) /\ R.layer = layer /\ layer[v] # layer[w]
    BY <1>5, <1>9a, <2>2, NowFields
  <2>4. mapping = {w}
    BY <1>2, <2>1 DEF HandleMapNotify
  <2> DEFINE O == [Now EXCEPT !.mapped = mapped \ mapping]
  <2> HIDE DEF O
  <2>5. /\ Fine(O) /\ Lost(O) = ClicksLost /\ O.ring = ring /\ O.layer = layer
        /\ O.mapped = mapped \ mapping /\ O.grabbed = grabbed
    BY ClicksAre DEF O
  <2>6. /\ R.ring = O.ring /\ R.layer = O.layer /\ R.grabbed = O.grabbed
        /\ R.mapped = mapped \cup {w}
    BY <1>5, <1>6a, <2>5, NowFields
  <2>7. v \in Lost(O)
    <3> DEFINE V == {w}
    <3>1. /\ Without(R.ring, V) = Without(O.ring, V)
          /\ R.mapped \ V \subseteq O.mapped /\ O.grabbed \ V \subseteq R.grabbed
          /\ v \notin V /\ \A u \in ToSet(R.ring) : R.layer[u] = R.layer[v]
                              => u \notin V /\ O.layer[u] = O.layer[v]
      BY <2>3, <2>4, <2>5, <2>6
    <3> HIDE DEF V
    <3> QED
      BY <1>9a, <2>3, <2>5, <3>1, LostKept
  <2> QED
    BY <2>3, <2>4, <2>5, <2>7
<1> HIDE DEF S
<1>10. mapping' \subseteq ToSet(S.ring)
  BY <1>2, <1>9, NowFields DEF Keeps, Consistent, Managed
<1>11. parent' = parent /\ byParent' = byParent /\ iconified' = iconified \ {w}
  BY <1>2, <1>7, <1>8 DEF Becomes, SameFlags
<1>12. Consistent' /\ ListStep /\ (LayerOrder => LayerOrder')
  BY <1>2, <1>9, <1>10, KeepsStep
<1> QED
  BY <1>9b, <1>11, <1>12

\* Iconify lowers a window that was not iconified with its parent.
LEMMA IconifyKeeps ==
  ASSUME Consistent, NEW w \in Windows, Iconify(w)
  PROVE  /\ Consistent' /\ ListStep /\ (LayerOrder => LayerOrder') /\ ClicksKept
         /\ ~StaleMarks /\ IconsReachable => IconsReachable'
<1> DEFINE S == IconifyWindow(Now, w)
<1>1. Fine(Now) /\ w \in ToSet(Now.ring)
  BY NowFields DEF Consistent, Iconify, Managed
<1>2. /\ Keeps(Now, S) /\ Lost(S) \subseteq Lost(Now)
      /\ Now.marks.kept = FALSE /\ w \notin Now.byParent /\ Reachable(Now) => Reachable(S)
  BY <1>1, IconifyDoes
<1>3. Becomes(S) /\ UNCHANGED mapping /\ w \notin iconified /\ Unmarked
  BY DEF Iconify
<1> HIDE DEF S
<1>4. Consistent' /\ ListStep /\ (LayerOrder => LayerOrder') /\ ClicksKept
  BY <1>2, <1>3, KeepsUnchanged, ClicksUnchanged
<1>5. ASSUME ~StaleMarks, IconsReachable PROVE IconsReachable'
  <2>1. Now.marks.kept = FALSE
    BY <1>3, <1>5, NoneKept
  <2>2. w \notin Now.byParent
    BY <1>3, <1>5, NowFields DEF IconsReachable
  <2> QED
    BY <1>2, <1>3, <1>5, <2>1, <2>2, ReachableStep
<1> QED
  BY <1>4, <1>5

\* DeIconify raises the window whose icon is opened.
LEMMA DeIconifyKeeps ==
  ASSUME Consistent, NEW w \in Windows, DeIconify(w)
  PROVE  /\ Consistent' /\ ListStep /\ (LayerOrder => LayerOrder') /\ ClicksKept
         /\ ~StaleMarks /\ IconsReachable => IconsReachable'
<1> DEFINE S == DeIconifyWindow(Now, w)
<1>1. Fine(Now) /\ w \in ToSet(Now.ring)
  BY NowFields DEF Consistent, DeIconify, Managed, Fine
<1>2. /\ Keeps(Now, S) /\ (S.mapped \subseteq Now.mapped => Lost(S) \subseteq Lost(Now))
      /\ Now.marks.kept = FALSE /\ Reachable(Now) => Reachable(S)
  BY <1>1, DeIconifyDoes
<1>3. Becomes(S) /\ mapping' = mapped' \ mapped /\ mapping = {} /\ Unmarked
  BY DEF DeIconify
<1> HIDE DEF S
<1>4. mapping' \subseteq ToSet(S.ring)
  BY <1>2, <1>3 DEF Keeps, Fine, Becomes
<1>5. Consistent' /\ ListStep /\ (LayerOrder => LayerOrder')
  BY <1>2, <1>3, <1>4, KeepsStep
<1>6. ASSUME ~StaleMarks, IconsReachable PROVE IconsReachable'
  <2>1. Now.marks.kept = FALSE
    BY <1>3, <1>6, NoneKept
  <2> QED
    BY <1>2, <1>3, <1>6, <2>1, ReachableStep
<1>7. ClicksKept
  <2>1. CASE mapping' = {}
    <3>1. S.mapped \subseteq Now.mapped
      BY <1>3, <2>1, NowFields DEF Becomes
    <3> QED
      BY <1>2, <1>3, <3>1, ClicksStep
  <2>2. CASE mapping' # {}
    BY <2>2 DEF ClicksKept
  <2> QED
    BY <2>1, <2>2
<1> QED
  BY <1>5, <1>6, <1>7

\* What a window is transient for.
LEMMA HintsType ==
  ASSUME NEW w \in Windows, NEW p \in Hints(w), Fine(Now)
  PROVE  ValidTransientFor(w, p) \in Windows \cup {None, Root}
<1>1. Managed \subseteq Windows
  BY Fields, ListPlaces, NowFields DEF Fine, Managed
<1>2. p \in Windows \cup {None, Root}
  BY <1>1 DEF Hints
<1>3. ValidTransientFor(w, p) \in {Root, p}
  BY Zenon DEF ValidTransientFor
<1> QED
  BY <1>2, <1>3

\* A new transient hint raises the window.
LEMMA HintKeeps ==
  ASSUME Consistent, NEW w \in Windows, NEW p \in Hints(w), HandleTransientFor(w, p)
  PROVE  /\ Consistent' /\ ListStep /\ (LayerOrder => LayerOrder')
         /\ iconified' = iconified /\ mapping' = mapping /\ ClicksKept
<1> DEFINE v == ValidTransientFor(w, p)
           P == [parent EXCEPT ![w] = v]
           R == [Now EXCEPT !.parent[w] = ValidTransientFor(w, p)]
           S == IF p = None THEN R ELSE RaiseWindow(R, w)
<1>1. Fine(Now) /\ Now \in States /\ w \in ToSet(Now.ring)
  BY NowFields DEF Consistent, HandleTransientFor, Managed, Fine
<1>2. Becomes(S) /\ UNCHANGED mapping
  BY Zenon DEF HandleTransientFor
<1>3. v \in Windows \cup {None, Root}
  BY <1>1, HintsType
<1>4. P \in [Windows -> Windows \cup {None, Root}]
  <2>1. parent \in [Windows -> Windows \cup {None, Root}]
    BY <1>1, Fields, NowFields
  <2> HIDE DEF v
  <2> QED
    BY <1>3, <2>1
<1>5. R = [Now EXCEPT !.parent = P]
  BY <1>1, NowFields DEF States
<1> HIDE DEF P
<1>6. /\ R \in States /\ R.view = Now.view /\ R.ring = Now.ring /\ R.layer = Now.layer
      /\ R.iconified = Now.iconified /\ R.byParent = Now.byParent
      /\ R.mapped = Now.mapped /\ R.x = Now.x
      /\ R.published = Now.published /\ R.grabbed = Now.grabbed /\ R.marks = Now.marks
  <2> HIDE DEF R
  <2> QED
    BY <1>1, <1>4, <1>5 DEF States
<1> HIDE DEF R
<1>7. Keeps(Now, R)
  <2>1. /\ R.grabbed \cup R.marks.in \subseteq ToSet(Now.ring)
        /\ R.iconified \cup R.byParent \cup R.mapped \subseteq ToSet(Now.ring)
        /\ R.mapped \cap R.iconified = {}
    BY <1>1, <1>6 DEF Fine
  <2> QED
    BY <1>1, <1>6, <2>1, FlagsDo
<1>8. /\ Keeps(R, RaiseWindow(R, w)) /\ SameFlags(R, RaiseWindow(R, w))
      /\ Lost(RaiseWindow(R, w)) \subseteq Lost(R)
  <2>1. Fine(R) /\ w \in ToSet(R.ring)
    BY <1>1, <1>7 DEF Keeps
  <2> QED
    BY <2>1, RaiseWindowDoes
<1>9. Keeps(Now, S)
  BY <1>7, <1>8, KeepsTwice
<1>10. S.iconified = iconified
  BY <1>6, <1>8, NowFields DEF SameFlags
<1>12. Lost(S) \subseteq Lost(Now)
  <2>1. Lost(R) = Lost(Now)
    BY <1>6, LostSame
  <2> QED
    BY <1>8, <2>1
<1> HIDE DEF S
<1>11. iconified' = iconified
  BY <1>2, <1>10 DEF Becomes
<1> QED
  BY <1>2, <1>9, <1>11, <1>12, KeepsUnchanged, ClicksUnchanged

\* A withdrawn window disappears everywhere.
LEMMA WithdrawKeeps ==
  ASSUME Consistent, NEW w \in Windows, Withdraw(w)
  PROVE  /\ Consistent' /\ ListStep /\ (LayerOrder => LayerOrder')
         /\ iconified' \subseteq iconified /\ mapping' \subseteq mapping /\ ClicksKept
<1> DEFINE rest == Without(ring, {w})
           restX == Without(x, {w})
           restView == Without(view, {w})
           L == [layer EXCEPT ![w] = LowestLayer]
           P == [parent EXCEPT ![w] = None]
           m == [kept |-> marks.kept, in |-> marks.in \ {w}, linked |-> marks.linked \ {w}]
           R == [Now EXCEPT !.ring = rest, !.x = restX, !.view = restView,
                   !.published = rest, !.layer = L, !.parent = P,
                   !.iconified = iconified \ {w}, !.byParent = byParent \ {w},
                   !.mapped = mapped \ {w}, !.grabbed = grabbed \ {w}, !.marks = m]
           S == FocusGrabButtonsOnLayer(R, layer[w])
<1>1. Fine(Now) /\ Now \in States /\ w \in ToSet(ring) /\ mapping' = mapping \ {w}
  BY NowFields DEF Consistent, Withdraw, Managed, Fine
<1>2. /\ ring \in Lists /\ IsInjective(ring) /\ x \in Lists /\ IsInjective(x)
      /\ view \in Lists /\ layer \in [Windows -> Layers] /\ layer \in Levels
      /\ parent \in [Windows -> Windows \cup {None, Root}]
      /\ iconified \in SUBSET Windows /\ byParent \in SUBSET Windows
      /\ mapped \in SUBSET Windows /\ grabbed \in SUBSET Windows /\ marks \in Marks
      /\ ToSet(x) = ToSet(ring) /\ (Listening => ToSet(view) = ToSet(ring))
      /\ x = ring
  <2>1. IsInjective(ring) /\ IsInjective(x) /\ ToSet(x) = ToSet(ring)
        /\ (Listening => ToSet(view) = ToSet(ring))
    BY <1>1, NowFields DEF Fine
  <2>2. /\ ring \in Lists /\ x \in Lists
        /\ view \in Lists /\ layer \in [Windows -> Layers] /\ layer \in Levels
        /\ parent \in [Windows -> Windows \cup {None, Root}]
        /\ iconified \in SUBSET Windows /\ byParent \in SUBSET Windows
        /\ mapped \in SUBSET Windows /\ grabbed \in SUBSET Windows /\ marks \in Marks
    BY <1>1, Fields, NowFields
  <2>3. x = ring
    BY DEF Consistent, ServerAgrees
  <2> QED
    BY <2>1, <2>2, <2>3
<1>3. R = [Now EXCEPT !.ring = rest, !.x = Without(@, {w}),
                 !.view = Without(@, {w}), !.published = rest,
                 !.layer[w] = LowestLayer, !.parent[w] = None,
                 !.iconified = @ \ {w}, !.byParent = @ \ {w},
                 !.mapped = @ \ {w}, !.grabbed = @ \ {w},
                 !.marks = [kept |-> @.kept, in |-> @.in \ {w},
                            linked |-> @.linked \ {w}]]
  BY DEF Now
<1>4. Becomes(S)
  BY <1>3, Zenon DEF Withdraw
<1>5. /\ rest \in Lists /\ ToSet(rest) = ToSet(ring) \ {w} /\ IsInjective(rest)
      /\ restX = rest
      /\ restView \in Lists /\ ToSet(restView) = ToSet(view) \ {w}
  BY <1>2, WithoutDoes
<1>6. m \in Marks /\ m.in = marks.in \ {w}
  BY <1>2 DEF Marks
<1>7. L \in [Windows -> Layers] /\ \A v \in Windows \ {w} : L[v] = layer[v]
  <2>1. LowestLayer \in Layers
    BY LowestLayerExists
  <2> QED
    BY <1>2, <2>1
<1>8. P \in [Windows -> Windows \cup {None, Root}]
  BY <1>2
<1> HIDE DEF rest, restX, restView, L, P, m
<1>9. /\ R \in States /\ R.view = restView /\ R.ring = rest /\ R.layer = L /\ R.parent = P
      /\ R.iconified = iconified \ {w} /\ R.byParent = byParent \ {w}
      /\ R.mapped = mapped \ {w} /\ R.x = restX /\ R.published = rest
      /\ R.grabbed = grabbed \ {w} /\ R.marks = m
  BY <1>1, <1>2, <1>5, <1>6, <1>7, <1>8 DEF States
<1> HIDE DEF R
<1>10. Fine(R)
  <2>1. /\ iconified \cup byParent \cup mapped \subseteq ToSet(ring)
        /\ mapped \cap iconified = {} /\ grabbed \cup marks.in \subseteq ToSet(ring)
    BY <1>1, NowFields DEF Fine
  <2>2. /\ IsInjective(R.ring) /\ IsInjective(R.x) /\ ToSet(R.x) = ToSet(R.ring)
    BY <1>5, <1>9
  <2>3. Listening => ToSet(R.view) = ToSet(R.ring)
    BY <1>2, <1>5, <1>9
  <2>4. /\ R.iconified \cup R.byParent \cup R.mapped \subseteq ToSet(R.ring)
        /\ R.mapped \cap R.iconified = {}
        /\ R.grabbed \cup R.marks.in \subseteq ToSet(R.ring)
    BY <1>5, <1>6, <1>9, <2>1
  <2> QED
    BY <1>9, <2>2, <2>3, <2>4 DEF Fine
<1>11. Still(R, S) /\ \A v \in Lost(S) : v \in Lost(R) /\ R.layer[v] # layer[w]
  BY <1>10, GrabsDo
<1>11a. Without(rest, {w}) = Without(ring, {w})
  <2>1. {w} \cap ToSet(rest) = {}
    BY <1>5
  <2>2. Without(rest, {w}) = rest
    BY <1>5, <2>1, WithoutDoes
  <2> QED
    BY <2>2 DEF rest
<1> HIDE DEF S
<1>12. /\ Fine(S) /\ S \in States /\ S.ring = rest /\ S.x = rest /\ S.published = rest
       /\ S.layer = L
  BY <1>5, <1>9, <1>11 DEF Still, SameWindows, Fine
<1>13. ring' = rest /\ x' = rest /\ published' = rest /\ layer' = L
  BY <1>4, <1>12 DEF Becomes
<1>14. Fine(Now)'
  <2>1. Now' = S
    BY <1>4, <1>12, NowBecomes
  <2> QED
    BY <1>12, <2>1, Zenon
<1>15. Consistent'
  <2>1. mapping' \subseteq ToSet(ring')
    BY <1>1, <1>5, <1>13 DEF Consistent, Managed
  <2> QED
    BY <1>13, <1>14, <2>1 DEF Consistent, Managed, ServerAgrees
<1>16. LayerOrder => LayerOrder'
  <2>1. SUFFICES ASSUME Descending(layer, ring) PROVE Descending(L, rest)
    BY <1>13 DEF LayerOrder, Descending
  <2>2. Descending(layer, rest)
    BY <1>2, <2>1, WithoutDescending DEF rest
  <2>3. DOMAIN rest = 1..Len(rest) /\ \A i \in 1..Len(rest) : rest[i] \in ToSet(rest)
    BY <1>5, ListPlaces
  <2>4. ToSet(ring) \subseteq Windows
    BY <1>2, ListPlaces
  <2>5. \A i \in DOMAIN rest : L[rest[i]] = layer[rest[i]]
    BY <1>5, <1>7, <2>3, <2>4
  <2> QED
    BY <2>2, <2>5 DEF Descending
<1>17. iconified' = iconified \ {w}
  BY <1>4, <1>9, <1>11 DEF Still, SameWindows, Becomes
<1>18. ClicksKept
  <2>1. SUFFICES ASSUME mapping' = {}, NEW v \in ClicksLost'
                 PROVE  v \in ClicksLost /\ \A u \in mapping : layer[u] # layer[v]
    BY DEF ClicksKept
  <2>2. v \in Lost(S)
    BY <1>4, <2>1, ClicksNext
  <2>3. v \in Lost(R) /\ L[v] # layer[w]
    BY <1>9, <1>11, <2>2
  <2>4. v \in mapped \ {w}
    BY <1>9, <2>3 DEF Lost
  <2>5. layer[v] # layer[w] /\ mapping \subseteq {w}
    BY <1>1, <1>2, <1>7, <2>1, <2>3, <2>4
  <2> DEFINE O == [Now EXCEPT !.mapped = mapped \ mapping]
  <2> HIDE DEF O
  <2>6. /\ Fine(O) /\ Lost(O) = ClicksLost /\ O.ring = ring /\ O.layer = layer
        /\ O.mapped = mapped \ mapping /\ O.grabbed = grabbed
    BY ClicksAre DEF O
  <2>7. v \in Lost(O)
    <3> DEFINE V == {w}
    <3>1. /\ Without(R.ring, V) = Without(O.ring, V)
          /\ R.mapped \ V \subseteq O.mapped /\ O.grabbed \ V \subseteq R.grabbed
          /\ v \notin V
      BY <1>9, <1>11a, <2>4, <2>5, <2>6
    <3>2. \A u \in ToSet(R.ring) : R.layer[u] = R.layer[v]
            => u \notin V /\ O.layer[u] = O.layer[v]
      <4>1. ToSet(ring) \subseteq Windows
        BY <1>2, ListPlaces
      <4> QED
        BY <1>2, <1>5, <1>7, <1>9, <2>4, <2>6, <4>1
    <3> HIDE DEF V
    <3> QED
      BY <1>10, <2>3, <2>6, <3>1, <3>2, LostKept
  <2> QED
    BY <2>5, <2>6, <2>7
<1> QED
  BY <1>1, <1>13, <1>15, <1>16, <1>17, <1>18 DEF ListStep

\* The neighbours of a window in a list.
LEMMA NeighboursAbove ==
  ASSUME NEW q \in Lists, IsInjective(q), NEW w \in ToSet(q)
  PROVE  Above(q, PrevIn(q, w), NextIn(q, w))
<1> DEFINE k == Place(q, w)
           s1 == PrevIn(q, w)
           s2 == NextIn(q, w)
<1>1. k \in 1..Len(q) /\ q[k] = w /\ Len(q) \in Nat /\ q # <<>>
  BY PlaceIn, ListPlaces
<1> HIDE DEF k
<1>2. \A i \in 1..Len(q) : q[i] \in ToSet(q) /\ Place(q, q[i]) = i
  BY ListPlaces, PlaceIs
<1>3. s1 = None \/ (s1 \in ToSet(q) /\ Place(q, s1) <= k)
  <2>1. SUFFICES ASSUME w # q[1] PROVE s1 \in ToSet(q) /\ Place(q, s1) <= k
    BY DEF PrevIn
  <2>2. s1 = q[k - 1]
    BY <2>1 DEF PrevIn, k
  <2>3. k # 1
    BY <1>1, <2>1
  <2>4. k - 1 \in 1..Len(q) /\ k - 1 <= k
    BY <1>1, <2>3
  <2> HIDE DEF s1
  <2> QED
    BY <1>2, <2>2, <2>4
<1>4. s2 = None \/ (s2 \in ToSet(q) /\ k <= Place(q, s2))
  <2>1. SUFFICES ASSUME w # q[Len(q)] PROVE s2 \in ToSet(q) /\ k <= Place(q, s2)
    BY DEF NextIn
  <2>2. s2 = q[k + 1]
    BY <2>1 DEF NextIn, k
  <2>3. k # Len(q)
    BY <1>1, <2>1
  <2>4. k + 1 \in 1..Len(q) /\ k <= k + 1
    BY <1>1, <2>3
  <2> HIDE DEF s2
  <2> QED
    BY <1>2, <2>2, <2>4
<1> HIDE DEF s1, s2
<1>5. s1 = None \/ s2 = None \/ Place(q, s1) <= Place(q, s2)
  <2>1. \A v \in ToSet(q) : Place(q, v) \in Int
    BY <1>1, PlaceIn
  <2> QED
    BY <1>1, <1>3, <1>4, <2>1
<1> QED
  BY <1>1, <1>3, <1>4, <1>5, AboveSome DEF s1, s2

\* A window that is put next to another one of its layer.
LEMMA NextToDoes ==
  ASSUME NEW q \in Lists, IsInjective(q), NEW w \in ToSet(q), NEW s \in ToSet(q), w # s,
         NEW L \in Levels, L[w] = L[s], NEW z,
         z = PlaceAbove(q, <<w>>, s) \/ z = PlaceBelow(q, <<w>>, s)
  PROVE  /\ z \in Lists /\ ToSet(z) = ToSet(q) /\ IsInjective(z)
         /\ Descending(L, q) => Descending(L, z)
<1> DEFINE p == <<w>>
           o == Without(q, {w})
           k == Place(o, s)
<1>1. w \in Windows /\ s \in Windows /\ L[s] \in Int
  BY ListPlaces DEF Levels
<1>2. p \in Lists /\ ToSet(p) = {w} /\ IsInjective(p)
  BY <1>1, ShortLists
<1>3. s \in ToSet(q) \ ToSet(p)
  BY <1>2
<1>4. o = Without(q, ToSet(p))
  BY <1>2
<1>5. o \in Lists /\ IsInjective(o) /\ ToSet(o) = ToSet(q) \ {w}
  BY WithoutDoes
<1> HIDE DEF p, o
<1>6. k \in 1..Len(o) /\ o[k] = s /\ Len(o) \in Nat
  BY <1>2, <1>3, <1>5, PlaceIn, ListPlaces
<1>7. PICK i \in {k - 1, k} : z = Splice(o, i, p)
  BY <1>4 DEF PlaceAbove, PlaceBelow, p
<1> HIDE DEF k
<1>8. i \in 0..Len(o)
  BY <1>6, <1>7
<1>9. z \in Lists /\ ToSet(z) = ToSet(q) /\ IsInjective(z)
  <2>1. /\ Splice(o, i, p) \in Lists
        /\ ToSet(Splice(o, i, p)) = ToSet(o) \cup ToSet(p)
        /\ IsInjective(o) /\ IsInjective(p) /\ ToSet(o) \cap ToSet(p) = {}
             => IsInjective(Splice(o, i, p))
    BY <1>2, <1>5, <1>8, SpliceLists
  <2>2. ToSet(o) \cap ToSet(p) = {} /\ ToSet(o) \cup ToSet(p) = ToSet(q)
    BY <1>2, <1>5
  <2> QED
    BY <1>2, <1>5, <1>7, <2>1, <2>2
<1>10. ASSUME Descending(L, q) PROVE Descending(L, z)
  <2>1. Descending(L, o)
    BY <1>10, WithoutDescending DEF o
  <2>2. DOMAIN o = 1..Len(o) /\ \A j \in 1..Len(o) : L[o[j]] \in Int
    BY <1>5, ListPlaces DEF Levels
  <2>3. \A j \in 1..i : L[o[j]] >= L[s]
    <3> SUFFICES ASSUME NEW j \in 1..i PROVE L[o[j]] >= L[s]
      OBVIOUS
    <3>1. j \in 1..Len(o) /\ (j < k \/ j = k)
      BY <1>6, <1>7
    <3> QED
      BY <1>1, <1>6, <2>1, <2>2, <3>1 DEF Descending
  <2>4. \A j \in (i + 1)..Len(o) : L[o[j]] <= L[s]
    <3> SUFFICES ASSUME NEW j \in (i + 1)..Len(o) PROVE L[o[j]] <= L[s]
      OBVIOUS
    <3>1. j \in 1..Len(o) /\ (k < j \/ j = k)
      BY <1>6, <1>7
    <3>2. k < j => L[o[k]] >= L[o[j]]
      BY <1>6, <2>1, <2>2, <3>1 DEF Descending
    <3> QED
      BY <1>1, <1>6, <2>2, <3>1, <3>2
  <2>5. \A v \in ToSet(p) : L[v] = L[s]
    BY <1>2
  <2> QED
    BY <1>1, <1>2, <1>5, <1>7, <1>8, <2>1, <2>3, <2>4, <2>5, SpliceDescending
<1> QED
  BY <1>9, <1>10

\* The request of a client moves the window in the ring and in the server.
LEMMA ConfigureKeeps ==
  ASSUME Consistent, NEW w \in Windows, NEW s \in Windows, NEW above,
         HandleConfigureRequest(w, s, above)
  PROVE  Consistent' /\ (LayerOrder => LayerOrder') /\ FlagsKept
<1> DEFINE z == IF above THEN PlaceAbove(ring, <<w>>, s) ELSE PlaceBelow(ring, <<w>>, s)
           R == [Now EXCEPT !.ring = z, !.x = z]
           S == BroadcastRestack(R, PrevIn(R.ring, w), NextIn(R.ring, w))
<1>1. /\ Fine(Now) /\ Now \in States /\ w \in ToSet(ring) /\ s \in ToSet(ring) /\ w # s
      /\ layer[w] = layer[s] /\ mapping' = mapping
  BY NowFields DEF Consistent, HandleConfigureRequest, Managed, Fine
<1>2. x = ring /\ ToSet(published) = ToSet(ring) /\ mapping \subseteq ToSet(ring)
  BY DEF Consistent, ServerAgrees, Managed
<1>3. ring \in Lists /\ IsInjective(ring) /\ layer \in Levels
  BY <1>1, Fields, NowFields DEF Fine
<1>4. R = [Now EXCEPT !.ring = IF above THEN PlaceAbove(@, <<w>>, s)
                          ELSE PlaceBelow(@, <<w>>, s),
                 !.x = IF above THEN PlaceAbove(@, <<w>>, s)
                       ELSE PlaceBelow(@, <<w>>, s)]
  BY <1>2 DEF Now
<1>5. Becomes(S)
  BY <1>4, Zenon DEF HandleConfigureRequest
<1>6. /\ z \in Lists /\ ToSet(z) = ToSet(ring) /\ IsInjective(z)
      /\ Descending(layer, ring) => Descending(layer, z)
  <2>1. z = PlaceAbove(ring, <<w>>, s) \/ z = PlaceBelow(ring, <<w>>, s)
    OBVIOUS
  <2> HIDE DEF z
  <2> QED
    BY <1>1, <1>3, <2>1, NextToDoes
<1> HIDE DEF z
<1>7. /\ R \in States /\ R.view = view /\ R.ring = z /\ R.layer = layer
      /\ R.parent = parent /\ R.iconified = iconified /\ R.byParent = byParent
      /\ R.mapped = mapped /\ R.x = z /\ R.published = published
      /\ R.grabbed = grabbed /\ R.marks = marks
  <2>1. /\ R \in States /\ R.view = Now.view /\ R.ring = z /\ R.layer = Now.layer
        /\ R.parent = Now.parent /\ R.iconified = Now.iconified /\ R.byParent = Now.byParent
        /\ R.mapped = Now.mapped /\ R.x = z /\ R.published = Now.published
        /\ R.grabbed = Now.grabbed /\ R.marks = Now.marks
    BY <1>1, <1>6 DEF States
  <2> HIDE DEF R
  <2> QED
    BY <2>1, NowFields
<1> HIDE DEF R
<1>8. Fine(R)
  <2>1. /\ Listening => ToSet(view) = ToSet(ring)
        /\ iconified \cup byParent \cup mapped \subseteq ToSet(ring)
        /\ mapped \cap iconified = {} /\ grabbed \cup marks.in \subseteq ToSet(ring)
    BY <1>1, NowFields DEF Fine
  <2> QED
    BY <1>6, <1>7, <2>1 DEF Fine
<1>9. Still(R, S)
  <2>1. Above(R.ring, PrevIn(R.ring, w), NextIn(R.ring, w))
    BY <1>1, <1>6, <1>7, NeighboursAbove
  <2> QED
    BY <1>8, <2>1, BroadcastDoes
<1> HIDE DEF S
<1>10. /\ Fine(S) /\ S \in States /\ S.ring = z /\ S.x = z /\ S.published = published
       /\ S.layer = layer
  BY <1>7, <1>9 DEF Still, SameWindows, Fine
<1>11. ring' = z /\ x' = z /\ published' = published /\ layer' = layer
  BY <1>5, <1>10 DEF Becomes
<1>12. Fine(Now)'
  <2>1. Now' = S
    BY <1>5, <1>10, NowBecomes
  <2> QED
    BY <1>10, <2>1, Zenon
<1>13. Consistent'
  BY <1>1, <1>2, <1>6, <1>11, <1>12 DEF Consistent, Managed, ServerAgrees
<1>14. LayerOrder => LayerOrder'
  BY <1>6, <1>11 DEF LayerOrder, Descending
<1>15. FlagsKept
  BY <1>5, <1>7, <1>9 DEF Still, SameWindows, Becomes, FlagsKept
<1> QED
  BY <1>13, <1>14, <1>15

\* A new window is put on top, everywhere, and then goes into its layer.
LEMMA NewWindowKeeps ==
  ASSUME Consistent, NEW w \in Windows, NEW p \in Hints(w), NEW l \in Layers, NEW lower,
         NewWindow(w, p, l, lower)
  PROVE  /\ Consistent' /\ ListStep /\ (LayerOrder => LayerOrder')
         /\ iconified' = iconified /\ byParent' = byParent
         /\ \A v \in Windows \ {w} : parent'[v] = parent[v]
<1> DEFINE one == <<w>>
           top == one \o ring
           topX == one \o x
           topView == one \o view
           L == [layer EXCEPT ![w] = l]
           P == [parent EXCEPT ![w] = ValidTransientFor(w, p)]
           N == [Now EXCEPT !.ring = top, !.x = topX, !.layer = L, !.parent = P]
           S == Send(N, topView)
           R == PositionNewWindow(S, w, lower)
           T == [R EXCEPT !.published = R.ring]
<1>1. /\ Fine(Now) /\ Now \in States /\ w \notin ToSet(ring)
      /\ mapping' = mapping \cup {w}
  BY NowFields DEF Consistent, NewWindow, Managed, Fine
<1>2. /\ ring \in Lists /\ IsInjective(ring) /\ view \in Lists
      /\ layer \in [Windows -> Layers] /\ layer \in Levels
      /\ parent \in [Windows -> Windows \cup {None, Root}]
      /\ (Listening => ToSet(view) = ToSet(ring))
      /\ x = ring /\ mapping \subseteq ToSet(ring)
  <2>1. IsInjective(ring) /\ (Listening => ToSet(view) = ToSet(ring))
    BY <1>1, NowFields DEF Fine
  <2>2. /\ ring \in Lists /\ view \in Lists /\ layer \in [Windows -> Layers]
        /\ layer \in Levels /\ parent \in [Windows -> Windows \cup {None, Root}]
    BY <1>1, Fields, NowFields
  <2>3. x = ring /\ mapping \subseteq ToSet(ring)
    BY DEF Consistent, ServerAgrees, Managed
  <2> QED
    BY <2>1, <2>2, <2>3
<1>3. N = [Now EXCEPT !.ring = <<w>> \o @, !.x = <<w>> \o @,
                 !.layer[w] = l, !.parent[w] = ValidTransientFor(w, p)]
  BY DEF Now
<1>4. Becomes(T)
  BY <1>3, Zenon DEF NewWindow
<1>5. one \in Lists /\ ToSet(one) = {w} /\ IsInjective(one)
  BY ShortLists
<1> HIDE DEF one
<1>6. /\ top \in Lists /\ ToSet(top) = {w} \cup ToSet(ring) /\ IsInjective(top)
      /\ topX = top
      /\ topView \in Lists /\ ToSet(topView) = {w} \cup ToSet(view)
  <2>1. /\ top \in Lists /\ ToSet(top) = ToSet(one) \cup ToSet(ring)
        /\ IsInjective(top)
             = (IsInjective(one) /\ IsInjective(ring) /\ ToSet(one) \cap ToSet(ring) = {})
    BY <1>2, <1>5, JoinLists
  <2>2. topView \in Lists /\ ToSet(topView) = ToSet(one) \cup ToSet(view)
    BY <1>2, <1>5, JoinLists
  <2> HIDE DEF topView
  <2>3. topX = top
    BY <1>2
  <2> HIDE DEF top, topX
  <2>4. ToSet(one) \cap ToSet(ring) = {}
    BY <1>1, <1>5
  <2> QED
    BY <1>2, <1>5, <2>1, <2>2, <2>3, <2>4
<1>7. /\ L \in [Windows -> Layers] /\ L \in Levels
      /\ \A v \in Windows \ {w} : L[v] = layer[v]
  <2>1. L \in [Windows -> Layers] /\ \A v \in Windows \ {w} : L[v] = layer[v]
    BY <1>2
  <2>2. Layers \subseteq Int
    BY LayersAssumption
  <2> HIDE DEF L
  <2> QED
    BY <2>1, <2>2 DEF Levels
<1>8. P \in [Windows -> Windows \cup {None, Root}]
  <2>1. ValidTransientFor(w, p) \in Windows \cup {None, Root}
    BY <1>1, HintsType
  <2> QED
    BY <1>2, <2>1
<1>9. Without(top, {w}) = ring
  <2>1. Without(one, {w}) \in Lists /\ ToSet(Without(one, {w})) = ToSet(one) \ {w}
    BY <1>5, WithoutDoes
  <2>2. ToSet(Without(one, {w})) = {}
    BY <1>5, <2>1
  <2>3. Without(one, {w}) = <<>>
    BY <2>1, <2>2, ListPlaces
  <2>4. Without(ring, {w}) = ring
    <3>1. {w} \cap ToSet(ring) = {}
      BY <1>1
    <3> QED
      BY <1>2, <3>1, WithoutDoes
  <2>5. Without(one \o ring, {w}) = Without(one, {w}) \o Without(ring, {w})
    BY <1>2, <1>5, WithoutJoin
  <2>6. <<>> \o ring = ring
    BY <1>2, JoinAppend
  <2> QED
    BY <2>3, <2>4, <2>5, <2>6
<1>0. \A v \in Windows \ {w} : P[v] = parent[v]
  BY <1>2
<1> HIDE DEF top, topX, topView, L, P
<1>10. /\ S \in States /\ S.ring = top /\ S.layer = L /\ S.parent = P
       /\ S.iconified = iconified /\ S.byParent = byParent /\ S.mapped = mapped
       /\ S.x = top /\ S.published = published /\ S.grabbed = grabbed /\ S.marks = marks
       /\ S.view = IF Listening THEN topView ELSE view
  <2>1. /\ N \in States /\ N.ring = top /\ N.layer = L /\ N.parent = P
        /\ N.iconified = Now.iconified /\ N.byParent = Now.byParent /\ N.mapped = Now.mapped
        /\ N.x = top /\ N.published = Now.published /\ N.grabbed = Now.grabbed
        /\ N.marks = Now.marks /\ N.view = Now.view
    BY <1>1, <1>6, <1>7, <1>8 DEF States
  <2>2. /\ N \in States /\ N.ring = top /\ N.layer = L /\ N.parent = P
        /\ N.iconified = iconified /\ N.byParent = byParent /\ N.mapped = mapped
        /\ N.x = top /\ N.published = published /\ N.grabbed = grabbed
        /\ N.marks = marks /\ N.view = view
    <3> HIDE DEF N
    <3> QED
      BY <2>1, NowFields
  <2> HIDE DEF N
  <2> DEFINE V == [N EXCEPT !.view = topView]
  <2>3. /\ V \in States /\ V.ring = N.ring /\ V.layer = N.layer /\ V.parent = N.parent
        /\ V.iconified = N.iconified /\ V.byParent = N.byParent /\ V.mapped = N.mapped
        /\ V.x = N.x /\ V.published = N.published /\ V.grabbed = N.grabbed
        /\ V.marks = N.marks /\ V.view = topView
    BY <1>6, <2>2 DEF States
  <2>4. S = IF Listening THEN V ELSE N
    BY Zenon DEF Send
  <2> HIDE DEF V, S
  <2>5. CASE Listening
    BY <2>2, <2>3, <2>4, <2>5
  <2>6. CASE ~Listening
    BY <2>2, <2>4, <2>6
  <2> QED
    BY <2>5, <2>6
<1> HIDE DEF N, S
<1>11. Fine(S)
  <2>1. /\ iconified \cup byParent \cup mapped \subseteq ToSet(ring)
        /\ mapped \cap iconified = {} /\ grabbed \cup marks.in \subseteq ToSet(ring)
    BY <1>1, NowFields DEF Fine
  <2>2. IsInjective(S.ring) /\ IsInjective(S.x) /\ ToSet(S.x) = ToSet(S.ring)
    BY <1>6, <1>10
  <2>3. Listening => ToSet(S.view) = ToSet(S.ring)
    BY <1>2, <1>6, <1>10
  <2>4. /\ S.iconified \cup S.byParent \cup S.mapped \subseteq ToSet(S.ring)
        /\ S.mapped \cap S.iconified = {}
        /\ S.grabbed \cup S.marks.in \subseteq ToSet(S.ring)
    BY <1>6, <1>10, <2>1
  <2> QED
    BY <1>10, <2>2, <2>3, <2>4 DEF Fine
<1>12. /\ SameWindows(S, R) /\ Serves(S, R)
       /\ Descending(S.layer, Without(S.ring, {w})) => Descending(R.layer, R.ring)
  <2>1. w \in ToSet(S.ring)
    BY <1>6, <1>10
  <2> QED
    BY <1>11, <2>1, PositionNewWindowDoes
<1> HIDE DEF R
<1>13. /\ R \in States /\ R.ring \in Lists /\ ToSet(R.ring) = {w} \cup ToSet(ring)
       /\ R.x = R.ring /\ R.layer = L /\ Fine(R)
  <2>1. R \in States /\ Fine(R) /\ ToSet(R.ring) = ToSet(S.ring) /\ R.layer = S.layer
    BY <1>12 DEF SameWindows, Fine
  <2>2. R.ring \in Lists
    BY <2>1, Fields
  <2>3. R.x = R.ring
    BY <1>10, <1>12 DEF Serves
  <2> QED
    BY <1>6, <1>10, <2>1, <2>2, <2>3
<1>14. /\ T \in States /\ T.ring = R.ring /\ T.layer = R.layer /\ T.parent = R.parent
       /\ T.iconified = R.iconified /\ T.byParent = R.byParent /\ T.mapped = R.mapped
       /\ T.x = R.x /\ T.view = R.view /\ T.published = R.ring /\ T.grabbed = R.grabbed
       /\ T.marks = R.marks
  BY <1>13 DEF States
<1> HIDE DEF T
<1>15. Fine(T)
  BY <1>13, <1>14 DEF Fine
<1>16. ring' = R.ring /\ x' = R.ring /\ published' = R.ring /\ layer' = L
  BY <1>4, <1>13, <1>14 DEF Becomes
<1>17. Fine(Now)'
  <2>1. Now' = T
    BY <1>4, <1>14, NowBecomes
  <2> QED
    BY <1>15, <2>1, Zenon
<1>18. Consistent'
  BY <1>1, <1>2, <1>13, <1>16, <1>17 DEF Consistent, Managed, ServerAgrees
<1>19. LayerOrder => LayerOrder'
  <2>1. SUFFICES ASSUME Descending(layer, ring) PROVE Descending(L, R.ring)
    BY <1>16 DEF LayerOrder, Descending
  <2>2. DOMAIN ring = 1..Len(ring) /\ \A i \in 1..Len(ring) : ring[i] \in ToSet(ring)
        /\ ToSet(ring) \subseteq Windows
    BY <1>2, ListPlaces
  <2>3. \A i \in DOMAIN ring : L[ring[i]] = layer[ring[i]]
    BY <1>1, <1>7, <2>2
  <2>4. Descending(L, ring)
    BY <2>1, <2>3 DEF Descending
  <2> QED
    BY <1>9, <1>10, <1>12, <1>13, <2>4
<1>20. iconified' = iconified /\ byParent' = byParent /\ parent' = P
  BY <1>4, <1>10, <1>12, <1>14 DEF SameWindows, Becomes
<1> QED
  BY <1>16, <1>18, <1>19, <1>0, <1>20 DEF ListStep

-----------------------------------------------------------------------------
(* Theorems.                                                                 *)

\* There are no windows at first.
LEMMA ConsistentInit == Init => Consistent /\ LayerOrder
<1> SUFFICES ASSUME Init PROVE Consistent /\ LayerOrder
  OBVIOUS
<1>1. <<>> \in Lists /\ ToSet(<<>>) = {} /\ Len(<<>>) = 0 /\ IsInjective(<<>>)
  BY ShortLists
<1>2. /\ Now.ring = <<>> /\ Now.x = <<>> /\ Now.view = <<>> /\ Now.published = <<>>
      /\ Now.layer = [w \in Windows |-> LowestLayer] /\ Now.parent = [w \in Windows |-> None]
      /\ Now.iconified = {} /\ Now.byParent = {} /\ Now.mapped = {} /\ Now.grabbed = {}
      /\ Now.marks = NoMarks
  BY NowFields DEF Init
<1>3. /\ [w \in Windows |-> LowestLayer] \in [Windows -> Layers]
      /\ [w \in Windows |-> None] \in [Windows -> Windows \cup {None, Root}]
  BY LowestLayerExists
<1>4. Now \in States
  <2>1. Now = [ring |-> Now.ring, layer |-> Now.layer, parent |-> Now.parent,
               iconified |-> Now.iconified, byParent |-> Now.byParent,
               mapped |-> Now.mapped, x |-> Now.x, view |-> Now.view,
               published |-> Now.published, grabbed |-> Now.grabbed,
               marks |-> Now.marks]
    BY DEF Now
  <2>2. /\ Now.ring \in Lists /\ Now.x \in Lists /\ Now.view \in Lists
        /\ Now.published \in Lists /\ Now.layer \in [Windows -> Layers]
        /\ Now.parent \in [Windows -> Windows \cup {None, Root}]
        /\ Now.iconified \in SUBSET Windows /\ Now.byParent \in SUBSET Windows
        /\ Now.mapped \in SUBSET Windows /\ Now.grabbed \in SUBSET Windows
        /\ Now.marks \in Marks
    BY <1>1, <1>2, <1>3, NoMarksType
  <2> QED
    BY <2>1, <2>2 DEF States
<1>5. Fine(Now)
  <2>1. NoMarks.in = {}
    BY NoMarksType
  <2> QED
    BY <1>1, <1>2, <1>4, <2>1 DEF Fine
<1>6. DOMAIN ring = {}
  BY DEF Init
<1> QED
  BY <1>1, <1>5, <1>6 DEF Consistent, LayerOrder, ServerAgrees, Managed, Init

\* A step that changes nothing.
LEMMA StutterKeeps ==
  ASSUME Consistent, UNCHANGED vars
  PROVE  Consistent' /\ ListStep /\ (LayerOrder => LayerOrder')
<1>1. /\ ring' = ring /\ layer' = layer /\ parent' = parent /\ iconified' = iconified
      /\ byParent' = byParent /\ mapped' = mapped /\ x' = x /\ view' = view
      /\ published' = published /\ grabbed' = grabbed /\ marks' = marks
      /\ mapping' = mapping
  BY DEF vars
<1>2. Now' = Now
  BY <1>1 DEF Now
<1>3. Fine(Now)'
  <2>1. Fine(Now)
    BY DEF Consistent
  <2> QED
    BY <1>2, <2>1, Zenon
<1>4. Consistent'
  BY <1>1, <1>3 DEF Consistent, Managed, ServerAgrees
<1> QED
  BY <1>1, <1>4 DEF ListStep, LayerOrder

\* Every step keeps the ring, the server's order, the pager's windows and the
\* published list together, publishes what it moves unless a client asked for the
\* move, and keeps the order of the layers if no marks are stale.
LEMMA StepKeeps ==
  ASSUME Consistent, Next
  PROVE  /\ Consistent' /\ (ListStep \/ ClientRestacks)
         /\ (~StaleMarks /\ LayerOrder => LayerOrder')
<1> DEFINE Good == /\ Consistent' /\ (ListStep \/ ClientRestacks)
                   /\ (~StaleMarks /\ LayerOrder => LayerOrder')
<1>0. ASSUME Consistent', ListStep, LayerOrder => LayerOrder' PROVE Good
  BY <1>0
<1>1. ASSUME NEW w \in Windows, NEW p \in Hints(w), NEW l \in Layers,
             NEW lower \in BOOLEAN, NewWindow(w, p, l, lower)
      PROVE  Good
  BY <1>1, NewWindowKeeps
<1>2. ASSUME NEW w \in Windows, HandleMapNotify(w) PROVE Good
  BY <1>2, MapNotifyKeeps
<1>3. ASSUME NEW w \in Windows, Withdraw(w) PROVE Good
  BY <1>3, WithdrawKeeps
<1>4. ASSUME NEW w \in Windows, NEW p \in Hints(w), HandleTransientFor(w, p) PROVE Good
  BY <1>4, HintKeeps
<1>5. ASSUME NEW w \in Windows, CmdRaise(w) PROVE Good
  BY <1>5, RaiseStepKeeps
<1>6. ASSUME NEW w \in Windows, CmdLower(w) PROVE Good
  BY <1>6, LowerKeeps
<1>7. ASSUME NEW w \in Windows, CmdRestackTransients(w) PROVE Good
  BY <1>7, RestackKeeps
<1>8. ASSUME NEW w \in Windows, CmdRaiseLower(w) PROVE Good
  BY <1>8, RaiseLowerKeeps
<1>9. ASSUME NEW w \in Windows, NEW l \in Layers, CmdLayer(w, l) PROVE Good
  BY <1>9, LayerKeeps
<1>10. ASSUME NEW w \in Windows, NEW s \in Windows, NEW above \in BOOLEAN,
              HandleConfigureRequest(w, s, above)
       PROVE  Good
  <2>1. ClientRestacks
    BY <1>10, Zenon DEF ClientRestacks
  <2>2. Consistent' /\ (LayerOrder => LayerOrder')
    BY <1>10, ConfigureKeeps
  <2> QED
    BY <2>1, <2>2
<1>11. ASSUME NEW w \in Windows, Iconify(w) PROVE Good
  BY <1>11, IconifyKeeps
<1>12. ASSUME NEW w \in Windows, DeIconify(w) PROVE Good
  BY <1>12, DeIconifyKeeps
<1> HIDE DEF Good
<1>13. Good
  BY <1>1, <1>2, <1>3, <1>4, <1>5, <1>6, <1>7, <1>8, <1>9, <1>10, <1>11, <1>12, Zenon DEF Next
<1> QED
  BY <1>13 DEF Good

\* A window whose MapNotify is on its way is no icon.
MappingShown == mapping \cap iconified = {}

\* Every step keeps that, and no step makes an icon that cannot be found but one
\* that withdraws a window or changes a hint.
LEMMA StepKeepsIcons ==
  ASSUME Consistent, MappingShown, ~StaleMarks, Next
  PROVE  /\ MappingShown'
         /\ IconsReachable => \/ IconsReachable'
                              \/ \E w \in Windows :
                                   \/ Withdraw(w)
                                   \/ \E p \in Hints(w) : HandleTransientFor(w, p)
<1> DEFINE Loses == \E w \in Windows :
                      Withdraw(w) \/ \E p \in Hints(w) : HandleTransientFor(w, p)
           Good == MappingShown' /\ (IconsReachable => IconsReachable' \/ Loses)
<1>0. ASSUME FlagsKept, mapping' = mapping PROVE Good
  BY <1>0 DEF FlagsKept, IconsReachable, MappingShown
<1>1. ASSUME NEW w \in Windows, NEW p \in Hints(w), NEW l \in Layers,
             NEW lower \in BOOLEAN, NewWindow(w, p, l, lower)
      PROVE  Good
  <2>1. /\ iconified' = iconified /\ byParent' = byParent
        /\ \A v \in Windows \ {w} : parent'[v] = parent[v]
    BY <1>1, NewWindowKeeps
  <2>2. w \notin Managed /\ mapping' = mapping \cup {w}
    BY <1>1 DEF NewWindow
  <2>3. byParent \cup iconified \subseteq Managed /\ Managed \subseteq Windows
    BY NowFields, Fields, ListPlaces DEF Consistent, Fine, Managed
  <2> QED
    BY <2>1, <2>2, <2>3 DEF IconsReachable, MappingShown
<1>2. ASSUME NEW w \in Windows, HandleMapNotify(w) PROVE Good
  <2>1. parent' = parent /\ byParent' = byParent /\ iconified' = iconified \ {w}
    BY <1>2, MapNotifyKeeps
  <2>2. w \in mapping /\ mapping' = mapping \ {w}
    BY <1>2 DEF HandleMapNotify
  <2> QED
    BY <2>1, <2>2 DEF IconsReachable, MappingShown
<1>3. ASSUME NEW w \in Windows, Withdraw(w) PROVE Good
  <2>1. iconified' \subseteq iconified /\ mapping' \subseteq mapping
    BY <1>3, WithdrawKeeps
  <2>2. Loses
    BY <1>3, Zenon
  <2> HIDE DEF Loses
  <2> QED
    BY <2>1, <2>2 DEF MappingShown
<1>4. ASSUME NEW w \in Windows, NEW p \in Hints(w), HandleTransientFor(w, p) PROVE Good
  <2>1. iconified' = iconified /\ mapping' = mapping
    BY <1>4, HintKeeps
  <2>2. Loses
    BY <1>4, Zenon
  <2> HIDE DEF Loses
  <2> QED
    BY <2>1, <2>2 DEF MappingShown
<1>5. ASSUME NEW w \in Windows, CmdRaise(w) PROVE Good
  BY <1>0, <1>5, RaiseStepKeeps DEF CmdRaise
<1>6. ASSUME NEW w \in Windows, CmdLower(w) PROVE Good
  BY <1>0, <1>6, LowerKeeps DEF CmdLower
<1>7. ASSUME NEW w \in Windows, CmdRestackTransients(w) PROVE Good
  BY <1>0, <1>7, RestackKeeps DEF CmdRestackTransients
<1>8. ASSUME NEW w \in Windows, CmdRaiseLower(w) PROVE Good
  BY <1>0, <1>8, RaiseLowerKeeps DEF CmdRaiseLower
<1>9. ASSUME NEW w \in Windows, NEW l \in Layers, CmdLayer(w, l) PROVE Good
  BY <1>0, <1>9, LayerKeeps DEF CmdLayer
<1>10. ASSUME NEW w \in Windows, NEW s \in Windows, NEW above \in BOOLEAN,
              HandleConfigureRequest(w, s, above)
       PROVE  Good
  BY <1>0, <1>10, ConfigureKeeps DEF HandleConfigureRequest
<1>11. ASSUME NEW w \in Windows, Iconify(w) PROVE Good
  <2>1. mapping' = {}
    BY <1>11 DEF Iconify
  <2>2. IconsReachable => IconsReachable'
    BY <1>11, IconifyKeeps
  <2> QED
    BY <2>1, <2>2 DEF MappingShown
<1>12. ASSUME NEW w \in Windows, DeIconify(w) PROVE Good
  <2>1. mapping' \subseteq mapped'
    BY <1>12 DEF DeIconify
  <2>2. (IconsReachable => IconsReachable') /\ Consistent'
    BY <1>12, DeIconifyKeeps
  <2>3. mapped' \cap iconified' = {}
    BY <2>2 DEF Consistent, Fine, Now
  <2> QED
    BY <2>1, <2>2, <2>3 DEF MappingShown
<1> HIDE DEF Good
<1>13. Good
  BY <1>1, <1>2, <1>3, <1>4, <1>5, <1>6, <1>7, <1>8, <1>9, <1>10, <1>11, <1>12, Zenon DEF Next
<1> QED
  BY <1>13 DEF Good

\* If no marks are stale, no step takes a window the click that raises it while no
\* MapNotify is on its way, and a MapNotify gives it back to the windows of the
\* layer of the new window, unless a client asked for the step.
LEMMA StepKeepsClicks ==
  ASSUME Consistent, ~StaleMarks, Next
  PROVE  ClicksKept \/ ClientRestacks
<1> DEFINE Good == ClicksKept \/ ClientRestacks
<1>1. ASSUME NEW w \in Windows, NEW p \in Hints(w), NEW l \in Layers,
             NEW lower \in BOOLEAN, NewWindow(w, p, l, lower)
      PROVE  Good
  <2>1. mapping' # {}
    BY <1>1 DEF NewWindow
  <2> QED
    BY <2>1 DEF ClicksKept
<1>2. ASSUME NEW w \in Windows, HandleMapNotify(w) PROVE Good
  BY <1>2, MapNotifyKeeps
<1>3. ASSUME NEW w \in Windows, Withdraw(w) PROVE Good
  BY <1>3, WithdrawKeeps
<1>4. ASSUME NEW w \in Windows, NEW p \in Hints(w), HandleTransientFor(w, p) PROVE Good
  BY <1>4, HintKeeps
<1>5. ASSUME NEW w \in Windows, CmdRaise(w) PROVE Good
  BY <1>5, RaiseStepKeeps
<1>6. ASSUME NEW w \in Windows, CmdLower(w) PROVE Good
  BY <1>6, LowerKeeps
<1>7. ASSUME NEW w \in Windows, CmdRestackTransients(w) PROVE Good
  BY <1>7, RestackKeeps
<1>8. ASSUME NEW w \in Windows, CmdRaiseLower(w) PROVE Good
  BY <1>8, RaiseLowerKeeps
<1>9. ASSUME NEW w \in Windows, NEW l \in Layers, CmdLayer(w, l) PROVE Good
  BY <1>9, LayerKeeps
<1>10. ASSUME NEW w \in Windows, NEW s \in Windows, NEW above \in BOOLEAN,
              HandleConfigureRequest(w, s, above)
       PROVE  Good
  BY <1>10, Zenon DEF ClientRestacks
<1>11. ASSUME NEW w \in Windows, Iconify(w) PROVE Good
  BY <1>11, IconifyKeeps
<1>12. ASSUME NEW w \in Windows, DeIconify(w) PROVE Good
  BY <1>12, DeIconifyKeeps
<1> HIDE DEF Good
<1>13. Good
  BY <1>1, <1>2, <1>3, <1>4, <1>5, <1>6, <1>7, <1>8, <1>9, <1>10, <1>11, <1>12, Zenon DEF Next
<1> QED
  BY <1>13 DEF Good

\* What keeps together is of the right type.
LEMMA ConsistentType == Consistent => TypeOK
<1> SUFFICES ASSUME Consistent PROVE TypeOK
  OBVIOUS
<1>1. /\ ring \in Lists /\ layer \in [Windows -> Layers]
      /\ parent \in [Windows -> Windows \cup {None, Root}] /\ marks \in Marks
  BY NowFields, Fields DEF Consistent, Fine
<1>2. /\ IsInjective(ring) /\ ToSet(x) = ToSet(ring)
      /\ Listening => ToSet(view) = ToSet(ring)
      /\ iconified \cup byParent \cup mapped \subseteq ToSet(ring)
      /\ mapped \cap iconified = {} /\ grabbed \cup marks.in \subseteq ToSet(ring)
  BY NowFields DEF Consistent, Fine
<1>3. marks.kept \in BOOLEAN /\ marks.in \cup marks.linked \subseteq Windows
  BY <1>1 DEF Marks
<1> QED
  BY <1>1, <1>2, <1>3 DEF TypeOK, Managed, Consistent, Lists

\* The windows of the ring stay those that the server, the pager and the
\* published list have, with the order of the server (all commands and events).
LEMMA StaysConsistent == Spec => []Consistent
<1>1. Init => Consistent
  BY ConsistentInit
<1>2. Consistent /\ [Next]_vars => Consistent'
  BY StepKeeps, StutterKeeps
<1> QED
  BY <1>1, <1>2, PTL DEF Spec

\* Every window of the ring is in it once, the X server, the pager and the
\* published list have exactly the windows of the ring, and no flag, grab or
\* mark is left behind for a window that has gone.
THEOREM TypeCorrect == Spec => []TypeOK
BY StaysConsistent, ConsistentType, PTL

\* The frames of the X server are in the order of the stack ring after every
\* command, request and event, stale marks or not (the last assertion of
\* verify_stack_ring_consistency).
THEOREM ServerFollowsRing == Spec => []ServerAgrees
<1>1. Consistent => ServerAgrees
  BY DEF Consistent
<1> QED
  BY <1>1, StaysConsistent, PTL

\* When nobody but raising uses marks that were kept, the ring is also in the
\* order of the layers: both assertions of verify_stack_ring_consistency.
THEOREM RingStaysConsistent ==
  ASSUME ~StaleMarks
  PROVE  Spec => []RingConsistent
<1> DEFINE Inv == Consistent /\ LayerOrder
<1>1. Init => Inv
  BY ConsistentInit
<1>2. Inv /\ [Next]_vars => Inv'
  BY StepKeeps, StutterKeeps
<1>3. Inv => RingConsistent
  BY DEF Consistent, RingConsistent
<1> QED
  BY <1>1, <1>2, <1>3, PTL DEF Spec

\* Every step that moves a window in the ring makes the published list the ring,
\* and no step changes the list otherwise, but for a client's request to put its
\* window next to another one.
THEOREM MovesArePublished == Spec => ListPublished
<1>1. Consistent /\ [Next]_vars
      => [\/ published' = ring'
          \/ ring' = ring /\ published' = published
          \/ ClientRestacks]_vars
  BY StepKeeps DEF ListStep
<1> QED
  BY <1>1, StaysConsistent, PTL DEF Spec, ListPublished

\* When nobody but raising uses marks that were kept, a transient that was iconified
\* with its parent stays within reach: as long as no window is withdrawn and no hint
\* is changed, the icon of its parent is there to open it (Iconify and DeIconify
\* mark and change whole families, whatever their depth).
THEOREM IconsStayWithinReach ==
  ASSUME ~StaleMarks
  PROVE  Spec => IconsStayReachable
<1> DEFINE Inv == Consistent /\ MappingShown
<1>1. Init => Inv
  BY ConsistentInit DEF Init, MappingShown
<1>2. Inv /\ [Next]_vars => Inv'
  BY StepKeeps, StutterKeeps, StepKeepsIcons DEF MappingShown, vars
<1>3. Inv /\ [Next]_vars
      => [IconsReachable => \/ IconsReachable'
                            \/ \E w \in Windows :
                                 Withdraw(w) \/ \E p \in Hints(w) : HandleTransientFor(w, p)]_vars
  BY StepKeepsIcons
<1> QED
  BY <1>1, <1>2, <1>3, PTL DEF Spec, IconsStayReachable

\* When nobody but raising uses marks that were kept, a window that a click should
\* raise and that another one covers keeps the grab of its buttons through every
\* command and event, but for a client's request to put its window next to another
\* one, and the MapNotify of a new window gives the grab to those it covered
\* (focus_grab_buttons_on_layer after every change of a layer).
THEOREM ClicksAreKept ==
  ASSUME ~StaleMarks
  PROVE  Spec => ClicksRaise
<1>1. Consistent /\ [Next]_vars
      => [mapping' = {}
          => \/ ClicksLost' \subseteq {v \in ClicksLost :
                                       \A w \in mapping : layer[w] # layer[v]}
             \/ ClientRestacks]_vars
  BY StepKeepsClicks DEF ClicksKept
<1> QED
  BY <1>1, StaysConsistent, PTL DEF Spec, ClicksRaise
=============================================================================
