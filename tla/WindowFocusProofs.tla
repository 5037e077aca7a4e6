-------------------------- MODULE WindowFocusProofs --------------------------
(***************************************************************************)
(* Theorems about WindowFocus, for any windows, any styles, any families   *)
(* and any number of requests and events under way.                        *)
(*                                                                         *)
(* First what the operators on queues and on the window list do, then a    *)
(* predicate for what each function of fvwm makes of what it holds (Given, *)
(* Restored, Destroyed, Heard, Adopted, ...), and one for each step of the *)
(* server and of the clients.  The types and the knowledge of the focus    *)
(* are shown to be kept from these predicates alone.                       *)
(***************************************************************************)
EXTENDS WindowFocus, SequenceTheorems, WellFoundedInduction, TLAPS

Requests ==
  [op : {"focus"}, win : Windows \cup {NoFocusWin, None}]
  \cup [op : {"map", "unmap"}, win : Windows]
  \cup [op : {"observe"}, win : Unmanaged]

Events ==
  [type : {"FocusIn"}, win : Windows \cup Unmanaged \cup {NoFocusWin}]
  \cup [type : {"FocusOut"}, win : Unmanaged]
  \cup [type : {"Map"}, win : Windows \cup Unmanaged]
  \cup [type : {"MapRequest", "Unmap"}, win : Windows]

Pointers == Windows \cup {None}

\* What fvwm can hold, were its pointers not to agree with its window list.
Fvwms ==
  [list : Seq(Windows), focus : Pointers, hilite : Pointers, requested : Pointers,
   pending : Pointers, stolen : Pointers, unknown : Windows \cup Unmanaged \cup {None},
   requests : Seq(Requests), events : Seq(Events)]

-----------------------------------------------------------------------------
(* Sequences.                                                                *)

\* Induction over Nat, for a set of numbers.
LEMMA NatSetInduction ==
  ASSUME NEW P \in SUBSET Nat, 0 \in P, \A n \in P : n + 1 \in P
  PROVE  P = Nat
<1>1. SUFFICES ASSUME Nat \ P # {} PROVE FALSE
  OBVIOUS
<1>2. PICK m \in Nat \ P : \A k \in Nat \ P : ~(<<k, m>> \in OpToRel(<, Nat))
  <2>1. Nat \ P \subseteq Nat
    OBVIOUS
  <2> QED
    BY <1>1, <2>1, NatLessThanWellFounded, WFMin
<1>3. \A k \in Nat \ P : ~(k < m)
  BY <1>2 DEF OpToRel
<1>4. m # 0 /\ m - 1 \in Nat /\ m - 1 < m /\ (m - 1) + 1 = m
  OBVIOUS
<1>5. m - 1 \in P
  BY <1>3, <1>4
<1> QED
  BY <1>4, <1>5

\* A set of numbers has a least member.
LEMMA LeastExists ==
  ASSUME NEW S \in SUBSET Nat, S # {}
  PROVE  Min(S) \in S /\ \A j \in S : Min(S) <= j
<1>1. PICK m \in S : \A k \in S : ~(<<k, m>> \in OpToRel(<, Nat))
  BY NatLessThanWellFounded, WFMin
<1>2. ASSUME NEW k \in S PROVE m <= k
  <2>1. ~(<<k, m>> \in OpToRel(<, Nat)) /\ k \in Nat /\ m \in Nat
    BY <1>1
  <2> QED
    BY <2>1 DEF OpToRel
<1> QED
  BY <1>2 DEF Min

\* A bounded set of numbers has a greatest member.
LEMMA GreatestExists ==
  ASSUME NEW n \in Nat, NEW S \in SUBSET (1..n), S # {}
  PROVE  Max(S) \in S /\ \A j \in S : j <= Max(S)
<1> DEFINE T == {k \in 0..n : n - k \in S}
<1>0. ASSUME NEW j \in S PROVE n - j \in T
  <2>1. n - j \in 0..n /\ n - (n - j) = j
    OBVIOUS
  <2> QED
    BY <2>1
<1>1. T \in SUBSET Nat /\ T # {}
  <2>1. PICK j \in S : TRUE
    OBVIOUS
  <2>2. n - j \in T
    BY <1>0
  <2>3. \A k \in T : k \in Nat
    OBVIOUS
  <2> HIDE DEF T
  <2> QED
    BY <2>2, <2>3
<1>2. PICK m \in T : \A k \in T : ~(<<k, m>> \in OpToRel(<, Nat))
  BY <1>1, NatLessThanWellFounded, WFMin
<1>3. ASSUME NEW j \in S PROVE j <= n - m
  <2>1. ~(<<n - j, m>> \in OpToRel(<, Nat))
    BY <1>0, <1>2
  <2>2. n - j \in Nat /\ m \in Nat
    OBVIOUS
  <2> QED
    BY <2>1, <2>2 DEF OpToRel
<1>4. n - m \in S
  OBVIOUS
<1> QED
  BY <1>3, <1>4 DEF Max

-----------------------------------------------------------------------------
(* The events that are left when the FocusIn events are taken.               *)

Ev(F) == ToSet(F.events)
Rq(F) == ToSet(F.requests)

\* One step of OtherEvents: what is kept of the first n events of s.
KeptStep(s, f, n) ==
  IF n = 0 THEN <<>>
  ELSE IF s[n].type = "FocusIn" THEN f[n - 1]
  ELSE Append(f[n - 1], s[n])

\* k is the part of s that is kept, and g says where each of its members stood.
KeptBy(s, k, g, n) ==
  /\ k \in Seq(Events)
  /\ g \in [1..Len(k) -> 1..n]
  /\ \A i \in 1..Len(k) : k[i] = s[g[i]] /\ s[g[i]].type # "FocusIn"
  /\ \A i, j \in 1..Len(k) : i < j => g[i] < g[j]
  /\ \A j \in 1..n : s[j].type # "FocusIn" => \E i \in 1..Len(k) : g[i] = j

\* The recursion of OtherEvents has a solution.
LEMMA KeptExists ==
  ASSUME NEW s, NEW m \in Nat
  PROVE  \E f : f = [n \in 0..m |-> KeptStep(s, f, n)]
<1> DEFINE P == {m1 \in Nat : \E f : f = [n \in 0..m1 |-> KeptStep(s, f, n)]}
<1>1. 0 \in P
  <2> DEFINE f == [n \in 0..0 |-> <<>>]
  <2>1. f = [n \in 0..0 |-> KeptStep(s, f, n)]
    BY DEF KeptStep
  <2> QED
    BY <2>1
<1>2. ASSUME NEW m1 \in P PROVE m1 + 1 \in P
  <2>1. PICK f : f = [n \in 0..m1 |-> KeptStep(s, f, n)]
    OBVIOUS
  <2> DEFINE h == [n \in 0..(m1 + 1) |-> IF n = m1 + 1 THEN KeptStep(s, f, n) ELSE f[n]]
  <2>2. \A n \in 0..(m1 + 1) : KeptStep(s, h, n) = KeptStep(s, f, n)
    <3>1. ASSUME NEW n \in 0..(m1 + 1) PROVE n # 0 => h[n - 1] = f[n - 1]
      OBVIOUS
    <3> QED
      BY <3>1 DEF KeptStep
  <2>3. \A n \in 0..m1 : f[n] = KeptStep(s, f, n)
    BY <2>1
  <2>4. h = [n \in 0..(m1 + 1) |-> KeptStep(s, h, n)]
    BY <2>2, <2>3
  <2>5. \E f1 : f1 = [n \in 0..(m1 + 1) |-> KeptStep(s, f1, n)]
    <3> HIDE DEF h
    <3> QED
      BY <2>4
  <2>6. m1 + 1 \in Nat
    OBVIOUS
  <2> QED
    BY <2>5, <2>6
<1>3. P = Nat
  BY <1>1, <1>2, NatSetInduction
<1> QED
  BY <1>3

\* One more event is kept, or it is a FocusIn event.
LEMMA KeptGrows ==
  ASSUME NEW s \in Seq(Events), NEW n \in 1..Len(s), NEW k, NEW g, KeptBy(s, k, g, n - 1),
         NEW l, l = IF s[n].type = "FocusIn" THEN k ELSE Append(k, s[n])
  PROVE  \E h : KeptBy(s, l, h, n)
<1>0. /\ k \in Seq(Events) /\ Len(k) \in Nat
      /\ g \in [1..Len(k) -> 1..(n - 1)]
      /\ \A i \in 1..Len(k) : k[i] = s[g[i]] /\ s[g[i]].type # "FocusIn"
      /\ \A i, j \in 1..Len(k) : i < j => g[i] < g[j]
      /\ \A j \in 1..(n - 1) : s[j].type # "FocusIn" => \E i \in 1..Len(k) : g[i] = j
  BY DEF KeptBy
<1>1. CASE s[n].type = "FocusIn"
  <2>1. l = k /\ g \in [1..Len(k) -> 1..n]
    BY <1>0, <1>1
  <2>2. \A j \in 1..n : s[j].type # "FocusIn" => j \in 1..(n - 1)
    BY <1>1
  <2>3. KeptBy(s, l, g, n)
    BY <1>0, <2>1, <2>2 DEF KeptBy
  <2> QED
    BY <2>3
<1>2. CASE s[n].type # "FocusIn"
  <2> DEFINE h == [i \in 1..(Len(k) + 1) |-> IF i = Len(k) + 1 THEN n ELSE g[i]]
  <2>1. /\ l = Append(k, s[n]) /\ s[n] \in Events
        /\ l \in Seq(Events) /\ Len(l) = Len(k) + 1
        /\ l[Len(k) + 1] = s[n] /\ \A i \in 1..Len(k) : l[i] = k[i]
    BY <1>0, <1>2
  <2>2. h \in [1..Len(l) -> 1..n]
    <3>1. ASSUME NEW i \in 1..(Len(k) + 1) PROVE h[i] \in 1..n
      <4>1. CASE i = Len(k) + 1
        BY <4>1
      <4>2. CASE i # Len(k) + 1
        <5>1. i \in 1..Len(k) /\ h[i] = g[i]
          BY <4>2, <1>0
        <5> QED
          BY <5>1, <1>0
      <4> QED
        BY <4>1, <4>2
    <3> QED
      BY <2>1, <3>1
  <2>3. \A i \in 1..Len(l) : l[i] = s[h[i]] /\ s[h[i]].type # "FocusIn"
    <3>1. ASSUME NEW i \in 1..Len(l) PROVE l[i] = s[h[i]] /\ s[h[i]].type # "FocusIn"
      <4>1. CASE i = Len(k) + 1
        BY <4>1, <1>2, <2>1
      <4>2. CASE i # Len(k) + 1
        <5>1. i \in 1..Len(k) /\ h[i] = g[i]
          BY <4>2, <1>0, <2>1
        <5> QED
          BY <5>1, <1>0, <2>1
      <4> QED
        BY <4>1, <4>2
    <3> QED
      BY <3>1
  <2>4. \A i, j \in 1..Len(l) : i < j => h[i] < h[j]
    <3>1. ASSUME NEW i \in 1..Len(l), NEW j \in 1..Len(l), i < j PROVE h[i] < h[j]
      <4>1. i \in 1..Len(k) /\ h[i] = g[i] /\ g[i] \in 1..(n - 1)
        BY <1>0, <2>1, <3>1
      <4>2. CASE j = Len(k) + 1
        <5>1. h[j] = n
          BY <4>2, <1>0
        <5> QED
          BY <4>1, <5>1
      <4>3. CASE j # Len(k) + 1
        <5>1. j \in 1..Len(k) /\ h[j] = g[j]
          BY <4>3, <1>0, <2>1
        <5> QED
          BY <4>1, <5>1, <1>0, <3>1
      <4> QED
        BY <4>2, <4>3
    <3> QED
      BY <3>1
  <2>5. \A j \in 1..n : s[j].type # "FocusIn" => \E i \in 1..Len(l) : h[i] = j
    <3>1. ASSUME NEW j \in 1..n, s[j].type # "FocusIn" PROVE \E i \in 1..Len(l) : h[i] = j
      <4>1. CASE j = n
        <5>1. Len(k) + 1 \in 1..Len(l) /\ h[Len(k) + 1] = n
          BY <1>0, <2>1
        <5> QED
          BY <4>1, <5>1
      <4>2. CASE j # n
        <5>1. PICK i \in 1..Len(k) : g[i] = j
          BY <1>0, <3>1, <4>2
        <5>2. i \in 1..Len(l) /\ h[i] = g[i]
          BY <1>0, <2>1
        <5> QED
          BY <5>1, <5>2
      <4> QED
        BY <4>1, <4>2
    <3> QED
      BY <3>1
  <2> HIDE DEF h
  <2>6. KeptBy(s, l, h, n)
    BY <2>1, <2>2, <2>3, <2>4, <2>5 DEF KeptBy
  <2> QED
    BY <2>6
<1> QED
  BY <1>1, <1>2

\* OtherEvents keeps all events but the FocusIn events, in their order.
LEMMA KeptEvents ==
  ASSUME NEW F, F.events \in Seq(Events)
  PROVE  \E g : KeptBy(F.events, OtherEvents(F), g, Len(F.events))
<1> DEFINE s == F.events
           m == Len(s)
           k == CHOOSE f : f = [n \in 0..m |-> KeptStep(s, f, n)]
           P == {n \in Nat : n <= m => \E g : KeptBy(s, k[n], g, n)}
<1>1. s \in Seq(Events) /\ m \in Nat
  OBVIOUS
<1>2. k = [n \in 0..m |-> KeptStep(s, k, n)]
  <2>1. \E f : f = [n \in 0..m |-> KeptStep(s, f, n)]
    BY <1>1, KeptExists
  <2> QED
    BY <2>1, Zenon
<1>3. OtherEvents(F) = k[m]
  BY Zenon DEF OtherEvents, KeptStep
<1> HIDE DEF k, m, s
<1>4. 0 \in P
  <2>1. k[0] = <<>>
    BY <1>1, <1>2 DEF KeptStep
  <2> DEFINE g == [i \in 1..0 |-> 0]
  <2>2. KeptBy(s, k[0], g, 0)
    BY <2>1 DEF KeptBy
  <2>3. \E h : KeptBy(s, k[0], h, 0)
    BY <2>2
  <2> QED
    BY <2>3
<1>5. ASSUME NEW n \in P PROVE n + 1 \in P
  <2>1. SUFFICES ASSUME n + 1 <= m PROVE \E h : KeptBy(s, k[n + 1], h, n + 1)
    OBVIOUS
  <2>2. PICK g : KeptBy(s, k[n], g, n)
    BY <1>1, <2>1
  <2>3. n + 1 \in 1..Len(s) /\ (n + 1) - 1 = n
    BY <1>1, <2>1 DEF m
  <2>4. k[n + 1] = IF s[n + 1].type = "FocusIn" THEN k[n] ELSE Append(k[n], s[n + 1])
    <3>1. n + 1 \in 0..m /\ n + 1 # 0
      BY <1>1, <2>1
    <3>2. k[n + 1] = KeptStep(s, k, n + 1)
      BY <1>2, <3>1
    <3> QED
      BY <2>3, <3>1, <3>2 DEF KeptStep
  <2>5. KeptBy(s, k[n], g, (n + 1) - 1)
    BY <2>2, <2>3
  <2> QED
    BY <1>1, <2>3, <2>4, <2>5, KeptGrows
<1>6. P = Nat
  <2>1. P \in SUBSET Nat
    OBVIOUS
  <2> HIDE DEF P
  <2> QED
    BY <1>4, <1>5, <2>1, NatSetInduction
<1>7. \E g : KeptBy(s, k[m], g, m)
  BY <1>1, <1>6
<1> QED
  BY <1>3, <1>7 DEF s, m

-----------------------------------------------------------------------------
(* The window list.                                                          *)

\* Two lists without repetition and without a common window make one.
LEMMA JoinLists ==
  ASSUME NEW s \in Seq(Windows), NEW t \in Seq(Windows),
         IsInjective(s), IsInjective(t), ToSet(s) \cap ToSet(t) = {}
  PROVE  s \o t \in Seq(Windows) /\ IsInjective(s \o t) /\ ToSet(s \o t) = ToSet(s) \cup ToSet(t)
<1> DEFINE x == s \o t
<1>1. /\ x \in Seq(Windows) /\ Len(x) = Len(s) + Len(t)
      /\ \A i \in 1..Len(x) : x[i] = IF i <= Len(s) THEN s[i] ELSE t[i - Len(s)]
      /\ Len(s) \in Nat /\ Len(t) \in Nat
  OBVIOUS
<1>2. /\ DOMAIN s = 1..Len(s) /\ DOMAIN t = 1..Len(t) /\ DOMAIN x = 1..Len(x)
  OBVIOUS
<1> HIDE DEF x
<1>3. \A i \in 1..Len(s) : i \in 1..Len(x) /\ x[i] = s[i] /\ s[i] \in ToSet(s)
  BY <1>1, <1>2 DEF ToSet
<1>4. \A i \in 1..Len(t) : i + Len(s) \in 1..Len(x) /\ x[i + Len(s)] = t[i] /\ t[i] \in ToSet(t)
  <2>1. ASSUME NEW i \in 1..Len(t)
        PROVE  i + Len(s) \in 1..Len(x) /\ x[i + Len(s)] = t[i] /\ t[i] \in ToSet(t)
    <3>1. i + Len(s) \in 1..Len(x) /\ ~(i + Len(s) <= Len(s)) /\ (i + Len(s)) - Len(s) = i
      BY <1>1
    <3>2. t[i] \in ToSet(t)
      BY <1>2 DEF ToSet
    <3> QED
      BY <1>1, <3>1, <3>2
  <2> QED
    BY <2>1
<1>5. \A i \in 1..Len(x) : i \in 1..Len(s) \/ \E j \in 1..Len(t) : i = j + Len(s)
  <2>1. ASSUME NEW i \in 1..Len(x), i \notin 1..Len(s) PROVE \E j \in 1..Len(t) : i = j + Len(s)
    <3>1. i - Len(s) \in 1..Len(t) /\ i = (i - Len(s)) + Len(s)
      BY <1>1, <2>1
    <3> QED
      BY <3>1
  <2> QED
    BY <2>1
<1>6. ToSet(x) = ToSet(s) \cup ToSet(t)
  <2>1. ASSUME NEW w \in ToSet(x) PROVE w \in ToSet(s) \cup ToSet(t)
    <3>1. PICK i \in 1..Len(x) : w = x[i]
      BY <1>2 DEF ToSet
    <3> QED
      BY <1>3, <1>4, <1>5, <3>1
  <2>2. ASSUME NEW w \in ToSet(s) PROVE w \in ToSet(x)
    BY <1>2, <1>3 DEF ToSet
  <2>3. ASSUME NEW w \in ToSet(t) PROVE w \in ToSet(x)
    <3>1. PICK i \in 1..Len(t) : w = t[i]
      BY <1>2 DEF ToSet
    <3> QED
      BY <1>2, <1>4, <3>1 DEF ToSet
  <2> QED
    BY <2>1, <2>2, <2>3
<1>7. ASSUME NEW i \in 1..Len(x), NEW j \in 1..Len(x), x[i] = x[j] PROVE i = j
  <2>1. CASE i \in 1..Len(s) /\ j \in 1..Len(s)
    BY <1>2, <1>3, <1>7, <2>1 DEF IsInjective
  <2>2. CASE i \in 1..Len(s) /\ j \notin 1..Len(s)
    BY <1>3, <1>4, <1>5, <1>7, <2>2
  <2>3. CASE i \notin 1..Len(s) /\ j \in 1..Len(s)
    BY <1>3, <1>4, <1>5, <1>7, <2>3
  <2>4. CASE i \notin 1..Len(s) /\ j \notin 1..Len(s)
    <3>1. PICK a \in 1..Len(t) : i = a + Len(s)
      BY <1>5, <2>4
    <3>2. PICK b \in 1..Len(t) : j = b + Len(s)
      BY <1>5, <2>4
    <3>3. t[a] = t[b]
      BY <1>4, <1>7, <3>1, <3>2
    <3>4. a = b
      BY <1>2, <3>3 DEF IsInjective
    <3> QED
      BY <3>1, <3>2, <3>4
  <2> QED
    BY <2>1, <2>2, <2>3, <2>4
<1>8. IsInjective(x)
  BY <1>2, <1>7 DEF IsInjective
<1> QED
  BY <1>1, <1>6, <1>8 DEF x

\* The windows in front of one of the list, the window and those behind it.
Parts(F, r, b, a) ==
  /\ b \in Seq(Windows) /\ a \in Seq(Windows) /\ IsInjective(b) /\ IsInjective(a)
  /\ ToSet(b) \cap ToSet(a) = {} /\ ToSet(b) \cup ToSet(a) = Managed(F) \ {r}

\* The windows in front of r, r, and the windows behind it make up the list.
LEMMA ListParts ==
  ASSUME NEW F, F.list \in Seq(Windows), IsInjective(F.list), NEW r \in Managed(F)
  PROVE  Parts(F, r, Before(F, r), After(F, r))
<1> DEFINE l == F.list
           p == Place(F, r)
           a == After(F, r)
           b == Before(F, r)
<1>1. l \in Seq(Windows) /\ Len(l) \in Nat /\ DOMAIN l = 1..Len(l) /\ Managed(F) = ToSet(l)
  BY DEF Managed
<1>2. p \in 1..Len(l) /\ l[p] = r
  <2>1. \E i \in DOMAIN l : l[i] = r
    BY DEF Managed, ToSet
  <2> QED
    BY <1>1, <2>1 DEF Place
<1>3. \A i, j \in 1..Len(l) : l[i] = l[j] => i = j
  BY <1>1 DEF IsInjective
<1>4. a = SubSeq(l, p + 1, Len(l)) /\ b = SubSeq(l, 1, p - 1)
  BY DEF After, Before
<1> HIDE DEF l, p, a, b
<1>5. /\ a \in Seq(Windows) /\ Len(a) = Len(l) - p /\ DOMAIN a = 1..Len(a)
      /\ \A i \in 1..Len(a) : a[i] = l[p + i]
  <2>1. p + 1 \in 1..(Len(l) + 1) /\ Len(l) \in ((p + 1) - 1)..Len(l)
    BY <1>1, <1>2
  <2>2. /\ a \in Seq(Windows)
        /\ Len(a) = IF p + 1 <= Len(l) THEN Len(l) - (p + 1) + 1 ELSE 0
        /\ \A i \in 1..(Len(l) - (p + 1) + 1) : a[i] = l[(p + 1) + i - 1]
    BY <1>1, <1>4, <2>1, SubSeqProperties
  <2>3. Len(a) = Len(l) - p /\ Len(l) - (p + 1) + 1 = Len(l) - p
    <3>1. Len(a) = IF p + 1 <= Len(l) THEN Len(l) - (p + 1) + 1 ELSE 0
      BY <2>2
    <3>2. p \in Int /\ Len(l) \in Int /\ p <= Len(l)
      BY <1>1, <1>2
    <3> QED
      BY <3>1, <3>2
  <2>4. \A i \in 1..Len(a) : (p + 1) + i - 1 = p + i
    BY <1>1, <1>2, <2>3
  <2> QED
    BY <2>2, <2>3, <2>4
<1>6. /\ b \in Seq(Windows) /\ Len(b) = p - 1 /\ DOMAIN b = 1..Len(b)
      /\ \A i \in 1..Len(b) : b[i] = l[i]
  BY <1>1, <1>2, <1>4
<1>7. ToSet(a) = {l[i] : i \in (p + 1)..Len(l)}
  <2>1. ASSUME NEW w \in ToSet(a) PROVE w \in {l[i] : i \in (p + 1)..Len(l)}
    <3>1. PICK i \in 1..Len(a) : w = a[i]
      BY <1>5 DEF ToSet
    <3>2. p + i \in (p + 1)..Len(l) /\ w = l[p + i]
      BY <1>1, <1>2, <1>5, <3>1
    <3> QED
      BY <3>2
  <2>2. ASSUME NEW i \in (p + 1)..Len(l) PROVE l[i] \in ToSet(a)
    <3>1. i - p \in 1..Len(a) /\ p + (i - p) = i
      BY <1>1, <1>2, <1>5
    <3>2. a[i - p] = l[i] /\ i - p \in DOMAIN a
      BY <1>5, <3>1
    <3> QED
      BY <3>2 DEF ToSet
  <2> QED
    BY <2>1, <2>2
<1>8. ToSet(b) = {l[i] : i \in 1..(p - 1)}
  BY <1>5, <1>6 DEF ToSet
<1>9. IsInjective(a) /\ IsInjective(b)
  <2>1. ASSUME NEW i \in 1..Len(a), NEW j \in 1..Len(a), a[i] = a[j] PROVE i = j
    <3>1. p + i \in 1..Len(l) /\ p + j \in 1..Len(l)
      BY <1>1, <1>2, <1>5
    <3>2. l[p + i] = l[p + j]
      BY <1>5, <2>1
    <3>3. p + i = p + j
      BY <1>3, <3>1, <3>2
    <3> QED
      BY <1>2, <1>5, <3>3
  <2>2. ASSUME NEW i \in 1..Len(b), NEW j \in 1..Len(b), b[i] = b[j] PROVE i = j
    <3>1. i \in 1..Len(l) /\ j \in 1..Len(l)
      BY <1>1, <1>2, <1>6
    <3> QED
      BY <1>3, <1>6, <2>2, <3>1
  <2> QED
    BY <1>5, <1>6, <2>1, <2>2 DEF IsInjective
<1>10. ToSet(b) \cap ToSet(a) = {}
  BY <1>1, <1>2, <1>3, <1>7, <1>8
<1>11. ToSet(b) \cup ToSet(a) = ToSet(l) \ {r}
  <2>1. ToSet(l) = {l[i] : i \in 1..Len(l)}
    BY <1>1 DEF ToSet
  <2>2. \A i \in 1..Len(l) : i = p \/ i \in 1..(p - 1) \/ i \in (p + 1)..Len(l)
    BY <1>1, <1>2
  <2>3. \A i \in (1..(p - 1)) \cup ((p + 1)..Len(l)) : i \in 1..Len(l) /\ i # p
    BY <1>1, <1>2
  <2> QED
    BY <1>2, <1>3, <1>7, <1>8, <2>1, <2>2, <2>3
<1> QED
  BY <1>1, <1>5, <1>6, <1>9, <1>10, <1>11 DEF Parts, a, b

\* The window leaves the list.
LEMMA ListWithout ==
  ASSUME NEW F, F.list \in Seq(Windows), IsInjective(F.list), NEW r \in Managed(F)
  PROVE  LET l == Before(F, r) \o After(F, r)
         IN l \in Seq(Windows) /\ IsInjective(l) /\ ToSet(l) = Managed(F) \ {r}
<1> DEFINE b == Before(F, r)
           a == After(F, r)
<1>1. Parts(F, r, b, a)
  BY ListParts
<1> HIDE DEF a, b
<1>2. b \o a \in Seq(Windows) /\ IsInjective(b \o a) /\ ToSet(b \o a) = Managed(F) \ {r}
  BY <1>1, JoinLists DEF Parts
<1> QED
  BY <1>2 DEF a, b

\* The window moves to the front of the list.
LEMMA ListTurned ==
  ASSUME NEW F, F.list \in Seq(Windows), IsInjective(F.list), NEW r \in Managed(F),
         NEW l \in {<<r>> \o Before(F, r) \o After(F, r), <<r>> \o After(F, r) \o Before(F, r)}
  PROVE  l \in Seq(Windows) /\ IsInjective(l) /\ ToSet(l) = Managed(F)
<1> DEFINE b == Before(F, r)
           a == After(F, r)
           s == <<r>>
<1>1. Parts(F, r, b, a)
  BY ListParts
<1>2. r \in Windows /\ r \in Managed(F)
  BY DEF Managed, ToSet
<1>3. s \in Seq(Windows) /\ IsInjective(s) /\ ToSet(s) = {r}
  BY <1>2 DEF IsInjective, ToSet
<1>4. l = (s \o b) \o a \/ l = (s \o a) \o b
  OBVIOUS
<1> HIDE DEF a, b, s
<1>5. ASSUME NEW x \in Seq(Windows), NEW y \in Seq(Windows), IsInjective(x), IsInjective(y),
             ToSet(x) \cap ToSet(y) = {}, ToSet(x) \cup ToSet(y) = Managed(F) \ {r}
      PROVE  LET z == (s \o x) \o y
             IN z \in Seq(Windows) /\ IsInjective(z) /\ ToSet(z) = Managed(F)
  <2>1. /\ s \o x \in Seq(Windows) /\ IsInjective(s \o x) /\ ToSet(s \o x) = {r} \cup ToSet(x)
    <3>1. ToSet(s) \cap ToSet(x) = {}
      BY <1>3, <1>5
    <3> QED
      BY <1>3, <1>5, <3>1, JoinLists
  <2>2. ToSet(s \o x) \cap ToSet(y) = {}
    BY <1>5, <2>1
  <2>3. /\ (s \o x) \o y \in Seq(Windows) /\ IsInjective((s \o x) \o y)
        /\ ToSet((s \o x) \o y) = ToSet(s \o x) \cup ToSet(y)
    BY <1>5, <2>1, <2>2, JoinLists
  <2> QED
    BY <1>2, <1>5, <2>1, <2>3
<1>6. l = (s \o b) \o a => l \in Seq(Windows) /\ IsInjective(l) /\ ToSet(l) = Managed(F)
  BY <1>1, <1>5 DEF Parts
<1>7. l = (s \o a) \o b => l \in Seq(Windows) /\ IsInjective(l) /\ ToSet(l) = Managed(F)
  BY <1>1, <1>5 DEF Parts
<1> QED
  BY <1>4, <1>6, <1>7

-----------------------------------------------------------------------------
(* The queues.                                                               *)

\* A window is mapped once, and asked to be before it is given the focus.
MapsFirst(s) == \A i, j \in DOMAIN s :
  s[i].op = "map" /\ s[j].op \in {"focus", "map"} /\ s[j].win = s[i].win => i <= j

\* A window is reported to have the focus before it is unmapped.
FocusFirst(s) == \A i, j \in DOMAIN s :
  s[i].type = "FocusIn" /\ s[j].type = "Unmap" /\ s[j].win = s[i].win => i < j

\* No window asks twice to be mapped.
AskedOnce(s) == \A i, j \in DOMAIN s : s[i].type = "MapRequest" /\ s[j] = s[i] => i = j

\* The members of a sequence with one more element.
LEMMA AppendSet ==
  ASSUME NEW T, NEW s \in Seq(T), NEW e \in T
  PROVE  Append(s, e) \in Seq(T) /\ ToSet(Append(s, e)) = ToSet(s) \cup {e}
<1>1. /\ Len(s) \in Nat /\ DOMAIN s = 1..Len(s) /\ Append(s, e) \in Seq(T)
      /\ DOMAIN Append(s, e) = 1..(Len(s) + 1) /\ Append(s, e)[Len(s) + 1] = e
      /\ \A i \in 1..Len(s) : Append(s, e)[i] = s[i]
  OBVIOUS
<1>2. \A i \in 1..(Len(s) + 1) : i \in 1..Len(s) \/ i = Len(s) + 1
  BY <1>1
<1>3. 1..Len(s) \subseteq 1..(Len(s) + 1) /\ Len(s) + 1 \in 1..(Len(s) + 1)
  BY <1>1
<1> QED
  BY <1>1, <1>2, <1>3 DEF ToSet

\* The members of two sequences put together.
LEMMA JoinSet ==
  ASSUME NEW T, NEW s \in Seq(T), NEW t \in Seq(T)
  PROVE  s \o t \in Seq(T) /\ ToSet(s \o t) = ToSet(s) \cup ToSet(t)
<1> DEFINE x == s \o t
<1>1. /\ x \in Seq(T) /\ Len(x) = Len(s) + Len(t)
      /\ \A i \in 1..Len(x) : x[i] = IF i <= Len(s) THEN s[i] ELSE t[i - Len(s)]
      /\ Len(s) \in Nat /\ Len(t) \in Nat
  OBVIOUS
<1>2. /\ DOMAIN s = 1..Len(s) /\ DOMAIN t = 1..Len(t) /\ DOMAIN x = 1..Len(x)
  OBVIOUS
<1> HIDE DEF x
<1>3. \A i \in 1..Len(s) : i \in 1..Len(x) /\ x[i] = s[i]
  BY <1>1
<1>4. ASSUME NEW i \in 1..Len(t) PROVE i + Len(s) \in 1..Len(x) /\ x[i + Len(s)] = t[i]
  <2>1. i + Len(s) \in 1..Len(x) /\ ~(i + Len(s) <= Len(s)) /\ (i + Len(s)) - Len(s) = i
    BY <1>1
  <2> QED
    BY <1>1, <2>1
<1>5. ASSUME NEW i \in 1..Len(x) PROVE x[i] \in ToSet(s) \cup ToSet(t)
  <2>1. CASE i <= Len(s)
    <3>1. i \in 1..Len(s) /\ x[i] = s[i]
      BY <1>1, <2>1
    <3> QED
      BY <1>2, <3>1 DEF ToSet
  <2>2. CASE ~(i <= Len(s))
    <3>1. i - Len(s) \in 1..Len(t) /\ x[i] = t[i - Len(s)]
      BY <1>1, <2>2
    <3> QED
      BY <1>2, <3>1 DEF ToSet
  <2> QED
    BY <2>1, <2>2
<1>6. ToSet(x) = ToSet(s) \cup ToSet(t)
  <2>1. ASSUME NEW e \in ToSet(x) PROVE e \in ToSet(s) \cup ToSet(t)
    BY <1>2, <1>5 DEF ToSet
  <2>2. ASSUME NEW e \in ToSet(s) PROVE e \in ToSet(x)
    BY <1>2, <1>3 DEF ToSet
  <2>3. ASSUME NEW e \in ToSet(t) PROVE e \in ToSet(x)
    <3>1. PICK i \in 1..Len(t) : e = t[i]
      BY <1>2 DEF ToSet
    <3> QED
      BY <1>2, <1>4, <3>1 DEF ToSet
  <2> QED
    BY <2>1, <2>2, <2>3
<1> QED
  BY <1>1, <1>6 DEF x

\* The members of a sequence are its first and those of the rest.
LEMMA TailSet ==
  ASSUME NEW T, NEW s \in Seq(T), s # <<>>
  PROVE  /\ Tail(s) \in Seq(T) /\ Head(s) \in T
         /\ ToSet(s) = {Head(s)} \cup ToSet(Tail(s))
<1> DEFINE t == Tail(s)
<1>1. /\ Len(s) \in Nat /\ Len(s) # 0 /\ DOMAIN s = 1..Len(s) /\ t \in Seq(T)
      /\ Len(t) = Len(s) - 1 /\ DOMAIN t = 1..Len(t) /\ Head(s) = s[1]
      /\ \A i \in 1..Len(t) : t[i] = s[i + 1]
  OBVIOUS
<1> HIDE DEF t
<1>2. Head(s) \in T /\ Head(s) \in ToSet(s)
  BY <1>1 DEF ToSet
<1>3. ASSUME NEW e \in ToSet(t) PROVE e \in ToSet(s)
  <2>1. PICK i \in 1..Len(t) : e = t[i]
    BY <1>1 DEF ToSet
  <2>2. i + 1 \in 1..Len(s) /\ e = s[i + 1]
    BY <1>1, <2>1
  <2> QED
    BY <1>1, <2>2 DEF ToSet
<1>4. ASSUME NEW e \in ToSet(s), e # Head(s) PROVE e \in ToSet(t)
  <2>1. PICK i \in 1..Len(s) : e = s[i]
    BY <1>1 DEF ToSet
  <2>2. i - 1 \in 1..Len(t) /\ (i - 1) + 1 = i
    BY <1>1, <1>4, <2>1
  <2>3. e = t[i - 1]
    BY <1>1, <2>1, <2>2
  <2> QED
    BY <1>1, <2>2, <2>3 DEF ToSet
<1> QED
  BY <1>1, <1>2, <1>3, <1>4 DEF t

\* How Append and Tail move the members of a sequence.
LEMMA AppendMoves ==
  ASSUME NEW T, NEW s \in Seq(T), NEW e \in T
  PROVE  LET t == Append(s, e)
         IN /\ \A i \in DOMAIN t : (i \in DOMAIN s /\ t[i] = s[i]) \/ (i = Len(s) + 1 /\ t[i] = e)
            /\ \A i \in DOMAIN s : i \in Int /\ i < Len(s) + 1
            /\ Len(s) \in Nat
<1> DEFINE t == Append(s, e)
<1>1. /\ Len(s) \in Nat /\ DOMAIN s = 1..Len(s) /\ DOMAIN t = 1..(Len(s) + 1)
      /\ t[Len(s) + 1] = e /\ \A i \in 1..Len(s) : t[i] = s[i]
  OBVIOUS
<1> HIDE DEF t
<1>2. \A i \in 1..(Len(s) + 1) : i \in 1..Len(s) \/ i = Len(s) + 1
  BY <1>1
<1>3. \A i \in 1..Len(s) : i \in Int /\ i < Len(s) + 1
  BY <1>1
<1> QED
  BY <1>1, <1>2, <1>3 DEF t

\* Each element of the rest stood one place further back.
LEMMA TailMoves ==
  ASSUME NEW T, NEW s \in Seq(T), s # <<>>
  PROVE  LET t == Tail(s)
         IN /\ \A i \in DOMAIN t : i \in Int /\ i + 1 \in DOMAIN s /\ t[i] = s[i + 1] /\ i + 1 > 1
            /\ 1 \in DOMAIN s /\ Head(s) = s[1]
            /\ \A i \in DOMAIN s : i \in Int
<1> DEFINE t == Tail(s)
<1>1. /\ Len(s) \in Nat /\ Len(s) # 0 /\ DOMAIN s = 1..Len(s) /\ DOMAIN t = 1..(Len(s) - 1)
      /\ Head(s) = s[1] /\ \A i \in 1..(Len(s) - 1) : t[i] = s[i + 1]
  OBVIOUS
<1> HIDE DEF t
<1>2. \A i \in 1..(Len(s) - 1) : i \in Int /\ i + 1 \in 1..Len(s) /\ i + 1 > 1
  BY <1>1
<1> QED
  BY <1>1, <1>2 DEF t

\* A window is asked to be mapped before anything else is asked of it.
LEMMA MapsFirstAppend ==
  ASSUME NEW s \in Seq(Requests), NEW q \in Requests, MapsFirst(s),
         q.op = "map" => \A p \in ToSet(s) : p.win # q.win
  PROVE  MapsFirst(Append(s, q))
<1> DEFINE t == Append(s, q)
<1>1. /\ \A i \in DOMAIN t : (i \in DOMAIN s /\ t[i] = s[i]) \/ (i = Len(s) + 1 /\ t[i] = q)
      /\ \A i \in DOMAIN s : i \in Int /\ i < Len(s) + 1
      /\ Len(s) \in Nat
  BY AppendMoves
<1> HIDE DEF t
<1>2. ASSUME NEW i \in DOMAIN t, NEW j \in DOMAIN t,
             t[i].op = "map", t[j].op \in {"focus", "map"}, t[j].win = t[i].win
      PROVE  i <= j
  <2>1. CASE i \in DOMAIN s /\ t[i] = s[i] /\ j \in DOMAIN s /\ t[j] = s[j]
    BY <1>2, <2>1 DEF MapsFirst
  <2>2. CASE j = Len(s) + 1
    BY <1>1, <2>2
  <2>3. CASE i = Len(s) + 1 /\ t[i] = q /\ j \in DOMAIN s /\ t[j] = s[j]
    BY <1>2, <2>3 DEF ToSet
  <2> QED
    BY <1>1, <2>1, <2>2, <2>3
<1> QED
  BY <1>2 DEF MapsFirst, t

\* After the first request that concerns a window it is not mapped.
LEMMA MapsFirstTail ==
  ASSUME NEW s \in Seq(Requests), s # <<>>, MapsFirst(s)
  PROVE  /\ MapsFirst(Tail(s))
         /\ Head(s).op \in {"focus", "map"} => Request("map", Head(s).win) \notin ToSet(Tail(s))
<1> DEFINE t == Tail(s)
<1>1. /\ \A i \in DOMAIN t : i \in Int /\ i + 1 \in DOMAIN s /\ t[i] = s[i + 1] /\ i + 1 > 1
      /\ 1 \in DOMAIN s /\ Head(s) = s[1]
  BY TailMoves
<1> HIDE DEF t
<1>2. ASSUME NEW i \in DOMAIN t, NEW j \in DOMAIN t,
             t[i].op = "map", t[j].op \in {"focus", "map"}, t[j].win = t[i].win
      PROVE  i <= j
  <2>1. i + 1 <= j + 1
    BY <1>1, <1>2 DEF MapsFirst
  <2> QED
    BY <1>1, <2>1
<1>3. ASSUME Head(s).op \in {"focus", "map"}, Request("map", Head(s).win) \in ToSet(t)
      PROVE  FALSE
  <2>1. PICK i \in DOMAIN t : t[i] = Request("map", Head(s).win)
    BY <1>3 DEF ToSet
  <2>2. s[i + 1].op = "map" /\ s[1].win = s[i + 1].win /\ s[1].op \in {"focus", "map"}
    BY <1>1, <1>3, <2>1 DEF Request
  <2>3. i + 1 <= 1
    BY <1>1, <2>2 DEF MapsFirst
  <2> QED
    BY <1>1, <2>3
<1> QED
  BY <1>2, <1>3 DEF MapsFirst, t

\* No FocusIn is added behind the UnmapNotify of its window.
LEMMA FocusFirstAppend ==
  ASSUME NEW s \in Seq(Events), NEW e \in Events, FocusFirst(s),
         e.type = "FocusIn" => Event("Unmap", e.win) \notin ToSet(s)
  PROVE  FocusFirst(Append(s, e))
<1> DEFINE t == Append(s, e)
<1>1. /\ \A i \in DOMAIN t : (i \in DOMAIN s /\ t[i] = s[i]) \/ (i = Len(s) + 1 /\ t[i] = e)
      /\ \A i \in DOMAIN s : i \in Int /\ i < Len(s) + 1
      /\ Len(s) \in Nat
  BY AppendMoves
<1> HIDE DEF t
<1>2. ASSUME NEW i \in DOMAIN t, NEW j \in DOMAIN t,
             t[i].type = "FocusIn", t[j].type = "Unmap", t[j].win = t[i].win
      PROVE  i < j
  <2>1. CASE i \in DOMAIN s /\ t[i] = s[i] /\ j \in DOMAIN s /\ t[j] = s[j]
    BY <1>2, <2>1 DEF FocusFirst
  <2>2. CASE i \in DOMAIN s /\ j = Len(s) + 1
    BY <1>1, <2>2
  <2>3. CASE i = Len(s) + 1 /\ t[i] = e /\ j \in DOMAIN s /\ t[j] = s[j]
    <3>1. s[j] \in Events /\ s[j] \in ToSet(s)
      BY <2>3 DEF ToSet
    <3>2. s[j] = Event("Unmap", e.win)
      BY <1>2, <2>3, <3>1 DEF Events, Event
    <3> QED
      BY <1>2, <2>3, <3>1, <3>2
  <2>4. CASE t[i] = e /\ t[j] = e
    BY <1>2, <2>4
  <2> QED
    BY <1>1, <2>1, <2>2, <2>3, <2>4
<1> QED
  BY <1>2 DEF FocusFirst, t

\* When an UnmapNotify comes first, no FocusIn of its window is left.
LEMMA FocusFirstTail ==
  ASSUME NEW s \in Seq(Events), s # <<>>, FocusFirst(s)
  PROVE  /\ FocusFirst(Tail(s))
         /\ Head(s).type = "Unmap" => Event("FocusIn", Head(s).win) \notin ToSet(s)
<1> DEFINE t == Tail(s)
<1>1. /\ \A i \in DOMAIN t : i \in Int /\ i + 1 \in DOMAIN s /\ t[i] = s[i + 1] /\ i + 1 > 1
      /\ 1 \in DOMAIN s /\ Head(s) = s[1]
      /\ \A i \in DOMAIN s : i \in Int
      /\ \A i \in DOMAIN s : i >= 1
  <2>1. \A i \in DOMAIN s : i >= 1
    OBVIOUS
  <2> QED
    BY <2>1, TailMoves
<1> HIDE DEF t
<1>2. ASSUME NEW i \in DOMAIN t, NEW j \in DOMAIN t,
             t[i].type = "FocusIn", t[j].type = "Unmap", t[j].win = t[i].win
      PROVE  i < j
  <2>1. i + 1 < j + 1
    BY <1>1, <1>2 DEF FocusFirst
  <2> QED
    BY <1>1, <2>1
<1>3. ASSUME Head(s).type = "Unmap", Event("FocusIn", Head(s).win) \in ToSet(s)
      PROVE  FALSE
  <2>1. PICK i \in DOMAIN s : s[i] = Event("FocusIn", Head(s).win)
    BY <1>3 DEF ToSet
  <2>2. s[i].type = "FocusIn" /\ s[1].win = s[i].win /\ s[1].type = "Unmap"
    BY <1>1, <1>3, <2>1 DEF Event
  <2>3. i < 1
    BY <1>1, <2>2 DEF FocusFirst
  <2> QED
    BY <1>1, <2>3
<1> QED
  BY <1>2, <1>3 DEF FocusFirst, t

\* A MapRequest is added when none for the window is waiting.
LEMMA AskedOnceAppend ==
  ASSUME NEW s \in Seq(Events), NEW e \in Events, AskedOnce(s),
         e.type = "MapRequest" => e \notin ToSet(s)
  PROVE  AskedOnce(Append(s, e))
<1> DEFINE t == Append(s, e)
<1>1. /\ \A i \in DOMAIN t : (i \in DOMAIN s /\ t[i] = s[i]) \/ (i = Len(s) + 1 /\ t[i] = e)
  BY AppendMoves
<1> HIDE DEF t
<1>2. ASSUME NEW i \in DOMAIN t, NEW j \in DOMAIN t, t[i].type = "MapRequest", t[j] = t[i]
      PROVE  i = j
  <2>1. CASE i \in DOMAIN s /\ t[i] = s[i] /\ j \in DOMAIN s /\ t[j] = s[j]
    BY <1>2, <2>1 DEF AskedOnce
  <2>2. CASE i = Len(s) + 1 /\ j = Len(s) + 1
    BY <2>2
  <2>3. CASE i = Len(s) + 1 /\ t[i] = e /\ j \in DOMAIN s /\ t[j] = s[j]
    BY <1>2, <2>3 DEF ToSet
  <2>4. CASE j = Len(s) + 1 /\ t[j] = e /\ i \in DOMAIN s /\ t[i] = s[i]
    BY <1>2, <2>4 DEF ToSet
  <2> QED
    BY <1>1, <2>1, <2>2, <2>3, <2>4
<1> QED
  BY <1>2 DEF AskedOnce, t

\* When a MapRequest has been taken, none for the window is left.
LEMMA AskedOnceTail ==
  ASSUME NEW s \in Seq(Events), s # <<>>, AskedOnce(s)
  PROVE  /\ AskedOnce(Tail(s))
         /\ Head(s).type = "MapRequest" => Head(s) \notin ToSet(Tail(s))
<1> DEFINE t == Tail(s)
<1>1. /\ \A i \in DOMAIN t : i \in Int /\ i + 1 \in DOMAIN s /\ t[i] = s[i + 1] /\ i + 1 > 1
      /\ 1 \in DOMAIN s /\ Head(s) = s[1]
  BY TailMoves
<1> HIDE DEF t
<1>2. ASSUME NEW i \in DOMAIN t, NEW j \in DOMAIN t, t[i].type = "MapRequest", t[j] = t[i]
      PROVE  i = j
  <2>1. i + 1 = j + 1
    BY <1>1, <1>2 DEF AskedOnce
  <2> QED
    BY <1>1, <2>1
<1>3. ASSUME Head(s).type = "MapRequest", Head(s) \in ToSet(t)
      PROVE  FALSE
  <2>1. PICK i \in DOMAIN t : t[i] = Head(s)
    BY <1>3 DEF ToSet
  <2>2. 1 = i + 1
    BY <1>1, <1>3, <2>1 DEF AskedOnce
  <2> QED
    BY <1>1, <2>2
<1> QED
  BY <1>2, <1>3 DEF AskedOnce, t

\* What is left of the events when the FocusIn events are taken.
LEMMA KeptProperties ==
  ASSUME NEW F, F.events \in Seq(Events)
  PROVE  /\ OtherEvents(F) \in Seq(Events)
         /\ ToSet(OtherEvents(F)) = {e \in Ev(F) : e.type # "FocusIn"}
         /\ FocusFirst(OtherEvents(F))
         /\ AskedOnce(F.events) => AskedOnce(OtherEvents(F))
<1> DEFINE s == F.events
           k == OtherEvents(F)
<1>1. PICK g : KeptBy(s, k, g, Len(s))
  BY KeptEvents
<1>2. s \in Seq(Events) /\ Len(s) \in Nat /\ DOMAIN s = 1..Len(s) /\ Ev(F) = ToSet(s)
  BY DEF Ev
<1> HIDE DEF s, k
<1>3. /\ k \in Seq(Events) /\ Len(k) \in Nat /\ DOMAIN k = 1..Len(k)
      /\ g \in [1..Len(k) -> 1..Len(s)]
      /\ \A i \in 1..Len(k) : k[i] = s[g[i]] /\ s[g[i]].type # "FocusIn"
      /\ \A i, j \in 1..Len(k) : i < j => g[i] < g[j]
      /\ \A j \in 1..Len(s) : s[j].type # "FocusIn" => \E i \in 1..Len(k) : g[i] = j
  BY <1>1 DEF KeptBy
<1>4. ToSet(k) = {e \in ToSet(s) : e.type # "FocusIn"}
  <2>1. ASSUME NEW e \in ToSet(k) PROVE e \in ToSet(s) /\ e.type # "FocusIn"
    BY <1>2, <1>3 DEF ToSet
  <2>2. ASSUME NEW e \in ToSet(s), e.type # "FocusIn" PROVE e \in ToSet(k)
    <3>1. PICK j \in 1..Len(s) : e = s[j]
      BY <1>2 DEF ToSet
    <3>2. PICK i \in 1..Len(k) : g[i] = j
      BY <1>3, <2>2, <3>1
    <3> QED
      BY <1>3, <3>1, <3>2 DEF ToSet
  <2> QED
    BY <2>1, <2>2
<1>5. FocusFirst(k)
  BY <1>3 DEF FocusFirst
<1>6. ASSUME AskedOnce(s), NEW i \in 1..Len(k), NEW j \in 1..Len(k),
             k[i].type = "MapRequest", k[j] = k[i]
      PROVE  i = j
  <2>1. g[i] = g[j] /\ g[i] \in Int
    <3>1. g[i] \in 1..Len(s) /\ g[j] \in 1..Len(s) /\ s[g[j]] = s[g[i]] /\ s[g[i]].type = "MapRequest"
      BY <1>3, <1>6
    <3> QED
      BY <1>2, <1>6, <3>1 DEF AskedOnce
  <2>2. ~(i < j) /\ ~(j < i)
    BY <1>3, <2>1
  <2> QED
    BY <1>3, <2>2
<1> QED
  BY <1>2, <1>3, <1>4, <1>5, <1>6 DEF AskedOnce, s, k

-----------------------------------------------------------------------------
(* Setting the focus.                                                        *)

\* fvwm holds no window that it does not manage, but for a lost one, and
\* it has been asked once at most to manage any other.
Sane(F, lost) ==
  /\ F \in Fvwms /\ IsInjective(F.list)
  /\ {F.focus, F.hilite, F.requested, F.pending, F.stolen} \subseteq Managed(F) \cup {None} \cup lost
  /\ AskedOnce(F.events)
  /\ \A w \in Windows : Event("MapRequest", w) \in Ev(F) => w \notin Managed(F)

\* Requests that may be made at any time, when managed are the windows of the list.
MayAsk(q, managed) ==
  \/ q.op = "focus" /\ q.win \in managed \cup {NoFocusWin, None}
  \/ q.op = "observe" /\ q.win \in Unmanaged

\* From F to G, fvwm has asked for the focus of windows it manages, to observe
\* others, and for nothing else.
Keeps(F, G) ==
  /\ Managed(G) = Managed(F)
  /\ Rq(F) \subseteq Rq(G)
  /\ \A q \in Rq(G) \ Rq(F) : MayAsk(q, Managed(F))
  /\ MapsFirst(F.requests) => MapsFirst(G.requests)

\* fvwm has asked for what it holds to be the focus.
Asked(F) == Request("focus", IF F.focus = None THEN NoFocusWin ELSE F.focus) \in Rq(F)

\* What two steps keep, the two together keep.
LEMMA KeepsTransitive ==
  ASSUME NEW F, NEW G, NEW H, Keeps(F, G), Keeps(G, H)
  PROVE  Keeps(F, H)
BY DEF Keeps

\* A step without requests that leaves the windows of the list alone.
LEMMA KeepsSame ==
  ASSUME NEW F, NEW G, Managed(G) = Managed(F), G.requests = F.requests
  PROVE  Keeps(F, G)
BY DEF Keeps, Rq

\* The windows of the list are windows.
LEMMA ManagedWindows ==
  ASSUME NEW F, F.list \in Seq(Windows)
  PROVE  Managed(F) \subseteq Windows
BY DEF Managed, ToSet

\* _focus_set asks for a focus.
LEMMA FocusSetDoes ==
  ASSUME NEW F, NEW lost, Sane(F, lost), NEW w \in Managed(F) \cup {NoFocusWin, None},
         NEW r \in Managed(F) \cup {None}
  PROVE  LET G == FocusSet(F, w, r)
         IN /\ Sane(G, lost) /\ Keeps(F, G) /\ Request("focus", w) \in Rq(G)
            /\ G.list = F.list /\ G.focus = F.focus /\ G.hilite = F.hilite
            /\ G.requested = r /\ G.pending = F.pending /\ G.stolen = F.stolen
            /\ G.unknown = F.unknown /\ G.events = F.events
<1> DEFINE q == Request("focus", w)
           G == FocusSet(F, w, r)
<1>0. F \in Fvwms
  BY DEF Sane
<1>1. Managed(F) \subseteq Windows
  BY <1>0, ManagedWindows DEF Fvwms
<1>2. q \in Requests /\ q.op = "focus" /\ q.win = w
  BY <1>1 DEF Requests, Request
<1>3. F.requests \in Seq(Requests)
  BY <1>0 DEF Fvwms
<1>4. Append(F.requests, q) \in Seq(Requests) /\ ToSet(Append(F.requests, q)) = Rq(F) \cup {q}
  BY <1>2, <1>3, AppendSet DEF Rq
<1>5. MapsFirst(F.requests) => MapsFirst(Append(F.requests, q))
  BY <1>2, <1>3, MapsFirstAppend
<1>6. /\ G = [F EXCEPT !.requests = Append(F.requests, q), !.requested = r]
  BY DEF FocusSet
<1> HIDE DEF q, G
<1>7. /\ G \in Fvwms
      /\ G.list = F.list /\ G.focus = F.focus /\ G.hilite = F.hilite
      /\ G.requested = r /\ G.pending = F.pending /\ G.stolen = F.stolen
      /\ G.unknown = F.unknown /\ G.events = F.events /\ G.requests = Append(F.requests, q)
  BY <1>0, <1>1, <1>4, <1>6 DEF Fvwms, Pointers
<1>8. Managed(G) = Managed(F) /\ Ev(G) = Ev(F) /\ Rq(G) = Rq(F) \cup {q}
  BY <1>4, <1>7 DEF Managed, Ev, Rq
<1>9. Keeps(F, G)
  BY <1>2, <1>5, <1>7, <1>8 DEF Keeps, MayAsk
<1>10. Sane(G, lost)
  BY <1>7, <1>8 DEF Sane
<1> QED
  BY <1>7, <1>8, <1>9, <1>10 DEF G, q

\* The order of the list changes and nothing else.
LEMMA UpdateWindowlistDoes ==
  ASSUME NEW F, NEW lost, Sane(F, lost), NEW r \in Windows, NEW by, NEW flip \in BOOLEAN
  PROVE  LET G == UpdateWindowlist(F, r, by, flip)
         IN /\ Sane(G, lost) /\ Managed(G) = Managed(F) /\ G.requests = F.requests
            /\ G.focus = F.focus /\ G.hilite = F.hilite /\ G.requested = F.requested
            /\ G.pending = F.pending /\ G.stolen = F.stolen /\ G.unknown = F.unknown
            /\ G.events = F.events
<1> DEFINE G == UpdateWindowlist(F, r, by, flip)
<1>0. F \in Fvwms /\ IsInjective(F.list) /\ F.list \in Seq(Windows)
  BY DEF Sane, Fvwms
<1>1. CASE r \notin Managed(F) \ {F.focus}
  <2>1. G = F
    BY <1>1, Zenon DEF UpdateWindowlist
  <2> HIDE DEF G
  <2>2. Sane(G, lost) /\ Managed(G) = Managed(F)
    BY <2>1
  <2> QED
    BY <2>1, <2>2 DEF G
<1>2. CASE r \in Managed(F) \ {F.focus}
  <2>1. PICK l \in {<<r>> \o Before(F, r) \o After(F, r), <<r>> \o After(F, r) \o Before(F, r)} :
          G = [F EXCEPT !.list = l]
    BY <1>2, Zenon DEF UpdateWindowlist
  <2>2. l \in Seq(Windows) /\ IsInjective(l) /\ ToSet(l) = Managed(F)
    BY <1>0, <1>2, ListTurned
  <2> HIDE DEF G
  <2>3. /\ G \in Fvwms /\ G.list = l /\ G.requests = F.requests
        /\ G.focus = F.focus /\ G.hilite = F.hilite /\ G.requested = F.requested
        /\ G.pending = F.pending /\ G.stolen = F.stolen /\ G.unknown = F.unknown
        /\ G.events = F.events
    BY <1>0, <2>1, <2>2 DEF Fvwms
  <2>4. Managed(G) = Managed(F) /\ Ev(G) = Ev(F)
    BY <2>2, <2>3 DEF Managed, Ev
  <2>5. Sane(G, lost)
    BY <2>2, <2>3, <2>4 DEF Sane
  <2> QED
    BY <2>3, <2>4, <2>5 DEF G
<1> QED
  BY <1>1, <1>2

\* What setting the focus to r leaves.
Given(F, G, r, lost) ==
  /\ Sane(G, lost) /\ Keeps(F, G)
  /\ G.hilite = F.hilite /\ G.pending = F.pending /\ G.stolen = F.stolen
  /\ G.events = F.events
  /\ G.focus = F.focus \/ (Asked(G) /\ G.focus \in {r, None})
  /\ G.requested = F.requested \/ G.requested \in {r, None}

\* __set_focus_to_fwin makes r the focus or leaves it, and asks for it.
LEMMA GiveDoes ==
  ASSUME NEW F, NEW lost, Sane(F, lost), NEW r \in Managed(F) \cup {None}
  PROVE  LET G == Give(F, r)
         IN Given(F, G, r, lost) /\ (r = None => G.focus = None /\ Asked(G))
<1> DEFINE H == FocusSet(F, NoFocusWin, None)
           G == Give(F, r)
<1>0. F \in Fvwms /\ Managed(F) \subseteq Windows /\ None \notin Windows
  BY ManagedWindows, FocusAssumption DEF Sane, Fvwms
<1>1. /\ Sane(H, lost) /\ Keeps(F, H) /\ Request("focus", NoFocusWin) \in Rq(H)
      /\ H.list = F.list /\ H.focus = F.focus /\ H.hilite = F.hilite
      /\ H.requested = None /\ H.pending = F.pending /\ H.stolen = F.stolen
      /\ H.unknown = F.unknown /\ H.events = F.events
  BY FocusSetDoes
<1> HIDE DEF H
<1>2. ASSUME NEW K, K = [H EXCEPT !.focus = None] \/ K = [H EXCEPT !.focus = None, !.unknown = None]
      PROVE  Given(F, K, r, lost) /\ K.focus = None /\ Asked(K)
  <2>0. H \in Fvwms
    BY <1>1 DEF Sane
  <2>1. /\ K \in Fvwms /\ K.focus = None
        /\ K.list = H.list /\ K.hilite = H.hilite /\ K.requested = H.requested
        /\ K.pending = H.pending /\ K.stolen = H.stolen /\ K.events = H.events
        /\ K.requests = H.requests
    BY <1>2, <2>0 DEF Fvwms, Pointers
  <2>2. Managed(K) = Managed(H) /\ Rq(K) = Rq(H) /\ Ev(K) = Ev(H)
    BY <2>1 DEF Managed, Rq, Ev
  <2>3. Sane(K, lost)
    BY <1>1, <2>1, <2>2 DEF Sane
  <2>4. Keeps(F, K)
    BY <1>1, <2>1, <2>2, KeepsSame, KeepsTransitive
  <2>5. Asked(K)
    BY <1>1, <2>1, <2>2 DEF Asked
  <2> QED
    BY <1>1, <2>1, <2>3, <2>4, <2>5 DEF Given
<1>3. ASSUME r # None,
             NEW B, Sane(B, lost), Keeps(F, B), B.focus = F.focus, B.hilite = F.hilite,
             B.pending = F.pending, B.stolen = F.stolen, B.events = F.events,
             NEW K, K = [FocusSet(B, r, r) EXCEPT !.focus = r, !.unknown = None]
      PROVE  Given(F, K, r, lost)
  <2> DEFINE C == FocusSet(B, r, r)
  <2>1. /\ Sane(C, lost) /\ Keeps(B, C) /\ Request("focus", r) \in Rq(C)
        /\ C.list = B.list /\ C.focus = B.focus /\ C.hilite = B.hilite
        /\ C.requested = r /\ C.pending = B.pending /\ C.stolen = B.stolen
        /\ C.events = B.events
    <3>1. r \in Managed(B)
      BY <1>3 DEF Keeps
    <3> QED
      BY <1>3, <3>1, FocusSetDoes
  <2>2. K = [C EXCEPT !.focus = r, !.unknown = None]
    BY <1>3
  <2> HIDE DEF C
  <2>3. C \in Fvwms /\ r \in Windows
    BY <1>0, <1>3, <2>1 DEF Sane
  <2>4. /\ K \in Fvwms /\ K.focus = r
        /\ K.list = C.list /\ K.hilite = C.hilite /\ K.requested = C.requested
        /\ K.pending = C.pending /\ K.stolen = C.stolen /\ K.events = C.events
        /\ K.requests = C.requests
    BY <2>2, <2>3 DEF Fvwms, Pointers
  <2>5. Managed(K) = Managed(C) /\ Rq(K) = Rq(C) /\ Ev(K) = Ev(C)
    BY <2>4 DEF Managed, Rq, Ev
  <2>6. r \in Managed(C)
    BY <1>3, <2>1 DEF Keeps
  <2>7. Sane(K, lost)
    BY <2>1, <2>4, <2>5, <2>6 DEF Sane
  <2>8. Keeps(F, K)
    BY <1>3, <2>1, <2>4, <2>5, KeepsSame, KeepsTransitive
  <2>9. Asked(K)
    BY <1>3, <2>1, <2>4, <2>5 DEF Asked
  <2> QED
    BY <1>3, <2>1, <2>4, <2>7, <2>8, <2>9 DEF Given
<1>4. \/ r = None /\ G = [H EXCEPT !.focus = None, !.unknown = None]
      \/ r # None /\ \E B \in {F, H} : G = [FocusSet(B, r, r) EXCEPT !.focus = r, !.unknown = None]
      \/ r # None /\ G = F
      \/ r # None /\ G = [H EXCEPT !.focus = None]
  <2>1. CASE r = None
    BY <2>1, Zenon DEF Give, H
  <2>2. CASE r # None /\ (Has(r, "lenient") \/ AcceptsInput(r))
    <3>1. G = LET B == IF ~Has(r, "lenient") /\ F.stolen = r /\ F.unknown # None
                       THEN FocusSet(F, NoFocusWin, None) ELSE F
              IN [FocusSet(B, r, r) EXCEPT !.focus = r, !.unknown = None]
      BY <2>2 DEF Give
    <3> QED
      BY <2>2, <3>1, Zenon DEF H
  <2>3. CASE r # None /\ ~(Has(r, "lenient") \/ AcceptsInput(r))
    <3>1. CASE F.focus # None
      BY <2>3, <3>1 DEF Give
    <3>2. CASE F.focus = None
      BY <2>3, <3>2 DEF Give, H
    <3> QED
      BY <3>1, <3>2
  <2> QED
    BY <2>1, <2>2, <2>3
<1> HIDE DEF G
<1>5. CASE r = None /\ G = [H EXCEPT !.focus = None, !.unknown = None]
  BY <1>2, <1>5 DEF G
<1>6. CASE r # None /\ G = [H EXCEPT !.focus = None]
  BY <1>2, <1>6 DEF G
<1>7. CASE r # None /\ G = F
  <2>1. Keeps(F, F)
    BY KeepsSame
  <2> QED
    BY <1>7, <2>1 DEF G, Given
<1>8. CASE r # None /\ \E B \in {F, H} : G = [FocusSet(B, r, r) EXCEPT !.focus = r, !.unknown = None]
  <2>1. PICK B \in {F, H} : G = [FocusSet(B, r, r) EXCEPT !.focus = r, !.unknown = None]
    BY <1>8
  <2>2. Keeps(F, F)
    BY KeepsSame
  <2>3. /\ Sane(B, lost) /\ Keeps(F, B) /\ B.focus = F.focus /\ B.hilite = F.hilite
        /\ B.pending = F.pending /\ B.stolen = F.stolen /\ B.events = F.events
    BY <1>1, <2>1, <2>2
  <2> QED
    BY <1>3, <1>8, <2>1, <2>3 DEF G
<1> QED
  BY <1>4, <1>5, <1>6, <1>7, <1>8

\* So does set_focus_to_fwin, whoever calls it and however.
LEMMA SetFocusDoes ==
  ASSUME NEW F, NEW lost, Sane(F, lost), NEW r \in Managed(F) \cup {None}, NEW by,
         NEW force \in BOOLEAN, NEW flip \in BOOLEAN
  PROVE  Given(F, SetFocus(F, r, by, force, flip), r, lost)
<1> DEFINE U == UpdateWindowlist(F, r, by, flip)
           G == Give(U, r)
<1>0. F \in Fvwms /\ Managed(F) \subseteq Windows /\ None \notin Windows
  BY ManagedWindows, FocusAssumption DEF Sane, Fvwms
<1>1. Keeps(F, F) /\ Given(F, F, r, lost)
  BY KeepsSame DEF Given
<1>2. /\ Sane(U, lost) /\ Managed(U) = Managed(F) /\ U.requests = F.requests
      /\ U.focus = F.focus /\ U.hilite = F.hilite /\ U.requested = F.requested
      /\ U.pending = F.pending /\ U.stolen = F.stolen /\ U.events = F.events
  <2>1. CASE r = None
    <3>1. U = F
      BY <1>0, <2>1, Zenon DEF UpdateWindowlist
    <3> QED
      BY <3>1
  <2>2. CASE r # None
    <3>1. r \in Windows
      BY <1>0, <2>2
    <3> QED
      BY <3>1, UpdateWindowlistDoes
  <2> QED
    BY <2>1, <2>2
<1> HIDE DEF U
<1>3. Given(U, G, r, lost)
  BY <1>2, GiveDoes
<1> HIDE DEF G
<1>4. Keeps(F, U)
  BY <1>2, KeepsSame
<1>5. Given(F, G, r, lost)
  BY <1>2, <1>3, <1>4, KeepsTransitive DEF Given
<1>6. SetFocus(F, r, by, force, flip) = F \/ SetFocus(F, r, by, force, flip) = G
  BY Zenon DEF SetFocus, G, U
<1> QED
  BY <1>1, <1>5, <1>6

\* DeleteFocus leaves no window focused, and asks for that if one was.
LEMMA DeleteFocusDoes ==
  ASSUME NEW F, NEW lost, Sane(F, lost)
  PROVE  LET G == DeleteFocus(F)
         IN Given(F, G, None, lost) /\ G.focus = None /\ (F.focus # None => Asked(G))
<1> DEFINE G == DeleteFocus(F)
           H == Give(UpdateWindowlist(F, None, "force", FALSE), None)
<1>1. Given(F, G, None, lost)
  BY SetFocusDoes DEF DeleteFocus
<1>2. UpdateWindowlist(F, None, "force", FALSE) = F
  <2>1. Managed(F) \subseteq Windows /\ None \notin Windows
    BY ManagedWindows, FocusAssumption DEF Sane, Fvwms
  <2> QED
    BY <2>1, Zenon DEF UpdateWindowlist
<1>3. H.focus = None /\ Asked(H)
  BY <1>2, GiveDoes
<1>4. IF F.focus = None THEN G = F ELSE G = H
  <2>1. Allowed(F, None, "force")
    BY DEF Allowed
  <2> QED
    BY <2>1, Zenon DEF DeleteFocus, SetFocus
<1> HIDE DEF G, H
<1>5. G.focus = None /\ (F.focus # None => Asked(G))
  BY <1>3, <1>4
<1> QED
  BY <1>1, <1>5 DEF G

\* The heir of r is another window of the list.
LEMMA HeirManaged ==
  ASSUME NEW F, F.list \in Seq(Windows), NEW r \in Windows, NEW after \in Seq(Windows),
         ToSet(after) \subseteq Managed(F) \ {r}
  PROVE  Heir(F, r, after) \in (Managed(F) \ {r}) \cup {None}
<1> DEFINE t == Parent(F, r)
           next == SelectInSeq(after, LAMBDA s : ~Has(s, "override release"))
           I == {i \in 1..Len(after) : ~Has(after[i], "override release")}
<1>1. t \in (Managed(F) \ {r}) \cup {None}
  BY FocusAssumption DEF Parent
<1>2. next # 0 => after[next] \in ToSet(after)
  <2>1. next = IF I # {} THEN Min(I) ELSE 0
    BY Zenon DEF SelectInSeq
  <2>2. ASSUME I # {} PROVE Min(I) \in DOMAIN after
    <3>0. Len(after) \in Nat /\ DOMAIN after = 1..Len(after)
      OBVIOUS
    <3>1. \A i \in I : i \in Nat /\ i \in DOMAIN after
      <4>1. I \subseteq 1..Len(after)
        BY Zenon
      <4> HIDE DEF I
      <4> QED
        BY <3>0, <4>1
    <3> HIDE DEF I
    <3>2. I \in SUBSET Nat
      BY <3>1
    <3>3. Min(I) \in I
      BY <2>2, <3>2, LeastExists
    <3> QED
      BY <3>1, <3>3
  <2> HIDE DEF next, I
  <2> QED
    BY <2>1, <2>2 DEF ToSet
<1>3. Heir(F, r, after) \in {t, None} \/ (next # 0 /\ Heir(F, r, after) = after[next])
  BY Zenon DEF Heir
<1> HIDE DEF t, next
<1> QED
  BY <1>1, <1>2, <1>3

\* What restoring the focus after r leaves.
Restored(F, G, r, lost) ==
  /\ Sane(G, lost) /\ Keeps(F, G)
  /\ G.hilite = F.hilite /\ G.pending = F.pending /\ G.stolen = F.stolen
  /\ G.events = F.events
  /\ IF F.focus = r THEN Asked(G) /\ G.focus \in (Managed(F) \ {r}) \cup {None}
     ELSE G = F

\* Afterwards r is not the focus, which a window of the list may have inherited.
LEMMA RestoreFocusDoes ==
  ASSUME NEW F, NEW lost, Sane(F, lost), NEW r \in Windows, NEW after \in Seq(Windows),
         ToSet(after) \subseteq Managed(F) \ {r}
  PROVE  Restored(F, RestoreFocus(F, r, after), r, lost)
<1> DEFINE heir == Heir(F, r, after)
           B == IF heir # None THEN SetFocus(F, heir, "force", TRUE, FALSE) ELSE F
           D == DeleteFocus(B)
           G == RestoreFocus(F, r, after)
<1>0. None \notin Windows /\ F.list \in Seq(Windows)
  BY FocusAssumption DEF Sane, Fvwms
<1>1. heir \in (Managed(F) \ {r}) \cup {None}
  BY <1>0, HeirManaged
<1> HIDE DEF heir
<1>2. Keeps(F, F) /\ Given(F, F, heir, lost)
  BY KeepsSame DEF Given
<1>3. Given(F, B, heir, lost)
  BY <1>1, <1>2, SetFocusDoes
<1>4. G = IF F.focus # r THEN F ELSE IF B.focus = r THEN D ELSE B
  BY Zenon DEF RestoreFocus, B, D, heir
<1> HIDE DEF B
<1>5. Given(B, D, None, lost) /\ D.focus = None /\ (B.focus # None => Asked(D))
  BY <1>3, DeleteFocusDoes DEF Given
<1> HIDE DEF D, G
<1>6. CASE F.focus # r
  BY <1>2, <1>4, <1>6 DEF Restored, G, Given
<1>7. CASE F.focus = r /\ B.focus = r
  <2>1. G = D /\ Asked(D)
    BY <1>0, <1>4, <1>5, <1>7
  <2>2. Keeps(F, D)
    BY <1>3, <1>5, KeepsTransitive DEF Given
  <2> QED
    BY <1>3, <1>5, <1>7, <2>1, <2>2 DEF Restored, G, Given
<1>8. CASE F.focus = r /\ B.focus # r
  <2>1. G = B /\ Asked(B) /\ B.focus \in {heir, None}
    BY <1>3, <1>4, <1>8 DEF Given
  <2> QED
    BY <1>1, <1>3, <1>8, <2>1 DEF Restored, G, Given
<1> QED
  BY <1>6, <1>7, <1>8

\* The window leaves the list and the screen, and is lost for a moment.
LEMMA UnlinkDoes ==
  ASSUME NEW F, Sane(F, {}), NEW r \in Managed(F)
  PROVE  LET G == Unlink(F, r)
         IN /\ Sane(G, {r}) /\ Managed(G) = Managed(F) \ {r} /\ r \in Windows
            /\ Rq(G) = Rq(F) \cup {Request("unmap", r)}
            /\ MapsFirst(F.requests) => MapsFirst(G.requests)
            /\ G.focus = F.focus /\ G.events = F.events /\ G.hilite # r
<1> DEFINE q == Request("unmap", r)
           l == Before(F, r) \o After(F, r)
           h == Forget(F.hilite, r)
           G == Unlink(F, r)
<1>0. F \in Fvwms /\ IsInjective(F.list) /\ F.list \in Seq(Windows) /\ None \notin Windows
  BY FocusAssumption DEF Sane, Fvwms
<1>1. r \in Windows
  BY <1>0, ManagedWindows
<1>2. q \in Requests /\ q.op = "unmap" /\ q.win = r
  BY <1>1 DEF Requests, Request
<1>3. F.requests \in Seq(Requests)
  BY <1>0 DEF Fvwms
<1>4. Append(F.requests, q) \in Seq(Requests) /\ ToSet(Append(F.requests, q)) = Rq(F) \cup {q}
  BY <1>2, <1>3, AppendSet DEF Rq
<1>5. MapsFirst(F.requests) => MapsFirst(Append(F.requests, q))
  BY <1>2, <1>3, MapsFirstAppend
<1>6. l \in Seq(Windows) /\ IsInjective(l) /\ ToSet(l) = Managed(F) \ {r}
  BY <1>0, ListWithout
<1>7. h \in Pointers /\ h # r /\ h \in {F.hilite, None}
  BY <1>0, <1>1 DEF Forget, Fvwms, Pointers
<1>8. G = [F EXCEPT !.list = l, !.hilite = h, !.requests = Append(F.requests, q)]
  BY DEF Unlink
<1> HIDE DEF q, G, l, h
<1>9. /\ G \in Fvwms
      /\ G.list = l /\ G.focus = F.focus /\ G.hilite = h
      /\ G.requested = F.requested /\ G.pending = F.pending /\ G.stolen = F.stolen
      /\ G.events = F.events /\ G.requests = Append(F.requests, q)
  BY <1>0, <1>4, <1>6, <1>7, <1>8 DEF Fvwms
<1>10. Managed(G) = Managed(F) \ {r} /\ Ev(G) = Ev(F) /\ Rq(G) = Rq(F) \cup {q}
  BY <1>4, <1>6, <1>9 DEF Managed, Ev, Rq
<1>11. Sane(G, {r})
  <2>1. {F.focus, F.hilite, F.requested, F.pending, F.stolen} \subseteq Managed(F) \cup {None}
    BY DEF Sane
  <2>2. {G.focus, G.hilite, G.requested, G.pending, G.stolen} \subseteq Managed(G) \cup {None} \cup {r}
    BY <1>7, <1>9, <1>10, <2>1
  <2>3. AskedOnce(F.events) /\ \A w \in Windows : Event("MapRequest", w) \in Ev(F) => w \notin Managed(F)
    BY DEF Sane
  <2> QED
    BY <1>6, <1>9, <1>10, <2>2, <2>3 DEF Sane
<1> QED
  BY <1>1, <1>5, <1>7, <1>9, <1>10, <1>11 DEF G, q

\* What the destruction of r leaves.
Destroyed(F, G, r) ==
  /\ Sane(G, {}) /\ Managed(G) = Managed(F) \ {r}
  /\ Rq(F) \cup {Request("unmap", r)} \subseteq Rq(G)
  /\ \A q \in Rq(G) \ (Rq(F) \cup {Request("unmap", r)}) : MayAsk(q, Managed(F))
  /\ MapsFirst(F.requests) => MapsFirst(G.requests)
  /\ G.events = F.events
  /\ IF F.focus = r THEN Asked(G) ELSE G.focus = F.focus

\* CMD_Destroy leaves no pointer on r and asks for no focus of r.
LEMMA DestroyWindowDoes ==
  ASSUME NEW F, Sane(F, {}), NEW r \in Managed(F)
  PROVE  LET G == DestroyWindow(F, r)
         IN /\ Destroyed(F, G, r)
            /\ Request("focus", r) \in Rq(G) => Request("focus", r) \in Rq(F)
<1> DEFINE U == Unlink(F, r)
           R == RestoreFocus(U, r, <<>>)
           s == Forget(R.stolen, r)
           p == Forget(R.pending, r)
           d == Forget(R.requested, r)
           G == DestroyWindow(F, r)
<1>0. None \notin Windows
  BY FocusAssumption
<1>1. /\ Sane(U, {r}) /\ Managed(U) = Managed(F) \ {r} /\ r \in Windows
      /\ Rq(U) = Rq(F) \cup {Request("unmap", r)}
      /\ MapsFirst(F.requests) => MapsFirst(U.requests)
      /\ U.focus = F.focus /\ U.events = F.events /\ U.hilite # r
  BY UnlinkDoes
<1> HIDE DEF U
<1>2. Restored(U, R, r, {r})
  <2>1. <<>> \in Seq(Windows) /\ ToSet(<<>>) = {}
    BY DEF ToSet
  <2> QED
    BY <1>1, <2>1, RestoreFocusDoes
<1>3. G = [R EXCEPT !.stolen = s, !.pending = p, !.requested = d]
  BY DEF DestroyWindow, U
<1> HIDE DEF R, G
<1>4. /\ R \in Fvwms /\ Managed(R) = Managed(U) /\ R.hilite = U.hilite /\ R.events = U.events
      /\ R.focus # r /\ Keeps(U, R)
      /\ {R.focus, R.hilite, R.requested, R.pending, R.stolen} \subseteq Managed(R) \cup {None} \cup {r}
      /\ IF U.focus = r THEN Asked(R) ELSE R.focus = U.focus
  BY <1>0, <1>1, <1>2 DEF Restored, Sane, Keeps
<1>5. /\ {s, p, d} \subseteq Pointers /\ {s, p, d} \subseteq Managed(R) \cup {None}
  <2>1. \A x \in {R.stolen, R.pending, R.requested} : Forget(x, r) \in Managed(R) \cup {None}
    BY <1>4 DEF Forget
  <2>2. Managed(R) \subseteq Windows
    BY <1>4, ManagedWindows DEF Fvwms
  <2> QED
    BY <2>1, <2>2 DEF Pointers
<1> HIDE DEF s, p, d
<1>6. /\ G \in Fvwms /\ G.list = R.list /\ G.focus = R.focus /\ G.hilite = R.hilite
      /\ G.stolen = s /\ G.pending = p /\ G.requested = d
      /\ G.requests = R.requests /\ G.events = R.events
  BY <1>3, <1>4, <1>5 DEF Fvwms
<1>7. Managed(G) = Managed(R) /\ Rq(G) = Rq(R) /\ Ev(G) = Ev(R)
  BY <1>6 DEF Managed, Rq, Ev
<1>8. Sane(G, {})
  <2>1. IsInjective(R.list) /\ AskedOnce(R.events)
        /\ \A w \in Windows : Event("MapRequest", w) \in Ev(R) => w \notin Managed(R)
    BY <1>2 DEF Restored, Sane
  <2>2. {G.focus, G.hilite, G.requested, G.pending, G.stolen} \subseteq Managed(G) \cup {None} \cup {}
    BY <1>1, <1>4, <1>5, <1>6, <1>7
  <2> QED
    BY <1>6, <1>7, <2>1, <2>2 DEF Sane
<1>9. Asked(R) => Asked(G)
  BY <1>6, <1>7 DEF Asked
<1>10. /\ Rq(U) \subseteq Rq(G)
       /\ \A q \in Rq(G) \ Rq(U) : MayAsk(q, Managed(G))
       /\ MapsFirst(U.requests) => MapsFirst(G.requests)
  BY <1>4, <1>6, <1>7 DEF Keeps
<1>11. IF F.focus = r THEN Asked(G) ELSE G.focus = F.focus
  BY <1>1, <1>4, <1>6, <1>9
<1>12. /\ Rq(F) \cup {Request("unmap", r)} \subseteq Rq(G)
       /\ MapsFirst(F.requests) => MapsFirst(G.requests)
       /\ Managed(G) = Managed(F) \ {r} /\ G.events = F.events
  BY <1>1, <1>4, <1>6, <1>7, <1>10
<1>13. ASSUME NEW q \in Rq(G), q \notin Rq(F) \cup {Request("unmap", r)}
       PROVE  MayAsk(q, Managed(F)) /\ q # Request("focus", r)
  <2>1. MayAsk(q, Managed(F) \ {r})
    BY <1>1, <1>10, <1>12, <1>13
  <2>2. r # NoFocusWin /\ r # None /\ r \notin Managed(F) \ {r}
    BY <1>1, FocusAssumption
  <2>3. ASSUME q = Request("focus", r) PROVE FALSE
    <3>1. q.op = "focus" /\ q.win = r
      BY <2>3 DEF Request
    <3> QED
      BY <2>1, <2>2, <3>1 DEF MayAsk
  <2> QED
    BY <2>1, <2>3 DEF MayAsk
<1>14. Request("focus", r) # Request("unmap", r)
  BY DEF Request
<1> QED
  BY <1>8, <1>11, <1>12, <1>13, <1>14 DEF Destroyed, G

-----------------------------------------------------------------------------
(* Events of the focus.                                                      *)

HasFocusIn(F) == \E i \in DOMAIN F.events : F.events[i].type = "FocusIn"
Told(F) == LastFocusIn(F, None)

\* i is the place of the last FocusIn event of s.
LastAt(s, i) ==
  /\ i \in DOMAIN s /\ s[i].type = "FocusIn"
  /\ \A j \in DOMAIN s : s[j].type = "FocusIn" => j <= i

\* LastFocusIn is the window of the last FocusIn event, if there is one.
LEMMA LastFocusInIs ==
  ASSUME NEW F, F.events \in Seq(Events), NEW w
  PROVE  /\ ~HasFocusIn(F) => LastFocusIn(F, w) = w
         /\ HasFocusIn(F) => \E i : LastAt(F.events, i) /\ LastFocusIn(F, w) = F.events[i].win
<1> DEFINE s == F.events
           last == SelectLastInSeq(F.events, LAMBDA e : e.type = "FocusIn")
           I == {i \in 1..Len(s) : s[i].type = "FocusIn"}
<1>0. Len(s) \in Nat /\ DOMAIN s = 1..Len(s)
  OBVIOUS
<1>1. last = IF I # {} THEN Max(I) ELSE 0
  BY Zenon DEF SelectLastInSeq
<1>2. LastFocusIn(F, w) = IF last = 0 THEN w ELSE s[last].win
  BY Zenon DEF LastFocusIn
<1>3. I \subseteq 1..Len(s) /\ \A i \in 1..Len(s) : i \in I <=> s[i].type = "FocusIn"
  BY Zenon
<1>4. HasFocusIn(F) <=> I # {}
  BY <1>0, <1>3 DEF HasFocusIn
<1> HIDE DEF I, last
<1>5. ASSUME I # {} PROVE LastAt(s, last) /\ last # 0
  <2>1. Max(I) \in I /\ \A j \in I : j <= Max(I)
    BY <1>0, <1>3, <1>5, GreatestExists
  <2>2. last = Max(I)
    BY <1>1, <1>5
  <2>3. last \in 1..Len(s) /\ s[last].type = "FocusIn"
    BY <1>3, <2>1, <2>2
  <2>4. \A j \in DOMAIN s : s[j].type = "FocusIn" => j <= last
    BY <1>0, <1>3, <2>1, <2>2
  <2> QED
    BY <1>0, <2>3, <2>4 DEF LastAt
<1> QED
  BY <1>1, <1>2, <1>4, <1>5

\* There is one last FocusIn.
LEMMA LastAtUnique ==
  ASSUME NEW s \in Seq(Events), NEW i, NEW j, LastAt(s, i), LastAt(s, j)
  PROVE  i = j
<1>1. i \in Int /\ j \in Int /\ i <= j /\ j <= i
  BY DEF LastAt
<1> QED
  BY <1>1

\* What fvwm is told of is one of its events.
LEMMA ToldIsEvent ==
  ASSUME NEW F, F.events \in Seq(Events), HasFocusIn(F), NEW w
  PROVE  /\ LastFocusIn(F, w) = Told(F)
         /\ Event("FocusIn", Told(F)) \in Ev(F)
         /\ Told(F) \in Windows \cup Unmanaged \cup {NoFocusWin}
<1>1. PICK i : LastAt(F.events, i) /\ LastFocusIn(F, w) = F.events[i].win
  BY LastFocusInIs
<1>2. PICK j : LastAt(F.events, j) /\ Told(F) = F.events[j].win
  BY LastFocusInIs DEF Told
<1>3. i = j
  BY <1>1, <1>2, LastAtUnique
<1>4. j \in DOMAIN F.events /\ F.events[j].type = "FocusIn" /\ F.events[j] \in Events
  BY <1>2 DEF LastAt
<1>5. F.events[j] = Event("FocusIn", Told(F))
  BY <1>2, <1>4 DEF Events, Event
<1>6. Told(F) \in Windows \cup Unmanaged \cup {NoFocusWin}
  BY <1>2, <1>4 DEF Events
<1>7. Event("FocusIn", Told(F)) \in Ev(F)
  BY <1>4, <1>5 DEF Ev, ToSet
<1> QED
  BY <1>1, <1>2, <1>3, <1>6, <1>7

\* A FocusIn event is the last one when it comes.
LEMMA ToldAppend ==
  ASSUME NEW F, F.events \in Seq(Events), NEW e \in Events,
         NEW G, G.events = Append(F.events, e)
  PROVE  /\ e.type = "FocusIn" => HasFocusIn(G) /\ Told(G) = e.win
         /\ e.type # "FocusIn" => /\ HasFocusIn(G) <=> HasFocusIn(F)
                                  /\ HasFocusIn(F) => Told(G) = Told(F)
<1> DEFINE s == F.events
           t == G.events
<1>1. /\ t \in Seq(Events) /\ s \in Seq(Events)
      /\ Len(s) \in Nat /\ DOMAIN s = 1..Len(s) /\ DOMAIN t = 1..(Len(s) + 1)
      /\ t[Len(s) + 1] = e /\ \A i \in 1..Len(s) : t[i] = s[i]
  OBVIOUS
<1>2. HasFocusIn(F) <=> \E i \in DOMAIN s : s[i].type = "FocusIn"
  BY DEF HasFocusIn
<1>3. HasFocusIn(G) <=> \E i \in DOMAIN t : t[i].type = "FocusIn"
  BY DEF HasFocusIn
<1>4. HasFocusIn(G) => \E i : LastAt(t, i) /\ Told(G) = t[i].win
  BY <1>1, LastFocusInIs DEF Told
<1>5. HasFocusIn(F) => \E i : LastAt(s, i) /\ Told(F) = s[i].win
  BY <1>1, LastFocusInIs DEF Told
<1> HIDE DEF s, t
<1>6. CASE e.type = "FocusIn"
  <2>1. HasFocusIn(G)
    BY <1>1, <1>3, <1>6
  <2>2. LastAt(t, Len(s) + 1)
    BY <1>1, <1>6 DEF LastAt
  <2>3. PICK i : LastAt(t, i) /\ Told(G) = t[i].win
    BY <1>4, <2>1
  <2>4. i = Len(s) + 1
    BY <1>1, <2>2, <2>3, LastAtUnique
  <2> QED
    BY <1>1, <1>6, <2>1, <2>3, <2>4
<1>7. CASE e.type # "FocusIn"
  <2>1. HasFocusIn(G) <=> HasFocusIn(F)
    <3>1. \A i \in 1..(Len(s) + 1) : i \in 1..Len(s) \/ i = Len(s) + 1
      BY <1>1
    <3>2. \A i \in 1..Len(s) : i \in 1..(Len(s) + 1)
      BY <1>1
    <3> QED
      BY <1>1, <1>2, <1>3, <1>7, <3>1, <3>2
  <2>2. ASSUME HasFocusIn(F) PROVE Told(G) = Told(F)
    <3>1. PICK i : LastAt(s, i) /\ Told(F) = s[i].win
      BY <1>5, <2>2
    <3>2. PICK j : LastAt(t, j) /\ Told(G) = t[j].win
      BY <1>4, <2>1, <2>2
    <3>3. LastAt(t, i)
      BY <1>1, <1>7, <3>1 DEF LastAt
    <3>4. i = j
      BY <1>1, <3>2, <3>3, LastAtUnique
    <3> QED
      BY <1>1, <3>1, <3>2, <3>4 DEF LastAt
  <2> QED
    BY <1>7, <2>1, <2>2
<1> QED
  BY <1>6, <1>7

\* Nothing changes when another event is taken.
LEMMA ToldTail ==
  ASSUME NEW F, F.events \in Seq(Events), F.events # <<>>, Head(F.events).type # "FocusIn",
         NEW G, G.events = Tail(F.events)
  PROVE  /\ HasFocusIn(G) <=> HasFocusIn(F)
         /\ HasFocusIn(F) => Told(G) = Told(F)
<1> DEFINE s == F.events
           t == G.events
<1>1. /\ t \in Seq(Events) /\ s \in Seq(Events)
      /\ Len(s) \in Nat /\ Len(s) # 0 /\ DOMAIN s = 1..Len(s) /\ DOMAIN t = 1..(Len(s) - 1)
      /\ s[1].type # "FocusIn" /\ \A i \in 1..(Len(s) - 1) : t[i] = s[i + 1]
  OBVIOUS
<1>2. HasFocusIn(F) <=> \E i \in DOMAIN s : s[i].type = "FocusIn"
  BY DEF HasFocusIn
<1>3. HasFocusIn(G) <=> \E i \in DOMAIN t : t[i].type = "FocusIn"
  BY DEF HasFocusIn
<1>4. HasFocusIn(G) => \E i : LastAt(t, i) /\ Told(G) = t[i].win
  BY <1>1, LastFocusInIs DEF Told
<1>5. HasFocusIn(F) => \E i : LastAt(s, i) /\ Told(F) = s[i].win
  BY <1>1, LastFocusInIs DEF Told
<1> HIDE DEF s, t
<1>6. \A i \in 1..Len(s) : s[i].type = "FocusIn" =>
        i - 1 \in 1..(Len(s) - 1) /\ t[i - 1] = s[i]
  <2>1. ASSUME NEW i \in 1..Len(s), s[i].type = "FocusIn"
        PROVE  i - 1 \in 1..(Len(s) - 1) /\ t[i - 1] = s[i]
    <3>1. i # 1
      BY <1>1, <2>1
    <3>2. i - 1 \in 1..(Len(s) - 1) /\ (i - 1) + 1 = i
      BY <1>1, <3>1
    <3> QED
      BY <1>1, <3>2
  <2> QED
    BY <2>1
<1>7. \A i \in 1..(Len(s) - 1) : i + 1 \in 1..Len(s)
  BY <1>1
<1>8. HasFocusIn(G) <=> HasFocusIn(F)
  <2>1. ASSUME HasFocusIn(F) PROVE HasFocusIn(G)
    <3>1. PICK i \in 1..Len(s) : s[i].type = "FocusIn"
      BY <1>1, <1>2, <2>1
    <3>2. i - 1 \in DOMAIN t /\ t[i - 1].type = "FocusIn"
      BY <1>1, <1>6, <3>1
    <3> QED
      BY <1>3, <3>2
  <2>2. ASSUME HasFocusIn(G) PROVE HasFocusIn(F)
    <3>1. PICK i \in 1..(Len(s) - 1) : t[i].type = "FocusIn"
      BY <1>1, <1>3, <2>2
    <3>2. i + 1 \in DOMAIN s /\ s[i + 1].type = "FocusIn"
      BY <1>1, <1>7, <3>1
    <3> QED
      BY <1>2, <3>2
  <2> QED
    BY <2>1, <2>2
<1>9. ASSUME HasFocusIn(F) PROVE Told(G) = Told(F)
  <2>1. PICK i : LastAt(s, i) /\ Told(F) = s[i].win
    BY <1>5, <1>9
  <2>2. PICK j : LastAt(t, j) /\ Told(G) = t[j].win
    BY <1>4, <1>8, <1>9
  <2>3. i \in 1..Len(s) /\ s[i].type = "FocusIn" /\ i - 1 \in 1..(Len(s) - 1) /\ t[i - 1] = s[i]
    BY <1>1, <1>6, <2>1 DEF LastAt
  <2>4. LastAt(t, i - 1)
    <3>1. ASSUME NEW k \in 1..(Len(s) - 1), t[k].type = "FocusIn" PROVE k <= i - 1
      <4>1. s[k + 1].type = "FocusIn" /\ k + 1 \in 1..Len(s)
        BY <1>1, <1>7, <3>1
      <4>2. k + 1 <= i
        BY <1>1, <2>1, <4>1 DEF LastAt
      <4> QED
        BY <2>3, <4>2
    <3> QED
      BY <1>1, <2>3, <3>1 DEF LastAt
  <2>5. i - 1 = j
    BY <1>1, <2>2, <2>4, LastAtUnique
  <2> QED
    BY <2>1, <2>2, <2>3, <2>5
<1> QED
  BY <1>8, <1>9

\* fvwm takes note of who has the focus.
LEMMA AcceptFocusInDoes ==
  ASSUME NEW F, Sane(F, {}), NEW w \in Windows \cup Unmanaged \cup {NoFocusWin}
  PROVE  LET G == AcceptFocusIn(F, w)
         IN /\ Sane(G, {}) /\ Keeps(F, G) /\ G.events = F.events /\ G.requests = F.requests
            /\ Managed(G) = Managed(F)
            /\ G.focus = IF w \in Managed(F) THEN w ELSE F.focus
<1> DEFINE G == AcceptFocusIn(F, w)
<1>0. /\ F \in Fvwms /\ IsInjective(F.list) /\ Managed(F) \subseteq Windows
      /\ None \notin Windows /\ NoFocusWin \notin Windows
  BY ManagedWindows, FocusAssumption DEF Sane, Fvwms
<1>1. /\ {F.focus, F.hilite, F.requested, F.pending, F.stolen} \subseteq Managed(F) \cup {None}
      /\ AskedOnce(F.events)
      /\ \A r \in Windows : Event("MapRequest", r) \in Ev(F) => r \notin Managed(F)
  BY DEF Sane
<1>2. \E h \in {w, None}, f \in {w, F.focus}, u \in {w, F.unknown}, o \in {F.stolen, F.focus} :
        /\ G = [F EXCEPT !.hilite = h, !.focus = f, !.unknown = u, !.stolen = o]
        /\ h \in Managed(F) \cup {None} /\ u \in Windows \cup Unmanaged \cup {None}
        /\ f = IF w \in Managed(F) THEN w ELSE F.focus
  <2>0. F.unknown \in Windows \cup Unmanaged \cup {None}
    BY <1>0 DEF Fvwms
  <2>1. CASE w = NoFocusWin
    <3>1. G = [F EXCEPT !.hilite = None]
      BY <1>0, <2>1 DEF AcceptFocusIn
    <3>2. G = [F EXCEPT !.hilite = None, !.focus = F.focus, !.unknown = F.unknown, !.stolen = F.stolen]
      BY <1>0, <3>1 DEF Fvwms
    <3> HIDE DEF G
    <3> QED
      BY <1>0, <2>0, <2>1, <3>2
  <2>2. CASE w \notin Managed(F) \cup {NoFocusWin}
    <3>1. G = [F EXCEPT !.hilite = None, !.unknown = w, !.stolen = F.focus]
      BY <2>2 DEF AcceptFocusIn
    <3>2. G = [F EXCEPT !.hilite = None, !.focus = F.focus, !.unknown = w, !.stolen = F.focus]
      BY <1>0, <3>1 DEF Fvwms
    <3> HIDE DEF G
    <3> QED
      BY <2>2, <3>2
  <2>3. CASE w \in Managed(F)
    <3>1. G = [F EXCEPT !.hilite = w, !.focus = w, !.stolen = F.focus]
      BY <1>0, <2>3 DEF AcceptFocusIn
    <3>2. G = [F EXCEPT !.hilite = w, !.focus = w, !.unknown = F.unknown, !.stolen = F.focus]
      BY <1>0, <3>1 DEF Fvwms
    <3> HIDE DEF G
    <3> QED
      BY <2>0, <2>3, <3>2
  <2> QED
    BY <2>1, <2>2, <2>3
<1> HIDE DEF G
<1>3. PICK h \in {w, None}, f \in {w, F.focus}, u \in {w, F.unknown}, o \in {F.stolen, F.focus} :
        /\ G = [F EXCEPT !.hilite = h, !.focus = f, !.unknown = u, !.stolen = o]
        /\ h \in Managed(F) \cup {None} /\ u \in Windows \cup Unmanaged \cup {None}
        /\ f = IF w \in Managed(F) THEN w ELSE F.focus
  BY <1>2
<1>4. h \in Pointers /\ f \in Pointers /\ o \in Pointers /\ {h, f, o} \subseteq Managed(F) \cup {None}
  BY <1>0, <1>1, <1>3 DEF Pointers
<1>5. /\ G \in Fvwms /\ G.list = F.list /\ G.focus = f /\ G.hilite = h
      /\ G.stolen = o /\ G.pending = F.pending /\ G.requested = F.requested
      /\ G.requests = F.requests /\ G.events = F.events
  BY <1>0, <1>3, <1>4 DEF Fvwms
<1>6. Managed(G) = Managed(F) /\ Ev(G) = Ev(F)
  BY <1>5 DEF Managed, Ev
<1>7. Sane(G, {})
  BY <1>0, <1>1, <1>4, <1>5, <1>6 DEF Sane
<1> QED
  BY <1>3, <1>5, <1>6, <1>7, KeepsSame DEF G

\* The focus is asked for the window it was stolen from.
LEMMA ReturnStolenDoes ==
  ASSUME NEW F, Sane(F, {})
  PROVE  LET G == ReturnStolen(F)
         IN /\ Sane(G, {}) /\ Keeps(F, G) /\ G.events = F.events /\ G.focus = F.focus
            /\ Managed(G) = Managed(F) /\ Request("focus", F.stolen) \in Rq(G)
            /\ G.requested = F.stolen /\ G.stolen = None
<1> DEFINE S == FocusSet(F, F.stolen, F.stolen)
           G == ReturnStolen(F)
<1>1. F.stolen \in Managed(F) \cup {None}
  BY DEF Sane
<1>2. /\ Sane(S, {}) /\ Keeps(F, S) /\ Request("focus", F.stolen) \in Rq(S)
      /\ S.list = F.list /\ S.focus = F.focus /\ S.hilite = F.hilite
      /\ S.requested = F.stolen /\ S.pending = F.pending
      /\ S.events = F.events
  BY <1>1, FocusSetDoes
<1>3. G = [S EXCEPT !.unknown = None, !.stolen = None]
  BY DEF ReturnStolen
<1> HIDE DEF S, G
<1>4. S \in Fvwms
  BY <1>2 DEF Sane
<1>5. /\ G \in Fvwms /\ G.list = S.list /\ G.focus = S.focus /\ G.hilite = S.hilite
      /\ G.stolen = None /\ G.pending = S.pending /\ G.requested = S.requested
      /\ G.requests = S.requests /\ G.events = S.events
  BY <1>3, <1>4 DEF Fvwms, Pointers
<1>6. Managed(G) = Managed(S) /\ Ev(G) = Ev(S) /\ Rq(G) = Rq(S)
  BY <1>5 DEF Managed, Ev, Rq
<1>7. Sane(G, {})
  BY <1>2, <1>5, <1>6 DEF Sane
<1>8. Keeps(F, G)
  BY <1>2, <1>5, <1>6, KeepsSame, KeepsTransitive
<1> QED
  BY <1>2, <1>5, <1>6, <1>7, <1>8 DEF G, Keeps

\* No FocusIn event is left, and every other one is.
Drained(F, G) ==
  /\ Ev(G) = {e \in Ev(F) : e.type # "FocusIn"}
  /\ FocusFirst(G.events) /\ ~HasFocusIn(G)

\* What hearing that w has the focus leaves.
Heard(F, G, w) ==
  /\ Sane(G, {}) /\ Keeps(F, G) /\ Drained(F, G)
  /\ IF w \in Managed(F)
     THEN G.focus = w \/ Asked(G) \/ Request("focus", None) \in Rq(G)
     ELSE G.focus = F.focus

\* Taking the FocusIn events leaves all the others, in order.
LEMMA OtherEventsDrain ==
  ASSUME NEW F, F.events \in Seq(Events), NEW G, G.events = OtherEvents(F)
  PROVE  Drained(F, G)
<1>1. /\ G.events \in Seq(Events)
      /\ Ev(G) = {e \in Ev(F) : e.type # "FocusIn"} /\ FocusFirst(G.events)
  BY KeptProperties DEF Ev
<1>2. \A i \in DOMAIN G.events : G.events[i] \in Ev(G)
  BY DEF Ev, ToSet
<1>3. ~HasFocusIn(G)
  BY <1>1, <1>2 DEF HasFocusIn
<1> QED
  BY <1>1, <1>3 DEF Drained

\* The same events tell of the same focus.
LEMMA ToldSame ==
  ASSUME NEW F, F.events \in Seq(Events), NEW G, G.events = F.events
  PROVE  /\ HasFocusIn(G) <=> HasFocusIn(F)
         /\ HasFocusIn(F) => Told(G) = Told(F)
<1>1. HasFocusIn(G) <=> HasFocusIn(F)
  BY DEF HasFocusIn
<1>2. ASSUME HasFocusIn(F) PROVE Told(G) = Told(F)
  <2>1. PICK i : LastAt(F.events, i) /\ Told(F) = F.events[i].win
    BY <1>2, LastFocusInIs DEF Told
  <2>2. PICK j : LastAt(G.events, j) /\ Told(G) = G.events[j].win
    BY <1>1, <1>2, LastFocusInIs DEF Told
  <2>3. i = j
    BY <2>1, <2>2, LastAtUnique
  <2> QED
    BY <2>1, <2>2, <2>3
<1> QED
  BY <1>1, <1>2

\* fvwm has found out who has the focus, and takes all FocusIn events.
LEMMA FocusIsOnDoes ==
  ASSUME NEW F, Sane(F, {}), NEW w \in Windows \cup Unmanaged \cup {NoFocusWin, None}
  PROVE  LET G == FocusIsOn(F, w)
         IN /\ Heard(F, G, w)
            /\ w = F.requested /\ w \in Managed(F) => G.focus = w
<1> DEFINE k == OtherEvents(F)
           B == [F EXCEPT !.events = k, !.pending = None]
           C == [B EXCEPT !.unknown = None]
           R == ReturnStolen(C)
           G == FocusIsOn(F, w)
<1>0. /\ F \in Fvwms /\ Managed(F) \subseteq Windows /\ IsInjective(F.list)
      /\ None \notin Windows /\ NoFocusWin \notin Windows
      /\ {F.focus, F.hilite, F.requested, F.pending, F.stolen} \subseteq Managed(F) \cup {None}
      /\ \A r \in Windows : Event("MapRequest", r) \in Ev(F) => r \notin Managed(F)
  BY ManagedWindows, FocusAssumption DEF Sane, Fvwms
<1>1. k \in Seq(Events) /\ ToSet(k) \subseteq Ev(F) /\ AskedOnce(k)
  BY <1>0, KeptProperties DEF Sane, Fvwms
<1> HIDE DEF k
<1>2. ASSUME NEW D \in {B, C}
      PROVE  /\ Sane(D, {}) /\ D.list = F.list /\ D.focus = F.focus /\ D.requested = F.requested
             /\ D.stolen = F.stolen /\ D.events = k /\ D.requests = F.requests
             /\ Managed(D) = Managed(F) /\ Keeps(F, D)
  <2>1. B \in Fvwms /\ C \in Fvwms
    BY <1>0, <1>1 DEF Fvwms, Pointers
  <2>2. /\ D \in Fvwms /\ D.list = F.list /\ D.focus = F.focus /\ D.requested = F.requested
        /\ D.stolen = F.stolen /\ D.events = k /\ D.requests = F.requests
        /\ D.hilite = F.hilite /\ D.pending = None
    BY <1>0, <1>2, <2>1 DEF Fvwms
  <2> HIDE DEF B, C
  <2>3. Managed(D) = Managed(F) /\ Ev(D) \subseteq Ev(F)
    BY <1>1, <2>2 DEF Managed, Ev
  <2>4. Sane(D, {})
    BY <1>0, <1>1, <2>2, <2>3 DEF Sane
  <2> QED
    BY <2>2, <2>3, <2>4, KeepsSame
<1>12. ASSUME NEW D, D.events = k PROVE Drained(F, D)
  BY <1>0, <1>12, OtherEventsDrain DEF k, Fvwms
<1>3. \/ w = None /\ G = B
      \/ w # None /\ Refuses(F, w) /\ F.stolen = None /\ G = R
      \/ w # None /\ Refuses(F, w) /\ F.stolen # None /\ G = AcceptFocusIn(R, F.stolen)
      \/ w # None /\ ~Refuses(F, w) /\ G = AcceptFocusIn(C, w)
  <2>1. CASE w = None
    BY <2>1 DEF FocusIsOn, k
  <2>2. CASE w # None /\ Refuses(F, w)
    <3>1. G = IF F.stolen = None THEN R ELSE AcceptFocusIn(R, F.stolen)
      BY <2>2 DEF FocusIsOn, k
    <3> HIDE DEF G, R
    <3> QED
      BY <2>2, <3>1
  <2>3. CASE w # None /\ ~Refuses(F, w)
    BY <2>3, Zenon DEF FocusIsOn, k
  <2> QED
    BY <2>1, <2>2, <2>3
<1>4. B \in {B, C} /\ C \in {B, C}
  OBVIOUS
<1>5. Refuses(F, w) => w \in Managed(F) /\ w # F.requested
  BY DEF Refuses
<1> HIDE DEF B, C, G
<1>6. /\ Sane(R, {}) /\ Keeps(C, R) /\ R.events = C.events /\ R.focus = C.focus
      /\ Managed(R) = Managed(C) /\ Request("focus", C.stolen) \in Rq(R)
  BY <1>2, <1>4, ReturnStolenDoes
<1> HIDE DEF R
<1>7. Keeps(F, R) /\ Managed(R) = Managed(F) /\ R.events = k
  BY <1>2, <1>4, <1>6, KeepsTransitive
<1>8. CASE w = None /\ G = B
  BY <1>0, <1>2, <1>4, <1>8, <1>12 DEF Heard, G
<1>9. CASE w # None /\ Refuses(F, w) /\ F.stolen = None /\ G = R
  <2>1. Request("focus", None) \in Rq(R)
    BY <1>2, <1>4, <1>6, <1>9
  <2> QED
    BY <1>5, <1>6, <1>7, <1>9, <1>12, <2>1 DEF Heard, G
<1>10. CASE w # None /\ Refuses(F, w) /\ F.stolen # None /\ G = AcceptFocusIn(R, F.stolen)
  <2>1. F.stolen \in Managed(R) /\ F.stolen \in Windows
    BY <1>0, <1>7, <1>10
  <2>2. /\ Sane(G, {}) /\ Keeps(R, G) /\ G.events = R.events /\ G.requests = R.requests
        /\ G.focus = F.stolen
    BY <1>6, <1>10, <2>1, AcceptFocusInDoes
  <2>3. Asked(G)
    <3>1. Rq(G) = Rq(R)
      BY <2>2 DEF Rq
    <3> QED
      BY <1>2, <1>4, <1>6, <1>10, <2>2, <3>1 DEF Asked
  <2>4. Keeps(F, G)
    BY <1>7, <2>2, KeepsTransitive
  <2> QED
    BY <1>5, <1>7, <1>10, <1>12, <2>2, <2>3, <2>4 DEF Heard, G
<1>11. CASE w # None /\ ~Refuses(F, w) /\ G = AcceptFocusIn(C, w)
  <2>1. /\ Sane(G, {}) /\ Keeps(C, G) /\ G.events = C.events
        /\ G.focus = IF w \in Managed(C) THEN w ELSE C.focus
    BY <1>2, <1>4, <1>11, AcceptFocusInDoes
  <2>2. Keeps(F, G)
    BY <1>2, <1>4, <2>1, KeepsTransitive
  <2> QED
    BY <1>2, <1>4, <1>11, <1>12, <2>1, <2>2 DEF Heard, G
<1> QED
  BY <1>3, <1>8, <1>9, <1>10, <1>11

\* The window that counts as having the focus, when w is what the event says.
LEMMA HandleFocusInDoes ==
  ASSUME NEW F, Sane(F, {}), NEW w \in Windows \cup Unmanaged \cup {NoFocusWin, None}
  PROVE  /\ HasFocusIn(F) => Heard(F, HandleFocusIn(F, w), Told(F))
         /\ ~HasFocusIn(F) => Heard(F, HandleFocusIn(F, w), w)
         /\ ~HasFocusIn(F) /\ w = F.requested /\ w \in Managed(F) => HandleFocusIn(F, w).focus = w
<1>0. F.events \in Seq(Events)
  BY DEF Sane, Fvwms
<1>1. HasFocusIn(F) => LastFocusIn(F, w) = Told(F) /\ Told(F) \in Windows \cup Unmanaged \cup {NoFocusWin, None}
  BY <1>0, ToldIsEvent
<1>2. ~HasFocusIn(F) => LastFocusIn(F, w) = w
  BY <1>0, LastFocusInIs
<1>3. CASE HasFocusIn(F)
  BY <1>1, <1>3, FocusIsOnDoes DEF HandleFocusIn
<1>4. CASE ~HasFocusIn(F)
  BY <1>2, <1>4, FocusIsOnDoes DEF HandleFocusIn
<1> QED
  BY <1>3, <1>4

\* Taking back a focus that was stolen.
LEMMA RefocusDoes ==
  ASSUME NEW F, Sane(F, {}), F.stolen # None
  PROVE  LET G == Refocus(F)
         IN IF HasFocusIn(F) THEN Heard(F, G, Told(F))
            ELSE Sane(G, {}) /\ Keeps(F, G) /\ Drained(F, G) /\ Asked(G)
<1> DEFINE S == ReturnStolen(F)
           G == HandleFocusIn(S, F.stolen)
<1>0. /\ F.stolen \in Managed(F) /\ Managed(F) \subseteq Windows /\ F.events \in Seq(Events)
      /\ None \notin Windows
  BY ManagedWindows, FocusAssumption DEF Sane, Fvwms
<1>1. /\ Sane(S, {}) /\ Keeps(F, S) /\ S.events = F.events /\ S.focus = F.focus
      /\ Managed(S) = Managed(F) /\ Request("focus", F.stolen) \in Rq(S)
      /\ S.requested = F.stolen
  BY ReturnStolenDoes
<1> HIDE DEF S
<1>2. /\ HasFocusIn(S) <=> HasFocusIn(F)
      /\ HasFocusIn(F) => Told(S) = Told(F)
      /\ Ev(S) = Ev(F)
  BY <1>0, <1>1, ToldSame DEF Ev
<1>3. /\ HasFocusIn(S) => Heard(S, G, Told(S))
      /\ ~HasFocusIn(S) => Heard(S, G, F.stolen) /\ G.focus = F.stolen
  <2>1. F.stolen \in Windows \cup Unmanaged \cup {NoFocusWin, None}
    BY <1>0
  <2> QED
    BY <1>0, <1>1, <2>1, HandleFocusInDoes
<1> HIDE DEF G
<1>4. CASE HasFocusIn(F)
  <2>1. Heard(S, G, Told(F))
    BY <1>2, <1>3, <1>4
  <2>2. Heard(F, G, Told(F))
    BY <1>1, <1>2, <2>1, KeepsTransitive DEF Heard, Drained
  <2> QED
    BY <1>4, <2>2 DEF Refocus, G, S
<1>5. CASE ~HasFocusIn(F)
  <2>1. Heard(S, G, F.stolen) /\ G.focus = F.stolen
    BY <1>2, <1>3, <1>5
  <2>2. Request("focus", F.stolen) \in Rq(G)
    BY <1>1, <2>1 DEF Heard, Keeps
  <2>3. Asked(G)
    BY <1>0, <2>1, <2>2 DEF Asked
  <2>4. Sane(G, {}) /\ Keeps(F, G) /\ Drained(F, G)
    BY <1>1, <1>2, <2>1, KeepsTransitive DEF Heard, Drained
  <2> QED
    BY <1>5, <2>3, <2>4 DEF Refocus, G, S
<1> QED
  BY <1>4, <1>5

-----------------------------------------------------------------------------
(* Handlers that leave the events and the list of windows alone.             *)

\* fvwm has set the focus, or left it alone, with the requests that this takes.
Plain(F, G) ==
  /\ Sane(G, {}) /\ Keeps(F, G) /\ G.events = F.events
  /\ G.focus = F.focus \/ Asked(G)

\* Two plain steps are one.
LEMMA PlainTransitive ==
  ASSUME NEW F, NEW G, NEW H, Plain(F, G), Plain(G, H), Sane(F, {})
  PROVE  Plain(F, H)
<1>1. Keeps(F, H) /\ Sane(H, {}) /\ H.events = F.events
  BY KeepsTransitive DEF Plain
<1>2. CASE H.focus = G.focus /\ G.focus # F.focus
  <2>1. Asked(H)
    BY <1>2 DEF Asked, Plain, Keeps
  <2> QED
    BY <1>1, <2>1 DEF Plain
<1>3. CASE ~(H.focus = G.focus /\ G.focus # F.focus)
  BY <1>1, <1>3 DEF Plain
<1> QED
  BY <1>2, <1>3

\* Doing nothing is plain.
LEMMA PlainSame ==
  ASSUME NEW F, Sane(F, {})
  PROVE  Plain(F, F)
BY KeepsSame DEF Plain

\* Setting the focus is plain.
LEMMA PlainSetFocus ==
  ASSUME NEW F, Sane(F, {}), NEW r \in Managed(F) \cup {None}, NEW by,
         NEW force \in BOOLEAN, NEW flip \in BOOLEAN
  PROVE  Plain(F, SetFocus(F, r, by, force, flip))
BY SetFocusDoes DEF Given, Plain

\* Deleting the focus is plain.
LEMMA PlainDeleteFocus ==
  ASSUME NEW F, Sane(F, {})
  PROVE  Plain(F, DeleteFocus(F))
BY DeleteFocusDoes DEF Given, Plain

\* Grabbing the focus when a window opens is plain.
LEMMA PlainGrab ==
  ASSUME NEW F, Sane(F, {}), NEW r \in Managed(F)
  PROVE  Plain(F, GrabOnOpen(F, r))
<1>1. Plain(F, SetFocus(F, r, "force", TRUE, FALSE))
  BY PlainSetFocus
<1> QED
  BY <1>1, PlainSame DEF GrabOnOpen

\* The highlight moves to a window of the list.
LEMMA PlainHilite ==
  ASSUME NEW F, Sane(F, {}), NEW h \in Managed(F) \cup {None}
  PROVE  LET G == [F EXCEPT !.hilite = h]
         IN Plain(F, G) /\ G.focus = F.focus /\ G.list = F.list /\ G.requests = F.requests
<1> DEFINE G == [F EXCEPT !.hilite = h]
<1>0. F \in Fvwms /\ Managed(F) \subseteq Windows
  BY ManagedWindows DEF Sane, Fvwms
<1>1. /\ G \in Fvwms /\ G.list = F.list /\ G.focus = F.focus /\ G.hilite = h
      /\ G.stolen = F.stolen /\ G.pending = F.pending /\ G.requested = F.requested
      /\ G.requests = F.requests /\ G.events = F.events
  BY <1>0 DEF Fvwms, Pointers
<1> HIDE DEF G
<1>2. Managed(G) = Managed(F) /\ Ev(G) = Ev(F)
  BY <1>1 DEF Managed, Ev
<1>3. Sane(G, {})
  BY <1>1, <1>2 DEF Sane
<1> QED
  BY <1>1, <1>2, <1>3, KeepsSame DEF G, Plain

\* The decorations are drawn for what fvwm thinks the focus is.
LEMMA PlainMapNotify ==
  ASSUME NEW F, Sane(F, {}), NEW w \in Windows \cup Unmanaged
  PROVE  Plain(F, HandleMapNotify(F, w))
<1> DEFINE B == GrabOnOpen(F, w)
           h == IF B.focus = w THEN w ELSE Forget(B.hilite, w)
           q == Request("observe", w)
           G == HandleMapNotify(F, w)
<1>0. F \in Fvwms /\ Managed(F) \subseteq Windows /\ Windows \cap Unmanaged = {}
  BY ManagedWindows, FocusAssumption DEF Sane, Fvwms
<1>1. CASE w \in Managed(F)
  <2>1. Plain(F, B)
    BY <1>1, PlainGrab
  <2>2. G = [B EXCEPT !.hilite = h]
    BY <1>0, <1>1, Zenon DEF HandleMapNotify
  <2> HIDE DEF B
  <2>3. h \in Managed(B) \cup {None}
    BY <1>1, <2>1 DEF Plain, Sane, Keeps, Forget
  <2>4. Sane(B, {})
    BY <2>1 DEF Plain
  <2> HIDE DEF h, G
  <2>5. Plain(B, G)
    BY <2>2, <2>3, <2>4, PlainHilite
  <2> QED
    BY <2>1, <2>5, PlainTransitive DEF G
<1>2. CASE w \in Unmanaged
  <2>1. G = [F EXCEPT !.unknown = w, !.requests = Append(F.requests, q)]
    BY <1>0, <1>2 DEF HandleMapNotify
  <2>2. q \in Requests /\ q.op = "observe" /\ q.win \in Unmanaged
    BY <1>2 DEF Requests, Request
  <2>3. F.requests \in Seq(Requests)
    BY <1>0 DEF Fvwms
  <2>4. Append(F.requests, q) \in Seq(Requests) /\ ToSet(Append(F.requests, q)) = Rq(F) \cup {q}
    BY <2>2, <2>3, AppendSet DEF Rq
  <2>5. MapsFirst(F.requests) => MapsFirst(Append(F.requests, q))
    BY <2>2, <2>3, MapsFirstAppend
  <2> HIDE DEF q, G
  <2>6. /\ G \in Fvwms /\ G.list = F.list /\ G.focus = F.focus /\ G.hilite = F.hilite
        /\ G.stolen = F.stolen /\ G.pending = F.pending /\ G.requested = F.requested
        /\ G.requests = Append(F.requests, q) /\ G.events = F.events
    BY <1>0, <1>2, <2>1, <2>4 DEF Fvwms
  <2>7. Managed(G) = Managed(F) /\ Ev(G) = Ev(F) /\ Rq(G) = Rq(F) \cup {q}
    BY <2>4, <2>6 DEF Managed, Ev, Rq
  <2>8. Sane(G, {})
    BY <2>6, <2>7 DEF Sane
  <2>9. Keeps(F, G)
    BY <2>2, <2>5, <2>6, <2>7 DEF Keeps, MayAsk
  <2> QED
    BY <2>6, <2>8, <2>9 DEF Plain, G
<1>3. CASE w \notin Managed(F) \cup Unmanaged
  <2>1. G = F
    BY <1>3 DEF HandleMapNotify
  <2> QED
    BY <2>1, PlainSame
<1> QED
  BY <1>1, <1>2, <1>3

\* Focus and FlipFocus.
LEMMA PlainActivate ==
  ASSUME NEW F, Sane(F, {}), NEW r \in Managed(F), NEW flip \in BOOLEAN
  PROVE  Plain(F, ActivateWindow(F, r, flip))
<1> DEFINE B == SetFocus(F, r, "function", FALSE, flip)
           p == IF B.focus # F.focus THEN F.focus ELSE B.pending
           G == ActivateWindow(F, r, flip)
<1>1. Plain(F, B)
  BY PlainSetFocus
<1>2. G = [B EXCEPT !.pending = p]
  BY DEF ActivateWindow
<1> HIDE DEF B
<1>3. B \in Fvwms /\ p \in Managed(B) \cup {None} /\ Managed(B) \subseteq Windows
  <2>1. B \in Fvwms /\ Managed(B) = Managed(F)
    BY <1>1 DEF Plain, Sane, Keeps
  <2>2. F.focus \in Managed(F) \cup {None} /\ B.pending \in Managed(B) \cup {None}
    BY <1>1 DEF Plain, Sane
  <2> QED
    BY <2>1, <2>2, ManagedWindows DEF Fvwms
<1> HIDE DEF p, G
<1>4. /\ G \in Fvwms /\ G.list = B.list /\ G.focus = B.focus /\ G.hilite = B.hilite
      /\ G.stolen = B.stolen /\ G.pending = p /\ G.requested = B.requested
      /\ G.requests = B.requests /\ G.events = B.events
  BY <1>2, <1>3 DEF Fvwms, Pointers
<1>5. Managed(G) = Managed(B) /\ Ev(G) = Ev(B) /\ Rq(G) = Rq(B)
  BY <1>4 DEF Managed, Ev, Rq
<1>6. Sane(G, {})
  BY <1>1, <1>3, <1>4, <1>5 DEF Sane, Plain
<1>7. Plain(B, G)
  BY <1>4, <1>5, <1>6, KeepsSame DEF Plain
<1> QED
  BY <1>1, <1>7, PlainTransitive DEF G

-----------------------------------------------------------------------------
(* Windows that come and go.                                                 *)

\* What managing r leaves.
Adopted(F, G, r) ==
  /\ Sane(G, {}) /\ Managed(G) = Managed(F) \cup {r}
  /\ Rq(F) \cup {Request("map", r)} \subseteq Rq(G)
  /\ \A q \in Rq(G) \ (Rq(F) \cup {Request("map", r)}) : MayAsk(q, Managed(G))
  /\ MapsFirst(F.requests) /\ (\A q \in Rq(F) : q.win # r) => MapsFirst(G.requests)
  /\ G.events = F.events
  /\ G.focus = F.focus \/ Asked(G)

\* HandleMapRequest adds r to the list and asks for it to be mapped.
LEMMA HandleMapRequestDoes ==
  ASSUME NEW F, Sane(F, {}), NEW r \in Windows, r \notin Managed(F),
         Event("MapRequest", r) \notin Ev(F)
  PROVE  Adopted(F, HandleMapRequest(F, r), r)
<1> DEFINE q == Request("map", r)
           l == Append(F.list, r)
           B == [F EXCEPT !.list = Append(@, r), !.requests = Append(@, q)]
           G == HandleMapRequest(F, r)
<1>0. F \in Fvwms /\ IsInjective(F.list) /\ F.list \in Seq(Windows) /\ F.requests \in Seq(Requests)
  BY DEF Sane, Fvwms
<1>1. q \in Requests /\ q.op = "map" /\ q.win = r
  BY DEF Requests, Request
<1>2. Append(F.requests, q) \in Seq(Requests) /\ ToSet(Append(F.requests, q)) = Rq(F) \cup {q}
  BY <1>0, <1>1, AppendSet DEF Rq
<1>3. MapsFirst(F.requests) /\ (\A p \in Rq(F) : p.win # r) => MapsFirst(Append(F.requests, q))
  BY <1>0, <1>1, MapsFirstAppend DEF Rq
<1>4. l \in Seq(Windows) /\ ToSet(l) = Managed(F) \cup {r}
  BY <1>0, AppendSet DEF Managed
<1>5. IsInjective(l)
  <2>1. /\ \A i \in DOMAIN l : (i \in DOMAIN F.list /\ l[i] = F.list[i]) \/ (i = Len(F.list) + 1 /\ l[i] = r)
    BY <1>0, AppendMoves
  <2>2. \A i \in DOMAIN F.list : F.list[i] # r
    BY DEF Managed, ToSet
  <2> HIDE DEF l
  <2>3. ASSUME NEW i \in DOMAIN l, NEW j \in DOMAIN l, l[i] = l[j] PROVE i = j
    BY <1>0, <2>1, <2>2, <2>3 DEF IsInjective
  <2> QED
    BY <2>3 DEF IsInjective
<1>6. B = [F EXCEPT !.list = l, !.requests = Append(F.requests, q)]
  OBVIOUS
<1>7. G = GrabOnOpen(B, r)
  BY Zenon DEF HandleMapRequest
<1> HIDE DEF B, l, q, G
<1>8. /\ B \in Fvwms /\ B.list = l /\ B.focus = F.focus /\ B.hilite = F.hilite
      /\ B.stolen = F.stolen /\ B.pending = F.pending /\ B.requested = F.requested
      /\ B.requests = Append(F.requests, q) /\ B.events = F.events
  BY <1>0, <1>2, <1>4, <1>6 DEF Fvwms
<1>9. Managed(B) = Managed(F) \cup {r} /\ Ev(B) = Ev(F) /\ Rq(B) = Rq(F) \cup {q}
  BY <1>2, <1>4, <1>8 DEF Managed, Ev, Rq
<1>10. Sane(B, {})
  <2>1. /\ {F.focus, F.hilite, F.requested, F.pending, F.stolen} \subseteq Managed(F) \cup {None}
        /\ AskedOnce(F.events)
        /\ \A w \in Windows : Event("MapRequest", w) \in Ev(F) => w \notin Managed(F)
    BY DEF Sane
  <2>2. \A w \in Windows : Event("MapRequest", w) \in Ev(B) => w \notin Managed(B)
    BY <1>9, <2>1
  <2> QED
    BY <1>5, <1>8, <1>9, <2>1, <2>2 DEF Sane
<1>11. Plain(B, G)
  BY <1>7, <1>9, <1>10, PlainGrab
<1>12. /\ Managed(G) = Managed(B) /\ Rq(B) \subseteq Rq(G)
       /\ \A p \in Rq(G) \ Rq(B) : MayAsk(p, Managed(B))
       /\ MapsFirst(B.requests) => MapsFirst(G.requests)
       /\ Sane(G, {}) /\ G.events = B.events
       /\ G.focus = B.focus \/ Asked(G)
  BY <1>11 DEF Plain, Keeps
<1> QED
  BY <1>3, <1>8, <1>9, <1>12 DEF Adopted, G, q

\* HandleUnmapNotify destroys what fvwm holds of r.
LEMMA HandleUnmapNotifyDoes ==
  ASSUME NEW F, Sane(F, {}), NEW r \in Managed(F)
  PROVE  Destroyed(F, HandleUnmapNotify(F, r), r)
<1> DEFINE B == [F EXCEPT !.hilite = Forget(@, r)]
           a == After(F, r)
           R == RestoreFocus(B, r, a)
           G == HandleUnmapNotify(F, r)
<1>0. F \in Fvwms /\ IsInjective(F.list) /\ F.list \in Seq(Windows) /\ Managed(F) \subseteq Windows
      /\ None \notin Windows
  BY ManagedWindows, FocusAssumption DEF Sane, Fvwms
<1>1. G = DestroyWindow(R, r)
  BY Zenon DEF HandleUnmapNotify
<1>2. /\ Plain(F, B) /\ B.focus = F.focus /\ B.list = F.list /\ B.requests = F.requests
  <2>1. Forget(F.hilite, r) \in Managed(F) \cup {None}
    BY DEF Sane, Forget
  <2> QED
    BY <2>1, PlainHilite
<1> HIDE DEF B
<1>3. Sane(B, {}) /\ Managed(B) = Managed(F) /\ Keeps(F, B) /\ B.events = F.events
  BY <1>2 DEF Plain, Keeps
<1>4. a \in Seq(Windows) /\ ToSet(a) \subseteq Managed(B) \ {r}
  BY <1>0, <1>3, ListParts DEF Parts
<1> HIDE DEF a
<1>5. Restored(B, R, r, {})
  BY <1>0, <1>3, <1>4, RestoreFocusDoes
<1> HIDE DEF R
<1>6. /\ Sane(R, {}) /\ Keeps(F, R) /\ R.events = F.events /\ Managed(R) = Managed(F)
      /\ IF F.focus = r THEN Asked(R) /\ R.focus # r ELSE R.focus = F.focus
  BY <1>0, <1>2, <1>3, <1>5, KeepsTransitive DEF Restored, Keeps
<1>7. Destroyed(R, G, r)
  BY <1>1, <1>6, DestroyWindowDoes
<1> HIDE DEF G
<1>8. Managed(G) = Managed(F) \ {r} /\ Sane(G, {}) /\ G.events = F.events
  BY <1>6, <1>7 DEF Destroyed
<1>9. Rq(F) \cup {Request("unmap", r)} \subseteq Rq(G)
  BY <1>6, <1>7 DEF Destroyed, Keeps
<1>10. MapsFirst(F.requests) => MapsFirst(G.requests)
  BY <1>6, <1>7 DEF Destroyed, Keeps
<1>11. IF F.focus = r THEN Asked(G) ELSE G.focus = F.focus
  <2>1. CASE F.focus = r
    <3>1. Asked(R) /\ G.focus = R.focus
      BY <1>6, <1>7, <2>1 DEF Destroyed
    <3>2. Asked(G)
      BY <1>7, <3>1 DEF Asked, Destroyed
    <3> QED
      BY <2>1, <3>2
  <2>2. CASE F.focus # r
    BY <1>6, <1>7, <2>2 DEF Destroyed
  <2> QED
    BY <2>1, <2>2
<1>12. ASSUME NEW q \in Rq(G), q \notin Rq(F) \cup {Request("unmap", r)}
       PROVE  MayAsk(q, Managed(F))
  <2>1. CASE q \in Rq(R)
    BY <1>6, <1>12, <2>1 DEF Keeps
  <2>2. CASE q \notin Rq(R)
    BY <1>6, <1>7, <1>12, <2>2 DEF Destroyed
  <2> QED
    BY <2>1, <2>2
<1> QED
  BY <1>8, <1>9, <1>10, <1>11, <1>12 DEF Destroyed, G

-----------------------------------------------------------------------------
(* Events come and are taken.                                                *)

\* Only the events differ.
SameButEvents(F, G) ==
  /\ G.list = F.list /\ G.focus = F.focus /\ G.hilite = F.hilite
  /\ G.requested = F.requested /\ G.pending = F.pending /\ G.stolen = F.stolen
  /\ G.unknown = F.unknown /\ G.requests = F.requests
  /\ Managed(G) = Managed(F) /\ Rq(G) = Rq(F)

\* Events and requests are what they say.
LEMMA RecordsDiffer ==
  /\ \A t, u, x, y : Event(t, x) = Event(u, y) <=> t = u /\ x = y
  /\ \A t, u, x, y : Request(t, x) = Request(u, y) <=> t = u /\ x = y
  /\ \A t, x : Event(t, x).type = t /\ Event(t, x).win = x
  /\ \A t, x : Request(t, x).op = t /\ Request(t, x).win = x
  /\ \A e \in Events : e = Event(e.type, e.win)
  /\ \A q \in Requests : q = Request(q.op, q.win)
<1>1. \A t, x : Event(t, x).type = t /\ Event(t, x).win = x
  BY DEF Event
<1>2. \A t, x : Request(t, x).op = t /\ Request(t, x).win = x
  BY DEF Request
<1>3. \A e \in Events : e = Event(e.type, e.win)
  BY DEF Event, Events
<1>4. \A q \in Requests : q = Request(q.op, q.win)
  BY DEF Request, Requests
<1> QED
  BY <1>1, <1>2, <1>3, <1>4

\* The places of the focus that are no windows.
LEMMA PlacesDiffer ==
  /\ Nowhere \notin {NoFocusWin, Root, None} /\ NoFocusWin # None
  /\ {NoFocusWin, Root, Nowhere, None} \cap (Windows \cup Unmanaged) = {}
  /\ Windows \cap Unmanaged = {}
<1> DEFINE p == <<NoFocusWin, Root, Nowhere, None>>
<1>1. /\ DOMAIN p = 1..4
      /\ p[1] = NoFocusWin /\ p[2] = Root /\ p[3] = Nowhere /\ p[4] = None
  OBVIOUS
<1>2. IsInjective(p)
  BY PlacesAssumption
<1> HIDE DEF p
<1>3. \A i, j \in 1..4 : p[i] = p[j] => i = j
  BY <1>1, <1>2 DEF IsInjective
<1>4. Nowhere \notin {NoFocusWin, Root, None} /\ NoFocusWin # None
  BY <1>1, <1>3
<1> QED
  BY <1>4, FocusAssumption

\* fvwm has been sent e.
Posted(F, G, e) ==
  /\ Sane(G, {}) /\ SameButEvents(F, G) /\ Ev(G) = Ev(F) \cup {e}
  /\ FocusFirst(F.events) /\ (e.type = "FocusIn" => Event("Unmap", e.win) \notin Ev(F))
       => FocusFirst(G.events)
  /\ e.type = "FocusIn" => HasFocusIn(G) /\ Told(G) = e.win
  /\ e.type # "FocusIn" => /\ HasFocusIn(G) <=> HasFocusIn(F)
                           /\ HasFocusIn(F) => Told(G) = Told(F)

\* An event comes in behind the others.
LEMMA PostDoes ==
  ASSUME NEW F, Sane(F, {}), NEW e \in Events,
         e.type = "MapRequest" => e \notin Ev(F) /\ e.win \notin Managed(F)
  PROVE  Posted(F, [F EXCEPT !.events = Append(@, e)], e)
<1> DEFINE s == Append(F.events, e)
           G == [F EXCEPT !.events = Append(@, e)]
<1>0. F \in Fvwms /\ F.events \in Seq(Events)
  BY DEF Sane, Fvwms
<1>1. s \in Seq(Events) /\ ToSet(s) = Ev(F) \cup {e}
  BY <1>0, AppendSet DEF Ev
<1>2. AskedOnce(s)
  BY <1>0, AskedOnceAppend DEF Sane, Ev
<1>3. FocusFirst(F.events) /\ (e.type = "FocusIn" => Event("Unmap", e.win) \notin Ev(F))
        => FocusFirst(s)
  BY <1>0, FocusFirstAppend DEF Ev
<1>4. G = [F EXCEPT !.events = s]
  OBVIOUS
<1> HIDE DEF s, G
<1>5. /\ G \in Fvwms /\ G.list = F.list /\ G.focus = F.focus /\ G.hilite = F.hilite
      /\ G.requested = F.requested /\ G.pending = F.pending /\ G.stolen = F.stolen
      /\ G.unknown = F.unknown /\ G.requests = F.requests /\ G.events = s
  BY <1>0, <1>1, <1>4 DEF Fvwms
<1>6. SameButEvents(F, G) /\ Ev(G) = Ev(F) \cup {e}
  BY <1>1, <1>5 DEF SameButEvents, Managed, Rq, Ev
<1>7. /\ e.type = "FocusIn" => HasFocusIn(G) /\ Told(G) = e.win
      /\ e.type # "FocusIn" => /\ HasFocusIn(G) <=> HasFocusIn(F)
                               /\ HasFocusIn(F) => Told(G) = Told(F)
  BY <1>0, <1>5, ToldAppend DEF s
<1>8. Sane(G, {})
  <2>1. /\ IsInjective(F.list)
        /\ {F.focus, F.hilite, F.requested, F.pending, F.stolen} \subseteq Managed(F) \cup {None}
        /\ \A w \in Windows : Event("MapRequest", w) \in Ev(F) => w \notin Managed(F)
    BY DEF Sane
  <2>2. \A w \in Windows : Event("MapRequest", w) = e => w \notin Managed(F)
    BY RecordsDiffer
  <2>3. \A w \in Windows : Event("MapRequest", w) \in Ev(G) => w \notin Managed(G)
    BY <1>6, <2>1, <2>2 DEF SameButEvents
  <2> QED
    BY <1>2, <1>5, <1>6, <2>1, <2>3 DEF Sane, SameButEvents
<1> QED
  BY <1>3, <1>5, <1>6, <1>7, <1>8 DEF Posted, G

Servers ==
  [focus : Focusable \cup {Root, Nowhere, None},
   viewable : SUBSET (Windows \cup Unmanaged), observed : SUBSET Unmanaged]

\* Joining and appending commute.
LEMMA JoinAppend ==
  ASSUME NEW s \in Seq(Events), NEW t \in Seq(Events), NEW e \in Events
  PROVE  s \o (t \o <<e>>) = Append(s \o t, e)
<1>1. <<e>> \in Seq(Events) /\ s \o t \in Seq(Events)
  OBVIOUS
<1>2. s \o (t \o <<e>>) = (s \o t) \o <<e>>
  BY <1>1
<1>3. (s \o t) \o <<e>> = Append(s \o t, e)
  BY <1>1
<1> QED
  BY <1>2, <1>3

\* fvwm has been sent what it hears when w gets the focus.
Informed(F, G, S, w) ==
  /\ Sane(G, {}) /\ SameButEvents(F, G) /\ Ev(F) \subseteq Ev(G)
  /\ \A e \in Ev(G) \ Ev(F) : \/ e.type = "FocusOut"
                              \/ e = Event("FocusIn", w) /\ Observed(S, F, w)
  /\ FocusFirst(F.events) /\ Event("Unmap", w) \notin Ev(F) => FocusFirst(G.events)
  /\ IF w # S.focus /\ Observed(S, F, w)
     THEN HasFocusIn(G) /\ Told(G) = w
     ELSE /\ HasFocusIn(G) <=> HasFocusIn(F)
          /\ HasFocusIn(F) => Told(G) = Told(F)

\* FocusOut events tell nothing of who has got the focus.
LEMMA FocusOutsDo ==
  ASSUME NEW F, Sane(F, {}), NEW S \in Servers, NEW w
  PROVE  LET G == [F EXCEPT !.events = @ \o FocusOuts(S, w)]
         IN /\ Sane(G, {}) /\ SameButEvents(F, G) /\ Ev(F) \subseteq Ev(G)
            /\ \A e \in Ev(G) \ Ev(F) : e.type = "FocusOut"
            /\ FocusFirst(F.events) => FocusFirst(G.events)
            /\ HasFocusIn(G) <=> HasFocusIn(F)
            /\ HasFocusIn(F) => Told(G) = Told(F)
<1> DEFINE e == Event("FocusOut", S.focus)
           G == [F EXCEPT !.events = @ \o FocusOuts(S, w)]
<1>0. F \in Fvwms /\ F.events \in Seq(Events)
  BY DEF Sane, Fvwms
<1>1. CASE FocusOuts(S, w) = <<>>
  <2>1. G.events = F.events /\ SameButEvents(F, G) /\ G \in Fvwms
    BY <1>0, <1>1 DEF Fvwms, SameButEvents, Managed, Rq
  <2>2. G = F
    BY <1>0, <1>1 DEF Fvwms
  <2> HIDE DEF G
  <2> QED
    BY <2>1, <2>2 DEF G
<1>2. CASE S.focus \in S.observed /\ FocusOuts(S, w) = <<e>>
  <2>1. e \in Events /\ e.type = "FocusOut"
    BY <1>2 DEF Servers, Events, Event
  <2>2. F.events \o <<e>> = Append(F.events, e)
    BY <1>0, <2>1
  <2>3. G = [F EXCEPT !.events = Append(@, e)]
    BY <1>2, <2>2
  <2> HIDE DEF G, e
  <2>4. Posted(F, G, e)
    BY <2>1, <2>3, PostDoes
  <2> QED
    BY <2>1, <2>4 DEF Posted, G
<1> QED
  BY <1>1, <1>2 DEF FocusOuts

\* What the server reports when it gives the focus to w.
LEMMA InformedDoes ==
  ASSUME NEW F, Sane(F, {}), NEW S \in Servers,
         NEW w \in Windows \cup Unmanaged \cup {NoFocusWin, None}
  PROVE  Informed(F, [F EXCEPT !.events = @ \o FocusEvents(F, S, w)], S, w)
<1> DEFINE outs == FocusOuts(S, w)
           e == Event("FocusIn", w)
           B == [F EXCEPT !.events = @ \o outs]
           G == [F EXCEPT !.events = @ \o FocusEvents(F, S, w)]
<1>0. F \in Fvwms /\ F.events \in Seq(Events) /\ Managed(F) \subseteq Windows
  BY ManagedWindows DEF Sane, Fvwms
<1>1. outs \in Seq(Events)
  <2>1. S.focus \in S.observed => Event("FocusOut", S.focus) \in Events
    BY DEF Servers, Events, Event
  <2>2. outs = <<>> \/ (S.focus \in S.observed /\ outs = <<Event("FocusOut", S.focus)>>)
    BY DEF FocusOuts
  <2> HIDE DEF outs
  <2>3. \A d \in Events : <<d>> \in Seq(Events)
    OBVIOUS
  <2>4. <<>> \in Seq(Events)
    OBVIOUS
  <2> QED
    BY <2>1, <2>2, <2>3, <2>4
<1>2. /\ Sane(B, {}) /\ SameButEvents(F, B) /\ Ev(F) \subseteq Ev(B)
      /\ \A d \in Ev(B) \ Ev(F) : d.type = "FocusOut"
      /\ FocusFirst(F.events) => FocusFirst(B.events)
      /\ HasFocusIn(B) <=> HasFocusIn(F)
      /\ HasFocusIn(F) => Told(B) = Told(F)
  BY FocusOutsDo
<1> HIDE DEF outs
<1>3. B.events = F.events \o outs /\ B \in Fvwms
  BY <1>0, <1>2 DEF Fvwms, Sane
<1>4. CASE w # S.focus /\ Observed(S, F, w)
  <2>1. FocusIns(F, S, w) = <<e>> /\ e.type = "FocusIn" /\ e.win = w
    BY <1>4 DEF FocusIns, Event
  <2>2. w \in Windows \cup Unmanaged \cup {NoFocusWin}
    BY <1>0, <1>4 DEF Observed, Servers
  <2>3. e \in Events
    BY <2>2 DEF Events, Event
  <2> HIDE DEF e
  <2>4. FocusEvents(F, S, w) = outs \o <<e>>
    BY <2>1 DEF FocusEvents, outs
  <2>5. F.events \o (outs \o <<e>>) = Append(F.events \o outs, e)
    <3> HIDE DEF B, G
    <3> QED
      BY <1>0, <1>1, <2>3, JoinAppend, Zenon
  <2>6. G = [F EXCEPT !.events = Append(F.events \o outs, e)]
    BY <2>4, <2>5
  <2>7. [B EXCEPT !.events = Append(@, e)] = [F EXCEPT !.events = Append(F.events \o outs, e)]
    BY <1>3
  <2>8. G = [B EXCEPT !.events = Append(@, e)]
    BY <2>6, <2>7
  <2> HIDE DEF G, B
  <2>9. Posted(B, G, e)
    BY <1>2, <2>1, <2>3, <2>8, PostDoes
  <2>10. SameButEvents(F, G)
    BY <1>2, <2>9 DEF Posted, SameButEvents
  <2>11. Ev(G) = Ev(B) \cup {e}
    BY <2>9 DEF Posted
  <2>12. ASSUME FocusFirst(F.events), Event("Unmap", w) \notin Ev(F) PROVE FocusFirst(G.events)
    <3>1. Event("Unmap", w).type # "FocusOut"
      BY RecordsDiffer
    <3>2. Event("Unmap", w) \notin Ev(B)
      BY <1>2, <2>12, <3>1
    <3> QED
      BY <1>2, <2>1, <2>9, <2>12, <3>2 DEF Posted
  <2>13. \A d \in Ev(G) \ Ev(F) : d.type = "FocusOut" \/ d = e
    BY <1>2, <2>11
  <2>14. Sane(G, {}) /\ HasFocusIn(G) /\ Told(G) = w
    BY <2>1, <2>9 DEF Posted
  <2>15. Ev(F) \subseteq Ev(G)
    BY <1>2, <2>11
  <2> HIDE DEF e
  <2> QED
    BY <1>4, <2>10, <2>12, <2>13, <2>14, <2>15 DEF Informed, G, e
<1>5. CASE ~(w # S.focus /\ Observed(S, F, w))
  <2>1. FocusIns(F, S, w) = <<>>
    BY <1>5 DEF FocusIns
  <2>2. FocusEvents(F, S, w) = outs
    BY <1>1, <2>1 DEF FocusEvents, outs
  <2>3. G = B
    BY <2>2
  <2> HIDE DEF G, B
  <2> QED
    BY <1>2, <1>5, <2>3 DEF Informed, G
<1> QED
  BY <1>4, <1>5

\* A FocusIn event is taken, which is the last one if none is left.
LEMMA ToldHead ==
  ASSUME NEW F, F.events \in Seq(Events), F.events # <<>>, Head(F.events).type = "FocusIn",
         NEW G, G.events = Tail(F.events)
  PROVE  HasFocusIn(F) /\ Told(F) = IF HasFocusIn(G) THEN Told(G) ELSE Head(F.events).win
<1> DEFINE s == F.events
           t == G.events
<1>1. /\ t \in Seq(Events) /\ s \in Seq(Events)
      /\ Len(s) \in Nat /\ Len(s) # 0 /\ DOMAIN s = 1..Len(s) /\ DOMAIN t = 1..(Len(s) - 1)
      /\ s[1].type = "FocusIn" /\ Head(s) = s[1] /\ \A i \in 1..(Len(s) - 1) : t[i] = s[i + 1]
  OBVIOUS
<1>2. HasFocusIn(F)
  <2>1. 1 \in DOMAIN s
    BY <1>1
  <2> QED
    BY <1>1, <2>1 DEF HasFocusIn
<1>3. HasFocusIn(G) <=> \E i \in DOMAIN t : t[i].type = "FocusIn"
  BY DEF HasFocusIn
<1>4. HasFocusIn(G) => \E i : LastAt(t, i) /\ Told(G) = t[i].win
  BY <1>1, LastFocusInIs DEF Told
<1>5. PICK i : LastAt(s, i) /\ Told(F) = s[i].win
  BY <1>1, <1>2, LastFocusInIs DEF Told
<1> HIDE DEF s, t
<1>6. i \in 1..Len(s) /\ s[i].type = "FocusIn" /\ \A j \in 1..Len(s) : s[j].type = "FocusIn" => j <= i
  BY <1>1, <1>5 DEF LastAt
<1>7. CASE HasFocusIn(G)
  <2>1. PICK j : LastAt(t, j) /\ Told(G) = t[j].win
    BY <1>4, <1>7
  <2>2. j \in 1..(Len(s) - 1) /\ t[j].type = "FocusIn"
    BY <1>1, <2>1 DEF LastAt
  <2>3. j + 1 \in 1..Len(s) /\ t[j] = s[j + 1]
    BY <1>1, <2>2
  <2>4. j + 1 <= i
    BY <1>6, <2>2, <2>3
  <2>5. i - 1 \in 1..(Len(s) - 1) /\ (i - 1) + 1 = i
    BY <1>1, <1>6, <2>2, <2>4
  <2>6. t[i - 1] = s[i]
    BY <1>1, <2>5
  <2>7. i - 1 <= j
    BY <1>1, <1>6, <2>1, <2>5, <2>6 DEF LastAt
  <2>8. i = j + 1
    BY <1>6, <2>2, <2>4, <2>7
  <2> QED
    BY <1>2, <1>5, <1>7, <2>1, <2>3, <2>8
<1>8. CASE ~HasFocusIn(G)
  <2>1. i = 1
    <3>1. SUFFICES ASSUME i # 1 PROVE FALSE
      OBVIOUS
    <3>2. i - 1 \in 1..(Len(s) - 1) /\ (i - 1) + 1 = i
      BY <1>1, <1>6, <3>1
    <3>3. t[i - 1].type = "FocusIn" /\ i - 1 \in DOMAIN t
      BY <1>1, <1>6, <3>2
    <3> QED
      BY <1>3, <1>8, <3>3
  <2> QED
    BY <1>1, <1>2, <1>5, <1>8, <2>1 DEF s
<1> QED
  BY <1>7, <1>8

\* fvwm takes e, its oldest event.
Taken(F, G, e) ==
  /\ e \in Events /\ Sane(G, {}) /\ SameButEvents(F, G) /\ Ev(F) = Ev(G) \cup {e}
  /\ e.type = "MapRequest" => e \notin Ev(G) /\ e.win \in Windows /\ e.win \notin Managed(G)
  /\ FocusFirst(F.events) => /\ FocusFirst(G.events)
                             /\ e.type = "Unmap" => Event("FocusIn", e.win) \notin Ev(G)
  /\ IF e.type = "FocusIn"
     THEN HasFocusIn(F) /\ Told(F) = IF HasFocusIn(G) THEN Told(G) ELSE e.win
     ELSE /\ HasFocusIn(G) <=> HasFocusIn(F)
          /\ HasFocusIn(F) => Told(G) = Told(F)

\* The oldest event is taken.
LEMMA TakeDoes ==
  ASSUME NEW F, Sane(F, {}), F.events # <<>>
  PROVE  Taken(F, [F EXCEPT !.events = Tail(@)], Head(F.events))
<1> DEFINE s == Tail(F.events)
           e == Head(F.events)
           G == [F EXCEPT !.events = Tail(@)]
<1>0. F \in Fvwms /\ F.events \in Seq(Events)
  BY DEF Sane, Fvwms
<1>1. s \in Seq(Events) /\ e \in Events /\ ToSet(s) \cup {e} = Ev(F)
  BY <1>0, TailSet DEF Ev
<1>2. AskedOnce(s) /\ (e.type = "MapRequest" => e \notin ToSet(s))
  BY <1>0, AskedOnceTail DEF Sane
<1>3. FocusFirst(F.events) => /\ FocusFirst(s)
                              /\ e.type = "Unmap" => Event("FocusIn", e.win) \notin Ev(F)
  BY <1>0, FocusFirstTail DEF Ev
<1>4. G = [F EXCEPT !.events = s]
  OBVIOUS
<1>5. /\ G \in Fvwms /\ G.list = F.list /\ G.focus = F.focus /\ G.hilite = F.hilite
      /\ G.requested = F.requested /\ G.pending = F.pending /\ G.stolen = F.stolen
      /\ G.unknown = F.unknown /\ G.requests = F.requests /\ G.events = s
  <2> HIDE DEF s, G
  <2> QED
    BY <1>0, <1>1, <1>4 DEF Fvwms
<1>6. IF e.type = "FocusIn"
      THEN HasFocusIn(F) /\ Told(F) = IF HasFocusIn(G) THEN Told(G) ELSE e.win
      ELSE /\ HasFocusIn(G) <=> HasFocusIn(F)
           /\ HasFocusIn(F) => Told(G) = Told(F)
  <2> HIDE DEF G
  <2> QED
    BY <1>0, <1>5, ToldHead, ToldTail
<1> HIDE DEF s, e, G
<1>7. SameButEvents(F, G) /\ Ev(F) = Ev(G) \cup {e} /\ Ev(G) = ToSet(s)
  BY <1>1, <1>5 DEF SameButEvents, Managed, Rq, Ev
<1>8. /\ IsInjective(F.list)
      /\ {F.focus, F.hilite, F.requested, F.pending, F.stolen} \subseteq Managed(F) \cup {None}
      /\ \A w \in Windows : Event("MapRequest", w) \in Ev(F) => w \notin Managed(F)
  BY DEF Sane
<1>9. Sane(G, {})
  BY <1>2, <1>5, <1>7, <1>8 DEF Sane, SameButEvents
<1>10. e.type = "MapRequest" => e \notin Ev(G) /\ e.win \in Windows /\ e.win \notin Managed(G)
  <2>1. SUFFICES ASSUME e.type = "MapRequest"
                 PROVE  e \notin Ev(G) /\ e.win \in Windows /\ e.win \notin Managed(G)
    OBVIOUS
  <2>2. e.win \in Windows
    BY <1>1, <2>1 DEF Events
  <2>3. e = Event("MapRequest", e.win)
    BY <1>1, <2>1, RecordsDiffer
  <2> QED
    BY <1>2, <1>7, <1>8, <2>1, <2>2, <2>3 DEF SameButEvents
<1>11. FocusFirst(F.events) => /\ FocusFirst(G.events)
                               /\ e.type = "Unmap" => Event("FocusIn", e.win) \notin Ev(G)
  BY <1>3, <1>5, <1>7
<1>12. Taken(F, G, e)
  BY <1>1, <1>6, <1>7, <1>9, <1>10, <1>11 DEF Taken
<1> QED
  BY <1>12 DEF e, G

\* fvwm has sent q, its oldest request.
Sent(F, G, q) ==
  /\ q \in Requests /\ Sane(G, {}) /\ Rq(F) = Rq(G) \cup {q}
  /\ MapsFirst(F.requests) => /\ MapsFirst(G.requests)
                              /\ q.op \in {"focus", "map"} => Request("map", q.win) \notin Rq(G)
  /\ G.events = F.events /\ G.focus = F.focus /\ Managed(G) = Managed(F)

\* The oldest request is taken.
LEMMA SendDoes ==
  ASSUME NEW F, Sane(F, {}), F.requests # <<>>
  PROVE  Sent(F, [F EXCEPT !.requests = Tail(@)], Head(F.requests))
<1> DEFINE s == Tail(F.requests)
           q == Head(F.requests)
           G == [F EXCEPT !.requests = Tail(@)]
<1>0. F \in Fvwms /\ F.requests \in Seq(Requests)
  BY DEF Sane, Fvwms
<1>1. s \in Seq(Requests) /\ q \in Requests /\ ToSet(s) \cup {q} = Rq(F)
  BY <1>0, TailSet DEF Rq
<1>2. MapsFirst(F.requests) => /\ MapsFirst(s)
                               /\ q.op \in {"focus", "map"} => Request("map", q.win) \notin ToSet(s)
  BY <1>0, MapsFirstTail
<1>3. G = [F EXCEPT !.requests = s]
  OBVIOUS
<1> HIDE DEF s, q, G
<1>4. /\ G \in Fvwms /\ G.list = F.list /\ G.focus = F.focus /\ G.hilite = F.hilite
      /\ G.requested = F.requested /\ G.pending = F.pending /\ G.stolen = F.stolen
      /\ G.unknown = F.unknown /\ G.requests = s /\ G.events = F.events
  BY <1>0, <1>1, <1>3 DEF Fvwms
<1>5. Managed(G) = Managed(F) /\ Ev(G) = Ev(F) /\ Rq(F) = Rq(G) \cup {q} /\ Rq(G) = ToSet(s)
  BY <1>1, <1>4 DEF Managed, Ev, Rq
<1>6. Sane(G, {})
  BY <1>4, <1>5 DEF Sane
<1> QED
  BY <1>1, <1>2, <1>4, <1>5, <1>6 DEF Sent, q, G

-----------------------------------------------------------------------------
(* The X server.                                                             *)

\* What the server holds.
Placed(S) == S \in Servers /\ S.observed \subseteq S.viewable

\* The focus moves to f.
LEMMA FocusPlaced ==
  ASSUME NEW S, Placed(S), NEW f \in Focusable \cup {Root, Nowhere, None}
  PROVE  LET T == [S EXCEPT !.focus = f]
         IN Placed(T) /\ T.focus = f /\ T.viewable = S.viewable /\ T.observed = S.observed
<1> DEFINE T == [S EXCEPT !.focus = f]
<1>1. S \in Servers /\ S.observed \subseteq S.viewable
  BY DEF Placed
<1>2. T \in Servers /\ T.focus = f /\ T.viewable = S.viewable /\ T.observed = S.observed
  BY <1>1 DEF Servers
<1> QED
  BY <1>1, <1>2 DEF Placed

\* w becomes viewable.
LEMMA ViewPlaced ==
  ASSUME NEW S, Placed(S), NEW w \in Windows \cup Unmanaged
  PROVE  LET T == [S EXCEPT !.viewable = @ \cup {w}]
         IN Placed(T) /\ T.focus = S.focus /\ T.viewable = S.viewable \cup {w}
<1> DEFINE T == [S EXCEPT !.viewable = @ \cup {w}]
<1>1. S \in Servers /\ S.observed \subseteq S.viewable
  BY DEF Placed
<1>2. /\ T \in Servers /\ T.focus = S.focus /\ T.viewable = S.viewable \cup {w}
      /\ T.observed = S.observed
  BY <1>1 DEF Servers
<1> QED
  BY <1>1, <1>2 DEF Placed

\* fvwm observes u, if there is still something to observe.
LEMMA ObservePlaced ==
  ASSUME NEW S, Placed(S), NEW u \in Unmanaged
  PROVE  LET T == [S EXCEPT !.observed = @ \cup ({u} \cap S.viewable)]
         IN Placed(T) /\ T.focus = S.focus /\ T.viewable = S.viewable
<1> DEFINE T == [S EXCEPT !.observed = @ \cup ({u} \cap S.viewable)]
<1>1. S \in Servers /\ S.observed \subseteq S.viewable
  BY DEF Placed
<1>2. /\ T \in Servers /\ T.focus = S.focus /\ T.viewable = S.viewable
      /\ T.observed = S.observed \cup ({u} \cap S.viewable)
  BY <1>1 DEF Servers
<1> QED
  BY <1>1, <1>2 DEF Placed

\* A hidden window has not got the focus.
LEMMA HideDoes ==
  ASSUME NEW S, Placed(S), NEW w \in Windows \cup Unmanaged
  PROVE  LET T == Hide(S, w)
         IN /\ Placed(T) /\ T.viewable = S.viewable \ {w}
            /\ S.focus # w => T.focus = S.focus
            /\ S.focus = w => T.focus = IF w \in Windows THEN Nowhere ELSE Root
<1> DEFINE f == IF S.focus # w THEN S.focus ELSE IF w \in Windows THEN Nowhere ELSE Root
           T == Hide(S, w)
<1>1. S \in Servers /\ S.observed \subseteq S.viewable
  BY DEF Placed
<1>2. T = [S EXCEPT !.viewable = @ \ {w}, !.observed = @ \ {w}, !.focus = f]
  <2>1. CASE S.focus # w
    BY <2>1 DEF Hide
  <2>2. CASE S.focus = w /\ w \in Windows
    BY <2>2 DEF Hide
  <2>3. CASE S.focus = w /\ w \notin Windows
    BY <2>3 DEF Hide
  <2> QED
    BY <2>1, <2>2, <2>3
<1>3. f \in Focusable \cup {Root, Nowhere, None}
  BY <1>1 DEF Servers
<1> HIDE DEF T, f
<1>4. T \in Servers /\ T.viewable = S.viewable \ {w} /\ T.observed = S.observed \ {w} /\ T.focus = f
  BY <1>1, <1>2, <1>3 DEF Servers
<1>5. Placed(T)
  BY <1>1, <1>4 DEF Placed
<1> QED
  BY <1>4, <1>5 DEF T, f

\* What the server makes of the oldest request.  R: fvwm without it.
Served(R, G, S, T, q) ==
  \/ q.op = "focus" /\ ~MayHaveFocus(S, q.win) /\ G = R /\ T = S
  \/ /\ q.op = "focus" /\ MayHaveFocus(S, q.win)
     /\ Informed(R, G, S, q.win) /\ T = [S EXCEPT !.focus = q.win]
  \/ /\ q.op = "map"
     /\ Posted(R, G, Event("Map", q.win)) /\ T = [S EXCEPT !.viewable = @ \cup {q.win}]
  \/ q.op = "unmap" /\ G = R /\ T = Hide(S, q.win)
  \/ /\ q.op = "observe" /\ G = R
     /\ T = [S EXCEPT !.observed = @ \cup ({q.win} \cap S.viewable)]

\* The server executes the oldest request as its kind says.
LEMMA ServeDoes ==
  ASSUME Sane(fvwm, {}), Placed(server), Serve
  PROVE  \E R, q : Sent(fvwm, R, q) /\ Served(R, fvwm', server, server', q)
<1> DEFINE q == Head(fvwm.requests)
           R == [fvwm EXCEPT !.requests = Tail(@)]
<1>1. fvwm.requests # <<>>
  BY DEF Serve
<1>2. Sent(fvwm, R, q)
  BY <1>1, SendDoes
<1>3. (CASE q.op = "focus" /\ ~MayHaveFocus(server, q.win)
          -> fvwm' = [R EXCEPT !.events = @ \o <<>>] /\ server' = server
       [] q.op = "focus" /\ MayHaveFocus(server, q.win)
          -> /\ fvwm' = [R EXCEPT !.events = @ \o FocusEvents(R, server, q.win)]
             /\ server' = [server EXCEPT !.focus = q.win]
       [] q.op = "map"
          -> /\ fvwm' = [R EXCEPT !.events = @ \o <<Event("Map", q.win)>>]
             /\ server' = [server EXCEPT !.viewable = @ \cup {q.win}]
       [] q.op = "unmap"
          -> fvwm' = [R EXCEPT !.events = @ \o <<>>] /\ server' = Hide(server, q.win)
       [] q.op = "observe"
          -> /\ fvwm' = [R EXCEPT !.events = @ \o <<>>]
             /\ server' = [server EXCEPT !.observed = @ \cup ({q.win} \cap server.viewable)])
  BY Zenon DEF Serve
<1> HIDE DEF q, R
<1>4. q \in Requests /\ Sane(R, {}) /\ R \in Fvwms /\ R.events \in Seq(Events)
  BY <1>2 DEF Sent, Sane, Fvwms
<1>5. [R EXCEPT !.events = @ \o <<>>] = R
  <2>1. R.events \o <<>> = R.events
    BY <1>4
  <2>2. [R EXCEPT !.events = R.events] = R
    BY <1>4 DEF Fvwms
  <2> QED
    BY <2>1, <2>2
<1>6. CASE q.op = "focus" /\ ~MayHaveFocus(server, q.win)
  <2>1. fvwm' = R /\ server' = server
    BY <1>3, <1>5, <1>6
  <2> QED
    BY <1>2, <1>6, <2>1 DEF Served
<1>7. CASE q.op = "focus" /\ MayHaveFocus(server, q.win)
  <2>1. /\ fvwm' = [R EXCEPT !.events = @ \o FocusEvents(R, server, q.win)]
        /\ server' = [server EXCEPT !.focus = q.win]
    BY <1>3, <1>7
  <2>2. q.win \in Windows \cup Unmanaged \cup {NoFocusWin, None}
    BY <1>4, <1>7 DEF Requests
  <2>3. server \in Servers
    BY DEF Placed
  <2>4. Informed(R, fvwm', server, q.win)
    BY <1>4, <2>1, <2>2, <2>3, InformedDoes
  <2> QED
    BY <1>2, <1>7, <2>1, <2>4 DEF Served
<1>8. CASE q.op = "map"
  <2> DEFINE e == Event("Map", q.win)
  <2>1. /\ fvwm' = [R EXCEPT !.events = @ \o <<e>>]
        /\ server' = [server EXCEPT !.viewable = @ \cup {q.win}]
    BY <1>3, <1>8
  <2>2. e \in Events /\ e.type # "MapRequest"
    BY <1>4, <1>8 DEF Requests, Events, Event
  <2> HIDE DEF e
  <2>3. R.events \o <<e>> = Append(R.events, e)
    BY <1>4, <2>2
  <2>4. fvwm' = [R EXCEPT !.events = Append(@, e)]
    BY <2>1, <2>3
  <2>5. Posted(R, fvwm', e)
    BY <1>4, <2>2, <2>4, PostDoes
  <2> QED
    BY <1>2, <1>8, <2>1, <2>5 DEF Served, e
<1>9. CASE q.op = "unmap"
  <2>1. fvwm' = R /\ server' = Hide(server, q.win)
    BY <1>3, <1>5, <1>9
  <2> QED
    BY <1>2, <1>9, <2>1 DEF Served
<1>10. CASE q.op = "observe"
  <2>1. /\ fvwm' = R
        /\ server' = [server EXCEPT !.observed = @ \cup ({q.win} \cap server.viewable)]
    BY <1>3, <1>5, <1>10
  <2> QED
    BY <1>2, <1>10, <2>1 DEF Served
<1>11. q.op \in {"focus", "map", "unmap", "observe"}
  BY <1>4 DEF Requests
<1> QED
  BY <1>6, <1>7, <1>8, <1>9, <1>10, <1>11

-----------------------------------------------------------------------------
(* Events of fvwm.                                                           *)

\* A stolen focus has been taken back.
Refocused(F, G) ==
  IF HasFocusIn(F) THEN Heard(F, G, Told(F))
  ELSE Sane(G, {}) /\ Keeps(F, G) /\ Drained(F, G) /\ Asked(G)

\* What fvwm makes of the oldest event.  R: fvwm without it.
Dispatched(F, R, G, e) ==
  \/ e.type = "FocusIn" /\ Heard(F, G, Told(F))
  \/ e.type = "FocusOut" /\ (G = R \/ Refocused(R, G))
  \/ e.type = "MapRequest" /\ Adopted(R, G, e.win)
  \/ e.type = "Map" /\ Plain(R, G)
  \/ e.type = "Unmap" /\ e.win \notin Managed(R) /\ G = R
  \/ e.type = "Unmap" /\ e.win \in Managed(R) /\ Destroyed(R, G, e.win)

\* fvwm handles the oldest event as its type says, and asks the server nothing.
LEMMA DispatchDoes ==
  ASSUME Sane(fvwm, {}), Dispatch
  PROVE  /\ \E R, e : Taken(fvwm, R, e) /\ Dispatched(fvwm, R, fvwm', e)
         /\ server' = server
<1> DEFINE e == Head(fvwm.events)
           R == [fvwm EXCEPT !.events = Tail(@)]
           w == e.win
<1>1. fvwm.events # <<>> /\ server' = server
  BY DEF Dispatch
<1>2. Taken(fvwm, R, e)
  BY <1>1, TakeDoes
<1>3. \/ e.type = "FocusIn" /\ fvwm' = HandleFocusIn(R, w)
      \/ e.type = "FocusOut" /\ fvwm' = HandleFocusOut(R, w)
      \/ e.type = "MapRequest" /\ fvwm' = HandleMapRequest(R, w)
      \/ e.type = "Map" /\ fvwm' = HandleMapNotify(R, w)
      \/ e.type = "Unmap" /\ fvwm' = HandleUnmapNotify(R, w)
  BY Zenon DEF Dispatch
<1> HIDE DEF e, R
<1>4. e \in Events /\ Sane(R, {}) /\ SameButEvents(fvwm, R) /\ Ev(fvwm) = Ev(R) \cup {e}
  BY <1>2 DEF Taken
<1>5. CASE e.type = "FocusIn" /\ fvwm' = HandleFocusIn(R, w)
  <2>1. w \in Windows \cup Unmanaged \cup {NoFocusWin, None}
    BY <1>4, <1>5 DEF Events
  <2>2. Heard(R, fvwm', IF HasFocusIn(R) THEN Told(R) ELSE w)
    BY <1>4, <1>5, <2>1, HandleFocusInDoes
  <2>3. Told(fvwm) = IF HasFocusIn(R) THEN Told(R) ELSE w
    BY <1>2, <1>5 DEF Taken
  <2>4. Keeps(fvwm, R) /\ Managed(R) = Managed(fvwm) /\ R.focus = fvwm.focus
    BY <1>4, KeepsSame DEF SameButEvents
  <2>5. Drained(fvwm, fvwm')
    BY <1>4, <1>5, <2>2 DEF Heard, Drained
  <2>6. Heard(fvwm, fvwm', Told(fvwm))
    BY <2>2, <2>3, <2>4, <2>5, KeepsTransitive DEF Heard
  <2> QED
    BY <1>1, <1>2, <1>5, <2>6 DEF Dispatched
<1>6. CASE e.type = "FocusOut" /\ fvwm' = HandleFocusOut(R, w)
  <2>1. fvwm' = R \/ (R.stolen # None /\ fvwm' = Refocus(R))
    BY <1>6 DEF HandleFocusOut
  <2>2. fvwm' = R \/ Refocused(R, fvwm')
    BY <1>4, <2>1, RefocusDoes DEF Refocused
  <2> QED
    BY <1>1, <1>2, <1>6, <2>2 DEF Dispatched
<1>7. CASE e.type = "MapRequest" /\ fvwm' = HandleMapRequest(R, w)
  <2>1. e \notin Ev(R) /\ w \in Windows /\ w \notin Managed(R)
    BY <1>2, <1>7 DEF Taken
  <2>2. e = Event("MapRequest", w)
    BY <1>4, <1>7, RecordsDiffer
  <2>3. Adopted(R, fvwm', w)
    BY <1>4, <1>7, <2>1, <2>2, HandleMapRequestDoes
  <2> QED
    BY <1>1, <1>2, <1>7, <2>3 DEF Dispatched
<1>8. CASE e.type = "Map" /\ fvwm' = HandleMapNotify(R, w)
  <2>1. w \in Windows \cup Unmanaged
    BY <1>4, <1>8 DEF Events
  <2>2. Plain(R, fvwm')
    BY <1>4, <1>8, <2>1, PlainMapNotify
  <2> QED
    BY <1>1, <1>2, <1>8, <2>2 DEF Dispatched
<1>9. CASE e.type = "Unmap" /\ fvwm' = HandleUnmapNotify(R, w)
  <2>1. CASE w \in Managed(R)
    <3>1. Destroyed(R, fvwm', w)
      BY <1>4, <1>9, <2>1, HandleUnmapNotifyDoes
    <3> QED
      BY <1>1, <1>2, <1>9, <2>1, <3>1 DEF Dispatched
  <2>2. CASE w \notin Managed(R)
    <3>1. fvwm' = R
      BY <1>9, <2>2 DEF HandleUnmapNotify
    <3> QED
      BY <1>1, <1>2, <1>9, <2>2, <3>1 DEF Dispatched
  <2> QED
    BY <2>1, <2>2
<1> QED
  BY <1>3, <1>5, <1>6, <1>7, <1>8, <1>9

-----------------------------------------------------------------------------
(* The user.                                                                 *)

\* The focus has been set and, may be, a stolen one has been taken back.
Used(F, G) == \E C : Plain(F, C) /\ (G = C \/ Refocused(C, G))

\* The focus of r has been refreshed.
Refreshed(F, A, S, T, r) ==
  /\ Sane(A, {}) /\ A.focus = r /\ F.focus = r
  /\ Managed(A) = Managed(F) /\ A.requests = F.requests
  /\ Ev(F) \subseteq Ev(A) /\ \A e \in Ev(A) \ Ev(F) : e.type = "FocusOut"
  /\ FocusFirst(F.events) => FocusFirst(A.events)
  /\ HasFocusIn(A) <=> HasFocusIn(F)
  /\ HasFocusIn(F) => Told(A) = Told(F)
  /\ T = [S EXCEPT !.focus = r]

\* EnterNotify may take a stolen focus back.
LEMMA ReturnFocusDoes ==
  ASSUME NEW F, Sane(F, {}), NEW sf
  PROVE  LET G == ReturnFocus(F, sf) IN G = F \/ Refocused(F, G)
<1>1. CASE F.stolen # None /\ ReturnFocus(F, sf) = Refocus(F)
  BY <1>1, RefocusDoes DEF Refocused
<1>2. CASE ReturnFocus(F, sf) = F
  BY <1>2
<1>3. ReturnFocus(F, sf) = F \/ (F.stolen # None /\ ReturnFocus(F, sf) = Refocus(F))
  BY DEF ReturnFocus
<1> QED
  BY <1>1, <1>2, <1>3

\* A refresh asks for the focus, and waits until the server has executed it.
LEMMA RefreshDoes ==
  ASSUME Sane(fvwm, {}), Placed(server), NEW r, fvwm.focus = r
  PROVE  Refreshed(fvwm, Refresh(fvwm, r), server, [server EXCEPT !.focus = r], r)
<1> DEFINE B == [fvwm EXCEPT !.events = @ \o FocusOuts(server, r)]
           A == Refresh(fvwm, r)
<1>1. /\ Sane(B, {}) /\ SameButEvents(fvwm, B) /\ Ev(fvwm) \subseteq Ev(B)
      /\ \A e \in Ev(B) \ Ev(fvwm) : e.type = "FocusOut"
      /\ FocusFirst(fvwm.events) => FocusFirst(B.events)
      /\ HasFocusIn(B) <=> HasFocusIn(fvwm)
      /\ HasFocusIn(fvwm) => Told(B) = Told(fvwm)
  BY FocusOutsDo DEF Placed
<1>2. A = [B EXCEPT !.requested = None]
  <2>1. fvwm \in Fvwms
    BY DEF Sane
  <2> QED
    BY <2>1 DEF Refresh, Fvwms
<1> HIDE DEF A, B
<1>3. B \in Fvwms
  BY <1>1 DEF Sane
<1>4. /\ A \in Fvwms /\ A.list = B.list /\ A.focus = B.focus /\ A.hilite = B.hilite
      /\ A.requested = None /\ A.pending = B.pending /\ A.stolen = B.stolen
      /\ A.requests = B.requests /\ A.events = B.events
  BY <1>2, <1>3 DEF Fvwms, Pointers
<1>5. Managed(A) = Managed(B) /\ Ev(A) = Ev(B)
  BY <1>4 DEF Managed, Ev
<1>6. Sane(A, {})
  BY <1>1, <1>4, <1>5 DEF Sane
<1>7. (HasFocusIn(A) <=> HasFocusIn(B)) /\ (HasFocusIn(B) => Told(A) = Told(B))
  <2>1. B.events \in Seq(Events)
    BY <1>3 DEF Fvwms
  <2> QED
    BY <1>4, <2>1, ToldSame
<1>8. /\ A.focus = r /\ Managed(A) = Managed(fvwm) /\ A.requests = fvwm.requests
      /\ Ev(fvwm) \subseteq Ev(A) /\ \A e \in Ev(A) \ Ev(fvwm) : e.type = "FocusOut"
      /\ FocusFirst(fvwm.events) => FocusFirst(A.events)
  BY <1>1, <1>4, <1>5 DEF SameButEvents
<1>9. (HasFocusIn(A) <=> HasFocusIn(fvwm)) /\ (HasFocusIn(fvwm) => Told(A) = Told(fvwm))
  BY <1>1, <1>7
<1> QED
  BY <1>6, <1>8, <1>9 DEF Refreshed, A

\* The pointer enters a window: the focus may be refreshed, returned and set.
LEMMA EnterWindowDoes ==
  ASSUME Sane(fvwm, {}), Placed(server), NEW r \in Managed(fvwm), EnterWindow(r)
  PROVE  \E A : /\ \/ A = fvwm /\ server' = server
                   \/ Refreshed(fvwm, A, server, server', r)
                /\ Used(A, fvwm')
<1>1. PICK again \in BOOLEAN :
        LET sf == fvwm.focus
            refresh == /\ sf = r
                       /\ (again /\ Passive(r)) \/ (~Has(r, "enter") /\ AcceptsInput(r))
            A == IF refresh THEN Refresh(fvwm, r) ELSE fvwm
            B == IF sf \notin {None, r} /\ Has(sf, "leave") THEN DeleteFocus(A) ELSE A
            C == IF Has(r, "enter") THEN SetFocus(B, r, "enter", TRUE, FALSE) ELSE B
        IN /\ refresh => fvwm.requests = <<>>
           /\ server' = [server EXCEPT !.focus = IF refresh THEN r ELSE @]
           /\ fvwm' = ReturnFocus(C, sf)
  BY Zenon DEF EnterWindow
<1> DEFINE sf == fvwm.focus
           refresh == /\ sf = r
                      /\ (again /\ Passive(r)) \/ (~Has(r, "enter") /\ AcceptsInput(r))
           A == IF refresh THEN Refresh(fvwm, r) ELSE fvwm
           B == IF sf \notin {None, r} /\ Has(sf, "leave") THEN DeleteFocus(A) ELSE A
           C == IF Has(r, "enter") THEN SetFocus(B, r, "enter", TRUE, FALSE) ELSE B
<1>2. /\ server' = [server EXCEPT !.focus = IF refresh THEN r ELSE @]
      /\ fvwm' = ReturnFocus(C, sf)
  BY <1>1
<1>3. /\ \/ A = fvwm /\ server' = server
         \/ Refreshed(fvwm, A, server, server', r)
      /\ Sane(A, {}) /\ r \in Managed(A)
  <2>1. CASE refresh
    <3>1. fvwm.focus = r
      BY <2>1
    <3>2. server' = [server EXCEPT !.focus = r] /\ A = Refresh(fvwm, r)
      BY <1>2, <2>1
    <3> HIDE DEF A, refresh
    <3>3. Refreshed(fvwm, A, server, server', r)
      BY <3>1, <3>2, RefreshDoes
    <3> QED
      BY <3>3 DEF Refreshed
  <2>2. CASE ~refresh
    <3>1. A = fvwm
      BY <2>2
    <3>2. server' = [server EXCEPT !.focus = server.focus]
      BY <1>2, <2>2
    <3> HIDE DEF A, refresh
    <3>3. server' = server
      BY <3>2 DEF Placed, Servers
    <3> QED
      BY <3>1, <3>3
  <2> QED
    BY <2>1, <2>2
<1> HIDE DEF A, refresh
<1>4. Plain(A, B)
  BY <1>3, PlainDeleteFocus, PlainSame
<1>5. Sane(B, {}) /\ r \in Managed(B)
  BY <1>3, <1>4 DEF Plain, Keeps
<1> HIDE DEF B
<1>6. Plain(B, C)
  BY <1>5, PlainSetFocus, PlainSame
<1> HIDE DEF C
<1>7. Plain(A, C) /\ Sane(C, {})
  BY <1>3, <1>4, <1>6, PlainTransitive DEF Plain
<1>8. fvwm' = C \/ Refocused(C, fvwm')
  BY <1>2, <1>7, ReturnFocusDoes
<1>9. Used(A, fvwm')
  BY <1>7, <1>8 DEF Used
<1> QED
  BY <1>3, <1>9

\* The pointer enters the root window: the focus may be returned or deleted.
LEMMA EnterRootDoes ==
  ASSUME Sane(fvwm, {}), EnterRoot
  PROVE  Used(fvwm, fvwm') /\ server' = server
<1>1. server' = server /\ (fvwm' = DeleteFocus(fvwm) \/ fvwm' = ReturnFocus(fvwm, fvwm.focus))
  BY DEF EnterRoot
<1>2. CASE fvwm' = DeleteFocus(fvwm)
  BY <1>1, <1>2, PlainDeleteFocus DEF Used
<1>3. CASE fvwm' = ReturnFocus(fvwm, fvwm.focus)
  <2>1. Plain(fvwm, fvwm) /\ (fvwm' = fvwm \/ Refocused(fvwm, fvwm'))
    BY <1>3, PlainSame, ReturnFocusDoes
  <2> QED
    BY <1>1, <2>1 DEF Used
<1> QED
  BY <1>1, <1>2, <1>3

\* Focus, FlipFocus and clicks set the focus.
LEMMA SetFocusActionsDo ==
  ASSUME Sane(fvwm, {}), NEW r \in Managed(fvwm), Focus(r) \/ Click(r)
  PROVE  Used(fvwm, fvwm') /\ server' = server
<1>1. Plain(fvwm, fvwm') /\ server' = server
  <2>1. CASE Focus(r)
    BY <2>1, PlainActivate DEF Focus
  <2>2. CASE Click(r)
    BY <2>2, PlainSetFocus DEF Click
  <2> QED
    BY <2>1, <2>2
<1> QED
  BY <1>1 DEF Used

-----------------------------------------------------------------------------
(* The clients.                                                              *)

\* A client takes the focus with a window that fvwm is not about to unmap.
LEMMA ClientTakesFocusDoes ==
  ASSUME Sane(fvwm, {}), Placed(server), NEW w \in Windows \cup Unmanaged, ClientTakesFocus(w)
  PROVE  /\ Informed(fvwm, fvwm', server, w) /\ server' = [server EXCEPT !.focus = w]
         /\ w \in server.viewable /\ w # server.focus /\ Request("unmap", w) \notin Rq(fvwm)
<1>1. /\ server' = [server EXCEPT !.focus = w]
      /\ fvwm' = [fvwm EXCEPT !.events = @ \o FocusEvents(fvwm, server, w)]
      /\ w \in server.viewable /\ w # server.focus /\ Request("unmap", w) \notin Rq(fvwm)
  BY DEF ClientTakesFocus, GiveFocus, Rq
<1>2. server \in Servers
  BY DEF Placed
<1>3. Informed(fvwm, fvwm', server, w)
  BY <1>1, <1>2, InformedDoes
<1> QED
  BY <1>1, <1>3

\* A client asks for a window that nobody speaks of any more.
LEMMA ClientMapsDoes ==
  ASSUME Sane(fvwm, {}), NEW r \in Windows, ClientMaps(r)
  PROVE  /\ Posted(fvwm, fvwm', Event("MapRequest", r)) /\ server' = server
         /\ r \notin server.viewable \cup Managed(fvwm)
         /\ \A e \in Ev(fvwm) : e.win # r
         /\ \A q \in Rq(fvwm) : q.win # r
<1> DEFINE e == Event("MapRequest", r)
<1>1. /\ fvwm' = [fvwm EXCEPT !.events = Append(@, e)] /\ server' = server
      /\ r \notin server.viewable \cup Managed(fvwm)
  BY DEF ClientMaps, Post
<1>2. (\A d \in Ev(fvwm) : d.win # r) /\ \A q \in Rq(fvwm) : q.win # r
  BY DEF ClientMaps, Ev, Rq, ToSet
<1>3. e \in Events /\ e.win = r
  BY DEF Event, Events
<1> HIDE DEF e
<1>4. Posted(fvwm, fvwm', e)
  BY <1>1, <1>2, <1>3, PostDoes
<1> QED
  BY <1>1, <1>2, <1>4 DEF e

\* A client withdraws a window that can be seen.
LEMMA ClientWithdrawsDoes ==
  ASSUME Sane(fvwm, {}), NEW r \in Windows, ClientWithdraws(r)
  PROVE  /\ Posted(fvwm, fvwm', Event("Unmap", r)) /\ server' = Hide(server, r)
         /\ r \in server.viewable
<1> DEFINE e == Event("Unmap", r)
<1>1. /\ fvwm' = [fvwm EXCEPT !.events = Append(@, e)] /\ server' = Hide(server, r)
      /\ r \in server.viewable
  BY DEF ClientWithdraws, Post
<1>2. e \in Events /\ e.type # "MapRequest"
  BY DEF Event, Events
<1> HIDE DEF e
<1>3. Posted(fvwm, fvwm', e)
  BY <1>1, <1>2, PostDoes
<1> QED
  BY <1>1, <1>3 DEF e

\* An override-redirect window appears.
LEMMA UnmanagedMapsDoes ==
  ASSUME Sane(fvwm, {}), NEW u \in Unmanaged, UnmanagedMaps(u)
  PROVE  /\ Posted(fvwm, fvwm', Event("Map", u))
         /\ server' = [server EXCEPT !.viewable = @ \cup {u}]
<1> DEFINE e == Event("Map", u)
<1>1. /\ fvwm' = [fvwm EXCEPT !.events = Append(@, e)]
      /\ server' = [server EXCEPT !.viewable = @ \cup {u}]
  BY DEF UnmanagedMaps, Post
<1>2. e \in Events /\ e.type # "MapRequest"
  BY DEF Event, Events
<1> HIDE DEF e
<1>3. Posted(fvwm, fvwm', e)
  BY <1>1, <1>2, PostDoes
<1> QED
  BY <1>1, <1>3 DEF e

\* An override-redirect window goes, and tells of it if it had the focus.
LEMMA UnmanagedUnmapsDoes ==
  ASSUME Sane(fvwm, {}), NEW u \in Unmanaged, UnmanagedUnmaps(u)
  PROVE  /\ fvwm' = fvwm \/ Posted(fvwm, fvwm', Event("FocusOut", u))
         /\ server' = Hide(server, u)
<1> DEFINE e == Event("FocusOut", u)
<1>1. /\ fvwm' = fvwm \/ fvwm' = [fvwm EXCEPT !.events = Append(@, e)]
      /\ server' = Hide(server, u)
  BY DEF UnmanagedUnmaps, Post
<1>2. e \in Events /\ e.type # "MapRequest"
  BY DEF Event, Events
<1> HIDE DEF e
<1>3. fvwm' = fvwm \/ Posted(fvwm, fvwm', e)
  BY <1>1, <1>2, PostDoes
<1> QED
  BY <1>1, <1>3 DEF e

-----------------------------------------------------------------------------
(* Types.                                                                    *)

TypeInv == Sane(fvwm, {}) /\ Placed(server)

\* What the invariant says of types.
LEMMA TypeInvImplies ==
  ASSUME TypeInv
  PROVE  TypeOK
<1>1. /\ fvwm \in Fvwms /\ IsInjective(fvwm.list)
      /\ {fvwm.focus, fvwm.hilite, fvwm.requested, fvwm.pending, fvwm.stolen}
           \subseteq Managed(fvwm) \cup {None}
  BY DEF TypeInv, Sane
<1>2. fvwm.requests \in Seq([op : {"focus", "map", "unmap", "observe"}, win : Focusable \cup {None}])
  <2>1. Requests \subseteq [op : {"focus", "map", "unmap", "observe"}, win : Focusable \cup {None}]
    BY DEF Requests, Focusable
  <2> QED
    BY <1>1, <2>1, SeqMonotonic DEF Fvwms
<1>3. fvwm.events \in Seq([type : {"FocusIn", "FocusOut", "MapRequest", "Map", "Unmap"}, win : Focusable])
  <2>1. Events \subseteq [type : {"FocusIn", "FocusOut", "MapRequest", "Map", "Unmap"}, win : Focusable]
    BY DEF Events, Focusable
  <2> QED
    BY <1>1, <2>1, SeqMonotonic DEF Fvwms
<1>4. fvwm.list \in Seq(Windows) /\ fvwm.unknown \in Windows \cup Unmanaged \cup {None}
  BY <1>1 DEF Fvwms
<1>5. /\ server.focus \in Focusable \cup {Root, Nowhere, None}
      /\ server.viewable \in SUBSET (Windows \cup Unmanaged)
      /\ server.observed \in SUBSET (server.viewable \cap Unmanaged)
  BY DEF TypeInv, Placed, Servers
<1> QED
  BY <1>1, <1>2, <1>3, <1>4, <1>5 DEF TypeOK

\* At first nothing is managed, seen, asked or told.
LEMMA InitFields ==
  ASSUME Init
  PROVE  /\ TypeInv /\ fvwm.requests = <<>> /\ fvwm.events = <<>>
         /\ Managed(fvwm) = {} /\ Ev(fvwm) = {} /\ Rq(fvwm) = {}
         /\ server.focus = NoFocusWin /\ server.viewable = {}
<1>1. /\ fvwm = [list |-> <<>>, focus |-> None, hilite |-> None, requested |-> None,
                 pending |-> None, stolen |-> None, unknown |-> None,
                 requests |-> <<>>, events |-> <<>>]
      /\ server = [focus |-> NoFocusWin, viewable |-> {}, observed |-> {}]
  BY DEF Init
<1>2. /\ fvwm.list = <<>> /\ fvwm.focus = None /\ fvwm.hilite = None /\ fvwm.requested = None
      /\ fvwm.pending = None /\ fvwm.stolen = None /\ fvwm.requests = <<>> /\ fvwm.events = <<>>
  BY <1>1
<1>3. <<>> \in Seq(Windows) /\ <<>> \in Seq(Requests) /\ <<>> \in Seq(Events)
  OBVIOUS
<1>4. fvwm \in Fvwms
  BY <1>1, <1>3 DEF Fvwms, Pointers
<1>5. Managed(fvwm) = {} /\ Ev(fvwm) = {} /\ Rq(fvwm) = {}
  BY <1>2 DEF Managed, Ev, Rq, ToSet
<1>6. IsInjective(fvwm.list) /\ AskedOnce(fvwm.events)
  BY <1>2 DEF IsInjective, AskedOnce
<1>7. Sane(fvwm, {})
  BY <1>2, <1>4, <1>5, <1>6 DEF Sane
<1>8. Placed(server) /\ server.focus = NoFocusWin /\ server.viewable = {}
  BY <1>1 DEF Placed, Servers, Focusable
<1> QED
  BY <1>2, <1>5, <1>7, <1>8 DEF TypeInv

\* The server keeps the types.
LEMMA ServeKeepsTypes ==
  ASSUME TypeInv, Serve
  PROVE  TypeInv'
<1>1. PICK R, q : Sent(fvwm, R, q) /\ Served(R, fvwm', server, server', q)
  BY ServeDoes DEF TypeInv
<1>2. Sane(R, {}) /\ q \in Requests /\ Placed(server)
  BY <1>1 DEF Sent, TypeInv
<1>3. Sane(fvwm', {})
  BY <1>1, <1>2 DEF Served, Informed, Posted
<1>4. Placed(server')
  <2>1. CASE server' = server
    BY <1>2, <2>1
  <2>2. CASE q.op = "focus" /\ server' = [server EXCEPT !.focus = q.win]
    <3>1. q.win \in Focusable \cup {Root, Nowhere, None}
      BY <1>2, <2>2 DEF Requests, Focusable
    <3> QED
      BY <1>2, <2>2, <3>1, FocusPlaced
  <2>3. CASE q.op = "map" /\ server' = [server EXCEPT !.viewable = @ \cup {q.win}]
    <3>1. q.win \in Windows \cup Unmanaged
      BY <1>2, <2>3 DEF Requests
    <3> QED
      BY <1>2, <2>3, <3>1, ViewPlaced
  <2>4. CASE q.op = "unmap" /\ server' = Hide(server, q.win)
    <3>1. q.win \in Windows \cup Unmanaged
      BY <1>2, <2>4 DEF Requests
    <3> QED
      BY <1>2, <2>4, <3>1, HideDoes
  <2>5. CASE q.op = "observe" /\ server' = [server EXCEPT !.observed = @ \cup ({q.win} \cap server.viewable)]
    <3>1. q.win \in Unmanaged
      BY <1>2, <2>5 DEF Requests
    <3> QED
      BY <1>2, <2>5, <3>1, ObservePlaced
  <2> QED
    BY <1>1, <2>1, <2>2, <2>3, <2>4, <2>5 DEF Served
<1> QED
  BY <1>3, <1>4 DEF TypeInv

\* Handlers of events keep the types.
LEMMA DispatchKeepsTypes ==
  ASSUME TypeInv, Dispatch
  PROVE  TypeInv'
<1>1. PICK R, e : Taken(fvwm, R, e) /\ Dispatched(fvwm, R, fvwm', e)
  BY DispatchDoes DEF TypeInv
<1>2. Sane(fvwm', {})
  BY <1>1 DEF Taken, Dispatched, Heard, Refocused, Adopted, Plain, Destroyed
<1> QED
  BY <1>2, DispatchDoes DEF TypeInv

\* What the user does leaves fvwm's pointers in order.
LEMMA UsedSane ==
  ASSUME NEW F, NEW G, Used(F, G)
  PROVE  Sane(G, {})
BY DEF Used, Plain, Refocused, Heard

\* What the user does keeps the types.
LEMMA UserKeepsTypes ==
  ASSUME TypeInv, \/ EnterRoot
                  \/ \E r \in Managed(fvwm) : Focus(r) \/ Click(r) \/ EnterWindow(r) \/ Destroy(r)
  PROVE  TypeInv'
<1>1. CASE EnterRoot
  BY <1>1, EnterRootDoes, UsedSane DEF TypeInv
<1>2. ASSUME NEW r \in Managed(fvwm), Focus(r) \/ Click(r) PROVE TypeInv'
  BY <1>2, SetFocusActionsDo, UsedSane DEF TypeInv
<1>3. ASSUME NEW r \in Managed(fvwm), EnterWindow(r) PROVE TypeInv'
  <2>1. PICK A : /\ \/ A = fvwm /\ server' = server
                    \/ Refreshed(fvwm, A, server, server', r)
                 /\ Used(A, fvwm')
    BY <1>3, EnterWindowDoes DEF TypeInv
  <2>2. Sane(fvwm', {})
    BY <2>1, UsedSane
  <2>3. Placed(server')
    <3>1. CASE server' = server
      BY <3>1 DEF TypeInv
    <3>2. CASE server' = [server EXCEPT !.focus = r]
      <4>1. r \in Focusable \cup {Root, Nowhere, None}
        BY ManagedWindows DEF TypeInv, Sane, Fvwms, Focusable
      <4> QED
        BY <3>2, <4>1, FocusPlaced DEF TypeInv
    <3> QED
      BY <2>1, <3>1, <3>2 DEF Refreshed
  <2> QED
    BY <2>2, <2>3 DEF TypeInv
<1>4. ASSUME NEW r \in Managed(fvwm), Destroy(r) PROVE TypeInv'
  <2>1. fvwm' = DestroyWindow(fvwm, r) /\ server' = server
    BY <1>4 DEF Destroy
  <2>2. Sane(fvwm', {})
    BY <2>1, DestroyWindowDoes DEF TypeInv, Destroyed
  <2> QED
    BY <2>1, <2>2 DEF TypeInv
<1> QED
  BY <1>1, <1>2, <1>3, <1>4

\* What clients do keeps the types.
LEMMA ClientKeepsTypes ==
  ASSUME TypeInv, \/ \E w \in Windows \cup Unmanaged : ClientTakesFocus(w)
                  \/ \E r \in Windows : ClientMaps(r) \/ ClientWithdraws(r)
                  \/ \E u \in Unmanaged : UnmanagedMaps(u) \/ UnmanagedUnmaps(u)
  PROVE  TypeInv'
<1>0. Sane(fvwm, {}) /\ Placed(server)
  BY DEF TypeInv
<1>1. ASSUME NEW w \in Windows \cup Unmanaged, ClientTakesFocus(w) PROVE TypeInv'
  <2>1. Informed(fvwm, fvwm', server, w) /\ server' = [server EXCEPT !.focus = w]
    BY <1>0, <1>1, ClientTakesFocusDoes
  <2>2. w \in Focusable \cup {Root, Nowhere, None}
    BY DEF Focusable
  <2> QED
    BY <1>0, <2>1, <2>2, FocusPlaced DEF TypeInv, Informed
<1>2. ASSUME NEW r \in Windows, ClientMaps(r) PROVE TypeInv'
  BY <1>0, <1>2, ClientMapsDoes DEF TypeInv, Posted
<1>3. ASSUME NEW r \in Windows, ClientWithdraws(r) PROVE TypeInv'
  BY <1>0, <1>3, ClientWithdrawsDoes, HideDoes DEF TypeInv, Posted
<1>4. ASSUME NEW u \in Unmanaged, UnmanagedMaps(u) PROVE TypeInv'
  BY <1>0, <1>4, UnmanagedMapsDoes, ViewPlaced DEF TypeInv, Posted
<1>5. ASSUME NEW u \in Unmanaged, UnmanagedUnmaps(u) PROVE TypeInv'
  BY <1>0, <1>5, UnmanagedUnmapsDoes, HideDoes DEF TypeInv, Posted
<1> QED
  BY <1>1, <1>2, <1>3, <1>4, <1>5

\* The type invariant: no pointer of fvwm is left on a window that it has
\* destroyed, whatever its handlers do between requests and events, and no
\* window is twice in the list.
THEOREM TypeCorrect == Spec => []TypeOK
<1>1. Init => TypeInv
  BY InitFields
<1>2. TypeInv /\ [Next]_vars => TypeInv'
  <2>1. SUFFICES ASSUME TypeInv, [Next]_vars PROVE TypeInv'
    OBVIOUS
  <2>2. CASE UNCHANGED vars
    BY <2>1, <2>2 DEF TypeInv, vars
  <2>3. CASE Next
    BY <2>1, <2>3, ServeKeepsTypes, DispatchKeepsTypes, UserKeepsTypes, ClientKeepsTypes
       DEF Next, Managed
  <2> QED
    BY <2>1, <2>2, <2>3
<1>3. TypeInv => TypeOK
  BY TypeInvImplies
<1> QED
  BY <1>1, <1>2, <1>3, PTL DEF Spec

-----------------------------------------------------------------------------
(* Where the keyboard is.                                                    *)

\* What fvwm knows of the life of w, and is going to know.
Life(F, S, w) ==
  /\ w = S.focus => w \in S.viewable
  /\ w \in S.viewable => w \in Managed(F) \/ Request("unmap", w) \in Rq(F)
  /\ w \in Managed(F) => \/ w \in S.viewable \/ Request("map", w) \in Rq(F)
                         \/ Event("Unmap", w) \in Ev(F)
  /\ Event("Unmap", w) \in Ev(F) => w \notin S.viewable /\ Request("map", w) \notin Rq(F)
  /\ Request("map", w) \in Rq(F) => w \notin S.viewable /\ w \in Managed(F)
  /\ Request("unmap", w) \in Rq(F) => w \notin Managed(F)
  /\ Request("focus", w) \in Rq(F) /\ w \in S.viewable => w \in Managed(F)
  /\ Event("MapRequest", w) \in Ev(F) =>
       /\ w \notin S.viewable \cup Managed(F) /\ Event("Unmap", w) \notin Ev(F)
       /\ \A q \in Rq(F) : q.win # w
  /\ Event("FocusIn", w) \in Ev(F) => w \in Managed(F)

\* fvwm knows which of the windows has got the focus, or it is going to be told
\* so, or it has asked for another focus, or it is going to learn that the window
\* that it takes for the focus has gone.
Follows(F, S) ==
  IF HasFocusIn(F)
  THEN /\ S.focus \in Windows => Told(F) = S.focus
       /\ S.focus = Nowhere => Event("Unmap", Told(F)) \in Ev(F)
  ELSE S.focus \in Windows \cup {Nowhere} =>
         \/ F.focus = S.focus
         \/ Event("Unmap", F.focus) \in Ev(F)
         \/ Asked(F) \/ Request("focus", None) \in Rq(F)

KeyInv(F, S) ==
  /\ MapsFirst(F.requests) /\ FocusFirst(F.events)
  /\ \A w \in Windows : Life(F, S, w)
  /\ Follows(F, S)

\* The requests that fvwm may make at any time.
LEMMA MayAskWhat ==
  ASSUME NEW q, NEW managed \in SUBSET Windows, MayAsk(q, managed), NEW w \in Windows
  PROVE  /\ q # Request("map", w) /\ q # Request("unmap", w)
         /\ q.win = w => w \in managed
         /\ q = Request("focus", w) => w \in managed
<1>1. q.op \in {"focus", "observe"} /\ (q.win \in managed \cup {NoFocusWin, None} \cup Unmanaged)
  BY DEF MayAsk
<1>2. q.win = w => w \in managed
  BY <1>1, PlacesDiffer
<1>3. q # Request("map", w) /\ q # Request("unmap", w)
  BY <1>1, RecordsDiffer
<1>4. q = Request("focus", w) => q.win = w
  BY RecordsDiffer
<1> QED
  BY <1>2, <1>3, <1>4

\* A life goes on when fvwm asks for a focus.
LEMMA LifeKept ==
  ASSUME NEW F, NEW G, NEW S, NEW T, NEW w \in Windows, Life(F, S, w), Keeps(F, G),
         Managed(F) \subseteq Windows,
         Event("Unmap", w) \in Ev(G) <=> Event("Unmap", w) \in Ev(F),
         Event("MapRequest", w) \in Ev(G) => Event("MapRequest", w) \in Ev(F),
         Event("FocusIn", w) \in Ev(G) => Event("FocusIn", w) \in Ev(F) \/ w \in Managed(F),
         w \in T.viewable <=> w \in S.viewable,
         w = T.focus => w \in T.viewable
  PROVE  Life(G, T, w)
<1>1. Managed(G) = Managed(F) /\ Rq(F) \subseteq Rq(G)
  BY DEF Keeps
<1>2. ASSUME NEW q \in Rq(G), q \notin Rq(F)
      PROVE  /\ q # Request("map", w) /\ q # Request("unmap", w)
             /\ q.win = w => w \in Managed(F)
             /\ q = Request("focus", w) => w \in Managed(F)
  <2>1. MayAsk(q, Managed(F))
    BY <1>2 DEF Keeps
  <2> QED
    BY <2>1, MayAskWhat
<1>3. /\ Request("map", w) \in Rq(G) <=> Request("map", w) \in Rq(F)
      /\ Request("unmap", w) \in Rq(G) <=> Request("unmap", w) \in Rq(F)
      /\ Request("focus", w) \in Rq(G) => Request("focus", w) \in Rq(F) \/ w \in Managed(F)
  BY <1>1, <1>2
<1>4. w \notin Managed(F) /\ (\A q \in Rq(F) : q.win # w) => \A q \in Rq(G) : q.win # w
  BY <1>2
<1> QED
  BY <1>1, <1>3, <1>4 DEF Life

\* What fvwm knows of the focus does not get worse when it asks for another.
LEMMA FollowsKept ==
  ASSUME NEW F, NEW G, NEW S, NEW T, Follows(F, S), T.focus = S.focus,
         HasFocusIn(G) <=> HasFocusIn(F),
         HasFocusIn(F) => Told(G) = Told(F),
         \A x : Request("focus", x) \in Rq(F) => Request("focus", x) \in Rq(G),
         \A x : Event("Unmap", x) \in Ev(F) => Event("Unmap", x) \in Ev(G),
         G.focus = F.focus \/ Asked(G)
  PROVE  Follows(G, T)
<1>1. CASE HasFocusIn(F)
  BY <1>1 DEF Follows
<1>2. CASE ~HasFocusIn(F)
  <2>1. G.focus = F.focus /\ Asked(F) => Asked(G)
    BY DEF Asked
  <2> QED
    BY <1>2, <2>1 DEF Follows
<1> QED
  BY <1>1, <1>2

\* fvwm sets the focus.
LEMMA PlainKeepsKey ==
  ASSUME NEW F, NEW G, NEW S, Sane(F, {}), KeyInv(F, S), Plain(F, G)
  PROVE  KeyInv(G, S)
<1>1. /\ Keeps(F, G) /\ G.events = F.events /\ Ev(G) = Ev(F) /\ F.events \in Seq(Events)
      /\ Managed(F) \subseteq Windows
  BY ManagedWindows DEF Plain, Ev, Sane, Fvwms
<1>2. MapsFirst(G.requests) /\ FocusFirst(G.events)
  BY <1>1 DEF KeyInv, Keeps
<1>3. ASSUME NEW w \in Windows PROVE Life(G, S, w)
  <2>1. Life(F, S, w)
    BY DEF KeyInv
  <2>2. w = S.focus => w \in S.viewable
    BY <2>1 DEF Life
  <2> QED
    BY <1>1, <2>1, <2>2, LifeKept
<1>4. Follows(G, S)
  <2>1. (HasFocusIn(G) <=> HasFocusIn(F)) /\ (HasFocusIn(F) => Told(G) = Told(F))
    BY <1>1, ToldSame
  <2>2. Rq(F) \subseteq Rq(G) /\ (G.focus = F.focus \/ Asked(G)) /\ Follows(F, S)
    BY DEF Plain, Keeps, KeyInv
  <2> QED
    BY <1>1, <2>1, <2>2, FollowsKept
<1> QED
  BY <1>2, <1>3, <1>4 DEF KeyInv

\* All FocusIn events have been taken.
LEMMA DrainedKeepsKey ==
  ASSUME NEW F, NEW G, NEW S, Sane(F, {}), KeyInv(F, S), Keeps(F, G), Drained(F, G),
         Follows(G, S)
  PROVE  KeyInv(G, S)
<1>1. Managed(F) \subseteq Windows /\ MapsFirst(G.requests) /\ FocusFirst(G.events)
  BY ManagedWindows DEF KeyInv, Sane, Fvwms, Keeps, Drained
<1>2. ASSUME NEW w \in Windows PROVE Life(G, S, w)
  <2>1. Life(F, S, w)
    BY DEF KeyInv
  <2>2. w = S.focus => w \in S.viewable
    BY <2>1 DEF Life
  <2>3. Ev(G) = {e \in Ev(F) : e.type # "FocusIn"}
    BY DEF Drained
  <2>4. /\ Event("Unmap", w) \in Ev(G) <=> Event("Unmap", w) \in Ev(F)
        /\ Event("MapRequest", w) \in Ev(G) => Event("MapRequest", w) \in Ev(F)
        /\ Event("FocusIn", w) \in Ev(G) => Event("FocusIn", w) \in Ev(F)
    BY <2>3, RecordsDiffer
  <2> QED
    BY <1>1, <2>1, <2>2, <2>4, LifeKept
<1> QED
  BY <1>1, <1>2 DEF KeyInv

\* fvwm hears who has got the focus.
LEMMA HeardKeepsKey ==
  ASSUME NEW F, NEW G, NEW S, Sane(F, {}), KeyInv(F, S), HasFocusIn(F), Heard(F, G, Told(F))
  PROVE  KeyInv(G, S)
<1> DEFINE w == Told(F)
<1>1. /\ Keeps(F, G) /\ Drained(F, G) /\ F.events \in Seq(Events)
      /\ w \in Managed(F) => G.focus = w \/ Asked(G) \/ Request("focus", None) \in Rq(G)
  BY DEF Heard, Sane, Fvwms
<1>2. Event("FocusIn", w) \in Ev(F)
  BY <1>1, ToldIsEvent
<1>3. w \in Windows => w \in Managed(F)
  BY <1>2 DEF KeyInv, Life
<1>4. Follows(F, S)
  BY DEF KeyInv
<1>5. ~HasFocusIn(G) /\ (Event("Unmap", w) \in Ev(F) => Event("Unmap", w) \in Ev(G))
  BY <1>1, RecordsDiffer DEF Drained
<1>6. Event("Unmap", w) \in Ev(F) => w \in Windows
  <2>1. \A e \in Ev(F) : e.type = "Unmap" => e.win \in Windows
    BY <1>1 DEF Ev, ToSet, Events
  <2> QED
    BY <2>1, RecordsDiffer
<1>7. Follows(G, S)
  <2> HIDE DEF w
  <2>1. /\ S.focus \in Windows => w = S.focus
        /\ S.focus = Nowhere => Event("Unmap", w) \in Ev(F)
    BY <1>4 DEF Follows, w
  <2>2. CASE S.focus \in Windows
    BY <1>1, <1>3, <1>5, <2>1, <2>2 DEF Follows
  <2>3. CASE S.focus = Nowhere
    BY <1>1, <1>3, <1>5, <1>6, <2>1, <2>3 DEF Follows
  <2>4. CASE S.focus \notin Windows \cup {Nowhere}
    BY <1>5, <2>4 DEF Follows
  <2> QED
    BY <2>2, <2>3, <2>4
<1> QED
  BY <1>1, <1>7, DrainedKeepsKey

\* A stolen focus is taken back.
LEMMA RefocusedKeepsKey ==
  ASSUME NEW F, NEW G, NEW S, Sane(F, {}), KeyInv(F, S), Refocused(F, G)
  PROVE  KeyInv(G, S)
<1>1. CASE HasFocusIn(F)
  BY <1>1, HeardKeepsKey DEF Refocused
<1>2. CASE ~HasFocusIn(F)
  <2>1. Keeps(F, G) /\ Drained(F, G) /\ Asked(G)
    BY <1>2 DEF Refocused
  <2>2. Follows(G, S)
    BY <2>1 DEF Follows, Drained
  <2> QED
    BY <2>1, <2>2, DrainedKeepsKey
<1> QED
  BY <1>1, <1>2

\* The user keeps fvwm informed of the focus, whatever is under way.
LEMMA UsedKeepsKey ==
  ASSUME NEW F, NEW G, NEW S, Sane(F, {}), KeyInv(F, S), Used(F, G)
  PROVE  KeyInv(G, S)
<1>1. PICK C : Plain(F, C) /\ (G = C \/ Refocused(C, G))
  BY DEF Used
<1>2. KeyInv(C, S) /\ Sane(C, {})
  BY <1>1, PlainKeepsKey DEF Plain
<1> QED
  BY <1>1, <1>2, RefocusedKeepsKey

\* An event is taken that says nothing of the focus or of the end of a window.
LEMMA TakenKeepsKey ==
  ASSUME NEW F, NEW R, NEW S, NEW e, Sane(F, {}), KeyInv(F, S), Taken(F, R, e),
         e.type \notin {"FocusIn", "Unmap"}
  PROVE  KeyInv(R, S)
<1>1. /\ Ev(F) = Ev(R) \cup {e} /\ R.requests = F.requests /\ R.focus = F.focus
      /\ Managed(R) = Managed(F) /\ Rq(R) = Rq(F) /\ FocusFirst(R.events)
      /\ Managed(F) \subseteq Windows
  BY ManagedWindows DEF Taken, SameButEvents, KeyInv, Sane, Fvwms
<1>2. \A x : Event("Unmap", x) # e /\ Event("FocusIn", x) # e
  BY RecordsDiffer
<1>3. ASSUME NEW w \in Windows PROVE Life(R, S, w)
  <2>1. Life(F, S, w) /\ Keeps(F, R)
    BY <1>1, KeepsSame DEF KeyInv
  <2>2. w = S.focus => w \in S.viewable
    BY <2>1 DEF Life
  <2> QED
    BY <1>1, <1>2, <2>1, <2>2, LifeKept
<1>4. Follows(R, S)
  <2>1. (HasFocusIn(R) <=> HasFocusIn(F)) /\ (HasFocusIn(F) => Told(R) = Told(F))
    BY DEF Taken
  <2>2. Follows(F, S)
    BY DEF KeyInv
  <2> QED
    BY <1>1, <1>2, <2>1, <2>2, FollowsKept
<1> QED
  BY <1>1, <1>3, <1>4 DEF KeyInv

\* A window is managed that asked for it.
LEMMA AdoptedKeepsKey ==
  ASSUME NEW F, NEW G, NEW S, NEW r \in Windows, Sane(F, {}), KeyInv(F, S), Adopted(F, G, r),
         r \notin S.viewable \cup Managed(F), Event("Unmap", r) \notin Ev(F),
         Event("MapRequest", r) \notin Ev(F), \A q \in Rq(F) : q.win # r
  PROVE  KeyInv(G, S)
<1>1. /\ Managed(G) = Managed(F) \cup {r} /\ G.events = F.events /\ Ev(G) = Ev(F)
      /\ Rq(F) \cup {Request("map", r)} \subseteq Rq(G)
      /\ MapsFirst(G.requests) /\ F.events \in Seq(Events) /\ Managed(F) \subseteq Windows
      /\ G.focus = F.focus \/ Asked(G)
  BY ManagedWindows DEF Adopted, Ev, KeyInv, Sane, Fvwms
<1>2. FocusFirst(G.events)
  BY <1>1 DEF KeyInv
<1>3. Request("map", r).win = r /\ Request("unmap", r).win = r
  BY RecordsDiffer
<1>4. ASSUME NEW q \in Rq(G), q \notin Rq(F) \cup {Request("map", r)}, NEW w \in Windows
      PROVE  /\ q # Request("map", w) /\ q # Request("unmap", w)
             /\ q.win = w => w \in Managed(G)
             /\ q = Request("focus", w) => w \in Managed(G)
  <2>1. MayAsk(q, Managed(G)) /\ Managed(G) \subseteq Windows
    BY <1>1, <1>4 DEF Adopted
  <2> QED
    BY <2>1, MayAskWhat
<1>5. Life(G, S, r)
  <2>1. S.focus # r /\ Event("FocusIn", r) \notin Ev(F)
    BY DEF KeyInv, Life
  <2>2. Request("unmap", r) \notin Rq(G)
    <3>1. Request("unmap", r) \notin Rq(F) /\ Request("unmap", r) # Request("map", r)
      BY <1>3, RecordsDiffer
    <3> QED
      BY <1>4, <3>1
  <2> QED
    BY <1>1, <2>1, <2>2 DEF Life
<1>6. ASSUME NEW w \in Windows, w # r PROVE Life(G, S, w)
  <2>1. Life(F, S, w)
    BY DEF KeyInv
  <2>2. \A t : Request(t, w) # Request("map", r)
    BY <1>6, RecordsDiffer
  <2>3. w \in Managed(G) <=> w \in Managed(F)
    BY <1>1, <1>6
  <2>4. /\ Request("map", w) \in Rq(G) <=> Request("map", w) \in Rq(F)
        /\ Request("unmap", w) \in Rq(G) <=> Request("unmap", w) \in Rq(F)
        /\ Request("focus", w) \in Rq(G) => Request("focus", w) \in Rq(F) \/ w \in Managed(F)
    BY <1>1, <1>4, <2>2, <2>3
  <2>5. w \notin Managed(F) /\ (\A q \in Rq(F) : q.win # w) => \A q \in Rq(G) : q.win # w
    BY <1>3, <1>4, <1>6, <2>3
  <2> QED
    BY <1>1, <2>1, <2>3, <2>4, <2>5 DEF Life
<1>7. Follows(G, S)
  <2>1. (HasFocusIn(G) <=> HasFocusIn(F)) /\ (HasFocusIn(F) => Told(G) = Told(F))
    BY <1>1, ToldSame
  <2>2. Follows(F, S)
    BY DEF KeyInv
  <2> QED
    BY <1>1, <2>1, <2>2, FollowsKept
<1> QED
  BY <1>1, <1>2, <1>5, <1>6, <1>7 DEF KeyInv

\* A window is destroyed.
LEMMA DestroyedKeepsKey ==
  ASSUME NEW F, NEW G, NEW S, NEW r \in Managed(F), Sane(F, {}), Destroyed(F, G, r),
         MapsFirst(F.requests), FocusFirst(F.events),
         \A w \in Windows \ {r} : Life(F, S, w),
         r = S.focus => r \in S.viewable,
         Event("Unmap", r) \in Ev(F) => r \notin S.viewable,
         Request("map", r) \notin Rq(F), Event("FocusIn", r) \notin Ev(F),
         Request("focus", r) \in Rq(G) => r \notin S.viewable,
         Follows(G, S)
  PROVE  KeyInv(G, S)
<1>1. /\ Managed(G) = Managed(F) \ {r} /\ G.events = F.events /\ Ev(G) = Ev(F)
      /\ Rq(F) \cup {Request("unmap", r)} \subseteq Rq(G)
      /\ MapsFirst(G.requests) /\ FocusFirst(G.events)
      /\ Managed(F) \subseteq Windows /\ r \in Windows
      /\ Event("MapRequest", r) \notin Ev(F)
  BY ManagedWindows DEF Destroyed, Ev, Sane, Fvwms
<1>2. ASSUME NEW q \in Rq(G), q \notin Rq(F) \cup {Request("unmap", r)}, NEW w \in Windows
      PROVE  /\ q # Request("map", w) /\ q # Request("unmap", w)
             /\ q.win = w => w \in Managed(F)
             /\ q = Request("focus", w) => w \in Managed(F)
  <2>1. MayAsk(q, Managed(F))
    BY <1>2 DEF Destroyed
  <2> QED
    BY <1>1, <2>1, MayAskWhat
<1>3. Life(G, S, r)
  <2>1. Request("map", r) # Request("unmap", r)
    BY RecordsDiffer
  <2>2. Request("map", r) \notin Rq(G)
    BY <1>1, <1>2, <2>1
  <2> QED
    BY <1>1, <2>2 DEF Life
<1>4. ASSUME NEW w \in Windows, w # r PROVE Life(G, S, w)
  <2>1. Life(F, S, w)
    BY <1>4
  <2>2. (\A t : Request(t, w) # Request("unmap", r)) /\ Request("unmap", r).win # w
    BY <1>4, RecordsDiffer
  <2>3. w \in Managed(G) <=> w \in Managed(F)
    BY <1>1, <1>4
  <2>4. /\ Request("map", w) \in Rq(G) <=> Request("map", w) \in Rq(F)
        /\ Request("unmap", w) \in Rq(G) <=> Request("unmap", w) \in Rq(F)
        /\ Request("focus", w) \in Rq(G) => Request("focus", w) \in Rq(F) \/ w \in Managed(F)
    BY <1>1, <1>2, <2>2
  <2>5. w \notin Managed(F) /\ (\A q \in Rq(F) : q.win # w) => \A q \in Rq(G) : q.win # w
    BY <1>2, <2>2
  <2> QED
    BY <1>1, <2>1, <2>3, <2>4, <2>5 DEF Life
<1> QED
  BY <1>1, <1>3, <1>4 DEF KeyInv

\* What fvwm knows of the focus when it learns that r has gone.
LEMMA UnmapFollows ==
  ASSUME NEW F, NEW R, NEW G, NEW S, NEW e, Sane(F, {}), KeyInv(F, S), Taken(F, R, e),
         e.type = "Unmap", G.events = R.events, Rq(R) \subseteq Rq(G),
         IF R.focus = e.win THEN Asked(G) ELSE G.focus = R.focus
  PROVE  Follows(G, S)
<1> DEFINE r == e.win
<1>1. /\ Ev(F) = Ev(R) \cup {e} /\ Ev(G) = Ev(R) /\ R.focus = F.focus /\ Rq(R) = Rq(F)
      /\ R.events \in Seq(Events) /\ e = Event("Unmap", r)
      /\ Event("FocusIn", r) \notin Ev(R)
  BY RecordsDiffer DEF Taken, SameButEvents, KeyInv, Sane, Fvwms, Ev
<1>2. /\ HasFocusIn(R) <=> HasFocusIn(F)
      /\ HasFocusIn(F) => Told(R) = Told(F)
  BY DEF Taken
<1>3. (HasFocusIn(G) <=> HasFocusIn(R)) /\ (HasFocusIn(R) => Told(G) = Told(R))
  BY <1>1, ToldSame
<1>4. HasFocusIn(R) => Event("FocusIn", Told(R)) \in Ev(R)
  BY <1>1, ToldIsEvent
<1>5. Follows(F, S)
  BY DEF KeyInv
<1> HIDE DEF r
<1>6. \A x : x # r /\ Event("Unmap", x) \in Ev(F) => Event("Unmap", x) \in Ev(G)
  BY <1>1, RecordsDiffer
<1>7. CASE HasFocusIn(F)
  <2>1. Told(G) = Told(F) /\ Told(F) # r
    BY <1>1, <1>2, <1>3, <1>4, <1>7
  <2> QED
    BY <1>2, <1>3, <1>5, <1>6, <1>7, <2>1 DEF Follows
<1>8. CASE ~HasFocusIn(F)
  <2>1. CASE R.focus = r
    <3>1. Asked(G) /\ ~HasFocusIn(G)
      BY <1>2, <1>3, <1>8, <2>1 DEF r
    <3> QED
      BY <3>1 DEF Follows
  <2>2. CASE R.focus # r
    <3>1. G.focus = F.focus /\ F.focus # r /\ ~HasFocusIn(G)
      BY <1>1, <1>2, <1>3, <1>8, <2>2 DEF r
    <3>2. Asked(F) => Asked(G)
      BY <1>1, <3>1 DEF Asked
    <3> QED
      BY <1>1, <1>5, <1>6, <1>8, <3>1, <3>2 DEF Follows
  <2> QED
    BY <2>1, <2>2
<1> QED
  BY <1>7, <1>8

\* fvwm handles an event.
LEMMA DispatchedKeepsKey ==
  ASSUME NEW F, NEW R, NEW G, NEW S, NEW e, Sane(F, {}), KeyInv(F, S),
         Taken(F, R, e), Dispatched(F, R, G, e)
  PROVE  KeyInv(G, S)
<1> DEFINE r == e.win
<1>1. /\ e \in Events /\ Ev(F) = Ev(R) \cup {e} /\ Managed(R) = Managed(F) /\ Rq(R) = Rq(F)
      /\ R.requests = F.requests /\ R.focus = F.focus /\ Sane(R, {}) /\ FocusFirst(R.events)
      /\ Managed(F) \subseteq Windows
  BY ManagedWindows DEF Taken, SameButEvents, KeyInv, Sane, Fvwms
<1>2. CASE e.type = "FocusIn" /\ Heard(F, G, Told(F))
  <2>1. HasFocusIn(F)
    BY <1>2 DEF Taken
  <2> QED
    BY <1>2, <2>1, HeardKeepsKey
<1>3. CASE e.type = "FocusOut" /\ (G = R \/ Refocused(R, G))
  BY <1>1, <1>3, TakenKeepsKey, RefocusedKeepsKey
<1>4. CASE e.type = "MapRequest" /\ Adopted(R, G, r)
  <2>1. KeyInv(R, S)
    BY <1>4, TakenKeepsKey
  <2>2. r \in Windows /\ e \notin Ev(R) /\ e = Event("MapRequest", r) /\ e \in Ev(F)
    BY <1>1, <1>4, RecordsDiffer DEF Taken
  <2>3. /\ r \notin S.viewable \cup Managed(R) /\ Event("Unmap", r) \notin Ev(R)
        /\ \A q \in Rq(R) : q.win # r
    BY <1>1, <2>2 DEF KeyInv, Life
  <2> QED
    BY <1>1, <1>4, <2>1, <2>2, <2>3, AdoptedKeepsKey
<1>5. CASE e.type = "Map" /\ Plain(R, G)
  BY <1>1, <1>5, TakenKeepsKey, PlainKeepsKey
<1>6. ASSUME e.type = "Unmap"
      PROVE  /\ e = Event("Unmap", r) /\ r \in Windows /\ Event("FocusIn", r) \notin Ev(R)
             /\ r \notin S.viewable /\ Request("map", r) \notin Rq(R)
             /\ \A w \in Windows \ {r} : Life(R, S, w)
             /\ r # S.focus
  <2>1. e = Event("Unmap", r) /\ r \in Windows /\ Event("FocusIn", r) \notin Ev(R)
    BY <1>1, <1>6, RecordsDiffer DEF Taken, Events, KeyInv
  <2>2. r \notin S.viewable /\ Request("map", r) \notin Rq(R) /\ r # S.focus
    BY <1>1, <2>1 DEF KeyInv, Life
  <2>3. ASSUME NEW w \in Windows, w # r PROVE Life(R, S, w)
    <3>1. Life(F, S, w) /\ Keeps(F, R)
      BY <1>1, KeepsSame DEF KeyInv
    <3>2. \A t : Event(t, w) \in Ev(R) <=> Event(t, w) \in Ev(F)
      BY <1>1, <2>1, <2>3, RecordsDiffer
    <3>3. w = S.focus => w \in S.viewable
      BY <3>1 DEF Life
    <3> QED
      BY <1>1, <3>1, <3>2, <3>3, LifeKept
  <2> QED
    BY <2>1, <2>2, <2>3
<1>7. CASE e.type = "Unmap" /\ r \notin Managed(R) /\ G = R
  <2>1. Follows(R, S)
    <3>1. F.focus # r
      BY <1>1, <1>6, <1>7, PlacesDiffer DEF Sane
    <3> QED
      BY <1>1, <1>7, <3>1, UnmapFollows
  <2>2. Life(R, S, r)
    <3>1. Life(F, S, r)
      BY <1>6, <1>7 DEF KeyInv
    <3>2. \A x : Event(x, r) \in Ev(R) => Event(x, r) \in Ev(F)
      BY <1>1
    <3> QED
      BY <1>1, <1>7, <3>1, <3>2 DEF Life
  <2>3. MapsFirst(R.requests)
    BY <1>1 DEF KeyInv
  <2> QED
    BY <1>1, <1>6, <1>7, <2>1, <2>2, <2>3 DEF KeyInv
<1>8. CASE e.type = "Unmap" /\ r \in Managed(R) /\ Destroyed(R, G, r)
  <2>1. G.events = R.events /\ Rq(R) \subseteq Rq(G) /\ IF R.focus = r THEN Asked(G) ELSE G.focus = R.focus
    BY <1>8 DEF Destroyed
  <2>2. Follows(G, S)
    BY <1>8, <2>1, UnmapFollows
  <2>3. MapsFirst(R.requests)
    BY <1>1 DEF KeyInv
  <2> QED
    BY <1>1, <1>6, <1>8, <2>2, <2>3, DestroyedKeepsKey
<1> QED
  BY <1>2, <1>3, <1>4, <1>5, <1>7, <1>8 DEF Dispatched

\* A request for the focus is refused.
LEMMA RefusalKeepsKey ==
  ASSUME NEW F, NEW R, NEW S, NEW q, Sane(F, {}), KeyInv(F, S), Sent(F, R, q),
         q.op = "focus", ~MayHaveFocus(S, q.win)
  PROVE  KeyInv(R, S)
<1> DEFINE x == q.win
<1>1. /\ Ev(R) = Ev(F) /\ R.events = F.events /\ R.focus = F.focus /\ Managed(R) = Managed(F)
      /\ Rq(F) = Rq(R) \cup {q} /\ MapsFirst(R.requests) /\ Request("map", x) \notin Rq(R)
      /\ q = Request("focus", x) /\ F.events \in Seq(Events)
      /\ F.focus \in Managed(F) \cup {None} /\ Managed(F) \subseteq Windows
  BY ManagedWindows, RecordsDiffer DEF Sent, KeyInv, Ev, Sane, Fvwms
<1>2. x \notin S.viewable /\ x # NoFocusWin /\ x # None
  BY DEF MayHaveFocus
<1> HIDE DEF x
<1>3. /\ \A w : Request("map", w) # q /\ Request("unmap", w) # q
      /\ \A w : Request("focus", w) = q => w = x
  BY <1>1, RecordsDiffer
<1>4. ASSUME NEW w \in Windows PROVE Life(R, S, w)
  <2>1. Life(F, S, w)
    BY DEF KeyInv
  <2>2. /\ Request("map", w) \in Rq(R) <=> Request("map", w) \in Rq(F)
        /\ Request("unmap", w) \in Rq(R) <=> Request("unmap", w) \in Rq(F)
        /\ Request("focus", w) \in Rq(R) => Request("focus", w) \in Rq(F)
    BY <1>1, <1>3
  <2>3. Rq(R) \subseteq Rq(F)
    BY <1>1
  <2> QED
    BY <1>1, <2>1, <2>2, <2>3 DEF Life
<1>5. Follows(R, S)
  <2>1. (HasFocusIn(R) <=> HasFocusIn(F)) /\ (HasFocusIn(F) => Told(R) = Told(F))
    BY <1>1, ToldSame
  <2>2. Follows(F, S)
    BY DEF KeyInv
  <2>3. CASE F.focus = x
    <3>1. x \in Windows /\ x \in Managed(F)
      BY <1>1, <1>2, <2>3
    <3>2. Life(F, S, x)
      BY <3>1 DEF KeyInv
    <3>3. Request("map", x) \notin Rq(F)
      BY <1>1, <1>3
    <3>4. Event("Unmap", x) \in Ev(F)
      BY <1>2, <3>1, <3>2, <3>3 DEF Life
    <3> QED
      BY <1>1, <2>1, <2>2, <2>3, <3>4 DEF Follows
  <2>4. CASE F.focus # x
    <3>1. Asked(F) => Asked(R)
      <4>1. (IF F.focus = None THEN NoFocusWin ELSE F.focus) # x
        BY <1>2, <2>4
      <4> QED
        BY <1>1, <1>3, <4>1 DEF Asked
    <3>2. Request("focus", None) \in Rq(F) => Request("focus", None) \in Rq(R)
      BY <1>1, <1>2, <1>3
    <3> QED
      BY <1>1, <2>1, <2>2, <3>1, <3>2 DEF Follows
  <2> QED
    BY <2>3, <2>4
<1>6. FocusFirst(R.events)
  BY <1>1 DEF KeyInv
<1> QED
  BY <1>1, <1>4, <1>5, <1>6 DEF KeyInv

\* A window gets the focus, and fvwm hears of it.  R: without the request, if it
\* was fvwm's.
LEMMA InformedKeepsKey ==
  ASSUME NEW R, NEW G, NEW S, NEW T, NEW x \in Windows \cup Unmanaged \cup {NoFocusWin, None},
         Sane(R, {}), Placed(S), Informed(R, G, S, x),
         MapsFirst(R.requests), FocusFirst(R.events), \A w \in Windows : Life(R, S, w),
         MayHaveFocus(S, x), x \in Windows => x \in Managed(R),
         x = S.focus => Follows(R, S), T = [S EXCEPT !.focus = x]
  PROVE  KeyInv(G, T)
<1>1. /\ Ev(R) \subseteq Ev(G) /\ Managed(G) = Managed(R) /\ G.requests = R.requests
      /\ Rq(G) = Rq(R) /\ G.focus = R.focus /\ Managed(R) \subseteq Windows
      /\ R.events \in Seq(Events)
      /\ \A e \in Ev(G) \ Ev(R) : e.type = "FocusOut" \/ e = Event("FocusIn", x)
  BY ManagedWindows DEF Informed, SameButEvents, Sane, Fvwms
<1>2. T.focus = x /\ T.viewable = S.viewable
  <2>1. x \in Focusable \cup {Root, Nowhere, None}
    BY DEF Focusable
  <2> QED
    BY <2>1, FocusPlaced
<1>3. \A w : /\ Event("Unmap", w) \in Ev(G) <=> Event("Unmap", w) \in Ev(R)
             /\ Event("MapRequest", w) \in Ev(G) <=> Event("MapRequest", w) \in Ev(R)
             /\ Event("FocusIn", w) \in Ev(G) => Event("FocusIn", w) \in Ev(R) \/ w = x
  BY <1>1, RecordsDiffer
<1>4. x \in Windows => x \in S.viewable
  BY PlacesDiffer DEF MayHaveFocus
<1>5. Event("Unmap", x) \notin Ev(R)
  <2>1. CASE x \in Windows
    BY <1>4, <2>1 DEF Life
  <2>2. CASE x \notin Windows
    <3>1. \A e \in Ev(R) : e.type = "Unmap" => e.win \in Windows
      BY <1>1 DEF Ev, ToSet, Events
    <3> QED
      BY <2>2, <3>1, RecordsDiffer
  <2> QED
    BY <2>1, <2>2
<1>6. FocusFirst(G.events) /\ MapsFirst(G.requests)
  BY <1>1, <1>5 DEF Informed
<1>7. ASSUME NEW w \in Windows PROVE Life(G, T, w)
  <2>1. Life(R, S, w) /\ Keeps(R, G)
    BY <1>1, KeepsSame
  <2>2. w = T.focus => w \in T.viewable
    BY <1>2, <1>4
  <2>3. Event("FocusIn", w) \in Ev(G) => Event("FocusIn", w) \in Ev(R) \/ w \in Managed(R)
    BY <1>3
  <2>4. w \in T.viewable <=> w \in S.viewable
    BY <1>2
  <2> QED
    BY <1>1, <1>3, <2>1, <2>2, <2>3, <2>4, LifeKept
<1>8. x # Nowhere
  BY PlacesDiffer
<1>9. Follows(G, T)
  <2>1. CASE x # S.focus /\ Observed(S, R, x)
    <3>1. HasFocusIn(G) /\ Told(G) = x
      BY <2>1 DEF Informed
    <3> QED
      BY <1>2, <1>8, <3>1 DEF Follows
  <2>2. CASE x = S.focus
    <3>1. (HasFocusIn(G) <=> HasFocusIn(R)) /\ (HasFocusIn(R) => Told(G) = Told(R))
      BY <2>2 DEF Informed
    <3>2. Follows(R, S) /\ T.focus = S.focus
      BY <1>2, <2>2
    <3> QED
      BY <1>1, <1>3, <3>1, <3>2, FollowsKept
  <2>3. CASE x # S.focus /\ ~Observed(S, R, x)
    <3>1. x \notin Windows
      BY <2>3 DEF Observed
    <3> QED
      BY <1>2, <1>8, <3>1 DEF Follows
  <2> QED
    BY <2>1, <2>2, <2>3
<1> QED
  BY <1>6, <1>7, <1>9 DEF KeyInv

\* A request for the focus is granted.
LEMMA GrantKeepsKey ==
  ASSUME NEW F, NEW R, NEW G, NEW S, NEW T, NEW q, Sane(F, {}), Placed(S), KeyInv(F, S),
         Sent(F, R, q), q.op = "focus", MayHaveFocus(S, q.win), Informed(R, G, S, q.win),
         T = [S EXCEPT !.focus = q.win]
  PROVE  KeyInv(G, T)
<1> DEFINE x == q.win
<1>1. /\ Ev(R) = Ev(F) /\ R.events = F.events /\ R.focus = F.focus /\ Managed(R) = Managed(F)
      /\ Rq(F) = Rq(R) \cup {q} /\ MapsFirst(R.requests)
      /\ q = Request("focus", x) /\ F.events \in Seq(Events) /\ Sane(R, {})
      /\ F.focus \in Managed(F) \cup {None} /\ Managed(F) \subseteq Windows
  BY ManagedWindows, RecordsDiffer DEF Sent, KeyInv, Ev, Sane, Fvwms
<1>2. x \in Windows \cup Unmanaged \cup {NoFocusWin, None}
  BY DEF Sent, Requests
<1>3. /\ \A w : Request("map", w) # q /\ Request("unmap", w) # q
      /\ \A w : Request("focus", w) = q => w = x
  BY <1>1, RecordsDiffer
<1>4. ASSUME NEW w \in Windows PROVE Life(R, S, w)
  <2>1. Life(F, S, w)
    BY DEF KeyInv
  <2>2. /\ Request("map", w) \in Rq(R) <=> Request("map", w) \in Rq(F)
        /\ Request("unmap", w) \in Rq(R) <=> Request("unmap", w) \in Rq(F)
        /\ Request("focus", w) \in Rq(R) => Request("focus", w) \in Rq(F)
    BY <1>1, <1>3
  <2>3. Rq(R) \subseteq Rq(F)
    BY <1>1
  <2> QED
    BY <1>1, <2>1, <2>2, <2>3 DEF Life
<1>5. x \in Windows => x \in Managed(R)
  <2>1. x \in Windows => x \in S.viewable
    BY PlacesDiffer DEF MayHaveFocus
  <2>2. Request("focus", x) \in Rq(F)
    BY <1>1
  <2> QED
    BY <1>1, <2>1, <2>2 DEF KeyInv, Life
<1>6. x = S.focus => Follows(R, S)
  <2>1. (HasFocusIn(R) <=> HasFocusIn(F)) /\ (HasFocusIn(F) => Told(R) = Told(F))
    BY <1>1, ToldSame
  <2>2. Follows(F, S)
    BY DEF KeyInv
  <2>3. ASSUME x = S.focus, x \in Windows, Asked(F) PROVE F.focus = S.focus \/ Asked(R)
    BY <1>1, <1>3, <2>3, PlacesDiffer DEF Asked
  <2>4. x \in Windows /\ Request("focus", None) \in Rq(F) => Request("focus", None) \in Rq(R)
    BY <1>1, <1>3, PlacesDiffer
  <2>5. x \in Windows => FocusFirst(R.events)
    BY <1>1 DEF KeyInv
  <2>6. x # Nowhere
    BY <1>2, PlacesDiffer
  <2> HIDE DEF x
  <2>7. CASE x \notin Windows
    BY <1>1, <2>1, <2>2, <2>6, <2>7 DEF Follows
  <2>8. CASE x \in Windows
    BY <1>1, <2>1, <2>2, <2>3, <2>4, <2>8 DEF Follows
  <2> QED
    BY <2>7, <2>8
<1>7. FocusFirst(R.events)
  BY <1>1 DEF KeyInv
<1> QED
  BY <1>1, <1>2, <1>4, <1>5, <1>6, <1>7, InformedKeepsKey

\* A window is mapped.
LEMMA MapKeepsKey ==
  ASSUME NEW F, NEW R, NEW G, NEW S, NEW T, NEW q, Sane(F, {}), Placed(S), KeyInv(F, S),
         Sent(F, R, q), q.op = "map", Posted(R, G, Event("Map", q.win)),
         T = [S EXCEPT !.viewable = @ \cup {q.win}]
  PROVE  KeyInv(G, T)
<1> DEFINE x == q.win
           e == Event("Map", x)
<1>1. /\ Ev(R) = Ev(F) /\ R.events = F.events /\ R.focus = F.focus /\ Managed(R) = Managed(F)
      /\ Rq(F) = Rq(R) \cup {q} /\ MapsFirst(R.requests) /\ Request("map", x) \notin Rq(R)
      /\ q = Request("map", x) /\ F.events \in Seq(Events) /\ Sane(R, {}) /\ x \in Windows
  BY RecordsDiffer DEF Sent, KeyInv, Ev, Sane, Fvwms, Requests
<1>2. /\ Ev(G) = Ev(R) \cup {e} /\ Managed(G) = Managed(R) /\ Rq(G) = Rq(R)
      /\ G.requests = R.requests /\ G.focus = R.focus /\ e.type = "Map" /\ e.win = x
      /\ (HasFocusIn(G) <=> HasFocusIn(R)) /\ (HasFocusIn(R) => Told(G) = Told(R))
  BY RecordsDiffer DEF Posted, SameButEvents
<1>3. FocusFirst(G.events) /\ MapsFirst(G.requests)
  BY <1>1, <1>2 DEF KeyInv, Posted
<1>4. T.focus = S.focus /\ T.viewable = S.viewable \cup {x}
  BY <1>1, ViewPlaced
<1> HIDE DEF x, e
<1>5. /\ \A t, w : Event(t, w) \in Ev(F) => Event(t, w) \in Ev(G)
      /\ \A w : /\ Event("Unmap", w) \in Ev(G) => Event("Unmap", w) \in Ev(F)
                /\ Event("MapRequest", w) \in Ev(G) => Event("MapRequest", w) \in Ev(F)
                /\ Event("FocusIn", w) \in Ev(G) => Event("FocusIn", w) \in Ev(F)
  BY <1>1, <1>2, RecordsDiffer
<1>6. /\ \A w : Request("unmap", w) # q /\ Request("focus", w) # q
      /\ \A w : Request("map", w) = q => w = x
      /\ q.win = x
  BY <1>1, RecordsDiffer DEF x
<1>7. ASSUME NEW w \in Windows PROVE Life(G, T, w)
  <2>1. Life(F, S, w)
    BY DEF KeyInv
  <2>2. /\ Request("unmap", w) \in Rq(G) <=> Request("unmap", w) \in Rq(F)
        /\ Request("focus", w) \in Rq(G) <=> Request("focus", w) \in Rq(F)
        /\ Request("map", w) \in Rq(G) => Request("map", w) \in Rq(F)
        /\ w # x => (Request("map", w) \in Rq(G) <=> Request("map", w) \in Rq(F))
    BY <1>1, <1>2, <1>6
  <2>3. CASE w = x
    <3>1. /\ Request("map", w) \in Rq(F) /\ Request("map", w) \notin Rq(G)
          /\ w \in Managed(F) /\ w \notin S.viewable
          /\ Event("Unmap", w) \notin Ev(F) /\ Event("MapRequest", w) \notin Ev(F)
      BY <1>1, <1>2, <1>6, <2>1, <2>3 DEF Life
    <3> QED
      BY <1>1, <1>2, <1>4, <1>5, <2>1, <2>2, <2>3, <3>1 DEF Life
  <2>4. CASE w # x
    <3>1. w \in T.viewable <=> w \in S.viewable
      BY <1>4, <2>4
    <3>2. Rq(G) \subseteq Rq(F) /\ Managed(G) = Managed(F)
      BY <1>1, <1>2
    <3> QED
      BY <1>4, <1>5, <2>1, <2>2, <2>4, <3>1, <3>2 DEF Life
  <2> QED
    BY <2>3, <2>4
<1>8. Follows(G, T)
  <2>1. (HasFocusIn(R) <=> HasFocusIn(F)) /\ (HasFocusIn(F) => Told(R) = Told(F))
    BY <1>1, ToldSame
  <2>2. Follows(F, S)
    BY DEF KeyInv
  <2>3. \A y : Request("focus", y) \in Rq(F) => Request("focus", y) \in Rq(G)
    BY <1>1, <1>2, <1>6
  <2>4. (HasFocusIn(G) <=> HasFocusIn(F)) /\ (HasFocusIn(F) => Told(G) = Told(F))
    BY <1>2, <2>1
  <2> QED
    BY <1>1, <1>2, <1>4, <1>5, <2>2, <2>3, <2>4, FollowsKept
<1> QED
  BY <1>3, <1>7, <1>8 DEF KeyInv

\* A window that fvwm has destroyed is unmapped.
LEMMA UnmapKeepsKey ==
  ASSUME NEW F, NEW R, NEW S, NEW q, Sane(F, {}), Placed(S), KeyInv(F, S),
         Sent(F, R, q), q.op = "unmap"
  PROVE  KeyInv(R, Hide(S, q.win))
<1> DEFINE x == q.win
           T == Hide(S, x)
<1>1. /\ Ev(R) = Ev(F) /\ R.events = F.events /\ R.focus = F.focus /\ Managed(R) = Managed(F)
      /\ Rq(F) = Rq(R) \cup {q} /\ MapsFirst(R.requests)
      /\ q = Request("unmap", x) /\ F.events \in Seq(Events) /\ x \in Windows
      /\ F.focus \in Managed(F) \cup {None}
  BY RecordsDiffer DEF Sent, KeyInv, Ev, Sane, Fvwms, Requests
<1>2. /\ T.viewable = S.viewable \ {x}
      /\ S.focus # x => T.focus = S.focus
      /\ S.focus = x => T.focus = Nowhere
  BY <1>1, HideDoes
<1>3. x \notin Managed(F)
  BY <1>1 DEF KeyInv, Life
<1> HIDE DEF x, T
<1>4. /\ \A w : Request("map", w) # q /\ Request("focus", w) # q
      /\ \A w : Request("unmap", w) = q => w = x
  BY <1>1, RecordsDiffer
<1>5. ASSUME NEW w \in Windows PROVE Life(R, T, w)
  <2>1. Life(F, S, w)
    BY DEF KeyInv
  <2>2. /\ Request("map", w) \in Rq(R) <=> Request("map", w) \in Rq(F)
        /\ Request("unmap", w) \in Rq(R) => Request("unmap", w) \in Rq(F)
        /\ w # x => (Request("unmap", w) \in Rq(R) <=> Request("unmap", w) \in Rq(F))
        /\ Request("focus", w) \in Rq(R) <=> Request("focus", w) \in Rq(F)
    BY <1>1, <1>4
  <2>3. Rq(R) \subseteq Rq(F)
    BY <1>1
  <2>4. w # x => (w \in T.viewable <=> w \in S.viewable)
    BY <1>2
  <2>5. w = x => w \notin T.viewable /\ w \notin Managed(F)
    BY <1>2, <1>3
  <2>6. w = T.focus => w = S.focus /\ w # x
    BY <1>2, PlacesDiffer
  <2> QED
    BY <1>1, <2>1, <2>2, <2>3, <2>4, <2>5, <2>6 DEF Life
<1>6. Follows(R, T)
  <2>1. (HasFocusIn(R) <=> HasFocusIn(F)) /\ (HasFocusIn(F) => Told(R) = Told(F))
    BY <1>1, ToldSame
  <2>2. Follows(F, S)
    BY DEF KeyInv
  <2>3. \A y : Request("focus", y) \in Rq(F) => Request("focus", y) \in Rq(R)
    BY <1>1, <1>4
  <2>4. CASE S.focus # x
    BY <1>1, <1>2, <2>1, <2>2, <2>3, <2>4, FollowsKept
  <2>5. CASE S.focus = x
    <3>1. ~HasFocusIn(F)
      <4>1. SUFFICES ASSUME HasFocusIn(F) PROVE FALSE
        OBVIOUS
      <4>2. Told(F) = x /\ Event("FocusIn", Told(F)) \in Ev(F)
        BY <1>1, <2>2, <2>5, <4>1, ToldIsEvent DEF Follows
      <4> QED
        BY <1>1, <1>3, <4>2 DEF KeyInv, Life
    <3>2. F.focus # x
      BY <1>1, <1>3, PlacesDiffer
    <3>3. Event("Unmap", F.focus) \in Ev(F) \/ Asked(F) \/ Request("focus", None) \in Rq(F)
      BY <1>1, <2>2, <2>5, <3>1, <3>2 DEF Follows
    <3>4. Asked(F) => Asked(R)
      BY <1>1, <2>3 DEF Asked
    <3> QED
      BY <1>1, <2>1, <2>3, <3>1, <3>3, <3>4 DEF Follows
  <2> QED
    BY <2>4, <2>5
<1>7. FocusFirst(R.events)
  BY <1>1 DEF KeyInv
<1> QED
  BY <1>1, <1>5, <1>6, <1>7 DEF KeyInv, T, x

\* A window that fvwm does not manage is observed.
LEMMA ObserveKeepsKey ==
  ASSUME NEW F, NEW R, NEW S, NEW T, NEW q, Sane(F, {}), Placed(S), KeyInv(F, S),
         Sent(F, R, q), q.op = "observe", T.focus = S.focus, T.viewable = S.viewable
  PROVE  KeyInv(R, T)
<1>1. /\ Ev(R) = Ev(F) /\ R.events = F.events /\ R.focus = F.focus /\ Managed(R) = Managed(F)
      /\ Rq(F) = Rq(R) \cup {q} /\ MapsFirst(R.requests) /\ FocusFirst(R.events)
      /\ q = Request("observe", q.win) /\ F.events \in Seq(Events)
  BY RecordsDiffer DEF Sent, KeyInv, Ev, Sane, Fvwms
<1>2. \A t, w : t # "observe" => (Request(t, w) \in Rq(R) <=> Request(t, w) \in Rq(F))
  BY <1>1, RecordsDiffer
<1>3. ASSUME NEW w \in Windows PROVE Life(R, T, w)
  <2>1. Life(F, S, w)
    BY DEF KeyInv
  <2>2. /\ Request("map", w) \in Rq(R) <=> Request("map", w) \in Rq(F)
        /\ Request("unmap", w) \in Rq(R) <=> Request("unmap", w) \in Rq(F)
        /\ Request("focus", w) \in Rq(R) <=> Request("focus", w) \in Rq(F)
        /\ Rq(R) \subseteq Rq(F)
    BY <1>1, <1>2
  <2> QED
    BY <1>1, <2>1, <2>2 DEF Life
<1>4. Follows(R, T)
  <2>1. (HasFocusIn(R) <=> HasFocusIn(F)) /\ (HasFocusIn(F) => Told(R) = Told(F))
    BY <1>1, ToldSame
  <2>2. Follows(F, S)
    BY DEF KeyInv
  <2> QED
    BY <1>1, <1>2, <2>1, <2>2, FollowsKept
<1> QED
  BY <1>1, <1>3, <1>4 DEF KeyInv

\* The server executes a request.
LEMMA ServedKeepsKey ==
  ASSUME NEW F, NEW R, NEW G, NEW S, NEW T, NEW q, Sane(F, {}), Placed(S), KeyInv(F, S),
         Sent(F, R, q), Served(R, G, S, T, q)
  PROVE  KeyInv(G, T)
<1>1. CASE q.op = "focus" /\ ~MayHaveFocus(S, q.win) /\ G = R /\ T = S
  BY <1>1, RefusalKeepsKey
<1>2. CASE /\ q.op = "focus" /\ MayHaveFocus(S, q.win)
           /\ Informed(R, G, S, q.win) /\ T = [S EXCEPT !.focus = q.win]
  BY <1>2, GrantKeepsKey
<1>3. CASE /\ q.op = "map"
           /\ Posted(R, G, Event("Map", q.win)) /\ T = [S EXCEPT !.viewable = @ \cup {q.win}]
  BY <1>3, MapKeepsKey
<1>4. CASE q.op = "unmap" /\ G = R /\ T = Hide(S, q.win)
  BY <1>4, UnmapKeepsKey
<1>5. CASE /\ q.op = "observe" /\ G = R
           /\ T = [S EXCEPT !.observed = @ \cup ({q.win} \cap S.viewable)]
  <2>1. q.win \in Unmanaged
    BY <1>5 DEF Sent, Requests
  <2>2. T.focus = S.focus /\ T.viewable = S.viewable
    BY <1>5, <2>1, ObservePlaced
  <2> QED
    BY <1>5, <2>2, ObserveKeepsKey
<1> QED
  BY <1>1, <1>2, <1>3, <1>4, <1>5 DEF Served

\* The end of a window that a client withdraws.
LEMMA WithdrawnKeepsKey ==
  ASSUME NEW F, NEW G, NEW S, NEW r \in Windows, Sane(F, {}), Placed(S), KeyInv(F, S),
         Posted(F, G, Event("Unmap", r)), r \in S.viewable
  PROVE  KeyInv(G, Hide(S, r))
<1> DEFINE e == Event("Unmap", r)
           T == Hide(S, r)
<1>1. /\ Ev(G) = Ev(F) \cup {e} /\ Managed(G) = Managed(F) /\ Rq(G) = Rq(F)
      /\ G.requests = F.requests /\ G.focus = F.focus /\ e.type = "Unmap" /\ e.win = r
      /\ (HasFocusIn(G) <=> HasFocusIn(F)) /\ (HasFocusIn(F) => Told(G) = Told(F))
  BY RecordsDiffer DEF Posted, SameButEvents
<1>2. FocusFirst(G.events) /\ MapsFirst(G.requests)
  BY <1>1 DEF KeyInv, Posted
<1>3. /\ T.viewable = S.viewable \ {r}
      /\ S.focus # r => T.focus = S.focus
      /\ S.focus = r => T.focus = Nowhere
  BY HideDoes
<1>4. /\ e \in Ev(G) /\ e = Event("Unmap", r) /\ \A t, w : Event(t, w) \in Ev(F) => Event(t, w) \in Ev(G)
      /\ \A w : /\ Event("Unmap", w) \in Ev(G) => Event("Unmap", w) \in Ev(F) \/ w = r
                /\ Event("MapRequest", w) \in Ev(G) => Event("MapRequest", w) \in Ev(F)
                /\ Event("FocusIn", w) \in Ev(G) => Event("FocusIn", w) \in Ev(F)
  BY <1>1, RecordsDiffer
<1> HIDE DEF e, T
<1>5. ASSUME NEW w \in Windows PROVE Life(G, T, w)
  <2>1. Life(F, S, w)
    BY DEF KeyInv
  <2>2. w = T.focus => w = S.focus /\ w # r
    BY <1>3, PlacesDiffer
  <2>3. CASE w = r
    <3>1. w \notin T.viewable /\ w \in S.viewable /\ w # T.focus
      BY <1>3, <2>2, <2>3
    <3> QED
      BY <1>1, <1>4, <2>1, <2>3, <3>1 DEF Life
  <2>4. CASE w # r
    <3>1. w \in T.viewable <=> w \in S.viewable
      BY <1>3, <2>4
    <3> QED
      BY <1>1, <1>4, <2>1, <2>2, <2>4, <3>1 DEF Life
  <2> QED
    BY <2>3, <2>4
<1>6. Follows(G, T)
  <2>1. Follows(F, S)
    BY DEF KeyInv
  <2>2. CASE S.focus # r
    BY <1>1, <1>3, <1>4, <2>1, <2>2, FollowsKept
  <2>3. CASE S.focus = r
    <3>1. T.focus = Nowhere /\ Nowhere \notin Windows /\ S.focus \in Windows
      BY <1>3, <2>3, PlacesDiffer
    <3>2. CASE HasFocusIn(F)
      BY <1>1, <1>4, <2>1, <2>3, <3>1, <3>2 DEF Follows
    <3>3. CASE ~HasFocusIn(F)
      <4>1. Asked(F) => Asked(G)
        BY <1>1 DEF Asked
      <4> QED
        BY <1>1, <1>4, <2>1, <2>3, <3>1, <3>3, <4>1 DEF Follows
    <3> QED
      BY <3>2, <3>3
  <2> QED
    BY <2>2, <2>3
<1> QED
  BY <1>2, <1>5, <1>6 DEF KeyInv, T

\* A window asks to be managed.
LEMMA AskingKeepsKey ==
  ASSUME NEW F, NEW G, NEW S, NEW r \in Windows, Sane(F, {}), KeyInv(F, S),
         Posted(F, G, Event("MapRequest", r)), r \notin S.viewable \cup Managed(F),
         \A e \in Ev(F) : e.win # r, \A q \in Rq(F) : q.win # r
  PROVE  KeyInv(G, S)
<1> DEFINE e == Event("MapRequest", r)
<1>1. /\ Ev(G) = Ev(F) \cup {e} /\ Managed(G) = Managed(F) /\ Rq(G) = Rq(F)
      /\ G.requests = F.requests /\ G.focus = F.focus /\ e.type = "MapRequest" /\ e.win = r
      /\ (HasFocusIn(G) <=> HasFocusIn(F)) /\ (HasFocusIn(F) => Told(G) = Told(F))
  BY RecordsDiffer DEF Posted, SameButEvents
<1>2. FocusFirst(G.events) /\ MapsFirst(G.requests)
  BY <1>1 DEF KeyInv, Posted
<1>3. /\ \A t, w : Event(t, w) \in Ev(F) => Event(t, w) \in Ev(G)
      /\ \A w : /\ Event("Unmap", w) \in Ev(G) => Event("Unmap", w) \in Ev(F)
                /\ Event("MapRequest", w) \in Ev(G) => Event("MapRequest", w) \in Ev(F) \/ w = r
                /\ Event("FocusIn", w) \in Ev(G) => Event("FocusIn", w) \in Ev(F)
      /\ Event("Unmap", r) \notin Ev(F)
  BY <1>1, RecordsDiffer
<1> HIDE DEF e
<1>4. ASSUME NEW w \in Windows PROVE Life(G, S, w)
  <2>1. Life(F, S, w)
    BY DEF KeyInv
  <2> QED
    BY <1>1, <1>3, <2>1 DEF Life
<1>5. Follows(G, S)
  <2>1. Follows(F, S)
    BY DEF KeyInv
  <2> QED
    BY <1>1, <1>3, <2>1, FollowsKept
<1> QED
  BY <1>2, <1>4, <1>5 DEF KeyInv

\* Windows that fvwm does not manage come and go, with the focus or without.
LEMMA UnmanagedKeepsKey ==
  ASSUME NEW F, NEW G, NEW S, NEW T, NEW u \in Unmanaged, Sane(F, {}), KeyInv(F, S),
         G = F \/ Posted(F, G, Event("Map", u)) \/ Posted(F, G, Event("FocusOut", u)),
         T.focus = S.focus \/ T.focus = Root,
         T.viewable \ {u} = S.viewable \ {u}
  PROVE  KeyInv(G, T)
<1>1. /\ Managed(G) = Managed(F) /\ Rq(G) = Rq(F) /\ G.requests = F.requests /\ G.focus = F.focus
      /\ (HasFocusIn(G) <=> HasFocusIn(F)) /\ (HasFocusIn(F) => Told(G) = Told(F))
      /\ FocusFirst(G.events)
      /\ \E e : e.type \in {"Map", "FocusOut"} /\ (Ev(G) = Ev(F) \/ Ev(G) = Ev(F) \cup {e})
  <2>0. \A t : Event(t, u).type = t
    BY RecordsDiffer
  <2>1. CASE G = F
    <3>1. Event("Map", u).type \in {"Map", "FocusOut"}
      BY <2>0
    <3> QED
      BY <2>1, <3>1 DEF KeyInv
  <2>2. CASE Posted(F, G, Event("Map", u))
    BY <2>0, <2>2 DEF Posted, SameButEvents, KeyInv
  <2>3. CASE Posted(F, G, Event("FocusOut", u))
    BY <2>0, <2>3 DEF Posted, SameButEvents, KeyInv
  <2> QED
    BY <2>1, <2>2, <2>3
<1>2. /\ \A w : /\ Event("Unmap", w) \in Ev(G) <=> Event("Unmap", w) \in Ev(F)
                /\ Event("MapRequest", w) \in Ev(G) <=> Event("MapRequest", w) \in Ev(F)
                /\ Event("FocusIn", w) \in Ev(G) <=> Event("FocusIn", w) \in Ev(F)
  BY <1>1, RecordsDiffer
<1>3. u \notin Windows /\ Root \notin Windows /\ Root # Nowhere
  BY PlacesDiffer
<1>4. ASSUME NEW w \in Windows PROVE Life(G, T, w)
  <2>1. Life(F, S, w)
    BY DEF KeyInv
  <2>2. (w \in T.viewable <=> w \in S.viewable) /\ (w = T.focus => w = S.focus)
    BY <1>3
  <2> QED
    BY <1>1, <1>2, <2>1, <2>2 DEF Life
<1>5. Follows(G, T)
  <2>1. Follows(F, S)
    BY DEF KeyInv
  <2>2. CASE T.focus = S.focus
    BY <1>1, <1>2, <2>1, <2>2, FollowsKept
  <2>3. CASE T.focus = Root
    BY <1>3, <2>3 DEF Follows
  <2> QED
    BY <2>2, <2>3
<1>6. MapsFirst(G.requests)
  BY <1>1 DEF KeyInv
<1> QED
  BY <1>1, <1>4, <1>5, <1>6 DEF KeyInv

\* Nothing is under way.
LEMMA QuietEmpty ==
  ASSUME Quiet
  PROVE  Ev(fvwm) = {} /\ Rq(fvwm) = {} /\ ~HasFocusIn(fvwm)
BY DEF Quiet, Ev, Rq, ToSet, HasFocusIn

\* The focus is refreshed, when nothing is under way.
LEMMA RefreshedKeepsKey ==
  ASSUME NEW A, NEW T, NEW r \in Windows, TypeInv, KeyInv(fvwm, server), Quiet,
         Refreshed(fvwm, A, server, T, r), r \in server.viewable
  PROVE  KeyInv(A, T)
<1>1. /\ Managed(A) = Managed(fvwm) /\ A.requests = fvwm.requests /\ A.focus = r
      /\ Ev(fvwm) \subseteq Ev(A) /\ \A e \in Ev(A) \ Ev(fvwm) : e.type = "FocusOut"
      /\ FocusFirst(A.events) /\ MapsFirst(A.requests)
      /\ ~HasFocusIn(A) /\ T = [server EXCEPT !.focus = r]
      /\ Managed(fvwm) \subseteq Windows
  BY QuietEmpty, ManagedWindows DEF Refreshed, KeyInv, TypeInv, Sane, Fvwms
<1>2. T.focus = r /\ T.viewable = server.viewable
  <2>1. Placed(server) /\ r \in Focusable \cup {Root, Nowhere, None}
    BY DEF TypeInv, Focusable
  <2> QED
    BY <1>1, <2>1, FocusPlaced
<1>3. ASSUME NEW w \in Windows PROVE Life(A, T, w)
  <2>1. Life(fvwm, server, w) /\ Keeps(fvwm, A)
    BY <1>1, KeepsSame DEF KeyInv
  <2>2. \A t, x : t # "FocusOut" => (Event(t, x) \in Ev(A) <=> Event(t, x) \in Ev(fvwm))
    BY <1>1, RecordsDiffer
  <2>3. w = T.focus => w \in T.viewable
    BY <1>2
  <2> QED
    BY <1>1, <1>2, <2>1, <2>2, <2>3, LifeKept
<1>4. Follows(A, T)
  BY <1>1, <1>2 DEF Follows
<1> QED
  BY <1>1, <1>3, <1>4 DEF KeyInv

\* So does the pointer when nothing is under way.
LEMMA EnterWindowKeepsKey ==
  ASSUME TypeInv, KeyInv(fvwm, server), Quiet, NEW r \in Managed(fvwm), EnterWindow(r)
  PROVE  KeyInv(fvwm', server')
<1>1. PICK A : /\ \/ A = fvwm /\ server' = server
                  \/ Refreshed(fvwm, A, server, server', r)
               /\ Used(A, fvwm')
  BY EnterWindowDoes DEF TypeInv
<1>2. r \in server.viewable /\ r \in Windows
  BY ManagedWindows DEF EnterWindow, TypeInv, Sane, Fvwms
<1>3. KeyInv(A, server') /\ Sane(A, {})
  <2>1. CASE A = fvwm /\ server' = server
    BY <2>1 DEF TypeInv
  <2>2. CASE Refreshed(fvwm, A, server, server', r)
    BY <1>2, <2>2, RefreshedKeepsKey DEF Refreshed
  <2> QED
    BY <1>1, <2>1, <2>2
<1> QED
  BY <1>1, <1>3, UsedKeepsKey

\* CMD Destroy, when nothing is under way.
LEMMA DestroyKeepsKey ==
  ASSUME TypeInv, KeyInv(fvwm, server), Quiet, NEW r \in Managed(fvwm), Destroy(r)
  PROVE  KeyInv(fvwm', server')
<1> DEFINE G == DestroyWindow(fvwm, r)
<1>1. fvwm' = G /\ server' = server
  BY DEF Destroy
<1>2. /\ Sane(fvwm, {}) /\ Managed(fvwm) \subseteq Windows /\ r \in Windows
      /\ fvwm.events \in Seq(Events)
  BY ManagedWindows DEF TypeInv, Sane, Fvwms
<1>3. /\ Destroyed(fvwm, G, r)
      /\ Request("focus", r) \in Rq(G) => Request("focus", r) \in Rq(fvwm)
  BY <1>2, DestroyWindowDoes
<1> HIDE DEF G
<1>4. Ev(fvwm) = {} /\ Rq(fvwm) = {} /\ ~HasFocusIn(fvwm)
  BY QuietEmpty
<1>5. /\ MapsFirst(fvwm.requests) /\ FocusFirst(fvwm.events) /\ Follows(fvwm, server)
      /\ \A w \in Windows : Life(fvwm, server, w)
  BY DEF KeyInv
<1>6. r = server.focus => r \in server.viewable
  BY <1>2, <1>5 DEF Life
<1>7. Follows(G, server)
  <2>1. G.events = fvwm.events /\ IF fvwm.focus = r THEN Asked(G) ELSE G.focus = fvwm.focus
    BY <1>3 DEF Destroyed
  <2>2. HasFocusIn(G) <=> HasFocusIn(fvwm)
    BY <1>2, <2>1, ToldSame
  <2>3. ~Asked(fvwm)
    BY <1>4 DEF Asked
  <2> QED
    BY <1>4, <1>5, <2>1, <2>2, <2>3 DEF Follows
<1>8. KeyInv(G, server)
  BY <1>2, <1>3, <1>4, <1>5, <1>6, <1>7, DestroyedKeepsKey
<1> QED
  BY <1>1, <1>8

\* Whatever the user does, fvwm stays informed, if the pointer waits for the focus.
LEMMA UserKeepsKey ==
  ASSUME ~SwiftPointer, TypeInv, KeyInv(fvwm, server),
         \/ EnterRoot
         \/ \E r \in Managed(fvwm) : Focus(r) \/ Click(r) \/ EnterWindow(r) \/ Destroy(r)
  PROVE  KeyInv(fvwm', server')
<1>0. Sane(fvwm, {})
  BY DEF TypeInv
<1>1. CASE EnterRoot
  BY <1>0, <1>1, EnterRootDoes, UsedKeepsKey
<1>2. ASSUME NEW r \in Managed(fvwm), Focus(r) \/ Click(r) PROVE KeyInv(fvwm', server')
  BY <1>0, <1>2, SetFocusActionsDo, UsedKeepsKey
<1>3. ASSUME NEW r \in Managed(fvwm), EnterWindow(r) PROVE KeyInv(fvwm', server')
  <2>1. Quiet
    BY <1>3 DEF EnterWindow, Pointer
  <2> QED
    BY <1>3, <2>1, EnterWindowKeepsKey
<1>4. ASSUME NEW r \in Managed(fvwm), Destroy(r) PROVE KeyInv(fvwm', server')
  <2>1. Quiet
    BY <1>4 DEF Destroy, Pointer
  <2> QED
    BY <1>4, <2>1, DestroyKeepsKey
<1> QED
  BY <1>1, <1>2, <1>3, <1>4

\* Whatever clients do, fvwm stays informed.
LEMMA ClientKeepsKey ==
  ASSUME TypeInv, KeyInv(fvwm, server),
         \/ \E w \in Windows \cup Unmanaged : ClientTakesFocus(w)
         \/ \E r \in Windows : ClientMaps(r) \/ ClientWithdraws(r)
         \/ \E u \in Unmanaged : UnmanagedMaps(u) \/ UnmanagedUnmaps(u)
  PROVE  KeyInv(fvwm', server')
<1>0. Sane(fvwm, {}) /\ Placed(server)
  BY DEF TypeInv
<1>1. ASSUME NEW w \in Windows \cup Unmanaged, ClientTakesFocus(w) PROVE KeyInv(fvwm', server')
  <2>1. /\ Informed(fvwm, fvwm', server, w) /\ server' = [server EXCEPT !.focus = w]
        /\ w \in server.viewable /\ w # server.focus /\ Request("unmap", w) \notin Rq(fvwm)
    BY <1>0, <1>1, ClientTakesFocusDoes
  <2>2. /\ MapsFirst(fvwm.requests) /\ FocusFirst(fvwm.events)
        /\ \A x \in Windows : Life(fvwm, server, x)
    BY DEF KeyInv
  <2>3. MayHaveFocus(server, w) /\ (w \in Windows => w \in Managed(fvwm))
    BY <2>1, <2>2 DEF Life, MayHaveFocus
  <2>4. w \in Windows \cup Unmanaged \cup {NoFocusWin, None}
    OBVIOUS
  <2> QED
    BY <1>0, <2>1, <2>2, <2>3, <2>4, InformedKeepsKey
<1>2. ASSUME NEW r \in Windows, ClientMaps(r) PROVE KeyInv(fvwm', server')
  BY <1>0, <1>2, ClientMapsDoes, AskingKeepsKey
<1>3. ASSUME NEW r \in Windows, ClientWithdraws(r) PROVE KeyInv(fvwm', server')
  BY <1>0, <1>3, ClientWithdrawsDoes, WithdrawnKeepsKey
<1>4. ASSUME NEW u \in Unmanaged, UnmanagedMaps(u) PROVE KeyInv(fvwm', server')
  <2>1. Posted(fvwm, fvwm', Event("Map", u)) /\ server' = [server EXCEPT !.viewable = @ \cup {u}]
    BY <1>0, <1>4, UnmanagedMapsDoes
  <2>2. server'.focus = server.focus /\ server'.viewable \ {u} = server.viewable \ {u}
    BY <1>0, <2>1, ViewPlaced
  <2> QED
    BY <1>0, <2>1, <2>2, UnmanagedKeepsKey
<1>5. ASSUME NEW u \in Unmanaged, UnmanagedUnmaps(u) PROVE KeyInv(fvwm', server')
  <2>1. /\ fvwm' = fvwm \/ Posted(fvwm, fvwm', Event("FocusOut", u))
        /\ server' = Hide(server, u)
    BY <1>0, <1>5, UnmanagedUnmapsDoes
  <2>2. /\ server'.focus = server.focus \/ server'.focus = Root
        /\ server'.viewable \ {u} = server.viewable \ {u}
    BY <1>0, <2>1, HideDoes, PlacesDiffer
  <2> QED
    BY <1>0, <2>1, <2>2, UnmanagedKeepsKey
<1> QED
  BY <1>1, <1>2, <1>3, <1>4, <1>5

\* At first no window has got the focus, and fvwm knows it.
LEMMA InitKey ==
  ASSUME Init
  PROVE  KeyInv(fvwm, server)
<1>1. /\ TypeInv /\ fvwm.requests = <<>> /\ fvwm.events = <<>>
      /\ Managed(fvwm) = {} /\ Ev(fvwm) = {} /\ Rq(fvwm) = {}
      /\ server.focus = NoFocusWin /\ server.viewable = {}
  BY InitFields
<1>2. MapsFirst(fvwm.requests) /\ FocusFirst(fvwm.events) /\ ~HasFocusIn(fvwm)
  BY <1>1 DEF MapsFirst, FocusFirst, HasFocusIn
<1>3. ASSUME NEW w \in Windows PROVE Life(fvwm, server, w)
  BY <1>1, PlacesDiffer DEF Life
<1>4. Follows(fvwm, server)
  BY <1>1, <1>2, PlacesDiffer DEF Follows
<1> QED
  BY <1>2, <1>3, <1>4 DEF KeyInv

\* When all is done, nothing is left by which fvwm might yet be told.
LEMMA KeyInvImplies ==
  ASSUME TypeInv, KeyInv(fvwm, server)
  PROVE  KeyboardNotLost
<1>1. SUFFICES ASSUME Quiet
               PROVE  /\ server.focus # Nowhere
                      /\ server.focus \in Managed(fvwm) => fvwm.focus = server.focus
  BY DEF KeyboardNotLost
<1>2. Ev(fvwm) = {} /\ Rq(fvwm) = {} /\ ~HasFocusIn(fvwm)
  BY <1>1, QuietEmpty
<1>3. Follows(fvwm, server) /\ ~Asked(fvwm)
  BY <1>2 DEF KeyInv, Asked
<1>4. server.focus \in Windows \cup {Nowhere} => fvwm.focus = server.focus
  BY <1>2, <1>3 DEF Follows
<1>5. fvwm.focus \in Managed(fvwm) \cup {None} /\ Managed(fvwm) \subseteq Windows
  BY ManagedWindows DEF TypeInv, Sane, Fvwms
<1> QED
  BY <1>4, <1>5, PlacesDiffer

\* When all requests have been executed and all events handled, a window that
\* fvwm manages and that has the keyboard is the one that fvwm takes for the
\* focused window, and the keyboard is not in the decorations of a window that
\* has gone: whatever clients take, however windows come and go in between, and
\* however requests and events pass each other.  The pointer does not run ahead
\* of the focus.
THEOREM KeyboardKept ==
  ASSUME ~SwiftPointer
  PROVE  Spec => []KeyboardNotLost
<1> DEFINE Inv == TypeInv /\ KeyInv(fvwm, server)
<1>1. Init => Inv
  BY InitFields, InitKey
<1>2. Inv /\ [Next]_vars => Inv'
  <2>1. SUFFICES ASSUME TypeInv, KeyInv(fvwm, server), [Next]_vars PROVE TypeInv' /\ KeyInv(fvwm', server')
    OBVIOUS
  <2>2. CASE UNCHANGED vars
    BY <2>1, <2>2 DEF TypeInv, vars
  <2>3. CASE Serve
    <3>1. PICK R, q : Sent(fvwm, R, q) /\ Served(R, fvwm', server, server', q)
      BY <2>1, <2>3, ServeDoes DEF TypeInv
    <3>2. KeyInv(fvwm', server')
      BY <2>1, <3>1, ServedKeepsKey DEF TypeInv
    <3> QED
      BY <2>1, <2>3, <3>2, ServeKeepsTypes
  <2>4. CASE Dispatch
    <3>1. PICK R, e : Taken(fvwm, R, e) /\ Dispatched(fvwm, R, fvwm', e)
      BY <2>1, <2>4, DispatchDoes DEF TypeInv
    <3>2. server' = server
      BY <2>4 DEF Dispatch
    <3>3. KeyInv(fvwm', server')
      BY <2>1, <3>1, <3>2, DispatchedKeepsKey DEF TypeInv
    <3> QED
      BY <2>1, <2>4, <3>3, DispatchKeepsTypes
  <2>5. CASE \/ EnterRoot
             \/ \E r \in Managed(fvwm) : Focus(r) \/ Click(r) \/ EnterWindow(r) \/ Destroy(r)
    BY <2>1, <2>5, UserKeepsTypes, UserKeepsKey
  <2>6. CASE \/ \E w \in Windows \cup Unmanaged : ClientTakesFocus(w)
             \/ \E r \in Windows : ClientMaps(r) \/ ClientWithdraws(r)
             \/ \E u \in Unmanaged : UnmanagedMaps(u) \/ UnmanagedUnmaps(u)
    BY <2>1, <2>6, ClientKeepsTypes, ClientKeepsKey
  <2> QED
    BY <2>1, <2>2, <2>3, <2>4, <2>5, <2>6 DEF Next, Managed
<1>3. Inv => KeyboardNotLost
  BY KeyInvImplies
<1> QED
  BY <1>1, <1>2, <1>3, PTL DEF Spec
=============================================================================
