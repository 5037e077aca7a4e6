--------------------------- MODULE ScheduleProofs ---------------------------
(***************************************************************************)
(* Proofs about module Schedule and the queue of module FQueue: what each  *)
(* operation of the queue does, the soundness of the walks, what becomes   *)
(* of the jobs, and that the queue implements JobService.                  *)
(***************************************************************************)
EXTENDS Schedule, SequenceTheorems, FiniteSetTheorems, WellFoundedInduction, TLAPS

\* The records and the queues of the model.
Records == [rid : RIds, obj : Objects, del : BOOLEAN, new : BOOLEAN]
\* The queues over those records.
Queues == [recs : Seq(Records), lock : Nat, dirty : BOOLEAN]
\* The walks.
Calls == [now : 0 .. Wrap - 1, cur : RIds]

\* No heap cell is linked into queue Q twice.
Distinct(Q) == \A i, j \in 1..Len(Q.recs) : Q.recs[i].rid = Q.recs[j].rid => i = j

\* Where a record is marked for the clean-up, the queue is dirty.
Flagged(Q) == \A i \in 1..Len(Q.recs) : Q.recs[i].del \/ Q.recs[i].new => Q.dirty

\* The records of two queues stand for the same run of the same job.
SameRec(a, b) ==
  /\ a.rid = b.rid /\ a.obj.job = b.obj.job /\ a.obj.id = b.obj.id
  /\ a.obj.due = b.obj.due /\ a.obj.period = b.obj.period

\* R is what is left of Q: some records, in order, at the places e.
LeftAt(R, Q, e) ==
  /\ e \in [1..Len(R.recs) -> 1..Len(Q.recs)]
  /\ \A i, j \in 1..Len(R.recs) : i < j => e[i] < e[j]
  /\ \A i \in 1..Len(R.recs) :
        /\ SameRec(R.recs[i], Q.recs[e[i]])
        /\ ~R.recs[i].del => ~Q.recs[e[i]].del

\* R is what is left of Q.
LeftOf(R, Q) == \E e : LeftAt(R, Q, e)

\* R is Q with record r inserted at place m.
Inserted(R, Q, m, r) ==
  /\ R \in Queues /\ R.lock = Q.lock /\ R.dirty = (Q.dirty \/ Q.lock > 0)
  /\ m \in 1..(Len(Q.recs) + 1)
  /\ Len(R.recs) = Len(Q.recs) + 1
  /\ R.recs[m] = r
  /\ \A i \in 1..(m - 1) : R.recs[i] = Q.recs[i]
  /\ \A i \in m..Len(Q.recs) : R.recs[i + 1] = Q.recs[i]

-----------------------------------------------------------------------------
\* Induction over Nat, for a set of numbers.
LEMMA NatSetInduction ==
  ASSUME NEW P \in SUBSET Nat, 0 \in P, \A n \in P : n + 1 \in P
  PROVE  P = Nat
<1>1. SUFFICES ASSUME Nat \ P # {} PROVE FALSE
  OBVIOUS
<1>2. PICK m \in Nat \ P : \A k \in Nat \ P : ~(<<k, m>> \in OpToRel(<, Nat))
  <2>1. Nat \ P \subseteq Nat
    OBVIOUS
  <2> QED
    BY <1>1, <2>1, NatLessThanWellFounded, WFMin
<1>3. \A k \in Nat \ P : ~(k < m)
  BY <1>2 DEF OpToRel
<1>4. m # 0 /\ m - 1 \in Nat /\ m - 1 < m /\ (m - 1) + 1 = m
  OBVIOUS
<1>5. m - 1 \in P
  BY <1>3, <1>4
<1> QED
  BY <1>4, <1>5

\* MinOf returns the least member of a set of numbers.
LEMMA MinOfLeast ==
  ASSUME NEW S \in SUBSET Nat, S # {}
  PROVE  MinOf(S) \in S /\ \A j \in S : MinOf(S) <= j
<1>1. PICK m \in S : \A k \in S : ~(<<k, m>> \in OpToRel(<, Nat))
  BY NatLessThanWellFounded, WFMin
<1>2. ASSUME NEW k \in S PROVE m <= k
  <2>1. ~(<<k, m>> \in OpToRel(<, Nat)) /\ k \in Nat /\ m \in Nat
    BY <1>1
  <2> QED
    BY <2>1 DEF OpToRel
<1> QED
  BY <1>2 DEF MinOf

\* A record that is linked is found by its heap cell.
LEMMA IndexFound ==
  ASSUME NEW Q \in Queues, NEW rid \in RecIds(Q)
  PROVE  /\ IndexOfRec(Q, rid) \in 1..Len(Q.recs)
         /\ Q.recs[IndexOfRec(Q, rid)].rid = rid
<1>1. DOMAIN Q.recs = 1..Len(Q.recs)
  BY DEF Queues
<1>2. \E i \in DOMAIN Q.recs : Q.recs[i].rid = rid
  BY DEF RecIds
<1> QED
  BY <1>1, <1>2 DEF IndexOfRec

\* fqueue_add_inside links one more record, in front of the first later one.
LEMMA AddInsideInserts ==
  ASSUME NEW Q \in Queues, NEW rid \in RIds, NEW obj \in Objects,
         NEW later \in SUBSET (1..Len(Q.recs))
  PROVE  \E m : /\ Inserted(AddInside(Q, rid, obj, later), Q, m, NewRecord(Q, rid, obj))
                /\ \A i \in later : m <= i
                /\ m = Len(Q.recs) + 1 \/ m \in later
<1> DEFINE m == IF later = {} THEN Len(Q.recs) + 1 ELSE MinOf(later)
           r == NewRecord(Q, rid, obj)
           R == AddInside(Q, rid, obj, later)
           s == Q.recs
<1>0. s \in Seq(Records) /\ Len(s) \in Nat /\ DOMAIN s = 1..Len(s)
  BY DEF Queues
<1>1. m \in 1..(Len(s) + 1) /\ (\A i \in later : m <= i) /\ (m = Len(s) + 1 \/ m \in later)
  <2>1. CASE later = {}
    BY <1>0, <2>1
  <2>2. CASE later # {}
    <3>1. later \in SUBSET Nat
      BY <1>0
    <3>2. MinOf(later) \in later /\ \A j \in later : MinOf(later) <= j
      BY <2>2, <3>1, MinOfLeast
    <3>3. m = MinOf(later)
      BY <2>2
    <3>4. m \in 1..Len(s)
      BY <3>2, <3>3
    <3> HIDE DEF m
    <3> QED
      BY <1>0, <3>2, <3>3, <3>4
  <2> QED
    BY <2>1, <2>2
<1>2. r \in Records
  BY DEF NewRecord, Records, Queues
<1>3. R = [Q EXCEPT !.recs = InsertAt(s, m, r), !.dirty = Q.dirty \/ Q.lock > 0]
  BY DEF AddInside
<1> HIDE DEF m, r
<1> DEFINE a == SubSeq(s, 1, m - 1)
           b == SubSeq(s, m, Len(s))
           t == InsertAt(s, m, r)
<1>4. /\ a \in Seq(Records) /\ Len(a) = m - 1
      /\ \A i \in 1..(m - 1) : a[i] = s[i]
  BY <1>0, <1>1, SubSeqProperties
<1>5. /\ b \in Seq(Records) /\ Len(b) = Len(s) + 1 - m
      /\ \A i \in 1..(Len(s) + 1 - m) : b[i] = s[m + i - 1]
  BY <1>0, <1>1, SubSeqProperties
<1>6. t = a \o <<r>> \o b
  BY DEF InsertAt
<1> HIDE DEF a, b, t, s, R
<1>7. /\ t \in Seq(Records) /\ Len(t) = Len(s) + 1
      /\ t[m] = r
      /\ \A i \in 1..(m - 1) : t[i] = s[i]
      /\ \A i \in m..Len(s) : t[i + 1] = s[i]
  <2>1. a \o <<r>> \in Seq(Records) /\ Len(a \o <<r>>) = m
    BY <1>0, <1>1, <1>2, <1>4
  <2>2. \A i \in 1..m : (a \o <<r>>)[i] = IF i < m THEN a[i] ELSE r
    BY <1>0, <1>1, <1>2, <1>4
  <2>3. t \in Seq(Records) /\ Len(t) = Len(s) + 1
    <3>1. t \in Seq(Records) /\ Len(t) = Len(a \o <<r>>) + Len(b)
      BY <1>5, <1>6, <2>1, ConcatProperties
    <3>2. m \in Int /\ Len(s) \in Int
      BY <1>0, <1>1
    <3>3. Len(t) = m + (Len(s) + 1 - m)
      BY <1>5, <2>1, <3>1
    <3>4. m + (Len(s) + 1 - m) = Len(s) + 1
      BY <3>2
    <3> QED
      BY <3>1, <3>3, <3>4
  <2>4. \A i \in 1..(Len(s) + 1) : t[i] = IF i <= m THEN (a \o <<r>>)[i] ELSE b[i - m]
    BY <1>0, <1>1, <1>5, <1>6, <2>1
  <2>5. ASSUME NEW i \in m..Len(s) PROVE t[i + 1] = s[i]
    <3>1. i + 1 \in 1..(Len(s) + 1) /\ ~(i + 1 <= m) /\ (i + 1) - m \in 1..(Len(s) + 1 - m)
      BY <1>0, <1>1
    <3>2. t[i + 1] = b[(i + 1) - m]
      BY <2>4, <3>1
    <3>3. m + ((i + 1) - m) - 1 = i
      BY <1>0, <1>1
    <3> QED
      BY <1>5, <3>1, <3>2, <3>3
  <2> QED
    BY <1>0, <1>1, <1>4, <2>2, <2>3, <2>4, <2>5
<1>8. R \in Queues /\ R.recs = t /\ R.lock = Q.lock /\ R.dirty = (Q.dirty \/ Q.lock > 0)
  <2>1. R = [Q EXCEPT !.recs = t, !.dirty = Q.dirty \/ Q.lock > 0]
    BY <1>3 DEF t
  <2>2. t \in Seq(Records)
    BY <1>7
  <2> QED
    BY <2>1, <2>2 DEF Queues
<1>9. s = Q.recs
  BY DEF s
<1>10. Inserted(R, Q, m, r)
  BY <1>1, <1>7, <1>8, <1>9 DEF Inserted
<1> QED
  BY <1>1, <1>9, <1>10 DEF R, r

-----------------------------------------------------------------------------
\* g lists what fqueue_cleanup_queue keeps of the first 0, 1, .. N records of s.
Sifted(s, N, g) ==
  g = [n \in 0..N |->
         IF n = 0 THEN <<>>
         ELSE IF s[n].del THEN g[n - 1]
         ELSE Append(g[n - 1], [s[n] EXCEPT !.new = FALSE])]

\* There is such a list: the recursion of Cleanup is well founded.
LEMMA SiftedExists ==
  ASSUME NEW s, NEW N \in Nat
  PROVE  \E g : Sifted(s, N, g)
<1> DEFINE Next_(g, n) == IF n = 0 THEN <<>>
                          ELSE IF s[n].del THEN g[n - 1]
                          ELSE Append(g[n - 1], [s[n] EXCEPT !.new = FALSE])
<1>1. \E g : Sifted(s, 0, g)
  <2>1. Sifted(s, 0, [n \in 0..0 |-> <<>>])
    BY DEF Sifted
  <2> QED
    BY <2>1
<1>2. ASSUME NEW m \in Nat, NEW g, Sifted(s, m, g)
      PROVE  \E h : Sifted(s, m + 1, h)
  <2> DEFINE h == [n \in 0..(m + 1) |-> IF n = m + 1 THEN Next_(g, m + 1) ELSE g[n]]
  <2>1. \A n \in 0..m : g[n] = Next_(g, n)
    BY <1>2 DEF Sifted
  <2>2. \A n \in 0..m : h[n] = g[n]
    OBVIOUS
  <2>3. h[m + 1] = Next_(h, m + 1)
    BY <2>2
  <2>4. ASSUME NEW n \in 0..(m + 1)
        PROVE  h[n] = Next_(h, n)
    <3>1. CASE n = m + 1
      BY <2>3, <3>1
    <3>2. CASE n = 0
      <4>1. n \in 0..m
        BY <3>2
      <4>2. h[n] = g[n] /\ g[n] = Next_(g, n)
        BY <2>1, <2>2, <4>1
      <4> HIDE DEF h
      <4> QED
        BY <3>2, <4>2
    <3>3. CASE n \in 1..m
      <4>1. n \in 0..m /\ n - 1 \in 0..m
        BY <3>3
      <4>2. h[n] = g[n] /\ h[n - 1] = g[n - 1] /\ g[n] = Next_(g, n)
        BY <2>1, <2>2, <4>1
      <4> HIDE DEF h
      <4> QED
        BY <4>2
    <3> QED
      BY <3>1, <3>2, <3>3
  <2>5. h = [n \in 0..(m + 1) |-> h[n]]
    OBVIOUS
  <2> HIDE DEF h
  <2>6. h = [n \in 0..(m + 1) |-> Next_(h, n)]
    BY <2>4, <2>5
  <2> QED
    BY <2>6 DEF Sifted
<1> DEFINE P == {m \in Nat : \E g : Sifted(s, m, g)}
<1>3. P = Nat
  <2>1. 0 \in P /\ P \subseteq Nat /\ \A m \in P : m + 1 \in P
    BY <1>1, <1>2
  <2> HIDE DEF P
  <2> QED
    BY <2>1, NatSetInduction
<1> QED
  BY <1>3

\* t holds, in order, what is not scheduled for deletion of the first n
\* records of s, made permanent; e says where each was.
Sifts(t, s, n, e) ==
  /\ t \in Seq(Records)
  /\ e \in [1..Len(t) -> 1..n]
  /\ \A i, j \in 1..Len(t) : i < j => e[i] < e[j]
  /\ \A i \in 1..Len(t) : ~s[e[i]].del /\ t[i] = [s[e[i]] EXCEPT !.new = FALSE]
  /\ \A k \in 1..n : ~s[k].del => \E i \in 1..Len(t) : e[i] = k

\* One more record is sifted.
LEMMA SiftsOneMore ==
  ASSUME NEW s \in Seq(Records), NEW n \in Nat, n + 1 <= Len(s),
         NEW t, NEW e, Sifts(t, s, n, e), NEW u,
         u = IF s[n + 1].del THEN t ELSE Append(t, [s[n + 1] EXCEPT !.new = FALSE])
  PROVE  \E f : Sifts(u, s, n + 1, f)
<1>1. s[n + 1] \in Records
  BY ElementOfSeq
<1>2. /\ t \in Seq(Records) /\ Len(t) \in Nat
      /\ e \in [1..Len(t) -> 1..n]
  BY DEF Sifts
<1>3. CASE s[n + 1].del
  <2>1. u = t
    BY <1>3
  <2>2. e \in [1..Len(t) -> 1..(n + 1)]
    BY <1>2
  <2>3. Sifts(t, s, n + 1, e)
    BY <1>2, <1>3, <2>2 DEF Sifts
  <2> QED
    BY <2>1, <2>3
<1>4. CASE ~s[n + 1].del
  <2> DEFINE r == [s[n + 1] EXCEPT !.new = FALSE]
             f == [i \in 1..(Len(t) + 1) |-> IF i <= Len(t) THEN e[i] ELSE n + 1]
  <2>1. r \in Records
    BY <1>1 DEF Records
  <2>2. u = Append(t, r)
    BY <1>4
  <2> HIDE DEF r
  <2>3. /\ u \in Seq(Records) /\ Len(u) = Len(t) + 1 /\ u[Len(t) + 1] = r
        /\ \A i \in 1..Len(t) : u[i] = t[i]
    BY <1>2, <2>1, <2>2
  <2>4. f \in [1..Len(u) -> 1..(n + 1)]
    BY <1>2, <2>3
  <2>5. (\A i \in 1..Len(t) : f[i] = e[i] /\ e[i] \in 1..n) /\ f[Len(t) + 1] = n + 1
    BY <1>2
  <2> HIDE DEF f
  <2>6. ASSUME NEW i \in 1..Len(u), NEW j \in 1..Len(u), i < j PROVE f[i] < f[j]
    <3>1. i \in 1..Len(t) /\ (j \in 1..Len(t) \/ j = Len(t) + 1)
      BY <1>2, <2>3, <2>6
    <3>2. CASE j \in 1..Len(t)
      BY <2>5, <2>6, <3>1, <3>2 DEF Sifts
    <3>3. CASE j = Len(t) + 1
      BY <2>5, <3>1, <3>3
    <3> QED
      BY <3>1, <3>2, <3>3
  <2>7. ASSUME NEW i \in 1..Len(u)
        PROVE  ~s[f[i]].del /\ u[i] = [s[f[i]] EXCEPT !.new = FALSE]
    <3>1. i \in 1..Len(t) \/ i = Len(t) + 1
      BY <1>2, <2>3
    <3>2. CASE i \in 1..Len(t)
      BY <2>3, <2>5, <3>2 DEF Sifts
    <3>3. CASE i = Len(t) + 1
      BY <1>4, <2>3, <2>5, <3>3 DEF r
    <3> QED
      BY <3>1, <3>2, <3>3
  <2>8. ASSUME NEW k \in 1..(n + 1), ~s[k].del PROVE \E i \in 1..Len(u) : f[i] = k
    <3>1. CASE k = n + 1
      <4>1. Len(t) + 1 \in 1..Len(u)
        BY <1>2, <2>3
      <4> QED
        BY <2>5, <3>1, <4>1
    <3>2. CASE k # n + 1
      <4>1. k \in 1..n
        BY <3>2
      <4>2. PICK i \in 1..Len(t) : e[i] = k
        BY <2>8, <4>1 DEF Sifts
      <4>3. i \in 1..Len(u)
        BY <1>2, <2>3
      <4> QED
        BY <2>5, <4>2, <4>3
    <3> QED
      BY <3>1, <3>2
  <2>9. Sifts(u, s, n + 1, f)
    BY <2>3, <2>4, <2>6, <2>7, <2>8 DEF Sifts
  <2> QED
    BY <2>9
<1> QED
  BY <1>3, <1>4

\* fqueue_cleanup_queue leaves what is not scheduled for deletion, in order,
\* and nothing flagged.
Cleaned(R, Q, e) ==
  /\ R \in Queues /\ R.lock = Q.lock /\ R.dirty = Q.dirty
  /\ LeftAt(R, Q, e)
  /\ \A i \in 1..Len(R.recs) :
        ~R.recs[i].del /\ ~R.recs[i].new /\ R.recs[i].obj = Q.recs[e[i]].obj
  /\ \A k \in 1..Len(Q.recs) : ~Q.recs[k].del => \E i \in 1..Len(R.recs) : e[i] = k

\* fqueue_cleanup_queue drops the marked records, keeps the others in order,
\* and leaves no record new.
LEMMA CleanupCleans ==
  ASSUME NEW Q \in Queues
  PROVE  \E e : Cleaned(Cleanup(Q), Q, e)
<1> DEFINE s == Q.recs
           N == Len(Q.recs)
           kept == CHOOSE g : Sifted(s, N, g)
           R == Cleanup(Q)
<1>0. s \in Seq(Records) /\ N \in Nat
  BY DEF Queues
<1>1. Sifted(s, N, kept)
  <2>1. \E g : Sifted(s, N, g)
    BY <1>0, SiftedExists
  <2> QED
    BY <2>1
<1>2. R = [Q EXCEPT !.recs = kept[N]]
  BY DEF Cleanup, Sifted
<1> HIDE DEF kept, N, s, R
<1>3. kept[0] = <<>>
  BY <1>0, <1>1 DEF Sifted
<1>4. ASSUME NEW n \in Nat, n + 1 <= N
      PROVE  kept[n + 1] = IF s[n + 1].del THEN kept[n]
                           ELSE Append(kept[n], [s[n + 1] EXCEPT !.new = FALSE])
  <2>1. n + 1 \in 0..N /\ n + 1 # 0 /\ (n + 1) - 1 = n
    BY <1>0, <1>4
  <2> QED
    BY <1>1, <2>1 DEF Sifted
<1> DEFINE Fine(n) == \E e : Sifts(kept[n], s, n, e)
           P == {n \in Nat : n <= N => Fine(n)}
<1>5. Fine(0)
  <2>1. Sifts(<<>>, s, 0, <<>>)
    BY DEF Sifts
  <2> QED
    BY <1>3, <2>1
<1>6. ASSUME NEW n \in Nat, n + 1 <= N, Fine(n) PROVE Fine(n + 1)
  <2>1. PICK e : Sifts(kept[n], s, n, e)
    BY <1>6
  <2>2. n + 1 <= Len(s)
    BY <1>6 DEF N, s
  <2> QED
    BY <1>0, <1>4, <1>6, <2>1, <2>2, SiftsOneMore
<1>7. P = Nat
  <2>1. P \subseteq Nat /\ 0 \in P
    BY <1>5
  <2>2. ASSUME NEW n \in P
        PROVE  n + 1 \in P
    <3>1. n \in Nat /\ n + 1 \in Nat /\ (n + 1 <= N => n <= N)
      BY <1>0
    <3>2. n <= N => Fine(n)
      OBVIOUS
    <3> HIDE DEF Fine
    <3> QED
      BY <1>6, <3>1, <3>2
  <2> HIDE DEF P
  <2> QED
    BY <2>1, <2>2, NatSetInduction
<1>8. PICK e : Sifts(kept[N], s, N, e)
  <2>1. N \in P
    BY <1>0, <1>7
  <2>2. N <= N
    BY <1>0
  <2> QED
    BY <2>1, <2>2
<1>9. R \in Queues /\ R.recs = kept[N] /\ R.lock = Q.lock /\ R.dirty = Q.dirty
  <2>1. kept[N] \in Seq(Records)
    BY <1>8 DEF Sifts
  <2> QED
    BY <1>2, <2>1 DEF Queues
<1>10. ASSUME NEW i \in 1..Len(R.recs)
       PROVE  /\ e[i] \in 1..N /\ s[e[i]] \in Records /\ R.recs[i] \in Records
              /\ ~s[e[i]].del /\ R.recs[i] = [s[e[i]] EXCEPT !.new = FALSE]
  <2>1. e[i] \in 1..N /\ ~s[e[i]].del /\ R.recs[i] = [s[e[i]] EXCEPT !.new = FALSE]
    BY <1>8, <1>9 DEF Sifts
  <2>2. s[e[i]] \in Records
    BY <1>0, <2>1, ElementOfSeq DEF N, s
  <2> QED
    BY <2>1, <2>2 DEF Records
<1>11. ASSUME NEW i \in 1..Len(R.recs)
       PROVE  /\ R.recs[i].rid = s[e[i]].rid /\ R.recs[i].obj = s[e[i]].obj
              /\ ~R.recs[i].del /\ ~R.recs[i].new /\ ~s[e[i]].del
  BY <1>10 DEF Records
<1>12. LeftAt(R, Q, e)
  <2>1. /\ e \in [1..Len(R.recs) -> 1..N]
        /\ \A i, j \in 1..Len(R.recs) : i < j => e[i] < e[j]
    BY <1>8, <1>9 DEF Sifts
  <2>2. N = Len(Q.recs) /\ s = Q.recs
    BY DEF N, s
  <2> QED
    BY <1>11, <2>1, <2>2 DEF LeftAt, SameRec
<1>13. \A k \in 1..Len(Q.recs) : ~Q.recs[k].del => \E i \in 1..Len(R.recs) : e[i] = k
  BY <1>8, <1>9 DEF Sifts, N, s
<1>14. Cleaned(R, Q, e)
  <2>1. s = Q.recs
    BY DEF s
  <2> QED
    BY <1>9, <1>11, <1>12, <1>13, <2>1 DEF Cleaned
<1> QED
  BY <1>14 DEF R

-----------------------------------------------------------------------------
\* R is Q with the records at the places M scheduled for deletion.
Marked(R, Q, M) ==
  /\ R \in Queues /\ R.lock = Q.lock /\ Len(R.recs) = Len(Q.recs)
  /\ \A i \in 1..Len(Q.recs) :
        /\ R.recs[i].rid = Q.recs[i].rid /\ R.recs[i].obj = Q.recs[i].obj
        /\ R.recs[i].new = Q.recs[i].new
        /\ R.recs[i].del <=> (Q.recs[i].del \/ i \in M)
  /\ (Q.dirty \/ M # {}) => R.dirty

\* fqueue_operate marks the one record and makes the queue dirty.
LEMMA MarkDeletedMarks ==
  ASSUME NEW Q \in Queues, NEW rid \in RecIds(Q)
  PROVE  Marked(MarkDeleted(Q, rid), Q, {IndexOfRec(Q, rid)})
<1> DEFINE n == IndexOfRec(Q, rid)
           s == Q.recs
           t == [s EXCEPT ![n].del = TRUE]
           R == MarkDeleted(Q, rid)
<1>1. n \in 1..Len(s)
  BY IndexFound
<1>2. s \in Seq(Records) /\ \A i \in 1..Len(s) : s[i] \in Records
  BY ElementOfSeq DEF Queues
<1>3. R = [Q EXCEPT !.recs = t, !.dirty = TRUE]
  BY DEF MarkDeleted
<1> HIDE DEF n
<1>4. [s[n] EXCEPT !.del = TRUE] \in Records
  BY <1>1, <1>2 DEF Records
<1>5. t \in Seq(Records) /\ Len(t) = Len(s)
  BY <1>1, <1>2, <1>4
<1>6. \A i \in 1..Len(s) : t[i] = IF i = n THEN [s[n] EXCEPT !.del = TRUE] ELSE s[i]
  BY <1>1, <1>2
<1>7. ASSUME NEW i \in 1..Len(s)
      PROVE  /\ t[i].rid = s[i].rid /\ t[i].obj = s[i].obj /\ t[i].new = s[i].new
             /\ t[i].del <=> (s[i].del \/ i \in {n})
  BY <1>2, <1>6 DEF Records
<1> HIDE DEF t, R
<1>8. R \in Queues /\ R.recs = t /\ R.lock = Q.lock /\ R.dirty
  BY <1>3, <1>5 DEF Queues
<1>9. Marked(R, Q, {n})
  BY <1>5, <1>7, <1>8 DEF Marked
<1> QED
  BY <1>9 DEF R, n

\* Marking keeps each record at its place.
LEMMA MarkedLeft ==
  ASSUME NEW R, NEW Q \in Queues, NEW M, Marked(R, Q, M)
  PROVE  LeftAt(R, Q, [i \in 1..Len(Q.recs) |-> i]) /\ RecIds(R) = RecIds(Q)
<1>1. /\ R \in Queues /\ Len(R.recs) = Len(Q.recs)
      /\ \A i \in 1..Len(Q.recs) :
            R.recs[i].rid = Q.recs[i].rid /\ R.recs[i].obj = Q.recs[i].obj
            /\ (R.recs[i].del <=> (Q.recs[i].del \/ i \in M))
  BY DEF Marked
<1>2. Len(Q.recs) \in Nat /\ DOMAIN Q.recs = 1..Len(Q.recs) /\ DOMAIN R.recs = 1..Len(R.recs)
  BY <1>1 DEF Queues
<1>3. LeftAt(R, Q, [i \in 1..Len(Q.recs) |-> i])
  <2> DEFINE e == [i \in 1..Len(Q.recs) |-> i]
  <2>1. /\ e \in [1..Len(R.recs) -> 1..Len(Q.recs)]
        /\ \A i \in 1..Len(R.recs) : e[i] = i
    BY <1>1
  <2> HIDE DEF e
  <2>2. \A i \in 1..Len(R.recs) : SameRec(R.recs[i], Q.recs[e[i]])
    BY <1>1, <2>1 DEF SameRec
  <2>3. \A i \in 1..Len(R.recs) : ~R.recs[i].del => ~Q.recs[e[i]].del
    BY <1>1, <2>1
  <2>4. LeftAt(R, Q, e)
    BY <2>1, <2>2, <2>3 DEF LeftAt
  <2> QED
    BY <2>4 DEF e
<1>4. RecIds(R) = RecIds(Q)
  BY <1>1, <1>2 DEF RecIds
<1> QED
  BY <1>3, <1>4

\* fqueue_unlock_queue frees nothing but at the outermost level, and there
\* keeps all that can still run and leaves no record marked.
Unlocked(R, Q, e) ==
  /\ R \in Queues /\ R.lock = Q.lock - 1 /\ R.dirty = Q.dirty
  /\ LeftAt(R, Q, e)
  /\ \A i \in 1..Len(R.recs) : R.recs[i].obj = Q.recs[e[i]].obj
  /\ \A k \in 1..Len(Q.recs) :
        ~Q.recs[k].del => \E i \in 1..Len(R.recs) : e[i] = k /\ ~R.recs[i].del
  /\ Q.lock > 1 => R.recs = Q.recs
  /\ Q.lock = 1 /\ Flagged(Q) =>
        \A i \in 1..Len(R.recs) : ~R.recs[i].del /\ ~R.recs[i].new

\* A queue is left of itself.
LEMMA LeftOfSelf ==
  ASSUME NEW Q \in Queues
  PROVE  LeftAt(Q, Q, [i \in 1..Len(Q.recs) |-> i])
<1>1. Len(Q.recs) \in Nat
  BY DEF Queues
<1> QED
  BY <1>1 DEF LeftAt, SameRec

\* fqueue_unlock_queue does what Unlocked says.
LEMMA UnlockUnlocks ==
  ASSUME NEW Q \in Queues, Q.lock > 0
  PROVE  \E e : Unlocked(UnlockQueue(Q), Q, e)
<1> DEFINE c == IF Q.lock = 1 /\ Q.dirty THEN Cleanup(Q) ELSE Q
           R == UnlockQueue(Q)
<1>1. Q.lock \in Nat /\ Q.dirty \in BOOLEAN /\ Len(Q.recs) \in Nat
  BY DEF Queues
<1>2. R = [c EXCEPT !.lock = @ - 1]
  BY <1>1 DEF UnlockQueue
<1>3. CASE Q.lock = 1 /\ Q.dirty
  <2>1. PICK e : Cleaned(Cleanup(Q), Q, e)
    BY CleanupCleans
  <2>2. c = Cleanup(Q)
    BY <1>3
  <2> HIDE DEF c, R
  <2>3. c \in Queues /\ c.lock = Q.lock /\ c.dirty = Q.dirty
    BY <2>1, <2>2 DEF Cleaned
  <2>8. c.lock - 1 \in Nat
    BY <1>3, <2>3
  <2>4. R \in Queues /\ R.recs = c.recs /\ R.lock = Q.lock - 1 /\ R.dirty = Q.dirty
    BY <1>2, <2>3, <2>8 DEF Queues
  <2>5. Cleaned(c, Q, e)
    BY <2>1, <2>2
  <2>6. LeftAt(R, Q, e)
    BY <2>4, <2>5 DEF Cleaned, LeftAt
  <2>7. Unlocked(R, Q, e)
    BY <1>1, <1>3, <2>4, <2>5, <2>6 DEF Cleaned, Unlocked
  <2> QED
    BY <2>7 DEF R
<1>4. CASE ~(Q.lock = 1 /\ Q.dirty)
  <2> DEFINE e == [i \in 1..Len(Q.recs) |-> i]
  <2>1. LeftAt(Q, Q, e)
    BY LeftOfSelf
  <2>2. c = Q
    BY <1>4
  <2> HIDE DEF c, R
  <2>3. R \in Queues /\ R.recs = Q.recs /\ R.lock = Q.lock - 1 /\ R.dirty = Q.dirty
    BY <1>1, <1>2, <2>2 DEF Queues
  <2>4. LeftAt(R, Q, e)
    BY <2>1, <2>3 DEF LeftAt
  <2>5. \A i \in 1..Len(Q.recs) : e[i] = i
    OBVIOUS
  <2> HIDE DEF e
  <2>6. Q.lock = 1 /\ Flagged(Q) =>
          \A i \in 1..Len(R.recs) : ~R.recs[i].del /\ ~R.recs[i].new
    BY <1>4, <2>3 DEF Flagged
  <2>7. Unlocked(R, Q, e)
    BY <2>3, <2>4, <2>5, <2>6 DEF Unlocked
  <2> QED
    BY <2>7 DEF R
<1> QED
  BY <1>3, <1>4

\* fqueue_remove_or_operate_all without an operate_func marks what matches
\* under a lock of its own.
LEMMA RemoveMarksAndUnlocks ==
  ASSUME NEW Q \in Queues, NEW matching, Q.recs # <<>>
  PROVE  \E L, e : /\ Marked(L, LockQueue(Q), Candidates(Q, 1) \cap matching)
                   /\ Unlocked(RemoveMatching(Q, matching), L, e)
<1> DEFINE hit == Candidates(Q, 1) \cap matching
           K == LockQueue(Q)
           s == K.recs
           t == [i \in DOMAIN s |-> [s[i] EXCEPT !.del = s[i].del \/ i \in hit]]
           L == [K EXCEPT !.recs = t, !.dirty = @ \/ hit # {}]
<1>1. K \in Queues /\ K.recs = Q.recs /\ K.lock = Q.lock + 1 /\ K.dirty = Q.dirty
  BY DEF LockQueue, Queues
<1>2. RemoveMatching(Q, matching) = UnlockQueue(L)
  BY <1>1 DEF RemoveMatching
<1> HIDE DEF hit, K
<1>3. s \in Seq(Records) /\ DOMAIN s = 1..Len(s) /\ \A i \in 1..Len(s) : s[i] \in Records
  BY <1>1, ElementOfSeq DEF Queues
<1>4. \A i \in 1..Len(s) : t[i] = [s[i] EXCEPT !.del = s[i].del \/ i \in hit]
  BY <1>3
<1>5. ASSUME NEW i \in 1..Len(s)
      PROVE  /\ t[i] \in Records
             /\ t[i].rid = s[i].rid /\ t[i].obj = s[i].obj /\ t[i].new = s[i].new
             /\ t[i].del <=> (s[i].del \/ i \in hit)
  BY <1>3, <1>4 DEF Records
<1>6. t \in [1..Len(s) -> Records] /\ Len(s) \in Nat
  <2>1. t = [i \in 1..Len(s) |-> t[i]]
    BY <1>3
  <2> HIDE DEF t
  <2>2. \A i \in 1..Len(s) : t[i] \in Records
    BY <1>5
  <2>3. t \in [1..Len(s) -> Records]
    BY <2>1, <2>2, Zenon
  <2> QED
    BY <1>3, <2>3
<1> HIDE DEF t
<1>7. t \in Seq(Records) /\ Len(t) = Len(s)
  <2>1. t \in Seq(Records)
    BY <1>6
  <2> QED
    BY <1>6, <2>1
<1>8. L \in Queues /\ L.recs = t /\ L.lock = K.lock /\ L.dirty = (K.dirty \/ hit # {})
  BY <1>1, <1>7 DEF Queues
<1> HIDE DEF L
<1>9. Marked(L, K, hit)
  BY <1>5, <1>7, <1>8 DEF Marked
<1>10. PICK e : Unlocked(UnlockQueue(L), L, e)
  <2>1. L.lock > 0
    BY <1>1, <1>8 DEF Queues
  <2> QED
    BY <1>8, <2>1, UnlockUnlocks
<1> QED
  BY <1>2, <1>9, <1>10 DEF hit, K

-----------------------------------------------------------------------------
\* What is left of a queue has no heap cell twice.
LEMMA LeftDistinct ==
  ASSUME NEW R, NEW Q \in Queues, NEW e, LeftAt(R, Q, e), Distinct(Q), Len(R.recs) \in Nat
  PROVE  Distinct(R)
<1>1. ASSUME NEW i \in 1..Len(R.recs), NEW j \in 1..Len(R.recs), R.recs[i].rid = R.recs[j].rid
      PROVE  i = j
  <2>1. e[i] \in 1..Len(Q.recs) /\ e[j] \in 1..Len(Q.recs)
    BY DEF LeftAt
  <2>2. Q.recs[e[i]].rid = Q.recs[e[j]].rid
    BY <1>1 DEF LeftAt, SameRec
  <2>3. e[i] = e[j]
    BY <2>1, <2>2 DEF Distinct
  <2>4. ~(i < j) /\ ~(j < i)
    <3>1. e[i] \in Int /\ ~(e[i] < e[j]) /\ ~(e[j] < e[i])
      BY <2>1, <2>3
    <3> QED
      BY <3>1 DEF LeftAt
  <2> QED
    BY <2>4
<1> QED
  BY <1>1 DEF Distinct

\* A record with a fresh heap cell keeps the cells distinct.
LEMMA InsertedDistinct ==
  ASSUME NEW R, NEW Q \in Queues, NEW m, NEW r, Inserted(R, Q, m, r), Distinct(Q),
         r.rid \notin RecIds(Q)
  PROVE  Distinct(R)
<1>1. Len(Q.recs) \in Nat /\ DOMAIN Q.recs = 1..Len(Q.recs)
  BY DEF Queues
<1> DEFINE n == Len(Q.recs)
           src(i) == IF i < m THEN i ELSE i - 1
<1>2. /\ m \in 1..(n + 1) /\ Len(R.recs) = n + 1 /\ R.recs[m] = r
      /\ \A i \in 1..(m - 1) : R.recs[i] = Q.recs[i]
      /\ \A i \in m..n : R.recs[i + 1] = Q.recs[i]
  BY DEF Inserted
<1>3. \A i \in 1..n : Q.recs[i].rid # r.rid
  BY <1>1 DEF RecIds
<1> HIDE DEF n
<1>4. ASSUME NEW i \in 1..(n + 1), i # m
      PROVE  src(i) \in 1..n /\ R.recs[i] = Q.recs[src(i)]
  <2>1. CASE i < m
    <3>1. i \in 1..(m - 1) /\ i \in 1..n
      BY <1>1, <1>2, <2>1 DEF n
    <3> QED
      BY <1>2, <2>1, <3>1
  <2>2. CASE ~(i < m)
    <3>1. i - 1 \in m..n /\ i - 1 \in 1..n /\ (i - 1) + 1 = i
      BY <1>1, <1>2, <1>4, <2>2 DEF n
    <3>2. R.recs[(i - 1) + 1] = Q.recs[i - 1]
      BY <1>2, <3>1
    <3> QED
      BY <2>2, <3>1, <3>2
  <2> QED
    BY <2>1, <2>2
<1>5. ASSUME NEW i \in 1..(n + 1), NEW j \in 1..(n + 1), R.recs[i].rid = R.recs[j].rid
      PROVE  i = j
  <2>1. CASE i = m /\ j # m
    BY <1>2, <1>3, <1>4, <1>5, <2>1
  <2>2. CASE i # m /\ j = m
    BY <1>2, <1>3, <1>4, <1>5, <2>2
  <2>3. CASE i # m /\ j # m
    <3>1. src(i) = src(j)
      <4>1. src(i) \in 1..n /\ src(j) \in 1..n
        BY <1>4, <2>3
      <4>2. Q.recs[src(i)].rid = Q.recs[src(j)].rid
        BY <1>4, <1>5, <2>3
      <4> HIDE DEF src
      <4> QED
        BY <4>1, <4>2 DEF Distinct, n
    <3> QED
      BY <1>2, <2>3, <3>1
  <2> QED
    BY <2>1, <2>2, <2>3
<1> QED
  BY <1>2, <1>5 DEF Distinct

-----------------------------------------------------------------------------
\* The walks C under way over queue Q: what holds of the two whatever the
\* commands have done.  It is the inductive core of WalksSound.
Sane(Q, C) ==
  /\ Q \in Queues /\ Distinct(Q) /\ Flagged(Q)
  /\ C \in Seq(Calls) /\ Q.lock = Len(C)
  /\ \A k \in 1..Len(C) : C[k].cur \in RecIds(Q)
  /\ C = <<>> => \A i \in 1..Len(Q.recs) : ~Q.recs[i].del /\ ~Q.recs[i].new

\* The same in the middle of a step: a walk on top of those of C holds one
\* more lock, and stands at no record.
Walked(Q, C) ==
  /\ Q \in Queues /\ Distinct(Q) /\ Flagged(Q)
  /\ C \in Seq(Calls) /\ Q.lock = Len(C) + 1
  /\ \A k \in 1..Len(C) : C[k].cur \in RecIds(Q)

\* What a walk does next: it ends, or it stops at a due record i.
WalkEnds(Q, C) == sq' = UnlockQueue(Q) /\ calls' = C

\* The walk stops at record i, which is due and neither new nor marked.
WalkStops(Q, from, now, C, i) ==
  /\ i \in 1..Len(Q.recs) /\ i >= from
  /\ ~Q.recs[i].new /\ ~Q.recs[i].del /\ TimeReached(now, Q.recs[i].obj.due)
  /\ sq' = Q /\ calls' = Append(C, [now |-> now, cur |-> Q.recs[i].rid])

\* A walk does one of the two.
LEMMA WalkCases ==
  ASSUME NEW Q \in Queues, NEW from, NEW now, NEW C, Walk(Q, from, now, C)
  PROVE  WalkEnds(Q, C) \/ \E i : WalkStops(Q, from, now, C, i)
<1> DEFINE due == {i \in Candidates(Q, from) : TimeReached(now, Q.recs[i].obj.due)}
<1>1. DOMAIN Q.recs = 1..Len(Q.recs) /\ Len(Q.recs) \in Nat
  BY DEF Queues
<1>2. CASE due = {}
  BY <1>2 DEF Walk, WalkEnds
<1>3. CASE due # {}
  <2>1. due \in SUBSET Nat
    BY <1>1 DEF Candidates
  <2>2. PICK i : i = MinOf(due)
    OBVIOUS
  <2>3. i \in due
    BY <1>3, <2>1, <2>2, MinOfLeast
  <2>4. sq' = Q /\ calls' = Append(C, [now |-> now, cur |-> Q.recs[i].rid])
    BY <1>3, <2>2 DEF Walk
  <2>5. WalkStops(Q, from, now, C, i)
    BY <1>1, <2>3, <2>4 DEF WalkStops, Candidates
  <2> QED
    BY <2>5
<1> QED
  BY <1>2, <1>3

\* However the walk goes on, queue and walks are as they should be.
LEMMA WalkSane ==
  ASSUME NEW Q, NEW C, Walked(Q, C), NEW from, NEW now \in 0 .. Wrap - 1,
         Walk(Q, from, now, C)
  PROVE  Sane(sq', calls')
<1>0. /\ Q \in Queues /\ Distinct(Q) /\ Flagged(Q)
      /\ C \in Seq(Calls) /\ Q.lock = Len(C) + 1 /\ Len(C) \in Nat
  BY DEF Walked
<1>1. WalkEnds(Q, C) \/ \E i : WalkStops(Q, from, now, C, i)
  BY <1>0, WalkCases
<1>2. CASE WalkEnds(Q, C)
  <2>1. PICK R : R = UnlockQueue(Q)
    OBVIOUS
  <2>2. PICK e : Unlocked(R, Q, e)
    BY <1>0, <2>1, UnlockUnlocks
  <2>3. R \in Queues /\ R.lock = Len(C) /\ R.dirty = Q.dirty /\ Len(R.recs) \in Nat
    BY <1>0, <2>2 DEF Unlocked, Queues
  <2>4. Distinct(R)
    BY <1>0, <2>2, <2>3, LeftDistinct DEF Unlocked
  <2>5. CASE C = <<>>
    <3>1. \A i \in 1..Len(R.recs) : ~R.recs[i].del /\ ~R.recs[i].new
      BY <1>0, <2>2, <2>5 DEF Unlocked
    <3>2. Sane(R, C)
      BY <1>0, <2>3, <2>4, <2>5, <3>1 DEF Sane, Flagged
    <3> QED
      BY <1>2, <2>1, <3>2 DEF WalkEnds
  <2>6. CASE C # <<>>
    <3>1. R.recs = Q.recs
      <4>1. Len(C) # 0
        BY <1>0, <2>6
      <4> QED
        BY <1>0, <2>2, <4>1 DEF Unlocked
    <3>2. \A k \in 1..Len(C) : C[k].cur \in RecIds(R)
      BY <3>1 DEF Walked, RecIds
    <3>3. Flagged(R)
      BY <1>0, <2>3, <3>1 DEF Flagged
    <3>4. Sane(R, C)
      BY <1>0, <2>3, <2>4, <2>6, <3>2, <3>3 DEF Sane
    <3> QED
      BY <1>2, <2>1, <3>4 DEF WalkEnds
  <2> QED
    BY <2>5, <2>6
<1>3. ASSUME NEW i, WalkStops(Q, from, now, C, i) PROVE Sane(sq', calls')
  <2>1. Q.recs[i] \in Records /\ DOMAIN Q.recs = 1..Len(Q.recs)
    BY <1>0, <1>3, ElementOfSeq DEF WalkStops, Queues
  <2>2. PICK c : c = [now |-> now, cur |-> Q.recs[i].rid]
    OBVIOUS
  <2>3. c \in Calls /\ c.cur \in RecIds(Q)
    BY <1>3, <2>1, <2>2 DEF Records, Calls, RecIds, WalkStops
  <2>4. PICK D : D = Append(C, c)
    OBVIOUS
  <2>5. /\ D \in Seq(Calls) /\ Len(D) = Len(C) + 1
        /\ \A k \in 1..Len(C) : D[k] = C[k]
        /\ D[Len(C) + 1] = c
    BY <1>0, <2>3, <2>4
  <2>6. \A k \in 1..Len(D) : D[k].cur \in RecIds(Q)
    <3>1. ASSUME NEW k \in 1..Len(D) PROVE D[k].cur \in RecIds(Q)
      <4>1. k \in 1..Len(C) \/ k = Len(C) + 1
        BY <1>0, <2>5
      <4>2. CASE k \in 1..Len(C)
        BY <2>5, <4>2 DEF Walked
      <4>3. CASE k = Len(C) + 1
        BY <2>3, <2>5, <4>3
      <4> QED
        BY <4>1, <4>2, <4>3
    <3> QED
      BY <3>1
  <2>7. D # <<>>
    BY <1>0, <2>5
  <2>8. Sane(Q, D)
    BY <1>0, <2>5, <2>6, <2>7 DEF Sane
  <2> QED
    BY <1>3, <2>2, <2>4, <2>8 DEF WalkStops
<1> QED
  BY <1>1, <1>2, <1>3

-----------------------------------------------------------------------------
\* Locking a queue changes nothing but the lock.
LEMMA LockLocks ==
  ASSUME NEW Q \in Queues
  PROVE  /\ LockQueue(Q) \in Queues /\ LockQueue(Q).recs = Q.recs
         /\ LockQueue(Q).lock = Q.lock + 1 /\ LockQueue(Q).dirty = Q.dirty
BY DEF LockQueue, Queues

\* A new record leaves the queue flagged as it must be.
LEMMA InsertedFlagged ==
  ASSUME NEW R, NEW Q \in Queues, NEW m, NEW rid, NEW obj,
         Inserted(R, Q, m, NewRecord(Q, rid, obj)), Flagged(Q)
  PROVE  /\ Flagged(R) /\ RecIds(Q) \subseteq RecIds(R)
         /\ (Q.lock = 0 /\ \A i \in 1..Len(Q.recs) : ~Q.recs[i].del /\ ~Q.recs[i].new) =>
               \A i \in 1..Len(R.recs) : ~R.recs[i].del /\ ~R.recs[i].new
<1> DEFINE r == NewRecord(Q, rid, obj)
           n == Len(Q.recs)
<1>1. /\ n \in Nat /\ DOMAIN Q.recs = 1..n /\ Q.lock \in Nat /\ Q.dirty \in BOOLEAN
  BY DEF Queues
<1>2. /\ R \in Queues /\ R.dirty = (Q.dirty \/ Q.lock > 0)
      /\ m \in 1..(n + 1) /\ Len(R.recs) = n + 1 /\ R.recs[m] = r
      /\ \A i \in 1..(m - 1) : R.recs[i] = Q.recs[i]
      /\ \A i \in m..n : R.recs[i + 1] = Q.recs[i]
  BY DEF Inserted
<1>3. ~r.del /\ (r.new <=> Q.lock > 0)
  BY DEF NewRecord
<1>4. DOMAIN R.recs = 1..(n + 1)
  BY <1>2 DEF Queues
<1> HIDE DEF r, n
<1>5. ASSUME NEW i \in 1..(n + 1)
      PROVE  R.recs[i] = r \/ \E k \in 1..n : R.recs[i] = Q.recs[k]
  <2>1. CASE i < m
    <3>1. i \in 1..(m - 1) /\ i \in 1..n
      BY <1>1, <1>2, <2>1
    <3> QED
      BY <1>2, <3>1
  <2>2. CASE i = m
    BY <1>2, <2>2
  <2>3. CASE i > m
    <3>1. i - 1 \in m..n /\ i - 1 \in 1..n /\ (i - 1) + 1 = i
      BY <1>1, <1>2, <2>3
    <3> QED
      BY <1>2, <3>1
  <2> QED
    BY <1>2, <2>1, <2>2, <2>3
<1>6. Flagged(R)
  <2>1. ASSUME NEW i \in 1..(n + 1), R.recs[i].del \/ R.recs[i].new PROVE R.dirty
    <3>1. CASE R.recs[i] = r
      BY <1>2, <1>3, <2>1, <3>1
    <3>2. ASSUME NEW k \in 1..n, R.recs[i] = Q.recs[k] PROVE R.dirty
      BY <1>2, <2>1, <3>2 DEF Flagged, n
    <3> QED
      BY <1>5, <3>1, <3>2
  <2> QED
    BY <1>2, <2>1 DEF Flagged
<1>7. RecIds(Q) \subseteq RecIds(R)
  <2>1. ASSUME NEW k \in 1..n PROVE \E i \in 1..(n + 1) : R.recs[i] = Q.recs[k]
    <3>1. CASE k < m
      <4>1. k \in 1..(m - 1) /\ k \in 1..(n + 1)
        BY <1>1, <1>2, <3>1
      <4> QED
        BY <1>2, <4>1
    <3>2. CASE ~(k < m)
      <4>1. k \in m..n /\ k + 1 \in 1..(n + 1)
        BY <1>1, <1>2, <3>2
      <4> QED
        BY <1>2, <4>1
    <3> QED
      BY <3>1, <3>2
  <2> QED
    BY <1>1, <1>4, <2>1 DEF RecIds
<1>8. (Q.lock = 0 /\ \A i \in 1..n : ~Q.recs[i].del /\ ~Q.recs[i].new) =>
         \A i \in 1..(n + 1) : ~R.recs[i].del /\ ~R.recs[i].new
  BY <1>1, <1>3, <1>5
<1> QED
  BY <1>2, <1>6, <1>7, <1>8 DEF n

\* Marking keeps queue and walks as they must be.
LEMMA MarkedFlagged ==
  ASSUME NEW R, NEW Q \in Queues, NEW M, Marked(R, Q, M), Flagged(Q), Distinct(Q),
         M \subseteq 1..Len(Q.recs)
  PROVE  R \in Queues /\ Flagged(R) /\ Distinct(R) /\ RecIds(R) = RecIds(Q)
<1>1. R \in Queues /\ Len(R.recs) \in Nat
  BY DEF Marked, Queues
<1>2. Flagged(R)
  BY <1>1 DEF Marked, Flagged
<1>3. Distinct(R)
  BY <1>1, MarkedLeft, LeftDistinct
<1> QED
  BY <1>1, <1>2, <1>3, MarkedLeft

\* The old record of a periodic job gives its command to the new one.
Silenced(R, Q) ==
  /\ R \in Queues /\ R.lock = Q.lock /\ R.dirty = Q.dirty /\ Len(R.recs) = Len(Q.recs)
  /\ \A i \in 1..Len(Q.recs) :
        /\ SameRec(R.recs[i], Q.recs[i])
        /\ R.recs[i].del = Q.recs[i].del /\ R.recs[i].new = Q.recs[i].new

\* Taking the command from one record does what Silenced says.
LEMMA SilencingSilences ==
  ASSUME NEW Q \in Queues, NEW n \in 1..Len(Q.recs)
  PROVE  Silenced([Q EXCEPT !.recs[n].obj.cmd = FALSE], Q)
<1> DEFINE s == Q.recs
           r == [s[n] EXCEPT !.obj.cmd = FALSE]
           t == [s EXCEPT ![n] = r]
           R == [Q EXCEPT !.recs[n].obj.cmd = FALSE]
<1>1. s \in Seq(Records) /\ \A i \in 1..Len(s) : s[i] \in Records
  BY ElementOfSeq DEF Queues
<1>2. R = [Q EXCEPT !.recs = t]
  OBVIOUS
<1>3. r \in Records /\ SameRec(r, s[n]) /\ r.del = s[n].del /\ r.new = s[n].new
  <2>1. s[n] \in Records /\ s[n].obj \in Objects
    BY <1>1 DEF Records
  <2>2. PICK o : o = [s[n].obj EXCEPT !.cmd = FALSE]
    OBVIOUS
  <2>3. /\ o \in Objects /\ o.job = s[n].obj.job /\ o.id = s[n].obj.id
        /\ o.due = s[n].obj.due /\ o.period = s[n].obj.period
    BY <2>1, <2>2 DEF Objects
  <2>4. r = [s[n] EXCEPT !.obj = o]
    BY <2>2
  <2> HIDE DEF r, s
  <2> QED
    BY <2>1, <2>3, <2>4 DEF Records, SameRec
<1> HIDE DEF r, R
<1>4. t \in Seq(Records) /\ Len(t) = Len(s)
  BY <1>1, <1>3
<1>5. \A i \in 1..Len(s) : t[i] = IF i = n THEN r ELSE s[i]
  BY <1>1
<1> HIDE DEF t
<1>6. R \in Queues /\ R.recs = t /\ R.lock = Q.lock /\ R.dirty = Q.dirty
  BY <1>2, <1>4 DEF Queues
<1>7. \A i \in 1..Len(s) :
         SameRec(t[i], s[i]) /\ t[i].del = s[i].del /\ t[i].new = s[i].new
  BY <1>3, <1>5 DEF SameRec
<1>8. Silenced(R, Q)
  BY <1>4, <1>6, <1>7 DEF Silenced
<1> QED
  BY <1>8 DEF R

\* A silenced queue has the same heap cells.
LEMMA SilencedKeeps ==
  ASSUME NEW R, NEW Q \in Queues, Silenced(R, Q), Flagged(Q), Distinct(Q)
  PROVE  Flagged(R) /\ Distinct(R) /\ RecIds(R) = RecIds(Q)
<1>1. DOMAIN Q.recs = 1..Len(Q.recs) /\ DOMAIN R.recs = 1..Len(R.recs)
  BY DEF Silenced, Queues
<1>2. Flagged(R)
  BY DEF Silenced, Flagged
<1>3. Distinct(R)
  BY DEF Silenced, SameRec, Distinct
<1>4. RecIds(R) = RecIds(Q)
  BY <1>1 DEF Silenced, SameRec, RecIds
<1> QED
  BY <1>2, <1>3, <1>4

-----------------------------------------------------------------------------
\* The types of the variables that are not the queue or its walks.
Scalars ==
  /\ clock \in 0 .. Wrap - 1 /\ evtime \in 0 .. Wrap - 1
  /\ lastId \in (-AutoIds .. 0) \cup Ids /\ nextId \in -AutoIds .. -1
  /\ owed \in [RIds -> Nat] /\ descheduled \subseteq Jobs

\* The inductive invariant of the queue and its walks.
Inv == Scalars /\ Sane(sq, calls)

\* The type invariant follows.
LEMMA InvTypeOK ==
  ASSUME Inv PROVE TypeOK
<1>1. /\ sq \in Queues /\ calls \in Seq(Calls) /\ Distinct(sq)
  BY DEF Inv, Sane
<1>2. DOMAIN sq.recs = 1..Len(sq.recs) /\ DOMAIN calls = 1..Len(calls)
  BY <1>1 DEF Queues
<1>3. \A i \in DOMAIN sq.recs : sq.recs[i] \in Records
  BY <1>1, <1>2, ElementOfSeq DEF Queues
<1>4. \A k \in DOMAIN calls : calls[k] \in Calls
  BY <1>1, <1>2, ElementOfSeq
<1>5. sq.lock \in Nat /\ sq.dirty \in BOOLEAN
  BY <1>1 DEF Queues
<1> QED
  BY <1>1, <1>2, <1>3, <1>4, <1>5 DEF TypeOK, Inv, Scalars, Distinct, Records, Calls

\* The soundness of the walks follows.
LEMMA InvWalksSound ==
  ASSUME Inv PROVE WalksSound
<1>1. /\ sq \in Queues /\ calls \in Seq(Calls)
  BY DEF Inv, Sane
<1>2. DOMAIN sq.recs = 1..Len(sq.recs) /\ DOMAIN calls = 1..Len(calls)
  BY <1>1 DEF Queues
<1>3. Depth = 0 => calls = <<>>
  BY <1>1 DEF Depth
<1> QED
  BY <1>2, <1>3 DEF WalksSound, NoDanglingWalk, LockDiscipline, Inv, Sane, Depth

\* A remainder lies below the divisor.
LEMMA ModRange ==
  ASSUME NEW N \in Nat \ {0}, NEW x \in Int
  PROVE  x % N \in 0 .. N - 1
BY SMTT(30)

\* fev_last_timestamp is a time of the server.
LEMMA TimestampTyped ==
  ASSUME Scalars PROVE Timestamp \in 0 .. Wrap - 1
BY DEF Scalars, Timestamp

\* The period of a job is one of the delays, or 0.
LEMMA ObjectPeriod ==
  ASSUME NEW o \in Objects
  PROVE  o.period \in Delays \cup {0} /\ o.period \in Nat
<1>1. o.period \in Delays \cup {0}
  BY DEF Objects
<1>2. Delays \cup {0} \subseteq Nat
  BY DelayAssumption
<1> QED
  BY <1>1, <1>2

\* What remains of a delay is a number.
LEMMA RemainingTyped ==
  ASSUME Scalars, NEW ms \in Nat
  PROVE  Remaining(ms) \in Nat
<1>1. clock - evtime \in Int
  BY ClockAssumption DEF Scalars
<1>2. Lag \in 0 .. Wrap - 1
  BY <1>1, ModRange, ClockAssumption DEF Lag
<1> QED
  BY <1>2, ClockAssumption DEF Remaining

\* A new command finds a free heap cell.
LEMMA RoomFree ==
  ASSUME sq \in Queues, calls \in Seq(Calls), Room > 0
  PROVE  FreeRIds # {}
<1>1. SUFFICES ASSUME FreeRIds = {} PROVE FALSE
  OBVIOUS
<1>2. Requeues \in Nat
  <2> DEFINE S == {i \in Candidates(sq, 1) : sq.recs[i].obj.period > 0}
  <2>1. Len(sq.recs) \in Nat /\ DOMAIN sq.recs = 1..Len(sq.recs)
    BY DEF Queues
  <2>2. S \subseteq 1..Len(sq.recs)
    BY <2>1 DEF Candidates
  <2>3. IsFiniteSet(1..Len(sq.recs))
    BY <2>1, FS_Interval
  <2>4. IsFiniteSet(S)
    BY <2>2, <2>3, FS_Subset
  <2> HIDE DEF S
  <2>5. Cardinality(S) \in Nat
    BY <2>4, FS_CardinalityType
  <2> QED
    BY <2>5 DEF Requeues, S
<1>3. Cardinality(FreeRIds) = 0
  BY <1>1, FS_EmptySet
<1>4. Depth \in Nat
  BY DEF Depth
<1> QED
  BY <1>2, <1>3, <1>4 DEF Room

\* CMD_Schedule links one record, with a job and a heap cell not in use.
Scheduled(obj, rid, m) ==
  /\ obj \in Objects /\ rid \in FreeRIds /\ obj.job \in FreeJobs
  /\ Inserted(sq', sq, m, NewRecord(sq, rid, obj))
  /\ \A i \in LaterThan(obj) : m <= i
  /\ m = Len(sq.recs) + 1 \/ m \in LaterThan(obj)

\* What CMD_Schedule does to the queue and to the history.
LEMMA ScheduleEffect ==
  ASSUME Inv, NEW ms \in Delays, NEW periodic \in Modes, NEW explicit \in ExplicitIds,
         CmdSchedule(ms, periodic, explicit)
  PROVE  \E obj, rid, m :
            /\ Scheduled(obj, rid, m)
            /\ obj.due = (evtime + ms) % LongMod
            /\ owed' = [owed EXCEPT ![rid] = Remaining(ms)]
            /\ descheduled' = descheduled \ {obj.job}
            /\ Scalars'
<1> DEFINE id  == IF explicit = {} THEN nextId ELSE CHOOSE i \in explicit : TRUE
           job == CHOOSE j \in FreeJobs : TRUE
           rid == CHOOSE r \in FreeRIds : TRUE
           obj == [job |-> job, id |-> id, due |-> (evtime + ms) % LongMod,
                   period |-> IF periodic THEN ms ELSE 0, cmd |-> TRUE]
<1>1. /\ sq' = AddInside(sq, rid, obj, LaterThan(obj))
      /\ lastId' = id
      /\ nextId' = IF explicit = {} THEN NextAuto(nextId) ELSE nextId
      /\ owed' = [owed EXCEPT ![rid] = Remaining(ms)]
      /\ descheduled' = descheduled \ {job}
      /\ clock' = clock /\ evtime' = evtime
  BY DEF CmdSchedule
<1>2. sq \in Queues /\ calls \in Seq(Calls) /\ Scalars
  BY DEF Inv, Sane
<1>3. job \in FreeJobs
  BY DEF CmdSchedule
<1>4. rid \in FreeRIds
  <2>1. FreeRIds # {}
    BY <1>2, RoomFree DEF CmdSchedule
  <2> QED
    BY <2>1
<1>5. id \in -AutoIds .. -1 \cup Ids
  <2>1. CASE explicit = {}
    BY <1>2, <2>1 DEF Scalars
  <2>2. CASE explicit # {}
    <3>1. id \in explicit
      BY <2>2
    <3>2. explicit \subseteq Ids
      BY DEF ExplicitIds
    <3> QED
      BY <3>1, <3>2
  <2> QED
    BY <2>1, <2>2
<1>6. (evtime + ms) % LongMod \in 0 .. LongMod - 1
  <2>1. evtime + ms \in Int
    BY <1>2, ClockAssumption, DelayAssumption DEF Scalars
  <2> QED
    BY <2>1, ModRange, ClockAssumption
<1>7. /\ obj \in Objects /\ obj.job = job /\ obj.due = (evtime + ms) % LongMod
  <2>1. job \in Jobs
    BY <1>3 DEF FreeJobs
  <2> HIDE DEF id, job
  <2>2. (IF periodic THEN ms ELSE 0) \in Delays \cup {0}
    OBVIOUS
  <2> QED
    BY <1>5, <1>6, <2>1, <2>2 DEF Objects
<1>8. Remaining(ms) \in Nat
  BY <1>2, RemainingTyped, DelayAssumption
<1>9. Scalars'
  <2>1. nextId' \in -AutoIds .. -1
    BY <1>1, <1>2, IdAssumption DEF Scalars, NextAuto
  <2>2. lastId' \in (-AutoIds .. 0) \cup Ids
    <3>1. lastId' = id
      BY <1>1
    <3> HIDE DEF id
    <3> QED
      BY <1>5, <3>1, IdAssumption
  <2>3. owed' \in [RIds -> Nat]
    BY <1>1, <1>2, <1>8 DEF Scalars
  <2>4. descheduled' \subseteq Jobs
    BY <1>1, <1>2 DEF Scalars
  <2> QED
    BY <1>1, <1>2, <2>1, <2>2, <2>3, <2>4 DEF Scalars
<1> HIDE DEF obj, id, job, rid
<1>10. LaterThan(obj) \in SUBSET (1..Len(sq.recs))
  BY <1>2 DEF LaterThan, Queues
<1>11. rid \in RIds
  BY <1>4 DEF FreeRIds
<1>12. PICK m : /\ Inserted(AddInside(sq, rid, obj, LaterThan(obj)), sq, m, NewRecord(sq, rid, obj))
                /\ \A i \in LaterThan(obj) : m <= i
                /\ m = Len(sq.recs) + 1 \/ m \in LaterThan(obj)
  BY <1>2, <1>7, <1>10, <1>11, AddInsideInserts
<1>13. Scheduled(obj, rid, m)
  BY <1>1, <1>3, <1>4, <1>7, <1>12 DEF Scheduled
<1> QED
  BY <1>1, <1>7, <1>9, <1>13

\* CMD_Deschedule leaves the queue alone if it is empty, and else marks the
\* jobs of the id under a lock of its own.
LEMMA DescheduleEffect ==
  ASSUME Inv, NEW explicit \in ExplicitIds, CmdDeschedule(explicit)
  PROVE  \/ sq.recs = <<>> /\ sq' = sq
         \/ \E id, L, e : /\ Marked(L, LockQueue(sq), Candidates(sq, 1) \cap
                                   {i \in DOMAIN sq.recs : sq.recs[i].obj.id = id})
                          /\ Unlocked(sq', L, e)
                          /\ descheduled' = descheduled \cup
                               {sq.recs[i].obj.job :
                                  i \in {k \in LiveRecs(sq) : sq.recs[k].obj.id = id}}
<1> DEFINE id == IF explicit = {} THEN lastId ELSE CHOOSE i \in explicit : TRUE
           hits == {i \in DOMAIN sq.recs : sq.recs[i].obj.id = id}
<1>1. /\ sq' = RemoveMatching(sq, hits)
      /\ descheduled' = descheduled \cup
           {sq.recs[i].obj.job : i \in {k \in LiveRecs(sq) : sq.recs[k].obj.id = id}}
  BY DEF CmdDeschedule
<1>2. sq \in Queues
  BY DEF Inv, Sane
<1> HIDE DEF id
<1>3. CASE sq.recs = <<>>
  BY <1>1, <1>3 DEF RemoveMatching
<1>4. CASE sq.recs # <<>>
  <2>1. \E L, e : /\ Marked(L, LockQueue(sq), Candidates(sq, 1) \cap hits)
                  /\ Unlocked(RemoveMatching(sq, hits), L, e)
    BY <1>2, <1>4, RemoveMarksAndUnlocks
  <2> QED
    BY <1>1, <2>1
<1> QED
  BY <1>3, <1>4

\* execute_obj_func returns: Q is the queue with the old record silenced, R
\* with the new one linked, D with the old one marked; then the walk goes on.
Requeued(Q, R, again, rid, m) ==
  /\ Silenced(Q, sq)
  /\ again \in Objects /\ rid \in FreeRIds
  /\ SameRec([rid |-> rid, obj |-> again],
             [rid |-> rid, obj |-> [RunningObj EXCEPT !.due = again.due]])
  /\ again.due = (evtime + again.period) % LongMod
  /\ Inserted(R, Q, m, NewRecord(Q, rid, again))
  /\ \A i \in LaterThan(again) : m <= i
  /\ m = Len(Q.recs) + 1 \/ m \in LaterThan(again)
  /\ owed' = [owed EXCEPT ![rid] = Remaining(again.period)]

\* The old record is marked and the walk goes on behind it.
WalkGoesOn(R, D) ==
  /\ Marked(D, R, {IndexOfRec(R, TopCall.cur)})
  /\ Walk(D, IndexOfRec(D, TopCall.cur) + 1, TopCall.now, SubSeq(calls, 1, Depth - 1))

\* The walk under way, while there is one.
LEMMA TopFound ==
  ASSUME Inv, Depth > 0
  PROVE  /\ Depth \in Nat /\ TopCall \in Calls /\ TopCall.cur \in RecIds(sq)
         /\ IndexOfRec(sq, TopCall.cur) \in 1..Len(sq.recs)
         /\ sq.recs[IndexOfRec(sq, TopCall.cur)] \in Records
         /\ sq.recs[IndexOfRec(sq, TopCall.cur)].rid = TopCall.cur
         /\ RunningObj = sq.recs[IndexOfRec(sq, TopCall.cur)].obj
         /\ RunningObj \in Objects
<1>1. /\ sq \in Queues /\ calls \in Seq(Calls)
      /\ \A k \in 1..Len(calls) : calls[k].cur \in RecIds(sq)
  BY DEF Inv, Sane
<1>2. Depth \in 1..Len(calls)
  BY <1>1 DEF Depth
<1>3. TopCall \in Calls /\ TopCall.cur \in RecIds(sq)
  BY <1>1, <1>2, ElementOfSeq DEF TopCall
<1>4. /\ IndexOfRec(sq, TopCall.cur) \in 1..Len(sq.recs)
      /\ sq.recs[IndexOfRec(sq, TopCall.cur)].rid = TopCall.cur
  BY <1>1, <1>3, IndexFound
<1>5. sq.recs[IndexOfRec(sq, TopCall.cur)] \in Records
  BY <1>1, <1>4, ElementOfSeq DEF Queues
<1>6. RunningObj = sq.recs[IndexOfRec(sq, TopCall.cur)].obj
  BY DEF RunningObj, RecOf
<1> QED
  BY <1>2, <1>3, <1>4, <1>5, <1>6 DEF Records

\* What the return of a command does before the walk goes on.
LEMMA ReturnEffect ==
  ASSUME Inv, CommandReturns
  PROVE  \E R, D : /\ \/ R = sq /\ RunningObj.period = 0 /\ owed' = owed
                      \/ RunningObj.period > 0 /\ \E Q, again, rid, m : Requeued(Q, R, again, rid, m)
                   /\ WalkGoesOn(R, D)
<1> DEFINE cur == TopCall.cur
           obj == RunningObj
           i   == IndexOfRec(sq, cur)
           again == [obj EXCEPT !.due = (evtime + obj.period) % LongMod]
           rid == CHOOSE r \in FreeRIds : TRUE
           Q == [sq EXCEPT !.recs[i].obj.cmd = FALSE]
           requeued == AddInside(Q, rid, again, LaterThan(again))
           R == IF obj.period > 0 THEN requeued ELSE sq
           D == MarkDeleted(R, cur)
<1>1. Depth > 0 /\ (obj.period > 0 => FreeRIds # {})
  BY DEF CommandReturns
<1>2. /\ owed' = IF obj.period > 0 THEN [owed EXCEPT ![rid] = Remaining(obj.period)] ELSE owed
      /\ Walk(D, IndexOfRec(D, cur) + 1, TopCall.now, SubSeq(calls, 1, Depth - 1))
  BY DEF CommandReturns
<1>3. /\ sq \in Queues /\ Flagged(sq) /\ Distinct(sq) /\ Scalars
  BY DEF Inv, Sane
<1>4. /\ cur \in RecIds(sq) /\ i \in 1..Len(sq.recs) /\ obj \in Objects
  BY <1>1, TopFound
<1> HIDE DEF cur, obj, i
<1>5. obj.period \in Nat
  <2>1. obj \in Objects
    BY <1>4
  <2> QED
    BY <2>1, ObjectPeriod
<1>6. CASE obj.period > 0
  <2>1. rid \in FreeRIds
    BY <1>1, <1>6
  <2>2. (evtime + obj.period) % LongMod \in 0 .. LongMod - 1
    <3>1. evtime + obj.period \in Int
      BY <1>3, <1>5, ClockAssumption DEF Scalars
    <3> QED
      BY <3>1, ModRange, ClockAssumption
  <2>3. /\ again \in Objects /\ again.due = (evtime + obj.period) % LongMod
        /\ again.period = obj.period /\ again.job = obj.job /\ again.id = obj.id
    BY <1>4, <2>2 DEF Objects
  <2>4. Silenced(Q, sq)
    BY <1>3, <1>4, SilencingSilences
  <2> HIDE DEF Q, again, rid
  <2>5. Q \in Queues /\ RecIds(Q) = RecIds(sq) /\ Len(Q.recs) = Len(sq.recs)
    BY <1>3, <2>4, SilencedKeeps DEF Silenced
  <2>6. LaterThan(again) \in SUBSET (1..Len(Q.recs))
    BY <1>3, <2>5 DEF LaterThan, Queues
  <2>7. rid \in RIds
    BY <2>1 DEF FreeRIds
  <2>8. PICK m : /\ Inserted(requeued, Q, m, NewRecord(Q, rid, again))
                 /\ \A k \in LaterThan(again) : m <= k
                 /\ m = Len(Q.recs) + 1 \/ m \in LaterThan(again)
    BY <2>3, <2>5, <2>6, <2>7, AddInsideInserts
  <2>9. SameRec([rid |-> rid, obj |-> again],
                [rid |-> rid, obj |-> [obj EXCEPT !.due = again.due]])
    BY <1>4, <2>3 DEF SameRec, Objects
  <2>10. owed' = [owed EXCEPT ![rid] = Remaining(again.period)]
    BY <1>2, <1>6, <2>3 DEF rid
  <2>11. Requeued(Q, requeued, again, rid, m)
    BY <2>1, <2>3, <2>4, <2>8, <2>9, <2>10 DEF Requeued, obj
  <2>12. R = requeued
    BY <1>6
  <2>13. R \in Queues /\ cur \in RecIds(R)
    <3>1. Flagged(Q) /\ cur \in RecIds(Q)
      BY <1>3, <1>4, <2>4, SilencedKeeps
    <3>2. RecIds(Q) \subseteq RecIds(requeued)
      BY <2>5, <2>8, <3>1, InsertedFlagged
    <3> QED
      BY <2>8, <2>12, <3>1, <3>2 DEF Inserted
  <2> HIDE DEF R, requeued
  <2>14. Marked(D, R, {IndexOfRec(R, cur)})
    BY <2>13, MarkDeletedMarks
  <2>15. WalkGoesOn(R, D)
    BY <1>2, <2>14 DEF WalkGoesOn, cur
  <2> QED
    BY <1>6, <2>11, <2>12, <2>15 DEF obj
<1>7. CASE ~(obj.period > 0)
  <2>1. R = sq /\ owed' = owed /\ obj.period = 0
    BY <1>2, <1>5, <1>7
  <2> HIDE DEF R
  <2>2. Marked(D, R, {IndexOfRec(R, cur)})
    BY <1>3, <1>4, <2>1, MarkDeletedMarks
  <2>3. WalkGoesOn(R, D)
    BY <1>2, <2>2 DEF WalkGoesOn, cur
  <2> QED
    BY <2>1, <2>3 DEF obj
<1> QED
  BY <1>6, <1>7

-----------------------------------------------------------------------------
\* Every operation keeps queue and walks as they must be.
LEMMA ScheduleSane ==
  ASSUME Inv, NEW obj, NEW rid, NEW m, Scheduled(obj, rid, m), calls' = calls
  PROVE  Sane(sq', calls')
<1>1. /\ sq \in Queues /\ Distinct(sq) /\ Flagged(sq)
      /\ calls \in Seq(Calls) /\ sq.lock = Len(calls)
      /\ \A k \in 1..Len(calls) : calls[k].cur \in RecIds(sq)
      /\ calls = <<>> => \A i \in 1..Len(sq.recs) : ~sq.recs[i].del /\ ~sq.recs[i].new
  BY DEF Inv, Sane
<1>2. Inserted(sq', sq, m, NewRecord(sq, rid, obj)) /\ rid \notin RecIds(sq)
  BY DEF Scheduled, FreeRIds
<1>3. NewRecord(sq, rid, obj).rid = rid
  BY DEF NewRecord
<1>4. PICK R : R = sq'
  OBVIOUS
<1>5. Inserted(R, sq, m, NewRecord(sq, rid, obj))
  BY <1>2, <1>4
<1>6. /\ Flagged(R) /\ RecIds(sq) \subseteq RecIds(R)
      /\ (sq.lock = 0 /\ \A i \in 1..Len(sq.recs) : ~sq.recs[i].del /\ ~sq.recs[i].new) =>
            \A i \in 1..Len(R.recs) : ~R.recs[i].del /\ ~R.recs[i].new
  BY <1>1, <1>5, InsertedFlagged
<1>7. Distinct(R)
  BY <1>1, <1>2, <1>3, <1>5, InsertedDistinct
<1>8. R \in Queues /\ R.lock = sq.lock
  BY <1>5 DEF Inserted
<1>9. calls = <<>> => sq.lock = 0
  BY <1>1
<1>10. Sane(R, calls)
  BY <1>1, <1>6, <1>7, <1>8, <1>9 DEF Sane
<1> QED
  BY <1>4, <1>10

\* CMD_Deschedule marks records and unlocks.
LEMMA DescheduleSane ==
  ASSUME Inv, NEW L, NEW M, NEW e, Marked(L, LockQueue(sq), M), M \subseteq 1..Len(sq.recs),
         Unlocked(sq', L, e), calls' = calls
  PROVE  Sane(sq', calls')
<1>1. /\ sq \in Queues /\ Distinct(sq) /\ Flagged(sq)
      /\ calls \in Seq(Calls) /\ sq.lock = Len(calls) /\ Len(calls) \in Nat
      /\ \A k \in 1..Len(calls) : calls[k].cur \in RecIds(sq)
  BY DEF Inv, Sane
<1>2. PICK K : K = LockQueue(sq)
  OBVIOUS
<1>3. K \in Queues /\ K.recs = sq.recs /\ K.lock = sq.lock + 1 /\ K.dirty = sq.dirty
  BY <1>1, <1>2, LockLocks
<1>4. Distinct(K) /\ Flagged(K) /\ RecIds(K) = RecIds(sq)
  BY <1>1, <1>3 DEF Distinct, Flagged, RecIds
<1>5. /\ L \in Queues /\ Flagged(L) /\ Distinct(L) /\ RecIds(L) = RecIds(sq)
  BY <1>2, <1>3, <1>4, MarkedFlagged
<1>6. L.lock = Len(calls) + 1
  BY <1>1, <1>2, <1>3 DEF Marked
<1>7. PICK R : R = sq'
  OBVIOUS
<1>8. Unlocked(R, L, e)
  BY <1>7
<1>9. R \in Queues /\ R.lock = Len(calls) /\ R.dirty = L.dirty /\ Len(R.recs) \in Nat
  BY <1>1, <1>6, <1>8 DEF Unlocked, Queues
<1>10. Distinct(R)
  BY <1>5, <1>8, <1>9, LeftDistinct DEF Unlocked
<1>11. CASE calls = <<>>
  <2>1. \A i \in 1..Len(R.recs) : ~R.recs[i].del /\ ~R.recs[i].new
    BY <1>5, <1>6, <1>8, <1>11 DEF Unlocked
  <2>2. Sane(R, calls)
    BY <1>1, <1>9, <1>10, <1>11, <2>1 DEF Sane, Flagged
  <2> QED
    BY <1>7, <2>2
<1>12. CASE calls # <<>>
  <2>1. R.recs = L.recs
    <3>1. Len(calls) # 0
      BY <1>1, <1>12
    <3> QED
      BY <1>1, <1>6, <1>8, <3>1 DEF Unlocked
  <2>2. RecIds(R) = RecIds(sq)
    BY <1>5, <2>1 DEF RecIds
  <2>3. Flagged(R)
    BY <1>5, <1>9, <2>1 DEF Flagged
  <2>4. Sane(R, calls)
    BY <1>1, <1>9, <1>10, <1>12, <2>2, <2>3 DEF Sane
  <2> QED
    BY <1>7, <2>4
<1> QED
  BY <1>11, <1>12

\* squeue_execute locks the queue and starts a walk.
LEMMA ExecuteSane ==
  ASSUME Inv, SqueueExecute
  PROVE  Sane(sq', calls')
<1>1. /\ sq \in Queues /\ Distinct(sq) /\ Flagged(sq)
      /\ calls \in Seq(Calls) /\ sq.lock = Len(calls)
      /\ \A k \in 1..Len(calls) : calls[k].cur \in RecIds(sq)
  BY DEF Inv, Sane
<1>2. PICK K : K = LockQueue(sq)
  OBVIOUS
<1>3. K \in Queues /\ K.recs = sq.recs /\ K.lock = sq.lock + 1 /\ K.dirty = sq.dirty
  BY <1>1, <1>2, LockLocks
<1>4. Distinct(K) /\ Flagged(K) /\ RecIds(K) = RecIds(sq)
  BY <1>1, <1>3 DEF Distinct, Flagged, RecIds
<1>5. Walked(K, calls)
  BY <1>1, <1>3, <1>4 DEF Walked
<1>6. clock \in 0 .. Wrap - 1
  BY DEF Inv, Scalars
<1>7. Walk(K, 1, clock, calls)
  BY <1>2 DEF SqueueExecute
<1> QED
  BY <1>5, <1>6, <1>7, WalkSane

\* The walks below the innermost one.
LEMMA OuterWalks ==
  ASSUME Inv, Depth > 0, NEW outer, outer = SubSeq(calls, 1, Depth - 1)
  PROVE  /\ outer \in Seq(Calls) /\ Len(outer) + 1 = Depth /\ Len(outer) \in Nat
         /\ \A k \in 1..Len(outer) : outer[k] = calls[k] /\ k \in 1..Len(calls)
<1>1. calls \in Seq(Calls) /\ Depth \in 1..Len(calls) /\ Depth = Len(calls)
  BY DEF Inv, Sane, Depth
<1>2. /\ outer \in Seq(Calls) /\ Len(outer) = Depth - 1
      /\ \A k \in 1..(Depth - 1) : outer[k] = calls[k]
  BY <1>1, SubSeqProperties
<1> QED
  BY <1>1, <1>2

\* When a command has returned, the queue is as a walk expects it.
LEMMA ReturnWalked ==
  ASSUME Inv, Depth > 0, NEW R, NEW D, WalkGoesOn(R, D),
         \/ R = sq /\ RunningObj.period = 0 /\ owed' = owed
         \/ RunningObj.period > 0 /\ \E Q, again, rid, m : Requeued(Q, R, again, rid, m)
  PROVE  /\ Walked(D, SubSeq(calls, 1, Depth - 1))
         /\ R \in Queues /\ Flagged(R) /\ Distinct(R) /\ R.lock = sq.lock
         /\ RecIds(sq) \subseteq RecIds(R) /\ TopCall.cur \in RecIds(R)
<1>1. /\ sq \in Queues /\ Distinct(sq) /\ Flagged(sq)
      /\ calls \in Seq(Calls) /\ sq.lock = Len(calls)
      /\ \A k \in 1..Len(calls) : calls[k].cur \in RecIds(sq)
  BY DEF Inv, Sane
<1>2. /\ R \in Queues /\ Flagged(R) /\ Distinct(R) /\ R.lock = sq.lock
      /\ RecIds(sq) \subseteq RecIds(R)
  <2>1. CASE R = sq
    BY <1>1, <2>1
  <2>2. ASSUME NEW Q, NEW again, NEW rid, NEW m, Requeued(Q, R, again, rid, m)
        PROVE  /\ R \in Queues /\ Flagged(R) /\ Distinct(R) /\ R.lock = sq.lock
               /\ RecIds(sq) \subseteq RecIds(R)
    <3>1. /\ Silenced(Q, sq) /\ rid \in FreeRIds
          /\ Inserted(R, Q, m, NewRecord(Q, rid, again))
      BY <2>2 DEF Requeued
    <3>2. Q \in Queues /\ Flagged(Q) /\ Distinct(Q) /\ RecIds(Q) = RecIds(sq) /\ Q.lock = sq.lock
      BY <1>1, <3>1, SilencedKeeps DEF Silenced
    <3>3. rid \notin RecIds(Q) /\ NewRecord(Q, rid, again).rid = rid
      BY <3>1, <3>2 DEF FreeRIds, NewRecord
    <3>4. Distinct(R)
      BY <3>1, <3>2, <3>3, InsertedDistinct
    <3>5. Flagged(R) /\ RecIds(Q) \subseteq RecIds(R)
      BY <3>1, <3>2, InsertedFlagged
    <3> QED
      BY <3>1, <3>2, <3>4, <3>5 DEF Inserted
  <2> QED
    BY <2>1, <2>2
<1>3. TopCall.cur \in RecIds(R)
  BY <1>2, TopFound
<1>4. Marked(D, R, {IndexOfRec(R, TopCall.cur)})
  BY DEF WalkGoesOn
<1>5. D \in Queues /\ Flagged(D) /\ Distinct(D) /\ RecIds(D) = RecIds(R) /\ D.lock = R.lock
  <2>1. {IndexOfRec(R, TopCall.cur)} \subseteq 1..Len(R.recs)
    BY <1>2, <1>3, IndexFound
  <2>2. D.lock = R.lock
    BY <1>4 DEF Marked
  <2> QED
    BY <1>2, <1>4, <2>1, <2>2, MarkedFlagged
<1>6. PICK outer : outer = SubSeq(calls, 1, Depth - 1)
  OBVIOUS
<1>7. /\ outer \in Seq(Calls) /\ Len(outer) + 1 = Depth
      /\ \A k \in 1..Len(outer) : outer[k] = calls[k] /\ k \in 1..Len(calls)
  BY <1>6, OuterWalks
<1>8. Walked(D, outer)
  BY <1>1, <1>2, <1>5, <1>7 DEF Walked, Depth
<1> QED
  BY <1>2, <1>3, <1>6, <1>8

\* The walk that goes on leaves queue and walks sane.
LEMMA ReturnSane ==
  ASSUME Inv, CommandReturns
  PROVE  Sane(sq', calls')
<1>1. Depth > 0
  BY DEF CommandReturns
<1>2. PICK R, D : /\ \/ R = sq /\ RunningObj.period = 0 /\ owed' = owed
                     \/ RunningObj.period > 0 /\ \E Q, again, rid, m : Requeued(Q, R, again, rid, m)
                  /\ WalkGoesOn(R, D)
  BY ReturnEffect
<1>3. Walked(D, SubSeq(calls, 1, Depth - 1))
  BY <1>1, <1>2, ReturnWalked
<1>4. Walk(D, IndexOfRec(D, TopCall.cur) + 1, TopCall.now, SubSeq(calls, 1, Depth - 1))
  BY <1>2 DEF WalkGoesOn
<1>5. TopCall.now \in 0 .. Wrap - 1
  BY <1>1, TopFound DEF Calls
<1> QED
  BY <1>3, <1>4, <1>5, WalkSane

-----------------------------------------------------------------------------
\* fvwm starts with an empty queue.
LEMMA InitInv ==
  ASSUME Init PROVE Inv
<1>1. Scalars
  BY ClockAssumption, IdAssumption DEF Init, Scalars
<1>2. /\ EmptyQueue \in Queues /\ EmptyQueue.recs = <<>>
      /\ EmptyQueue.lock = 0
  <2>1. <<>> \in Seq(Records)
    OBVIOUS
  <2> QED
    BY <2>1 DEF EmptyQueue, Queues
<1>3. Len(EmptyQueue.recs) = 0
  BY <1>2
<1>4. sq = EmptyQueue /\ calls = <<>>
  BY DEF Init
<1>5. <<>> \in Seq(Calls) /\ Len(<<>>) = 0
  OBVIOUS
<1>6. Sane(EmptyQueue, <<>>)
  BY <1>2, <1>3, <1>5 DEF Sane, Distinct, Flagged
<1> QED
  BY <1>1, <1>4, <1>6 DEF Inv

\* Every step keeps the invariant.
LEMMA NextInv ==
  ASSUME Inv, [Next]_vars PROVE Inv'
<1>0. /\ Scalars /\ Sane(sq, calls) /\ sq \in Queues
  BY DEF Inv, Sane
<1>1. CASE Tick
  <2>1. (clock + 1) % Wrap \in 0 .. Wrap - 1
    <3>1. clock + 1 \in Int
      BY <1>0, ClockAssumption DEF Scalars
    <3> QED
      BY <3>1, ModRange, ClockAssumption
  <2>2. owed' \in [RIds -> Nat]
    <3>1. \A r \in RIds : owed[r] \in Nat
      BY <1>0 DEF Scalars
    <3>2. \A r \in RIds : (IF owed[r] = 0 THEN 0 ELSE owed[r] - 1) \in Nat
      BY <3>1
    <3> QED
      BY <1>1, <3>2 DEF Tick
  <2>3. Scalars'
    BY <1>0, <1>1, <2>1, <2>2 DEF Scalars, Tick
  <2> QED
    BY <1>0, <1>1, <2>3 DEF Inv, Tick
<1>2. CASE TimestampedEvent
  <2>1. Scalars'
    BY <1>0, <1>2, TimestampTyped DEF Scalars, TimestampedEvent
  <2> QED
    BY <1>0, <1>2, <2>1 DEF Inv, TimestampedEvent
<1>3. ASSUME NEW ms \in Delays, NEW periodic \in Modes, NEW explicit \in ExplicitIds,
             CmdSchedule(ms, periodic, explicit)
      PROVE  Inv'
  <2>1. PICK obj, rid, m : Scheduled(obj, rid, m) /\ Scalars'
    BY <1>3, ScheduleEffect
  <2>2. calls' = calls
    BY <1>3 DEF CmdSchedule
  <2> QED
    BY <2>1, <2>2, ScheduleSane DEF Inv
<1>4. ASSUME NEW explicit \in ExplicitIds, CmdDeschedule(explicit)
      PROVE  Inv'
  <2>1. calls' = calls
    BY <1>4 DEF CmdDeschedule
  <2>2. Sane(sq', calls')
    <3>1. CASE sq' = sq
      BY <1>0, <2>1, <3>1
    <3>2. ASSUME NEW id, NEW L, NEW e,
                 Marked(L, LockQueue(sq), Candidates(sq, 1) \cap
                          {i \in DOMAIN sq.recs : sq.recs[i].obj.id = id}),
                 Unlocked(sq', L, e)
          PROVE  Sane(sq', calls')
      <4>1. PICK M : M = Candidates(sq, 1) \cap
                           {i \in DOMAIN sq.recs : sq.recs[i].obj.id = id}
        OBVIOUS
      <4>2. M \subseteq 1..Len(sq.recs)
        BY <1>0, <4>1 DEF Candidates, Queues
      <4> QED
        BY <2>1, <3>2, <4>1, <4>2, DescheduleSane
    <3> QED
      BY <1>4, <3>1, <3>2, DescheduleEffect
  <2>3. descheduled' \subseteq Jobs
    <3>1. \A i \in LiveRecs(sq) : sq.recs[i].obj.job \in Jobs
      <4>1. ASSUME NEW i \in LiveRecs(sq) PROVE sq.recs[i].obj.job \in Jobs
        <5>1. i \in 1..Len(sq.recs)
          BY <1>0 DEF LiveRecs, Queues
        <5>2. sq.recs[i] \in Records
          BY <1>0, <5>1, ElementOfSeq DEF Queues
        <5> QED
          BY <5>2 DEF Records, Objects
      <4> QED
        BY <4>1
    <3> QED
      BY <1>0, <1>4, <3>1 DEF CmdDeschedule, Scalars
  <2>4. Scalars'
    BY <1>0, <1>4, <2>3 DEF CmdDeschedule, Scalars
  <2> QED
    BY <2>2, <2>4 DEF Inv
<1>5. CASE SqueueExecute
  <2>1. Scalars'
    BY <1>0, <1>5, TimestampTyped DEF Scalars, SqueueExecute
  <2> QED
    BY <1>5, <2>1, ExecuteSane DEF Inv
<1>6. CASE CommandReturns
  <2>1. owed' \in [RIds -> Nat]
    <3>1. Depth > 0
      BY <1>6 DEF CommandReturns
    <3>2. RunningObj.period \in Nat
      BY <3>1, TopFound, ObjectPeriod
    <3>3. Remaining(RunningObj.period) \in Nat
      BY <1>0, <3>2, RemainingTyped
    <3> QED
      BY <1>0, <1>6, <3>3 DEF Scalars, CommandReturns
  <2>2. Scalars'
    BY <1>0, <1>6, <2>1 DEF Scalars, CommandReturns
  <2> QED
    BY <1>6, <2>2, ReturnSane DEF Inv
<1>7. CASE UNCHANGED vars
  BY <1>0, <1>7 DEF Inv, Scalars, vars
<1> QED
  BY <1>1, <1>2, <1>3, <1>4, <1>5, <1>6, <1>7 DEF Next

\* Inv holds in every reachable state of the queue.
THEOREM InvInvariant == Spec => []Inv
<1>1. Init => Inv
  BY InitInv
<1>2. Inv /\ [Next]_vars => Inv'
  BY NextInv
<1> QED
  BY <1>1, <1>2, PTL DEF Spec

\* Every variable keeps its type and no heap cell is linked twice.
THEOREM TypeCorrect == Spec => []TypeOK
BY InvInvariant, InvTypeOK, PTL

\* However commands schedule, deschedule and Wait, and however deep the walks
\* of squeue_execute nest, no walk is left holding a freed record, the lock
\* counts the walks, and the last one leaves nothing marked.
THEOREM WalksStaySound == Spec => []WalksSound
BY InvInvariant, InvWalksSound, PTL

-----------------------------------------------------------------------------
\* What the queue knows of its jobs: cell, job and id of each record, of all
\* records and of those that can still run.
Entry(r) == [rid |-> r.rid, job |-> r.obj.job, id |-> r.obj.id]
\* The entries of a queue.
Entries(Q) == {Entry(Q.recs[i]) : i \in 1..Len(Q.recs)}
\* The entries of the records that are not marked.
Alive(Q) == {Entry(Q.recs[i]) : i \in {k \in 1..Len(Q.recs) : ~Q.recs[k].del}}

\* What is left of a queue holds no other jobs.
LEMMA LeftEntries ==
  ASSUME NEW R, NEW Q, NEW e, LeftAt(R, Q, e)
  PROVE  Entries(R) \subseteq Entries(Q) /\ Alive(R) \subseteq Alive(Q)
<1>1. ASSUME NEW i \in 1..Len(R.recs)
      PROVE  /\ e[i] \in 1..Len(Q.recs) /\ Entry(R.recs[i]) = Entry(Q.recs[e[i]])
             /\ ~R.recs[i].del => ~Q.recs[e[i]].del
  BY DEF LeftAt, SameRec, Entry
<1>2. Entries(R) \subseteq Entries(Q)
  BY <1>1 DEF Entries
<1>3. Alive(R) \subseteq Alive(Q)
  BY <1>1 DEF Alive
<1> QED
  BY <1>2, <1>3

\* A record that is marked is no longer alive.
LEMMA MarkedEntries ==
  ASSUME NEW R, NEW Q \in Queues, NEW M, Marked(R, Q, M)
  PROVE  /\ Entries(R) = Entries(Q) /\ Alive(R) \subseteq Alive(Q)
         /\ \A n \in M : \A a \in Alive(R) : Distinct(Q) /\ n \in 1..Len(Q.recs) =>
               a.rid # Q.recs[n].rid
<1>1. Len(R.recs) = Len(Q.recs)
  BY DEF Marked
<1>2. ASSUME NEW i \in 1..Len(Q.recs)
      PROVE  /\ Entry(R.recs[i]) = Entry(Q.recs[i]) /\ R.recs[i].rid = Q.recs[i].rid
             /\ R.recs[i].del <=> (Q.recs[i].del \/ i \in M)
  BY DEF Marked, Entry
<1>3. Entries(R) = Entries(Q)
  BY <1>1, <1>2 DEF Entries
<1>4. Alive(R) \subseteq Alive(Q)
  BY <1>1, <1>2 DEF Alive
<1>5. ASSUME NEW n \in M, NEW a \in Alive(R), Distinct(Q), n \in 1..Len(Q.recs)
      PROVE  a.rid # Q.recs[n].rid
  <2>1. PICK i \in 1..Len(R.recs) : ~R.recs[i].del /\ a = Entry(R.recs[i])
    BY DEF Alive
  <2>2. a.rid = Q.recs[i].rid /\ i # n
    BY <1>1, <1>2, <1>5, <2>1 DEF Entry
  <2> QED
    BY <1>1, <1>5, <2>2 DEF Distinct
<1> QED
  BY <1>3, <1>4, <1>5

\* A new record adds its own entry.
LEMMA InsertedEntries ==
  ASSUME NEW R, NEW Q \in Queues, NEW m, NEW r, Inserted(R, Q, m, r)
  PROVE  /\ Entries(R) \subseteq Entries(Q) \cup {Entry(r)}
         /\ Entries(Q) \subseteq Entries(R)
         /\ Alive(R) \subseteq Alive(Q) \cup {Entry(r)}
<1> DEFINE n == Len(Q.recs)
<1>1. n \in Nat
  BY DEF Queues
<1>2. /\ m \in 1..(n + 1) /\ Len(R.recs) = n + 1 /\ R.recs[m] = r
      /\ \A i \in 1..(m - 1) : R.recs[i] = Q.recs[i]
      /\ \A i \in m..n : R.recs[i + 1] = Q.recs[i]
  BY DEF Inserted
<1>3. ASSUME NEW i \in 1..(n + 1)
      PROVE  R.recs[i] = r \/ \E k \in 1..n : R.recs[i] = Q.recs[k]
  <2>1. CASE i < m
    <3>1. i \in 1..(m - 1) /\ i \in 1..n
      BY <1>1, <1>2, <2>1
    <3> QED
      BY <1>2, <3>1
  <2>2. CASE i = m
    BY <1>2, <2>2
  <2>3. CASE i > m
    <3>1. i - 1 \in m..n /\ i - 1 \in 1..n /\ (i - 1) + 1 = i
      BY <1>1, <1>2, <2>3
    <3> QED
      BY <1>2, <3>1
  <2> QED
    BY <1>2, <2>1, <2>2, <2>3
<1>4. ASSUME NEW k \in 1..n PROVE \E i \in 1..(n + 1) : R.recs[i] = Q.recs[k]
  <2>1. CASE k < m
    <3>1. k \in 1..(m - 1) /\ k \in 1..(n + 1)
      BY <1>1, <1>2, <2>1
    <3> QED
      BY <1>2, <3>1
  <2>2. CASE ~(k < m)
    <3>1. k \in m..n /\ k + 1 \in 1..(n + 1)
      BY <1>1, <1>2, <2>2
    <3> QED
      BY <1>2, <3>1
  <2> QED
    BY <2>1, <2>2
<1> HIDE DEF n
<1>5. Entries(R) \subseteq Entries(Q) \cup {Entry(r)}
  BY <1>2, <1>3 DEF Entries, n
<1>6. Entries(Q) \subseteq Entries(R)
  BY <1>2, <1>4 DEF Entries, n
<1>7. Alive(R) \subseteq Alive(Q) \cup {Entry(r)}
  BY <1>2, <1>3 DEF Alive, n
<1> QED
  BY <1>5, <1>6, <1>7

\* A silenced queue has the same entries.
LEMMA SilencedEntries ==
  ASSUME NEW R, NEW Q, Silenced(R, Q)
  PROVE  Entries(R) = Entries(Q) /\ Alive(R) = Alive(Q)
<1>1. /\ Len(R.recs) = Len(Q.recs)
      /\ \A i \in 1..Len(Q.recs) : Entry(R.recs[i]) = Entry(Q.recs[i])
      /\ \A i \in 1..Len(Q.recs) : R.recs[i].del = Q.recs[i].del
  BY DEF Silenced, SameRec, Entry
<1>2. Entries(R) = Entries(Q)
  BY <1>1 DEF Entries
<1>3. Alive(R) = Alive(Q)
  BY <1>1 DEF Alive
<1> QED
  BY <1>2, <1>3

\* A walk that goes on adds no job.
LEMMA WalkEntries ==
  ASSUME NEW Q, NEW C, Walked(Q, C), NEW from, NEW now, Walk(Q, from, now, C)
  PROVE  /\ Entries(sq') \subseteq Entries(Q) /\ Alive(sq') \subseteq Alive(Q)
         /\ \/ calls' = C
            \/ \E a \in Alive(sq') : calls' = Append(C, [now |-> now, cur |-> a.rid])
<1>0. Q \in Queues /\ Q.lock > 0
  BY DEF Walked
<1>1. WalkEnds(Q, C) \/ \E i : WalkStops(Q, from, now, C, i)
  BY <1>0, WalkCases
<1>2. CASE WalkEnds(Q, C)
  <2>1. PICK e : Unlocked(UnlockQueue(Q), Q, e)
    BY <1>0, UnlockUnlocks
  <2>2. sq' = UnlockQueue(Q) /\ calls' = C
    BY <1>2 DEF WalkEnds
  <2> QED
    BY <2>1, <2>2, LeftEntries DEF Unlocked
<1>3. ASSUME NEW i, WalkStops(Q, from, now, C, i)
      PROVE  /\ Entries(sq') \subseteq Entries(Q) /\ Alive(sq') \subseteq Alive(Q)
             /\ \E a \in Alive(sq') : calls' = Append(C, [now |-> now, cur |-> a.rid])
  <2>1. /\ i \in 1..Len(Q.recs) /\ ~Q.recs[i].del /\ sq' = Q
        /\ calls' = Append(C, [now |-> now, cur |-> Q.recs[i].rid])
    BY <1>3 DEF WalkStops
  <2>2. Entry(Q.recs[i]) \in Alive(Q) /\ Entry(Q.recs[i]).rid = Q.recs[i].rid
    BY <2>1 DEF Alive, Entry
  <2> QED
    BY <2>1, <2>2
<1> QED
  BY <1>1, <1>2, <1>3

\* A command that returns adds at most one entry, for the job it ran, and
\* the record it ran from is no longer alive.
LEMMA ReturnEntries ==
  ASSUME Inv, Depth > 0, NEW R, NEW D, WalkGoesOn(R, D),
         \/ R = sq /\ RunningObj.period = 0 /\ owed' = owed
         \/ RunningObj.period > 0 /\ \E Q, again, rid, m : Requeued(Q, R, again, rid, m)
  PROVE  /\ \E c \in Entries(sq) :
               c.rid = TopCall.cur /\ c.job = RunningObj.job /\ c.id = RunningObj.id
         /\ \E x : /\ x.job = RunningObj.job /\ x.id = RunningObj.id
                   /\ Entries(D) \subseteq Entries(sq) \cup {x}
                   /\ Alive(D) \subseteq Alive(sq) \cup {x}
         /\ Entries(sq) \subseteq Entries(D)
         /\ \A a \in Alive(D) : a.rid # TopCall.cur
<1>1. sq \in Queues
  BY DEF Inv, Sane
<1>2. \E c \in Entries(sq) :
         c.rid = TopCall.cur /\ c.job = RunningObj.job /\ c.id = RunningObj.id
  <2>1. PICK n : n = IndexOfRec(sq, TopCall.cur)
    OBVIOUS
  <2>2. n \in 1..Len(sq.recs) /\ sq.recs[n].rid = TopCall.cur /\ RunningObj = sq.recs[n].obj
    BY <2>1, TopFound
  <2>3. PICK c : c = Entry(sq.recs[n])
    OBVIOUS
  <2>4. c \in Entries(sq)
    BY <2>2, <2>3 DEF Entries
  <2>5. c.rid = TopCall.cur /\ c.job = RunningObj.job /\ c.id = RunningObj.id
    BY <2>2, <2>3 DEF Entry
  <2> QED
    BY <2>4, <2>5
<1>3. \E x : /\ x.job = RunningObj.job /\ x.id = RunningObj.id
             /\ Entries(R) \subseteq Entries(sq) \cup {x}
             /\ Alive(R) \subseteq Alive(sq) \cup {x}
             /\ Entries(sq) \subseteq Entries(R)
  <2>1. CASE R = sq
    BY <1>2, <2>1
  <2>2. ASSUME NEW Q, NEW again, NEW rid, NEW m, Requeued(Q, R, again, rid, m)
        PROVE  \E x : /\ x.job = RunningObj.job /\ x.id = RunningObj.id
                      /\ Entries(R) \subseteq Entries(sq) \cup {x}
                      /\ Alive(R) \subseteq Alive(sq) \cup {x}
                      /\ Entries(sq) \subseteq Entries(R)
    <3>1. /\ Silenced(Q, sq) /\ Inserted(R, Q, m, NewRecord(Q, rid, again))
      BY <2>2 DEF Requeued
    <3>2. again.job = RunningObj.job /\ again.id = RunningObj.id
      <4>1. RunningObj \in Objects
        BY TopFound
      <4>2. [RunningObj EXCEPT !.due = again.due].job = RunningObj.job
            /\ [RunningObj EXCEPT !.due = again.due].id = RunningObj.id
        BY <4>1 DEF Objects
      <4> QED
        BY <2>2, <4>2 DEF Requeued, SameRec
    <3>3. PICK x : x = Entry(NewRecord(Q, rid, again))
      OBVIOUS
    <3>4. x.job = again.job /\ x.id = again.id
      BY <3>3 DEF Entry, NewRecord
    <3>5. Q \in Queues /\ Entries(Q) = Entries(sq) /\ Alive(Q) = Alive(sq)
      BY <3>1, SilencedEntries DEF Silenced
    <3>6. /\ Entries(R) \subseteq Entries(Q) \cup {x} /\ Entries(Q) \subseteq Entries(R)
          /\ Alive(R) \subseteq Alive(Q) \cup {x}
      BY <3>1, <3>3, <3>5, InsertedEntries
    <3> QED
      BY <3>2, <3>4, <3>5, <3>6
  <2> QED
    BY <2>1, <2>2
<1>4. /\ R \in Queues /\ Distinct(R) /\ TopCall.cur \in RecIds(R)
  BY ReturnWalked
<1>5. PICK n : n = IndexOfRec(R, TopCall.cur)
  OBVIOUS
<1>6. n \in 1..Len(R.recs) /\ R.recs[n].rid = TopCall.cur
  BY <1>4, <1>5, IndexFound
<1>7. Marked(D, R, {n})
  BY <1>5 DEF WalkGoesOn
<1>8. /\ Entries(D) = Entries(R) /\ Alive(D) \subseteq Alive(R)
      /\ \A a \in Alive(D) : a.rid # TopCall.cur
  <2>1. PICK M : M = {n}
    OBVIOUS
  <2>2. Marked(D, R, M) /\ n \in M
    BY <1>7, <2>1
  <2>3. /\ Entries(D) = Entries(R) /\ Alive(D) \subseteq Alive(R)
        /\ \A k \in M : \A a \in Alive(D) : Distinct(R) /\ k \in 1..Len(R.recs) =>
              a.rid # R.recs[k].rid
    BY <1>4, <2>2, MarkedEntries
  <2> QED
    BY <1>4, <1>6, <2>2, <2>3
<1> QED
  BY <1>2, <1>3, <1>8

-----------------------------------------------------------------------------
\* Where no command deschedules, the jobs in the queue are those that no
\* Deschedule has named, and the records of a job have one id.
NamedGone ==
  /\ \A a, b \in Entries(sq) : a.job = b.job => a.id = b.id
  /\ \A a \in Entries(sq) : a.job \notin descheduled

\* Once no command runs, nothing is marked, so NamedGone is final.
LEMMA NamedGoneFinal ==
  ASSUME Inv, NamedGone PROVE DescheduleIsFinal
<1>1. DOMAIN sq.recs = 1..Len(sq.recs)
  BY DEF Inv, Sane, Queues
<1>2. \A i \in 1..Len(sq.recs) : Entry(sq.recs[i]) \in Entries(sq)
  BY DEF Entries
<1>3. \A i \in 1..Len(sq.recs) : Entry(sq.recs[i]).job = sq.recs[i].obj.job
  BY DEF Entry
<1> QED
  BY <1>1, <1>2, <1>3 DEF DescheduleIsFinal, NamedGone

\* CMD_Schedule takes a job that is in no record.
LEMMA ScheduleNamedGone ==
  ASSUME Inv, NamedGone, NEW obj, NEW rid, NEW m, Scheduled(obj, rid, m),
         descheduled' = descheduled \ {obj.job}
  PROVE  NamedGone'
<1>1. sq \in Queues /\ DOMAIN sq.recs = 1..Len(sq.recs)
  BY DEF Inv, Sane, Queues
<1>2. PICK x : x = Entry(NewRecord(sq, rid, obj))
  OBVIOUS
<1>3. x.job = obj.job
  BY <1>2 DEF Entry, NewRecord
<1>4. Entries(sq') \subseteq Entries(sq) \cup {x}
  BY <1>1, <1>2, InsertedEntries DEF Scheduled
<1>5. \A a \in Entries(sq) : a.job # x.job
  BY <1>1, <1>3 DEF Entries, Entry, Scheduled, FreeJobs
<1> QED
  BY <1>3, <1>4, <1>5 DEF NamedGone

\* CMD_Deschedule marks all live records of the id it names.
LEMMA DescheduleNamedGone ==
  ASSUME Inv, NamedGone, Depth = 0, NEW explicit \in ExplicitIds, CmdDeschedule(explicit)
  PROVE  NamedGone'
<1>1. /\ sq \in Queues /\ DOMAIN sq.recs = 1..Len(sq.recs) /\ Len(sq.recs) \in Nat
      /\ Flagged(sq) /\ Distinct(sq) /\ sq.lock = 0
      /\ \A i \in 1..Len(sq.recs) : ~sq.recs[i].del /\ ~sq.recs[i].new
  <2>1. calls = <<>>
    BY DEF Depth, Inv, Sane
  <2> QED
    BY <2>1 DEF Inv, Sane, Queues, Depth
<1>2. CASE sq.recs = <<>> /\ sq' = sq
  <2>1. Entries(sq) = {}
    BY <1>1, <1>2 DEF Entries
  <2> QED
    BY <1>2, <2>1 DEF NamedGone
<1>3. ASSUME NEW id, NEW L, NEW e,
             Marked(L, LockQueue(sq), Candidates(sq, 1) \cap
                      {i \in DOMAIN sq.recs : sq.recs[i].obj.id = id}),
             Unlocked(sq', L, e),
             descheduled' = descheduled \cup
               {sq.recs[i].obj.job : i \in {k \in LiveRecs(sq) : sq.recs[k].obj.id = id}}
      PROVE  NamedGone'
  <2>1. PICK K : K = LockQueue(sq)
    OBVIOUS
  <2>2. PICK M : M = Candidates(sq, 1) \cap {i \in DOMAIN sq.recs : sq.recs[i].obj.id = id}
    OBVIOUS
  <2>3. K \in Queues /\ K.recs = sq.recs /\ K.lock = 1 /\ K.dirty = sq.dirty
    BY <1>1, <2>1, LockLocks
  <2>4. Marked(L, K, M)
    BY <1>3, <2>1, <2>2
  <2>5. \A i \in 1..Len(sq.recs) : i \in M <=> sq.recs[i].obj.id = id
    BY <1>1, <2>2 DEF Candidates
  <2>6. M \subseteq 1..Len(K.recs)
    BY <1>1, <2>2, <2>3
  <2>7. Flagged(L)
    <3>1. Flagged(K) /\ Distinct(K)
      BY <1>1, <2>3 DEF Flagged, Distinct
    <3> QED
      BY <2>3, <2>4, <2>6, <3>1, MarkedFlagged
  <2>8. Entries(sq') \subseteq Entries(sq)
    <3>1. Entries(sq') \subseteq Entries(L)
      BY <1>3, LeftEntries DEF Unlocked
    <3>2. Entries(L) = Entries(K)
      BY <2>3, <2>4, MarkedEntries
    <3> QED
      BY <2>3, <3>1, <3>2 DEF Entries
  <2>9. ASSUME NEW a \in Entries(sq') PROVE a.id # id
    <3>1. PICK i \in 1..Len(sq'.recs) : a = Entry(sq'.recs[i])
      BY DEF Entries
    <3>2. ~sq'.recs[i].del
      <4>1. L.lock = 1
        BY <2>3, <2>4 DEF Marked
      <4> QED
        BY <1>3, <2>7, <3>1, <4>1 DEF Unlocked
    <3>3. /\ e[i] \in 1..Len(L.recs) /\ ~L.recs[e[i]].del /\ sq'.recs[i].obj.id = L.recs[e[i]].obj.id
      BY <1>3, <3>1, <3>2 DEF Unlocked, LeftAt, SameRec
    <3>4. /\ e[i] \in 1..Len(sq.recs) /\ e[i] \notin M
          /\ L.recs[e[i]].obj = sq.recs[e[i]].obj
      BY <2>3, <2>4, <3>3 DEF Marked
    <3> QED
      BY <2>5, <3>1, <3>3, <3>4 DEF Entry
  <2>10. ASSUME NEW a \in Entries(sq') PROVE a.job \notin descheduled'
    <3>1. a \in Entries(sq) /\ a.job \notin descheduled
      BY <2>8 DEF NamedGone
    <3>2. ASSUME NEW k \in LiveRecs(sq), sq.recs[k].obj.id = id, a.job = sq.recs[k].obj.job
          PROVE  FALSE
      <4>1. PICK b : b = Entry(sq.recs[k])
        OBVIOUS
      <4>2. b \in Entries(sq) /\ b.job = a.job /\ b.id = id
        BY <1>1, <3>2, <4>1 DEF Entries, Entry, LiveRecs
      <4>3. a.id = id
        BY <3>1, <4>2 DEF NamedGone
      <4> QED
        BY <2>9, <4>3
    <3> QED
      BY <1>3, <3>1, <3>2
  <2> QED
    BY <2>8, <2>10 DEF NamedGone
<1> QED
  BY <1>2, <1>3, DescheduleEffect

\* Every step keeps NamedGone, if no command deschedules.
LEMMA NextNamedGone ==
  ASSUME "deschedule" \notin Nested, Inv, NamedGone, [Next]_vars
  PROVE  NamedGone'
<1>0. sq \in Queues
  BY DEF Inv, Sane
<1>1. CASE UNCHANGED <<sq, descheduled>>
  BY <1>1 DEF NamedGone
<1>2. ASSUME NEW ms \in Delays, NEW periodic \in Modes, NEW explicit \in ExplicitIds,
             CmdSchedule(ms, periodic, explicit)
      PROVE  NamedGone'
  BY <1>2, ScheduleEffect, ScheduleNamedGone
<1>3. ASSUME NEW explicit \in ExplicitIds, CmdDeschedule(explicit)
      PROVE  NamedGone'
  <2>1. Depth = 0
    <3>1. Depth \in Nat
      BY DEF Depth, Inv, Sane
    <3> QED
      BY <1>3, <3>1 DEF CmdDeschedule, InCommand
  <2> QED
    BY <1>3, <2>1, DescheduleNamedGone
<1>4. CASE SqueueExecute
  <2>1. PICK K : K = LockQueue(sq)
    OBVIOUS
  <2>2. K \in Queues /\ K.recs = sq.recs /\ K.lock = sq.lock + 1 /\ K.dirty = sq.dirty
    BY <1>0, <2>1, LockLocks
  <2>3. Walked(K, calls)
    BY <2>2 DEF Walked, Inv, Sane, Distinct, Flagged, RecIds
  <2>4. Entries(sq') \subseteq Entries(K)
    BY <1>4, <2>1, <2>3, WalkEntries DEF SqueueExecute
  <2>5. Entries(K) = Entries(sq)
    BY <2>2 DEF Entries
  <2>6. descheduled' = descheduled
    BY <1>4 DEF SqueueExecute
  <2> QED
    BY <2>4, <2>5, <2>6 DEF NamedGone
<1>5. CASE CommandReturns
  <2>1. Depth > 0 /\ descheduled' = descheduled
    BY <1>5 DEF CommandReturns
  <2>2. PICK R, D : /\ \/ R = sq /\ RunningObj.period = 0 /\ owed' = owed
                       \/ RunningObj.period > 0 /\ \E Q, again, rid, m : Requeued(Q, R, again, rid, m)
                    /\ WalkGoesOn(R, D)
    BY <1>5, ReturnEffect
  <2>3. PICK x : /\ x.job = RunningObj.job /\ x.id = RunningObj.id
                 /\ Entries(D) \subseteq Entries(sq) \cup {x}
    BY <2>1, <2>2, ReturnEntries
  <2>4. PICK c \in Entries(sq) : c.job = RunningObj.job /\ c.id = RunningObj.id
    BY <2>1, <2>2, ReturnEntries
  <2>5. Entries(sq') \subseteq Entries(D)
    BY <2>1, <2>2, ReturnWalked, WalkEntries DEF WalkGoesOn
  <2>6. Entries(sq') \subseteq Entries(sq) \cup {x}
    BY <2>3, <2>5
  <2> QED
    BY <2>1, <2>3, <2>4, <2>6 DEF NamedGone
<1>6. CASE Tick \/ TimestampedEvent \/ UNCHANGED vars
  BY <1>1, <1>6 DEF Tick, TimestampedEvent, vars
<1> QED
  BY <1>2, <1>3, <1>4, <1>5, <1>6 DEF Next

\* A job that a Deschedule named is gone for good once no command is
\* running, if the commands that run do not deschedule themselves: a periodic
\* job that does is queued anew when it returns.
THEOREM DescheduledStaysGone ==
  ASSUME "deschedule" \notin Nested
  PROVE  Spec => []DescheduleIsFinal
<1>1. Init => NamedGone
  <2>1. ASSUME Init PROVE NamedGone
    <3>1. sq.recs = <<>>
      BY <2>1 DEF Init, EmptyQueue
    <3>2. Entries(sq) = {}
      BY <3>1 DEF Entries
    <3> QED
      BY <3>2 DEF NamedGone
  <2> QED
    BY <2>1
<1>2. Inv /\ NamedGone /\ [Next]_vars => NamedGone'
  BY NextNamedGone
<1>3. Inv /\ NamedGone => DescheduleIsFinal
  BY NamedGoneFinal
<1>4. Spec => []NamedGone
  BY <1>1, <1>2, InvInvariant, PTL DEF Spec
<1> QED
  BY <1>3, <1>4, InvInvariant, PTL

-----------------------------------------------------------------------------
\* Where no command Waits, at most one walk is under way, no two records that
\* can still run are of one job, and none but the record that runs is of the
\* job that runs.
Alone(S) == \A a, b \in S : a.job = b.job => a.rid = b.rid

\* A job is alive in one heap cell at most.
JobsAlone ==
  /\ Depth <= 1
  /\ Alone(Alive(sq))
  /\ Depth > 0 => \E c \in Entries(sq) :
        c.rid = TopCall.cur /\ \A a \in Alive(sq) : a.job = c.job => a.rid = c.rid

\* OneRecordPerJob follows, since a cell is linked once.
LEMMA JobsAloneOneRecord ==
  ASSUME Inv, JobsAlone PROVE OneRecordPerJob
<1>1. DOMAIN sq.recs = 1..Len(sq.recs) /\ Distinct(sq)
  BY DEF Inv, Sane, Queues
<1>2. ASSUME NEW i \in LiveRecs(sq), NEW j \in LiveRecs(sq),
             sq.recs[i].obj.job = sq.recs[j].obj.job
      PROVE  i = j
  <2>1. i \in 1..Len(sq.recs) /\ j \in 1..Len(sq.recs) /\ ~sq.recs[i].del /\ ~sq.recs[j].del
    BY <1>1 DEF LiveRecs
  <2>2. Entry(sq.recs[i]) \in Alive(sq) /\ Entry(sq.recs[j]) \in Alive(sq)
    BY <2>1 DEF Alive
  <2>3. Entry(sq.recs[i]).job = Entry(sq.recs[j]).job
    BY <1>2 DEF Entry
  <2>4. sq.recs[i].rid = sq.recs[j].rid
    BY <2>2, <2>3 DEF JobsAlone, Alone, Entry
  <2> QED
    BY <1>1, <2>1, <2>4 DEF Distinct
<1> QED
  BY <1>2 DEF OneRecordPerJob

\* Two entries of one heap cell are the same.
LEMMA EntryOfCell ==
  ASSUME Inv, NEW a \in Entries(sq), NEW b \in Entries(sq), a.rid = b.rid
  PROVE  a = b
<1>1. PICK i \in 1..Len(sq.recs) : a = Entry(sq.recs[i])
  BY DEF Entries
<1>2. PICK j \in 1..Len(sq.recs) : b = Entry(sq.recs[j])
  BY DEF Entries
<1>3. sq.recs[i].rid = sq.recs[j].rid
  BY <1>1, <1>2 DEF Entry
<1>4. i = j
  BY <1>3 DEF Inv, Sane, Distinct
<1> QED
  BY <1>1, <1>2, <1>4

\* A record that is alive has an entry.
LEMMA AliveEntries ==
  ASSUME NEW Q PROVE Alive(Q) \subseteq Entries(Q)
BY DEF Alive, Entries

\* A walk that goes on, with none below it, leaves the jobs alone.
LEMMA WalkAlone ==
  ASSUME NEW Q, NEW C, Walked(Q, C), NEW from, NEW now, Walk(Q, from, now, C),
         Len(C) = 0, Alone(Alive(Q))
  PROVE  JobsAlone'
<1>1. /\ Alive(sq') \subseteq Alive(Q)
      /\ \/ calls' = C
         \/ \E a \in Alive(sq') : calls' = Append(C, [now |-> now, cur |-> a.rid])
  BY WalkEntries
<1>2. Alone(Alive(sq'))
  BY <1>1 DEF Alone
<1>3. C \in Seq(Calls)
  BY DEF Walked
<1>4. CASE calls' = C
  <2>1. Depth' = 0
    BY <1>4 DEF Depth
  <2> QED
    BY <1>2, <2>1 DEF JobsAlone
<1>5. ASSUME NEW a \in Alive(sq'), calls' = Append(C, [now |-> now, cur |-> a.rid])
      PROVE  JobsAlone'
  <2>1. PICK c : c = [now |-> now, cur |-> a.rid]
    OBVIOUS
  <2>2. Len(calls') = 1 /\ calls'[1] = c
    BY <1>3, <1>5, <2>1
  <2>3. Depth' = 1 /\ TopCall'.cur = a.rid
    BY <2>1, <2>2 DEF Depth, TopCall
  <2>4. a \in Entries(sq')
    BY AliveEntries
  <2>5. \A b \in Alive(sq') : b.job = a.job => b.rid = a.rid
    BY <1>2 DEF Alone
  <2> QED
    BY <1>2, <2>3, <2>4, <2>5 DEF JobsAlone
<1> QED
  BY <1>1, <1>4, <1>5

\* An operation that only takes records away, or adds one of a new job,
\* leaves the jobs alone.
LEMMA KeepAlone ==
  ASSUME JobsAlone, calls' = calls, NEW x, Alive(sq') \subseteq Alive(sq) \cup {x},
         \A a \in Entries(sq) : a.job # x.job,
         Depth > 0 => \A a \in Entries(sq) : a.rid = TopCall.cur => a \in Entries(sq')
  PROVE  JobsAlone'
<1>1. Depth' = Depth /\ TopCall' = TopCall
  BY DEF Depth, TopCall
<1>2. Alive(sq) \subseteq Entries(sq)
  BY AliveEntries
<1>3. Alone(Alive(sq'))
  BY <1>2 DEF JobsAlone, Alone
<1>4. Depth > 0 => \E c \in Entries(sq') :
        c.rid = TopCall.cur /\ \A a \in Alive(sq') : a.job = c.job => a.rid = c.rid
  BY DEF JobsAlone
<1> QED
  BY <1>1, <1>3, <1>4 DEF JobsAlone

\* CMD_Deschedule adds no record.
LEMMA DescheduleAlone ==
  ASSUME Inv, JobsAlone, NEW explicit \in ExplicitIds, CmdDeschedule(explicit)
  PROVE  JobsAlone'
<1>1. /\ sq \in Queues /\ DOMAIN sq.recs = 1..Len(sq.recs) /\ sq.lock = Depth
      /\ calls \in Seq(Calls) /\ Depth \in Nat
  BY DEF Inv, Sane, Queues, Depth
<1>2. calls' = calls
  BY DEF CmdDeschedule
<1>3. CASE sq' = sq
  BY <1>2, <1>3 DEF JobsAlone, Depth, TopCall
<1>4. ASSUME NEW id, NEW L, NEW e,
             Marked(L, LockQueue(sq), Candidates(sq, 1) \cap
                      {i \in DOMAIN sq.recs : sq.recs[i].obj.id = id}),
             Unlocked(sq', L, e)
      PROVE  JobsAlone'
  <2>1. PICK K : K = LockQueue(sq)
    OBVIOUS
  <2>2. PICK M : M = Candidates(sq, 1) \cap {i \in DOMAIN sq.recs : sq.recs[i].obj.id = id}
    OBVIOUS
  <2>3. K \in Queues /\ K.recs = sq.recs /\ K.lock = Depth + 1
    BY <1>1, <2>1, LockLocks
  <2>4. Marked(L, K, M)
    BY <1>4, <2>1, <2>2
  <2>5. Entries(L) = Entries(sq) /\ Alive(L) \subseteq Alive(sq)
    <3>1. Entries(L) = Entries(K) /\ Alive(L) \subseteq Alive(K)
      BY <2>3, <2>4, MarkedEntries
    <3> QED
      BY <2>3, <3>1 DEF Entries, Alive
  <2>6. Alive(sq') \subseteq Alive(sq)
    BY <1>4, <2>5, LeftEntries DEF Unlocked
  <2>7. Depth > 0 => Entries(sq') = Entries(sq)
    <3>1. L.lock = Depth + 1
      BY <2>3, <2>4 DEF Marked
    <3>2. Depth > 0 => sq'.recs = L.recs
      BY <1>1, <1>4, <3>1 DEF Unlocked
    <3> QED
      BY <2>5, <3>2 DEF Entries
  <2>8. Alone(Alive(sq'))
    BY <2>6 DEF JobsAlone, Alone
  <2>9. Depth' = Depth /\ TopCall' = TopCall
    BY <1>2 DEF Depth, TopCall
  <2>10. Depth > 0 => \E c \in Entries(sq') :
        c.rid = TopCall.cur /\ \A a \in Alive(sq') : a.job = c.job => a.rid = c.rid
    BY <2>6, <2>7 DEF JobsAlone
  <2> QED
    BY <2>8, <2>9, <2>10 DEF JobsAlone
<1> QED
  BY <1>3, <1>4, DescheduleEffect

\* A periodic job gets its new record as the old one is marked.
LEMMA ReturnAlone ==
  ASSUME Inv, JobsAlone, CommandReturns
  PROVE  JobsAlone'
<1>1. Depth > 0 /\ Depth \in Nat
  BY DEF CommandReturns, Inv, Sane, Depth
<1>2. PICK R, D : /\ \/ R = sq /\ RunningObj.period = 0 /\ owed' = owed
                     \/ RunningObj.period > 0 /\ \E Q, again, rid, m : Requeued(Q, R, again, rid, m)
                  /\ WalkGoesOn(R, D)
  BY ReturnEffect
<1>3. PICK x : x.job = RunningObj.job /\ Alive(D) \subseteq Alive(sq) \cup {x}
  BY <1>1, <1>2, ReturnEntries
<1>4. PICK c \in Entries(sq) : c.rid = TopCall.cur /\ c.job = RunningObj.job
  BY <1>1, <1>2, ReturnEntries
<1>5. \A a \in Alive(D) : a.rid # TopCall.cur
  BY <1>1, <1>2, ReturnEntries
<1>6. \A a \in Alive(sq) : a.job = c.job => a.rid = c.rid
  <2>1. PICK d \in Entries(sq) :
           d.rid = TopCall.cur /\ \A a \in Alive(sq) : a.job = d.job => a.rid = d.rid
    BY <1>1 DEF JobsAlone
  <2>2. c = d
    BY <1>4, <2>1, EntryOfCell
  <2> QED
    BY <2>1, <2>2
<1>7. Alone(Alive(D))
  <2>1. ASSUME NEW a \in Alive(D), NEW b \in Alive(D), a.job = b.job PROVE a.rid = b.rid
    <3>1. CASE a \in Alive(sq) /\ b \in Alive(sq)
      BY <2>1, <3>1 DEF JobsAlone, Alone
    <3>2. CASE a = x /\ b = x
      BY <3>2
    <3>3. CASE a \in Alive(sq) /\ b = x
      BY <1>3, <1>4, <1>5, <1>6, <2>1, <3>3
    <3>4. CASE a = x /\ b \in Alive(sq)
      BY <1>3, <1>4, <1>5, <1>6, <2>1, <3>4
    <3> QED
      BY <1>3, <3>1, <3>2, <3>3, <3>4
  <2> QED
    BY <2>1 DEF Alone
<1>8. Walked(D, SubSeq(calls, 1, Depth - 1))
  BY <1>1, <1>2, ReturnWalked
<1>9. Len(SubSeq(calls, 1, Depth - 1)) = 0
  <2>1. PICK outer : outer = SubSeq(calls, 1, Depth - 1)
    OBVIOUS
  <2>2. Len(outer) + 1 = Depth /\ Len(outer) \in Nat
    BY <1>1, <2>1, OuterWalks
  <2>3. Depth <= 1
    BY DEF JobsAlone
  <2>4. Len(outer) = 0
    BY <2>2, <2>3
  <2> QED
    BY <2>1, <2>4
<1>10. Walk(D, IndexOfRec(D, TopCall.cur) + 1, TopCall.now, SubSeq(calls, 1, Depth - 1))
  BY <1>2 DEF WalkGoesOn
<1> QED
  BY <1>7, <1>8, <1>9, <1>10, WalkAlone

\* Every step keeps JobsAlone, if no command waits.
LEMMA NextJobsAlone ==
  ASSUME "wait" \notin Nested, Inv, JobsAlone, [Next]_vars
  PROVE  JobsAlone'
<1>0. /\ sq \in Queues /\ DOMAIN sq.recs = 1..Len(sq.recs)
      /\ calls \in Seq(Calls) /\ Depth \in Nat
  BY DEF Inv, Sane, Queues, Depth
<1>1. CASE UNCHANGED <<sq, calls>>
  BY <1>1 DEF JobsAlone, Depth, TopCall
<1>2. ASSUME NEW ms \in Delays, NEW periodic \in Modes, NEW explicit \in ExplicitIds,
             CmdSchedule(ms, periodic, explicit)
      PROVE  JobsAlone'
  <2>1. PICK obj, rid, m : Scheduled(obj, rid, m)
    BY <1>2, ScheduleEffect
  <2>2. PICK x : x = Entry(NewRecord(sq, rid, obj))
    OBVIOUS
  <2>3. x.job = obj.job
    BY <2>2 DEF Entry, NewRecord
  <2>4. Alive(sq') \subseteq Alive(sq) \cup {x} /\ Entries(sq) \subseteq Entries(sq')
    BY <1>0, <2>1, <2>2, InsertedEntries DEF Scheduled
  <2>5. \A a \in Entries(sq) : a.job # x.job
    BY <1>0, <2>1, <2>3 DEF Entries, Entry, Scheduled, FreeJobs
  <2>6. calls' = calls
    BY <1>2 DEF CmdSchedule
  <2> QED
    BY <2>4, <2>5, <2>6, KeepAlone
<1>3. ASSUME NEW explicit \in ExplicitIds, CmdDeschedule(explicit)
      PROVE  JobsAlone'
  BY <1>3, DescheduleAlone
<1>4. CASE SqueueExecute
  <2>1. PICK K : K = LockQueue(sq)
    OBVIOUS
  <2>2. K \in Queues /\ K.recs = sq.recs /\ K.lock = sq.lock + 1 /\ K.dirty = sq.dirty
    BY <1>0, <2>1, LockLocks
  <2>3. Walked(K, calls)
    BY <2>2 DEF Walked, Inv, Sane, Distinct, Flagged, RecIds
  <2>4. Len(calls) = 0
    BY <1>0, <1>4 DEF SqueueExecute, InCommand, Depth
  <2>5. Alone(Alive(K))
    BY <2>2 DEF JobsAlone, Alive
  <2>6. Walk(K, 1, clock, calls)
    BY <1>4, <2>1 DEF SqueueExecute
  <2> QED
    BY <2>3, <2>4, <2>5, <2>6, WalkAlone
<1>5. CASE CommandReturns
  BY <1>5, ReturnAlone
<1>6. CASE Tick \/ TimestampedEvent \/ UNCHANGED vars
  BY <1>1, <1>6 DEF Tick, TimestampedEvent, vars
<1> QED
  BY <1>2, <1>3, <1>4, <1>5, <1>6 DEF Next

\* A job has at most one record that can still run, if no command Waits:
\* a walk inside Wait may start the record that waits a second time.
THEOREM OneRecordEach ==
  ASSUME "wait" \notin Nested
  PROVE  Spec => []OneRecordPerJob
<1>1. Init => JobsAlone
  <2>1. ASSUME Init PROVE JobsAlone
    <3>1. sq.recs = <<>> /\ calls = <<>>
      BY <2>1 DEF Init, EmptyQueue
    <3>2. Alive(sq) = {} /\ Depth = 0
      BY <3>1 DEF Alive, Depth
    <3> QED
      BY <3>2 DEF JobsAlone, Alone
  <2> QED
    BY <2>1
<1>2. Inv /\ JobsAlone /\ [Next]_vars => JobsAlone'
  BY NextJobsAlone
<1>3. Inv /\ JobsAlone => OneRecordPerJob
  BY JobsAloneOneRecord
<1>4. Spec => []JobsAlone
  BY <1>1, <1>2, InvInvariant, PTL DEF Spec
<1> QED
  BY <1>3, <1>4, InvInvariant, PTL

-----------------------------------------------------------------------------
\* What Schedule and Deschedule promise, seen in queue Q and walks C: the
\* jobs that are still to be run, and the one whose command runs.
WorkOf(r) == [rid |-> r.rid, job |-> r.obj.job, period |-> r.obj.period]
\* The work of a queue.
Work(Q) == {WorkOf(Q.recs[i]) : i \in {k \in 1..Len(Q.recs) : ~Q.recs[k].del}}
\* The jobs of some work.
JobsOf(W) == {w.job : w \in W}
\* Those that are periodic.
Periodics(W) == {w.job : w \in {v \in W : v.period > 0}}
\* The job that runs.
RunIn(Q, C) == IF Len(C) > 0 THEN {RecOf(Q, C[Len(C)].cur).obj.job} ELSE {}
\* The state JobService gives to the jobs.
Standing(run, pending) ==
  [j \in Jobs |-> IF j \in run THEN "running" ELSE IF j \in pending THEN "pending" ELSE "free"]

\* An unlocked queue has the same work, though the marked records are gone.
LEMMA UnlockedWork ==
  ASSUME NEW R, NEW Q, NEW e, Unlocked(R, Q, e)
  PROVE  Work(R) = Work(Q)
<1>1. ASSUME NEW i \in 1..Len(R.recs), ~R.recs[i].del
      PROVE  e[i] \in 1..Len(Q.recs) /\ WorkOf(R.recs[i]) = WorkOf(Q.recs[e[i]]) /\ ~Q.recs[e[i]].del
  BY <1>1 DEF Unlocked, LeftAt, SameRec, WorkOf
<1>2. ASSUME NEW k \in 1..Len(Q.recs), ~Q.recs[k].del
      PROVE  \E i \in 1..Len(R.recs) : ~R.recs[i].del /\ WorkOf(R.recs[i]) = WorkOf(Q.recs[k])
  <2>1. PICK i \in 1..Len(R.recs) : e[i] = k /\ ~R.recs[i].del
    BY <1>2 DEF Unlocked
  <2>2. WorkOf(R.recs[i]) = WorkOf(Q.recs[k])
    BY <2>1 DEF Unlocked, LeftAt, SameRec, WorkOf
  <2> QED
    BY <2>1, <2>2
<1>3. Work(R) \subseteq Work(Q)
  BY <1>1 DEF Work
<1>4. Work(Q) \subseteq Work(R)
  BY <1>2 DEF Work
<1> QED
  BY <1>3, <1>4

\* Marking takes the work of the marked records.
LEMMA MarkedWork ==
  ASSUME NEW R, NEW Q, NEW M, Marked(R, Q, M)
  PROVE  Work(R) = {WorkOf(Q.recs[i]) : i \in {k \in 1..Len(Q.recs) : ~Q.recs[k].del /\ k \notin M}}
<1>1. Len(R.recs) = Len(Q.recs)
  BY DEF Marked
<1>2. ASSUME NEW i \in 1..Len(Q.recs)
      PROVE  WorkOf(R.recs[i]) = WorkOf(Q.recs[i]) /\ (~R.recs[i].del <=> ~Q.recs[i].del /\ i \notin M)
  BY DEF Marked, WorkOf
<1> QED
  BY <1>1, <1>2 DEF Work

\* Silencing a record takes no work.
LEMMA SilencedWork ==
  ASSUME NEW R, NEW Q, Silenced(R, Q)
  PROVE  Work(R) = Work(Q)
<1>1. Len(R.recs) = Len(Q.recs)
  BY DEF Silenced
<1>2. ASSUME NEW i \in 1..Len(Q.recs)
      PROVE  WorkOf(R.recs[i]) = WorkOf(Q.recs[i]) /\ (R.recs[i].del <=> Q.recs[i].del)
  BY DEF Silenced, SameRec, WorkOf
<1> QED
  BY <1>1, <1>2 DEF Work

\* A new record adds its work.
LEMMA InsertedWork ==
  ASSUME NEW R, NEW Q \in Queues, NEW m, NEW r, Inserted(R, Q, m, r), ~r.del
  PROVE  Work(R) = Work(Q) \cup {WorkOf(r)}
<1>1. PICK n : n = Len(Q.recs)
  OBVIOUS
<1>2. n \in Nat
  BY <1>1 DEF Queues
<1>3. m \in 1..(n + 1) /\ Len(R.recs) = n + 1 /\ R.recs[m] = r
  BY <1>1 DEF Inserted
<1>4. \A i \in 1..(m - 1) : R.recs[i] = Q.recs[i]
  BY DEF Inserted
<1>5. \A i \in m..n : R.recs[i + 1] = Q.recs[i]
  BY <1>1 DEF Inserted
<1>6. ASSUME NEW i \in 1..(n + 1) PROVE i = m \/ \E k \in 1..n : R.recs[i] = Q.recs[k]
  <2>1. CASE i < m
    <3>1. i \in 1..(m - 1) /\ i \in 1..n
      BY <1>2, <1>3, <2>1
    <3> QED
      BY <1>4, <3>1
  <2>2. CASE i > m
    <3>1. i - 1 \in m..n /\ i - 1 \in 1..n /\ (i - 1) + 1 = i
      BY <1>2, <1>3, <2>2
    <3> QED
      BY <1>5, <3>1
  <2> QED
    BY <1>2, <1>3, <2>1, <2>2
<1>7. ASSUME NEW k \in 1..n PROVE \E i \in 1..(n + 1) : R.recs[i] = Q.recs[k]
  <2>1. CASE k < m
    <3>1. k \in 1..(m - 1) /\ k \in 1..(n + 1)
      BY <1>2, <1>3, <2>1
    <3> QED
      BY <1>4, <3>1
  <2>2. CASE ~(k < m)
    <3>1. k \in m..n /\ k + 1 \in 1..(n + 1)
      BY <1>2, <1>3, <2>2
    <3> QED
      BY <1>5, <3>1
  <2> QED
    BY <2>1, <2>2
<1>8. ASSUME NEW w \in Work(R) PROVE w \in Work(Q) \cup {WorkOf(r)}
  <2>1. PICK i \in 1..(n + 1) : ~R.recs[i].del /\ w = WorkOf(R.recs[i])
    BY <1>3 DEF Work
  <2> QED
    BY <1>1, <1>3, <1>6, <2>1 DEF Work
<1>9. ASSUME NEW w \in Work(Q) PROVE w \in Work(R)
  <2>1. PICK k \in 1..n : ~Q.recs[k].del /\ w = WorkOf(Q.recs[k])
    BY <1>1 DEF Work
  <2>2. PICK i \in 1..(n + 1) : R.recs[i] = Q.recs[k]
    BY <1>7
  <2> QED
    BY <1>3, <2>1, <2>2 DEF Work
<1>10. WorkOf(r) \in Work(R)
  BY <1>3 DEF Work
<1> QED
  BY <1>8, <1>9, <1>10

\* A walk that stands at record i runs the job of i.
LEMMA RunAt ==
  ASSUME NEW Q \in Queues, Distinct(Q), NEW i \in 1..Len(Q.recs), NEW C, Len(C) > 0,
         C[Len(C)].cur = Q.recs[i].rid
  PROVE  RunIn(Q, C) = {Q.recs[i].obj.job}
<1>1. PICK rid, k : rid = Q.recs[i].rid /\ k = IndexOfRec(Q, rid)
  OBVIOUS
<1>2. rid \in RecIds(Q)
  BY <1>1 DEF RecIds, Queues
<1>3. k \in 1..Len(Q.recs) /\ Q.recs[k].rid = rid
  BY <1>1, <1>2, IndexFound
<1>4. k = i
  BY <1>1, <1>3 DEF Distinct
<1> QED
  BY <1>1, <1>4 DEF RunIn, RecOf

\* StatusOf and PeriodicJobs are those of the work and the walks.
LEMMA StandingNow ==
  ASSUME sq \in Queues
  PROVE  /\ [j \in Jobs |-> StatusOf(j)] = Standing(RunIn(sq, calls), JobsOf(Work(sq)))
         /\ PeriodicJobs = Periodics(Work(sq))
<1>1. DOMAIN sq.recs = 1..Len(sq.recs)
  BY DEF Queues
<1>2. LiveRecs(sq) = {k \in 1..Len(sq.recs) : ~sq.recs[k].del}
  BY <1>1 DEF LiveRecs
<1>3. ASSUME NEW j PROVE j \in RunIn(sq, calls) <=> Depth > 0 /\ RunningObj.job = j
  BY DEF RunIn, Depth, RunningObj, TopCall
<1>4. ASSUME NEW j
      PROVE  j \in JobsOf(Work(sq)) <=> \E i \in LiveRecs(sq) : sq.recs[i].obj.job = j
  <2>1. Work(sq) = {WorkOf(sq.recs[i]) : i \in LiveRecs(sq)}
    BY <1>2 DEF Work
  <2>2. \A i \in LiveRecs(sq) : WorkOf(sq.recs[i]).job = sq.recs[i].obj.job
    BY DEF WorkOf
  <2> QED
    BY <2>1, <2>2 DEF JobsOf
<1>5. \A j \in Jobs : StatusOf(j) = Standing(RunIn(sq, calls), JobsOf(Work(sq)))[j]
  BY <1>3, <1>4 DEF StatusOf, Standing
<1>6. [j \in Jobs |-> StatusOf(j)] = Standing(RunIn(sq, calls), JobsOf(Work(sq)))
  BY <1>5 DEF Standing
<1>7. PeriodicJobs = Periodics(Work(sq))
  <2>1. Work(sq) = {WorkOf(sq.recs[i]) : i \in LiveRecs(sq)}
    BY <1>2 DEF Work
  <2>2. \A i \in LiveRecs(sq) : /\ WorkOf(sq.recs[i]).job = sq.recs[i].obj.job
                                /\ WorkOf(sq.recs[i]).period = sq.recs[i].obj.period
    BY DEF WorkOf
  <2> QED
    BY <2>1, <2>2 DEF PeriodicJobs, Periodics
<1> QED
  BY <1>6, <1>7

\* The same after a step.
LEMMA StandingNext ==
  ASSUME sq' \in Queues
  PROVE  /\ [j \in Jobs |-> StatusOf(j)]' = Standing(RunIn(sq', calls'), JobsOf(Work(sq')))
         /\ PeriodicJobs' = Periodics(Work(sq'))
<1>1. DOMAIN sq'.recs = 1..Len(sq'.recs)
  BY DEF Queues
<1>2. LiveRecs(sq') = {k \in 1..Len(sq'.recs) : ~sq'.recs[k].del}
  BY <1>1 DEF LiveRecs
<1>3. ASSUME NEW j PROVE j \in RunIn(sq', calls') <=> Depth' > 0 /\ RunningObj'.job = j
  BY DEF RunIn, Depth, RunningObj, TopCall
<1>4. ASSUME NEW j
      PROVE  j \in JobsOf(Work(sq')) <=> \E i \in LiveRecs(sq') : sq'.recs[i].obj.job = j
  <2>1. Work(sq') = {WorkOf(sq'.recs[i]) : i \in LiveRecs(sq')}
    BY <1>2 DEF Work
  <2>2. \A i \in LiveRecs(sq') : WorkOf(sq'.recs[i]).job = sq'.recs[i].obj.job
    BY DEF WorkOf
  <2> QED
    BY <2>1, <2>2 DEF JobsOf
<1>5. \A j \in Jobs : StatusOf(j)' = Standing(RunIn(sq', calls'), JobsOf(Work(sq')))[j]
  BY <1>3, <1>4 DEF StatusOf, Standing
<1>6. [j \in Jobs |-> StatusOf(j)]' = Standing(RunIn(sq', calls'), JobsOf(Work(sq')))
  BY <1>5 DEF Standing
<1>7. PeriodicJobs' = Periodics(Work(sq'))
  <2>1. Work(sq') = {WorkOf(sq'.recs[i]) : i \in LiveRecs(sq')}
    BY <1>2 DEF Work
  <2>2. \A i \in LiveRecs(sq') : /\ WorkOf(sq'.recs[i]).job = sq'.recs[i].obj.job
                                /\ WorkOf(sq'.recs[i]).period = sq'.recs[i].obj.period
    BY DEF WorkOf
  <2> QED
    BY <2>1, <2>2 DEF PeriodicJobs, Periodics
<1> QED
  BY <1>6, <1>7

-----------------------------------------------------------------------------
\* The steps of JobService, by the jobs that wait and the job that runs.
LEMMA SubmitStep ==
  ASSUME NEW run, NEW A, NEW j \in Jobs, NEW p \in BOOLEAN, j \notin A, run \subseteq A,
         [i \in Jobs |-> StatusOf(i)] = Standing(run, A),
         [i \in Jobs |-> StatusOf(i)]' = Standing(run, A \cup {j}),
         PeriodicJobs' = IF p THEN PeriodicJobs \cup {j} ELSE PeriodicJobs
  PROVE  Promise!Submit(j, p)
<1>1. Standing(run, A)[j] = "free"
  BY DEF Standing
<1>2. [Standing(run, A) EXCEPT ![j] = "pending"] = Standing(run, A \cup {j})
  BY DEF Standing
<1> QED
  BY <1>1, <1>2 DEF Promise!Submit

\* One Deschedule takes the jobs of an id.
LEMMA CancelStep ==
  ASSUME NEW run, NEW A, NEW js, js \subseteq A \ run,
         [i \in Jobs |-> StatusOf(i)] = Standing(run, A),
         [i \in Jobs |-> StatusOf(i)]' = Standing(run, A \ js),
         PeriodicJobs' = PeriodicJobs \ js, js \subseteq Jobs
  PROVE  Promise!Cancel(js)
<1>1. \A j \in js : Standing(run, A)[j] = "pending"
  BY DEF Standing
<1>2. [j \in Jobs |-> IF j \in js THEN "free" ELSE Standing(run, A)[j]] = Standing(run, A \ js)
  BY DEF Standing
<1> QED
  BY <1>1, <1>2 DEF Promise!Cancel

\* A walk starts the first command.
LEMMA StartStep ==
  ASSUME NEW A, NEW j \in A \cap Jobs,
         [i \in Jobs |-> StatusOf(i)] = Standing({}, A),
         [i \in Jobs |-> StatusOf(i)]' = Standing({j}, A),
         PeriodicJobs' = PeriodicJobs
  PROVE  Promise!Start(j)
<1>1. Standing({}, A)[j] = "pending" /\ \A i \in Jobs : Standing({}, A)[i] # "running"
  BY DEF Standing
<1>2. [Standing({}, A) EXCEPT ![j] = "running"] = Standing({j}, A)
  BY DEF Standing
<1> QED
  BY <1>1, <1>2 DEF Promise!Start, Promise!Running

\* A command returns, and the walk may start the next one.
LEMMA ReturnStep ==
  ASSUME NEW A, NEW j \in A \cap Jobs, NEW next, next \subseteq (A \ {j}) \cap Jobs,
         [i \in Jobs |-> StatusOf(i)] = Standing({j}, A),
         [i \in Jobs |-> StatusOf(i)]' =
            Standing(next, IF j \in PeriodicJobs THEN A ELSE A \ {j}),
         PeriodicJobs' = PeriodicJobs
  PROVE  Promise!Return(j, next)
<1>1. PICK P : P = PeriodicJobs
  OBVIOUS
<1>2. PICK s, t : s = Standing({j}, A) /\ t = Standing(next, IF j \in P THEN A ELSE A \ {j})
  OBVIOUS
<1>3. s[j] = "running" /\ next \subseteq {k \in Jobs : s[k] = "pending"}
  BY <1>2 DEF Standing
<1>4. t = [k \in Jobs |-> IF k \in next THEN "running"
                          ELSE IF k = j THEN IF j \in P THEN "pending" ELSE "free"
                          ELSE s[k]]
  <2>1. \A k \in Jobs : s[k] = IF k = j THEN "running" ELSE IF k \in A THEN "pending" ELSE "free"
    BY <1>2 DEF Standing
  <2> QED
    BY <1>2, <2>1 DEF Standing
<1> QED
  BY <1>1, <1>2, <1>3, <1>4 DEF Promise!Return

-----------------------------------------------------------------------------
\* The record a walk stands at is not marked while its command runs.
CurrentLives == Depth > 0 => \E w \in Work(sq) : w.rid = TopCall.cur

\* Where no job is alive twice, its work is found by its job, and by its cell.
LEMMA WorkAlone ==
  ASSUME NEW Q \in Queues, Distinct(Q)
  PROVE  /\ \A u, v \in Work(Q) : u.rid = v.rid => u = v
         /\ Alone(Alive(Q)) => \A u, v \in Work(Q) : u.job = v.job => u = v
<1>1. ASSUME NEW u \in Work(Q), NEW v \in Work(Q), u.rid = v.rid PROVE u = v
  <2>1. PICK i \in 1..Len(Q.recs) : u = WorkOf(Q.recs[i])
    BY DEF Work
  <2>2. PICK k \in 1..Len(Q.recs) : v = WorkOf(Q.recs[k])
    BY DEF Work
  <2>3. i = k
    BY <1>1, <2>1, <2>2 DEF WorkOf, Distinct
  <2> QED
    BY <2>1, <2>2, <2>3
<1>2. ASSUME NEW u \in Work(Q), NEW v \in Work(Q), u.job = v.job, Alone(Alive(Q)) PROVE u.rid = v.rid
  <2>1. PICK i \in 1..Len(Q.recs) : u = WorkOf(Q.recs[i]) /\ ~Q.recs[i].del
    BY DEF Work
  <2>2. PICK k \in 1..Len(Q.recs) : v = WorkOf(Q.recs[k]) /\ ~Q.recs[k].del
    BY DEF Work
  <2>3. Entry(Q.recs[i]) \in Alive(Q) /\ Entry(Q.recs[k]) \in Alive(Q)
    BY <2>1, <2>2 DEF Alive
  <2> QED
    BY <1>2, <2>1, <2>2, <2>3 DEF Alone, Entry, WorkOf
<1> QED
  BY <1>1, <1>2

\* The jobs of some work are jobs.
LEMMA WorkTyped ==
  ASSUME NEW Q \in Queues, NEW w \in Work(Q)
  PROVE  w.rid \in RIds /\ w.job \in Jobs /\ w.period \in Delays \cup {0}
<1>1. PICK i \in 1..Len(Q.recs) : w = WorkOf(Q.recs[i])
  BY DEF Work
<1>2. Q.recs[i] \in Records
  BY ElementOfSeq DEF Queues
<1> QED
  BY <1>1, <1>2 DEF WorkOf, Records, Objects

\* The job that runs is that of the record the walk stands at.
LEMMA RunningWork ==
  ASSUME NEW Q \in Queues, Distinct(Q), NEW C, Len(C) > 0,
         NEW w \in Work(Q), w.rid = C[Len(C)].cur
  PROVE  RunIn(Q, C) = {w.job}
<1>1. PICK i \in 1..Len(Q.recs) : w = WorkOf(Q.recs[i])
  BY DEF Work
<1>2. w.rid = Q.recs[i].rid /\ w.job = Q.recs[i].obj.job
  BY <1>1 DEF WorkOf
<1>3. C[Len(C)].cur = Q.recs[i].rid
  BY <1>2
<1>4. RunIn(Q, C) = {Q.recs[i].obj.job}
  BY <1>3, RunAt
<1> QED
  BY <1>2, <1>4

\* Where a walk with none below it goes, no work is lost.
LEMMA WalkWork ==
  ASSUME NEW Q, NEW C, Walked(Q, C), Len(C) = 0, NEW from, NEW now, Walk(Q, from, now, C)
  PROVE  /\ Work(sq') = Work(Q)
         /\ \/ Len(calls') = 0
            \/ \E i \in 1..Len(Q.recs) :
                  /\ ~Q.recs[i].new /\ ~Q.recs[i].del /\ Len(calls') > 0 /\ sq' = Q
                  /\ calls'[Len(calls')].cur = Q.recs[i].rid
<1>0. Q \in Queues /\ Distinct(Q) /\ C \in Seq(Calls) /\ Q.lock = 1
  BY DEF Walked
<1>1. WalkEnds(Q, C) \/ \E i : WalkStops(Q, from, now, C, i)
  BY <1>0, WalkCases
<1>2. CASE WalkEnds(Q, C)
  <2>1. PICK R : R = UnlockQueue(Q)
    OBVIOUS
  <2>2. PICK e : Unlocked(R, Q, e)
    BY <1>0, <2>1, UnlockUnlocks
  <2>3. Work(R) = Work(Q)
    BY <2>2, UnlockedWork
  <2> QED
    BY <1>2, <2>1, <2>3 DEF WalkEnds
<1>3. ASSUME NEW i, WalkStops(Q, from, now, C, i)
      PROVE  /\ Work(sq') = Work(Q) /\ i \in 1..Len(Q.recs)
             /\ ~Q.recs[i].new /\ ~Q.recs[i].del /\ Len(calls') > 0 /\ sq' = Q
             /\ calls'[Len(calls')].cur = Q.recs[i].rid
  <2>1. PICK c : c = [now |-> now, cur |-> Q.recs[i].rid]
    OBVIOUS
  <2>2. /\ i \in 1..Len(Q.recs) /\ ~Q.recs[i].new /\ ~Q.recs[i].del
        /\ sq' = Q /\ calls' = Append(C, c)
    BY <1>3, <2>1 DEF WalkStops
  <2>3. Len(calls') = 1 /\ calls'[1] = c
    BY <1>0, <2>2
  <2> QED
    BY <2>1, <2>2, <2>3
<1> QED
  BY <1>1, <1>2, <1>3

-----------------------------------------------------------------------------
\* Taking some of the work takes its jobs, if no job is there twice.
LEMMA LessWork ==
  ASSUME NEW W, NEW X, X \subseteq W, \A u, v \in W : u.job = v.job => u = v
  PROVE  /\ JobsOf(W \ X) = JobsOf(W) \ JobsOf(X)
         /\ Periodics(W \ X) = Periodics(W) \ JobsOf(X)
BY DEF JobsOf, Periodics

\* No command runs where none is under way.
LEMMA NoneRuns ==
  ASSUME NEW Q, NEW C, Len(C) = 0 PROVE RunIn(Q, C) = {}
BY DEF RunIn

\* A step that leaves the walks and the work they need alone goes on running
\* the same job.
LEMMA KeepRunning ==
  ASSUME Inv, Inv', CurrentLives, calls' = calls, Depth > 0 => Work(sq) \subseteq Work(sq')
  PROVE  RunIn(sq', calls') = RunIn(sq, calls) /\ CurrentLives'
<1>1. sq \in Queues /\ Distinct(sq) /\ sq' \in Queues /\ Distinct(sq')
  BY DEF Inv, Sane
<1>2. Depth' = Depth /\ TopCall' = TopCall /\ Depth \in Nat
  BY DEF Depth, TopCall, Inv, Sane
<1>3. CASE Depth > 0
  <2>1. PICK w \in Work(sq) : w.rid = TopCall.cur
    BY <1>3 DEF CurrentLives
  <2>2. w \in Work(sq')
    BY <1>3, <2>1
  <2>3. Len(calls) > 0 /\ w.rid = calls[Len(calls)].cur
    BY <1>3, <2>1 DEF Depth, TopCall
  <2>4. RunIn(sq, calls) = {w.job}
    BY <1>1, <2>1, <2>3, RunningWork
  <2>5. PICK R, C : R = sq' /\ C = calls'
    OBVIOUS
  <2>6. RunIn(R, C) = {w.job}
    <3>1. R \in Queues /\ Distinct(R) /\ Len(C) > 0 /\ w \in Work(R) /\ w.rid = C[Len(C)].cur
      BY <1>1, <2>2, <2>3, <2>5
    <3> QED
      BY <3>1, RunningWork
  <2>7. CurrentLives'
    BY <1>2, <2>1, <2>2 DEF CurrentLives
  <2> QED
    BY <2>4, <2>5, <2>6, <2>7
<1>4. CASE ~(Depth > 0)
  <2>1. Len(calls) = 0 /\ Len(calls') = 0
    BY <1>2, <1>4 DEF Depth
  <2>2. RunIn(sq, calls) = {} /\ RunIn(sq', calls') = {}
    BY <2>1, NoneRuns
  <2>3. CurrentLives'
    BY <1>2, <1>4 DEF CurrentLives
  <2> QED
    BY <2>2, <2>3
<1> QED
  BY <1>3, <1>4

\* The job that runs is among those that are still to be run.
LEMMA RunWorks ==
  ASSUME sq \in Queues, Distinct(sq), CurrentLives
  PROVE  RunIn(sq, calls) \subseteq JobsOf(Work(sq))
<1>1. CASE Len(calls) > 0
  <2>1. PICK w \in Work(sq) : w.rid = calls[Len(calls)].cur
    BY <1>1 DEF CurrentLives, Depth, TopCall
  <2>2. RunIn(sq, calls) = {w.job}
    BY <1>1, <2>1, RunningWork
  <2> QED
    BY <2>1, <2>2 DEF JobsOf
<1>2. CASE ~(Len(calls) > 0)
  BY <1>2 DEF RunIn
<1> QED
  BY <1>1, <1>2

\* A step that changes neither work nor running job is no step of JobService.
LEMMA PromiseStutters ==
  ASSUME Inv, Inv', Work(sq') = Work(sq), RunIn(sq', calls') = RunIn(sq, calls)
  PROVE  UNCHANGED Promise!jvars
<1>1. sq \in Queues /\ sq' \in Queues
  BY DEF Inv, Sane
<1>2. /\ [j \in Jobs |-> StatusOf(j)] = Standing(RunIn(sq, calls), JobsOf(Work(sq)))
      /\ PeriodicJobs = Periodics(Work(sq))
  BY <1>1, StandingNow
<1>3. /\ [j \in Jobs |-> StatusOf(j)]' = Standing(RunIn(sq', calls'), JobsOf(Work(sq')))
      /\ PeriodicJobs' = Periodics(Work(sq'))
  BY <1>1, StandingNext
<1> QED
  BY <1>2, <1>3 DEF Promise!jvars

\* CMD_Schedule submits a job.
LEMMA SchedulePromise ==
  ASSUME Inv, Inv', CurrentLives, NEW ms \in Delays, NEW periodic \in Modes,
         NEW explicit \in ExplicitIds, CmdSchedule(ms, periodic, explicit)
  PROVE  CurrentLives' /\ Promise!JNext
<1>1. sq \in Queues /\ sq' \in Queues /\ Distinct(sq) /\ calls' = calls
  BY DEF Inv, Sane, CmdSchedule
<1>2. PICK obj, rid, m : Scheduled(obj, rid, m)
  BY ScheduleEffect
<1>3. PICK r, w : r = NewRecord(sq, rid, obj) /\ w = WorkOf(r)
  OBVIOUS
<1>4. /\ obj \in Objects /\ obj.job \in Jobs /\ Inserted(sq', sq, m, r) /\ ~r.del
      /\ w.job = obj.job /\ w.period = obj.period
      /\ \A i \in 1..Len(sq.recs) : sq.recs[i].obj.job # obj.job
  <2>1. obj.job \notin {sq.recs[i].obj.job : i \in DOMAIN sq.recs} /\ obj.job \in Jobs
    BY <1>2 DEF Scheduled, FreeJobs
  <2>2. DOMAIN sq.recs = 1..Len(sq.recs)
    BY <1>1 DEF Queues
  <2> QED
    BY <1>2, <1>3, <2>1, <2>2 DEF Scheduled, NewRecord, WorkOf
<1>5. PICK R : R = sq'
  OBVIOUS
<1>6. Work(R) = Work(sq) \cup {w}
  BY <1>1, <1>3, <1>4, <1>5, InsertedWork
<1>7. RunIn(sq', calls') = RunIn(sq, calls) /\ CurrentLives'
  BY <1>1, <1>5, <1>6, KeepRunning
<1>8. PICK j, p, run, A : /\ j = obj.job /\ p = (obj.period > 0) /\ run = RunIn(sq, calls)
                          /\ A = JobsOf(Work(sq))
  OBVIOUS
<1>9. j \notin A /\ j \in Jobs
  BY <1>4, <1>8 DEF JobsOf, Work, WorkOf
<1>10. run \subseteq A
  BY <1>1, <1>8, RunWorks
<1>11. [i \in Jobs |-> StatusOf(i)] = Standing(run, A)
  BY <1>1, <1>8, StandingNow
<1>12. [i \in Jobs |-> StatusOf(i)]' = Standing(run, A \cup {j})
  <2>1. JobsOf(Work(sq')) = A \cup {j}
    BY <1>4, <1>5, <1>6, <1>8 DEF JobsOf
  <2> QED
    BY <1>1, <1>7, <1>8, <2>1, StandingNext
<1>13. p \in BOOLEAN /\ PeriodicJobs' = IF p THEN PeriodicJobs \cup {j} ELSE PeriodicJobs
  <2>1. Periodics(Work(sq')) = IF p THEN Periodics(Work(sq)) \cup {j} ELSE Periodics(Work(sq))
    BY <1>4, <1>5, <1>6, <1>8 DEF Periodics
  <2>2. p \in BOOLEAN
    BY <1>8
  <2> QED
    BY <1>1, <2>1, <2>2, StandingNow, StandingNext
<1>14. Promise!Submit(j, p)
  BY <1>9, <1>10, <1>11, <1>12, <1>13, SubmitStep
<1> QED
  BY <1>7, <1>9, <1>13, <1>14 DEF Promise!JNext

\* CMD_Deschedule, while no command runs, cancels the jobs of its id.
LEMMA DeschedulePromise ==
  ASSUME "deschedule" \notin Nested, Inv, Inv', JobsAlone, CurrentLives,
         NEW explicit \in ExplicitIds, CmdDeschedule(explicit)
  PROVE  CurrentLives' /\ (Promise!JNext \/ UNCHANGED Promise!jvars)
<1>1. sq \in Queues /\ sq' \in Queues /\ Distinct(sq) /\ calls' = calls /\ Depth \in Nat
  BY DEF Inv, Sane, CmdDeschedule, Depth
<1>2. Depth = 0
  BY <1>1 DEF CmdDeschedule, InCommand
<1>3. RunIn(sq', calls') = RunIn(sq, calls) /\ CurrentLives'
  BY <1>1, <1>2, KeepRunning
<1>4. CASE sq' = sq
  BY <1>3, <1>4, PromiseStutters
<1>5. ASSUME NEW id, NEW L, NEW e,
             Marked(L, LockQueue(sq), Candidates(sq, 1) \cap
                       {i \in DOMAIN sq.recs : sq.recs[i].obj.id = id}),
             Unlocked(sq', L, e)
      PROVE  Promise!JNext
  <2>1. PICK M, K : /\ M = Candidates(sq, 1) \cap {i \in DOMAIN sq.recs : sq.recs[i].obj.id = id}
                    /\ K = LockQueue(sq)
    OBVIOUS
  <2>2. K.recs = sq.recs /\ Marked(L, K, M)
    BY <1>1, <1>5, <2>1, LockLocks
  <2>3. PICK W, X : /\ W = Work(sq)
                    /\ X = {WorkOf(sq.recs[i]) : i \in {k \in 1..Len(sq.recs) : ~sq.recs[k].del /\ k \in M}}
    OBVIOUS
  <2>4. Work(L) = W \ X
    <3>1. Work(L) = {WorkOf(sq.recs[i]) : i \in {k \in 1..Len(sq.recs) : ~sq.recs[k].del /\ k \notin M}}
      BY <2>2, MarkedWork
    <3>2. ASSUME NEW i \in 1..Len(sq.recs), NEW k \in 1..Len(sq.recs),
                 WorkOf(sq.recs[i]) = WorkOf(sq.recs[k])
          PROVE  i = k
      BY <1>1, <3>2 DEF WorkOf, Distinct
    <3> QED
      BY <2>3, <3>1, <3>2 DEF Work
  <2>5. Work(sq') = W \ X
    <3>1. PICK R : R = sq'
      OBVIOUS
    <3>2. Work(R) = Work(L)
      BY <1>5, <3>1, UnlockedWork
    <3> QED
      BY <2>4, <3>1, <3>2
  <2>6. X \subseteq W /\ \A u, v \in W : u.job = v.job => u = v
    BY <1>1, <2>3, WorkAlone DEF Work, JobsAlone
  <2>7. /\ JobsOf(W \ X) = JobsOf(W) \ JobsOf(X)
        /\ Periodics(W \ X) = Periodics(W) \ JobsOf(X)
    BY <2>6, LessWork
  <2>8. RunIn(sq, calls) = {}
    BY <1>2, NoneRuns DEF Depth
  <2>9. PICK A, js : A = JobsOf(W) /\ js = JobsOf(X)
    OBVIOUS
  <2>10. js \subseteq A \ {} /\ js \subseteq Jobs
    <3>1. \A w \in W : w.job \in Jobs
      BY <1>1, <2>3, WorkTyped
    <3> QED
      BY <2>6, <2>9, <3>1 DEF JobsOf
  <2>11. [i \in Jobs |-> StatusOf(i)] = Standing({}, A)
    BY <1>1, <2>3, <2>8, <2>9, StandingNow
  <2>12. [i \in Jobs |-> StatusOf(i)]' = Standing({}, A \ js)
    BY <1>1, <1>3, <2>5, <2>7, <2>8, <2>9, StandingNext
  <2>13. PeriodicJobs' = PeriodicJobs \ js
    BY <1>1, <2>3, <2>5, <2>7, <2>9, StandingNow, StandingNext
  <2>14. Promise!Cancel(js)
    BY <2>10, <2>11, <2>12, <2>13, CancelStep
  <2> QED
    BY <2>10, <2>14 DEF Promise!JNext
<1> QED
  BY <1>3, <1>4, <1>5, DescheduleEffect

\* What a walk with none below it makes of the walks.
LEMMA WalkRuns ==
  ASSUME NEW Q, Q \in Queues, Distinct(Q),
         \/ Len(calls') = 0
         \/ \E i \in 1..Len(Q.recs) :
               /\ ~Q.recs[i].new /\ ~Q.recs[i].del /\ Len(calls') > 0 /\ sq' = Q
               /\ calls'[Len(calls')].cur = Q.recs[i].rid
  PROVE  /\ CurrentLives'
         /\ \/ RunIn(sq', calls') = {}
            \/ \E i \in 1..Len(Q.recs) :
                  /\ ~Q.recs[i].new /\ ~Q.recs[i].del
                  /\ RunIn(sq', calls') = {Q.recs[i].obj.job}
<1>1. CASE Len(calls') = 0
  <2>1. RunIn(sq', calls') = {}
    BY <1>1, NoneRuns
  <2>2. CurrentLives'
    BY <1>1 DEF CurrentLives, Depth
  <2> QED
    BY <2>1, <2>2
<1>2. ASSUME NEW i \in 1..Len(Q.recs), ~Q.recs[i].new, ~Q.recs[i].del, Len(calls') > 0, sq' = Q,
             calls'[Len(calls')].cur = Q.recs[i].rid
      PROVE  CurrentLives' /\ RunIn(sq', calls') = {Q.recs[i].obj.job}
  <2>1. PICK C : C = calls'
    OBVIOUS
  <2>2. RunIn(Q, C) = {Q.recs[i].obj.job}
    BY <1>2, <2>1, RunAt
  <2>3. WorkOf(Q.recs[i]) \in Work(Q) /\ WorkOf(Q.recs[i]).rid = Q.recs[i].rid
    BY <1>2 DEF Work, WorkOf
  <2>4. CurrentLives'
    BY <1>2, <2>3 DEF CurrentLives, TopCall, Depth
  <2> QED
    BY <1>2, <2>1, <2>2, <2>4
<1> QED
  BY <1>1, <1>2

\* squeue_execute starts the first job that is due, if there is one.
LEMMA ExecutePromise ==
  ASSUME "wait" \notin Nested, Inv, Inv', SqueueExecute
  PROVE  CurrentLives' /\ (Promise!JNext \/ UNCHANGED Promise!jvars)
<1>1. /\ sq \in Queues /\ Distinct(sq) /\ Flagged(sq) /\ sq' \in Queues
      /\ calls \in Seq(Calls) /\ sq.lock = Len(calls)
      /\ \A k \in 1..Len(calls) : calls[k].cur \in RecIds(sq)
  BY DEF Inv, Sane
<1>2. Len(calls) = 0
  BY <1>1 DEF SqueueExecute, InCommand, Depth
<1>3. PICK K : K = LockQueue(sq)
  OBVIOUS
<1>4. K \in Queues /\ K.recs = sq.recs /\ K.lock = sq.lock + 1 /\ K.dirty = sq.dirty
  BY <1>1, <1>3, LockLocks
<1>5. Distinct(K) /\ Flagged(K) /\ RecIds(K) = RecIds(sq) /\ Work(K) = Work(sq)
  BY <1>1, <1>4 DEF Distinct, Flagged, RecIds, Work
<1>6. Walked(K, calls) /\ Walk(K, 1, clock, calls)
  BY <1>1, <1>3, <1>4, <1>5 DEF Walked, SqueueExecute
<1>7. /\ Work(sq') = Work(sq)
      /\ \/ Len(calls') = 0
         \/ \E i \in 1..Len(K.recs) :
               /\ ~K.recs[i].new /\ ~K.recs[i].del /\ Len(calls') > 0 /\ sq' = K
               /\ calls'[Len(calls')].cur = K.recs[i].rid
  BY <1>2, <1>5, <1>6, WalkWork
<1>8. /\ CurrentLives'
      /\ \/ RunIn(sq', calls') = {}
         \/ \E i \in 1..Len(K.recs) :
               /\ ~K.recs[i].new /\ ~K.recs[i].del
               /\ RunIn(sq', calls') = {K.recs[i].obj.job}
  BY <1>4, <1>5, <1>7, WalkRuns
<1>9. RunIn(sq, calls) = {}
  BY <1>2, NoneRuns
<1>10. CASE RunIn(sq', calls') = {}
  BY <1>7, <1>8, <1>9, <1>10, PromiseStutters
<1>11. ASSUME NEW i \in 1..Len(K.recs), ~K.recs[i].del, RunIn(sq', calls') = {K.recs[i].obj.job}
       PROVE  Promise!JNext
  <2>1. PICK w, j, A : w = WorkOf(K.recs[i]) /\ j = K.recs[i].obj.job /\ A = JobsOf(Work(sq))
    OBVIOUS
  <2>2. w \in Work(sq) /\ w.job = j
    BY <1>5, <1>11, <2>1 DEF Work, WorkOf
  <2>3. j \in A \cap Jobs
    BY <1>1, <2>1, <2>2, WorkTyped DEF JobsOf
  <2>4. [k \in Jobs |-> StatusOf(k)] = Standing({}, A)
    BY <1>1, <1>9, <2>1, StandingNow
  <2>5. [k \in Jobs |-> StatusOf(k)]' = Standing({j}, A)
    BY <1>1, <1>7, <1>11, <2>1, StandingNext
  <2>6. PeriodicJobs' = PeriodicJobs
    BY <1>1, <1>7, StandingNow, StandingNext
  <2>7. Promise!Start(j)
    BY <2>3, <2>4, <2>5, <2>6, StartStep
  <2> QED
    BY <2>3, <2>7 DEF Promise!JNext
<1> QED
  BY <1>8, <1>10, <1>11

\* What a command that returns leaves to be done: its own job only if that is
\* periodic, and no record a walk may go on to is of its job.
LEMMA ReturnWork ==
  ASSUME "wait" \notin Nested, Inv, JobsAlone, CurrentLives, CommandReturns
  PROVE  \E D, w, outer, from, now :
            /\ Walked(D, outer) /\ Len(outer) = 0 /\ Walk(D, from, now, outer)
            /\ w \in Work(sq) /\ w.rid = TopCall.cur /\ w.period \in Nat
            /\ \/ w.period = 0 /\ Work(D) = Work(sq) \ {w}
               \/ w.period > 0 /\ \E v : /\ v.job = w.job /\ v.period = w.period
                                         /\ Work(D) = (Work(sq) \ {w}) \cup {v}
            /\ \A i \in 1..Len(D.recs) :
                  ~D.recs[i].new /\ ~D.recs[i].del => WorkOf(D.recs[i]) \in Work(sq) \ {w}
<1>1. /\ sq \in Queues /\ Distinct(sq) /\ Flagged(sq) /\ sq.lock = Len(calls)
  BY DEF Inv, Sane
<1>2. Depth > 0 /\ Depth \in Nat
  BY DEF CommandReturns, Depth, Inv, Sane
<1>3. PICK w \in Work(sq) : w.rid = TopCall.cur
  BY <1>2 DEF CurrentLives
<1>4. PICK R, D : /\ \/ R = sq /\ RunningObj.period = 0 /\ owed' = owed
                     \/ RunningObj.period > 0 /\ \E Q, again, rid, m : Requeued(Q, R, again, rid, m)
                  /\ WalkGoesOn(R, D)
  BY ReturnEffect
<1>5. PICK outer : outer = SubSeq(calls, 1, Depth - 1)
  OBVIOUS
<1>6. Walked(D, outer) /\ R \in Queues /\ Distinct(R) /\ TopCall.cur \in RecIds(R)
  BY <1>2, <1>4, <1>5, ReturnWalked
<1>7. Len(outer) = 0
  <2>1. Len(outer) + 1 = Depth /\ Len(outer) \in Nat
    BY <1>2, <1>5, OuterWalks
  <2>2. Depth <= 1
    BY DEF JobsAlone
  <2> QED
    BY <1>2, <2>1, <2>2
<1>8. PICK from, now : Walk(D, from, now, outer)
  BY <1>4, <1>5 DEF WalkGoesOn
<1>9. PICK cur, n : cur = TopCall.cur /\ n = IndexOfRec(R, cur)
  OBVIOUS
<1>10. n \in 1..Len(R.recs) /\ R.recs[n].rid = cur
  BY <1>6, <1>9, IndexFound
<1>11. Marked(D, R, {n})
  BY <1>4, <1>9 DEF WalkGoesOn
<1>12. RunningObj.period = w.period /\ RunningObj.job = w.job /\ w.period \in Nat
  <2>1. PICK i \in 1..Len(sq.recs) : w = WorkOf(sq.recs[i])
    BY <1>3 DEF Work
  <2>2. PICK k : k = IndexOfRec(sq, TopCall.cur)
    OBVIOUS
  <2>3. k \in 1..Len(sq.recs) /\ sq.recs[k].rid = TopCall.cur /\ RunningObj = sq.recs[k].obj
        /\ RunningObj \in Objects
    BY <1>2, <2>2, TopFound
  <2>4. k = i
    BY <1>1, <1>3, <2>1, <2>3 DEF WorkOf, Distinct
  <2>5. RunningObj.period \in Nat
    BY <2>3, ObjectPeriod
  <2> QED
    BY <2>1, <2>3, <2>4, <2>5 DEF WorkOf
<1>13. Work(D) = {u \in Work(R) : u.rid # cur}
  <2>1. Work(D) = {WorkOf(R.recs[i]) : i \in {k \in 1..Len(R.recs) : ~R.recs[k].del /\ k \notin {n}}}
    BY <1>11, MarkedWork
  <2>2. \A i \in 1..Len(R.recs) : i \notin {n} <=> WorkOf(R.recs[i]).rid # cur
    BY <1>6, <1>10 DEF WorkOf, Distinct
  <2> QED
    BY <2>1, <2>2 DEF Work
<1>14. \A u \in Work(sq) : u.rid = cur <=> u = w
  BY <1>1, <1>3, <1>9, WorkAlone
<1>15. ASSUME NEW i \in 1..Len(D.recs), ~D.recs[i].new, ~D.recs[i].del
       PROVE  /\ i \in 1..Len(R.recs) /\ ~R.recs[i].new
              /\ WorkOf(D.recs[i]) = WorkOf(R.recs[i]) /\ WorkOf(D.recs[i]) \in Work(D)
  BY <1>11, <1>15 DEF Marked, Work, WorkOf
<1>16. CASE R = sq /\ RunningObj.period = 0
  <2>1. Work(D) = Work(sq) \ {w}
    BY <1>13, <1>14, <1>16
  <2> QED
    BY <1>3, <1>6, <1>7, <1>8, <1>12, <1>15, <1>16, <2>1
<1>17. ASSUME RunningObj.period > 0, NEW Q, NEW again, NEW rid, NEW m, Requeued(Q, R, again, rid, m)
       PROVE  \E v : /\ v.job = w.job /\ v.period = w.period
                     /\ Work(D) = (Work(sq) \ {w}) \cup {v}
                     /\ \A i \in 1..Len(D.recs) :
                           ~D.recs[i].new /\ ~D.recs[i].del => WorkOf(D.recs[i]) \in Work(sq) \ {w}
  <2>1. PICK r, v : r = NewRecord(Q, rid, again) /\ v = WorkOf(r)
    OBVIOUS
  <2>2. /\ Silenced(Q, sq) /\ rid \in FreeRIds /\ Inserted(R, Q, m, r)
        /\ again.job = RunningObj.job /\ again.period = RunningObj.period
    <3>1. /\ Silenced(Q, sq) /\ rid \in FreeRIds /\ Inserted(R, Q, m, r)
          /\ SameRec([rid |-> rid, obj |-> again],
                     [rid |-> rid, obj |-> [RunningObj EXCEPT !.due = again.due]])
      BY <1>17, <2>1 DEF Requeued
    <3>2. RunningObj \in Objects
      BY <1>2, TopFound
    <3> QED
      BY <3>1, <3>2 DEF SameRec, Objects
  <2>3. /\ Q \in Queues /\ RecIds(Q) = RecIds(sq) /\ Q.lock = sq.lock
        /\ Len(Q.recs) = Len(sq.recs)
    <3>1. RecIds(Q) = RecIds(sq)
      BY <1>1, <2>2, SilencedKeeps
    <3> QED
      BY <2>2, <3>1 DEF Silenced
  <2>4. /\ ~r.del /\ r.new /\ r.rid = rid /\ rid \notin RecIds(sq)
        /\ v.rid = rid /\ v.job = w.job /\ v.period = w.period
    <3>1. Q.lock > 0
      BY <1>1, <1>2, <2>3 DEF Depth
    <3> QED
      BY <1>12, <2>1, <2>2, <3>1 DEF NewRecord, WorkOf, FreeRIds
  <2>5. Work(R) = Work(sq) \cup {v}
    <3>1. Work(R) = Work(Q) \cup {v}
      <4>1. Inserted(R, Q, m, r) /\ ~r.del /\ Q \in Queues
        BY <2>2, <2>3, <2>4
      <4>2. Work(R) = Work(Q) \cup {WorkOf(r)}
        BY <4>1, InsertedWork
      <4> QED
        BY <2>1, <4>2
    <3>2. Work(Q) = Work(sq)
      BY <2>2, SilencedWork
    <3> QED
      BY <3>1, <3>2
  <2>6. cur # rid
    <3>1. cur \in RecIds(sq)
      BY <1>2, <1>9, TopFound
    <3> QED
      BY <2>4, <3>1
  <2>7. Work(D) = (Work(sq) \ {w}) \cup {v}
    BY <1>13, <1>14, <2>4, <2>5, <2>6
  <2>8. ASSUME NEW i \in 1..Len(D.recs), ~D.recs[i].new, ~D.recs[i].del
        PROVE  WorkOf(D.recs[i]) \in Work(sq) \ {w}
    <3>1. R.recs[m] = r /\ m \in 1..Len(R.recs)
      <4>1. Len(Q.recs) \in Nat
        BY <2>3 DEF Queues
      <4> QED
        BY <2>2, <4>1 DEF Inserted
    <3>2. i # m /\ i \in 1..Len(R.recs)
      BY <1>15, <2>4, <2>8, <3>1
    <3>3. R.recs[i].rid # rid
      BY <1>6, <2>4, <3>1, <3>2 DEF Distinct
    <3>4. WorkOf(D.recs[i]) \in Work(D) /\ WorkOf(D.recs[i]).rid # v.rid
      BY <1>15, <2>4, <2>8, <3>3 DEF WorkOf
    <3> QED
      BY <2>7, <3>4
  <2> QED
    BY <2>4, <2>7, <2>8
<1>18. CASE RunningObj.period > 0
  <2>1. PICK v : /\ v.job = w.job /\ v.period = w.period
                 /\ Work(D) = (Work(sq) \ {w}) \cup {v}
                 /\ \A i \in 1..Len(D.recs) :
                       ~D.recs[i].new /\ ~D.recs[i].del => WorkOf(D.recs[i]) \in Work(sq) \ {w}
    <3>1. RunningObj.period # 0
      BY <1>12, <1>18
    <3> QED
      BY <1>4, <1>17, <1>18, <3>1
  <2> QED
    BY <1>3, <1>6, <1>7, <1>8, <1>12, <1>18, <2>1
<1> QED
  BY <1>4, <1>16, <1>18

\* A command that returns ends its run, and the walk may start the next job.
LEMMA ReturnPromise ==
  ASSUME "wait" \notin Nested, Inv, Inv', JobsAlone, CurrentLives, CommandReturns
  PROVE  CurrentLives' /\ Promise!JNext
<1>1. sq \in Queues /\ Distinct(sq) /\ sq' \in Queues
  BY DEF Inv, Sane
<1>2. PICK D, w, outer, from, now :
        /\ Walked(D, outer) /\ Len(outer) = 0 /\ Walk(D, from, now, outer)
        /\ w \in Work(sq) /\ w.rid = TopCall.cur /\ w.period \in Nat
        /\ \/ w.period = 0 /\ Work(D) = Work(sq) \ {w}
           \/ w.period > 0 /\ \E v : /\ v.job = w.job /\ v.period = w.period
                                     /\ Work(D) = (Work(sq) \ {w}) \cup {v}
        /\ \A i \in 1..Len(D.recs) :
              ~D.recs[i].new /\ ~D.recs[i].del => WorkOf(D.recs[i]) \in Work(sq) \ {w}
  BY ReturnWork
<1>3. D \in Queues /\ Distinct(D)
  BY <1>2 DEF Walked
<1>4. /\ Work(sq') = Work(D)
      /\ \/ Len(calls') = 0
         \/ \E i \in 1..Len(D.recs) :
               /\ ~D.recs[i].new /\ ~D.recs[i].del /\ Len(calls') > 0 /\ sq' = D
               /\ calls'[Len(calls')].cur = D.recs[i].rid
  BY <1>2, WalkWork
<1>5. /\ CurrentLives'
      /\ \/ RunIn(sq', calls') = {}
         \/ \E i \in 1..Len(D.recs) :
               /\ ~D.recs[i].new /\ ~D.recs[i].del
               /\ RunIn(sq', calls') = {D.recs[i].obj.job}
  BY <1>3, <1>4, WalkRuns
<1>6. PICK W, j, A, next : /\ W = Work(sq) /\ j = w.job /\ A = JobsOf(W)
                           /\ next = RunIn(sq', calls')
  OBVIOUS
<1>7. \A u, v \in W : u.job = v.job => u = v
  BY <1>1, <1>6, WorkAlone DEF JobsAlone
<1>8. w \in W /\ j \in A \cap Jobs /\ \A u \in W : u.job \in Jobs
  BY <1>1, <1>2, <1>6, WorkTyped DEF JobsOf
<1>9. RunIn(sq, calls) = {j}
  <2>1. Len(calls) > 0
    BY DEF CommandReturns, Depth
  <2>2. w.rid = calls[Len(calls)].cur
    BY <1>2 DEF TopCall, Depth
  <2> QED
    BY <1>1, <1>2, <1>6, <2>1, <2>2, RunningWork
<1>10. next = {} \/ \E u \in W \ {w} : next = {u.job}
  <2>1. ASSUME NEW i \in 1..Len(D.recs), ~D.recs[i].new, ~D.recs[i].del, next = {D.recs[i].obj.job}
        PROVE  \E u \in W \ {w} : next = {u.job}
    <3>1. WorkOf(D.recs[i]) \in W \ {w} /\ WorkOf(D.recs[i]).job = D.recs[i].obj.job
      BY <1>2, <1>6, <2>1 DEF WorkOf
    <3> QED
      BY <2>1, <3>1
  <2> QED
    BY <1>5, <1>6, <2>1
<1>11. next \subseteq (A \ {j}) \cap Jobs /\ next \in {{}} \cup {{k} : k \in Jobs}
  <2>1. \A u \in W \ {w} : u.job \in A /\ u.job # j /\ u.job \in Jobs
    BY <1>6, <1>7, <1>8 DEF JobsOf
  <2> QED
    BY <1>10, <2>1
<1>12. PeriodicJobs = Periodics(W)
  BY <1>1, <1>6, StandingNow
<1>13. /\ JobsOf(Work(D)) = IF j \in Periodics(W) THEN A ELSE A \ {j}
       /\ Periodics(Work(D)) = Periodics(W)
  <2>1. j \in Periodics(W) <=> w.period > 0
    BY <1>6, <1>7, <1>8 DEF Periodics
  <2>2. /\ JobsOf(W \ {w}) = A \ {j} /\ Periodics(W \ {w}) = Periodics(W) \ {j}
    <3>1. {w} \subseteq W /\ JobsOf({w}) = {j}
      BY <1>6, <1>8 DEF JobsOf
    <3> QED
      BY <1>6, <1>7, <3>1, LessWork
  <2>3. CASE w.period = 0 /\ Work(D) = W \ {w}
    <3>1. j \notin Periodics(W)
      BY <2>1, <2>3
    <3>2. Periodics(W) \ {j} = Periodics(W)
      BY <3>1
    <3>3. JobsOf(Work(D)) = A \ {j} /\ Periodics(Work(D)) = Periodics(W)
      BY <2>2, <2>3, <3>2
    <3> QED
      BY <3>1, <3>3
  <2>4. ASSUME w.period > 0, NEW v, v.job = w.job, v.period = w.period, Work(D) = (W \ {w}) \cup {v}
        PROVE  JobsOf(Work(D)) = A /\ Periodics(Work(D)) = Periodics(W)
    <3>1. JobsOf(Work(D)) = JobsOf(W \ {w}) \cup {j}
      BY <1>6, <2>4 DEF JobsOf
    <3>2. Periodics(Work(D)) = Periodics(W \ {w}) \cup {j}
      BY <1>6, <2>4 DEF Periodics
    <3> QED
      BY <1>8, <2>1, <2>2, <2>4, <3>1, <3>2
  <2> QED
    BY <1>2, <1>6, <2>1, <2>3, <2>4
<1>14. [i \in Jobs |-> StatusOf(i)] = Standing({j}, A)
  BY <1>1, <1>6, <1>9, StandingNow
<1>15. [i \in Jobs |-> StatusOf(i)]' = Standing(next, IF j \in PeriodicJobs THEN A ELSE A \ {j})
  BY <1>1, <1>4, <1>6, <1>12, <1>13, StandingNext
<1>16. PeriodicJobs' = PeriodicJobs
  BY <1>1, <1>4, <1>12, <1>13, StandingNext
<1>17. Promise!Return(j, next)
  BY <1>8, <1>11, <1>14, <1>15, <1>16, ReturnStep
<1> QED
  BY <1>5, <1>8, <1>11, <1>17 DEF Promise!JNext

\* Every step is a step of JobService, or none.
LEMMA NextPromise ==
  ASSUME "wait" \notin Nested, "deschedule" \notin Nested,
         Inv, Inv', JobsAlone, CurrentLives, [Next]_vars
  PROVE  CurrentLives' /\ [Promise!JNext]_(Promise!jvars)
<1>1. CASE UNCHANGED <<sq, calls>>
  <2>1. RunIn(sq', calls') = RunIn(sq, calls) /\ CurrentLives'
    BY <1>1, KeepRunning
  <2>2. UNCHANGED Promise!jvars
    BY <1>1, <2>1, PromiseStutters
  <2> QED
    BY <2>1, <2>2
<1>2. ASSUME NEW ms \in Delays, NEW periodic \in Modes, NEW explicit \in ExplicitIds,
             CmdSchedule(ms, periodic, explicit)
      PROVE  CurrentLives' /\ [Promise!JNext]_(Promise!jvars)
  BY <1>2, SchedulePromise
<1>3. ASSUME NEW explicit \in ExplicitIds, CmdDeschedule(explicit)
      PROVE  CurrentLives' /\ [Promise!JNext]_(Promise!jvars)
  BY <1>3, DeschedulePromise
<1>4. CASE SqueueExecute
  BY <1>4, ExecutePromise
<1>5. CASE CommandReturns
  BY <1>5, ReturnPromise
<1>6. CASE Tick \/ TimestampedEvent \/ UNCHANGED vars
  BY <1>1, <1>6 DEF Tick, TimestampedEvent, vars
<1> QED
  BY <1>2, <1>3, <1>4, <1>5, <1>6 DEF Next

\* ImplementsPromise: whatever is scheduled and descheduled, at any length of
\* the queue, the queue is the service that JobService describes - if the
\* commands that are scheduled neither deschedule nor Wait.
THEOREM QueueKeepsPromise ==
  ASSUME "wait" \notin Nested, "deschedule" \notin Nested
  PROVE  Spec => ImplementsPromise
<1>1. Init => CurrentLives /\ JobsAlone /\ Promise!JInit
  <2>1. ASSUME Init PROVE CurrentLives /\ JobsAlone /\ Promise!JInit
    <3>1. sq.recs = <<>> /\ calls = <<>> /\ Len(sq.recs) = 0
      BY <2>1 DEF Init, EmptyQueue
    <3>2. Alive(sq) = {} /\ Depth = 0 /\ Len(calls) = 0 /\ Work(sq) = {}
      BY <3>1 DEF Alive, Depth, Work
    <3>3. CurrentLives /\ JobsAlone
      BY <3>2 DEF CurrentLives, JobsAlone, Alone
    <3>4. sq \in Queues
      BY <2>1, InitInv DEF Inv, Sane
    <3>5. RunIn(sq, calls) = {} /\ JobsOf(Work(sq)) = {} /\ Periodics(Work(sq)) = {}
      BY <3>2 DEF RunIn, JobsOf, Periodics
    <3>6. [j \in Jobs |-> StatusOf(j)] = Standing({}, {}) /\ PeriodicJobs = {}
      BY <3>4, <3>5, StandingNow
    <3>7. Promise!JInit
      BY <3>6 DEF Promise!JInit, Standing
    <3> QED
      BY <3>3, <3>7
  <2> QED
    BY <2>1
<1>2. Inv /\ JobsAlone /\ [Next]_vars => JobsAlone'
  BY NextJobsAlone
<1>3. Inv /\ Inv' /\ JobsAlone /\ CurrentLives /\ [Next]_vars =>
         CurrentLives' /\ [Promise!JNext]_(Promise!jvars)
  BY NextPromise
<1> QED
  BY <1>1, <1>2, <1>3, InvInvariant, PTL DEF Spec, ImplementsPromise, Promise!JSpec
=============================================================================
