------------------------ MODULE ScheduleClockProofs ------------------------
(***************************************************************************)
(* Proofs about the two clocks of module Schedule: the queue stays sorted, *)
(* and no command starts early, across any number of wraps of the server's *)
(* clock.                                                                  *)
(***************************************************************************)
EXTENDS ScheduleProofs

\* The conditions under which cmp_times orders the queue.  The C type Time
\* has the width of the server's clock; D bounds the delays, B how far the
\* program lags behind; and the two together stay below half the range of
\* the clock (24.8 days of 49.7).
ClockFits(B, D) ==
  /\ LongMod = Wrap
  /\ B \in Nat /\ MaxLag <= B /\ MaxLate <= B
  /\ D \in Nat /\ Delays \subseteq 0..D
  /\ 2 * (B + D) < Wrap

\* How far time t is ahead of the oldest time that still matters, B ms ago.
Ahead(B, c, t) == (t - c + B) % Wrap

-----------------------------------------------------------------------------
\* Remainders of what is less than one modulus off.
LEMMA ModCases ==
  ASSUME NEW N \in Nat \ {0}, NEW x \in Int
  PROVE  /\ x \in 0 .. N - 1 => x % N = x
         /\ x \in -N .. -1 => x % N = x + N
         /\ x \in N .. 2 * N - 1 => x % N = x - N
<1>1. CASE x \in 0 .. N - 1
  BY <1>1, SMTT(30)
<1>2. CASE x \in -N .. -1
  BY <1>2, SMTT(30)
<1>3. CASE x \in N .. 2 * N - 1
  BY <1>3, SMTT(30)
<1> QED
  BY <1>1, <1>2, <1>3

\* The remainder of what is less than one modulus off, by cases.
LEMMA ModNear ==
  ASSUME NEW N \in Nat \ {0}, NEW x \in -N .. 2 * N - 1, NEW p, p = x % N
  PROVE  p \in Int /\ p \in 0 .. N - 1 /\ (p = x \/ p = x + N \/ p = x - N)
<1>1. x \in Int
  OBVIOUS
<1>2. x \in 0 .. N - 1 \/ x \in -N .. -1 \/ x \in N .. 2 * N - 1
  OBVIOUS
<1>3. p \in 0 .. N - 1
  BY <1>1, ModRange
<1>4. CASE x \in 0 .. N - 1
  <2>1. p = x
    BY <1>1, <1>4, ModCases
  <2> QED
    BY <1>3, <2>1
<1>5. CASE x \in -N .. -1
  <2>1. p = x + N
    BY <1>1, <1>5, ModCases
  <2> QED
    BY <1>3, <2>1
<1>6. CASE x \in N .. 2 * N - 1
  <2>1. p = x - N
    BY <1>1, <1>6, ModCases
  <2> QED
    BY <1>3, <2>1
<1> QED
  BY <1>2, <1>4, <1>5, <1>6

\* cmp_times orders times as they are ahead of the same moment.
LEMMA TimeOrder ==
  ASSUME NEW B, NEW D, ClockFits(B, D), NEW c \in 0 .. Wrap - 1,
         NEW t \in 0 .. Wrap - 1, NEW u \in 0 .. Wrap - 1,
         Ahead(B, c, t) <= B + D, Ahead(B, c, u) <= B + D
  PROVE  TimeBefore(t, u) <=> Ahead(B, c, t) < Ahead(B, c, u)
<1> DEFINE x == t - c + B
           y == u - c + B
           z == t - u
<1>1. /\ Wrap \in Nat \ {0} /\ LongMod = Wrap /\ B \in Nat /\ D \in Nat
      /\ 2 * (B + D) < Wrap
  BY ClockAssumption DEF ClockFits
<1>2. x \in Int /\ y \in Int /\ z \in Int
  BY <1>1
<1>3. /\ x \in -Wrap .. 2 * Wrap - 1 /\ y \in -Wrap .. 2 * Wrap - 1
      /\ z \in -Wrap .. Wrap - 1 /\ z = x - y
  BY <1>1
<1>7. TimeBefore(t, u) <=> 2 * (z % Wrap) >= Wrap
  BY <1>1 DEF TimeBefore
<1>8. Ahead(B, c, t) = x % Wrap /\ Ahead(B, c, u) = y % Wrap
  BY DEF Ahead
<1>9. x % Wrap <= B + D /\ y % Wrap <= B + D
  BY <1>8
<1>10. PICK p, q, r : p = x % Wrap /\ q = y % Wrap /\ r = z % Wrap
  OBVIOUS
<1> HIDE DEF x, y, z
<1>11. p \in Int /\ p \in 0 .. Wrap - 1 /\ (p = x \/ p = x + Wrap \/ p = x - Wrap)
  BY <1>1, <1>3, <1>10, ModNear
<1>12. q \in Int /\ q \in 0 .. Wrap - 1 /\ (q = y \/ q = y + Wrap \/ q = y - Wrap)
  BY <1>1, <1>3, <1>10, ModNear
<1>13. r \in Int /\ r \in 0 .. Wrap - 1 /\ (r = z \/ r = z + Wrap \/ r = z - Wrap)
  <2>1. z \in -Wrap .. 2 * Wrap - 1
    BY <1>1, <1>3
  <2> QED
    BY <1>1, <1>10, <2>1, ModNear
<1>14. p <= B + D /\ q <= B + D
  BY <1>9, <1>10
<1>15. 2 * r >= Wrap <=> p < q
  BY <1>1, <1>2, <1>3, <1>11, <1>12, <1>13, <1>14
<1> QED
  BY <1>7, <1>8, <1>10, <1>15

\* A millisecond later, everything is one less ahead.
LEMMA AheadTick ==
  ASSUME NEW B, NEW D, ClockFits(B, D), NEW c \in 0 .. Wrap - 1, NEW t \in 0 .. Wrap - 1,
         Ahead(B, c, t) > 0
  PROVE  Ahead(B, (c + 1) % Wrap, t) = Ahead(B, c, t) - 1
<1>1. /\ Wrap \in Nat \ {0} /\ B \in Nat /\ D \in Nat /\ 2 * (B + D) < Wrap
  BY ClockAssumption DEF ClockFits
<1>2. PICK d : d = (c + 1) % Wrap
  OBVIOUS
<1>3. d = IF c = Wrap - 1 THEN 0 ELSE c + 1
  <2>1. PICK w : w = c + 1
    OBVIOUS
  <2>2. w \in -Wrap .. 2 * Wrap - 1 /\ d = w % Wrap
    BY <1>1, <1>2, <2>1
  <2>3. d \in Int /\ d \in 0 .. Wrap - 1 /\ (d = w \/ d = w + Wrap \/ d = w - Wrap)
    BY <1>1, <2>2, ModNear
  <2> QED
    BY <1>1, <2>1, <2>3
<1>4. PICK x, y : x = t - c + B /\ y = t - d + B
  OBVIOUS
<1>5. x \in Int /\ y \in Int /\ x \in -Wrap .. 2 * Wrap - 1 /\ y \in -Wrap .. 2 * Wrap - 1
      /\ (y = x - 1 \/ y = x - 1 + Wrap)
  BY <1>1, <1>3, <1>4
<1>6. PICK p, q : p = x % Wrap /\ q = y % Wrap
  OBVIOUS
<1>7. p \in Int /\ p \in 0 .. Wrap - 1 /\ (p = x \/ p = x + Wrap \/ p = x - Wrap)
  BY <1>1, <1>5, <1>6, ModNear
<1>8. q \in Int /\ q \in 0 .. Wrap - 1 /\ (q = y \/ q = y + Wrap \/ q = y - Wrap)
  BY <1>1, <1>5, <1>6, ModNear
<1>9. p = Ahead(B, c, t) /\ q = Ahead(B, (c + 1) % Wrap, t)
  BY <1>2, <1>4, <1>6 DEF Ahead
<1>10. p > 0
  BY <1>9
<1>11. q = p - 1
  BY <1>1, <1>5, <1>7, <1>8, <1>10
<1> QED
  BY <1>9, <1>11

\* The present is B ahead.
LEMMA AheadNow ==
  ASSUME NEW B, NEW D, ClockFits(B, D), NEW c \in 0 .. Wrap - 1
  PROVE  Ahead(B, c, c) = B
<1>1. /\ Wrap \in Nat \ {0} /\ B \in Nat /\ D \in Nat /\ 2 * (B + D) < Wrap
  BY ClockAssumption DEF ClockFits
<1>2. c - c + B = B /\ B \in 0 .. Wrap - 1
  BY <1>1
<1>3. B % Wrap = B
  BY <1>1, <1>2, ModCases
<1> QED
  BY <1>2, <1>3 DEF Ahead

\* A delay counted from a timestamp that lags behind.
LEMMA AheadDue ==
  ASSUME NEW B, NEW D, ClockFits(B, D), NEW c \in 0 .. Wrap - 1, NEW e \in 0 .. Wrap - 1,
         (c - e) % Wrap <= B, NEW ms \in 0..D
  PROVE  /\ Ahead(B, c, (e + ms) % LongMod) = B + ms - ((c - e) % Wrap)
         /\ (e + ms) % LongMod \in 0 .. Wrap - 1
<1>1. /\ Wrap \in Nat \ {0} /\ LongMod = Wrap /\ B \in Nat /\ D \in Nat /\ 2 * (B + D) < Wrap
  BY ClockAssumption DEF ClockFits
<1>2. PICK l, d : l = (c - e) % Wrap /\ d = (e + ms) % Wrap
  OBVIOUS
<1>3. l \in Int /\ l \in 0 .. Wrap - 1 /\ (l = c - e \/ l = c - e + Wrap \/ l = c - e - Wrap)
  <2>1. PICK w : w = c - e
    OBVIOUS
  <2>2. w \in -Wrap .. 2 * Wrap - 1 /\ l = w % Wrap
    BY <1>1, <1>2, <2>1
  <2>3. l \in Int /\ l \in 0 .. Wrap - 1 /\ (l = w \/ l = w + Wrap \/ l = w - Wrap)
    BY <1>1, <2>2, ModNear
  <2> QED
    BY <1>1, <2>1, <2>3
<1>4. d \in Int /\ d \in 0 .. Wrap - 1 /\ (d = e + ms \/ d = e + ms + Wrap \/ d = e + ms - Wrap)
  <2>1. PICK w : w = e + ms
    OBVIOUS
  <2>2. w \in -Wrap .. 2 * Wrap - 1 /\ d = w % Wrap
    BY <1>1, <1>2, <2>1
  <2>3. d \in Int /\ d \in 0 .. Wrap - 1 /\ (d = w \/ d = w + Wrap \/ d = w - Wrap)
    BY <1>1, <2>2, ModNear
  <2> QED
    BY <1>1, <2>1, <2>3
<1>5. PICK x, p : x = d - c + B /\ p = x % Wrap
  OBVIOUS
<1>6. x \in Int /\ x \in -Wrap .. 2 * Wrap - 1
  BY <1>1, <1>4, <1>5
<1>7. p \in Int /\ p \in 0 .. Wrap - 1 /\ (p = x \/ p = x + Wrap \/ p = x - Wrap)
  <2>1. x \in -Wrap .. 2 * Wrap - 1 /\ p = x % Wrap
    BY <1>5, <1>6
  <2>2. Wrap \in Nat \ {0}
    BY <1>1
  <2> QED
    BY <2>1, <2>2, ModNear
<1>8. l <= B
  BY <1>2
<1>9. p = B + ms - l
  BY <1>1, <1>3, <1>4, <1>5, <1>7, <1>8
<1> QED
  BY <1>1, <1>2, <1>4, <1>5, <1>9 DEF Ahead

\* A command that is due lies less than B ms back.
LEMMA AheadReached ==
  ASSUME NEW B, NEW D, ClockFits(B, D), NEW c \in 0 .. Wrap - 1, NEW t \in 0 .. Wrap - 1,
         Ahead(B, c, t) <= B + D, TimeReached(c, t) => (c - t) % LongMod < MaxLate
  PROVE  Ahead(B, c, t) > 0
<1>1. /\ Wrap \in Nat \ {0} /\ LongMod = Wrap /\ B \in Nat /\ D \in Nat /\ 2 * (B + D) < Wrap
      /\ MaxLate <= B /\ MaxLate \in Nat
  BY ClockAssumption DEF ClockFits
<1>2. PICK p : p = Ahead(B, c, t)
  OBVIOUS
<1>3. p \in 0 .. Wrap - 1
  <2>1. t - c + B \in Int
    BY <1>1
  <2> QED
    BY <1>1, <1>2, <2>1, ModRange DEF Ahead
<1>4. SUFFICES ASSUME p = 0 PROVE FALSE
  BY <1>1, <1>2, <1>3
<1>5. Ahead(B, c, c) = B /\ B <= B + D
  BY <1>1, AheadNow
<1>6. TimeReached(c, t)
  <2>1. TimeBefore(c, t) <=> Ahead(B, c, c) < Ahead(B, c, t)
    BY <1>5, TimeOrder
  <2> QED
    BY <1>1, <1>2, <1>4, <1>5, <2>1 DEF TimeReached
<1>7. PICK l, x : l = (c - t) % Wrap /\ x = t - c + B
  OBVIOUS
<1>8. l \in Int /\ l \in 0 .. Wrap - 1 /\ (l = c - t \/ l = c - t + Wrap \/ l = c - t - Wrap)
  <2>1. PICK w : w = c - t
    OBVIOUS
  <2>2. w \in -Wrap .. 2 * Wrap - 1 /\ l = w % Wrap
    BY <1>1, <1>7, <2>1
  <2>3. l \in Int /\ l \in 0 .. Wrap - 1 /\ (l = w \/ l = w + Wrap \/ l = w - Wrap)
    BY <1>1, <2>2, ModNear
  <2> QED
    BY <1>1, <2>1, <2>3
<1>9. p = x \/ p = x + Wrap \/ p = x - Wrap
  <2>1. x \in -Wrap .. 2 * Wrap - 1 /\ p = x % Wrap
    BY <1>1, <1>2, <1>7 DEF Ahead
  <2> QED
    BY <1>1, <2>1, ModNear
<1>10. l < B
  BY <1>1, <1>6, <1>7
<1> QED
  BY <1>1, <1>4, <1>7, <1>8, <1>9, <1>10

-----------------------------------------------------------------------------
\* How far the record at place i of Q is ahead.
AheadAt(B, c, Q, i) == Ahead(B, c, Q.recs[i].obj.due)

\* The records of Q are in the window the comparison orders, in order, and
\* what the history says is still owed to each is not more than its delay.
Timed(B, D, c, ow, Q) ==
  /\ \A i \in 1..Len(Q.recs) : AheadAt(B, c, Q, i) <= B + D
  /\ \A i, j \in 1..Len(Q.recs) : i < j => AheadAt(B, c, Q, i) <= AheadAt(B, c, Q, j)
  /\ \A i \in 1..Len(Q.recs) :
        ow[Q.recs[i].rid] = 0 \/ ow[Q.recs[i].rid] + B <= AheadAt(B, c, Q, i)

\* Which heap cell holds which time.
Dues(Q) == {[rid |-> Q.recs[i].rid, due |-> Q.recs[i].obj.due] : i \in 1..Len(Q.recs)}

\* Each walk was started at most B ms ago, after its record had become due.
Started(B, c, S, C) ==
  \A k \in 1..Len(C) :
     /\ Ahead(B, c, C[k].now) <= B
     /\ \E d \in S : d.rid = C[k].cur /\ Ahead(B, c, d.due) <= Ahead(B, c, C[k].now)

\* The inductive invariant of the clocks.
Timely(B, D) ==
  /\ Lag <= MaxLag
  /\ Timed(B, D, clock, owed, sq)
  /\ Started(B, clock, Dues(sq), calls)

\* Times are ahead by a natural number.
LEMMA AheadNat ==
  ASSUME NEW B \in Nat, NEW c \in Int, NEW t \in Int
  PROVE  Ahead(B, c, t) \in Nat
<1>1. t - c + B \in Int
  OBVIOUS
<1> QED
  BY <1>1, ModRange, ClockAssumption DEF Ahead

\* The times in a queue are times.
LEMMA DueTyped ==
  ASSUME LongMod = Wrap, NEW Q \in Queues, NEW i \in 1..Len(Q.recs)
  PROVE  Q.recs[i].obj.due \in 0 .. Wrap - 1 /\ Q.recs[i].rid \in RIds
<1>1. Q.recs[i] \in Records
  BY ElementOfSeq DEF Queues
<1> QED
  BY <1>1 DEF Records, Objects

\* What is left of a queue is timed as it was.
LEMMA LeftTimed ==
  ASSUME NEW B \in Nat, NEW D, NEW c, NEW ow, NEW R, NEW Q, NEW e, LeftAt(R, Q, e),
         Timed(B, D, c, ow, Q)
  PROVE  Timed(B, D, c, ow, R) /\ Dues(R) \subseteq Dues(Q)
<1>1. ASSUME NEW i \in 1..Len(R.recs)
      PROVE  /\ e[i] \in 1..Len(Q.recs) /\ R.recs[i].rid = Q.recs[e[i]].rid
             /\ R.recs[i].obj.due = Q.recs[e[i]].obj.due
             /\ AheadAt(B, c, R, i) = AheadAt(B, c, Q, e[i])
  BY DEF LeftAt, SameRec, AheadAt
<1>2. ASSUME NEW i \in 1..Len(R.recs), NEW j \in 1..Len(R.recs), i < j
      PROVE  AheadAt(B, c, R, i) <= AheadAt(B, c, R, j)
  <2>1. e[i] < e[j]
    BY <1>2 DEF LeftAt
  <2> QED
    BY <1>1, <2>1 DEF Timed
<1>3. Timed(B, D, c, ow, R)
  BY <1>1, <1>2 DEF Timed
<1>4. Dues(R) \subseteq Dues(Q)
  BY <1>1 DEF Dues
<1> QED
  BY <1>3, <1>4

\* Marking records leaves the queue timed.
LEMMA MarkedTimed ==
  ASSUME NEW B \in Nat, NEW D, NEW c, NEW ow, NEW R, NEW Q \in Queues, NEW M, Marked(R, Q, M),
         Timed(B, D, c, ow, Q)
  PROVE  Timed(B, D, c, ow, R) /\ Dues(R) = Dues(Q)
<1>1. PICK e : LeftAt(R, Q, e)
  BY MarkedLeft
<1>2. Timed(B, D, c, ow, R)
  BY <1>1, LeftTimed
<1>3. Dues(R) = Dues(Q)
  BY DEF Marked, Dues
<1> QED
  BY <1>2, <1>3

\* Silencing a record leaves the queue timed.
LEMMA SilencedTimed ==
  ASSUME NEW B \in Nat, NEW D, NEW c, NEW ow, NEW R, NEW Q, Silenced(R, Q),
         Timed(B, D, c, ow, Q)
  PROVE  Timed(B, D, c, ow, R) /\ Dues(R) = Dues(Q)
<1>1. Len(R.recs) = Len(Q.recs)
  BY DEF Silenced
<1>2. ASSUME NEW i \in 1..Len(Q.recs)
      PROVE  /\ R.recs[i].rid = Q.recs[i].rid /\ R.recs[i].obj.due = Q.recs[i].obj.due
             /\ AheadAt(B, c, R, i) = AheadAt(B, c, Q, i)
  BY DEF Silenced, SameRec, AheadAt
<1>3. Timed(B, D, c, ow, R)
  BY <1>1, <1>2 DEF Timed
<1>4. Dues(R) = Dues(Q)
  BY <1>1, <1>2 DEF Dues
<1> QED
  BY <1>3, <1>4

\* Place m of Q is the one for a record due at time t and still owed v ms.
Belongs(B, D, c, Q, m, t, v) ==
  /\ Ahead(B, c, t) \in Nat /\ Ahead(B, c, t) <= B + D
  /\ v = 0 \/ v + B <= Ahead(B, c, t)
  /\ \A i \in 1..Len(Q.recs) :
        AheadAt(B, c, Q, i) \in Nat /\ (Ahead(B, c, t) < AheadAt(B, c, Q, i) => m <= i)
  /\ m = Len(Q.recs) + 1 \/ (m \in 1..Len(Q.recs) /\ Ahead(B, c, t) < AheadAt(B, c, Q, m))

\* A record inserted in front of the first later one leaves the queue timed.
LEMMA InsertedTimed ==
  ASSUME NEW B \in Nat, NEW D, NEW c \in Int, NEW ow \in [RIds -> Nat], NEW ow2,
         NEW R, NEW Q \in Queues, NEW m, NEW r, NEW v,
         Timed(B, D, c, ow, Q), Inserted(R, Q, m, r), r.rid \in RIds \ RecIds(Q),
         ow2 = [ow EXCEPT ![r.rid] = v], Belongs(B, D, c, Q, m, r.obj.due, v)
  PROVE  Timed(B, D, c, ow2, R) /\ Dues(Q) \subseteq Dues(R)
<1> DEFINE n == Len(Q.recs)
           A(i) == AheadAt(B, c, Q, i)
           a == Ahead(B, c, r.obj.due)
<1>1. n \in Nat /\ DOMAIN Q.recs = 1..n
  BY DEF Queues
<1>2. /\ m \in 1..(n + 1) /\ Len(R.recs) = n + 1 /\ R.recs[m] = r
      /\ \A i \in 1..(m - 1) : R.recs[i] = Q.recs[i]
      /\ \A i \in m..n : R.recs[i + 1] = Q.recs[i]
  BY DEF Inserted
<1>3. /\ \A i \in 1..n : A(i) \in Nat /\ A(i) <= B + D
      /\ \A i, j \in 1..n : i < j => A(i) <= A(j)
      /\ \A i \in 1..n : ow[Q.recs[i].rid] = 0 \/ ow[Q.recs[i].rid] + B <= A(i)
  BY DEF Timed, Belongs
<1>4. /\ a \in Nat /\ a <= B + D /\ (v = 0 \/ v + B <= a)
      /\ \A i \in 1..n : a < A(i) => m <= i
      /\ m = n + 1 \/ (m \in 1..n /\ a < A(m))
  BY DEF Belongs
<1>5. \A i \in 1..n : Q.recs[i].rid \in RIds /\ Q.recs[i].rid # r.rid
  <2>1. \A i \in 1..n : Q.recs[i].rid # r.rid
    BY <1>1 DEF RecIds
  <2>2. \A i \in 1..n : Q.recs[i] \in Records
    BY ElementOfSeq DEF Queues
  <2> QED
    BY <2>1, <2>2 DEF Records
<1>6. /\ ow2[r.rid] = v
      /\ \A i \in 1..n : ow2[Q.recs[i].rid] = ow[Q.recs[i].rid]
  BY <1>5
<1>7. \A i \in 1..(m - 1) : /\ i \in 1..n /\ R.recs[i] = Q.recs[i]
                            /\ AheadAt(B, c, R, i) = A(i) /\ A(i) <= a
  <2>1. ASSUME NEW i \in 1..(m - 1)
        PROVE  i \in 1..n /\ R.recs[i] = Q.recs[i] /\ ~(m <= i)
    <3>1. R.recs[i] = Q.recs[i]
      BY <1>2
    <3>2. m \in Nat /\ m <= n + 1
      BY <1>1, <1>2
    <3>3. i \in 1..n /\ ~(m <= i)
      BY <1>1, <3>2
    <3> QED
      BY <3>1, <3>3
  <2>2. ASSUME NEW i \in 1..(m - 1)
        PROVE  AheadAt(B, c, R, i) = A(i) /\ A(i) <= a
    <3>1. i \in 1..n /\ R.recs[i] = Q.recs[i] /\ ~(m <= i)
      BY <2>1
    <3>2. AheadAt(B, c, R, i) = A(i)
      BY <3>1 DEF AheadAt
    <3> HIDE DEF A, a
    <3> QED
      BY <1>3, <1>4, <3>1, <3>2
  <2> QED
    BY <2>1, <2>2
<1>8. \A i \in (m + 1)..(n + 1) : /\ i - 1 \in 1..n /\ i - 1 \in m..n /\ R.recs[i] = Q.recs[i - 1]
                                  /\ AheadAt(B, c, R, i) = A(i - 1) /\ a <= A(i - 1)
  <2>1. ASSUME NEW i \in (m + 1)..(n + 1)
        PROVE  i - 1 \in 1..n /\ i - 1 \in m..n /\ R.recs[i] = Q.recs[i - 1]
    <3>1. i - 1 \in 1..n /\ i - 1 \in m..n /\ (i - 1) + 1 = i
      BY <1>1, <1>2
    <3> QED
      BY <1>2, <3>1
  <2>2. ASSUME NEW i \in (m + 1)..(n + 1)
        PROVE  AheadAt(B, c, R, i) = A(i - 1) /\ a <= A(i - 1)
    <3>1. i - 1 \in 1..n /\ i - 1 \in m..n /\ R.recs[i] = Q.recs[i - 1]
      BY <2>1
    <3>2. AheadAt(B, c, R, i) = A(i - 1)
      BY <3>1 DEF AheadAt
    <3>3. m \in 1..n /\ a < A(m)
      BY <1>1, <1>2, <1>4, <3>1
    <3>4. PICK k : k = i - 1
      OBVIOUS
    <3>5. k \in 1..n /\ (k = m \/ m < k)
      BY <1>1, <1>2, <3>1, <3>4
    <3> HIDE DEF A, a
    <3>6. a <= A(k)
      BY <1>3, <1>4, <3>3, <3>5
    <3> QED
      BY <3>2, <3>4, <3>6
  <2> QED
    BY <2>1, <2>2
<1>9. AheadAt(B, c, R, m) = a
  BY <1>2 DEF AheadAt
<1>10. PICK F : F = [i \in 1..(n + 1) |-> AheadAt(B, c, R, i)]
  OBVIOUS
<1>11. /\ \A i \in 1..(m - 1) : i \in 1..n /\ F[i] = A(i) /\ F[i] <= a
       /\ F[m] = a
       /\ \A i \in (m + 1)..(n + 1) : i - 1 \in 1..n /\ F[i] = A(i - 1) /\ a <= F[i]
  BY <1>1, <1>2, <1>7, <1>8, <1>9, <1>10
<1> HIDE DEF A, a, n
<1>12. ASSUME NEW i \in 1..(n + 1) PROVE i \in 1..(m - 1) \/ i = m \/ i \in (m + 1)..(n + 1)
  BY <1>1, <1>2
<1>13. ASSUME NEW i \in 1..(n + 1) PROVE F[i] <= B + D
  BY <1>3, <1>4, <1>11, <1>12
<1>14. ASSUME NEW i \in 1..(n + 1), NEW j \in 1..(n + 1), i < j PROVE F[i] <= F[j]
  <2>1. CASE i \in 1..(m - 1) /\ j \in 1..(m - 1)
    BY <1>3, <1>11, <1>14, <2>1
  <2>2. CASE i \in 1..(m - 1) /\ j = m
    BY <1>11, <2>2
  <2>3. CASE i \in 1..(m - 1) /\ j \in (m + 1)..(n + 1)
    <3>1. F[i] <= a /\ a <= F[j] /\ F[i] \in Nat /\ F[j] \in Nat /\ a \in Nat
      BY <1>3, <1>4, <1>11, <2>3
    <3> QED
      BY <3>1
  <2>4. CASE i = m /\ j \in (m + 1)..(n + 1)
    BY <1>11, <2>4
  <2>5. CASE i \in (m + 1)..(n + 1) /\ j \in (m + 1)..(n + 1)
    <3>1. i - 1 \in 1..n /\ j - 1 \in 1..n /\ i - 1 < j - 1
      BY <1>11, <1>14, <2>5
    <3>2. A(i - 1) <= A(j - 1)
      BY <1>3, <3>1
    <3> QED
      BY <1>11, <2>5, <3>2
  <2> QED
    BY <1>1, <1>2, <1>12, <1>14, <2>1, <2>2, <2>3, <2>4, <2>5
<1>15. ASSUME NEW i \in 1..(n + 1)
       PROVE  ow2[R.recs[i].rid] = 0 \/ ow2[R.recs[i].rid] + B <= F[i]
  <2>1. CASE i \in 1..(m - 1)
    <3>1. i \in 1..n /\ R.recs[i] = Q.recs[i] /\ F[i] = A(i)
      BY <1>7, <1>11, <2>1
    <3> QED
      BY <1>3, <1>6, <3>1
  <2>2. CASE i = m
    BY <1>2, <1>4, <1>6, <1>11, <2>2
  <2>3. CASE i \in (m + 1)..(n + 1)
    <3>1. i - 1 \in 1..n /\ R.recs[i] = Q.recs[i - 1] /\ F[i] = A(i - 1)
      BY <1>8, <1>11, <2>3
    <3> QED
      BY <1>3, <1>6, <3>1
  <2> QED
    BY <1>12, <2>1, <2>2, <2>3
<1>16. \A i \in 1..(n + 1) : F[i] = AheadAt(B, c, R, i)
  BY <1>10
<1>17. Timed(B, D, c, ow2, R)
  <2>1. Len(R.recs) = n + 1
    BY <1>2
  <2>2. \A i \in 1..Len(R.recs) : AheadAt(B, c, R, i) <= B + D
    BY <1>13, <1>16, <2>1
  <2>3. \A i, j \in 1..Len(R.recs) : i < j => AheadAt(B, c, R, i) <= AheadAt(B, c, R, j)
    BY <1>14, <1>16, <2>1
  <2>4. \A i \in 1..Len(R.recs) :
           ow2[R.recs[i].rid] = 0 \/ ow2[R.recs[i].rid] + B <= AheadAt(B, c, R, i)
    BY <1>15, <1>16, <2>1
  <2> QED
    BY <2>2, <2>3, <2>4 DEF Timed
<1>18. Dues(Q) \subseteq Dues(R)
  <2>1. ASSUME NEW k \in 1..n PROVE \E i \in 1..(n + 1) : R.recs[i] = Q.recs[k]
    <3>1. CASE k < m
      <4>1. k \in 1..(m - 1) /\ k \in 1..(n + 1)
        BY <1>1, <1>2, <3>1
      <4> QED
        BY <1>2, <4>1
    <3>2. CASE ~(k < m)
      <4>1. k \in m..n /\ k + 1 \in 1..(n + 1)
        BY <1>1, <1>2, <3>2
      <4> QED
        BY <1>2, <4>1
    <3> QED
      BY <3>1, <3>2
  <2>2. n = Len(Q.recs) /\ Len(R.recs) = n + 1
    BY <1>2 DEF n
  <2>3. ASSUME NEW k \in 1..Len(Q.recs)
        PROVE  [rid |-> Q.recs[k].rid, due |-> Q.recs[k].obj.due] \in Dues(R)
    <3>1. PICK i \in 1..Len(R.recs) : R.recs[i] = Q.recs[k]
      BY <2>1, <2>2
    <3> QED
      BY <3>1 DEF Dues
  <2> QED
    BY <2>3 DEF Dues
<1> QED
  BY <1>17, <1>18

-----------------------------------------------------------------------------
\* What ClockFits says of the numbers, with the assumptions of Schedule.
LEMMA FitsNumbers ==
  ASSUME NEW B, NEW D, ClockFits(B, D)
  PROVE  /\ LongMod = Wrap /\ Wrap \in Nat \ {0} /\ B \in Nat /\ D \in Nat
         /\ MaxLag \in Nat /\ MaxLag <= B /\ MaxLate \in Nat /\ MaxLate <= B
         /\ 2 * (B + D) < Wrap
BY ClockAssumption DEF ClockFits

\* The time set for a delay is in the window, and late enough.
LEMMA DueFits ==
  ASSUME NEW B, NEW D, ClockFits(B, D), Scalars, Lag <= MaxLag,
         NEW ms \in 0..D, NEW due, due = (evtime + ms) % LongMod
  PROVE  /\ due \in 0 .. Wrap - 1
         /\ Ahead(B, clock, due) \in Nat /\ Ahead(B, clock, due) <= B + D
         /\ Remaining(ms) = 0 \/ Remaining(ms) + B <= Ahead(B, clock, due)
<1>1. /\ Wrap \in Nat \ {0} /\ B \in Nat /\ D \in Nat /\ MaxLag \in Nat /\ MaxLag <= B
  BY FitsNumbers
<1>2. clock \in 0 .. Wrap - 1 /\ evtime \in 0 .. Wrap - 1 /\ clock - evtime \in Int
  BY <1>1 DEF Scalars
<1>3. PICK l : l = Lag
  OBVIOUS
<1>4. l = (clock - evtime) % Wrap
  BY <1>3 DEF Lag
<1>5. l \in Nat /\ l <= B
  <2>1. l \in 0 .. Wrap - 1
    BY <1>1, <1>2, <1>4, ModRange
  <2>2. l <= MaxLag
    BY <1>3
  <2> QED
    BY <1>1, <2>1, <2>2
<1>6. Ahead(B, clock, due) = B + ms - l /\ due \in 0 .. Wrap - 1
  BY <1>2, <1>4, <1>5, AheadDue
<1>7. Remaining(ms) = IF ms > l THEN ms - l ELSE 0
  BY <1>3 DEF Remaining
<1>8. PICK a : a = Ahead(B, clock, due)
  OBVIOUS
<1>9. a \in Nat /\ a <= B + D
  BY <1>1, <1>5, <1>6, <1>8
<1>10. Remaining(ms) = 0 \/ Remaining(ms) + B <= a
  BY <1>1, <1>5, <1>6, <1>7, <1>8
<1> QED
  BY <1>6, <1>8, <1>9, <1>10

\* In a queue that is timed, the records cmp_objects puts behind an object
\* are those that are further ahead.
LEMMA LaterAhead ==
  ASSUME NEW B, NEW D, ClockFits(B, D), Scalars, sq \in Queues, NEW ow, Timed(B, D, clock, ow, sq),
         NEW obj, obj.due \in 0 .. Wrap - 1, Ahead(B, clock, obj.due) <= B + D
  PROVE  \A i \in 1..Len(sq.recs) :
            /\ AheadAt(B, clock, sq, i) \in Nat
            /\ i \in LaterThan(obj) <=> Ahead(B, clock, obj.due) < AheadAt(B, clock, sq, i)
<1>1. DOMAIN sq.recs = 1..Len(sq.recs)
  BY DEF Queues
<1>2. clock \in 0 .. Wrap - 1 /\ LongMod = Wrap /\ B \in Nat
  BY FitsNumbers DEF Scalars
<1>3. SUFFICES ASSUME NEW i \in 1..Len(sq.recs)
               PROVE  /\ AheadAt(B, clock, sq, i) \in Nat
                      /\ i \in LaterThan(obj) <=>
                            Ahead(B, clock, obj.due) < AheadAt(B, clock, sq, i)
  OBVIOUS
<1>4. PICK u : u = sq.recs[i].obj.due
  OBVIOUS
<1>5. u \in 0 .. Wrap - 1 /\ AheadAt(B, clock, sq, i) = Ahead(B, clock, u)
  BY <1>2, <1>4, DueTyped DEF AheadAt
<1>6. Ahead(B, clock, u) <= B + D
  BY <1>5 DEF Timed
<1>7. TimeBefore(obj.due, u) <=> Ahead(B, clock, obj.due) < Ahead(B, clock, u)
  BY <1>2, <1>5, <1>6, TimeOrder
<1>8. i \in LaterThan(obj) <=> TimeBefore(obj.due, u)
  BY <1>1, <1>4 DEF LaterThan, RunsBefore
<1>9. Ahead(B, clock, u) \in Nat
  <2>1. clock \in Int /\ u \in Int
    BY <1>2, <1>5
  <2> QED
    BY <1>2, <2>1, AheadNat
<1> QED
  BY <1>5, <1>7, <1>8, <1>9

\* The time of a record that is reached is not further ahead than the present.
LEMMA ReachedAhead ==
  ASSUME NEW B, NEW D, ClockFits(B, D), NEW c \in 0 .. Wrap - 1,
         NEW now \in 0 .. Wrap - 1, NEW t \in 0 .. Wrap - 1,
         Ahead(B, c, now) <= B, Ahead(B, c, t) <= B + D, TimeReached(now, t)
  PROVE  Ahead(B, c, t) <= Ahead(B, c, now)
<1>1. B \in Nat /\ D \in Nat /\ Wrap \in Nat
  BY FitsNumbers
<1>2. Ahead(B, c, now) \in Nat /\ Ahead(B, c, t) \in Nat
  <2>1. c \in Int /\ now \in Int /\ t \in Int
    BY <1>1
  <2> QED
    BY <1>1, <2>1, AheadNat
<1>3. Ahead(B, c, now) <= B + D
  BY <1>1, <1>2
<1>4. ~(Ahead(B, c, now) < Ahead(B, c, t))
  BY <1>3, TimeOrder DEF TimeReached
<1> QED
  BY <1>2, <1>4

-----------------------------------------------------------------------------
\* A walk goes on in time, and starts no command that is still owed a delay.
LEMMA WalkTimed ==
  ASSUME NEW B, NEW D, ClockFits(B, D), NEW c \in 0 .. Wrap - 1, NEW ow \in [RIds -> Nat],
         NEW Q, NEW C, Walked(Q, C), Timed(B, D, c, ow, Q), Started(B, c, Dues(Q), C),
         NEW from, NEW now \in 0 .. Wrap - 1, Ahead(B, c, now) <= B, Walk(Q, from, now, C),
         calls \in Seq(Calls), \A k \in 1..Len(C) : k \in 1..Len(calls) /\ C[k] = calls[k]
  PROVE  /\ Timed(B, D, c, ow, sq') /\ Started(B, c, Dues(sq'), calls')
         /\ \A r \in Starting : \E i \in 1..Len(Q.recs) :
               r = Q.recs[i].rid /\ ~Q.recs[i].new /\ ow[r] = 0
<1>0. /\ Q \in Queues /\ C \in Seq(Calls) /\ Q.lock = Len(C) + 1 /\ Len(C) \in Nat
  BY DEF Walked
<1>1. /\ B \in Nat /\ D \in Nat /\ LongMod = Wrap /\ Wrap \in Nat
  BY FitsNumbers
<1>2. /\ Starting = {calls'[k].cur : k \in {n \in DOMAIN calls' :
                        n \notin DOMAIN calls \/ calls[n] # calls'[n]}}
      /\ DOMAIN calls = 1..Len(calls) /\ DOMAIN C = 1..Len(C)
  BY <1>0 DEF Starting
<1>3. WalkEnds(Q, C) \/ \E i : WalkStops(Q, from, now, C, i)
  BY <1>0, WalkCases
<1>4. CASE WalkEnds(Q, C)
  <2>1. PICK R : R = UnlockQueue(Q)
    OBVIOUS
  <2>2. sq' = R /\ calls' = C
    BY <1>4, <2>1 DEF WalkEnds
  <2>3. PICK e : Unlocked(R, Q, e)
    BY <1>0, <2>1, UnlockUnlocks
  <2>4. Timed(B, D, c, ow, R)
    BY <1>1, <2>3, LeftTimed DEF Unlocked
  <2>5. Started(B, c, Dues(R), C)
    <3>1. CASE Len(C) = 0
      BY <3>1 DEF Started
    <3>2. CASE Len(C) # 0
      <4>1. R.recs = Q.recs
        BY <1>0, <2>3, <3>2 DEF Unlocked
      <4>2. Dues(R) = Dues(Q)
        BY <4>1 DEF Dues
      <4> QED
        BY <4>2
    <3> QED
      BY <3>1, <3>2
  <2>6. \A n \in DOMAIN C : n \in DOMAIN calls /\ calls[n] = C[n]
    BY <1>2
  <2>7. Starting = {}
    BY <1>2, <2>2, <2>6
  <2> QED
    BY <2>2, <2>4, <2>5, <2>7
<1>5. ASSUME NEW i, WalkStops(Q, from, now, C, i)
      PROVE  /\ Timed(B, D, c, ow, sq') /\ Started(B, c, Dues(sq'), calls')
             /\ \A r \in Starting : \E k \in 1..Len(Q.recs) :
                   r = Q.recs[k].rid /\ ~Q.recs[k].new /\ ow[r] = 0
  <2>1. /\ i \in 1..Len(Q.recs) /\ ~Q.recs[i].new /\ TimeReached(now, Q.recs[i].obj.due)
        /\ sq' = Q /\ calls' = Append(C, [now |-> now, cur |-> Q.recs[i].rid])
    BY <1>5 DEF WalkStops
  <2>2. PICK rid, due, s : rid = Q.recs[i].rid /\ due = Q.recs[i].obj.due
                           /\ s = [now |-> now, cur |-> rid]
    OBVIOUS
  <2>3. rid \in RIds /\ due \in 0 .. Wrap - 1
    BY <1>0, <1>1, <2>1, <2>2, DueTyped
  <2>4. /\ Ahead(B, c, due) <= B + D
        /\ ow[rid] = 0 \/ ow[rid] + B <= Ahead(B, c, due)
    BY <2>1, <2>2 DEF Timed, AheadAt
  <2>5. TimeReached(now, due)
    BY <2>1, <2>2
  <2>6. Ahead(B, c, due) <= Ahead(B, c, now)
    BY <2>3, <2>4, <2>5, ReachedAhead
  <2>7. ow[rid] = 0
    <3>1. ow[rid] \in Nat
      BY <2>3
    <3>2. Ahead(B, c, due) \in Nat /\ Ahead(B, c, now) \in Nat
      <4>1. c \in Int /\ now \in Int /\ due \in Int
        BY <1>1, <2>3
      <4> QED
        BY <1>1, <4>1, AheadNat
    <3>3. PICK x, y, z : x = ow[rid] /\ y = Ahead(B, c, due) /\ z = Ahead(B, c, now)
      OBVIOUS
    <3>4. x \in Nat /\ y \in Nat /\ z \in Nat /\ (x = 0 \/ x + B <= y) /\ y <= z /\ z <= B
      BY <2>4, <2>6, <3>1, <3>2, <3>3
    <3>5. x = 0
      BY <1>1, <3>4
    <3> QED
      BY <3>3, <3>5
  <2>8. [rid |-> rid, due |-> due] \in Dues(Q)
    BY <2>1, <2>2 DEF Dues
  <2>9. s \in Calls /\ s.now = now /\ s.cur = rid
    BY <2>2, <2>3 DEF Calls
  <2>10. PICK E : E = Append(C, s)
    OBVIOUS
  <2>11. /\ E \in Seq(Calls) /\ Len(E) = Len(C) + 1 /\ E[Len(C) + 1] = s
         /\ \A k \in 1..Len(C) : E[k] = C[k]
    BY <1>0, <2>9, <2>10
  <2>12. sq' = Q /\ calls' = E
    BY <2>1, <2>2, <2>10
  <2>13. \A k \in 1..Len(E) : k \in 1..Len(C) \/ E[k] = s
    BY <1>0, <2>11
  <2>14. Started(B, c, Dues(Q), E)
    <3>1. ASSUME NEW k \in 1..Len(E)
          PROVE  /\ Ahead(B, c, E[k].now) <= B
                 /\ \E d \in Dues(Q) : d.rid = E[k].cur /\ Ahead(B, c, d.due) <= Ahead(B, c, E[k].now)
      <4>1. CASE k \in 1..Len(C)
        BY <2>11, <4>1 DEF Started
      <4>2. CASE E[k] = s
        <5>1. PICK d : d = [rid |-> rid, due |-> due]
          OBVIOUS
        <5>2. d \in Dues(Q) /\ d.rid = rid /\ d.due = due
          BY <2>8, <5>1
        <5> QED
          BY <2>6, <2>9, <4>2, <5>2
      <4> QED
        BY <2>13, <4>1, <4>2
    <3> QED
      BY <3>1 DEF Started
  <2>15. ASSUME NEW r \in Starting PROVE r = rid
    <3>1. PICK n \in DOMAIN E : (n \notin DOMAIN calls \/ calls[n] # E[n]) /\ r = E[n].cur
      BY <1>2, <2>12
    <3>2. n \in 1..Len(E)
      BY <2>11, <3>1
    <3>3. n \notin 1..Len(C)
      BY <1>2, <2>11, <3>1
    <3> QED
      BY <2>9, <2>13, <3>1, <3>2, <3>3
  <2>16. \A r \in Starting : \E k \in 1..Len(Q.recs) :
            r = Q.recs[k].rid /\ ~Q.recs[k].new /\ ow[r] = 0
    BY <2>1, <2>2, <2>7, <2>15
  <2> QED
    BY <2>12, <2>14, <2>16
<1> QED
  BY <1>3, <1>4, <1>5

-----------------------------------------------------------------------------
\* Records that are added to the queue do not disturb the walks under way.
LEMMA StartedMore ==
  ASSUME NEW B, NEW c, NEW S, NEW T, NEW C, Started(B, c, S, C), S \subseteq T
  PROVE  Started(B, c, T, C)
BY DEF Started

\* Nothing lags by more than a millisecond longer.
LEMMA LagTick ==
  ASSUME NEW N \in Nat \ {0}, NEW c \in 0 .. N - 1, NEW e \in 0 .. N - 1
  PROVE  (((c + 1) % N) - e) % N <= ((c - e) % N) + 1
<1>1. PICK d : d = (c + 1) % N
  OBVIOUS
<1>2. d \in Int /\ d \in 0 .. N - 1 /\ (d = c + 1 \/ d = c + 1 - N)
  <2>1. PICK w : w = c + 1
    OBVIOUS
  <2>2. w \in -N .. 2 * N - 1 /\ d = w % N
    BY <1>1, <2>1
  <2>3. d \in Int /\ d \in 0 .. N - 1 /\ (d = w \/ d = w + N \/ d = w - N)
    BY <2>2, ModNear
  <2> QED
    BY <2>1, <2>3
<1>3. PICK x, y : x = c - e /\ y = d - e
  OBVIOUS
<1>4. /\ x \in -N .. 2 * N - 1 /\ y \in -N .. 2 * N - 1 /\ x \in Int /\ y \in Int
      /\ y = x + 1 \/ y = x + 1 - N
      /\ x \in -N .. N - 1
  BY <1>2, <1>3
<1>5. PICK p, q : p = x % N /\ q = y % N
  OBVIOUS
<1>6. p \in Int /\ p \in 0 .. N - 1 /\ (p = x \/ p = x + N \/ p = x - N)
  BY <1>4, <1>5, ModNear
<1>7. q \in Int /\ q \in 0 .. N - 1 /\ (q = y \/ q = y + N \/ q = y - N)
  BY <1>4, <1>5, ModNear
<1>8. q <= p + 1
  BY <1>4, <1>6, <1>7
<1> QED
  BY <1>1, <1>3, <1>5, <1>8

\* Tick: everything comes a millisecond nearer, and nothing leaves the window.
LEMMA TickTimely ==
  ASSUME NEW B, NEW D, ClockFits(B, D), Inv, Timely(B, D), Tick
  PROVE  Timely(B, D)'
<1>1. /\ sq \in Queues /\ calls \in Seq(Calls) /\ Scalars
      /\ DOMAIN sq.recs = 1..Len(sq.recs)
  BY DEF Inv, Sane, Queues
<1>2. /\ LongMod = Wrap /\ Wrap \in Nat \ {0} /\ B \in Nat /\ D \in Nat /\ MaxLag \in Nat
      /\ clock \in 0 .. Wrap - 1 /\ evtime \in 0 .. Wrap - 1 /\ owed \in [RIds -> Nat]
  BY <1>1, FitsNumbers DEF Scalars
<1>3. /\ Lag < MaxLag /\ evtime' = evtime /\ sq' = sq /\ calls' = calls
      /\ clock' = (clock + 1) % Wrap
      /\ owed' = [r \in RIds |-> IF owed[r] = 0 THEN 0 ELSE owed[r] - 1]
      /\ \A i \in 1..Len(sq.recs) : TimeReached(clock, sq.recs[i].obj.due) =>
                                       (clock - sq.recs[i].obj.due) % LongMod < MaxLate
  BY <1>1 DEF Tick
<1>4. Timed(B, D, clock, owed, sq) /\ Started(B, clock, Dues(sq), calls)
  BY DEF Timely
<1>5. PICK d : d = (clock + 1) % Wrap
  OBVIOUS
<1>6. ASSUME NEW i \in 1..Len(sq.recs)
      PROVE  /\ AheadAt(B, clock, sq, i) \in Nat /\ AheadAt(B, clock, sq, i) > 0
             /\ AheadAt(B, d, sq, i) = AheadAt(B, clock, sq, i) - 1
  <2>1. PICK t : t = sq.recs[i].obj.due
    OBVIOUS
  <2>2. t \in 0 .. Wrap - 1 /\ clock \in Int /\ t \in Int
    BY <1>1, <1>2, <2>1, DueTyped
  <2>3. Ahead(B, clock, t) <= B + D
    BY <1>4, <2>1 DEF Timed, AheadAt
  <2>4. TimeReached(clock, t) => (clock - t) % LongMod < MaxLate
    BY <1>3, <2>1
  <2>5. Ahead(B, clock, t) > 0
    BY <1>2, <2>2, <2>3, <2>4, AheadReached
  <2>6. Ahead(B, d, t) = Ahead(B, clock, t) - 1
    BY <1>2, <1>5, <2>2, <2>5, AheadTick
  <2>7. Ahead(B, clock, t) \in Nat
    BY <1>2, <2>2, AheadNat
  <2> QED
    BY <2>1, <2>5, <2>6, <2>7 DEF AheadAt
<1>7. Timed(B, D, d, owed', sq)
  <2>1. \A i \in 1..Len(sq.recs) : AheadAt(B, d, sq, i) <= B + D
    BY <1>2, <1>4, <1>6 DEF Timed
  <2>2. \A i, j \in 1..Len(sq.recs) : i < j => AheadAt(B, d, sq, i) <= AheadAt(B, d, sq, j)
    BY <1>2, <1>4, <1>6 DEF Timed
  <2>3. ASSUME NEW i \in 1..Len(sq.recs)
        PROVE  owed'[sq.recs[i].rid] = 0 \/ owed'[sq.recs[i].rid] + B <= AheadAt(B, d, sq, i)
    <3>1. PICK r : r = sq.recs[i].rid
      OBVIOUS
    <3>2. r \in RIds
      BY <1>1, <1>2, <3>1, DueTyped
    <3>3. owed[r] \in Nat /\ owed'[r] = IF owed[r] = 0 THEN 0 ELSE owed[r] - 1
      BY <1>2, <1>3, <3>2
    <3>4. owed[r] = 0 \/ owed[r] + B <= AheadAt(B, clock, sq, i)
      BY <1>4, <3>1 DEF Timed
    <3>5. PICK x, y, z, w : x = owed[r] /\ y = owed'[r] /\ z = AheadAt(B, clock, sq, i)
                            /\ w = AheadAt(B, d, sq, i)
      OBVIOUS
    <3>6. /\ x \in Nat /\ y = IF x = 0 THEN 0 ELSE x - 1
          /\ z \in Nat /\ w = z - 1 /\ (x = 0 \/ x + B <= z)
      BY <1>6, <3>3, <3>4, <3>5
    <3>7. y = 0 \/ y + B <= w
      BY <1>2, <3>6
    <3> QED
      BY <3>1, <3>5, <3>7
  <2> QED
    BY <2>1, <2>2, <2>3 DEF Timed
<1>8. Started(B, d, Dues(sq), calls)
  <2>1. ASSUME NEW k \in 1..Len(calls)
        PROVE  /\ Ahead(B, d, calls[k].now) <= B
               /\ \E e \in Dues(sq) :
                     e.rid = calls[k].cur /\ Ahead(B, d, e.due) <= Ahead(B, d, calls[k].now)
    <3>1. PICK now, cur : now = calls[k].now /\ cur = calls[k].cur
      OBVIOUS
    <3>2. Ahead(B, clock, now) <= B
      BY <1>4, <3>1 DEF Started
    <3>3. PICK e \in Dues(sq) : e.rid = cur /\ Ahead(B, clock, e.due) <= Ahead(B, clock, now)
      BY <1>4, <3>1 DEF Started
    <3>4. PICK i \in 1..Len(sq.recs) : e = [rid |-> sq.recs[i].rid, due |-> sq.recs[i].obj.due]
      BY <3>3 DEF Dues
    <3>5. Ahead(B, clock, e.due) = AheadAt(B, clock, sq, i) /\ Ahead(B, d, e.due) = AheadAt(B, d, sq, i)
      BY <3>4 DEF AheadAt
    <3>6. now \in 0 .. Wrap - 1
      <4>1. calls[k] \in Calls
        BY <1>1, ElementOfSeq
      <4> QED
        BY <3>1, <4>1 DEF Calls
    <3>7. PICK x, y : x = Ahead(B, clock, e.due) /\ y = Ahead(B, clock, now)
      OBVIOUS
    <3>8. y \in Nat
      <4>1. clock \in Int /\ now \in Int
        BY <1>2, <3>6
      <4> QED
        BY <1>2, <3>7, <4>1, AheadNat
    <3>9. x \in Nat /\ x > 0 /\ x <= y /\ y <= B /\ Ahead(B, d, e.due) = x - 1
      BY <1>6, <3>2, <3>3, <3>5, <3>7
    <3>10. y > 0
      BY <3>8, <3>9
    <3>11. Ahead(B, d, now) = y - 1
      BY <1>2, <1>5, <3>6, <3>7, <3>10, AheadTick
    <3>12. x - 1 <= y - 1 /\ y - 1 <= B
      BY <1>2, <3>8, <3>9
    <3> QED
      BY <3>1, <3>3, <3>9, <3>11, <3>12
  <2> QED
    BY <2>1 DEF Started
<1>9. Lag' <= MaxLag
  <2>1. PICK x, y : x = (clock - evtime) % Wrap /\ y = (d - evtime) % Wrap
    OBVIOUS
  <2>2. y <= x + 1
    BY <1>2, <1>5, <2>1, LagTick
  <2>3. Lag' = y /\ Lag = x
    BY <1>3, <1>5, <2>1 DEF Lag
  <2>4. x \in Nat /\ y \in Nat
    <3>1. /\ clock - evtime \in Int /\ d \in 0 .. Wrap - 1
      <4>1. clock + 1 \in Int
        BY <1>2
      <4> QED
        BY <1>2, <1>5, <4>1, ModRange
    <3>2. d - evtime \in Int
      BY <1>2, <3>1
    <3>3. x \in 0 .. Wrap - 1 /\ y \in 0 .. Wrap - 1
      BY <1>2, <2>1, <3>1, <3>2, ModRange
    <3> QED
      BY <3>3
  <2> QED
    BY <1>2, <1>3, <2>2, <2>3, <2>4
<1>10. clock' = d
  BY <1>3, <1>5
<1> QED
  BY <1>3, <1>7, <1>8, <1>9, <1>10 DEF Timely

\* A fetched timestamp never makes the program lag further behind.
LEMMA EventLag ==
  ASSUME NEW B, NEW D, ClockFits(B, D), Scalars, Lag <= MaxLag,
         evtime' = Timestamp, clock' = clock
  PROVE  Lag' <= MaxLag
<1>1. Wrap \in Nat \ {0} /\ MaxLag \in Nat /\ clock \in 0 .. Wrap - 1
  BY FitsNumbers DEF Scalars
<1>2. CASE evtime' = clock
  <2>1. clock - clock = 0 /\ 0 \in 0 .. Wrap - 1
    BY <1>1
  <2>2. 0 % Wrap = 0
    BY <1>1, <2>1, ModCases
  <2>3. Lag' = 0
    BY <1>2, <2>1, <2>2 DEF Lag
  <2> QED
    BY <1>1, <2>3
<1>3. CASE evtime' = evtime
  BY <1>3 DEF Lag
<1> QED
  BY <1>2, <1>3 DEF Timestamp

\* An event with a timestamp touches neither queue nor walks.
LEMMA EventTimely ==
  ASSUME NEW B, NEW D, ClockFits(B, D), Inv, Timely(B, D), TimestampedEvent
  PROVE  Timely(B, D)'
<1>1. /\ evtime' = Timestamp /\ clock' = clock /\ sq' = sq /\ calls' = calls /\ owed' = owed
  BY DEF TimestampedEvent
<1>2. Lag' <= MaxLag
  BY <1>1, EventLag DEF Inv, Timely
<1> QED
  BY <1>1, <1>2 DEF Timely

\* CMD_Schedule: the new record takes its place among those of the queue.
LEMMA ScheduleTimely ==
  ASSUME NEW B, NEW D, ClockFits(B, D), Inv, Timely(B, D),
         NEW ms \in Delays, NEW periodic \in Modes, NEW explicit \in ExplicitIds,
         CmdSchedule(ms, periodic, explicit)
  PROVE  Timely(B, D)'
<1>1. /\ sq \in Queues /\ Scalars
  BY DEF Inv, Sane
<1>2. /\ LongMod = Wrap /\ Wrap \in Nat \ {0} /\ B \in Nat /\ D \in Nat
      /\ clock \in 0 .. Wrap - 1 /\ clock \in Int /\ owed \in [RIds -> Nat] /\ ms \in 0..D
  <2>1. ms \in 0..D
    BY DEF ClockFits
  <2> QED
    BY <1>1, <2>1, FitsNumbers DEF Scalars
<1>3. PICK obj, rid, m : /\ Scheduled(obj, rid, m) /\ obj.due = (evtime + ms) % LongMod
                         /\ owed' = [owed EXCEPT ![rid] = Remaining(ms)]
  BY ScheduleEffect
<1>4. clock' = clock /\ evtime' = evtime /\ calls' = calls
  BY DEF CmdSchedule
<1>5. Lag <= MaxLag /\ Timed(B, D, clock, owed, sq) /\ Started(B, clock, Dues(sq), calls)
  BY DEF Timely
<1>6. PICK a : a = Ahead(B, clock, obj.due)
  OBVIOUS
<1>7. /\ obj.due \in 0 .. Wrap - 1 /\ a \in Nat /\ a <= B + D
      /\ Remaining(ms) = 0 \/ Remaining(ms) + B <= a
  BY <1>1, <1>2, <1>3, <1>5, <1>6, DueFits
<1>8. \A i \in 1..Len(sq.recs) :
         /\ AheadAt(B, clock, sq, i) \in Nat
         /\ i \in LaterThan(obj) <=> a < AheadAt(B, clock, sq, i)
  BY <1>1, <1>5, <1>6, <1>7, LaterAhead
<1>9. PICK R, r : R = sq' /\ r = NewRecord(sq, rid, obj)
  OBVIOUS
<1>10. /\ Inserted(R, sq, m, r) /\ r.rid = rid /\ r.obj = obj
       /\ rid \in RIds \ RecIds(sq)
  BY <1>3, <1>9 DEF Scheduled, FreeRIds, NewRecord
<1>11. /\ \A i \in 1..Len(sq.recs) : a < AheadAt(B, clock, sq, i) => m <= i
       /\ m = Len(sq.recs) + 1 \/ (m \in 1..Len(sq.recs) /\ a < AheadAt(B, clock, sq, m))
  <2>1. LaterThan(obj) \subseteq 1..Len(sq.recs)
    BY <1>1 DEF LaterThan, Queues
  <2>2. /\ \A i \in LaterThan(obj) : m <= i
        /\ m = Len(sq.recs) + 1 \/ m \in LaterThan(obj)
    BY <1>3 DEF Scheduled
  <2> QED
    BY <1>8, <2>1, <2>2
<1>12. PICK v : v = Remaining(ms)
  OBVIOUS
<1>13. \A i \in 1..Len(sq.recs) : AheadAt(B, clock, sq, i) \in Nat
  BY <1>8
<1>14. Timed(B, D, clock, owed', R) /\ Dues(sq) \subseteq Dues(R)
  <2>1. Ahead(B, clock, r.obj.due) = a
    BY <1>6, <1>10
  <2>2. Belongs(B, D, clock, sq, m, r.obj.due, v)
    BY <1>7, <1>11, <1>12, <1>13, <2>1 DEF Belongs
  <2>3. PICK o : o = owed'
    OBVIOUS
  <2>4. o = [owed EXCEPT ![r.rid] = v] /\ r.rid \in RIds \ RecIds(sq)
    BY <1>3, <1>10, <1>12, <2>3
  <2>5. Inserted(R, sq, m, r)
    BY <1>10
  <2>6. Timed(B, D, clock, o, R) /\ Dues(sq) \subseteq Dues(R)
    <3>1. B \in Nat /\ clock \in Int /\ owed \in [RIds -> Nat] /\ sq \in Queues
      BY <1>1, <1>2
    <3>2. Timed(B, D, clock, owed, sq)
      BY <1>5
    <3> QED
      BY <2>2, <2>4, <2>5, <3>1, <3>2, InsertedTimed, ZenonT(60)
  <2> QED
    BY <2>3, <2>6
<1>15. Started(B, clock, Dues(R), calls)
  BY <1>5, <1>14, StartedMore
<1>16. Lag' = Lag
  BY <1>4 DEF Lag
<1> QED
  BY <1>4, <1>5, <1>9, <1>14, <1>15, <1>16 DEF Timely

\* CMD_Deschedule: what is left is timed as it was, and while walks are
\* under way everything is left.
LEMMA DescheduleTimely ==
  ASSUME NEW B, NEW D, ClockFits(B, D), Inv, Timely(B, D),
         NEW explicit \in ExplicitIds, CmdDeschedule(explicit)
  PROVE  Timely(B, D)'
<1>1. /\ sq \in Queues /\ calls \in Seq(Calls) /\ sq.lock = Len(calls) /\ Len(calls) \in Nat
      /\ B \in Nat
  BY FitsNumbers DEF Inv, Sane
<1>2. clock' = clock /\ evtime' = evtime /\ calls' = calls /\ owed' = owed
  BY DEF CmdDeschedule
<1>3. Lag <= MaxLag /\ Timed(B, D, clock, owed, sq) /\ Started(B, clock, Dues(sq), calls)
  BY DEF Timely
<1>4. Lag' = Lag
  BY <1>2 DEF Lag
<1>5. PICK R : R = sq'
  OBVIOUS
<1>6. Timed(B, D, clock, owed, R) /\ Started(B, clock, Dues(R), calls)
  <2>1. CASE R = sq
    BY <1>3, <2>1
  <2>2. ASSUME NEW L, NEW M, NEW e, Marked(L, LockQueue(sq), M), Unlocked(R, L, e)
        PROVE  Timed(B, D, clock, owed, R) /\ Started(B, clock, Dues(R), calls)
    <3>1. PICK K : K = LockQueue(sq)
      OBVIOUS
    <3>2. K \in Queues /\ K.recs = sq.recs /\ K.lock = sq.lock + 1
      BY <1>1, <3>1, LockLocks
    <3>3. Timed(B, D, clock, owed, K) /\ Dues(K) = Dues(sq)
      BY <1>3, <3>2 DEF Timed, AheadAt, Dues
    <3>4. Marked(L, K, M)
      BY <2>2, <3>1
    <3>5. Timed(B, D, clock, owed, L) /\ Dues(L) = Dues(K)
      BY <1>1, <3>2, <3>3, <3>4, MarkedTimed
    <3>6. Timed(B, D, clock, owed, R)
      <4>1. LeftAt(R, L, e)
        BY <2>2 DEF Unlocked
      <4> QED
        BY <1>1, <3>5, <4>1, LeftTimed
    <3>7. CASE Len(calls) = 0
      BY <3>6, <3>7 DEF Started
    <3>8. CASE Len(calls) # 0
      <4>1. L.lock > 1
        BY <1>1, <3>2, <3>4, <3>8 DEF Marked
      <4>2. R.recs = L.recs
        BY <2>2, <4>1 DEF Unlocked
      <4>3. Dues(R) = Dues(sq)
        BY <3>3, <3>5, <4>2 DEF Dues
      <4> QED
        BY <1>3, <3>6, <4>3
    <3> QED
      BY <3>7, <3>8
  <2>3. \/ R = sq
        \/ \E L, M, e : Marked(L, LockQueue(sq), M) /\ Unlocked(R, L, e)
    BY <1>5, DescheduleEffect
  <2> QED
    BY <2>1, <2>2, <2>3
<1> QED
  BY <1>2, <1>3, <1>4, <1>5, <1>6 DEF Timely

\* squeue_execute: the present is what a walk measures by.
LEMMA ExecuteTimely ==
  ASSUME NEW B, NEW D, ClockFits(B, D), Inv, Timely(B, D), SqueueExecute
  PROVE  Timely(B, D)' /\ \A r \in Starting : owed[r] = 0
<1>1. /\ sq \in Queues /\ Distinct(sq) /\ Flagged(sq) /\ Scalars
      /\ calls \in Seq(Calls) /\ sq.lock = Len(calls)
      /\ \A k \in 1..Len(calls) : calls[k].cur \in RecIds(sq)
  BY DEF Inv, Sane
<1>2. B \in Nat /\ clock \in 0 .. Wrap - 1 /\ owed \in [RIds -> Nat]
  BY <1>1, FitsNumbers DEF Scalars
<1>3. Lag <= MaxLag /\ Timed(B, D, clock, owed, sq) /\ Started(B, clock, Dues(sq), calls)
  BY DEF Timely
<1>4. /\ evtime' = Timestamp /\ clock' = clock /\ owed' = owed
      /\ Walk(LockQueue(sq), 1, clock, calls)
  BY DEF SqueueExecute
<1>5. Lag' <= MaxLag
  BY <1>1, <1>3, <1>4, EventLag
<1>6. PICK K : K = LockQueue(sq)
  OBVIOUS
<1>7. K \in Queues /\ K.recs = sq.recs /\ K.lock = sq.lock + 1 /\ K.dirty = sq.dirty
  BY <1>1, <1>6, LockLocks
<1>8. Distinct(K) /\ Flagged(K) /\ RecIds(K) = RecIds(sq)
  BY <1>1, <1>7 DEF Distinct, Flagged, RecIds
<1>9. Walked(K, calls)
  BY <1>1, <1>7, <1>8 DEF Walked
<1>10. Timed(B, D, clock, owed, K) /\ Dues(K) = Dues(sq)
  BY <1>3, <1>7 DEF Timed, AheadAt, Dues
<1>11. Started(B, clock, Dues(K), calls)
  BY <1>3, <1>10
<1>12. Ahead(B, clock, clock) <= B
  <2>1. Ahead(B, clock, clock) = B
    BY <1>2, AheadNow
  <2> QED
    BY <1>2, <2>1
<1>13. Walk(K, 1, clock, calls)
  BY <1>4, <1>6
<1>14. \A k \in 1..Len(calls) : k \in 1..Len(calls) /\ calls[k] = calls[k]
  OBVIOUS
<1>15. /\ Timed(B, D, clock, owed, sq') /\ Started(B, clock, Dues(sq'), calls')
       /\ \A r \in Starting : \E i \in 1..Len(K.recs) :
             r = K.recs[i].rid /\ ~K.recs[i].new /\ owed[r] = 0
  BY <1>1, <1>2, <1>9, <1>10, <1>11, <1>12, <1>13, <1>14, WalkTimed
<1>16. Timely(B, D)'
  BY <1>4, <1>5, <1>15 DEF Timely
<1> QED
  BY <1>15, <1>16

\* A periodic job is queued anew, its old record silenced.
LEMMA RequeueTimely ==
  ASSUME NEW B, NEW D, ClockFits(B, D), Inv, Timely(B, D),
         NEW Q, NEW R, NEW again, NEW rid, NEW m, Requeued(Q, R, again, rid, m)
  PROVE  /\ Timed(B, D, clock, owed', R) /\ Dues(sq) \subseteq Dues(R)
         /\ owed' \in [RIds -> Nat]
         /\ \A i \in 1..Len(R.recs) :
               ~R.recs[i].new => owed'[R.recs[i].rid] = owed[R.recs[i].rid] \/ sq.lock = 0
<1>1. /\ sq \in Queues /\ Flagged(sq) /\ Distinct(sq) /\ Scalars
  BY DEF Inv, Sane
<1>2. /\ B \in Nat /\ D \in Nat /\ clock \in Int /\ owed \in [RIds -> Nat]
      /\ clock \in 0 .. Wrap - 1
  BY <1>1, FitsNumbers DEF Scalars
<1>3. Lag <= MaxLag /\ Timed(B, D, clock, owed, sq)
  BY DEF Timely
<1>4. /\ Silenced(Q, sq) /\ again \in Objects /\ rid \in FreeRIds
      /\ again.due = (evtime + again.period) % LongMod
      /\ Inserted(R, Q, m, NewRecord(Q, rid, again))
      /\ owed' = [owed EXCEPT ![rid] = Remaining(again.period)]
  BY DEF Requeued
<1>5. /\ \A i \in LaterThan(again) : m <= i
      /\ m = Len(Q.recs) + 1 \/ m \in LaterThan(again)
  BY DEF Requeued
<1>6. /\ Timed(B, D, clock, owed, Q) /\ Dues(Q) = Dues(sq)
      /\ Q \in Queues /\ RecIds(Q) = RecIds(sq) /\ Len(Q.recs) = Len(sq.recs)
      /\ Q.lock = sq.lock
  <2>1. Timed(B, D, clock, owed, Q) /\ Dues(Q) = Dues(sq)
    BY <1>2, <1>3, <1>4, SilencedTimed
  <2>2. RecIds(Q) = RecIds(sq)
    BY <1>1, <1>4, SilencedKeeps
  <2>3. Q \in Queues /\ Len(Q.recs) = Len(sq.recs) /\ Q.lock = sq.lock
    BY <1>4 DEF Silenced
  <2> QED
    BY <2>1, <2>2, <2>3
<1>7. PICK ms : ms = again.period
  OBVIOUS
<1>8. ms \in 0..D
  <2>1. ms \in Delays \cup {0}
    BY <1>4, <1>7, ObjectPeriod
  <2>2. Delays \subseteq 0..D /\ 0 \in 0..D
    BY <1>2 DEF ClockFits
  <2> QED
    BY <2>1, <2>2
<1>9. PICK t, a, v : t = again.due /\ a = Ahead(B, clock, t) /\ v = Remaining(ms)
  OBVIOUS
<1>10. t = (evtime + ms) % LongMod
  BY <1>4, <1>7, <1>9
<1>11. t \in 0 .. Wrap - 1 /\ a \in Nat /\ a <= B + D /\ (v = 0 \/ v + B <= a)
  BY <1>1, <1>3, <1>8, <1>9, <1>10, DueFits
<1>12. \A i \in 1..Len(sq.recs) :
          /\ AheadAt(B, clock, sq, i) \in Nat
          /\ i \in LaterThan(again) <=> a < AheadAt(B, clock, sq, i)
  BY <1>1, <1>3, <1>9, <1>11, LaterAhead
<1>13. \A i \in 1..Len(sq.recs) : AheadAt(B, clock, Q, i) = AheadAt(B, clock, sq, i)
  BY <1>4 DEF Silenced, SameRec, AheadAt
<1>14. Belongs(B, D, clock, Q, m, t, v)
  <2>1. LaterThan(again) \subseteq 1..Len(sq.recs)
    BY <1>1 DEF LaterThan, Queues
  <2>2. \A i \in 1..Len(Q.recs) :
           AheadAt(B, clock, Q, i) \in Nat /\ (a < AheadAt(B, clock, Q, i) => m <= i)
    BY <1>5, <1>6, <1>12, <1>13
  <2>3. m = Len(Q.recs) + 1 \/ (m \in 1..Len(Q.recs) /\ a < AheadAt(B, clock, Q, m))
    BY <1>5, <1>6, <1>12, <1>13, <2>1
  <2> QED
    BY <1>9, <1>11, <2>2, <2>3 DEF Belongs
<1>15. PICK o, r : o = owed' /\ r = NewRecord(Q, rid, again)
  OBVIOUS
<1>16. /\ Inserted(R, Q, m, r) /\ r.rid = rid /\ r.obj.due = t /\ (r.new <=> Q.lock > 0)
       /\ rid \in RIds \ RecIds(Q)
  BY <1>4, <1>6, <1>9, <1>15 DEF FreeRIds, NewRecord
<1>17. o = [owed EXCEPT ![r.rid] = v]
  BY <1>4, <1>7, <1>9, <1>15, <1>16
<1>18. Timed(B, D, clock, o, R) /\ Dues(Q) \subseteq Dues(R)
  <2>1. Belongs(B, D, clock, Q, m, r.obj.due, v)
    BY <1>14, <1>16
  <2>2. r.rid \in RIds \ RecIds(Q) /\ Inserted(R, Q, m, r)
    BY <1>16
  <2>3. B \in Nat /\ clock \in Int /\ owed \in [RIds -> Nat] /\ Q \in Queues
        /\ Timed(B, D, clock, owed, Q)
    BY <1>2, <1>6
  <2> QED
    BY <1>17, <2>1, <2>2, <2>3, InsertedTimed, ZenonT(60)
<1>19. v \in Nat
  <2>1. ms \in Nat
    BY <1>2, <1>8
  <2> QED
    BY <1>1, <1>9, <2>1, RemainingTyped
<1>20. o \in [RIds -> Nat]
  BY <1>2, <1>17, <1>19
<1>21. ASSUME NEW i \in 1..Len(R.recs), ~R.recs[i].new, sq.lock # 0
       PROVE  o[R.recs[i].rid] = owed[R.recs[i].rid]
  <2>1. R.recs[m] = r /\ r.new
    <3>1. sq.lock \in Nat
      BY <1>1 DEF Queues
    <3>2. r.new
      BY <1>6, <1>16, <1>21, <3>1
    <3> QED
      BY <1>16, <3>2 DEF Inserted
  <2>2. i # m
    BY <1>21, <2>1
  <2>3. R \in Queues /\ Distinct(R) /\ m \in 1..Len(R.recs)
    <3>1. Distinct(Q)
      BY <1>1, <1>4, SilencedKeeps
    <3>2. Distinct(R)
      BY <1>6, <1>16, <3>1, InsertedDistinct
    <3>3. Len(Q.recs) \in Nat
      BY <1>6 DEF Queues
    <3> QED
      BY <1>16, <3>2, <3>3 DEF Inserted
  <2>4. R.recs[i].rid # rid
    BY <1>16, <2>1, <2>2, <2>3 DEF Distinct
  <2> QED
    BY <1>2, <1>16, <1>17, <2>4
<1> QED
  BY <1>6, <1>15, <1>18, <1>20, <1>21

\* execute_obj_func returns and the walk goes on, measuring by its own start.
LEMMA ReturnTimely ==
  ASSUME NEW B, NEW D, ClockFits(B, D), Inv, Timely(B, D), CommandReturns
  PROVE  Timely(B, D)' /\ \A r \in Starting : owed[r] = 0
<1>1. /\ sq \in Queues /\ Scalars /\ calls \in Seq(Calls) /\ sq.lock = Len(calls)
  BY DEF Inv, Sane
<1>2. /\ B \in Nat /\ clock \in 0 .. Wrap - 1 /\ owed \in [RIds -> Nat]
  BY <1>1, FitsNumbers DEF Scalars
<1>3. Lag <= MaxLag /\ Timed(B, D, clock, owed, sq) /\ Started(B, clock, Dues(sq), calls)
  BY DEF Timely
<1>4. Depth > 0 /\ clock' = clock /\ evtime' = evtime
  BY DEF CommandReturns
<1>5. Lag' = Lag
  BY <1>4 DEF Lag
<1>6. PICK R, Q2 : /\ \/ R = sq /\ RunningObj.period = 0 /\ owed' = owed
                      \/ RunningObj.period > 0 /\ \E Q, again, rid, m : Requeued(Q, R, again, rid, m)
                   /\ WalkGoesOn(R, Q2)
  BY ReturnEffect
<1>7. PICK outer, now, o : outer = SubSeq(calls, 1, Depth - 1) /\ now = TopCall.now /\ o = owed'
  OBVIOUS
<1>8. Walked(Q2, outer) /\ R \in Queues
  BY <1>4, <1>6, <1>7, ReturnWalked
<1>9. /\ Timed(B, D, clock, o, R) /\ Dues(sq) \subseteq Dues(R) /\ o \in [RIds -> Nat]
      /\ \A i \in 1..Len(R.recs) : ~R.recs[i].new => o[R.recs[i].rid] = owed[R.recs[i].rid]
  <2>1. CASE R = sq /\ owed' = owed
    BY <1>2, <1>3, <1>7, <2>1
  <2>2. ASSUME NEW Q, NEW again, NEW rid, NEW m, Requeued(Q, R, again, rid, m)
        PROVE  /\ Timed(B, D, clock, o, R) /\ Dues(sq) \subseteq Dues(R) /\ o \in [RIds -> Nat]
               /\ \A i \in 1..Len(R.recs) : ~R.recs[i].new => o[R.recs[i].rid] = owed[R.recs[i].rid]
    <3>1. sq.lock # 0
      BY <1>1, <1>4 DEF Depth
    <3> QED
      BY <1>7, <2>2, <3>1, RequeueTimely
  <2> QED
    BY <1>6, <2>1, <2>2
<1>10. Marked(Q2, R, {IndexOfRec(R, TopCall.cur)})
  BY <1>6 DEF WalkGoesOn
<1>11. Timed(B, D, clock, o, Q2) /\ Dues(Q2) = Dues(R)
  BY <1>2, <1>8, <1>9, <1>10, MarkedTimed
<1>12. /\ outer \in Seq(Calls) /\ Len(outer) \in Nat
       /\ \A k \in 1..Len(outer) : outer[k] = calls[k] /\ k \in 1..Len(calls)
  BY <1>4, <1>7, OuterWalks
<1>13. Started(B, clock, Dues(Q2), outer)
  <2>1. Started(B, clock, Dues(sq), outer)
    BY <1>3, <1>12 DEF Started
  <2>2. Dues(sq) \subseteq Dues(Q2)
    BY <1>9, <1>11
  <2> QED
    BY <2>1, <2>2, StartedMore
<1>14. now \in 0 .. Wrap - 1 /\ Ahead(B, clock, now) <= B
  <2>1. Depth \in 1..Len(calls)
    BY <1>1, <1>4 DEF Depth
  <2>2. now = calls[Depth].now
    BY <1>7 DEF TopCall
  <2>3. Ahead(B, clock, now) <= B
    BY <1>3, <2>1, <2>2 DEF Started
  <2>4. now \in 0 .. Wrap - 1
    BY <1>4, <1>7, TopFound DEF Calls
  <2> QED
    BY <2>3, <2>4
<1>15. PICK from : Walk(Q2, from, now, outer)
  BY <1>6, <1>7 DEF WalkGoesOn
<1>16. \A k \in 1..Len(outer) : k \in 1..Len(calls) /\ outer[k] = calls[k]
  BY <1>12
<1>17. /\ Timed(B, D, clock, o, sq') /\ Started(B, clock, Dues(sq'), calls')
       /\ \A r \in Starting : \E i \in 1..Len(Q2.recs) :
             r = Q2.recs[i].rid /\ ~Q2.recs[i].new /\ o[r] = 0
  BY <1>1, <1>2, <1>8, <1>9, <1>11, <1>13, <1>14, <1>15, <1>16, WalkTimed
<1>18. \A r \in Starting : owed[r] = 0
  <2>1. ASSUME NEW r \in Starting PROVE owed[r] = 0
    <3>1. PICK i \in 1..Len(Q2.recs) : r = Q2.recs[i].rid /\ ~Q2.recs[i].new /\ o[r] = 0
      BY <1>17
    <3>2. i \in 1..Len(R.recs) /\ R.recs[i].rid = r /\ ~R.recs[i].new
      BY <1>10, <3>1 DEF Marked
    <3> QED
      BY <1>9, <3>1, <3>2
  <2> QED
    BY <2>1
<1>19. Timely(B, D)'
  BY <1>3, <1>4, <1>5, <1>7, <1>17 DEF Timely
<1> QED
  BY <1>18, <1>19

-----------------------------------------------------------------------------
\* When fvwm starts, nothing is queued and the two clocks agree.
LEMMA InitTimely ==
  ASSUME NEW B, NEW D, ClockFits(B, D), Init
  PROVE  Timely(B, D)
<1>1. Wrap \in Nat \ {0} /\ MaxLag \in Nat
  BY FitsNumbers
<1>2. /\ clock = 0 /\ evtime = 0 /\ Len(sq.recs) = 0 /\ Len(calls) = 0
  BY DEF Init, EmptyQueue
<1>3. Lag <= MaxLag
  <2>1. 0 - 0 = 0 /\ 0 \in 0 .. Wrap - 1
    BY <1>1
  <2>2. 0 % Wrap = 0
    BY <1>1, <2>1, ModCases
  <2>3. Lag = 0
    BY <1>2, <2>1, <2>2 DEF Lag
  <2> QED
    BY <1>1, <2>3
<1>4. Timed(B, D, clock, owed, sq) /\ Started(B, clock, Dues(sq), calls)
  BY <1>2 DEF Timed, Started
<1> QED
  BY <1>3, <1>4 DEF Timely

\* A step that leaves the walks alone starts no command.
LEMMA NothingStarts ==
  ASSUME calls' = calls PROVE Starting = {}
BY DEF Starting

\* Every step keeps the clocks in order, and starts no command early.
LEMMA NextTimely ==
  ASSUME NEW B, NEW D, ClockFits(B, D), Inv, Timely(B, D), [Next]_vars
  PROVE  Timely(B, D)' /\ \A r \in Starting : owed[r] = 0
<1>1. CASE Tick
  <2>1. calls' = calls
    BY <1>1 DEF Tick
  <2> QED
    BY <1>1, <2>1, TickTimely, NothingStarts
<1>2. CASE TimestampedEvent
  <2>1. calls' = calls
    BY <1>2 DEF TimestampedEvent
  <2> QED
    BY <1>2, <2>1, EventTimely, NothingStarts
<1>3. ASSUME NEW ms \in Delays, NEW periodic \in Modes, NEW explicit \in ExplicitIds,
             CmdSchedule(ms, periodic, explicit)
      PROVE  Timely(B, D)' /\ \A r \in Starting : owed[r] = 0
  <2>1. calls' = calls
    BY <1>3 DEF CmdSchedule
  <2> QED
    BY <1>3, <2>1, ScheduleTimely, NothingStarts
<1>4. ASSUME NEW explicit \in ExplicitIds, CmdDeschedule(explicit)
      PROVE  Timely(B, D)' /\ \A r \in Starting : owed[r] = 0
  <2>1. calls' = calls
    BY <1>4 DEF CmdDeschedule
  <2> QED
    BY <1>4, <2>1, DescheduleTimely, NothingStarts
<1>5. CASE SqueueExecute
  BY <1>5, ExecuteTimely
<1>6. CASE CommandReturns
  BY <1>6, ReturnTimely
<1>7. CASE UNCHANGED vars
  <2>1. /\ clock' = clock /\ evtime' = evtime /\ sq' = sq /\ calls' = calls /\ owed' = owed
    BY <1>7 DEF vars
  <2>2. Timely(B, D)'
    BY <2>1 DEF Timely, Lag
  <2> QED
    BY <2>1, <2>2, NothingStarts
<1> QED
  BY <1>1, <1>2, <1>3, <1>4, <1>5, <1>6, <1>7 DEF Next

\* What is timed is sorted.
LEMMA TimelySorted ==
  ASSUME NEW B, NEW D, ClockFits(B, D), Inv, Timely(B, D)
  PROVE  QueueSorted
<1>1. /\ sq \in Queues /\ DOMAIN sq.recs = 1..Len(sq.recs) /\ clock \in 0 .. Wrap - 1
      /\ LongMod = Wrap /\ B \in Nat /\ D \in Nat /\ Wrap \in Nat
  BY FitsNumbers DEF Inv, Sane, Scalars, Queues
<1>2. Timed(B, D, clock, owed, sq)
  BY DEF Timely
<1>3. ASSUME NEW i \in 1..Len(sq.recs), NEW j \in 1..Len(sq.recs), i < j
      PROVE  ~RunsBefore(sq.recs[j].obj, sq.recs[i].obj)
  <2>1. PICK t, u : t = sq.recs[j].obj.due /\ u = sq.recs[i].obj.due
    OBVIOUS
  <2>2. t \in 0 .. Wrap - 1 /\ u \in 0 .. Wrap - 1
    BY <1>1, <2>1, DueTyped
  <2>3. /\ Ahead(B, clock, t) <= B + D /\ Ahead(B, clock, u) <= B + D
        /\ Ahead(B, clock, u) <= Ahead(B, clock, t)
    BY <1>2, <1>3, <2>1 DEF Timed, AheadAt
  <2>4. Ahead(B, clock, t) \in Nat /\ Ahead(B, clock, u) \in Nat
    <3>1. clock \in Int /\ t \in Int /\ u \in Int
      BY <1>1, <2>2
    <3> QED
      BY <1>1, <3>1, AheadNat
  <2>5. ~(Ahead(B, clock, t) < Ahead(B, clock, u))
    BY <2>3, <2>4
  <2>6. ~TimeBefore(t, u)
    BY <1>1, <2>2, <2>3, <2>5, TimeOrder
  <2> QED
    BY <2>1, <2>6 DEF RunsBefore
<1> QED
  BY <1>1, <1>3 DEF QueueSorted

\* QueueSorted: however the clock wraps and whatever is inserted during a
\* walk, squeue_get_next_ms finds the next command at the head of the queue.
THEOREM StaysSorted ==
  ASSUME NEW B, NEW D, ClockFits(B, D)
  PROVE  Spec => []QueueSorted
<1>1. Init => Timely(B, D)
  BY InitTimely
<1>2. Inv /\ Timely(B, D) /\ [Next]_vars => Timely(B, D)'
  BY NextTimely
<1>3. Inv /\ Timely(B, D) => QueueSorted
  BY TimelySorted
<1> QED
  BY <1>1, <1>2, <1>3, InvInvariant, PTL DEF Spec

\* NeverEarly: no walk of the queue starts a command before its delay has
\* passed in real time, also when the clock wraps in between.
THEOREM NoneStartsEarly ==
  ASSUME NEW B, NEW D, ClockFits(B, D)
  PROVE  Spec => NeverEarly
<1>1. Init => Timely(B, D)
  BY InitTimely
<1>2. Inv /\ Timely(B, D) /\ [Next]_vars => Timely(B, D)'
  BY NextTimely
<1>3. Inv /\ Timely(B, D) /\ [Next]_vars => [\A r \in Starting : owed[r] = 0]_vars
  BY NextTimely
<1> QED
  BY <1>1, <1>2, <1>3, InvInvariant, PTL DEF Spec, NeverEarly
=============================================================================
