-------------------------- MODULE WindowUseProofs --------------------------
(* What the frames on the C stack account for, at every time and for any     *)
(* number of windows, functions and nested activations: the flags, use_depth *)
(* and the grabs, the contexts, and the windows that are still to be freed.  *)
EXTENDS WindowUse, SequenceTheorems, FiniteSetTheorems, WellFoundedInduction,
        TLAPS

\* The sets of values the variables of WindowUse range over; States, those
\* of the record Now.
WinRec == [client: Clients \cup {None}, told: Nat,
           status: {"none", "listed", "scheduled", "freed"}]
Flags == [function: BOOLEAN, menu: BOOLEAN, scheduled: BOOLEAN, depth: Nat]
Uses == UNION {[F -> Nat] : F \in SUBSET Functions}
Grabs == [normal: Nat, menu: Nat, passive: Nat, pointer: BOOLEAN]

States == [win: [Recs -> WinRec], context: [Clients -> Recs \cup {None}],
           doomed: Seq(Recs), flags: Flags, uses: Uses, grab: Grabs,
           frames: Seq(Frame)]

\* How many of the first k frames are in P, and how many of all.
UpTo(fr, k, P) == Cardinality({i \in 1..k : fr[i] \in P})

Hits(fr, P) == UpTo(fr, Len(fr), P)

\* Frames are counted in Nat, and there are none exactly if none is in P.
LEMMA UpToNat ==
  ASSUME NEW fr, NEW k \in Nat, NEW P
  PROVE  /\ IsFiniteSet({i \in 1..k : fr[i] \in P})
         /\ UpTo(fr, k, P) \in Nat
         /\ UpTo(fr, k, P) = 0 <=> \A i \in 1..k : fr[i] \notin P
<1>1. IsFiniteSet(1..k)
  BY FS_Interval
<1>2. IsFiniteSet({i \in 1..k : fr[i] \in P})
  BY <1>1, FS_Subset
<1>3. Cardinality({i \in 1..k : fr[i] \in P}) \in Nat
  BY <1>2, FS_CardinalityType
<1>4. Cardinality({i \in 1..k : fr[i] \in P}) = 0 <=> {i \in 1..k : fr[i] \in P} = {}
  BY <1>2, FS_EmptySet
<1> QED
  BY <1>2, <1>3, <1>4 DEF UpTo

\* One frame more adds one to the count if it is in P.
LEMMA UpToNext ==
  ASSUME NEW fr, NEW k \in Nat, NEW P
  PROVE  UpTo(fr, k + 1, P) = UpTo(fr, k, P) + (IF fr[k + 1] \in P THEN 1 ELSE 0)
<1> DEFINE A == {i \in 1..k : fr[i] \in P}
           B == {i \in 1..(k + 1) : fr[i] \in P}
<1>0. IsFiniteSet(A) /\ UpTo(fr, k, P) \in Nat
  BY UpToNat
<1>1. IsFiniteSet(A) /\ Cardinality(A) \in Nat /\ k + 1 \notin A
  BY <1>0 DEF UpTo
<1>2. CASE fr[k + 1] \in P
  <2>1. B = A \cup {k + 1}
    BY <1>2
  <2> QED
    BY <1>1, <1>2, <2>1, FS_AddElement DEF UpTo
<1>3. CASE fr[k + 1] \notin P
  <2>1. B = A
    BY <1>3
  <2> QED
    BY <1>1, <1>3, <2>1 DEF UpTo
<1> QED
  BY <1>2, <1>3

\* Frames that agree up to k have the same count up to k.
LEMMA UpToSame ==
  ASSUME NEW fr, NEW gr, NEW k \in Nat, NEW P,
         \A i \in 1..k : fr[i] \in P <=> gr[i] \in P
  PROVE  UpTo(fr, k, P) = UpTo(gr, k, P)
<1>1. {i \in 1..k : fr[i] \in P} = {i \in 1..k : gr[i] \in P}
  OBVIOUS
<1> QED
  BY <1>1 DEF UpTo


\* A frame may be pushed on the frames of any state.
LEMMA EnterType ==
  ASSUME NEW S \in States, NEW kind \in Kinds, NEW r \in Recs \cup {None},
         NEW f \in Functions \cup {None}, NEW todo \in SUBSET Recs, NEW saved \in BOOLEAN
  PROVE  Enter(S, kind, r, f, todo, saved) \in States
<1> DEFINE x == [kind |-> kind, win |-> r, func |-> f, todo |-> todo, saved |-> saved]
<1>1. x \in Frame
  BY DEF Frame
<1>2. S.frames \in Seq(Frame)
  BY DEF States
<1>3. Append(S.frames, x) \in Seq(Frame)
  BY <1>1, <1>2
<1> HIDE DEF x
<1>4. [S EXCEPT !.frames = Append(@, x)] \in States
  BY <1>3 DEF States
<1> QED
  BY <1>4 DEF Enter, x

\* A count and the pointer grab may be set to any values of their types.
LEMMA GrabsSet ==
  ASSUME NEW g \in Grabs, NEW n \in Nat, NEW b \in BOOLEAN
  PROVE  /\ [g EXCEPT !.normal = n, !.pointer = b] \in Grabs
         /\ [g EXCEPT !.menu = n, !.pointer = b] \in Grabs
         /\ [g EXCEPT !.passive = n, !.pointer = b] \in Grabs
BY DEF Grabs

\* Setting the grabs leaves the rest of the state alone.
LEMMA StateGrab ==
  ASSUME NEW S \in States, NEW g \in Grabs
  PROVE  /\ [S EXCEPT !.grab = g] \in States
         /\ [S EXCEPT !.grab = g].grab = g
         /\ [S EXCEPT !.grab = g].win = S.win /\ [S EXCEPT !.grab = g].context = S.context
         /\ [S EXCEPT !.grab = g].doomed = S.doomed /\ [S EXCEPT !.grab = g].flags = S.flags
         /\ [S EXCEPT !.grab = g].uses = S.uses /\ [S EXCEPT !.grab = g].frames = S.frames
BY DEF States

\* GrabEm: one count goes up, and the pointer is grabbed unless the grab is
\* passive.
LEMMA GrabFields ==
  ASSUME NEW S \in States, NEW ctx \in {"normal", "menu", "passive"},
         NEW T, T = GrabEm(S, ctx)
  PROVE  /\ T \in States
         /\ T.win = S.win /\ T.context = S.context /\ T.doomed = S.doomed
         /\ T.flags = S.flags /\ T.uses = S.uses /\ T.frames = S.frames
         /\ T.grab.normal = S.grab.normal + (IF ctx = "normal" THEN 1 ELSE 0)
         /\ T.grab.menu = S.grab.menu + (IF ctx = "menu" THEN 1 ELSE 0)
         /\ T.grab.passive = S.grab.passive + (IF ctx = "passive" THEN 1 ELSE 0)
         /\ T.grab.pointer = (S.grab.pointer \/ ctx # "passive")
<1> DEFINE b == S.grab.pointer \/ ctx # "passive"
           n == S.grab[ctx] + 1
<1>1. S.grab \in Grabs /\ S.grab.pointer \in BOOLEAN
  BY DEF States, Grabs
<1>2. b \in BOOLEAN
  OBVIOUS
<1>3. S.grab.normal \in Nat /\ S.grab.menu \in Nat /\ S.grab.passive \in Nat
  BY <1>1 DEF Grabs
<1>4. n \in Nat
  BY <1>3
<1>5. T = [S EXCEPT !.grab = [S.grab EXCEPT ![ctx] = n, !.pointer = b]]
  BY <1>1 DEF GrabEm, States, Grabs
<1> HIDE DEF n, b
<1>6. [S.grab EXCEPT ![ctx] = n, !.pointer = b] \in Grabs
  BY <1>1, <1>2, <1>4, GrabsSet
<1> DEFINE g == [S.grab EXCEPT ![ctx] = n, !.pointer = b]
<1>7. /\ g.normal = IF ctx = "normal" THEN n ELSE S.grab.normal
      /\ g.menu = IF ctx = "menu" THEN n ELSE S.grab.menu
      /\ g.passive = IF ctx = "passive" THEN n ELSE S.grab.passive
      /\ g.pointer = b
  BY <1>1 DEF Grabs
<1> HIDE DEF g
<1>8. T = [S EXCEPT !.grab = g]
  BY <1>5 DEF g
<1>9. g \in Grabs
  BY <1>6 DEF g
<1> QED
  BY <1>3, <1>7, <1>8, <1>9, StateGrab DEF n, b

\* UngrabEm: a count that is zero stays; else it goes down, and the last
\* grab that goes gives up the pointer.
LEMMA UngrabFields ==
  ASSUME NEW S \in States, NEW ctx \in {"normal", "menu", "passive"},
         NEW T, T = UngrabEm(S, ctx)
  PROVE  /\ T \in States
         /\ T.win = S.win /\ T.context = S.context /\ T.doomed = S.doomed
         /\ T.flags = S.flags /\ T.uses = S.uses /\ T.frames = S.frames
         /\ S.grab[ctx] = 0 => T = S
         /\ S.grab[ctx] # 0 =>
              /\ T.grab.normal = S.grab.normal - (IF ctx = "normal" THEN 1 ELSE 0)
              /\ T.grab.menu = S.grab.menu - (IF ctx = "menu" THEN 1 ELSE 0)
              /\ T.grab.passive = S.grab.passive - (IF ctx = "passive" THEN 1 ELSE 0)
              /\ T.grab.pointer = (S.grab.pointer /\ GrabAll(S) > 1)
<1> DEFINE b == S.grab.pointer /\ GrabAll(S) > 1
           n == S.grab[ctx] - 1
<1>1. S.grab \in Grabs /\ S.grab.pointer \in BOOLEAN
  BY DEF States, Grabs
<1>2. b \in BOOLEAN
  OBVIOUS
<1>3. S.grab.normal \in Nat /\ S.grab.menu \in Nat /\ S.grab.passive \in Nat
  BY <1>1 DEF Grabs
<1>4. CASE S.grab[ctx] = 0
  BY <1>4 DEF UngrabEm
<1>5. CASE S.grab[ctx] # 0
  <2>1. n \in Nat
    BY <1>3, <1>5
  <2>2. T = [S EXCEPT !.grab = [S.grab EXCEPT ![ctx] = n, !.pointer = b]]
    BY <1>1, <1>5 DEF UngrabEm, States, Grabs
  <2> HIDE DEF n, b
  <2> DEFINE g == [S.grab EXCEPT ![ctx] = n, !.pointer = b]
  <2>3. g \in Grabs
    BY <1>1, <1>2, <2>1, GrabsSet
  <2>4. /\ g.normal = IF ctx = "normal" THEN n ELSE S.grab.normal
        /\ g.menu = IF ctx = "menu" THEN n ELSE S.grab.menu
        /\ g.passive = IF ctx = "passive" THEN n ELSE S.grab.passive
        /\ g.pointer = b
    BY <1>1 DEF Grabs
  <2> HIDE DEF g
  <2>5. T = [S EXCEPT !.grab = g]
    BY <2>2 DEF g
  <2> QED
    BY <1>3, <1>5, <2>3, <2>4, <2>5, StateGrab DEF n, b
<1> QED
  BY <1>4, <1>5

-----------------------------------------------------------------------------
\* The frames of a kind, those that run f, the Waits that grab again.
OfKind(kind) == {x \in Frame : x.kind = kind}
Running(f) == {x \in Frame : x.func = f}
Regrabbing == {x \in Frame : x.kind = "wait" /\ x.saved}

\* Which fields a frame of each kind has.
Fits(x) ==
  /\ x.kind = "function" <=> x.func # None
  /\ x.kind # "all" => x.todo = {}
  /\ x.kind \in {"all", "wait"} => x.win = None
  /\ x.kind \in {"click", "put off", "destroy"} => x.win # None

\* A menu's action is on top of its menu, and saved is_executing_menu_function
\* as the actions below it had left it.
ItemFits(fr, i) ==
  /\ i > 1 /\ fr[i - 1].kind \in {"menu", "closed menu"}
  /\ fr[i].saved <=> \E j \in 1..(i - 1) : fr[j].kind = "item"

\* Every frame fits where it is.
FramesFit(fr) ==
  \A i \in 1..Len(fr) : Fits(fr[i]) /\ (fr[i].kind = "item" => ItemFits(fr, i))

\* Scr.flags is what the frames set.
FlagsFit(fl, fr) ==
  /\ fl.depth = Hits(fr, OfKind("function"))
  /\ fl.function <=> fl.depth > 0
  /\ fl.menu <=> \E j \in 1..Len(fr) : fr[j].kind = "item"

\* use_depth of a function counts the frames that run it, which are of
\* functions that are defined.
UsesFit(us, fr) ==
  /\ \A i \in 1..Len(fr) : fr[i].kind = "function" => fr[i].func \in DOMAIN us
  /\ \A f \in DOMAIN us : us[f] = Hits(fr, Running(f))

\* The pointer is grabbed while a command counts on it, and only if some
\* grab is counted.
PointerFits(g) ==
  /\ g.normal + g.menu > 0 => g.pointer
  /\ g.pointer => g.normal + g.menu + g.passive > 0

\* The counts are those of the frames.  A Wait takes the grab of a function
\* and may fail to get it back, so the last two are bounds: a grab for each
\* function at most, less one for each Wait that will grab again; and below
\* any frame no more Waits will than functions run.
GrabsFit(g, fr) ==
  /\ g.menu = Hits(fr, OfKind("menu"))
  /\ g.passive = Hits(fr, OfKind("click"))
  /\ g.normal + Hits(fr, Regrabbing) <= Hits(fr, OfKind("function"))
  /\ \A k \in 0..Len(fr) : UpTo(fr, k, Regrabbing) <= UpTo(fr, k, OfKind("function"))

\* What every command keeps: the state matches the C stack.
Kept(S) ==
  /\ S \in States
  /\ FramesFit(S.frames)
  /\ FlagsFit(S.flags, S.frames)
  /\ UsesFit(S.uses, S.frames)
  /\ GrabsFit(S.grab, S.frames) /\ PointerFits(S.grab)

\* Frames are counted in Nat.
LEMMA HitsNat ==
  ASSUME NEW fr \in Seq(Frame), NEW P
  PROVE  Hits(fr, P) \in Nat
<1>1. Len(fr) \in Nat
  OBVIOUS
<1> QED
  BY <1>1, UpToNat DEF Hits

\* What a push does to a sequence of frames.
LEMMA Pushed ==
  ASSUME NEW fr \in Seq(Frame), NEW x \in Frame
  PROVE  /\ Append(fr, x) \in Seq(Frame)
         /\ Len(Append(fr, x)) = Len(fr) + 1
         /\ Append(fr, x)[Len(fr) + 1] = x
         /\ \A i \in 1..Len(fr) : Append(fr, x)[i] = fr[i]
BY AppendProperties

\* A push changes no count of the frames below.
LEMMA PushedUpTo ==
  ASSUME NEW fr \in Seq(Frame), NEW x \in Frame, NEW P, NEW k \in 0..Len(fr)
  PROVE  UpTo(Append(fr, x), k, P) = UpTo(fr, k, P)
<1>1. \A i \in 1..k : Append(fr, x)[i] = fr[i]
  BY Pushed
<1>2. {i \in 1..k : Append(fr, x)[i] \in P} = {i \in 1..k : fr[i] \in P}
  BY <1>1
<1> QED
  BY <1>2 DEF UpTo

\* A push adds to the counts of the sets the new frame is in.
LEMMA PushedHits ==
  ASSUME NEW fr \in Seq(Frame), NEW x \in Frame, NEW P
  PROVE  Hits(Append(fr, x), P) = Hits(fr, P) + (IF x \in P THEN 1 ELSE 0)
<1> DEFINE gr == Append(fr, x)
           n == Len(fr)
<1>1. Len(gr) = n + 1 /\ gr[n + 1] = x /\ n \in Nat
  BY Pushed
<1>3. UpTo(gr, n, P) = UpTo(fr, n, P)
  BY <1>1, PushedUpTo
<1> HIDE DEF gr, n
<1>2. UpTo(gr, n + 1, P) = UpTo(gr, n, P) + (IF gr[n + 1] \in P THEN 1 ELSE 0)
  BY <1>1, UpToNext
<1> QED
  BY <1>1, <1>2, <1>3 DEF Hits, gr, n

\* What Front of a sequence that is not empty is.
LEMMA FrontProperties ==
  ASSUME NEW X, NEW s \in Seq(X), s # <<>>
  PROVE  /\ Front(s) \in Seq(X) /\ Len(Front(s)) = Len(s) - 1 /\ Len(Front(s)) \in Nat
         /\ \A i \in 1..Len(Front(s)) : Front(s)[i] = s[i]
<1>1. Len(s) \in Nat \ {0}
  BY EmptySeq
<1>2. PICK n \in Nat : n = Len(s) - 1
  BY <1>1
<1>3. \A i \in 1..n : s[i] \in X
  BY <1>2, ElementOfSeq
<1>4. /\ SubSeq(s, 1, n) \in Seq(X)
      /\ Len(SubSeq(s, 1, n)) = IF 1 <= n THEN n - 1 + 1 ELSE 0
      /\ \A i \in 1..(n - 1 + 1) : SubSeq(s, 1, n)[i] = s[1 + i - 1]
  BY <1>3, SubSeqProperties
<1>5. Front(s) = SubSeq(s, 1, n)
  BY <1>2 DEF Front
<1>6. Len(Front(s)) = n
  BY <1>4, <1>5
<1>7. \A i \in 1..n : 1 + i - 1 = i /\ i \in 1..(n - 1 + 1)
  OBVIOUS
<1> QED
  BY <1>2, <1>4, <1>5, <1>6, <1>7

\* The frames are those below the innermost one and that one.
LEMMA Popped ==
  ASSUME NEW fr \in Seq(Frame), fr # <<>>
  PROVE  \E gr \in Seq(Frame), x \in Frame :
           fr = Append(gr, x) /\ gr = Front(fr) /\ x = Last(fr)
<1>1. Len(fr) \in Nat \ {0} /\ fr[Len(fr)] \in Frame
  BY EmptySeq, ElementOfSeq
<1>2. /\ Front(fr) \in Seq(Frame) /\ Len(Front(fr)) = Len(fr) - 1
      /\ \A i \in 1..Len(Front(fr)) : Front(fr)[i] = fr[i]
  BY FrontProperties
<1>3. Last(fr) = fr[Len(fr)]
  BY DEF Last
<1>4. /\ Append(Front(fr), Last(fr)) \in Seq(Frame)
      /\ Len(Append(Front(fr), Last(fr))) = Len(Front(fr)) + 1
      /\ Append(Front(fr), Last(fr))[Len(Front(fr)) + 1] = Last(fr)
      /\ \A i \in 1..Len(Front(fr)) : Append(Front(fr), Last(fr))[i] = Front(fr)[i]
  BY <1>1, <1>2, <1>3, Pushed
<1>5. Len(Append(Front(fr), Last(fr))) = Len(fr)
  BY <1>1, <1>2, <1>4
<1>6. \A i \in 1..Len(fr) : Append(Front(fr), Last(fr))[i] = fr[i]
  BY <1>1, <1>2, <1>3, <1>4
<1>7. fr = Append(Front(fr), Last(fr))
  BY <1>4, <1>5, <1>6, SeqEqual
<1> QED
  BY <1>1, <1>2, <1>3, <1>7

-----------------------------------------------------------------------------
\* A frame that fits may be pushed, and popped again.
LEMMA PushFrames ==
  ASSUME NEW fr \in Seq(Frame), NEW x \in Frame
  PROVE  FramesFit(Append(fr, x)) <=>
           /\ FramesFit(fr) /\ Fits(x)
           /\ x.kind = "item" => ItemFits(Append(fr, x), Len(fr) + 1)
<1>1. PICK n \in Nat : n = Len(fr)
  OBVIOUS
<1>2. PICK gr : gr = Append(fr, x)
  OBVIOUS
<1>3. Len(gr) = n + 1 /\ gr[n + 1] = x /\ \A i \in 1..n : gr[i] = fr[i]
  BY <1>1, <1>2, Pushed
<1>4. ASSUME NEW i \in 1..n
      PROVE  /\ Fits(gr[i]) <=> Fits(fr[i]) 
             /\ gr[i].kind = fr[i].kind
             /\ ItemFits(gr, i) <=> ItemFits(fr, i)
  <2>1. \A j \in 1..i : gr[j] = fr[j]
    BY <1>3
  <2>2. i > 1 => i - 1 \in 1..i
    OBVIOUS
  <2>3. i \in 1..i /\ \A j \in 1..(i - 1) : j \in 1..i
    OBVIOUS
  <2> QED
    BY <2>1, <2>2, <2>3 DEF ItemFits
<1>5. 1..(n + 1) = 1..n \cup {n + 1}
  BY <1>1
<1> QED
  BY <1>1, <1>2, <1>3, <1>4, <1>5 DEF FramesFit

\* What an action saved, from the definition of ItemFits.
LEMMA SavedByItem ==
  ASSUME NEW gr, NEW m \in Nat, ItemFits(gr, m)
  PROVE  gr[m].saved <=> \E j \in 1..(m - 1) : gr[j].kind = "item"
BY DEF ItemFits

\* Where an action is, from the definition of ItemFits.
LEMMA AfterMenu ==
  ASSUME NEW gr, NEW m \in Nat, ItemFits(gr, m)
  PROVE  m > 1 /\ gr[m - 1].kind \in {"menu", "closed menu"}
BY DEF ItemFits

\* The flags match the frames before a frame is pushed exactly if they do
\* after it, when the flags it sets are set with it.
LEMMA PushFlags ==
  ASSUME NEW fr \in Seq(Frame), NEW x \in Frame, NEW fl, NEW gl, 
         gl.depth = fl.depth + (IF x.kind = "function" THEN 1 ELSE 0),
         fl.depth \in Nat,
         gl.function <=> gl.depth > 0, fl.function <=> fl.depth > 0,
         gl.menu <=> fl.menu \/ x.kind = "item",
         x.kind = "item" => ItemFits(Append(fr, x), Len(fr) + 1) /\ (x.saved <=> fl.menu)
  PROVE  FlagsFit(fl, fr) <=> FlagsFit(gl, Append(fr, x))
<1>1. PICK n \in Nat : n = Len(fr)
  OBVIOUS
<1>2. PICK gr : gr = Append(fr, x)
  OBVIOUS
<1>3. Len(gr) = n + 1 /\ gr[n + 1] = x /\ \A i \in 1..n : gr[i] = fr[i]
  BY <1>1, <1>2, Pushed
<1>4. Hits(gr, OfKind("function"))
        = Hits(fr, OfKind("function")) + (IF x.kind = "function" THEN 1 ELSE 0)
  BY <1>2, PushedHits DEF OfKind
<1>5. (\E j \in 1..(n + 1) : gr[j].kind = "item")
        <=> (\E j \in 1..n : fr[j].kind = "item") \/ x.kind = "item"
  BY <1>3
<1>6. x.kind = "item" => (fl.menu <=> \E j \in 1..n : fr[j].kind = "item")
  <2>1. \A j \in 1..n : gr[j] = fr[j]
    BY <1>3
  <2>2. PICK m \in Nat : m = n + 1
    BY <1>1
  <2>3. 1..(m - 1) = 1..n
    BY <1>1, <2>2
  <2>4. x.kind = "item" => ItemFits(gr, m)
    BY <1>1, <1>2, <2>2
  <2>5. x.kind = "item" => (gr[m].saved <=> \E j \in 1..(m - 1) : gr[j].kind = "item")
    BY <2>4, SavedByItem
  <2>6. gr[m] = x
    BY <1>3, <2>2
  <2> QED
    BY <2>1, <2>3, <2>5, <2>6
<1>7. (gl.menu <=> \E j \in 1..(n + 1) : gr[j].kind = "item")
        <=> (fl.menu <=> \E j \in 1..n : fr[j].kind = "item")
  BY <1>5, <1>6
<1>8. (gl.depth = Hits(gr, OfKind("function"))) <=> (fl.depth = Hits(fr, OfKind("function")))
  BY <1>4, HitsNat
<1> QED
  BY <1>1, <1>2, <1>3, <1>7, <1>8 DEF FlagsFit

\* So with the uses of the functions.
LEMMA PushUses ==
  ASSUME NEW fr \in Seq(Frame), NEW x \in Frame, NEW us, NEW ws, 
         DOMAIN ws = DOMAIN us, Fits(x),
         x.kind = "function" => x.func \in DOMAIN us,
         \A f \in DOMAIN us : us[f] \in Nat,
         \A f \in DOMAIN us : ws[f] = us[f] + (IF x.func = f THEN 1 ELSE 0)
  PROVE  UsesFit(us, fr) <=> UsesFit(ws, Append(fr, x))
<1>1. PICK n \in Nat : n = Len(fr)
  OBVIOUS
<1>2. PICK gr : gr = Append(fr, x)
  OBVIOUS
<1>3. Len(gr) = n + 1 /\ gr[n + 1] = x /\ \A i \in 1..n : gr[i] = fr[i]
  BY <1>1, <1>2, Pushed
<1>4. \A f : Hits(gr, Running(f)) = Hits(fr, Running(f)) + (IF x.func = f THEN 1 ELSE 0)
  BY <1>2, PushedHits DEF Running
<1>5. \A f \in DOMAIN us : (ws[f] = Hits(gr, Running(f))) <=> (us[f] = Hits(fr, Running(f)))
  BY <1>4, HitsNat
<1>6. 1..(n + 1) = 1..n \cup {n + 1}
  OBVIOUS
<1>7. (\A i \in 1..(n + 1) : gr[i].kind = "function" => gr[i].func \in DOMAIN ws)
       <=> (\A i \in 1..n : fr[i].kind = "function" => fr[i].func \in DOMAIN us)
  BY <1>3, <1>6
<1> QED
  BY <1>1, <1>2, <1>3, <1>5, <1>7 DEF UsesFit

\* The grabs match after a push that counted the grab of the new frame.
LEMMA PushGrabs ==
  ASSUME NEW fr \in Seq(Frame), NEW x \in Frame, NEW g, NEW h, GrabsFit(g, fr),
         g.normal \in Nat, h.normal \in Nat,
         h.menu = g.menu + (IF x.kind = "menu" THEN 1 ELSE 0),
         h.passive = g.passive + (IF x.kind = "click" THEN 1 ELSE 0),
         h.normal + (IF x \in Regrabbing THEN 1 ELSE 0)
           <= g.normal + (IF x.kind = "function" THEN 1 ELSE 0)
  PROVE  GrabsFit(h, Append(fr, x))
<1>1. PICK n \in Nat : n = Len(fr)
  OBVIOUS
<1>2. PICK gr : gr = Append(fr, x)
  OBVIOUS
<1>3. Len(gr) = n + 1 /\ gr \in Seq(Frame)
  BY <1>1, <1>2, Pushed
<1>4. \A k : Hits(gr, OfKind(k)) = Hits(fr, OfKind(k)) + (IF x.kind = k THEN 1 ELSE 0)
  BY <1>2, PushedHits DEF OfKind
<1>5. Hits(gr, Regrabbing) = Hits(fr, Regrabbing) + (IF x \in Regrabbing THEN 1 ELSE 0)
  BY <1>2, PushedHits
<1>6. /\ Hits(fr, Regrabbing) \in Nat /\ Hits(fr, OfKind("function")) \in Nat
      /\ Hits(gr, Regrabbing) \in Nat /\ Hits(gr, OfKind("function")) \in Nat
  BY <1>3, HitsNat
<1>7. /\ h.normal + Hits(gr, Regrabbing) <= Hits(gr, OfKind("function"))
      /\ Hits(gr, Regrabbing) <= Hits(gr, OfKind("function"))
  BY <1>4, <1>5, <1>6 DEF GrabsFit
<1>8. ASSUME NEW k \in 0..(n + 1)
      PROVE  UpTo(gr, k, Regrabbing) <= UpTo(gr, k, OfKind("function"))
  <2>1. CASE k \in 0..n
    BY <1>1, <1>2, <2>1, PushedUpTo DEF GrabsFit
  <2>2. CASE k = n + 1
    BY <1>3, <1>7, <2>2 DEF Hits
  <2> QED
    BY <1>1, <2>1, <2>2
<1>9. h.menu = Hits(gr, OfKind("menu")) /\ h.passive = Hits(gr, OfKind("click"))
  BY <1>4 DEF GrabsFit
<1> QED
  BY <1>2, <1>3, <1>7, <1>8, <1>9 DEF GrabsFit

-----------------------------------------------------------------------------
\* The windows that frames of the kinds K keep.
Held(fr, K) == {fr[i].win : i \in {j \in 1..Len(fr) : fr[j].kind \in K}}

\* A push adds the window of the new frame.
LEMMA PushedHeld ==
  ASSUME NEW fr \in Seq(Frame), NEW x \in Frame, NEW K
  PROVE  Held(Append(fr, x), K) = Held(fr, K) \cup (IF x.kind \in K THEN {x.win} ELSE {})
<1>1. PICK n \in Nat : n = Len(fr)
  OBVIOUS
<1>2. PICK gr : gr = Append(fr, x)
  OBVIOUS
<1>3. Len(gr) = n + 1 /\ gr[n + 1] = x /\ \A i \in 1..n : gr[i] = fr[i]
  BY <1>1, <1>2, Pushed
<1>4. 1..(n + 1) = 1..n \cup {n + 1}
  OBVIOUS
<1>5. ASSUME NEW r
      PROVE  (\E i \in 1..(n + 1) : gr[i].kind \in K /\ gr[i].win = r)
               <=> (\E i \in 1..n : fr[i].kind \in K /\ fr[i].win = r)
                     \/ (x.kind \in K /\ x.win = r)
  BY <1>3, <1>4
<1> QED
  BY <1>1, <1>2, <1>3, <1>5 DEF Held

\* T has the same windows as S, and the same of them are being destroyed.
Quiet(S, T) ==
  /\ T.win = S.win /\ T.context = S.context /\ T.doomed = S.doomed
  /\ T.flags.scheduled <=> S.flags.scheduled
  /\ Held(T.frames, {"destroy"}) = Held(S.frames, {"destroy"})
  /\ Held(T.frames, {"put off"}) = Held(S.frames, {"put off"})

\* XFindContext finds the record of each window that is listed, and no
\* other but that of a window whose destroy_window has not returned.
Contexts(S) ==
  /\ \A r \in Recs : S.win[r].status = "listed" =>
       S.win[r].client \in Clients /\ S.context[S.win[r].client] = r
  /\ \A c \in Clients : S.context[c] # None =>
       /\ S.win[S.context[c]].client = c
       /\ \/ S.win[S.context[c]].status = "listed"
          \/ S.context[c] \in Held(S.frames, {"destroy"})

\* The windows of a queue.
Pending(q) == {q[i] : i \in 1..Len(q)}

\* A window that is scheduled is queued or kept by a destroy_window that
\* has yet to queue or to free it; those of D are about to be freed; and
\* is_window_scheduled_for_destroy is set while anything is queued.
Owed(S, D) ==
  /\ \A r \in Recs : S.win[r].status = "scheduled" =>
       \/ r \in D \cup Pending(S.doomed)
       \/ r \in Held(S.frames, {"destroy"}) \cup Held(S.frames, {"put off"})
  /\ S.doomed # <<>> \/ Held(S.frames, {"put off"}) # {} => S.flags.scheduled

\* The inductive invariant.
Good(S) == Kept(S) /\ Contexts(S) /\ Owed(S, {})

\* Contexts and Owed depend on nothing else.
LEMMA QuietGood ==
  ASSUME NEW S, NEW T, NEW D, Quiet(S, T), Contexts(S), Owed(S, D)
  PROVE  Contexts(T) /\ Owed(T, D)
<1>1. Contexts(T)
  BY DEF Contexts, Quiet
<1>2. Owed(T, D)
  BY DEF Owed, Quiet
<1> QED
  BY <1>1, <1>2

\* T is S with one more frame, and nothing else changed.
Entered(S, T, kind, r, f, todo, saved) ==
  \E x \in Frame :
    /\ x.kind = kind /\ x.win = r /\ x.func = f /\ x.todo = todo /\ x.saved = saved
    /\ T \in States /\ T.frames = Append(S.frames, x)
    /\ T.win = S.win /\ T.context = S.context /\ T.doomed = S.doomed
    /\ T.flags = S.flags /\ T.uses = S.uses /\ T.grab = S.grab

\* Enter pushes a frame and changes nothing else.
LEMMA EnterFields ==
  ASSUME NEW S \in States, NEW kind \in Kinds, NEW r \in Recs \cup {None},
         NEW f \in Functions \cup {None}, NEW todo \in SUBSET Recs, NEW saved \in BOOLEAN,
         NEW T, T = Enter(S, kind, r, f, todo, saved)
  PROVE  Entered(S, T, kind, r, f, todo, saved)
<1> DEFINE x == [kind |-> kind, win |-> r, func |-> f, todo |-> todo, saved |-> saved]
<1>1. x \in Frame
  BY DEF Frame
<1>2. T \in States
  BY EnterType
<1>3. x.kind = kind /\ x.win = r /\ x.func = f /\ x.todo = todo /\ x.saved = saved
  OBVIOUS
<1>4. T = [S EXCEPT !.frames = Append(S.frames, x)]
  BY DEF Enter, States
<1> HIDE DEF x
<1>5. /\ T.frames = Append(S.frames, x)
      /\ T.win = S.win /\ T.context = S.context /\ T.doomed = S.doomed
      /\ T.flags = S.flags /\ T.uses = S.uses /\ T.grab = S.grab
  BY <1>4 DEF States
<1> QED
  BY <1>1, <1>2, <1>3, <1>5 DEF Entered

\* A frame that takes nothing: no function, item, menu or click, no grab to regain.
Plain(x) ==
  Fits(x) /\ x.kind \in {"closed menu", "all", "wait", "put off", "destroy"}

\* A plain frame may be pushed while nothing else changes.
LEMMA PushPlain ==
  ASSUME NEW S \in States, Kept(S), NEW x \in Frame, Plain(x), x \notin Regrabbing,
         NEW T \in States, T.frames = Append(S.frames, x),
         T.flags.depth = S.flags.depth,
         T.flags.function <=> S.flags.function, T.flags.menu <=> S.flags.menu,
         T.uses = S.uses, T.grab = S.grab
  PROVE  Kept(T)
<1>0. /\ S.frames \in Seq(Frame) /\ S.flags.depth \in Nat /\ S.grab.normal \in Nat
      /\ S.grab.menu \in Nat /\ S.grab.passive \in Nat /\ S.uses \in Uses
  BY DEF States, Flags, Grabs
<1>k. /\ x.kind # "function" /\ x.kind # "item" /\ x.kind # "menu" /\ x.kind # "click"
      /\ Fits(x)
  BY DEF Plain
<1>f. /\ FramesFit(S.frames) /\ FlagsFit(S.flags, S.frames) /\ UsesFit(S.uses, S.frames)
      /\ GrabsFit(S.grab, S.frames) /\ PointerFits(S.grab)
  BY DEF Kept
<1>1. FramesFit(T.frames)
  BY <1>0, <1>k, <1>f, PushFrames
<1>2. FlagsFit(T.flags, T.frames)
  <2>1. (S.flags.function <=> S.flags.depth > 0) /\ (T.flags.function <=> T.flags.depth > 0)
    BY <1>f DEF FlagsFit
  <2>2. T.flags.depth = S.flags.depth + (IF x.kind = "function" THEN 1 ELSE 0)
    BY <1>0, <1>k
  <2>3. T.flags.menu <=> S.flags.menu \/ x.kind = "item"
    BY <1>k
  <2>4. FlagsFit(S.flags, S.frames) <=> FlagsFit(T.flags, Append(S.frames, x))
    BY <1>0, <1>k, <2>1, <2>2, <2>3, PushFlags
  <2> QED
    BY <1>f, <2>4
<1>3. UsesFit(T.uses, T.frames)
  <2>2. x.func = None
    BY <1>k DEF Fits
  <2>3. \A f \in DOMAIN S.uses : f # None /\ S.uses[f] \in Nat
    BY <1>0, WindowUseAssumption DEF Uses
  <2>4. \A f \in DOMAIN S.uses : S.uses[f] = S.uses[f] + (IF x.func = f THEN 1 ELSE 0)
    BY <2>2, <2>3
  <2>5. UsesFit(S.uses, S.frames) <=> UsesFit(S.uses, Append(S.frames, x))
    BY <1>0, <1>k, <2>3, <2>4, PushUses
  <2> QED
    BY <1>f, <2>5
<1>4. GrabsFit(T.grab, T.frames)
  BY <1>0, <1>k, <1>f, PushGrabs
<1> QED
  BY <1>1, <1>2, <1>3, <1>4, <1>f DEF Kept

-----------------------------------------------------------------------------
\* What destroy_window leaves alone.
Others(S, T) == T.doomed = S.doomed /\ T.uses = S.uses /\ T.grab = S.grab

\* The flags that tell what executes are the same.
FlagsButScheduled(S, T) ==
  /\ T.flags.depth = S.flags.depth
  /\ T.flags.function <=> S.flags.function
  /\ T.flags.menu <=> S.flags.menu

\* The record of r, and no other, changed: its status, and n announcements.
Changed(S, T, r, status, n) ==
  /\ T.win[r].status = status /\ T.win[r].client = S.win[r].client
  /\ T.win[r].told = S.win[r].told + n
  /\ \A q \in Recs : q # r => T.win[q] = S.win[q]

\* The context of r is deleted.
Deleted(S, T, r) ==
  \A c \in Clients : T.context[c] = IF S.context[c] = r THEN None ELSE S.context[c]

\* A record may be given any status and any count of announcements.
LEMMA RecordFields ==
  ASSUME NEW w \in [Recs -> WinRec], NEW r \in Recs, NEW n \in Nat,
         NEW status \in {"none", "listed", "scheduled", "freed"}
  PROVE  /\ [w EXCEPT ![r].status = status, ![r].told = n] \in [Recs -> WinRec]
         /\ [w EXCEPT ![r].status = status] \in [Recs -> WinRec]
<1>1. [w[r] EXCEPT !.status = status, !.told = n] \in WinRec
  BY DEF WinRec
<1>2. [w[r] EXCEPT !.status = status] \in WinRec
  BY DEF WinRec
<1>3. [w EXCEPT ![r] = [w[r] EXCEPT !.status = status, !.told = n]] \in [Recs -> WinRec]
  BY <1>1
<1>4. [w EXCEPT ![r] = [w[r] EXCEPT !.status = status]] \in [Recs -> WinRec]
  BY <1>2
<1>5. [w EXCEPT ![r].status = status, ![r].told = n]
        = [w EXCEPT ![r] = [w[r] EXCEPT !.status = status, !.told = n]]
  OBVIOUS
<1> QED
  BY <1>3, <1>4, <1>5

\* The broadcast of M_DESTROY_WINDOW for r.
LEMMA AnnounceFields ==
  ASSUME NEW S \in States, NEW r \in Recs, NEW T, T = Announce(S, r)
  PROVE  /\ T \in States /\ Changed(S, T, r, "scheduled", 1)
         /\ T.context = S.context /\ T.flags = S.flags /\ T.frames = S.frames
         /\ Others(S, T)
<1>1. S.win \in [Recs -> WinRec] /\ S.win[r].told \in Nat
  BY DEF States, WinRec
<1>2. PICK n \in Nat : n = S.win[r].told + 1
  BY <1>1
<1> DEFINE w == [S.win EXCEPT ![r].status = "scheduled", ![r].told = n]
<1>3. w \in [Recs -> WinRec]
  BY <1>1, RecordFields
<1>4. T = [S EXCEPT !.win = w]
  BY <1>1, <1>2 DEF Announce, States
<1>5. /\ w[r].status = "scheduled" /\ w[r].client = S.win[r].client /\ w[r].told = n
      /\ \A q \in Recs : q # r => w[q] = S.win[q]
  BY <1>1 DEF WinRec
<1> HIDE DEF w
<1>6. /\ T \in States /\ T.win = w /\ T.context = S.context /\ T.flags = S.flags
      /\ T.frames = S.frames /\ T.doomed = S.doomed /\ T.uses = S.uses /\ T.grab = S.grab
  BY <1>3, <1>4 DEF States
<1> QED
  BY <1>2, <1>5, <1>6 DEF Changed, Others

\* XDeleteContext of the client of r.
LEMMA DeleteFields ==
  ASSUME NEW S \in States, NEW r \in Recs, NEW T, T = DeleteClientContext(S, r)
  PROVE  /\ T \in States /\ Deleted(S, T, r)
         /\ T.win = S.win /\ T.flags = S.flags /\ T.frames = S.frames
         /\ Others(S, T)
<1> DEFINE w == [c \in Clients |-> IF S.context[c] = r THEN None ELSE S.context[c]]
<1>1. w \in [Clients -> Recs \cup {None}]
  BY DEF States
<1>2. T = [S EXCEPT !.context = w]
  BY DEF DeleteClientContext, States
<1>3. \A c \in Clients : w[c] = IF S.context[c] = r THEN None ELSE S.context[c]
  OBVIOUS
<1> HIDE DEF w
<1>4. /\ T \in States /\ T.context = w /\ T.win = S.win /\ T.flags = S.flags
      /\ T.frames = S.frames /\ T.doomed = S.doomed /\ T.uses = S.uses /\ T.grab = S.grab
  BY <1>1, <1>2 DEF States
<1> QED
  BY <1>3, <1>4 DEF Deleted, Others

\* destroy_auxiliary_windows and free.
LEMMA FreeFields ==
  ASSUME NEW S \in States, NEW r \in Recs, NEW T, T = FreeWindow(S, r)
  PROVE  /\ T \in States /\ Deleted(S, T, r) /\ Changed(S, T, r, "freed", 0)
         /\ T.flags = S.flags /\ T.frames = S.frames
         /\ Others(S, T)
<1>1. PICK D : D = DeleteClientContext(S, r)
  OBVIOUS
<1>2. /\ D \in States /\ Deleted(S, D, r)
      /\ D.win = S.win /\ D.flags = S.flags /\ D.frames = S.frames
      /\ Others(S, D)
  BY <1>1, DeleteFields
<1> DEFINE w == [S.win EXCEPT ![r].status = "freed"]
<1>3. S.win \in [Recs -> WinRec] /\ S.win[r].told \in Nat
  BY DEF States, WinRec
<1>4. w \in [Recs -> WinRec]
  BY <1>3, RecordFields
<1>5. T = [D EXCEPT !.win = w]
  BY <1>1, <1>2 DEF FreeWindow, States
<1>6. /\ w[r].status = "freed" /\ w[r].client = S.win[r].client
      /\ w[r].told = S.win[r].told + 0
      /\ \A q \in Recs : q # r => w[q] = S.win[q]
  BY <1>3 DEF WinRec
<1> HIDE DEF w
<1>7. /\ T \in States /\ T.win = w /\ T.context = D.context /\ T.flags = D.flags
      /\ T.frames = D.frames /\ T.doomed = D.doomed /\ T.uses = D.uses /\ T.grab = D.grab
  BY <1>2, <1>4, <1>5 DEF States
<1>8. Changed(S, T, r, "freed", 0)
  BY <1>6, <1>7 DEF Changed
<1> QED
  BY <1>2, <1>7, <1>8 DEF Deleted, Others

\* is_window_scheduled_for_destroy changes nothing else.
LEMMA ScheduleFlag ==
  ASSUME NEW S \in States, NEW T, NEW b \in BOOLEAN, T = [S EXCEPT !.flags.scheduled = b]
  PROVE  /\ T \in States /\ T.flags.scheduled = b /\ FlagsButScheduled(S, T)
         /\ T.win = S.win /\ T.context = S.context /\ T.frames = S.frames
         /\ Others(S, T)
<1> DEFINE fl == [S.flags EXCEPT !.scheduled = b]
<1>1. /\ fl \in Flags /\ fl.scheduled = b /\ fl.depth = S.flags.depth
      /\ fl.function = S.flags.function /\ fl.menu = S.flags.menu
  BY DEF States, Flags
<1>2. T = [S EXCEPT !.flags = fl]
  BY DEF States, Flags
<1> HIDE DEF fl
<1>3. /\ T \in States /\ T.flags = fl /\ T.win = S.win /\ T.context = S.context
      /\ T.frames = S.frames /\ T.doomed = S.doomed /\ T.uses = S.uses /\ T.grab = S.grab
  BY <1>1, <1>2 DEF States
<1> QED
  BY <1>1, <1>3 DEF FlagsButScheduled, Others

\* destroy_window may not free a record now.
Executing(S) == S.flags.function \/ S.flags.menu

\* The three things destroy_window does to a window: it is put off, its
\* destruction begins, or it is freed.
PutOff(S, T, r) ==
  /\ Changed(S, T, r, "scheduled", 1) /\ Deleted(S, T, r)
  /\ FlagsButScheduled(S, T) /\ T.flags.scheduled

Destroys(S, T, r) ==
  /\ Changed(S, T, r, "scheduled", 1) /\ T.context = S.context /\ T.flags = S.flags

Frees(S, T, r) ==
  /\ Changed(S, T, r, "freed", 0) /\ Deleted(S, T, r)
  /\ T.flags = S.flags /\ T.frames = S.frames

\* destroy_window is in its broadcast for r.
Begins(S, T, kind, r) ==
  \E x \in Frame : /\ T.frames = Append(S.frames, x) /\ Plain(x) /\ x \notin Regrabbing
                   /\ x.kind = kind /\ x.win = r

\* What destroy_window may make of S.
Outcome(S, T, r) ==
  \/ Executing(S) /\ S.win[r].status = "scheduled" /\ T = S
  \/ /\ Executing(S) /\ S.win[r].status # "scheduled"
     /\ PutOff(S, T, r) /\ Begins(S, T, "put off", r) /\ Others(S, T)
  \/ /\ ~Executing(S) /\ S.win[r].status = "scheduled"
     /\ Frees(S, T, r) /\ Others(S, T)
  \/ /\ ~Executing(S) /\ S.win[r].status # "scheduled"
     /\ Destroys(S, T, r) /\ Begins(S, T, "destroy", r) /\ Others(S, T)

\* destroy_window does one of the four.
LEMMA DestroyCases ==
  ASSUME NEW S \in States, NEW r \in Recs, NEW T, T = DestroyWindow(S, r)
  PROVE  T \in States /\ Outcome(S, T, r)
<1>0. r \in Recs \cup {None} /\ r # None
  BY WindowUseAssumption
<1>1. CASE Executing(S) /\ S.win[r].status = "scheduled"
  <2>1. T = S
    BY <1>1 DEF DestroyWindow, Executing
  <2> QED
    BY <1>1, <2>1 DEF Outcome
<1>2. CASE Executing(S) /\ S.win[r].status # "scheduled"
  <2>1. PICK A : A = Announce(S, r)
    OBVIOUS
  <2>2. PICK B : B = [A EXCEPT !.flags.scheduled = TRUE]
    OBVIOUS
  <2>3. PICK C : C = DeleteClientContext(B, r)
    OBVIOUS
  <2>4. T = Enter(C, "put off", r, None, {}, FALSE)
    BY <1>2, <2>1, <2>2, <2>3 DEF DestroyWindow, Executing
  <2>5. /\ A \in States /\ Changed(S, A, r, "scheduled", 1)
        /\ A.context = S.context /\ A.flags = S.flags /\ A.frames = S.frames /\ Others(S, A)
    BY <2>1, AnnounceFields
  <2>6. /\ B \in States /\ B.flags.scheduled = TRUE /\ FlagsButScheduled(A, B)
        /\ B.win = A.win /\ B.context = A.context /\ B.frames = A.frames /\ Others(A, B)
    BY <2>2, <2>5, ScheduleFlag
  <2>7. /\ C \in States /\ Deleted(B, C, r)
        /\ C.win = B.win /\ C.flags = B.flags /\ C.frames = B.frames /\ Others(B, C)
    BY <2>3, <2>6, DeleteFields
  <2>8. "put off" \in Kinds /\ None \in Functions \cup {None} /\ {} \in SUBSET Recs /\ FALSE \in BOOLEAN
    BY DEF Kinds
  <2>E. Entered(C, T, "put off", r, None, {}, FALSE)
    BY <1>0, <2>4, <2>7, <2>8, EnterFields
  <2>9. PICK x \in Frame :
          /\ x.kind = "put off" /\ x.win = r /\ x.func = None /\ x.todo = {} /\ x.saved = FALSE
          /\ T \in States /\ T.frames = Append(C.frames, x)
          /\ T.win = C.win /\ T.context = C.context /\ T.doomed = C.doomed
          /\ T.flags = C.flags /\ T.uses = C.uses /\ T.grab = C.grab
    BY <2>E DEF Entered
  <2>10. Begins(S, T, "put off", r)
    BY <1>0, <2>5, <2>6, <2>7, <2>9 DEF Begins, Plain, Fits, Regrabbing
  <2>a. /\ T.win = A.win /\ B.context = S.context /\ T.context = C.context
        /\ T.flags = B.flags /\ A.flags = S.flags
    BY <2>5, <2>6, <2>7, <2>9
  <2>11. Changed(S, T, r, "scheduled", 1)
    BY <2>5, <2>a DEF Changed
  <2>b. Deleted(S, T, r)
    BY <2>7, <2>a DEF Deleted
  <2>12. PutOff(S, T, r)
    BY <2>6, <2>11, <2>a, <2>b DEF PutOff, FlagsButScheduled
  <2>13. Others(S, T)
    BY <2>5, <2>6, <2>7, <2>9 DEF Others
  <2> QED
    BY <1>2, <2>9, <2>10, <2>12, <2>13 DEF Outcome
<1>3. CASE ~Executing(S) /\ S.win[r].status = "scheduled"
  <2>1. T = FreeWindow(S, r)
    BY <1>3 DEF DestroyWindow, Executing
  <2> QED
    BY <1>3, <2>1, FreeFields DEF Frees, Outcome
<1>4. CASE ~Executing(S) /\ S.win[r].status # "scheduled"
  <2>1. PICK A : A = Announce(S, r)
    OBVIOUS
  <2>4. T = Enter(A, "destroy", r, None, {}, FALSE)
    BY <1>4, <2>1 DEF DestroyWindow, Executing
  <2>5. /\ A \in States /\ Changed(S, A, r, "scheduled", 1)
        /\ A.context = S.context /\ A.flags = S.flags /\ A.frames = S.frames /\ Others(S, A)
    BY <2>1, AnnounceFields
  <2>8. "destroy" \in Kinds /\ None \in Functions \cup {None} /\ {} \in SUBSET Recs /\ FALSE \in BOOLEAN
    BY DEF Kinds
  <2>E. Entered(A, T, "destroy", r, None, {}, FALSE)
    BY <1>0, <2>4, <2>5, <2>8, EnterFields
  <2>9. PICK x \in Frame :
          /\ x.kind = "destroy" /\ x.win = r /\ x.func = None /\ x.todo = {} /\ x.saved = FALSE
          /\ T \in States /\ T.frames = Append(A.frames, x)
          /\ T.win = A.win /\ T.context = A.context /\ T.doomed = A.doomed
          /\ T.flags = A.flags /\ T.uses = A.uses /\ T.grab = A.grab
    BY <2>E DEF Entered
  <2>10. Begins(S, T, "destroy", r)
    BY <1>0, <2>5, <2>9 DEF Begins, Plain, Fits, Regrabbing
  <2>11. Changed(S, T, r, "scheduled", 1)
    BY <2>5, <2>9 DEF Changed
  <2>12. Destroys(S, T, r)
    BY <2>5, <2>9, <2>11 DEF Destroys
  <2>13. Others(S, T)
    BY <2>5, <2>9 DEF Others
  <2> QED
    BY <1>4, <2>9, <2>10, <2>12, <2>13 DEF Outcome
<1> QED
  BY <1>1, <1>2, <1>3, <1>4 DEF Outcome

\* destroy_window keeps the state matched to the frames.
LEMMA DestroyKept ==
  ASSUME NEW S \in States, Kept(S), NEW r \in Recs, NEW T, T = DestroyWindow(S, r)
  PROVE  Kept(T)
<1>0. T \in States
  BY DestroyCases DEF Outcome
<1>1. CASE T = S
  BY <1>1
<1>2. ASSUME FlagsButScheduled(S, T), Others(S, T), NEW kind, Begins(S, T, kind, r)
      PROVE  Kept(T)
  <2>1. PICK x \in Frame : T.frames = Append(S.frames, x) /\ Plain(x) /\ x \notin Regrabbing
    BY <1>2 DEF Begins
  <2> QED
    BY <1>0, <1>2, <2>1, PushPlain DEF FlagsButScheduled, Others
<1>3. CASE Frees(S, T, r) /\ Others(S, T)
  BY <1>0, <1>3 DEF Frees, Others, Kept
<1>4. Destroys(S, T, r) => FlagsButScheduled(S, T)
  BY DEF Destroys, FlagsButScheduled
<1>5. PutOff(S, T, r) => FlagsButScheduled(S, T)
  BY DEF PutOff
<1> QED
  BY <1>1, <1>2, <1>3, <1>4, <1>5, DestroyCases DEF Outcome

\* Its broadcast for r keeps r.
LEMMA BeginsHeld ==
  ASSUME NEW S \in States, NEW T, NEW kind, NEW r, Begins(S, T, kind, r), NEW k
  PROVE  /\ k = kind => Held(T.frames, {k}) = Held(S.frames, {k}) \cup {r}
         /\ k # kind => Held(T.frames, {k}) = Held(S.frames, {k})
<1>1. PICK x \in Frame : T.frames = Append(S.frames, x) /\ x.kind = kind /\ x.win = r
  BY DEF Begins
<1>2. S.frames \in Seq(Frame)
  BY DEF States
<1>3. Held(T.frames, {k}) = Held(S.frames, {k}) \cup (IF x.kind \in {k} THEN {x.win} ELSE {})
  BY <1>1, <1>2, PushedHeld
<1>4. x.kind \in {k} <=> k = kind
  BY <1>1
<1> QED
  BY <1>1, <1>3, <1>4

\* The same for the two kinds of frames.
LEMMA OneMoreHeld ==
  ASSUME NEW S \in States, NEW T, NEW r
  PROVE  /\ Begins(S, T, "put off", r) =>
              /\ Held(T.frames, {"put off"}) = Held(S.frames, {"put off"}) \cup {r}
              /\ Held(T.frames, {"destroy"}) = Held(S.frames, {"destroy"})
         /\ Begins(S, T, "destroy", r) =>
              /\ Held(T.frames, {"destroy"}) = Held(S.frames, {"destroy"}) \cup {r}
              /\ Held(T.frames, {"put off"}) = Held(S.frames, {"put off"})
<1>1. ASSUME NEW kind, NEW k, Begins(S, T, kind, r)
      PROVE  /\ Held(T.frames, {kind}) = Held(S.frames, {kind}) \cup {r}
             /\ k # kind => Held(T.frames, {k}) = Held(S.frames, {k})
  BY <1>1, BeginsHeld
<1>2. "put off" # "destroy"
  OBVIOUS
<1> QED
  BY <1>1, <1>2

\* destroy_window leaves no context to a window that it puts off or frees.
LEMMA DestroyContexts ==
  ASSUME NEW S \in States, Contexts(S), NEW r \in Recs, NEW T, T = DestroyWindow(S, r)
  PROVE  Contexts(T)
<1>0. S.context \in [Clients -> Recs \cup {None}] /\ None \notin Recs /\ None \notin Clients
  BY WindowUseAssumption DEF States
<1>1. CASE T = S
  BY <1>1
<1>2. CASE PutOff(S, T, r) /\ Begins(S, T, "put off", r)
  <2>1. Held(T.frames, {"destroy"}) = Held(S.frames, {"destroy"})
    BY <1>2, OneMoreHeld
  <2>2. /\ T.win[r].status = "scheduled" /\ \A q \in Recs : q # r => T.win[q] = S.win[q]
        /\ \A c \in Clients : T.context[c] = IF S.context[c] = r THEN None ELSE S.context[c]
    BY <1>2 DEF PutOff, Changed, Deleted
  <2>3. ASSUME NEW q \in Recs, T.win[q].status = "listed"
        PROVE  T.win[q].client \in Clients /\ T.context[T.win[q].client] = q
    BY <1>0, <2>2, <2>3 DEF Contexts
  <2>4. ASSUME NEW c \in Clients, T.context[c] # None
        PROVE  T.context[c] = S.context[c] /\ T.win[S.context[c]] = S.win[S.context[c]]
    BY <1>0, <2>2, <2>4
  <2>5. ASSUME NEW c \in Clients, T.context[c] # None
        PROVE  /\ T.win[T.context[c]].client = c
               /\ \/ T.win[T.context[c]].status = "listed"
                  \/ T.context[c] \in Held(T.frames, {"destroy"})
    BY <2>1, <2>4, <2>5 DEF Contexts
  <2> QED
    BY <2>3, <2>5 DEF Contexts
<1>3. CASE Frees(S, T, r)
  BY <1>0, <1>3 DEF Contexts, Frees, Changed, Deleted
<1>4. CASE Destroys(S, T, r) /\ Begins(S, T, "destroy", r)
  <2>1. Held(T.frames, {"destroy"}) = Held(S.frames, {"destroy"}) \cup {r}
    BY <1>4, OneMoreHeld
  <2> QED
    BY <1>0, <1>4, <2>1 DEF Contexts, Destroys, Changed
<1> QED
  BY <1>1, <1>2, <1>3, <1>4, DestroyCases DEF Outcome

\* A window that it does not free is queued, or will be.
LEMMA DestroyOwed ==
  ASSUME NEW S \in States, NEW D, NEW E, Owed(S, D), NEW r \in Recs,
         NEW T, T = DestroyWindow(S, r),
         D \ {r} \subseteq E, Executing(S) => D \subseteq E
  PROVE  Owed(T, E)
<1>1. CASE Executing(S) /\ T = S
  BY <1>1 DEF Owed
<1>2. CASE PutOff(S, T, r) /\ Begins(S, T, "put off", r) /\ Others(S, T)
  <2>1. /\ Held(T.frames, {"destroy"}) = Held(S.frames, {"destroy"})
        /\ Held(T.frames, {"put off"}) = Held(S.frames, {"put off"}) \cup {r}
    BY <1>2, OneMoreHeld
  <2> QED
    BY <1>2, <2>1 DEF Owed, PutOff, Changed, Others
<1>3. CASE Frees(S, T, r) /\ Others(S, T)
  BY <1>3 DEF Owed, Frees, Changed, Others
<1>4. CASE Destroys(S, T, r) /\ Begins(S, T, "destroy", r) /\ Others(S, T)
  <2>1. /\ Held(T.frames, {"destroy"}) = Held(S.frames, {"destroy"}) \cup {r}
        /\ Held(T.frames, {"put off"}) = Held(S.frames, {"put off"})
    BY <1>4, OneMoreHeld
  <2> QED
    BY <1>4, <2>1 DEF Owed, Destroys, Changed, Others
<1> QED
  BY <1>1, <1>2, <1>3, <1>4, DestroyCases DEF Outcome

-----------------------------------------------------------------------------
\* The same windows, contexts and windows to destroy.
Same(S, T) ==
  /\ T.win = S.win /\ T.context = S.context /\ T.doomed = S.doomed
  /\ T.flags.scheduled <=> S.flags.scheduled

\* The uses of f changed by n, those of other functions did not.
UsesChanged(us, ws, f, n) ==
  /\ DOMAIN ws = DOMAIN us
  /\ \A g \in DOMAIN us : ws[g] = us[g] + (IF g = f THEN n ELSE 0)

\* use_depth of a function may be set to any count.
LEMMA UsesFields ==
  ASSUME NEW us \in Uses, NEW f \in DOMAIN us, NEW n \in Nat
  PROVE  /\ [us EXCEPT ![f] = n] \in Uses
         /\ DOMAIN us \subseteq Functions
         /\ DOMAIN [us EXCEPT ![f] = n] = DOMAIN us
         /\ \A g \in DOMAIN us :
              us[g] \in Nat /\ [us EXCEPT ![f] = n][g] = IF g = f THEN n ELSE us[g]
<1>1. PICK F \in SUBSET Functions : us \in [F -> Nat]
  BY DEF Uses
<1>2. [us EXCEPT ![f] = n] \in [F -> Nat]
  BY <1>1
<1> QED
  BY <1>1, <1>2 DEF Uses

\* What execute_complex_function sets on entry.
LEMMA BeginFields ==
  ASSUME NEW S \in States, NEW f \in DOMAIN S.uses, NEW T, T = BeginFunction(S, f)
  PROVE  /\ T \in States /\ Same(S, T) /\ T.grab = S.grab /\ T.frames = S.frames
         /\ T.flags.depth = S.flags.depth + 1 /\ T.flags.function
         /\ T.flags.menu = S.flags.menu
         /\ UsesChanged(S.uses, T.uses, f, 1)
<1>1. S.flags \in Flags /\ S.flags.depth \in Nat /\ S.uses \in Uses
  BY DEF States, Flags
<1>2. S.uses[f] \in Nat
  BY <1>1, UsesFields
<1>3. PICK n \in Nat : n = S.uses[f] + 1
  BY <1>2
<1>4. PICK d \in Nat : d = S.flags.depth + 1
  BY <1>1
<1>5. PICK us : us = [S.uses EXCEPT ![f] = n]
  OBVIOUS
<1>6. PICK fl : fl = [S.flags EXCEPT !.function = TRUE, !.depth = d]
  OBVIOUS
<1>7. /\ us \in Uses /\ DOMAIN us = DOMAIN S.uses
      /\ \A g \in DOMAIN us : S.uses[g] \in Nat /\ us[g] = IF g = f THEN n ELSE S.uses[g]
  BY <1>1, <1>5, UsesFields
<1>8. /\ fl \in Flags /\ fl.function = TRUE /\ fl.depth = d
      /\ fl.menu = S.flags.menu /\ fl.scheduled = S.flags.scheduled
  BY <1>1, <1>6 DEF Flags
<1>9. T = [S EXCEPT !.flags = fl, !.uses = us]
  BY <1>1, <1>3, <1>4, <1>5, <1>6 DEF BeginFunction, States, Flags
<1>10. /\ T \in States /\ T.flags = fl /\ T.uses = us
       /\ T.win = S.win /\ T.context = S.context /\ T.doomed = S.doomed
       /\ T.grab = S.grab /\ T.frames = S.frames
  <2>1. us \in Uses /\ fl \in Flags
    BY <1>7, <1>8
  <2> QED
    BY <2>1, <1>9 DEF States
<1>11. UsesChanged(S.uses, us, f, 1)
  BY <1>3, <1>7 DEF UsesChanged
<1> QED
  BY <1>4, <1>8, <1>10, <1>11 DEF Same

\* cf_cleanup and the end of a function, which take it back.
LEMMA EndFields ==
  ASSUME NEW S \in States, NEW f \in DOMAIN S.uses, NEW T, T = EndFunction(S, f),
         S.uses[f] # 0, S.flags.depth # 0
  PROVE  /\ T \in States /\ Same(S, T) /\ T.grab = S.grab /\ T.frames = S.frames
         /\ T.flags.depth = S.flags.depth - 1
         /\ T.flags.function <=> S.flags.function /\ S.flags.depth # 1
         /\ T.flags.menu = S.flags.menu
         /\ UsesChanged(S.uses, T.uses, f, -1)
<1>1. /\ S.flags \in Flags /\ S.flags.depth \in Nat /\ S.uses \in Uses
      /\ S.flags.function \in BOOLEAN
  BY DEF States, Flags
<1>2. S.uses[f] \in Nat
  BY <1>1, UsesFields
<1>3. PICK n \in Nat : n = S.uses[f] - 1
  BY <1>2
<1>4. PICK d \in Nat : d = S.flags.depth - 1
  BY <1>1
<1>a. PICK b \in BOOLEAN : b = (S.flags.function /\ S.flags.depth # 1)
  BY <1>1
<1>5. PICK us : us = [S.uses EXCEPT ![f] = n]
  OBVIOUS
<1>6. PICK fl : fl = [S.flags EXCEPT !.function = b, !.depth = d]
  OBVIOUS
<1>7. /\ us \in Uses /\ DOMAIN us = DOMAIN S.uses
      /\ \A g \in DOMAIN us : S.uses[g] \in Nat /\ us[g] = IF g = f THEN n ELSE S.uses[g]
  BY <1>1, <1>5, UsesFields
<1>8. /\ fl \in Flags /\ fl.function = b /\ fl.depth = d
      /\ fl.menu = S.flags.menu /\ fl.scheduled = S.flags.scheduled
  BY <1>1, <1>6 DEF Flags
<1>9. T = [S EXCEPT !.flags = fl, !.uses = us]
  BY <1>1, <1>3, <1>4, <1>5, <1>6, <1>a DEF EndFunction, CfCleanup, States, Flags
<1>10. /\ T \in States /\ T.flags = fl /\ T.uses = us
       /\ T.win = S.win /\ T.context = S.context /\ T.doomed = S.doomed
       /\ T.grab = S.grab /\ T.frames = S.frames
  <2>1. us \in Uses /\ fl \in Flags
    BY <1>7, <1>8
  <2> QED
    BY <2>1, <1>9 DEF States
<1>11. UsesChanged(S.uses, us, f, -1)
  BY <1>3, <1>7 DEF UsesChanged
<1> QED
  BY <1>4, <1>8, <1>10, <1>11, <1>a DEF Same

-----------------------------------------------------------------------------
\* What the frame x sets of the flags, the uses and the grabs.
FlagsMore(fl, gl, x) ==
  /\ gl.depth = fl.depth + (IF x.kind = "function" THEN 1 ELSE 0)
  /\ gl.function <=> gl.depth > 0
  /\ fl.function <=> fl.depth > 0
  /\ gl.menu <=> fl.menu \/ x.kind = "item"
  /\ x.kind = "item" => (x.saved <=> fl.menu)

\* use_depth of the function of x goes up.
UsesMore(us, ws, x) ==
  /\ DOMAIN ws = DOMAIN us
  /\ \A f \in DOMAIN us : ws[f] = us[f] + (IF x.func = f THEN 1 ELSE 0)

\* The grab of x is counted.
GrabsMore(g, h, x) ==
  /\ h.menu = g.menu + (IF x.kind = "menu" THEN 1 ELSE 0)
  /\ h.passive = g.passive + (IF x.kind = "click" THEN 1 ELSE 0)
  /\ h.normal + (IF x \in Regrabbing THEN 1 ELSE 0)
       <= g.normal + (IF x.kind = "function" THEN 1 ELSE 0)

\* What is left of the grabs when the frame x ends.
GrabsLess(h, g, x) ==
  /\ h.menu = g.menu + (IF x.kind = "menu" THEN 1 ELSE 0)
  /\ h.passive = g.passive + (IF x.kind = "click" THEN 1 ELSE 0)
  /\ \/ g.normal = 0
     \/ g.normal + (IF x.kind = "function" THEN 1 ELSE 0)
          <= h.normal + (IF x \in Regrabbing THEN 1 ELSE 0)

\* The types of the fields of a state.
LEMMA StateParts ==
  ASSUME NEW S \in States
  PROVE  /\ S.frames \in Seq(Frame) /\ S.flags.depth \in Nat
         /\ S.grab.normal \in Nat /\ S.grab.menu \in Nat /\ S.grab.passive \in Nat
         /\ S.grab.pointer \in BOOLEAN /\ S.flags.function \in BOOLEAN
         /\ S.flags.menu \in BOOLEAN /\ S.flags.scheduled \in BOOLEAN
         /\ \A f \in DOMAIN S.uses : f \in Functions /\ f # None /\ S.uses[f] \in Nat
BY WindowUseAssumption DEF States, Flags, Grabs, Uses

\* A frame may begin that sets the flags, uses and grabs it should.
LEMMA Grow ==
  ASSUME NEW S \in States, Kept(S), NEW x \in Frame, Fits(x),
         NEW T \in States, T.frames = Append(S.frames, x),
         x.kind = "item" => ItemFits(Append(S.frames, x), Len(S.frames) + 1),
         x.kind = "function" => x.func \in DOMAIN S.uses,
         FlagsMore(S.flags, T.flags, x), UsesMore(S.uses, T.uses, x),
         GrabsMore(S.grab, T.grab, x), PointerFits(T.grab)
  PROVE  Kept(T)
<1>0. /\ S.frames \in Seq(Frame) /\ S.flags.depth \in Nat
      /\ S.grab.normal \in Nat /\ T.grab.normal \in Nat
      /\ \A f \in DOMAIN S.uses : S.uses[f] \in Nat
  BY StateParts
<1>f. /\ FramesFit(S.frames) /\ FlagsFit(S.flags, S.frames) /\ UsesFit(S.uses, S.frames)
      /\ GrabsFit(S.grab, S.frames)
  BY DEF Kept
<1>1. FramesFit(T.frames)
  BY <1>0, <1>f, PushFrames
<1>2. FlagsFit(T.flags, T.frames)
  <2>1. FlagsFit(S.flags, S.frames) <=> FlagsFit(T.flags, Append(S.frames, x))
    BY <1>0, PushFlags DEF FlagsMore
  <2> QED
    BY <1>f, <2>1
<1>3. UsesFit(T.uses, T.frames)
  <2>1. UsesFit(S.uses, S.frames) <=> UsesFit(T.uses, Append(S.frames, x))
    BY <1>0, PushUses DEF UsesMore
  <2> QED
    BY <1>f, <2>1
<1>4. GrabsFit(T.grab, T.frames)
  <2>1. GrabsFit(T.grab, Append(S.frames, x))
    BY <1>0, <1>f, PushGrabs DEF GrabsMore
  <2> QED
    BY <2>1
<1> QED
  BY <1>1, <1>2, <1>3, <1>4 DEF Kept

\* The grabs match after a frame ended that gave its grab back.
LEMMA PopGrabs ==
  ASSUME NEW fr \in Seq(Frame), NEW x \in Frame, NEW h, NEW g,
         GrabsFit(h, Append(fr, x)), GrabsLess(h, g, x),
         g.normal \in Nat, h.normal \in Nat, g.menu \in Nat, g.passive \in Nat
  PROVE  GrabsFit(g, fr)
<1>1. PICK n \in Nat : n = Len(fr)
  OBVIOUS
<1>2. PICK gr : gr = Append(fr, x)
  OBVIOUS
<1>3. Len(gr) = n + 1 /\ gr \in Seq(Frame)
  BY <1>1, <1>2, Pushed
<1>4. \A k : Hits(gr, OfKind(k)) = Hits(fr, OfKind(k)) + (IF x.kind = k THEN 1 ELSE 0)
  BY <1>2, PushedHits DEF OfKind
<1>5. Hits(gr, Regrabbing) = Hits(fr, Regrabbing) + (IF x \in Regrabbing THEN 1 ELSE 0)
  BY <1>2, PushedHits
<1>6. /\ Hits(fr, Regrabbing) \in Nat /\ Hits(gr, Regrabbing) \in Nat
      /\ \A k : Hits(fr, OfKind(k)) \in Nat
  BY <1>3, HitsNat
<1>7. /\ h.menu = Hits(gr, OfKind("menu")) /\ h.passive = Hits(gr, OfKind("click"))
      /\ h.normal + Hits(gr, Regrabbing) <= Hits(gr, OfKind("function"))
      /\ \A k \in 0..(n + 1) : UpTo(gr, k, Regrabbing) <= UpTo(gr, k, OfKind("function"))
  BY <1>2, <1>3 DEF GrabsFit
<1>8. ASSUME NEW k \in 0..n
      PROVE  UpTo(fr, k, Regrabbing) <= UpTo(fr, k, OfKind("function"))
  <2>1. k \in 0..(n + 1)
    BY <1>1
  <2>2. UpTo(gr, k, Regrabbing) <= UpTo(gr, k, OfKind("function"))
    BY <1>7, <2>1
  <2>3. /\ UpTo(gr, k, Regrabbing) = UpTo(fr, k, Regrabbing)
        /\ UpTo(gr, k, OfKind("function")) = UpTo(fr, k, OfKind("function"))
    BY <1>1, <1>2, PushedUpTo
  <2> QED
    BY <2>2, <2>3
<1>9. Hits(fr, Regrabbing) <= Hits(fr, OfKind("function"))
  BY <1>1, <1>8 DEF Hits
<1>10. g.menu = Hits(fr, OfKind("menu")) /\ g.passive = Hits(fr, OfKind("click"))
  <2>1. /\ Hits(gr, OfKind("menu")) = Hits(fr, OfKind("menu")) + (IF x.kind = "menu" THEN 1 ELSE 0)
        /\ Hits(gr, OfKind("click")) = Hits(fr, OfKind("click")) + (IF x.kind = "click" THEN 1 ELSE 0)
    BY <1>4
  <2>2. Hits(fr, OfKind("menu")) \in Nat /\ Hits(fr, OfKind("click")) \in Nat
    BY <1>6
  <2>3. /\ h.menu = g.menu + (IF x.kind = "menu" THEN 1 ELSE 0)
        /\ h.passive = g.passive + (IF x.kind = "click" THEN 1 ELSE 0)
    BY DEF GrabsLess
  <2> QED
    BY <1>7, <2>1, <2>2, <2>3
<1>11. g.normal + Hits(fr, Regrabbing) <= Hits(fr, OfKind("function"))
  <2>1. Hits(gr, OfKind("function"))
          = Hits(fr, OfKind("function")) + (IF x.kind = "function" THEN 1 ELSE 0)
    BY <1>4
  <2>2. Hits(fr, OfKind("function")) \in Nat
    BY <1>6
  <2>3. \/ g.normal = 0
        \/ g.normal + (IF x.kind = "function" THEN 1 ELSE 0)
             <= h.normal + (IF x \in Regrabbing THEN 1 ELSE 0)
    BY DEF GrabsLess
  <2> QED
    BY <1>5, <1>6, <1>7, <1>9, <2>1, <2>2, <2>3
<1> QED
  BY <1>1, <1>8, <1>10, <1>11 DEF GrabsFit

\* A frame may end that takes back the flags, uses and grabs it had set.
LEMMA Shrink ==
  ASSUME NEW S \in States, Kept(S), NEW T \in States, NEW x \in Frame,
         S.frames = Append(T.frames, x),
         FlagsMore(T.flags, S.flags, x), UsesMore(T.uses, S.uses, x),
         GrabsLess(S.grab, T.grab, x), PointerFits(T.grab)
  PROVE  Kept(T)
<1>0. /\ T.frames \in Seq(Frame) /\ T.flags.depth \in Nat
      /\ S.grab.normal \in Nat /\ T.grab.normal \in Nat
      /\ T.grab.menu \in Nat /\ T.grab.passive \in Nat
      /\ \A f \in DOMAIN T.uses : T.uses[f] \in Nat
  BY StateParts
<1>f. /\ FramesFit(S.frames) /\ FlagsFit(S.flags, S.frames) /\ UsesFit(S.uses, S.frames)
      /\ GrabsFit(S.grab, S.frames)
  BY DEF Kept
<1>1. /\ FramesFit(T.frames) /\ Fits(x)
      /\ x.kind = "item" => ItemFits(Append(T.frames, x), Len(T.frames) + 1)
  BY <1>0, <1>f, PushFrames
<1>2. FlagsFit(T.flags, T.frames)
  <2>1. FlagsFit(T.flags, T.frames) <=> FlagsFit(S.flags, Append(T.frames, x))
    BY <1>0, <1>1, PushFlags DEF FlagsMore
  <2> QED
    BY <1>f, <2>1
<1>3. UsesFit(T.uses, T.frames)
  <2>1. x.kind = "function" => x.func \in DOMAIN T.uses
    <3>1. Len(S.frames) = Len(T.frames) + 1 /\ S.frames[Len(T.frames) + 1] = x
      BY <1>0, Pushed
    <3>2. Len(T.frames) \in Nat
      BY <1>0
    <3>3. x.kind = "function" => x.func \in DOMAIN S.uses
      BY <1>f, <3>1, <3>2 DEF UsesFit
    <3> QED
      BY <3>3 DEF UsesMore
  <2>2. UsesFit(T.uses, T.frames) <=> UsesFit(S.uses, Append(T.frames, x))
    BY <1>0, <1>1, <2>1, PushUses DEF UsesMore
  <2> QED
    BY <1>f, <2>2
<1>4. GrabsFit(T.grab, T.frames)
  BY <1>0, <1>f, PopGrabs
<1> QED
  BY <1>1, <1>2, <1>3, <1>4 DEF Kept

-----------------------------------------------------------------------------
\* A grab keeps the pointer grabbed as counted.
LEMMA GrabPointer ==
  ASSUME NEW S \in States, NEW ctx \in {"normal", "menu", "passive"},
         NEW T, T = GrabEm(S, ctx), PointerFits(S.grab)
  PROVE  PointerFits(T.grab)
<1>1. /\ S.grab.normal \in Nat /\ S.grab.menu \in Nat /\ S.grab.passive \in Nat
  BY StateParts
<1>2. /\ T.grab.normal = S.grab.normal + (IF ctx = "normal" THEN 1 ELSE 0)
      /\ T.grab.menu = S.grab.menu + (IF ctx = "menu" THEN 1 ELSE 0)
      /\ T.grab.passive = S.grab.passive + (IF ctx = "passive" THEN 1 ELSE 0)
      /\ T.grab.pointer = (S.grab.pointer \/ ctx # "passive")
  BY GrabFields
<1>3. T.grab.pointer <=> S.grab.pointer \/ ctx # "passive"
  BY <1>2
<1> QED
  BY <1>1, <1>2, <1>3 DEF PointerFits

\* So does an ungrab.
LEMMA UngrabPointer ==
  ASSUME NEW S \in States, NEW ctx \in {"normal", "menu", "passive"},
         NEW T, T = UngrabEm(S, ctx), PointerFits(S.grab)
  PROVE  PointerFits(T.grab)
<1>1. /\ S.grab.normal \in Nat /\ S.grab.menu \in Nat /\ S.grab.passive \in Nat
  BY StateParts
<1>2. CASE S.grab[ctx] = 0
  BY <1>2, UngrabFields
<1>3. CASE S.grab[ctx] # 0
  <2>1. /\ T.grab.normal = S.grab.normal - (IF ctx = "normal" THEN 1 ELSE 0)
        /\ T.grab.menu = S.grab.menu - (IF ctx = "menu" THEN 1 ELSE 0)
        /\ T.grab.passive = S.grab.passive - (IF ctx = "passive" THEN 1 ELSE 0)
        /\ T.grab.pointer = (S.grab.pointer /\ GrabAll(S) > 1)
    BY <1>3, UngrabFields
  <2>2. T.grab.pointer <=> S.grab.pointer /\ S.grab.normal + S.grab.menu + S.grab.passive > 1
    BY <2>1 DEF GrabAll
  <2>3. /\ T.grab.normal \in Nat /\ T.grab.menu \in Nat /\ T.grab.passive \in Nat
    BY UngrabFields, StateParts
  <2> QED
    BY <1>1, <2>1, <2>2, <2>3 DEF PointerFits
<1> QED
  BY <1>2, <1>3

\* A frame that is not of destroy_window may come and go unnoticed.
LEMMA PushQuiet ==
  ASSUME NEW S, NEW T, NEW fr \in Seq(Frame), NEW x \in Frame, Same(S, T),
         x.kind # "put off", x.kind # "destroy"
  PROVE  /\ S.frames = fr /\ T.frames = Append(fr, x) => Quiet(S, T)
         /\ S.frames = Append(fr, x) /\ T.frames = fr => Quiet(S, T)
<1>1. /\ Held(Append(fr, x), {"destroy"}) = Held(fr, {"destroy"})
      /\ Held(Append(fr, x), {"put off"}) = Held(fr, {"put off"})
  <2>1. ASSUME NEW k, x.kind # k
        PROVE  Held(Append(fr, x), {k}) = Held(fr, {k})
    <3>1. Held(Append(fr, x), {k}) = Held(fr, {k}) \cup (IF x.kind \in {k} THEN {x.win} ELSE {})
      BY PushedHeld
    <3> QED
      BY <2>1, <3>1
  <2> QED
    BY <2>1
<1> QED
  BY <1>1 DEF Quiet, Same

\* What leaves the windows alone has to keep the rest only.
LEMMA QuietStep ==
  ASSUME NEW S, NEW T, Good(S), Kept(T), Quiet(S, T)
  PROVE  Good(T)
BY QuietGood DEF Good

\* A complex function begins: depth, use_depth and the grab of the pointer.
LEMMA CallGood ==
  ASSUME NEW S \in States, Good(S), NEW f \in DOMAIN S.uses, NEW t \in Recs \cup {None},
         NEW T
  PROVE  T = Enter(GrabEm(BeginFunction(S, f), "normal"), "function", t, f, {}, FALSE)
           => Good(T)
<1>0. SUFFICES ASSUME T = Enter(GrabEm(BeginFunction(S, f), "normal"), "function", t, f, {}, FALSE)
               PROVE  Good(T)
  OBVIOUS
<1>1. PICK B : B = BeginFunction(S, f)
  OBVIOUS
<1>2. PICK G : G = GrabEm(B, "normal")
  OBVIOUS
<1>3. /\ B \in States /\ Same(S, B) /\ B.grab = S.grab /\ B.frames = S.frames
      /\ B.flags.depth = S.flags.depth + 1 /\ B.flags.function
      /\ B.flags.menu = S.flags.menu
      /\ UsesChanged(S.uses, B.uses, f, 1)
  BY <1>1, BeginFields
<1>4. /\ G \in States
      /\ G.win = B.win /\ G.context = B.context /\ G.doomed = B.doomed
      /\ G.flags = B.flags /\ G.uses = B.uses /\ G.frames = B.frames
      /\ G.grab.normal = B.grab.normal + 1
      /\ G.grab.menu = B.grab.menu + 0
      /\ G.grab.passive = B.grab.passive + 0
  <2>1. "normal" \in {"normal", "menu", "passive"}
    OBVIOUS
  <2>2. B.grab.menu \in Nat /\ B.grab.passive \in Nat
    BY <1>3, StateParts
  <2> QED
    BY <1>2, <1>3, <2>1, <2>2, GrabFields
<1>p. PointerFits(G.grab)
  <2>1. "normal" \in {"normal", "menu", "passive"} /\ PointerFits(B.grab)
    BY <1>3 DEF Good, Kept
  <2> QED
    BY <1>2, <1>3, <2>1, GrabPointer
<1>5. f \in Functions \cup {None} /\ f # None /\ "function" \in Kinds /\ FALSE \in BOOLEAN
  BY StateParts DEF Kinds
<1>6. Entered(G, T, "function", t, f, {}, FALSE)
  BY <1>0, <1>1, <1>2, <1>4, <1>5, EnterFields
<1>7. PICK x \in Frame :
        /\ x.kind = "function" /\ x.win = t /\ x.func = f /\ x.todo = {} /\ x.saved = FALSE
        /\ T \in States /\ T.frames = Append(G.frames, x)
        /\ T.win = G.win /\ T.context = G.context /\ T.doomed = G.doomed
        /\ T.flags = G.flags /\ T.uses = G.uses /\ T.grab = G.grab
  BY <1>6 DEF Entered
<1>k. x.kind = "function" /\ x.func = f
  BY <1>7
<1>l. x.kind # "item" /\ x.kind # "menu" /\ x.kind # "click"
  BY <1>k
<1>a. /\ T.flags = B.flags /\ T.uses = B.uses /\ T.grab = G.grab
      /\ T.win = B.win /\ T.context = B.context /\ T.doomed = B.doomed
  BY <1>4, <1>7
<1>8. Fits(x) /\ x \notin Regrabbing
  BY <1>5, <1>7 DEF Fits, Regrabbing
<1>9. FlagsMore(S.flags, T.flags, x)
  <2>1. S.flags.depth \in Nat /\ (S.flags.function <=> S.flags.depth > 0)
    BY StateParts DEF Good, Kept, FlagsFit
  <2>2. T.flags.depth = S.flags.depth + 1 /\ T.flags.function /\ T.flags.menu = S.flags.menu
    BY <1>3, <1>a
  <2>3. x.kind = "function" /\ x.kind # "item" /\ T.flags.depth > 0
    BY <1>k, <1>l, <2>1, <2>2
  <2>4. T.flags.menu <=> S.flags.menu
    BY <2>2
  <2> QED
    BY <2>1, <2>2, <2>3, <2>4 DEF FlagsMore
<1>10. UsesMore(S.uses, T.uses, x)
  BY <1>3, <1>7, <1>a DEF UsesMore, UsesChanged
<1>11. GrabsMore(S.grab, T.grab, x)
  <2>1. /\ S.grab.normal \in Nat /\ S.grab.menu \in Nat /\ S.grab.passive \in Nat
    BY StateParts
  <2>2. /\ T.grab.normal = S.grab.normal + 1 /\ T.grab.menu = S.grab.menu
        /\ T.grab.passive = S.grab.passive
    <3>1. B.grab = S.grab /\ T.grab = G.grab
      BY <1>3, <1>a
    <3>2. /\ G.grab.normal = B.grab.normal + 1 /\ G.grab.menu = B.grab.menu + 0
          /\ G.grab.passive = B.grab.passive + 0
      BY <1>4
    <3> QED
      BY <2>1, <3>1, <3>2
  <2> QED
    BY <1>8, <1>k, <1>l, <2>1, <2>2 DEF GrabsMore
<1>12. PointerFits(T.grab)
  BY <1>a, <1>p
<1>13. T.frames = Append(S.frames, x) /\ x.kind # "item" /\ Kept(S) /\ x.func \in DOMAIN S.uses
  BY <1>3, <1>4, <1>7 DEF Good
<1>14. Kept(T)
  BY <1>7, <1>8, <1>9, <1>10, <1>11, <1>12, <1>13, Grow
<1>15. Same(S, T)
  BY <1>3, <1>a DEF Same
<1>16. Quiet(S, T)
  BY <1>7, <1>13, <1>15, PushQuiet, StateParts
<1> QED
  BY <1>14, <1>16, QuietStep

\* A frame other than of destroy_window begins.
LEMMA GrowGood ==
  ASSUME NEW S \in States, Good(S), NEW x \in Frame, Fits(x),
         NEW T \in States, T.frames = Append(S.frames, x), Same(S, T),
         x.kind # "put off", x.kind # "destroy",
         x.kind = "item" => ItemFits(Append(S.frames, x), Len(S.frames) + 1),
         x.kind = "function" => x.func \in DOMAIN S.uses,
         FlagsMore(S.flags, T.flags, x), UsesMore(S.uses, T.uses, x),
         GrabsMore(S.grab, T.grab, x), PointerFits(T.grab)
  PROVE  Good(T)
<1>1. Kept(S)
  BY DEF Good
<1>2. Kept(T)
  BY <1>1, Grow
<1>3. Quiet(S, T)
  BY PushQuiet, StateParts
<1> QED
  BY <1>2, <1>3, QuietStep

\* A frame other than of destroy_window ends.
LEMMA ShrinkGood ==
  ASSUME NEW S \in States, Good(S), NEW x \in Frame,
         NEW T \in States, S.frames = Append(T.frames, x), Same(S, T),
         x.kind # "put off", x.kind # "destroy",
         FlagsMore(T.flags, S.flags, x), UsesMore(T.uses, S.uses, x),
         GrabsLess(S.grab, T.grab, x), PointerFits(T.grab)
  PROVE  Good(T)
<1>1. Kept(S)
  BY DEF Good
<1>2. Kept(T)
  BY <1>1, Shrink
<1>3. Quiet(S, T)
  BY PushQuiet, StateParts
<1> QED
  BY <1>2, <1>3, QuietStep

\* A frame that runs no function changes no use_depth.
LEMMA NoUses ==
  ASSUME NEW S \in States, NEW x \in Frame, Fits(x), x.kind # "function"
  PROVE  UsesMore(S.uses, S.uses, x)
<1>1. x.func = None
  BY DEF Fits
<1> QED
  BY <1>1, StateParts DEF UsesMore

\* A frame that is no function and no action changes no flag.
LEMMA NoFlags ==
  ASSUME NEW S \in States, Kept(S), NEW x \in Frame, x.kind # "function", x.kind # "item"
  PROVE  FlagsMore(S.flags, S.flags, x)
<1>1. S.flags.depth \in Nat /\ (S.flags.function <=> S.flags.depth > 0)
  BY StateParts DEF Kept, FlagsFit
<1> QED
  BY <1>1 DEF FlagsMore

\* A command changed nothing but the functions and their uses.
LEMMA SameGood ==
  ASSUME NEW S \in States, Good(S), NEW T \in States, Same(S, T),
         FlagsButScheduled(S, T), T.grab = S.grab, T.frames = S.frames,
         UsesFit(T.uses, T.frames)
  PROVE  Good(T)
<1>1. Kept(T)
  BY DEF Good, Kept, FlagsButScheduled, FlagsFit
<1>2. Quiet(S, T)
  BY DEF Quiet, Same
<1> QED
  BY <1>1, <1>2, QuietStep

\* A function that could not grab the pointer, or that was given no window,
\* has taken back what it set.
LEMMA EndBegunGood ==
  ASSUME NEW S \in States, Good(S), NEW f \in DOMAIN S.uses,
         NEW T, T = EndFunction(BeginFunction(S, f), f)
  PROVE  Good(T)
<1>1. PICK B : B = BeginFunction(S, f)
  OBVIOUS
<1>2. /\ S.flags.depth \in Nat /\ (S.flags.function <=> S.flags.depth > 0)
      /\ UsesFit(S.uses, S.frames) /\ \A g \in DOMAIN S.uses : S.uses[g] \in Nat
  BY StateParts DEF Good, Kept, FlagsFit
<1>3. /\ B \in States /\ Same(S, B) /\ B.grab = S.grab /\ B.frames = S.frames
      /\ B.flags.depth = S.flags.depth + 1 /\ B.flags.function
      /\ B.flags.menu = S.flags.menu
      /\ UsesChanged(S.uses, B.uses, f, 1)
  BY <1>1, BeginFields
<1>4. f \in DOMAIN B.uses /\ B.uses[f] # 0 /\ B.flags.depth # 0
  BY <1>2, <1>3 DEF UsesChanged
<1>5. /\ T \in States /\ Same(B, T) /\ T.grab = B.grab /\ T.frames = B.frames
      /\ T.flags.depth = B.flags.depth - 1
      /\ T.flags.function <=> B.flags.function /\ B.flags.depth # 1
      /\ T.flags.menu = B.flags.menu
      /\ UsesChanged(B.uses, T.uses, f, -1)
  BY <1>1, <1>3, <1>4, EndFields
<1>6. DOMAIN T.uses = DOMAIN S.uses /\ \A g \in DOMAIN S.uses : T.uses[g] = S.uses[g]
  <2>1. /\ DOMAIN B.uses = DOMAIN S.uses /\ DOMAIN T.uses = DOMAIN S.uses
        /\ \A g \in DOMAIN S.uses : B.uses[g] = S.uses[g] + (IF g = f THEN 1 ELSE 0)
        /\ \A g \in DOMAIN S.uses : T.uses[g] = B.uses[g] + (IF g = f THEN -1 ELSE 0)
    BY <1>3, <1>5 DEF UsesChanged
  <2> QED
    BY <1>2, <2>1
<1>7. UsesFit(T.uses, T.frames)
  BY <1>2, <1>3, <1>5, <1>6 DEF UsesFit
<1>8. FlagsButScheduled(S, T)
  <2>1. T.flags.depth = S.flags.depth
    BY <1>2, <1>3, <1>5
  <2>2. T.flags.function <=> S.flags.function
    BY <1>2, <1>3, <1>5
  <2>3. T.flags.menu = S.flags.menu
    BY <1>3, <1>5
  <2> QED
    BY <2>1, <2>2, <2>3 DEF FlagsButScheduled
<1>9. Same(S, T)
  BY <1>3, <1>5 DEF Same
<1> QED
  BY <1>3, <1>5, <1>7, <1>8, <1>9, SameGood

\* No frame runs a function with use_depth zero.
LEMMA NoneRuns ==
  ASSUME NEW S \in States, Kept(S), NEW f \in Functions, f \notin DOMAIN S.uses \/ S.uses[f] = 0
  PROVE  \A i \in 1..Len(S.frames) : S.frames[i].func # f
<1>0. S.frames \in Seq(Frame) /\ Len(S.frames) \in Nat /\ f # None
  BY StateParts, WindowUseAssumption
<1>1. CASE f \notin DOMAIN S.uses
  BY <1>0, <1>1 DEF Kept, FramesFit, Fits, UsesFit
<1>2. CASE f \in DOMAIN S.uses /\ S.uses[f] = 0
  <2>1. UpTo(S.frames, Len(S.frames), Running(f)) = 0
    BY <1>2 DEF Kept, UsesFit, Hits
  <2>2. \A i \in 1..Len(S.frames) : S.frames[i] \notin Running(f)
    BY <1>0, <2>1, UpToNat
  <2> QED
    BY <1>0, <2>2, ElementOfSeq DEF Running
<1> QED
  BY <1>1, <1>2

\* DestroyFunc and AddToFunc change the functions only.
LEMMA UsesSet ==
  ASSUME NEW S \in States, NEW us \in Uses, NEW T, T = [S EXCEPT !.uses = us]
  PROVE  /\ T \in States /\ Same(S, T) /\ FlagsButScheduled(S, T) /\ T.grab = S.grab
         /\ T.frames = S.frames /\ T.uses = us
BY DEF States, Same, FlagsButScheduled

\* DestroyFunc removes no function that runs.
LEMMA DestroyFunctionGood ==
  ASSUME NEW S \in States, Good(S), NEW f \in DOMAIN S.uses, NEW T, T = DestroyFunction(S, f)
  PROVE  Good(T)
<1>1. CASE S.uses[f] # 0
  BY <1>1 DEF DestroyFunction
<1>2. CASE S.uses[f] = 0
  <2>0. S.uses \in Uses /\ f \in Functions /\ Kept(S)
    BY StateParts DEF States, Good
  <2>1. PICK us : us = [g \in DOMAIN S.uses \ {f} |-> S.uses[g]]
    OBVIOUS
  <2>2. us \in Uses
    BY <2>0, <2>1 DEF Uses
  <2>3. T = [S EXCEPT !.uses = us]
    BY <1>2, <2>1 DEF DestroyFunction, States
  <2>4. /\ T \in States /\ Same(S, T) /\ FlagsButScheduled(S, T) /\ T.grab = S.grab
        /\ T.frames = S.frames /\ T.uses = us
    BY <2>2, <2>3, UsesSet
  <2>5. \A i \in 1..Len(S.frames) : S.frames[i].func # f
    BY <1>2, <2>0, NoneRuns
  <2>6. UsesFit(us, S.frames)
    BY <2>0, <2>1, <2>5 DEF Kept, UsesFit
  <2> QED
    BY <2>4, <2>6, SameGood
<1> QED
  BY <1>1, <1>2

\* AddToFunc adds a function that does not run.
LEMMA AddToFunctionGood ==
  ASSUME NEW S \in States, Good(S), NEW f \in Functions, NEW T, T = AddToFunction(S, f)
  PROVE  Good(T)
<1>0. S.uses \in Uses /\ Kept(S) /\ Len(S.frames) \in Nat
  BY StateParts DEF States, Good
<1>1. PICK us : us = [g \in DOMAIN S.uses \cup {f} |-> IF g \in DOMAIN S.uses THEN S.uses[g] ELSE 0]
  OBVIOUS
<1>2. us \in Uses
  <2>1. DOMAIN S.uses \cup {f} \in SUBSET Functions
    BY StateParts
  <2>2. us \in [DOMAIN S.uses \cup {f} -> Nat]
    BY <1>1, StateParts
  <2> QED
    BY <2>1, <2>2 DEF Uses
<1>3. T = [S EXCEPT !.uses = us]
  BY <1>1 DEF AddToFunction, States
<1>4. /\ T \in States /\ Same(S, T) /\ FlagsButScheduled(S, T) /\ T.grab = S.grab
      /\ T.frames = S.frames /\ T.uses = us
  BY <1>2, <1>3, UsesSet
<1>5. f \notin DOMAIN S.uses => Hits(S.frames, Running(f)) = 0
  <2>1. f \notin DOMAIN S.uses => \A i \in 1..Len(S.frames) : S.frames[i] \notin Running(f)
    BY <1>0, NoneRuns DEF Running
  <2> QED
    BY <1>0, <2>1, UpToNat DEF Hits
<1>6. UsesFit(us, S.frames)
  BY <1>0, <1>1, <1>5 DEF Kept, UsesFit
<1> QED
  BY <1>4, <1>6, SameGood

-----------------------------------------------------------------------------
\* Wait gives back the grab of the function that waits, if there is one.
LEMMA WaitGood ==
  ASSUME NEW S \in States, Good(S), NEW T
  PROVE  T \in CmdWait(S) => Good(T)
<1>0. SUFFICES ASSUME T \in CmdWait(S) PROVE Good(T)
  OBVIOUS
<1>1. PICK G : G = UngrabEm(S, "normal")
  OBVIOUS
<1>2. PICK b \in BOOLEAN : b = (S.grab.normal > 0)
  <2>1. (S.grab.normal > 0) \in BOOLEAN
    OBVIOUS
  <2> QED
    BY <2>1, Zenon
<1>n. /\ S.grab.normal \in Nat /\ S.grab.menu \in Nat /\ S.grab.passive \in Nat
      /\ "normal" \in {"normal", "menu", "passive"} /\ Kept(S) /\ PointerFits(S.grab)
  BY StateParts DEF Good, Kept
<1>3. /\ G \in States
      /\ G.win = S.win /\ G.context = S.context /\ G.doomed = S.doomed
      /\ G.flags = S.flags /\ G.uses = S.uses /\ G.frames = S.frames
  BY <1>1, <1>n, UngrabFields
<1>4. /\ G.grab.normal = S.grab.normal - (IF S.grab.normal > 0 THEN 1 ELSE 0)
      /\ G.grab.menu = S.grab.menu /\ G.grab.passive = S.grab.passive
  BY <1>1, <1>n, UngrabFields
<1>5. PointerFits(G.grab)
  BY <1>1, <1>n, UngrabPointer
<1>6. "wait" \in Kinds /\ None \in Recs \cup {None} /\ None \in Functions \cup {None}
  BY DEF Kinds
<1>7. Entered(G, T, "wait", None, None, {}, b)
  <2>1. T = Enter(G, "wait", None, None, {}, b)
    BY <1>0, <1>1, <1>2 DEF CmdWait
  <2> QED
    BY <1>2, <1>3, <1>6, <2>1, EnterFields
<1>8. PICK x \in Frame :
        /\ x.kind = "wait" /\ x.win = None /\ x.func = None /\ x.todo = {} /\ x.saved = b
        /\ T \in States /\ T.frames = Append(G.frames, x)
        /\ T.win = G.win /\ T.context = G.context /\ T.doomed = G.doomed
        /\ T.flags = G.flags /\ T.uses = G.uses /\ T.grab = G.grab
  BY <1>7 DEF Entered
<1>k. x.kind = "wait" /\ T \in States /\ T.frames = Append(S.frames, x)
  BY <1>3, <1>8
<1>l. /\ x.kind # "item" /\ x.kind # "menu" /\ x.kind # "click" /\ x.kind # "function"
      /\ x.kind # "put off" /\ x.kind # "destroy"
  BY <1>k
<1>9. Fits(x)
  BY <1>8 DEF Fits
<1>10. x \in Regrabbing <=> S.grab.normal > 0
  BY <1>2, <1>8 DEF Regrabbing
<1>11. T.flags = S.flags /\ T.uses = S.uses /\ T.grab = G.grab
  BY <1>3, <1>8
<1>12. Same(S, T)
  BY <1>3, <1>8 DEF Same
<1>13. GrabsMore(S.grab, T.grab, x)
  <2>1. T.grab.menu = G.grab.menu /\ T.grab.passive = G.grab.passive /\ T.grab.normal = G.grab.normal
    BY <1>11
  <2>2. T.grab.menu = S.grab.menu /\ T.grab.passive = S.grab.passive
    BY <1>4, <2>1
  <2>3. T.grab.normal + (IF x \in Regrabbing THEN 1 ELSE 0) <= S.grab.normal
    BY <1>4, <1>10, <1>n, <2>1
  <2>4. x.kind # "function" /\ x.kind # "menu" /\ x.kind # "click"
    BY <1>l
  <2> QED
    BY <1>n, <2>2, <2>3, <2>4 DEF GrabsMore
<1>14. FlagsMore(S.flags, T.flags, x) /\ UsesMore(S.uses, T.uses, x)
  BY <1>9, <1>11, <1>l, <1>n, NoFlags, NoUses
<1> QED
  BY <1>k, <1>l, <1>5, <1>9, <1>11, <1>12, <1>13, <1>14, GrowGood

\* A frame of this kind is entered once the pointer is grabbed for ctx.
LEMMA GrabbedGood ==
  ASSUME NEW S \in States, Good(S), NEW t \in Recs \cup {None}, NEW T,
         NEW ctx \in {"normal", "menu", "passive"}, NEW kind \in Kinds,
         \/ kind = "menu" /\ ctx = "menu"
         \/ kind = "click" /\ ctx = "passive" /\ t # None
  PROVE  T = Enter(GrabEm(S, ctx), kind, t, None, {}, FALSE) => Good(T)
<1>0. SUFFICES ASSUME T = Enter(GrabEm(S, ctx), kind, t, None, {}, FALSE) PROVE Good(T)
  OBVIOUS
<1>1. PICK G : G = GrabEm(S, ctx)
  OBVIOUS
<1>n. /\ S.grab.normal \in Nat /\ S.grab.menu \in Nat /\ S.grab.passive \in Nat
      /\ Kept(S) /\ PointerFits(S.grab)
  BY StateParts DEF Good, Kept
<1>3. /\ G \in States
      /\ G.win = S.win /\ G.context = S.context /\ G.doomed = S.doomed
      /\ G.flags = S.flags /\ G.uses = S.uses /\ G.frames = S.frames
  BY <1>1, GrabFields
<1>4. /\ G.grab.normal = S.grab.normal
      /\ G.grab.menu = S.grab.menu + (IF ctx = "menu" THEN 1 ELSE 0)
      /\ G.grab.passive = S.grab.passive + (IF ctx = "passive" THEN 1 ELSE 0)
  BY <1>1, <1>n, GrabFields
<1>5. PointerFits(G.grab)
  BY <1>1, <1>n, GrabPointer
<1>6. None \in Functions \cup {None} /\ FALSE \in BOOLEAN
  OBVIOUS
<1>7. Entered(G, T, kind, t, None, {}, FALSE)
  BY <1>0, <1>1, <1>3, <1>6, EnterFields
<1>8. PICK x \in Frame :
        /\ x.kind = kind /\ x.win = t /\ x.func = None /\ x.todo = {} /\ x.saved = FALSE
        /\ T \in States /\ T.frames = Append(G.frames, x)
        /\ T.win = G.win /\ T.context = G.context /\ T.doomed = G.doomed
        /\ T.flags = G.flags /\ T.uses = G.uses /\ T.grab = G.grab
  BY <1>7 DEF Entered
<1>k. x.kind = kind /\ T \in States /\ T.frames = Append(S.frames, x)
  BY <1>3, <1>8
<1>l. /\ x.kind # "item" /\ x.kind # "function" /\ x.kind # "wait"
      /\ x.kind # "put off" /\ x.kind # "destroy"
      /\ x.kind = "menu" <=> ctx = "menu"
      /\ x.kind = "click" <=> ctx = "passive"
  BY <1>k
<1>9. Fits(x)
  BY <1>8 DEF Fits
<1>10. x \notin Regrabbing
  BY <1>l DEF Regrabbing
<1>11. T.flags = S.flags /\ T.uses = S.uses /\ T.grab = G.grab
  BY <1>3, <1>8
<1>12. Same(S, T)
  BY <1>3, <1>8 DEF Same
<1>13. GrabsMore(S.grab, T.grab, x)
  <2>1. T.grab.menu = G.grab.menu /\ T.grab.passive = G.grab.passive /\ T.grab.normal = G.grab.normal
    BY <1>11
  <2>2. /\ T.grab.menu = S.grab.menu + (IF x.kind = "menu" THEN 1 ELSE 0)
        /\ T.grab.passive = S.grab.passive + (IF x.kind = "click" THEN 1 ELSE 0)
    BY <1>4, <1>l, <1>n, <2>1
  <2>3. T.grab.normal + (IF x \in Regrabbing THEN 1 ELSE 0) <= S.grab.normal
    BY <1>4, <1>10, <1>n, <2>1
  <2>4. x.kind # "function"
    BY <1>l
  <2> QED
    BY <1>n, <2>2, <2>3, <2>4 DEF GrabsMore
<1>14. FlagsMore(S.flags, T.flags, x) /\ UsesMore(S.uses, T.uses, x)
  BY <1>9, <1>11, <1>l, <1>n, NoFlags, NoUses
<1> QED
  BY <1>k, <1>l, <1>5, <1>9, <1>11, <1>12, <1>13, <1>14, GrowGood

\* All begins with the windows that are listed.
LEMMA AllGood ==
  ASSUME NEW S \in States, Good(S), NEW T
  PROVE  T = Enter(S, "all", None, None, Listed(S), FALSE) => Good(T)
<1>0. SUFFICES ASSUME T = Enter(S, "all", None, None, Listed(S), FALSE) PROVE Good(T)
  OBVIOUS
<1>n. /\ S.grab.normal \in Nat /\ S.grab.menu \in Nat /\ S.grab.passive \in Nat
      /\ Kept(S) /\ PointerFits(S.grab)
  BY StateParts DEF Good, Kept
<1>6. /\ None \in Functions \cup {None} /\ None \in Recs \cup {None} /\ FALSE \in BOOLEAN
      /\ "all" \in Kinds /\ Listed(S) \in SUBSET Recs
  BY DEF Kinds, Listed
<1>7. Entered(S, T, "all", None, None, Listed(S), FALSE)
  BY <1>0, <1>6, EnterFields
<1>8. PICK x \in Frame :
        /\ x.kind = "all" /\ x.win = None /\ x.func = None
        /\ x.todo = Listed(S) /\ x.saved = FALSE
        /\ T \in States /\ T.frames = Append(S.frames, x)
        /\ T.win = S.win /\ T.context = S.context /\ T.doomed = S.doomed
        /\ T.flags = S.flags /\ T.uses = S.uses /\ T.grab = S.grab
  BY <1>7 DEF Entered
<1>k. x.kind = "all" /\ T \in States /\ T.frames = Append(S.frames, x)
  BY <1>8
<1>l. /\ x.kind # "item" /\ x.kind # "function" /\ x.kind # "wait" /\ x.kind # "menu"
      /\ x.kind # "put off" /\ x.kind # "destroy" /\ x.kind # "click"
  BY <1>k
<1>9. Fits(x)
  BY <1>8 DEF Fits
<1>10. x \notin Regrabbing
  BY <1>l DEF Regrabbing
<1>11. T.flags = S.flags /\ T.uses = S.uses /\ T.grab = S.grab
  BY <1>8
<1>12. Same(S, T)
  BY <1>8 DEF Same
<1>13. GrabsMore(S.grab, T.grab, x)
  <2>1. T.grab.menu = S.grab.menu /\ T.grab.passive = S.grab.passive /\ T.grab.normal = S.grab.normal
    BY <1>11
  <2>2. x.kind # "function" /\ x.kind # "menu" /\ x.kind # "click"
    BY <1>l
  <2> QED
    BY <1>10, <1>n, <2>1, <2>2 DEF GrabsMore
<1>14. FlagsMore(S.flags, T.flags, x) /\ UsesMore(S.uses, T.uses, x)
  BY <1>9, <1>11, <1>l, <1>n, NoFlags, NoUses
<1> QED
  BY <1>k, <1>l, <1>9, <1>11, <1>12, <1>13, <1>14, <1>n, GrowGood

\* The action of a menu begins on top of the menu.
LEMMA ItemGood ==
  ASSUME NEW S \in States, Good(S), NEW t \in Recs \cup {None}, NEW T
  PROVE  (/\ S.frames # <<>> /\ S.frames[Len(S.frames)].kind \in {"menu", "closed menu"}
          /\ T = MenuExecuteFunction(S, t))
            => Good(T)
<1>0. SUFFICES ASSUME S.frames # <<>>,
                      S.frames[Len(S.frames)].kind \in {"menu", "closed menu"},
                      T = MenuExecuteFunction(S, t)
               PROVE  Good(T)
  OBVIOUS
<1>n. /\ S.grab.normal \in Nat /\ S.grab.menu \in Nat /\ S.grab.passive \in Nat
      /\ Kept(S) /\ PointerFits(S.grab) /\ S.flags.menu \in BOOLEAN
      /\ S.frames \in Seq(Frame) /\ S.flags.depth \in Nat /\ S.flags \in Flags
  BY StateParts DEF Good, Kept, States
<1>1. PICK G : G = Enter(S, "item", t, None, {}, S.flags.menu)
  OBVIOUS
<1>6. None \in Functions \cup {None} /\ "item" \in Kinds
  BY DEF Kinds
<1>7. Entered(S, G, "item", t, None, {}, S.flags.menu)
  BY <1>1, <1>6, <1>n, EnterFields
<1>8. PICK x \in Frame :
        /\ x.kind = "item" /\ x.win = t /\ x.func = None /\ x.todo = {} /\ x.saved = S.flags.menu
        /\ G \in States /\ G.frames = Append(S.frames, x)
        /\ G.win = S.win /\ G.context = S.context /\ G.doomed = S.doomed
        /\ G.flags = S.flags /\ G.uses = S.uses /\ G.grab = S.grab
  BY <1>7 DEF Entered
<1>a. PICK fl : fl = [S.flags EXCEPT !.menu = TRUE]
  OBVIOUS
<1>b. /\ fl \in Flags /\ fl.menu = TRUE /\ fl.depth = S.flags.depth
      /\ fl.function = S.flags.function /\ fl.scheduled = S.flags.scheduled
  BY <1>a, <1>n DEF Flags
<1>c. T = [G EXCEPT !.flags = fl]
  BY <1>0, <1>1, <1>8, <1>a DEF MenuExecuteFunction, States
<1>d. /\ T \in States /\ T.flags = fl /\ T.win = G.win /\ T.context = G.context
      /\ T.doomed = G.doomed /\ T.uses = G.uses /\ T.grab = G.grab /\ T.frames = G.frames
  BY <1>8, <1>b, <1>c DEF States
<1>k. x.kind = "item" /\ T \in States /\ T.frames = Append(S.frames, x)
  BY <1>8, <1>d
<1>l. /\ x.kind # "function" /\ x.kind # "wait" /\ x.kind # "menu"
      /\ x.kind # "put off" /\ x.kind # "destroy" /\ x.kind # "click"
  BY <1>k
<1>9. Fits(x)
  BY <1>8 DEF Fits
<1>10. x \notin Regrabbing
  BY <1>l DEF Regrabbing
<1>11. T.uses = S.uses /\ T.grab = S.grab
  BY <1>8, <1>d
<1>12. Same(S, T)
  BY <1>8, <1>b, <1>d DEF Same
<1>13. GrabsMore(S.grab, T.grab, x)
  <2>1. T.grab.menu = S.grab.menu /\ T.grab.passive = S.grab.passive /\ T.grab.normal = S.grab.normal
    BY <1>11
  <2>2. x.kind # "function" /\ x.kind # "menu" /\ x.kind # "click"
    BY <1>l
  <2> QED
    BY <1>10, <1>n, <2>1, <2>2 DEF GrabsMore
<1>14. FlagsMore(S.flags, T.flags, x)
  <2>1. S.flags.function <=> S.flags.depth > 0
    BY <1>n DEF Kept, FlagsFit
  <2>2. T.flags.depth = S.flags.depth /\ (T.flags.function <=> S.flags.function) /\ T.flags.menu
    BY <1>b, <1>d
  <2>3. x.saved <=> S.flags.menu
    BY <1>8
  <2>4. x.kind # "function" /\ x.kind = "item"
    BY <1>k, <1>l
  <2> QED
    BY <1>n, <2>1, <2>2, <2>3, <2>4 DEF FlagsMore
<1>15. UsesMore(S.uses, T.uses, x)
  BY <1>9, <1>11, <1>l, <1>n, NoUses
<1>16. ItemFits(Append(S.frames, x), Len(S.frames) + 1)
  <2>1. PICK n \in Nat : n = Len(S.frames)
    BY <1>n
  <2>2. PICK gr : gr = Append(S.frames, x)
    OBVIOUS
  <2>3. n # 0
    BY <1>0, <1>n, <2>1, EmptySeq
  <2>4. gr[n + 1] = x /\ \A i \in 1..n : gr[i] = S.frames[i]
    BY <1>n, <2>1, <2>2, Pushed
  <2>5. PICK m \in Nat : m = n + 1
    OBVIOUS
  <2>6. m - 1 = n /\ m > 1 /\ n \in 1..n
    BY <2>3, <2>5
  <2>7. gr[m - 1].kind \in {"menu", "closed menu"}
    BY <1>0, <2>1, <2>4, <2>6
  <2>8. gr[m].saved <=> \E j \in 1..(m - 1) : gr[j].kind = "item"
    <3>1. S.flags.menu <=> \E j \in 1..n : S.frames[j].kind = "item"
      BY <1>n, <2>1 DEF Kept, FlagsFit
    <3>2. (\E j \in 1..n : S.frames[j].kind = "item") <=> \E j \in 1..n : gr[j].kind = "item"
      BY <2>4
    <3>3. gr[m].saved <=> S.flags.menu
      BY <1>8, <2>4, <2>5
    <3> QED
      BY <2>6, <3>1, <3>2, <3>3
  <2>9. ItemFits(gr, m)
    BY <2>6, <2>7, <2>8 DEF ItemFits
  <2> QED
    BY <2>1, <2>2, <2>5, <2>9
<1> QED
  BY <1>k, <1>l, <1>9, <1>11, <1>12, <1>13, <1>14, <1>15, <1>16, <1>n, GrowGood

\* destroy_window, called by a command or for an event.
LEMMA DestroyGood ==
  ASSUME NEW S \in States, Good(S), NEW r \in Recs
  PROVE  Good(DestroyWindow(S, r))
BY DestroyKept, DestroyContexts, DestroyOwed DEF Good

\* A complex function begins or is given up.
LEMMA FunctionGood ==
  ASSUME NEW S \in States, Good(S), NEW r \in Recs \cup {None}, NEW f \in DOMAIN S.uses,
         NEW T
  PROVE  T \in ExecuteComplexFunction(S, f, r) => Good(T)
<1>0. SUFFICES ASSUME T \in ExecuteComplexFunction(S, f, r) PROVE Good(T)
  OBVIOUS
<1>1. PICK B : B = BeginFunction(S, f)
  OBVIOUS
<1>2. PICK targets : targets = IF r = None THEN Listed(S) \cup {None} ELSE {r}
  OBVIOUS
<1>3. targets \subseteq Recs \cup {None}
  BY <1>2 DEF Listed
<1>4. \/ \E t \in targets : T = Enter(GrabEm(B, "normal"), "function", t, f, {}, FALSE)
      \/ T = EndFunction(B, f)
  BY <1>0, <1>1, <1>2 DEF ExecuteComplexFunction
<1> QED
  BY <1>1, <1>3, <1>4, CallGood, EndBegunGood

\* Any command keeps the invariant.
LEMMA ExecuteGood ==
  ASSUME NEW S \in States, Good(S), NEW cmd \in Commands, NEW r \in Recs \cup {None},
         NEW T \in Execute(S, cmd, r)
  PROVE  Good(T)
<1>1. CASE cmd = "close"
  BY <1>1, DestroyGood DEF Execute
<1>2. CASE cmd = "wait"
  BY <1>2, WaitGood DEF Execute
<1>3. CASE cmd = "menu"
  <2>1. T = S \/ T = Enter(GrabEm(S, "menu"), "menu", r, None, {}, FALSE)
    BY <1>3 DEF Execute, CmdMenu
  <2>2. "menu" \in {"normal", "menu", "passive"} /\ "menu" \in Kinds
    BY DEF Kinds
  <2> QED
    BY <2>1, <2>2, GrabbedGood
<1>4. CASE cmd = "all"
  BY <1>4, AllGood DEF Execute
<1>5. CASE cmd = "function"
  <2>1. T = S \/ \E f \in DOMAIN S.uses : T \in ExecuteComplexFunction(S, f, r)
    BY <1>5 DEF Execute
  <2> QED
    BY <2>1, FunctionGood
<1>6. CASE cmd = "destroyfunc"
  <2>1. T = S \/ \E f \in DOMAIN S.uses : T = DestroyFunction(S, f)
    BY <1>6 DEF Execute
  <2> QED
    BY <2>1, DestroyFunctionGood
<1>7. CASE cmd = "addtofunc"
  <2>1. \E f \in Functions : T = AddToFunction(S, f)
    BY <1>7 DEF Execute
  <2> QED
    BY <2>1, AddToFunctionGood
<1> QED
  BY <1>1, <1>2, <1>3, <1>4, <1>5, <1>6, <1>7 DEF Commands

-----------------------------------------------------------------------------
\* Becomes gives the variables the fields of a state.
LEMMA BecomesNow ==
  ASSUME NEW S \in States, Becomes(S)
  PROVE  Now' = S
<1>1. S = [win |-> S.win, context |-> S.context, doomed |-> S.doomed, flags |-> S.flags,
           uses |-> S.uses, grab |-> S.grab, frames |-> S.frames]
  BY DEF States
<1> QED
  BY <1>1 DEF Becomes, Now

\* States that are good have the types.
LEMMA GoodState ==
  ASSUME NEW S, Good(S)
  PROVE  S \in States
BY DEF Good, Kept

\* The fields of Now are the variables.
LEMMA NowFields ==
  /\ Now.win = win /\ Now.context = context /\ Now.doomed = doomed /\ Now.flags = flags
  /\ Now.uses = uses /\ Now.grab = grab /\ Now.frames = frames
BY DEF Now

\* So does a step that executes one of some commands.
LEMMA StepGood ==
  ASSUME NEW S, Good(S), NEW cmds \in SUBSET Commands, NEW r \in Recs \cup {None},
         Step(cmds, S, r)
  PROVE  Good(Now')
<1>1. S \in States
  BY GoodState
<1>2. CASE Becomes(S)
  BY <1>1, <1>2, BecomesNow
<1>3. ASSUME NEW cmd \in cmds, NEW T \in Execute(S, cmd, r), Becomes(T)
      PROVE  Good(Now')
  <2>1. Good(T)
    BY <1>1, ExecuteGood
  <2> QED
    BY <1>3, <2>1, GoodState, BecomesNow
<1> QED
  BY <1>2, <1>3 DEF Step

\* Setting the frames leaves the rest of the state alone.
LEMMA FramesSet ==
  ASSUME NEW S \in States, NEW fr \in Seq(Frame), NEW T, T = [S EXCEPT !.frames = fr]
  PROVE  /\ T \in States /\ T.frames = fr /\ T.win = S.win /\ T.context = S.context
         /\ T.doomed = S.doomed /\ T.flags = S.flags /\ T.uses = S.uses /\ T.grab = S.grab
BY DEF States

\* L is S without its innermost frame x.
Left(S, L, x) ==
  /\ L \in States /\ x \in Frame /\ S.frames = Append(L.frames, x)
  /\ L.win = S.win /\ L.context = S.context
  /\ L.doomed = S.doomed /\ L.flags = S.flags /\ L.uses = S.uses /\ L.grab = S.grab

\* Leave takes the innermost frame away.
LEMMA LeaveFields ==
  ASSUME NEW S \in States, S.frames # <<>>
  PROVE  Left(S, Leave(S), Last(S.frames)) /\ S.frames[Len(S.frames)] = Last(S.frames)
<1>1. PICK fr \in Seq(Frame), x \in Frame :
        S.frames = Append(fr, x) /\ fr = Front(S.frames) /\ x = Last(S.frames)
  BY StateParts, Popped
<1>2. Leave(S) = [S EXCEPT !.frames = fr]
  BY <1>1 DEF Leave, States
<1>3. /\ Leave(S) \in States /\ Leave(S).frames = fr /\ Leave(S).win = S.win
      /\ Leave(S).context = S.context /\ Leave(S).doomed = S.doomed
      /\ Leave(S).flags = S.flags /\ Leave(S).uses = S.uses /\ Leave(S).grab = S.grab
  BY <1>2, FramesSet
<1> QED
  BY <1>1, <1>3 DEF Left, Last

\* The innermost frame is counted.
LEMMA TopHits ==
  ASSUME NEW S \in States, NEW fr \in Seq(Frame), NEW x \in Frame, NEW P, x \in P,
         S.frames = Append(fr, x)
  PROVE  Hits(S.frames, P) \in Nat /\ Hits(S.frames, P) > 0
<1>1. Hits(fr, P) \in Nat
  BY HitsNat
<1>2. Hits(S.frames, P) = Hits(fr, P) + 1
  BY PushedHits
<1> QED
  BY <1>1, <1>2

\* A frame that grabbed nothing gives nothing back.
LEMMA NoGrabs ==
  ASSUME NEW g, NEW x, g.normal \in Nat, g.menu \in Nat, g.passive \in Nat,
         x.kind # "menu", x.kind # "click", x.kind # "function"
  PROVE  GrabsLess(g, g, x)
<1>1. \A n \in Nat : n = n + 0 /\ n + 0 <= n + 0 /\ n + 0 <= n + 1
  OBVIOUS
<1> QED
  BY <1>1 DEF GrabsLess

\* A frame that gives nothing back ends.
LEMMA LeavePlain ==
  ASSUME NEW S \in States, Good(S), NEW L, NEW x, Left(S, L, x),
         Plain(x), x \notin Regrabbing, x.kind # "put off", x.kind # "destroy"
  PROVE  Good(L)
<1>1. /\ L \in States /\ x \in Frame /\ S.frames = Append(L.frames, x)
      /\ L.flags = S.flags /\ L.uses = S.uses /\ L.grab = S.grab
  BY DEF Left
<1>2. Same(S, L)
  BY DEF Left, Same
<1>3. x.kind # "item" /\ x.kind # "function" /\ x.kind # "menu" /\ x.kind # "click" /\ Fits(x)
  BY DEF Plain
<1>4. Kept(S) /\ PointerFits(S.grab)
  BY DEF Good, Kept
<1>5. FlagsMore(L.flags, S.flags, x) /\ UsesMore(L.uses, S.uses, x)
  BY <1>1, <1>3, <1>4, NoFlags, NoUses
<1>6. S.grab.normal \in Nat /\ S.grab.menu \in Nat /\ S.grab.passive \in Nat
  BY StateParts
<1>7. GrabsLess(S.grab, L.grab, x)
  BY <1>1, <1>3, <1>6, NoGrabs
<1> QED
  BY <1>1, <1>2, <1>4, <1>5, <1>7, ShrinkGood

-----------------------------------------------------------------------------
\* What is known of a state and its innermost frame.
LEMMA LeftParts ==
  ASSUME NEW S \in States, Good(S), NEW L, NEW x, Left(S, L, x)
  PROVE  /\ L \in States /\ x \in Frame /\ S.frames = Append(L.frames, x)
         /\ L.flags = S.flags /\ L.uses = S.uses /\ L.grab = S.grab
         /\ Same(S, L) /\ Kept(S) /\ PointerFits(S.grab) /\ Fits(x)
         /\ FlagsFit(S.flags, S.frames) /\ UsesFit(S.uses, S.frames)
         /\ GrabsFit(S.grab, S.frames)
<1>1. /\ L \in States /\ x \in Frame /\ S.frames = Append(L.frames, x)
      /\ L.flags = S.flags /\ L.uses = S.uses /\ L.grab = S.grab /\ Same(S, L)
  BY DEF Left, Same
<1>2. /\ Kept(S) /\ PointerFits(S.grab) /\ FramesFit(S.frames)
      /\ FlagsFit(S.flags, S.frames) /\ UsesFit(S.uses, S.frames)
      /\ GrabsFit(S.grab, S.frames)
  BY DEF Good, Kept
<1>3. Fits(x)
  BY <1>1, <1>2, PushFrames, StateParts
<1> QED
  BY <1>1, <1>2, <1>3

\* A menu or a click ends and gives back its grab.
LEMMA LeaveGrabbed ==
  ASSUME NEW S \in States, Good(S), NEW L, NEW x, Left(S, L, x),
         NEW ctx \in {"normal", "menu", "passive"}, NEW T,
         \/ x.kind = "menu" /\ ctx = "menu"
         \/ x.kind = "click" /\ ctx = "passive"
  PROVE  T = UngrabEm(L, ctx) => Good(T)
<1>0. SUFFICES ASSUME T = UngrabEm(L, ctx) PROVE Good(T)
  OBVIOUS
<1>1. /\ L \in States /\ x \in Frame /\ S.frames = Append(L.frames, x)
      /\ L.flags = S.flags /\ L.uses = S.uses /\ L.grab = S.grab
      /\ Same(S, L) /\ Kept(S) /\ PointerFits(S.grab) /\ Fits(x)
      /\ GrabsFit(S.grab, S.frames)
  BY LeftParts
<1>2. L.frames \in Seq(Frame)
  BY <1>1, StateParts
<1>3. S.grab.normal \in Nat /\ S.grab.menu \in Nat /\ S.grab.passive \in Nat
  BY StateParts
<1>4. S.grab[ctx] # 0
  <2>1. x \in OfKind(x.kind)
    BY <1>1 DEF OfKind
  <2>2. Hits(S.frames, OfKind(x.kind)) > 0
    BY <1>1, <1>2, <2>1, TopHits
  <2>3. S.grab[ctx] = Hits(S.frames, OfKind(x.kind))
    BY <1>1 DEF GrabsFit
  <2> QED
    BY <2>2, <2>3
<1>5. /\ T \in States
      /\ T.win = L.win /\ T.context = L.context /\ T.doomed = L.doomed
      /\ T.flags = L.flags /\ T.uses = L.uses /\ T.frames = L.frames
  BY <1>0, <1>1, UngrabFields
<1>6. /\ T.grab.normal = S.grab.normal - (IF ctx = "normal" THEN 1 ELSE 0)
      /\ T.grab.menu = S.grab.menu - (IF ctx = "menu" THEN 1 ELSE 0)
      /\ T.grab.passive = S.grab.passive - (IF ctx = "passive" THEN 1 ELSE 0)
  <2>1. L.grab[ctx] # 0 /\ L.grab = S.grab
    BY <1>1, <1>4
  <2> QED
    BY <1>0, <1>1, <2>1, UngrabFields
<1>7. PointerFits(T.grab)
  BY <1>0, <1>1, UngrabPointer
<1>8. /\ x.kind # "item" /\ x.kind # "function" /\ x.kind # "put off"
      /\ x.kind # "destroy" /\ x.kind # "wait"
      /\ x.kind = "menu" <=> ctx = "menu"
      /\ x.kind = "click" <=> ctx = "passive"
      /\ ctx # "normal"
  OBVIOUS
<1>9. GrabsLess(S.grab, T.grab, x)
  <2>1. T.grab.normal \in Nat /\ T.grab.menu \in Nat /\ T.grab.passive \in Nat
    BY <1>5, StateParts
  <2>2. x \notin Regrabbing
    BY <1>8 DEF Regrabbing
  <2>a. ctx # "normal" /\ (ctx = "menu" <=> x.kind = "menu") /\ (ctx = "passive" <=> x.kind = "click")
    BY <1>8
  <2>3. T.grab.normal = S.grab.normal
    BY <1>3, <1>6, <2>a
  <2>4. S.grab.menu = T.grab.menu + (IF x.kind = "menu" THEN 1 ELSE 0)
    BY <1>3, <1>6, <2>a
  <2>5. S.grab.passive = T.grab.passive + (IF x.kind = "click" THEN 1 ELSE 0)
    BY <1>3, <1>6, <2>a
  <2>6. x.kind # "function"
    BY <1>8
  <2> QED
    BY <1>3, <2>2, <2>3, <2>4, <2>5, <2>6 DEF GrabsLess
<1>10. FlagsMore(T.flags, S.flags, x) /\ UsesMore(T.uses, S.uses, x)
  <2>1. T.flags = S.flags /\ T.uses = S.uses
    BY <1>1, <1>5
  <2> QED
    BY <1>1, <1>8, <2>1, NoFlags, NoUses
<1>11. Same(S, T)
  BY <1>1, <1>5 DEF Same
<1> QED
  BY <1>1, <1>5, <1>7, <1>8, <1>9, <1>10, <1>11, ShrinkGood

\* A complex function ends.
LEMMA LeaveFunction ==
  ASSUME NEW S \in States, Good(S), NEW L, NEW x, Left(S, L, x), x.kind = "function", NEW T
  PROVE  T = UngrabEm(EndFunction(L, x.func), "normal")
           => Good(T) /\ Same(S, T) /\ T.frames = L.frames
<1>0. SUFFICES ASSUME T = UngrabEm(EndFunction(L, x.func), "normal")
               PROVE  Good(T) /\ Same(S, T) /\ T.frames = L.frames
  OBVIOUS
<1>1. /\ L \in States /\ x \in Frame /\ S.frames = Append(L.frames, x)
      /\ L.flags = S.flags /\ L.uses = S.uses /\ L.grab = S.grab
      /\ Same(S, L) /\ Kept(S) /\ PointerFits(S.grab) /\ Fits(x)
      /\ FlagsFit(S.flags, S.frames) /\ UsesFit(S.uses, S.frames)
  BY LeftParts
<1>2. L.frames \in Seq(Frame)
  BY <1>1, StateParts
<1>3. /\ S.grab.normal \in Nat /\ S.grab.menu \in Nat /\ S.grab.passive \in Nat
      /\ S.flags.depth \in Nat /\ \A g \in DOMAIN S.uses : S.uses[g] \in Nat
  BY StateParts
<1>4. S.flags.depth # 0
  <2>1. x \in OfKind("function")
    BY <1>1 DEF OfKind
  <2>2. Hits(S.frames, OfKind("function")) > 0
    BY <1>1, <1>2, <2>1, TopHits
  <2> QED
    BY <1>1, <2>2 DEF FlagsFit
<1>5. x.func \in DOMAIN L.uses /\ L.uses[x.func] # 0
  <2>1. x \in Running(x.func)
    BY <1>1 DEF Running
  <2>2. Hits(S.frames, Running(x.func)) > 0
    BY <1>1, <1>2, <2>1, TopHits
  <2>3. PICK n \in Nat : n = Len(L.frames)
    BY <1>2
  <2>4. Len(S.frames) = n + 1 /\ S.frames[n + 1] = x
    BY <1>1, <1>2, <2>3, Pushed
  <2>5. x.func \in DOMAIN S.uses
    BY <1>1, <2>4 DEF UsesFit
  <2>6. S.uses[x.func] = Hits(S.frames, Running(x.func))
    BY <1>1, <2>5 DEF UsesFit
  <2> QED
    BY <1>1, <2>2, <2>5, <2>6
<1>6. PICK E : E = EndFunction(L, x.func)
  OBVIOUS
<1>7. /\ E \in States /\ Same(L, E) /\ E.grab = L.grab /\ E.frames = L.frames
      /\ E.flags.depth = L.flags.depth - 1
      /\ E.flags.function <=> L.flags.function /\ L.flags.depth # 1
      /\ E.flags.menu = L.flags.menu
      /\ UsesChanged(L.uses, E.uses, x.func, -1)
  <2>1. L.flags.depth # 0
    BY <1>1, <1>4
  <2> QED
    BY <1>1, <1>5, <1>6, <2>1, EndFields
<1>8. /\ T \in States
      /\ T.win = E.win /\ T.context = E.context /\ T.doomed = E.doomed
      /\ T.flags = E.flags /\ T.uses = E.uses /\ T.frames = E.frames
  BY <1>0, <1>6, <1>7, UngrabFields
<1>9. /\ T.grab.normal = (IF S.grab.normal = 0 THEN 0 ELSE S.grab.normal - 1)
      /\ T.grab.menu = S.grab.menu /\ T.grab.passive = S.grab.passive
  <2>1. E.grab = S.grab
    BY <1>1, <1>7
  <2>2. CASE S.grab.normal = 0
    <3>1. T = E
      BY <1>0, <1>6, <1>7, <2>1, <2>2, UngrabFields
    <3> QED
      BY <2>1, <2>2, <3>1
  <2>3. CASE S.grab.normal # 0
    BY <1>0, <1>3, <1>6, <1>7, <2>1, <2>3, UngrabFields
  <2> QED
    BY <2>2, <2>3
<1>10. PointerFits(T.grab)
  <2>1. PointerFits(E.grab)
    BY <1>1, <1>7
  <2> QED
    BY <1>0, <1>6, <1>7, <2>1, UngrabPointer
<1>11. /\ x.kind # "item" /\ x.kind # "put off" /\ x.kind # "destroy"
       /\ x.kind # "wait" /\ x.kind # "menu" /\ x.kind # "click"
  OBVIOUS
<1>12. GrabsLess(S.grab, T.grab, x)
  <2>1. T.grab.normal = 0 \/ T.grab.normal + 1 = S.grab.normal
    BY <1>3, <1>9
  <2>2. x \notin Regrabbing
    BY <1>11 DEF Regrabbing
  <2>3. T.grab.menu = S.grab.menu /\ T.grab.passive = S.grab.passive
    BY <1>9
  <2> QED
    BY <1>3, <1>11, <2>1, <2>2, <2>3 DEF GrabsLess
<1>13. FlagsMore(T.flags, S.flags, x)
  <2>1. S.flags.function <=> S.flags.depth > 0
    BY <1>1 DEF FlagsFit
  <2>2. T.flags.depth = S.flags.depth - 1 /\ T.flags.menu = S.flags.menu
    BY <1>1, <1>7, <1>8
  <2>3. T.flags.function <=> S.flags.function /\ S.flags.depth # 1
    BY <1>1, <1>7, <1>8
  <2> QED
    BY <1>3, <1>4, <1>11, <2>1, <2>2, <2>3 DEF FlagsMore
<1>14. UsesMore(T.uses, S.uses, x)
  <2>1. UsesChanged(S.uses, T.uses, x.func, -1)
    BY <1>1, <1>7, <1>8
  <2> QED
    BY <1>3, <2>1 DEF UsesMore, UsesChanged
<1>15. Same(S, T)
  BY <1>1, <1>7, <1>8 DEF Same
<1>16. S.frames = Append(T.frames, x) /\ T.frames = L.frames
  BY <1>1, <1>7, <1>8
<1> QED
  BY <1>1, <1>8, <1>10, <1>11, <1>12, <1>13, <1>14, <1>15, <1>16, ShrinkGood

\* A menu's action ends: is_executing_menu_function is restored.
LEMMA LeaveItem ==
  ASSUME NEW S \in States, Good(S), NEW L, NEW x, Left(S, L, x), x.kind = "item", NEW T
  PROVE  T = [L EXCEPT !.flags.menu = x.saved] => Good(T) /\ Same(S, T) /\ T.frames = L.frames
<1>0. SUFFICES ASSUME T = [L EXCEPT !.flags.menu = x.saved]
               PROVE  Good(T) /\ Same(S, T) /\ T.frames = L.frames
  OBVIOUS
<1>1. /\ L \in States /\ x \in Frame /\ S.frames = Append(L.frames, x)
      /\ L.flags = S.flags /\ L.uses = S.uses /\ L.grab = S.grab
      /\ Same(S, L) /\ Kept(S) /\ PointerFits(S.grab) /\ Fits(x)
      /\ FlagsFit(S.flags, S.frames)
  BY LeftParts
<1>2. /\ L.frames \in Seq(Frame) /\ L.flags \in Flags /\ L.flags.depth \in Nat
      /\ S.grab.normal \in Nat /\ S.grab.menu \in Nat /\ S.grab.passive \in Nat
  BY <1>1, StateParts DEF States
<1>3. x.saved \in BOOLEAN
  BY <1>1 DEF Frame
<1>4. PICK fl : fl = [L.flags EXCEPT !.menu = x.saved]
  OBVIOUS
<1>5. /\ fl \in Flags /\ fl.menu = x.saved /\ fl.depth = L.flags.depth
      /\ fl.function = L.flags.function /\ fl.scheduled = L.flags.scheduled
  BY <1>2, <1>3, <1>4 DEF Flags
<1>6. T = [L EXCEPT !.flags = fl]
  BY <1>0, <1>1, <1>4 DEF States
<1>7. /\ T \in States /\ T.flags = fl /\ T.win = L.win /\ T.context = L.context
      /\ T.doomed = L.doomed /\ T.uses = L.uses /\ T.grab = L.grab /\ T.frames = L.frames
  BY <1>1, <1>5, <1>6 DEF States
<1>8. /\ x.kind # "function" /\ x.kind # "put off" /\ x.kind # "destroy"
      /\ x.kind # "wait" /\ x.kind # "menu" /\ x.kind # "click"
  OBVIOUS
<1>9. S.flags.menu
  <2>1. PICK n \in Nat : n = Len(L.frames)
    BY <1>2
  <2>2. Len(S.frames) = n + 1 /\ S.frames[n + 1] = x
    BY <1>1, <1>2, <2>1, Pushed
  <2>3. n + 1 \in 1..Len(S.frames)
    BY <2>2
  <2> QED
    BY <1>1, <2>2, <2>3 DEF FlagsFit
<1>10. FlagsMore(T.flags, S.flags, x)
  <2>1. S.flags.function <=> S.flags.depth > 0
    BY <1>1 DEF FlagsFit
  <2>2. T.flags.depth = S.flags.depth /\ T.flags.function = S.flags.function
    BY <1>1, <1>5, <1>7
  <2>3. T.flags.menu = x.saved
    BY <1>5, <1>7
  <2>4. S.flags.depth = T.flags.depth + 0
    BY <1>1, <1>2, <2>2
  <2> QED
    BY <1>8, <1>9, <2>1, <2>2, <2>3, <2>4 DEF FlagsMore
<1>11. T.grab = S.grab /\ T.uses = S.uses
  BY <1>1, <1>7
<1>12. GrabsLess(S.grab, T.grab, x) /\ UsesMore(T.uses, S.uses, x)
  BY <1>1, <1>2, <1>8, <1>11, NoGrabs, NoUses
<1>13. Same(S, T)
  BY <1>1, <1>5, <1>7 DEF Same
<1> QED
  BY <1>1, <1>7, <1>8, <1>10, <1>11, <1>12, <1>13, ShrinkGood

\* Wait returns, with or without its grab.
LEMMA LeaveWait ==
  ASSUME NEW S \in States, Good(S), NEW L, NEW x, Left(S, L, x), x.kind = "wait", NEW T
  PROVE  /\ Good(L)
         /\ x.saved /\ T = GrabEm(L, "normal") => Good(T)
<1>1. /\ L \in States /\ x \in Frame /\ S.frames = Append(L.frames, x)
      /\ L.flags = S.flags /\ L.uses = S.uses /\ L.grab = S.grab
      /\ Same(S, L) /\ Kept(S) /\ PointerFits(S.grab) /\ Fits(x)
  BY LeftParts
<1>2. S.grab.normal \in Nat /\ S.grab.menu \in Nat /\ S.grab.passive \in Nat
  BY StateParts
<1>3. /\ x.kind # "item" /\ x.kind # "function" /\ x.kind # "put off"
      /\ x.kind # "destroy" /\ x.kind # "menu" /\ x.kind # "click"
  OBVIOUS
<1>4. Good(L)
  <2>1. GrabsLess(S.grab, L.grab, x)
    BY <1>1, <1>2, <1>3, NoGrabs
  <2>2. FlagsMore(L.flags, S.flags, x) /\ UsesMore(L.uses, S.uses, x)
    BY <1>1, <1>3, NoFlags, NoUses
  <2> QED
    BY <1>1, <1>3, <2>1, <2>2, ShrinkGood
<1>5. ASSUME x.saved, T = GrabEm(L, "normal")
      PROVE  Good(T)
  <2>0. "normal" \in {"normal", "menu", "passive"}
    OBVIOUS
  <2>1. /\ T \in States
        /\ T.win = L.win /\ T.context = L.context /\ T.doomed = L.doomed
        /\ T.flags = L.flags /\ T.uses = L.uses /\ T.frames = L.frames
    BY <1>1, <1>5, <2>0, GrabFields
  <2>2. /\ T.grab.normal = L.grab.normal + 1
        /\ T.grab.menu = L.grab.menu + 0 /\ T.grab.passive = L.grab.passive + 0
    <3>1. L.grab.menu \in Nat /\ L.grab.passive \in Nat
      BY <1>1, <1>2
    <3> QED
      BY <1>1, <1>5, <2>0, <3>1, GrabFields
  <2>3. PointerFits(T.grab)
    BY <1>1, <1>5, <2>0, GrabPointer
  <2>4. x \in Regrabbing
    BY <1>1, <1>5 DEF Regrabbing
  <2>5. GrabsLess(S.grab, T.grab, x)
    <3>1. T.grab.normal = S.grab.normal + 1
      BY <1>1, <2>2
    <3>2. T.grab.menu = S.grab.menu /\ T.grab.passive = S.grab.passive
      BY <1>1, <1>2, <2>2
    <3>3. /\ S.grab.menu = T.grab.menu + 0 /\ S.grab.passive = T.grab.passive + 0
          /\ T.grab.normal + 0 <= S.grab.normal + 1
      BY <1>2, <3>1, <3>2
    <3> QED
      BY <1>3, <2>4, <3>3 DEF GrabsLess
  <2>6. FlagsMore(T.flags, S.flags, x) /\ UsesMore(T.uses, S.uses, x)
    <3>1. T.flags = S.flags /\ T.uses = S.uses
      BY <1>1, <2>1
    <3> QED
      BY <1>1, <1>3, <3>1, NoFlags, NoUses
  <2>7. Same(S, T) /\ S.frames = Append(T.frames, x)
    BY <1>1, <2>1 DEF Same
  <2> QED
    BY <1>1, <1>3, <2>1, <2>3, <2>5, <2>6, <2>7, ShrinkGood
<1> QED
  BY <1>4, <1>5

\* Positions below a frame.
LEMMA Below ==
  \A k \in Nat : k > 1 => k - 1 \in 1..k /\ \A j \in 1..(k - 1) : j \in 1..k
OBVIOUS

\* An action fits if the frames up to it have not changed their kinds.
LEMMA SameItem ==
  ASSUME NEW fr, NEW gr, NEW i \in Nat, ItemFits(fr, i),
         gr[i].saved = fr[i].saved, \A j \in 1..i : gr[j].kind = fr[j].kind
  PROVE  ItemFits(gr, i)
<1>1. i > 1 /\ fr[i - 1].kind \in {"menu", "closed menu"}
  BY AfterMenu
<1>2. i - 1 \in 1..i /\ \A j \in 1..(i - 1) : j \in 1..i
  BY <1>1, Below
<1>3. gr[i - 1].kind \in {"menu", "closed menu"}
  BY <1>1, <1>2
<1>4. fr[i].saved <=> \E j \in 1..(i - 1) : fr[j].kind = "item"
  BY SavedByItem
<1>5. gr[i].saved <=> \E j \in 1..(i - 1) : gr[j].kind = "item"
  BY <1>2, <1>4
<1> QED
  BY <1>1, <1>3, <1>5 DEF ItemFits

\* What matches frames matches others of the same kinds and functions.
LEMMA SameKinds ==
  ASSUME NEW fr \in Seq(Frame), NEW gr \in Seq(Frame), Len(fr) = Len(gr),
         \A i \in 1..Len(fr) : /\ gr[i].kind = fr[i].kind /\ gr[i].func = fr[i].func
                               /\ gr[i].saved = fr[i].saved /\ Fits(gr[i])
  PROVE  /\ FramesFit(fr) => FramesFit(gr)
         /\ \A fl : FlagsFit(fl, fr) => FlagsFit(fl, gr)
         /\ \A us : UsesFit(us, fr) => UsesFit(us, gr)
         /\ \A g : GrabsFit(g, fr) => GrabsFit(g, gr)
<1>1. PICK n \in Nat : n = Len(fr)
  OBVIOUS
<1>2. \A i \in 1..n : fr[i] \in Frame /\ gr[i] \in Frame
  BY <1>1, ElementOfSeq
<1>3. ASSUME NEW k \in 0..n
      PROVE  /\ \A kind : UpTo(gr, k, OfKind(kind)) = UpTo(fr, k, OfKind(kind))
             /\ \A f : UpTo(gr, k, Running(f)) = UpTo(fr, k, Running(f))
             /\ UpTo(gr, k, Regrabbing) = UpTo(fr, k, Regrabbing)
  <2>1. \A i \in 1..k : i \in 1..n
    BY <1>1
  <2>2. \A kind : \A i \in 1..k : gr[i] \in OfKind(kind) <=> fr[i] \in OfKind(kind)
    BY <1>1, <1>2, <2>1 DEF OfKind
  <2>3. \A f : \A i \in 1..k : gr[i] \in Running(f) <=> fr[i] \in Running(f)
    BY <1>1, <1>2, <2>1 DEF Running
  <2>4. \A i \in 1..k : gr[i] \in Regrabbing <=> fr[i] \in Regrabbing
    BY <1>1, <1>2, <2>1 DEF Regrabbing
  <2>5. \A kind : UpTo(gr, k, OfKind(kind)) = UpTo(fr, k, OfKind(kind))
    BY <2>2, UpToSame
  <2>6. \A f : UpTo(gr, k, Running(f)) = UpTo(fr, k, Running(f))
    BY <2>3, UpToSame
  <2>7. UpTo(gr, k, Regrabbing) = UpTo(fr, k, Regrabbing)
    BY <2>4, UpToSame
  <2> QED
    BY <2>5, <2>6, <2>7
<1>4. /\ \A kind : Hits(gr, OfKind(kind)) = Hits(fr, OfKind(kind))
      /\ \A f : Hits(gr, Running(f)) = Hits(fr, Running(f))
      /\ Hits(gr, Regrabbing) = Hits(fr, Regrabbing)
  <2>1. n \in 0..n
    BY <1>1
  <2> QED
    BY <1>1, <1>3, <2>1 DEF Hits
<1>5. FramesFit(fr) => FramesFit(gr)
  <2>1. ASSUME NEW i \in 1..n, ItemFits(fr, i)
        PROVE  ItemFits(gr, i)
    <3>1. i \in Nat /\ \A j \in 1..i : j \in 1..n
      OBVIOUS
    <3>2. gr[i].saved = fr[i].saved /\ \A j \in 1..i : gr[j].kind = fr[j].kind
      BY <1>1, <3>1
    <3> QED
      BY <2>1, <3>1, <3>2, SameItem
  <2> QED
    BY <1>1, <2>1 DEF FramesFit
<1>6. \A fl : FlagsFit(fl, fr) => FlagsFit(fl, gr)
  BY <1>4 DEF FlagsFit
<1>7. \A us : UsesFit(us, fr) => UsesFit(us, gr)
  BY <1>4 DEF UsesFit
<1>8. \A g : GrabsFit(g, fr) => GrabsFit(g, gr)
  BY <1>1, <1>3, <1>4 DEF GrabsFit
<1> QED
  BY <1>5, <1>6, <1>7, <1>8

\* T is S but for the window, or the windows to do, of the innermost frame,
\* which is no broadcast.
Retopped(S, T, fr, x, y) ==
  /\ S.frames = Append(fr, x) /\ T.frames = Append(fr, y)
  /\ Same(S, T) /\ T.flags = S.flags /\ T.uses = S.uses /\ T.grab = S.grab
  /\ y.kind = x.kind /\ y.func = x.func /\ y.saved = x.saved /\ Fits(y)
  /\ x.kind # "put off" /\ x.kind # "destroy"

\* The innermost frame may change the windows it keeps.
LEMMA ChangeTop ==
  ASSUME NEW S \in States, Good(S), NEW fr \in Seq(Frame), NEW x \in Frame, NEW y \in Frame,
         NEW T \in States, Retopped(S, T, fr, x, y)
  PROVE  Good(T)
<1>1. PICK n \in Nat : n = Len(fr)
  OBVIOUS
<1>r. S.frames = Append(fr, x) /\ T.frames = Append(fr, y)
  BY DEF Retopped
<1>k. y.kind = x.kind /\ y.func = x.func /\ y.saved = x.saved /\ Fits(y)
  BY DEF Retopped
<1>2. /\ Len(S.frames) = n + 1 /\ Len(T.frames) = n + 1
      /\ S.frames[n + 1] = x /\ T.frames[n + 1] = y
      /\ \A i \in 1..n : S.frames[i] = fr[i] /\ T.frames[i] = fr[i]
  BY <1>1, <1>r, Pushed
<1>3. FramesFit(S.frames) /\ Kept(S) /\ S.frames \in Seq(Frame) /\ T.frames \in Seq(Frame)
  BY StateParts DEF Good, Kept
<1>4. \A i \in 1..(n + 1) : Fits(S.frames[i])
  BY <1>2, <1>3 DEF FramesFit
<1>5. \A i \in 1..(n + 1) : i \in 1..n \/ i = n + 1
  OBVIOUS
<1>6. \A i \in 1..(n + 1) :
        /\ T.frames[i].kind = S.frames[i].kind /\ T.frames[i].func = S.frames[i].func
        /\ T.frames[i].saved = S.frames[i].saved /\ Fits(T.frames[i])
  BY <1>2, <1>4, <1>5, <1>k
<1>7. Kept(T)
  BY <1>2, <1>3, <1>6, SameKinds DEF Kept, Retopped
<1>8. Quiet(S, T)
  <2>1. ASSUME NEW k, x.kind # k
        PROVE  Held(S.frames, {k}) = Held(T.frames, {k})
    <3>1. Held(S.frames, {k}) = Held(fr, {k}) \cup (IF x.kind \in {k} THEN {x.win} ELSE {})
      BY <1>r, PushedHeld
    <3>2. Held(T.frames, {k}) = Held(fr, {k}) \cup (IF y.kind \in {k} THEN {y.win} ELSE {})
      BY <1>r, PushedHeld
    <3> QED
      BY <1>k, <2>1, <3>1, <3>2
  <2> QED
    BY <2>1 DEF Quiet, Same, Retopped
<1> QED
  BY <1>7, <1>8, QuietStep

-----------------------------------------------------------------------------
\* The flags, uses and grabs match when destroy_window returns.
LEMMA LeaveKept ==
  ASSUME NEW S \in States, Good(S), NEW L, NEW x, Left(S, L, x),
         x.kind \in {"put off", "destroy"}
  PROVE  Kept(L) /\ x.win \in Recs
<1>1. /\ L \in States /\ x \in Frame /\ S.frames = Append(L.frames, x)
      /\ L.flags = S.flags /\ L.uses = S.uses /\ L.grab = S.grab
      /\ Kept(S) /\ PointerFits(S.grab) /\ Fits(x)
  BY LeftParts
<1>2. S.grab.normal \in Nat /\ S.grab.menu \in Nat /\ S.grab.passive \in Nat
  BY StateParts
<1>3. x.kind # "item" /\ x.kind # "function" /\ x.kind # "menu" /\ x.kind # "click"
  OBVIOUS
<1>4. FlagsMore(L.flags, S.flags, x) /\ UsesMore(L.uses, S.uses, x) /\ GrabsLess(S.grab, L.grab, x)
  BY <1>1, <1>2, <1>3, NoFlags, NoUses, NoGrabs
<1>5. x.win \in Recs
  BY <1>1 DEF Fits, Frame
<1> QED
  BY <1>1, <1>4, <1>5, Shrink

\* destroy_window that put its window off no longer keeps it.
LEMMA LeftPutOff ==
  ASSUME NEW S \in States, NEW L, NEW x, Left(S, L, x)
  PROVE  x.kind = "put off" =>
           /\ Held(S.frames, {"put off"}) = Held(L.frames, {"put off"}) \cup {x.win}
           /\ Held(S.frames, {"destroy"}) = Held(L.frames, {"destroy"})
<1>1. /\ L \in States /\ x \in Frame /\ S.frames = Append(L.frames, x)
      /\ L.frames \in Seq(Frame)
  BY StateParts DEF Left
<1>2. ASSUME NEW k
      PROVE  /\ x.kind = k => Held(S.frames, {k}) = Held(L.frames, {k}) \cup {x.win}
             /\ x.kind # k => Held(S.frames, {k}) = Held(L.frames, {k})
  <2>1. Held(S.frames, {k}) = Held(L.frames, {k}) \cup (IF x.kind \in {k} THEN {x.win} ELSE {})
    BY <1>1, PushedHeld
  <2> QED
    BY <2>1
<1>3. "put off" # "destroy"
  OBVIOUS
<1> QED
  BY <1>2, <1>3

\* So if it is to free its window.
LEMMA LeftDestroy ==
  ASSUME NEW S \in States, NEW L, NEW x, Left(S, L, x)
  PROVE  x.kind = "destroy" =>
           /\ Held(S.frames, {"destroy"}) = Held(L.frames, {"destroy"}) \cup {x.win}
           /\ Held(S.frames, {"put off"}) = Held(L.frames, {"put off"})
<1>1. /\ L \in States /\ x \in Frame /\ S.frames = Append(L.frames, x)
      /\ L.frames \in Seq(Frame)
  BY StateParts DEF Left
<1>2. ASSUME NEW k
      PROVE  /\ x.kind = k => Held(S.frames, {k}) = Held(L.frames, {k}) \cup {x.win}
             /\ x.kind # k => Held(S.frames, {k}) = Held(L.frames, {k})
  <2>1. Held(S.frames, {k}) = Held(L.frames, {k}) \cup (IF x.kind \in {k} THEN {x.win} ELSE {})
    BY <1>1, PushedHeld
  <2> QED
    BY <2>1
<1>3. "put off" # "destroy"
  OBVIOUS
<1> QED
  BY <1>2, <1>3

\* A window that is queued is pending.
LEMMA PendingAppend ==
  ASSUME NEW q \in Seq(Recs), NEW r \in Recs
  PROVE  Append(q, r) \in Seq(Recs) /\ Pending(Append(q, r)) = Pending(q) \cup {r}
<1>1. /\ Append(q, r) \in Seq(Recs) /\ Len(Append(q, r)) = Len(q) + 1
      /\ Append(q, r)[Len(q) + 1] = r /\ \A i \in 1..Len(q) : Append(q, r)[i] = q[i]
  BY AppendProperties
<1>2. PICK n \in Nat : n = Len(q)
  OBVIOUS
<1>3. 1..(n + 1) = 1..n \cup {n + 1}
  OBVIOUS
<1> QED
  BY <1>1, <1>2, <1>3 DEF Pending

\* destroy_window queues its window and returns.
LEMMA LeavePutOff ==
  ASSUME NEW S \in States, Good(S), NEW L, NEW x, Left(S, L, x), x.kind = "put off", NEW T
  PROVE  T = [L EXCEPT !.doomed = Append(@, x.win)] => Good(T)
<1>0. SUFFICES ASSUME T = [L EXCEPT !.doomed = Append(@, x.win)] PROVE Good(T)
  OBVIOUS
<1>1. Kept(L) /\ x.win \in Recs
  BY LeaveKept
<1>2. L \in States /\ L.doomed \in Seq(Recs)
  BY DEF Left, States
<1>3. PICK q : q = Append(L.doomed, x.win)
  OBVIOUS
<1>4. q \in Seq(Recs) /\ Pending(q) = Pending(L.doomed) \cup {x.win}
  BY <1>1, <1>2, <1>3, PendingAppend
<1>5. T = [L EXCEPT !.doomed = q]
  BY <1>0, <1>2, <1>3 DEF States
<1>6. /\ T \in States /\ T.doomed = q /\ T.win = L.win /\ T.context = L.context
      /\ T.flags = L.flags /\ T.uses = L.uses /\ T.grab = L.grab /\ T.frames = L.frames
  BY <1>2, <1>4, <1>5 DEF States
<1>7. Kept(T)
  BY <1>1, <1>6 DEF Kept
<1>8. /\ Held(S.frames, {"put off"}) = Held(T.frames, {"put off"}) \cup {x.win}
      /\ Held(S.frames, {"destroy"}) = Held(T.frames, {"destroy"})
  <2>1. /\ Held(S.frames, {"put off"}) = Held(L.frames, {"put off"}) \cup {x.win}
        /\ Held(S.frames, {"destroy"}) = Held(L.frames, {"destroy"})
    BY LeftPutOff
  <2> QED
    BY <1>6, <2>1
<1>9. /\ T.win = S.win /\ T.context = S.context /\ T.flags = S.flags
      /\ Pending(T.doomed) = Pending(S.doomed) \cup {x.win}
  BY <1>4, <1>6 DEF Left
<1>10. Contexts(T)
  BY <1>8, <1>9 DEF Good, Contexts
<1>11. Owed(T, {})
  BY <1>8, <1>9 DEF Good, Owed
<1> QED
  BY <1>7, <1>10, <1>11 DEF Good

\* destroy_window frees its window and returns.
LEMMA LeaveDestroy ==
  ASSUME NEW S \in States, Good(S), NEW L, NEW x, Left(S, L, x), x.kind = "destroy", NEW T
  PROVE  T = FreeWindow(L, x.win) => Good(T)
<1>0. SUFFICES ASSUME T = FreeWindow(L, x.win) PROVE Good(T)
  OBVIOUS
<1>1. Kept(L) /\ x.win \in Recs /\ L \in States
  BY LeaveKept DEF Left
<1>2. PICK r \in Recs : r = x.win
  BY <1>1
<1>3. /\ T \in States /\ Deleted(L, T, r) /\ Changed(L, T, r, "freed", 0)
      /\ T.flags = L.flags /\ T.frames = L.frames /\ Others(L, T)
  BY <1>0, <1>1, <1>2, FreeFields
<1>4. Kept(T)
  BY <1>1, <1>3 DEF Kept, Others
<1>5. /\ Held(S.frames, {"destroy"}) = Held(T.frames, {"destroy"}) \cup {r}
      /\ Held(S.frames, {"put off"}) = Held(T.frames, {"put off"})
  <2>1. /\ Held(S.frames, {"destroy"}) = Held(L.frames, {"destroy"}) \cup {x.win}
        /\ Held(S.frames, {"put off"}) = Held(L.frames, {"put off"})
    BY LeftDestroy
  <2> QED
    BY <1>2, <1>3, <2>1
<1>6. /\ T.win[r].status = "freed" /\ \A q \in Recs : q # r => T.win[q] = S.win[q]
      /\ \A c \in Clients : T.context[c] = IF S.context[c] = r THEN None ELSE S.context[c]
  BY <1>3 DEF Left, Changed, Deleted
<1>7. T.flags = S.flags /\ T.doomed = S.doomed
  BY <1>3 DEF Left, Others
<1>8. Contexts(T)
  <2>0. Contexts(S) /\ S.context \in [Clients -> Recs \cup {None}] /\ None \notin Recs
    BY WindowUseAssumption DEF Good, States
  <2>1. ASSUME NEW q \in Recs, T.win[q].status = "listed"
        PROVE  T.win[q].client \in Clients /\ T.context[T.win[q].client] = q
    BY <1>6, <2>0, <2>1 DEF Contexts
  <2>2. ASSUME NEW c \in Clients, T.context[c] # None
        PROVE  /\ T.context[c] = S.context[c] /\ S.context[c] # r /\ S.context[c] \in Recs
               /\ T.win[S.context[c]] = S.win[S.context[c]]
    BY <1>6, <2>0, <2>2
  <2>3. ASSUME NEW c \in Clients, T.context[c] # None
        PROVE  /\ T.win[T.context[c]].client = c
               /\ \/ T.win[T.context[c]].status = "listed"
                  \/ T.context[c] \in Held(T.frames, {"destroy"})
    <3>1. /\ T.context[c] = S.context[c] /\ S.context[c] # r
          /\ T.win[S.context[c]] = S.win[S.context[c]]
      BY <2>2, <2>3
    <3>2. S.context[c] # None
      BY <2>3, <3>1
    <3>3. /\ S.win[S.context[c]].client = c
          /\ \/ S.win[S.context[c]].status = "listed"
             \/ S.context[c] \in Held(S.frames, {"destroy"})
      BY <2>0, <3>2 DEF Contexts
    <3> QED
      BY <1>5, <3>1, <3>3
  <2> QED
    BY <2>1, <2>3 DEF Contexts
<1>9. Owed(T, {})
  BY <1>5, <1>6, <1>7 DEF Good, Owed
<1> QED
  BY <1>4, <1>8, <1>9 DEF Good

-----------------------------------------------------------------------------
\* A window is mapped for the first time and gets a context.
LEMMA MapGood ==
  ASSUME NEW S \in States, Good(S), NEW T \in States, NEW c \in Clients, NEW r \in Recs,
         S.context[c] = None, S.win[r].status \in {"none", "freed"},
         r \notin Held(S.frames, {"destroy"}),
         T.win[r].status = "listed", T.win[r].client = c,
         \A q \in Recs : q # r => T.win[q] = S.win[q],
         T.context = [S.context EXCEPT ![c] = r],
         T.doomed = S.doomed, T.flags = S.flags, T.uses = S.uses, T.grab = S.grab,
         T.frames = S.frames
  PROVE  Good(T)
<1>1. Kept(T)
  BY DEF Good, Kept
<1>2. S.context \in [Clients -> Recs \cup {None}] /\ None \notin Recs /\ Contexts(S)
  BY WindowUseAssumption DEF States, Good
<1>3. \A d \in Clients : T.context[d] = IF d = c THEN r ELSE S.context[d]
  BY <1>2
<1>4. \A d \in Clients : S.context[d] # r
  BY <1>2 DEF Contexts
<1>5. Contexts(T)
  <2>1. ASSUME NEW q \in Recs, T.win[q].status = "listed"
        PROVE  T.win[q].client \in Clients /\ T.context[T.win[q].client] = q
    BY <1>2, <1>3, <2>1 DEF Contexts
  <2>2. ASSUME NEW d \in Clients, T.context[d] # None
        PROVE  /\ T.win[T.context[d]].client = d
               /\ \/ T.win[T.context[d]].status = "listed"
                  \/ T.context[d] \in Held(T.frames, {"destroy"})
    BY <1>2, <1>3, <1>4, <2>2 DEF Contexts
  <2> QED
    BY <2>1, <2>2 DEF Contexts
<1>6. Owed(T, {})
  BY DEF Good, Owed
<1> QED
  BY <1>1, <1>5, <1>6 DEF Good

-----------------------------------------------------------------------------
\* Induction over Nat, for a set of numbers.
LEMMA InductionOnSet ==
  ASSUME NEW P \in SUBSET Nat, 0 \in P, \A n \in P : n + 1 \in P
  PROVE  P = Nat
<1>1. SUFFICES ASSUME Nat \ P # {} PROVE FALSE
  OBVIOUS
<1>2. PICK m \in Nat \ P : \A k \in Nat \ P : ~(<<k, m>> \in OpToRel(<, Nat))
  <2>1. Nat \ P \subseteq Nat
    OBVIOUS
  <2> QED
    BY <1>1, <2>1, NatLessThanWellFounded, WFMin
<1>3. \A k \in Nat \ P : ~(k < m)
  BY <1>2 DEF OpToRel
<1>4. m # 0 /\ m - 1 \in Nat /\ m - 1 < m /\ (m - 1) + 1 = m
  OBVIOUS
<1>5. m - 1 \in P
  BY <1>3, <1>4
<1> QED
  BY <1>4, <1>5

\* g lists what comes of S as the first N windows of q are destroyed.
Built(S, q, N, g) ==
  g = [n \in 0..N |-> IF n = 0 THEN S ELSE DestroyWindow(g[n - 1], q[n])]

\* There is such a list: the recursion of DestroyEach is well founded.
LEMMA EachDefined ==
  ASSUME NEW S, NEW q, NEW N \in Nat
  PROVE  \E g : Built(S, q, N, g)
<1>1. \E g : Built(S, q, 0, g)
  <2>1. Built(S, q, 0, [n \in 0..0 |-> S])
    BY DEF Built
  <2> QED
    BY <2>1
<1>2. ASSUME NEW m \in Nat, NEW g, Built(S, q, m, g)
      PROVE  \E h : Built(S, q, m + 1, h)
  <2> DEFINE h == [n \in 0..(m + 1) |-> IF n = m + 1 THEN DestroyWindow(g[m], q[m + 1]) ELSE g[n]]
  <2>1. \A n \in 0..m : g[n] = IF n = 0 THEN S ELSE DestroyWindow(g[n - 1], q[n])
    BY <1>2 DEF Built
  <2>2. \A n \in 0..m : h[n] = g[n]
    OBVIOUS
  <2>3. h[m + 1] = DestroyWindow(h[m], q[m + 1])
    BY <2>2
  <2>4. ASSUME NEW n \in 0..(m + 1)
        PROVE  h[n] = IF n = 0 THEN S ELSE DestroyWindow(h[n - 1], q[n])
    <3>1. CASE n = m + 1
      BY <2>3, <3>1
    <3>2. CASE n = 0
      BY <2>1, <2>2, <3>2
    <3>3. CASE n \in 1..m
      <4>1. n \in 0..m /\ n - 1 \in 0..m
        BY <3>3
      <4> QED
        BY <2>1, <2>2, <3>3, <4>1
    <3> QED
      BY <3>1, <3>2, <3>3
  <2>5. h = [n \in 0..(m + 1) |-> h[n]]
    OBVIOUS
  <2> HIDE DEF h
  <2>6. h = [n \in 0..(m + 1) |-> IF n = 0 THEN S ELSE DestroyWindow(h[n - 1], q[n])]
    BY <2>4, <2>5
  <2> QED
    BY <2>6 DEF Built
<1> DEFINE P == {m \in Nat : \E g : Built(S, q, m, g)}
<1>3. P = Nat
  <2>1. 0 \in P /\ P \subseteq Nat /\ \A m \in P : m + 1 \in P
    BY <1>1, <1>2
  <2> HIDE DEF P
  <2> QED
    BY <2>1, InductionOnSet
<1>4. \E g : Built(S, q, N, g)
  BY <1>3
<1> QED
  BY <1>4

\* The states between, as the windows of q are destroyed.
Unfolded(S, q, g) ==
  /\ g[0] = S /\ DestroyEach(S, q) = g[Len(q)]
  /\ \A n \in 1..Len(q) : g[n] = DestroyWindow(g[n - 1], q[n])

\* DestroyEach destroys the windows of q one after the other.
LEMMA EachUnfolds ==
  ASSUME NEW S, NEW q, Len(q) \in Nat
  PROVE  \E g : Unfolded(S, q, g)
<1> DEFINE After == CHOOSE g : Built(S, q, Len(q), g)
<1>1. \E g : Built(S, q, Len(q), g)
  BY EachDefined
<1>3. DestroyEach(S, q) = After[Len(q)]
  BY DEF DestroyEach, Built
<1>2. Built(S, q, Len(q), After)
  BY <1>1
<1> HIDE DEF After
<1>4. After[0] = S
  BY <1>2 DEF Built
<1>5. \A n \in 1..Len(q) : After[n] = DestroyWindow(After[n - 1], q[n])
  BY <1>2 DEF Built
<1>6. Unfolded(S, q, After)
  BY <1>3, <1>4, <1>5 DEF Unfolded
<1> QED
  BY <1>6

\* destroy_scheduled_windows leaves no window that is scheduled behind.
LEMMA EachGood ==
  ASSUME NEW S \in States, Kept(S), Contexts(S), NEW q \in Seq(Recs), Owed(S, Pending(q)),
         ~Executing(S)
  PROVE  Good(DestroyEach(S, q))
<1>1. PICK N \in Nat : N = Len(q)
  OBVIOUS
<1>2. PICK g : /\ g[0] = S /\ DestroyEach(S, q) = g[N]
               /\ \A n \in 1..N : g[n] = DestroyWindow(g[n - 1], q[n])
  <2>1. Len(q) \in Nat
    BY <1>1
  <2>2. PICK g : Unfolded(S, q, g)
    BY <2>1, EachUnfolds, Zenon
  <2>3. /\ g[0] = S /\ DestroyEach(S, q) = g[N]
        /\ \A n \in 1..N : g[n] = DestroyWindow(g[n - 1], q[n])
    BY <1>1, <2>2, Zenon DEF Unfolded
  <2> QED
    BY <2>3, Zenon
<1>3. \A i \in 1..N : q[i] \in Recs
  BY <1>1, ElementOfSeq
<1> DEFINE Rest(n) == {q[i] : i \in (n + 1)..N}
           Fine(n) == /\ g[n] \in States /\ Kept(g[n]) /\ Contexts(g[n])
                      /\ Owed(g[n], Rest(n)) /\ ~Executing(g[n])
           P == {n \in Nat : n <= N => Fine(n)}
<1>4. Fine(0)
  <2>1. Rest(0) = Pending(q)
    BY <1>1 DEF Pending
  <2> QED
    BY <1>2, <2>1
<1>5. ASSUME NEW n \in Nat, n + 1 <= N, Fine(n)
      PROVE  Fine(n + 1)
  <2>1. n + 1 \in 1..N /\ (n + 1) - 1 = n
    BY <1>5
  <2>2. PICK r \in Recs : r = q[n + 1]
    BY <1>3, <2>1
  <2>3. g[n + 1] = DestroyWindow(g[n], r)
    BY <1>2, <2>1, <2>2
  <2>4. Rest(n) \ {r} \subseteq Rest(n + 1)
    BY <2>2
  <2>5. g[n] \in States /\ Kept(g[n]) /\ Contexts(g[n]) /\ Owed(g[n], Rest(n)) /\ ~Executing(g[n])
    BY <1>5
  <2> HIDE DEF Rest
  <2>6. PICK A : A = g[n]
    OBVIOUS
  <2>7. PICK B : B = g[n + 1]
    OBVIOUS
  <2>8. A \in States /\ Kept(A) /\ Contexts(A) /\ Owed(A, Rest(n)) /\ ~Executing(A)
    BY <2>5, <2>6
  <2>9. B = DestroyWindow(A, r)
    BY <2>3, <2>6, <2>7
  <2>10. Kept(B) /\ Contexts(B)
    BY <2>8, <2>9, DestroyKept, DestroyContexts
  <2>11. Owed(B, Rest(n + 1))
    BY <2>4, <2>8, <2>9, DestroyOwed
  <2>12. B \in States /\ ~Executing(B)
    BY <2>8, <2>9, DestroyCases DEF Frees, Destroys, Executing, Outcome
  <2> QED
    BY <2>7, <2>10, <2>11, <2>12
<1>6. P = Nat
  <2>1. P \subseteq Nat /\ 0 \in P
    BY <1>4
  <2>2. ASSUME NEW n \in P
        PROVE  n + 1 \in P
    <3>1. n \in Nat /\ n + 1 \in Nat /\ (n + 1 <= N => n <= N)
      BY <1>1
    <3>2. n <= N => Fine(n)
      OBVIOUS
    <3> HIDE DEF Fine
    <3> QED
      BY <1>5, <3>1, <3>2
  <2> HIDE DEF P
  <2> QED
    BY <2>1, <2>2, InductionOnSet
<1>7. Fine(N)
  <2>1. N \in P
    <3> HIDE DEF P
    <3> QED
      BY <1>6
  <2>2. N <= N
    OBVIOUS
  <2> HIDE DEF Fine
  <2> QED
    BY <2>1, <2>2
<1>8. Rest(N) = {}
  BY <1>1
<1> QED
  BY <1>2, <1>7, <1>8 DEF Good

-----------------------------------------------------------------------------
\* The innermost frame and what is below it.
LEMMA TopFields ==
  ASSUME Good(Now), frames # <<>>
  PROVE  /\ Now \in States /\ Left(Now, Leave(Now), Top)
         /\ frames[Len(frames)] = Top
         /\ Top.win \in Recs \cup {None} /\ Top.func \in Functions \cup {None}
         /\ Top.todo \in SUBSET Recs /\ Top \in Frame
<1>1. Now \in States
  BY GoodState
<1>2. Left(Now, Leave(Now), Top) /\ frames[Len(frames)] = Top
  BY <1>1, NowFields, LeaveFields DEF Top
<1> QED
  BY <1>1, <1>2 DEF Left, Frame

\* The commands the program can be given are commands.
LEMMA CommandSets ==
  /\ EventCommands \in SUBSET Commands /\ ClickCommands \in SUBSET Commands
  /\ FunctionCommands \in SUBSET Commands /\ MenuCommands \in SUBSET Commands
  /\ AllCommands \in SUBSET Commands /\ LockCommands \in SUBSET Commands
BY WindowUseAssumption

\* Each action keeps the invariant.
LEMMA DestroyNotifyGood ==
  ASSUME Good(Now), NEW c \in Clients, HandleDestroyNotify(c)
  PROVE  Good(Now')
<1>1. Now \in States /\ context \in [Clients -> Recs \cup {None}]
  BY GoodState, NowFields DEF States
<1>2. context[c] \in Recs
  BY <1>1 DEF HandleDestroyNotify
<1>3. Good(DestroyWindow(Now, context[c]))
  BY <1>1, <1>2, DestroyGood
<1>4. Becomes(DestroyWindow(Now, context[c]))
  BY DEF HandleDestroyNotify
<1> QED
  BY <1>3, <1>4, GoodState, BecomesNow

LEMMA MapRequestGood ==
  ASSUME Good(Now), NEW c \in Clients, HandleMapRequest(c)
  PROVE  Good(Now')
<1>1. /\ Now \in States /\ context \in [Clients -> Recs \cup {None}]
      /\ win \in [Recs -> WinRec] /\ frames \in Seq(Frame)
  BY GoodState, NowFields DEF States
<1>2. PICK r \in Unused :
        /\ win' = [win EXCEPT ![r] = [client |-> c, told |-> 0, status |-> "listed"]]
        /\ context' = [context EXCEPT ![c] = r]
  BY DEF HandleMapRequest
<1>3. /\ r \in Recs /\ win[r].status \in {"none", "freed"}
      /\ \A i \in DOMAIN frames : frames[i].win # r
  BY <1>2 DEF Unused
<1>4. r \notin Held(frames, {"destroy"})
  BY <1>1, <1>3 DEF Held
<1>5. UNCHANGED <<doomed, flags, uses, grab, frames>> /\ context[c] = None
  BY DEF HandleMapRequest
<1>6. win' \in [Recs -> WinRec] /\ context' \in [Clients -> Recs \cup {None}]
  BY <1>1, <1>2, <1>3 DEF WinRec
<1>7. /\ (Now').win = win' /\ (Now').context = context' /\ (Now').doomed = doomed
      /\ (Now').flags = flags /\ (Now').uses = uses /\ (Now').grab = grab
      /\ (Now').frames = frames
  BY <1>5 DEF Now
<1>8. Now' \in States
  BY <1>1, <1>5, <1>6 DEF States, Now
<1>9. /\ win'[r].status = "listed" /\ win'[r].client = c
      /\ \A q \in Recs : q # r => win'[q] = win[q]
  BY <1>1, <1>2, <1>3
<1> DEFINE T == Now'
<1>10. /\ Now.context[c] = None /\ Now.win[r].status \in {"none", "freed"}
       /\ r \notin Held(Now.frames, {"destroy"})
  BY <1>3, <1>4, <1>5, NowFields
<1>11. /\ T.win[r].status = "listed" /\ T.win[r].client = c
       /\ \A q \in Recs : q # r => T.win[q] = Now.win[q]
       /\ T.context = [Now.context EXCEPT ![c] = r]
       /\ T.doomed = Now.doomed /\ T.flags = Now.flags /\ T.uses = Now.uses
       /\ T.grab = Now.grab /\ T.frames = Now.frames
  BY <1>2, <1>7, <1>9, NowFields
<1>12. T \in States /\ Now \in States
  BY <1>1, <1>8
<1> HIDE DEF T
<1>13. Good(T)
  BY <1>3, <1>10, <1>11, <1>12, MapGood
<1> QED
  BY <1>13 DEF T

LEMMA ButtonPressGood ==
  ASSUME Good(Now), HandleButtonPress
  PROVE  Good(Now')
<1>1. PICK r \in Recs :
        Step(ClickCommands, Enter(GrabEm(Now, "passive"), "click", r, None, {}, FALSE), r)
  BY DEF HandleButtonPress, Listed
<1>2. PICK T : T = Enter(GrabEm(Now, "passive"), "click", r, None, {}, FALSE)
  OBVIOUS
<1>3. /\ "click" \in Kinds /\ "passive" \in {"normal", "menu", "passive"}
      /\ r \in Recs \cup {None} /\ r # None
  BY WindowUseAssumption DEF Kinds
<1>4. Good(T)
  BY <1>2, <1>3, GoodState, GrabbedGood
<1>5. Step(ClickCommands, T, r)
  BY <1>1, <1>2
<1> QED
  BY <1>3, <1>4, <1>5, CommandSets, StepGood

LEMMA CommandGood ==
  ASSUME Good(Now), HandleCommand
  PROVE  Good(Now')
<1>1. PICK r \in Recs \cup {None} : Step(EventCommands, Now, r)
  BY DEF HandleCommand, Listed
<1> QED
  BY <1>1, CommandSets, StepGood

LEMMA FunctionItemGood ==
  ASSUME Good(Now), RunFunctionItem
  PROVE  Good(Now')
<1>1. Top.win \in Recs \cup {None} /\ Step(FunctionCommands, Now, Top.win)
  BY TopFields DEF RunFunctionItem, Runs
<1> QED
  BY <1>1, CommandSets, StepGood

LEMMA LockedCommandGood ==
  ASSUME Good(Now), RunLockedCommand
  PROVE  Good(Now')
<1>1. PICK c \in Clients : context[c] # None /\ Step(LockCommands, Now, context[c])
  BY DEF RunLockedCommand
<1>2. context[c] \in Recs \cup {None}
  BY GoodState, NowFields DEF States
<1> QED
  BY <1>1, <1>2, CommandSets, StepGood

-----------------------------------------------------------------------------
\* Changing the last of a sequence is pushing another instead.
LEMMA ReplaceLast ==
  ASSUME NEW gr \in Seq(Frame), NEW x \in Frame, NEW y \in Frame
  PROVE  [Append(gr, x) EXCEPT ![Len(Append(gr, x))] = y] = Append(gr, y)
<1>1. PICK n \in Nat : n = Len(gr)
  OBVIOUS
<1>2. PICK a : a = Append(gr, x)
  OBVIOUS
<1>3. PICK b : b = Append(gr, y)
  OBVIOUS
<1>4. /\ a \in Seq(Frame) /\ Len(a) = n + 1 /\ a[n + 1] = x /\ \A i \in 1..n : a[i] = gr[i]
      /\ b \in Seq(Frame) /\ Len(b) = n + 1 /\ b[n + 1] = y /\ \A i \in 1..n : b[i] = gr[i]
  BY <1>1, <1>2, <1>3, Pushed
<1>5. a \in [1..(n + 1) -> Frame] /\ b \in [1..(n + 1) -> Frame]
  BY <1>4
<1>6. \A i \in 1..(n + 1) : [a EXCEPT ![n + 1] = y][i] = b[i]
  <2>1. \A i \in 1..(n + 1) : i = n + 1 \/ i \in 1..n
    OBVIOUS
  <2> QED
    BY <1>4, <1>5, <2>1
<1>7. [a EXCEPT ![n + 1] = y] = b
  BY <1>5, <1>6
<1> QED
  BY <1>2, <1>3, <1>4, <1>7

\* T is S with y instead of its innermost frame.
LEMMA ReplaceTop ==
  ASSUME NEW S \in States, S.frames # <<>>, NEW y \in Frame, NEW T
  PROVE  T = [S EXCEPT !.frames = [S.frames EXCEPT ![Len(S.frames)] = y]] =>
         /\ T \in States /\ T.frames = Append(Leave(S).frames, y)
         /\ Left(S, Leave(S), Last(S.frames)) /\ S.frames[Len(S.frames)] = Last(S.frames)
         /\ Same(S, T) /\ T.flags = S.flags /\ T.uses = S.uses /\ T.grab = S.grab
<1>1. Left(S, Leave(S), Last(S.frames)) /\ S.frames[Len(S.frames)] = Last(S.frames)
  BY LeaveFields
<1>2. PICK fr \in Seq(Frame), x \in Frame : fr = Leave(S).frames /\ S.frames = Append(fr, x)
  BY <1>1, StateParts DEF Left
<1>3. [S.frames EXCEPT ![Len(S.frames)] = y] = Append(fr, y)
  <2>1. PICK a : a = Append(fr, x)
    OBVIOUS
  <2>2. [a EXCEPT ![Len(a)] = y] = Append(fr, y)
    BY <1>2, <2>1, ReplaceLast
  <2> QED
    BY <1>2, <2>1, <2>2
<1>4. Append(fr, y) \in Seq(Frame)
  BY Pushed
<1>s. SUFFICES ASSUME T = [S EXCEPT !.frames = [S.frames EXCEPT ![Len(S.frames)] = y]]
               PROVE  /\ T \in States /\ T.frames = Append(Leave(S).frames, y)
                      /\ Left(S, Leave(S), Last(S.frames))
                      /\ S.frames[Len(S.frames)] = Last(S.frames)
                      /\ Same(S, T) /\ T.flags = S.flags /\ T.uses = S.uses
                      /\ T.grab = S.grab
  OBVIOUS
<1>5. T = [S EXCEPT !.frames = Append(fr, y)]
  BY <1>3, <1>s
<1>6. /\ T \in States /\ T.frames = Append(fr, y) /\ T.win = S.win /\ T.context = S.context
      /\ T.doomed = S.doomed /\ T.flags = S.flags /\ T.uses = S.uses /\ T.grab = S.grab
  BY <1>4, <1>5, FramesSet
<1> QED
  BY <1>1, <1>2, <1>6 DEF Same

\* The innermost frame changes its window or what it has to do.
LEMMA ChangeGood ==
  ASSUME NEW S \in States, Good(S), S.frames # <<>>, NEW y \in Frame, NEW x,
         x = S.frames[Len(S.frames)],
         y.kind = x.kind, y.func = x.func, y.saved = x.saved, Fits(y),
         x.kind # "put off", x.kind # "destroy", NEW T
  PROVE  T = [S EXCEPT !.frames = [S.frames EXCEPT ![Len(S.frames)] = y]]
           => T \in States /\ Good(T)
<1>0. SUFFICES ASSUME T = [S EXCEPT !.frames = [S.frames EXCEPT ![Len(S.frames)] = y]]
               PROVE  T \in States /\ Good(T)
  OBVIOUS
<1>1. /\ T \in States /\ T.frames = Append(Leave(S).frames, y)
      /\ Left(S, Leave(S), Last(S.frames)) /\ S.frames[Len(S.frames)] = Last(S.frames)
      /\ Same(S, T) /\ T.flags = S.flags /\ T.uses = S.uses /\ T.grab = S.grab
  BY <1>0, ReplaceTop
<1>2. PICK fr \in Seq(Frame) : fr = Leave(S).frames
  BY <1>1, StateParts DEF Left
<1>3. x \in Frame /\ S.frames = Append(fr, x) /\ T.frames = Append(fr, y)
  BY <1>1, <1>2 DEF Left
<1>4. Retopped(S, T, fr, x, y)
  BY <1>1, <1>3 DEF Retopped
<1> QED
  BY <1>1, <1>3, <1>4, ChangeTop

LEMMA SelectWindowGood ==
  ASSUME Good(Now), SelectWindow
  PROVE  Good(Now')
<1>1. frames # <<>> /\ Top.kind = "function"
  BY DEF SelectWindow, Runs
<1>2. /\ Now \in States /\ frames[Len(frames)] = Top /\ Top \in Frame
      /\ Left(Now, Leave(Now), Top) /\ Now.frames = frames
  BY <1>1, TopFields, NowFields
<1>3. PICK r \in Recs : frames' = [frames EXCEPT ![Len(frames)].win = r]
  BY DEF SelectWindow, Listed
<1>4. PICK y : y = [Top EXCEPT !.win = r]
  OBVIOUS
<1>5. /\ y \in Frame /\ y.kind = Top.kind /\ y.func = Top.func /\ y.saved = Top.saved
      /\ y.todo = Top.todo
  BY <1>2, <1>4 DEF Frame
<1>6. Fits(y)
  <2>1. Fits(Top)
    BY <1>2, LeftParts
  <2>2. Top.kind = "function" /\ y.kind = "function" /\ Top.func # None /\ Top.todo = {}
    BY <1>1, <1>5, <2>1 DEF Fits
  <2> QED
    BY <1>5, <2>2 DEF Fits
<1>7. frames' = [frames EXCEPT ![Len(frames)] = y]
  BY <1>2, <1>3, <1>4
<1>8. PICK T : T = [Now EXCEPT !.frames = [Now.frames EXCEPT ![Len(Now.frames)] = y]]
  OBVIOUS
<1>9. Top.kind # "put off" /\ Top.kind # "destroy" /\ Now.frames # <<>>
  BY <1>1, <1>2
<1>10. T \in States /\ Good(T)
  BY <1>2, <1>5, <1>6, <1>8, <1>9, ChangeGood
<1>11. Now' = T
  BY <1>2, <1>7, <1>8 DEF SelectWindow, Now
<1> QED
  BY <1>10, <1>11

LEMMA RunAllGood ==
  ASSUME Good(Now), RunAll
  PROVE  Good(Now')
<1>1. frames # <<>> /\ Top.kind = "all"
  BY DEF RunAll, Runs
<1>2. /\ Now \in States /\ frames[Len(frames)] = Top /\ Top \in Frame
      /\ Left(Now, Leave(Now), Top) /\ Now.frames = frames /\ Top.todo \in SUBSET Recs
  BY <1>1, TopFields, NowFields
<1>3. PICK r \in Top.todo :
        Step(AllCommands, [Now EXCEPT !.frames[Len(frames)].todo = @ \ {r}], r)
  BY DEF RunAll
<1>4. PICK y : y = [Top EXCEPT !.todo = Top.todo \ {r}]
  OBVIOUS
<1>5. /\ y \in Frame /\ y.kind = Top.kind /\ y.func = Top.func /\ y.saved = Top.saved
      /\ y.win = Top.win
  BY <1>2, <1>4 DEF Frame
<1>6. Fits(y)
  BY <1>1, <1>2, <1>5, LeftParts DEF Fits
<1>8. PICK T : T = [Now EXCEPT !.frames = [Now.frames EXCEPT ![Len(Now.frames)] = y]]
  OBVIOUS
<1>9. Top.kind # "put off" /\ Top.kind # "destroy" /\ Now.frames # <<>>
  BY <1>1, <1>2
<1>10. Good(T)
  BY <1>2, <1>5, <1>6, <1>8, <1>9, ChangeGood
<1>11. [Now EXCEPT !.frames[Len(frames)].todo = @ \ {r}] = T
  BY <1>2, <1>4, <1>8
<1>12. r \in Recs \cup {None}
  BY <1>2
<1> QED
  BY <1>3, <1>10, <1>11, <1>12, CommandSets, StepGood

LEMMA MenuActionGood ==
  ASSUME Good(Now), RunMenuAction
  PROVE  Good(Now')
<1>1. frames # <<>> /\ Top.kind = "menu"
  BY DEF RunMenuAction, Runs
<1>2. /\ Now \in States /\ frames[Len(frames)] = Top /\ Now.frames = frames
      /\ Top.win \in Recs \cup {None}
  BY <1>1, TopFields, NowFields
<1>3. PICK T : T = MenuExecuteFunction(Now, Top.win)
  OBVIOUS
<1>4. Now.frames # <<>> /\ Now.frames[Len(Now.frames)].kind \in {"menu", "closed menu"}
  BY <1>1, <1>2
<1>5. Good(T)
  BY <1>2, <1>3, <1>4, ItemGood
<1>6. Step(MenuCommands, T, Top.win)
  BY <1>3 DEF RunMenuAction
<1> QED
  BY <1>2, <1>5, <1>6, CommandSets, StepGood

\* What UngrabEm makes of the grabs depends on the grabs only.
LEMMA SameUngrab ==
  ASSUME NEW A \in States, NEW B \in States, A.grab = B.grab, NEW ctx
  PROVE  UngrabEm(A, ctx).grab = UngrabEm(B, ctx).grab
BY DEF UngrabEm, GrabAll, States

\* The menu that closes keeps its window and gives back its grab.
LEMMA SelectedGood ==
  ASSUME Good(Now), frames # <<>>, Top.kind = "menu", NEW C
  PROVE  C = UngrabEm([Now EXCEPT !.frames[Len(frames)].kind = "closed menu"], "menu") =>
           /\ Good(C) /\ C.win = win /\ C.doomed = doomed
           /\ \E y \in Frame :
                /\ y.kind = "closed menu" /\ y.win = Top.win /\ y.todo = Top.todo
                /\ C.frames = Append(Leave(Now).frames, y)
<1>0. SUFFICES ASSUME C = UngrabEm([Now EXCEPT !.frames[Len(frames)].kind = "closed menu"], "menu")
               PROVE  /\ Good(C) /\ C.win = win /\ C.doomed = doomed
                      /\ \E y \in Frame :
                           /\ y.kind = "closed menu" /\ y.win = Top.win /\ y.todo = Top.todo
                           /\ C.frames = Append(Leave(Now).frames, y)
  OBVIOUS
<1>2. /\ Now \in States /\ frames[Len(frames)] = Top /\ Top \in Frame
      /\ Left(Now, Leave(Now), Top) /\ Now.frames = frames /\ Top.win \in Recs \cup {None}
  BY TopFields, NowFields
<1>4. PICK y : y = [Top EXCEPT !.kind = "closed menu"]
  OBVIOUS
<1>5. /\ y \in Frame /\ y.kind = "closed menu" /\ y.func = Top.func /\ y.saved = Top.saved
      /\ y.win = Top.win /\ y.todo = Top.todo
  BY <1>2, <1>4 DEF Frame, Kinds
<1>6. Fits(y) /\ y \notin Regrabbing
  BY <1>2, <1>5, LeftParts DEF Fits, Regrabbing
<1>7. PICK A : A = [Now EXCEPT !.frames = [Now.frames EXCEPT ![Len(Now.frames)] = y]]
  OBVIOUS
<1>8. [Now EXCEPT !.frames[Len(frames)].kind = "closed menu"] = A
  BY <1>2, <1>4, <1>7
<1>9. C = UngrabEm(A, "menu")
  BY <1>0, <1>8
<1>11. /\ A \in States /\ A.frames = Append(Leave(Now).frames, y)
       /\ Same(Now, A) /\ A.flags = flags /\ A.uses = uses /\ A.grab = grab
  <2>1. Now.frames # <<>>
    BY <1>2
  <2>2. /\ A \in States /\ A.frames = Append(Leave(Now).frames, y)
        /\ Same(Now, A) /\ A.flags = Now.flags /\ A.uses = Now.uses /\ A.grab = Now.grab
    <3>1. Now \in States /\ y \in Frame
      BY <1>2, <1>5
    <3> QED
      BY <1>7, <2>1, <3>1, ReplaceTop
  <2> QED
    BY <2>2, NowFields
<1>m. "menu" \in {"normal", "menu", "passive"}
  OBVIOUS
<1>12. /\ C \in States
       /\ C.win = A.win /\ C.context = A.context /\ C.doomed = A.doomed
       /\ C.flags = A.flags /\ C.uses = A.uses /\ C.frames = A.frames
  BY <1>9, <1>11, <1>m, UngrabFields
<1>13. PICK P : P = UngrabEm(Leave(Now), "menu")
  OBVIOUS
<1>14. Good(P)
  BY <1>2, <1>13, <1>m, LeaveGrabbed
<1>15. Leave(Now) \in States /\ Leave(Now).grab = grab
  BY <1>2, NowFields DEF Left
<1>16. /\ P \in States
       /\ P.win = Leave(Now).win /\ P.context = Leave(Now).context
       /\ P.doomed = Leave(Now).doomed /\ P.flags = Leave(Now).flags
       /\ P.uses = Leave(Now).uses /\ P.frames = Leave(Now).frames
  BY <1>13, <1>15, <1>m, UngrabFields
<1>17. C.grab = P.grab
  BY <1>9, <1>11, <1>13, <1>15, SameUngrab
<1>18. /\ C.frames = Append(P.frames, y) /\ C.flags = P.flags /\ C.uses = P.uses /\ Same(P, C)
  BY <1>2, <1>11, <1>12, <1>16, NowFields DEF Left, Same
<1>19. Kept(C)
  BY <1>5, <1>6, <1>12, <1>14, <1>16, <1>17, <1>18, PushPlain DEF Plain, Good
<1>20. Quiet(P, C)
  BY <1>5, <1>16, <1>18, PushQuiet, StateParts
<1>21. Good(C)
  BY <1>14, <1>19, <1>20, QuietStep
<1>22. C.win = win /\ C.doomed = doomed /\ C.frames = Append(Leave(Now).frames, y)
  BY <1>11, <1>12, NowFields DEF Same
<1> QED
  BY <1>5, <1>21, <1>22

LEMMA SelectItemGood ==
  ASSUME Good(Now), SelectItem
  PROVE  Good(Now')
<1>1. frames # <<>> /\ Top.kind = "menu"
  BY DEF SelectItem, Runs
<1>2. /\ Now \in States /\ Left(Now, Leave(Now), Top) /\ Top.win \in Recs \cup {None}
  BY <1>1, TopFields
<1>3. PICK C : C = UngrabEm([Now EXCEPT !.frames[Len(frames)].kind = "closed menu"], "menu")
  OBVIOUS
<1>4. PICK y \in Frame :
        /\ y.kind = "closed menu" /\ Good(C) /\ C.frames = Append(Leave(Now).frames, y)
  BY <1>1, <1>3, SelectedGood
<1>5. C.frames # <<>> /\ C.frames[Len(C.frames)] = y
  <2>1. Leave(Now).frames \in Seq(Frame)
    BY <1>2, StateParts DEF Left
  <2>2. PICK n \in Nat : n = Len(Leave(Now).frames)
    BY <2>1
  <2>5. C.frames = Append(Leave(Now).frames, y) /\ y \in Frame
    BY <1>4
  <2>3. Len(C.frames) = n + 1 /\ C.frames[n + 1] = y
    BY <2>1, <2>2, <2>5, Pushed
  <2>4. C.frames # <<>>
    BY <2>3, EmptySeq
  <2> QED
    BY <2>3, <2>4
<1>6. PICK T : T = MenuExecuteFunction(C, Top.win)
  OBVIOUS
<1>7. Good(T)
  BY <1>2, <1>4, <1>5, <1>6, GoodState, ItemGood
<1>8. Step(MenuCommands, T, Top.win)
  BY <1>3, <1>6 DEF SelectItem
<1> QED
  BY <1>2, <1>7, <1>8, CommandSets, StepGood

-----------------------------------------------------------------------------
LEMMA ReturnFromClickGood ==
  ASSUME Good(Now), ReturnFromClick
  PROVE  Good(Now')
<1>1. frames # <<>> /\ Top.kind = "click"
  BY DEF ReturnFromClick, Runs
<1>2. Now \in States /\ Left(Now, Leave(Now), Top)
  BY <1>1, TopFields
<1>3. PICK T : T = UngrabEm(Leave(Now), "passive")
  OBVIOUS
<1>4. "passive" \in {"normal", "menu", "passive"}
  OBVIOUS
<1>5. Good(T)
  BY <1>1, <1>2, <1>3, <1>4, LeaveGrabbed
<1>6. Becomes(T)
  BY <1>3 DEF ReturnFromClick
<1> QED
  BY <1>5, <1>6, GoodState, BecomesNow

LEMMA ReturnFromFunctionGood ==
  ASSUME Good(Now), ReturnFromFunction
  PROVE  Good(Now')
<1>1. frames # <<>> /\ Top.kind = "function"
  BY DEF ReturnFromFunction, Runs
<1>2. Now \in States /\ Left(Now, Leave(Now), Top)
  BY <1>1, TopFields
<1>3. PICK T : T = UngrabEm(EndFunction(Leave(Now), Top.func), "normal")
  OBVIOUS
<1>5. Good(T)
  BY <1>1, <1>2, <1>3, LeaveFunction
<1>6. Becomes(T)
  BY <1>3 DEF ReturnFromFunction
<1> QED
  BY <1>5, <1>6, GoodState, BecomesNow

LEMMA ReturnFromMenuGood ==
  ASSUME Good(Now), ReturnFromMenu
  PROVE  Good(Now')
<1>1. frames # <<>> /\ Top.kind \in {"menu", "closed menu"}
  BY DEF ReturnFromMenu, Runs
<1>2. Now \in States /\ Left(Now, Leave(Now), Top) /\ Fits(Top)
  BY <1>1, TopFields, LeftParts
<1>3. CASE Top.kind = "menu"
  <2>1. PICK T : T = UngrabEm(Leave(Now), "menu")
    OBVIOUS
  <2>2. "menu" \in {"normal", "menu", "passive"}
    OBVIOUS
  <2>3. Good(T)
    BY <1>2, <1>3, <2>1, <2>2, LeaveGrabbed
  <2>4. Becomes(T)
    BY <1>3, <2>1 DEF ReturnFromMenu, Runs
  <2> QED
    BY <2>3, <2>4, GoodState, BecomesNow
<1>4. CASE Top.kind = "closed menu"
  <2>1. Plain(Top) /\ Top \notin Regrabbing /\ Top.kind # "put off" /\ Top.kind # "destroy"
    BY <1>2, <1>4 DEF Plain, Regrabbing
  <2>2. Good(Leave(Now))
    BY <1>2, <2>1, LeavePlain
  <2>3. Becomes(Leave(Now))
    BY <1>4 DEF ReturnFromMenu, Runs
  <2> QED
    BY <2>2, <2>3, GoodState, BecomesNow
<1> QED
  BY <1>1, <1>3, <1>4

LEMMA ReturnFromAllGood ==
  ASSUME Good(Now), ReturnFromAll
  PROVE  Good(Now')
<1>1. frames # <<>> /\ Top.kind = "all"
  BY DEF ReturnFromAll, Runs
<1>2. Now \in States /\ Left(Now, Leave(Now), Top) /\ Fits(Top)
  BY <1>1, TopFields, LeftParts
<1>3. Plain(Top) /\ Top \notin Regrabbing /\ Top.kind # "put off" /\ Top.kind # "destroy"
  BY <1>1, <1>2 DEF Plain, Regrabbing
<1>4. Good(Leave(Now))
  BY <1>2, <1>3, LeavePlain
<1>5. Becomes(Leave(Now))
  BY DEF ReturnFromAll
<1> QED
  BY <1>4, <1>5, GoodState, BecomesNow

LEMMA ReturnFromWaitGood ==
  ASSUME Good(Now), ReturnFromWait
  PROVE  Good(Now')
<1>1. frames # <<>> /\ Top.kind = "wait"
  BY DEF ReturnFromWait, Runs
<1>2. Now \in States /\ Left(Now, Leave(Now), Top)
  BY <1>1, TopFields
<1>3. PICK T : T = GrabEm(Leave(Now), "normal")
  OBVIOUS
<1>4. Good(Leave(Now)) /\ (Top.saved => Good(T))
  BY <1>1, <1>2, <1>3, LeaveWait
<1>5. (Top.saved /\ Becomes(T)) \/ Becomes(Leave(Now))
  BY <1>3 DEF ReturnFromWait
<1> QED
  BY <1>4, <1>5, GoodState, BecomesNow

LEMMA ReturnFromBroadcastGood ==
  ASSUME Good(Now), ReturnFromBroadcast
  PROVE  Good(Now')
<1>1. frames # <<>> /\ Top.kind \in {"put off", "destroy"}
  BY DEF ReturnFromBroadcast, Runs
<1>2. Now \in States /\ Left(Now, Leave(Now), Top)
  BY <1>1, TopFields
<1>3. PICK T : T = [Leave(Now) EXCEPT !.doomed = Append(@, Top.win)]
  OBVIOUS
<1>4. PICK R : R = FreeWindow(Leave(Now), Top.win)
  OBVIOUS
<1>5. /\ Top.kind = "put off" => Good(T)
      /\ Top.kind = "destroy" => Good(R)
  BY <1>2, <1>3, <1>4, LeavePutOff, LeaveDestroy
<1>6. (Top.kind = "put off" /\ Becomes(T)) \/ (Top.kind = "destroy" /\ Becomes(R))
  BY <1>3, <1>4 DEF ReturnFromBroadcast, Runs
<1> QED
  BY <1>5, <1>6, GoodState, BecomesNow

\* No frame keeps a window if there is none.
LEMMA EmptyHeld ==
  ASSUME NEW fr, fr = <<>>, NEW K
  PROVE  Held(fr, K) = {}
BY DEF Held

\* destroy_scheduled_windows takes the queue and clears its flag.
LEMMA ResetFields ==
  ASSUME NEW S \in States, NEW T
  PROVE  T = [S EXCEPT !.flags.scheduled = FALSE, !.doomed = <<>>] =>
           /\ T \in States /\ T.doomed = <<>> /\ T.win = S.win /\ T.context = S.context
           /\ T.uses = S.uses /\ T.grab = S.grab /\ T.frames = S.frames
           /\ FlagsButScheduled(S, T)
<1>1. PICK b \in BOOLEAN : b = FALSE
  OBVIOUS
<1>2. PICK R : R = [S EXCEPT !.flags.scheduled = b]
  OBVIOUS
<1>3. /\ R \in States /\ FlagsButScheduled(S, R) /\ R.win = S.win /\ R.context = S.context
      /\ R.frames = S.frames /\ R.uses = S.uses /\ R.grab = S.grab
  BY <1>2, ScheduleFlag DEF Others
<1>4. PICK q \in Seq(Recs) : q = <<>>
  BY EmptySeq
<1>5. ASSUME NEW U, U = [R EXCEPT !.doomed = q]
      PROVE  /\ U \in States /\ U.doomed = q /\ U.win = R.win /\ U.context = R.context
             /\ U.flags = R.flags /\ U.frames = R.frames /\ U.uses = R.uses
             /\ U.grab = R.grab
  BY <1>3, <1>5 DEF States
<1>0. SUFFICES ASSUME T = [S EXCEPT !.flags.scheduled = FALSE, !.doomed = <<>>]
               PROVE  /\ T \in States /\ T.doomed = <<>> /\ T.win = S.win
                      /\ T.context = S.context /\ T.uses = S.uses /\ T.grab = S.grab
                      /\ T.frames = S.frames /\ FlagsButScheduled(S, T)
  OBVIOUS
<1>6. T = [R EXCEPT !.doomed = q]
  BY <1>0, <1>1, <1>2, <1>4 DEF States
<1>7. /\ T \in States /\ T.doomed = q /\ T.win = R.win /\ T.context = R.context
      /\ T.flags = R.flags /\ T.frames = R.frames /\ T.uses = R.uses /\ T.grab = R.grab
  BY <1>5, <1>6
<1> QED
  BY <1>3, <1>4, <1>7 DEF FlagsButScheduled

\* destroy_scheduled_windows when the event loop is idle.
LEMMA DestroyScheduledGood ==
  ASSUME Good(Now), DestroyScheduledWindows
  PROVE  Good(Now')
<1>1. frames = <<>> /\ ~NothingScheduled
  BY DEF DestroyScheduledWindows
<1>2. Now \in States /\ Kept(Now) /\ Contexts(Now) /\ Owed(Now, {})
  BY GoodState DEF Good
<1>3. PICK S : S = [Now EXCEPT !.flags.scheduled = FALSE, !.doomed = <<>>]
  OBVIOUS
<1>4. PICK q : q = doomed
  OBVIOUS
<1>5. /\ S \in States /\ q \in Seq(Recs)
      /\ S.win = Now.win /\ S.context = Now.context /\ S.uses = Now.uses
      /\ S.grab = Now.grab /\ S.frames = Now.frames /\ S.doomed = <<>>
      /\ S.flags.depth = Now.flags.depth
      /\ (S.flags.function <=> Now.flags.function) /\ (S.flags.menu <=> Now.flags.menu)
  <2>1. /\ S \in States /\ S.doomed = <<>> /\ S.win = Now.win /\ S.context = Now.context
        /\ S.uses = Now.uses /\ S.grab = Now.grab /\ S.frames = Now.frames
        /\ FlagsButScheduled(Now, S)
    BY <1>2, <1>3, ResetFields
  <2>2. q \in Seq(Recs)
    BY <1>2, <1>4, NowFields DEF States
  <2> QED
    BY <2>1, <2>2 DEF FlagsButScheduled
<1>6. ~Executing(S)
  BY <1>1, <1>5, NowFields DEF NothingScheduled, Executing
<1>7. Kept(S) /\ Contexts(S)
  BY <1>2, <1>5 DEF Kept, Contexts, FlagsFit
<1>8. Owed(S, Pending(q))
  <2>1. /\ Held(S.frames, {"destroy"}) = {} /\ Held(Now.frames, {"destroy"}) = {}
        /\ Held(S.frames, {"put off"}) = {} /\ Held(Now.frames, {"put off"}) = {}
    BY <1>1, <1>5, NowFields, EmptyHeld
  <2> QED
    BY <1>2, <1>4, <1>5, <2>1, NowFields DEF Owed
<1>9. Good(DestroyEach(S, q))
  BY <1>5, <1>6, <1>7, <1>8, EachGood
<1>10. Becomes(DestroyEach(S, q))
  BY <1>3, <1>4 DEF DestroyScheduledWindows
<1> QED
  BY <1>9, <1>10, GoodState, BecomesNow
\* Below the action of a menu is its menu.
LEMMA ItemAbove ==
  ASSUME NEW S \in States, Good(S), NEW L, NEW x, Left(S, L, x), x.kind = "item"
  PROVE  /\ L.frames # <<>> /\ Len(S.frames) - 1 = Len(L.frames)
         /\ L.frames[Len(L.frames)] \in Frame /\ Fits(L.frames[Len(L.frames)])
         /\ L.frames[Len(L.frames)].kind \in {"menu", "closed menu"}
<1>1. /\ L \in States /\ x \in Frame /\ S.frames = Append(L.frames, x) /\ Kept(S)
  BY LeftParts
<1>2. L.frames \in Seq(Frame)
  BY <1>1, StateParts
<1>3. PICK n \in Nat : n = Len(L.frames)
  BY <1>2
<1>4. /\ Len(S.frames) = n + 1 /\ S.frames[n + 1] = x
      /\ \A i \in 1..n : S.frames[i] = L.frames[i]
  BY <1>1, <1>2, <1>3, Pushed
<1>5. FramesFit(S.frames) /\ n + 1 \in 1..(n + 1)
  BY <1>1 DEF Kept
<1>m. PICK m \in Nat : m = n + 1
  OBVIOUS
<1>6. ItemFits(S.frames, m)
  BY <1>4, <1>5, <1>m DEF FramesFit
<1>7. m > 1 /\ S.frames[m - 1].kind \in {"menu", "closed menu"}
  BY <1>6, AfterMenu
<1>k. m > 1
  BY <1>7
<1>8. n \in 1..n /\ n \in 1..(n + 1) /\ m - 1 = n /\ m - 1 \in Nat
  BY <1>m, <1>k
<1>9. Fits(S.frames[n]) /\ S.frames[n] = L.frames[n]
  BY <1>4, <1>5, <1>8 DEF FramesFit
<1>10. L.frames[n] \in Frame /\ L.frames # <<>>
  BY <1>2, <1>3, <1>8, ElementOfSeq, EmptySeq
<1>11. L.frames[n].kind \in {"menu", "closed menu"} /\ Fits(L.frames[n])
  BY <1>7, <1>8, <1>9
<1>12. Len(S.frames) - 1 = n
  BY <1>4
<1> QED
  BY <1>3, <1>10, <1>11, <1>12

\* The menu goes on, without its window if that is gone.
LEMMA ReturnFromItemGood ==
  ASSUME Good(Now), ReturnFromItem
  PROVE  Good(Now')
<1>1. frames # <<>> /\ Top.kind = "item"
  BY DEF ReturnFromItem, Runs
<1>2. Now \in States /\ Left(Now, Leave(Now), Top) /\ Now.frames = frames
  BY <1>1, TopFields, NowFields
<1>3. PICK B : B = [Leave(Now) EXCEPT !.flags.menu = Top.saved]
  OBVIOUS
<1>4. Good(B) /\ B.frames = Leave(Now).frames
  BY <1>1, <1>2, <1>3, LeaveItem
<1>5. PICK x \in Frame : x = B.frames[Len(B.frames)]
  BY <1>1, <1>2, <1>4, ItemAbove
<1>6. /\ B.frames # <<>> /\ Len(frames) - 1 = Len(B.frames)
      /\ Fits(x) /\ x.kind \in {"menu", "closed menu"}
  BY <1>1, <1>2, <1>4, <1>5, ItemAbove
<1>7. PICK y : y = [x EXCEPT !.win = None]
  OBVIOUS
<1>8. /\ y \in Frame /\ y.kind = x.kind /\ y.func = x.func /\ y.saved = x.saved
      /\ y.todo = x.todo
  BY <1>7 DEF Frame
<1>9. Fits(y) /\ x.kind # "put off" /\ x.kind # "destroy"
  <2>1. x.func = None /\ x.todo = {}
    BY <1>6 DEF Fits
  <2> QED
    BY <1>6, <1>8, <2>1 DEF Fits
<1>10. PICK T : T = [B EXCEPT !.frames = [B.frames EXCEPT ![Len(B.frames)] = y]]
  OBVIOUS
<1>11. B \in States
  BY <1>4, GoodState
<1>12. Good(T)
  BY <1>4, <1>5, <1>6, <1>8, <1>9, <1>10, <1>11, ChangeGood
<1>13. [B EXCEPT !.frames[Len(frames) - 1].win = None] = T
  BY <1>5, <1>6, <1>7, <1>10, <1>11 DEF States
<1>14. Becomes(IF Top.win \in Listed(Now) THEN B
               ELSE [B EXCEPT !.frames[Len(frames) - 1].win = None])
  BY <1>3 DEF ReturnFromItem
<1>15. Becomes(B) \/ Becomes(T)
  BY <1>13, <1>14
<1> QED
  BY <1>4, <1>12, <1>15, GoodState, BecomesNow

-----------------------------------------------------------------------------
\* There are no frames of a kind if there is none.
LEMMA NoneHit ==
  ASSUME NEW fr, fr = <<>>, NEW P
  PROVE  Hits(fr, P) = 0 /\ UpTo(fr, 0, P) = 0
<1>1. Len(fr) = 0
  BY EmptySeq
<1>2. UpTo(fr, 0, P) = 0 <=> \A i \in 1..0 : fr[i] \notin P
  BY UpToNat
<1>3. UpTo(fr, 0, P) = 0
  BY <1>2
<1> QED
  BY <1>1, <1>3 DEF Hits

\* Nothing runs at the start.
LEMMA InitGood ==
  ASSUME Init
  PROVE  Good(Now)
<1>1. PICK S : S = Now
  OBVIOUS
<1>2. /\ S.win = [r \in Recs |-> [client |-> None, told |-> 0, status |-> "none"]]
      /\ S.context = [c \in Clients |-> None] /\ S.doomed = <<>>
      /\ S.flags = [function |-> FALSE, menu |-> FALSE, scheduled |-> FALSE, depth |-> 0]
      /\ S.uses = [f \in Functions |-> 0]
      /\ S.grab = [normal |-> 0, menu |-> 0, passive |-> 0, pointer |-> FALSE]
      /\ S.frames = <<>>
  BY <1>1, NowFields DEF Init
<1>3. S \in States
  <2>1. S.win \in [Recs -> WinRec] /\ S.context \in [Clients -> Recs \cup {None}]
    BY <1>2 DEF WinRec
  <2>2. S.doomed \in Seq(Recs) /\ S.frames \in Seq(Frame)
    BY <1>2, EmptySeq
  <2>3. S.flags \in Flags /\ S.grab \in Grabs
    BY <1>2 DEF Flags, Grabs
  <2>4. S.uses \in Uses
    BY <1>2 DEF Uses
  <2>5. S = [win |-> S.win, context |-> S.context, doomed |-> S.doomed, flags |-> S.flags,
             uses |-> S.uses, grab |-> S.grab, frames |-> S.frames]
    BY <1>1 DEF Now
  <2> QED
    BY <2>1, <2>2, <2>3, <2>4, <2>5 DEF States
<1>4. Len(S.frames) = 0 /\ Len(S.doomed) = 0
  BY <1>2
<1>5. \A P : Hits(S.frames, P) = 0 /\ UpTo(S.frames, 0, P) = 0
  BY <1>2, NoneHit
<1>6. FramesFit(S.frames)
  BY <1>4 DEF FramesFit
<1>7. FlagsFit(S.flags, S.frames)
  BY <1>2, <1>4, <1>5 DEF FlagsFit
<1>8. UsesFit(S.uses, S.frames)
  BY <1>2, <1>4, <1>5 DEF UsesFit
<1>9. GrabsFit(S.grab, S.frames) /\ PointerFits(S.grab)
  <2>1. S.grab.normal = 0 /\ S.grab.menu = 0 /\ S.grab.passive = 0 /\ ~S.grab.pointer
    BY <1>2
  <2>2. \A k \in 0..Len(S.frames) : k = 0
    BY <1>4
  <2> QED
    BY <1>5, <2>1, <2>2 DEF GrabsFit, PointerFits
<1>10. Contexts(S)
  BY <1>2 DEF Contexts
<1>11. Owed(S, {})
  <2>1. \A K : Held(S.frames, K) = {}
    BY <1>2, EmptyHeld
  <2>2. \A r \in Recs : S.win[r].status # "scheduled"
    BY <1>2
  <2> QED
    BY <1>2, <2>1, <2>2 DEF Owed
<1>12. Good(S)
  BY <1>3, <1>6, <1>7, <1>8, <1>9, <1>10, <1>11 DEF Good, Kept
<1> QED
  BY <1>1, <1>12

\* Every step keeps the invariant.
LEMMA NextGood ==
  ASSUME Good(Now), [Next]_vars
  PROVE  Good(Now')
<1>1. ASSUME NEW c \in Clients, HandleMapRequest(c)
      PROVE  Good(Now')
  BY <1>1, MapRequestGood
<1>2. ASSUME NEW c \in Clients, HandleDestroyNotify(c)
      PROVE  Good(Now')
  BY <1>2, DestroyNotifyGood
<1>3. CASE HandleButtonPress
  BY <1>3, ButtonPressGood
<1>4. CASE HandleCommand
  BY <1>4, CommandGood
<1>5. CASE RunFunctionItem
  BY <1>5, FunctionItemGood
<1>6. CASE SelectWindow
  BY <1>6, SelectWindowGood
<1>7. CASE RunMenuAction
  BY <1>7, MenuActionGood
<1>8. CASE SelectItem
  BY <1>8, SelectItemGood
<1>9. CASE RunAll
  BY <1>9, RunAllGood
<1>10. CASE RunLockedCommand
  BY <1>10, LockedCommandGood
<1>11. CASE ReturnFromClick
  BY <1>11, ReturnFromClickGood
<1>12. CASE ReturnFromFunction
  BY <1>12, ReturnFromFunctionGood
<1>13. CASE ReturnFromMenu
  BY <1>13, ReturnFromMenuGood
<1>14. CASE ReturnFromItem
  BY <1>14, ReturnFromItemGood
<1>15. CASE ReturnFromAll
  BY <1>15, ReturnFromAllGood
<1>16. CASE ReturnFromWait
  BY <1>16, ReturnFromWaitGood
<1>17. CASE ReturnFromBroadcast
  BY <1>17, ReturnFromBroadcastGood
<1>18. CASE DestroyScheduledWindows
  BY <1>18, DestroyScheduledGood
<1>19. CASE UNCHANGED vars
  <2>1. Now' = Now
    BY <1>19 DEF vars, Now
  <2> QED
    BY <2>1
<1> QED
  BY <1>1, <1>2, <1>3, <1>4, <1>5, <1>6, <1>7, <1>8, <1>9, <1>10, <1>11, <1>12, <1>13,
     <1>14, <1>15, <1>16, <1>17, <1>18, <1>19 DEF Next

\* At every time the flags, the use_depths and the grabs are those the
\* frames on the C stack account for, the contexts lead to windows that are
\* listed or not yet gone, and each scheduled window will be freed.
THEOREM GoodInvariant == Spec => []Good(Now)
<1>1. Init => Good(Now)
  BY InitGood
<1>2. Good(Now) /\ [Next]_vars => Good(Now)'
  BY NextGood
<1> QED
  BY <1>1, <1>2, PTL DEF Spec

\* The variables have their types: no count is ever taken below zero.
THEOREM TypeCorrect == Spec => []TypeOK
<1>1. ASSUME Good(Now)
      PROVE  TypeOK
  <2>1. Now \in States
    BY <1>1, GoodState
  <2>2. /\ win \in [Recs -> WinRec] /\ context \in [Clients -> Recs \cup {None}]
        /\ doomed \in Seq(Recs) /\ flags \in Flags /\ uses \in Uses /\ grab \in Grabs
        /\ frames \in Seq(Frame)
    BY <2>1, NowFields DEF States
  <2>3. DOMAIN uses \subseteq Functions /\ \A f \in DOMAIN uses : uses[f] \in Nat
    BY <2>2 DEF Uses
  <2> QED
    BY <2>2, <2>3 DEF TypeOK, WinRec, Flags, Grabs
<1> QED
  BY <1>1, GoodInvariant, PTL

\* Events find the record of each window that is managed and none that was
\* freed or queued, though clients reuse the ids of windows.
THEOREM ContextsStayCurrent == Spec => []ContextsCurrent
<1>1. ASSUME Good(Now)
      PROVE  ContextsCurrent
  <2>1. Now \in States /\ Contexts(Now) /\ frames \in Seq(Frame)
    BY <1>1, GoodState, NowFields, StateParts DEF Good
  <2>2. DOMAIN frames = 1..Len(frames)
    BY <2>1
  <2>3. /\ \A r \in Recs : win[r].status = "listed" => context[win[r].client] = r
        /\ \A c \in Clients : context[c] # None =>
             /\ win[context[c]].client = c
             /\ \/ win[context[c]].status = "listed"
                \/ context[c] \in Held(frames, {"destroy"})
    BY <2>1, NowFields DEF Contexts
  <2>4. ASSUME NEW r \in Held(frames, {"destroy"})
        PROVE  \E i \in DOMAIN frames : frames[i].kind = "destroy" /\ frames[i].win = r
    BY <2>2 DEF Held
  <2> QED
    BY <2>3, <2>4, NowFields DEF ContextsCurrent, Listed
<1> QED
  BY <1>1, GoodInvariant, PTL

\* The properties count frames as the invariant does.
LEMMA CountIsHits ==
  ASSUME frames \in Seq(Frame)
  PROVE  /\ \A k : Count(k) = Hits(frames, OfKind(k))
         /\ \A f : Cardinality({i \in DOMAIN frames : frames[i].func = f})
                     = Hits(frames, Running(f))
<1>1. DOMAIN frames = 1..Len(frames) /\ \A i \in 1..Len(frames) : frames[i] \in Frame
  BY ElementOfSeq
<1>2. ASSUME NEW k
      PROVE  {i \in DOMAIN frames : frames[i].kind = k}
               = {i \in 1..Len(frames) : frames[i] \in OfKind(k)}
  BY <1>1 DEF OfKind
<1>3. ASSUME NEW f
      PROVE  {i \in DOMAIN frames : frames[i].func = f}
               = {i \in 1..Len(frames) : frames[i] \in Running(f)}
  BY <1>1 DEF Running
<1> QED
  BY <1>2, <1>3 DEF Count, Hits, UpTo

\* Every command takes back the flags, the use_depth and the grab it set,
\* in whatever order functions, menus and Waits end; and when the event loop
\* is idle no window is left scheduled.
THEOREM NothingIsLeftBehind == Spec => []NothingLeftBehind
<1>1. ASSUME Good(Now)
      PROVE  NothingLeftBehind
  <2>0. PICK n \in Nat : n = Hits(frames, OfKind("function"))
    BY <1>1, GoodState, NowFields, StateParts, HitsNat
  <2>1. /\ Now \in States /\ frames \in Seq(Frame) /\ Kept(Now) /\ Owed(Now, {})
        /\ flags.function \in BOOLEAN /\ flags.depth \in Nat
        /\ grab.normal \in Nat /\ grab.menu \in Nat /\ grab.passive \in Nat
        /\ grab.pointer \in BOOLEAN
    BY <1>1, GoodState, NowFields, StateParts DEF Good
  <2>2. /\ FlagsFit(flags, frames) /\ UsesFit(uses, frames)
        /\ GrabsFit(grab, frames) /\ PointerFits(grab)
    BY <2>1, NowFields DEF Kept
  <2>3. Count("function") = n
    BY <2>0, <2>1, CountIsHits
  <2>4. flags.depth = n /\ (flags.function <=> n > 0)
    BY <2>0, <2>2 DEF FlagsFit
  <2>5. flags.function = (Count("function") > 0) /\ flags.depth = Count("function")
    BY <2>1, <2>3, <2>4
  <2>6. \A f \in DOMAIN uses :
          uses[f] = Cardinality({i \in DOMAIN frames : frames[i].func = f})
    BY <2>1, <2>2, CountIsHits DEF UsesFit
  <2>7. ASSUME frames = <<>>, NothingScheduled, NEW r \in Recs
        PROVE  win[r].status # "scheduled"
    <3>1. Held(frames, {"destroy"}) = {} /\ Held(frames, {"put off"}) = {}
      BY <2>7, EmptyHeld
    <3>2. n = 0 /\ Len(frames) = 0
      BY <2>0, <2>7, NoneHit, EmptySeq
    <3>3. ~flags.function /\ ~flags.menu
      BY <2>2, <2>4, <3>2 DEF FlagsFit
    <3>4. ~flags.scheduled
      BY <2>7, <3>3 DEF NothingScheduled
    <3>5. doomed = <<>>
      BY <2>1, <3>4, NowFields DEF Owed
    <3>6. Pending(doomed) = {}
      BY <3>5 DEF Pending
    <3> QED
      BY <2>1, <3>1, <3>6, NowFields DEF Owed
  <2>8. FlagsTakenBack
    BY <2>5, <2>6, <2>7 DEF FlagsTakenBack
  <2>9. /\ GrabAll(Now) = grab.normal + grab.menu + grab.passive
        /\ GrabAll(Now) > grab.passive => grab.pointer
        /\ grab.pointer => GrabAll(Now) > 0
    BY <2>1, <2>2, NowFields DEF GrabAll, PointerFits
  <2>10. grab.menu = Count("menu") /\ grab.passive = Count("click")
    BY <2>1, <2>2, CountIsHits DEF GrabsFit
  <2>11. grab.normal <= Count("function")
    <3>1. PICK m \in Nat : m = Hits(frames, Regrabbing)
      BY <2>1, HitsNat
    <3>2. grab.normal + m <= n
      BY <2>0, <2>2, <3>1 DEF GrabsFit
    <3>3. grab.normal <= n
      BY <2>1, <3>2
    <3> QED
      BY <2>3, <3>3
  <2> QED
    BY <2>8, <2>9, <2>10, <2>11 DEF NothingLeftBehind, GrabsBalanced
<1> QED
  BY <1>1, GoodInvariant, PTL

-----------------------------------------------------------------------------
(* Why no window that was freed is read and each is announced once.  A       *)
(* record is freed only while nothing executes: then the frames are Waits of *)
(* the event loop, which keep no window, and at most the activation of       *)
(* destroy_window that frees it.                                             *)

\* These never destroy a window or wait: what runs inside of them does.
Tame == {"function", "menu", "destroyfunc", "addtofunc"}

\* What is bound to a button over a window, or sent while M_DESTROY_WINDOW is
\* delayed, is tame; All runs in functions and from menus.
TameCommands ==
  /\ ClickCommands \cup LockCommands \subseteq Tame
  /\ "all" \notin EventCommands

\* A function, or the action of a menu, is below position i.
ExecBelow(fr, i) == \E j \in 1..(i - 1) : fr[j].kind \in {"function", "item"}
\* All below position i are Waits.
WaitsBelow(fr, i) == \A j \in 1..(i - 1) : fr[j].kind = "wait"

\* Which frames may be on top of which.
LayerFits(fr, i, kind) ==
  /\ kind \in {"put off", "all"} => ExecBelow(fr, i)
  /\ kind = "destroy" => WaitsBelow(fr, i)
  /\ kind = "wait" => ExecBelow(fr, i) \/ WaitsBelow(fr, i)

\* Every frame is where it may be.
Layered(fr) == \A i \in 1..Len(fr) : LayerFits(fr, i, fr[i].kind)

\* A function or an action runs.
Busy(fr) == ExecBelow(fr, Len(fr) + 1)
\* Only Waits of the event loop are left.
Idle(fr) == WaitsBelow(fr, Len(fr) + 1)

\* An activation of destroy_window, which is in its broadcast.
Ending(x) == x.kind \in {"put off", "destroy"}

\* No window that x keeps has been freed; one that ends is scheduled.
Lives(w, x) ==
  /\ x.win # None => w[x.win].status # "freed"
  /\ \A r \in x.todo : w[r].status # "freed"
  /\ Ending(x) => x.win \in Recs /\ w[x.win].status = "scheduled"

\* No frame keeps a window that was freed.
AllLive(w, fr) == \A i \in 1..Len(fr) : Lives(w, fr[i])

\* The windows of a queue are scheduled.
Due(w, q) == \A i \in 1..Len(q) : w[q[i]].status = "scheduled"

\* x ends a window that nothing else is about to free.
Sole(q, fr, x) ==
  Ending(x) => /\ \A i \in 1..Len(fr) : Ending(fr[i]) => fr[i].win # x.win
               /\ \A i \in 1..Len(q) : q[i] # x.win

\* Each window that is scheduled is freed in one place.
Once(q, fr) ==
  /\ \A i, j \in 1..Len(q) : q[i] = q[j] => i = j
  /\ \A i, j \in 1..Len(fr) :
       Ending(fr[i]) /\ Ending(fr[j]) /\ fr[i].win = fr[j].win => i = j
  /\ \A i \in 1..Len(q), j \in 1..Len(fr) : Ending(fr[j]) => fr[j].win # q[i]

\* M_DESTROY_WINDOW was sent for r once it went away, and once.
ToldOnce(w, r) == w[r].told = IF w[r].status \in {"none", "listed"} THEN 0 ELSE 1

\* So for every window.
Told(w) == \A r \in Recs : ToldOnce(w, r)

\* The second part of the inductive invariant.
Sound(S) ==
  /\ Layered(S.frames) /\ AllLive(S.win, S.frames) /\ Told(S.win)
  /\ Due(S.win, S.doomed) /\ Once(S.doomed, S.frames)

-----------------------------------------------------------------------------
\* What may be on top of frames depends on their kinds.
LEMMA SameBelow ==
  ASSUME NEW fr, NEW gr, NEW i \in Nat, \A j \in 1..(i - 1) : gr[j].kind = fr[j].kind
  PROVE  \A kind : LayerFits(gr, i, kind) <=> LayerFits(fr, i, kind)
<1>1. ExecBelow(gr, i) <=> ExecBelow(fr, i)
  BY DEF ExecBelow
<1>2. WaitsBelow(gr, i) <=> WaitsBelow(fr, i)
  BY DEF WaitsBelow
<1> QED
  BY <1>1, <1>2 DEF LayerFits

\* A push asks of the new frame that it may be on top.
LEMMA PushLayer ==
  ASSUME NEW fr \in Seq(Frame), NEW x \in Frame
  PROVE  Layered(Append(fr, x)) <=> Layered(fr) /\ LayerFits(fr, Len(fr) + 1, x.kind)
<1>1. PICK n \in Nat : n = Len(fr)
  OBVIOUS
<1>2. PICK gr : gr = Append(fr, x)
  OBVIOUS
<1>3. Len(gr) = n + 1 /\ gr[n + 1] = x /\ \A i \in 1..n : gr[i] = fr[i]
  BY <1>1, <1>2, Pushed
<1>4. ASSUME NEW i \in 1..(n + 1), NEW kind
      PROVE  LayerFits(gr, i, kind) <=> LayerFits(fr, i, kind)
  <2>1. i \in Nat /\ \A j \in 1..(i - 1) : j \in 1..n
    OBVIOUS
  <2>2. \A j \in 1..(i - 1) : gr[j].kind = fr[j].kind
    BY <1>3, <2>1
  <2> QED
    BY <2>1, <2>2, SameBelow
<1>5. 1..(n + 1) = 1..n \cup {n + 1}
  OBVIOUS
<1>6. Layered(gr) <=> /\ \A i \in 1..n : LayerFits(gr, i, fr[i].kind)
                      /\ LayerFits(gr, n + 1, x.kind)
  BY <1>3, <1>5 DEF Layered
<1>7. Layered(fr) <=> \A i \in 1..n : LayerFits(fr, i, fr[i].kind)
  BY <1>1 DEF Layered
<1> QED
  BY <1>1, <1>2, <1>4, <1>5, <1>6, <1>7

\* A push asks of the new frame that its windows are not freed.
LEMMA PushLive ==
  ASSUME NEW fr \in Seq(Frame), NEW x \in Frame, NEW w
  PROVE  AllLive(w, Append(fr, x)) <=> AllLive(w, fr) /\ Lives(w, x)
<1>1. PICK n \in Nat : n = Len(fr)
  OBVIOUS
<1>2. PICK gr : gr = Append(fr, x)
  OBVIOUS
<1>3. Len(gr) = n + 1 /\ gr[n + 1] = x /\ \A i \in 1..n : gr[i] = fr[i]
  BY <1>1, <1>2, Pushed
<1>4. 1..(n + 1) = 1..n \cup {n + 1}
  OBVIOUS
<1> QED
  BY <1>1, <1>2, <1>3, <1>4 DEF AllLive

\* A push asks of the new frame that it ends a window of its own.
LEMMA PushOnce ==
  ASSUME NEW fr \in Seq(Frame), NEW x \in Frame, NEW q
  PROVE  Once(q, Append(fr, x)) <=> Once(q, fr) /\ Sole(q, fr, x)
<1>1. PICK n \in Nat : n = Len(fr)
  OBVIOUS
<1>2. PICK gr : gr = Append(fr, x)
  OBVIOUS
<1>3. Len(gr) = n + 1 /\ gr[n + 1] = x /\ \A i \in 1..n : gr[i] = fr[i]
  BY <1>1, <1>2, Pushed
<1>4. /\ 1..(n + 1) = 1..n \cup {n + 1} /\ n + 1 \notin 1..n
      /\ \A i \in 1..n : i \in 1..(n + 1) /\ i # n + 1
  OBVIOUS
<1>5. ASSUME Once(q, fr), Sole(q, fr, x)
      PROVE  Once(q, gr)
  BY <1>1, <1>3, <1>4, <1>5 DEF Once, Sole
<1>6. ASSUME Once(q, gr)
      PROVE  Once(q, fr) /\ Sole(q, fr, x)
  BY <1>1, <1>3, <1>4, <1>6 DEF Once, Sole
<1> QED
  BY <1>2, <1>5, <1>6

\* Something executes when a function or the action of a menu is on the stack.
LEMMA BusyExecutes ==
  ASSUME NEW S \in States, Kept(S)
  PROVE  Executing(S) <=> Busy(S.frames)
<1>1. S.frames \in Seq(Frame) /\ FlagsFit(S.flags, S.frames) /\ S.flags.depth \in Nat
  BY StateParts DEF Kept
<1>2. PICK n \in Nat : n = Len(S.frames)
  BY <1>1
<1>3. \A i \in 1..n : S.frames[i] \in Frame
  BY <1>1, <1>2, ElementOfSeq
<1>4. UpTo(S.frames, n, OfKind("function")) = 0
        <=> \A i \in 1..n : S.frames[i] \notin OfKind("function")
  BY UpToNat
<1>5. S.flags.depth = UpTo(S.frames, n, OfKind("function"))
  BY <1>1, <1>2 DEF FlagsFit, Hits
<1>6. S.flags.function <=> S.flags.depth # 0
  BY <1>1 DEF FlagsFit
<1>7. S.flags.function <=> \E i \in 1..n : S.frames[i].kind = "function"
  BY <1>3, <1>4, <1>5, <1>6 DEF OfKind
<1>8. S.flags.menu <=> \E i \in 1..n : S.frames[i].kind = "item"
  BY <1>1, <1>2 DEF FlagsFit
<1>9. n + 1 - 1 = n
  OBVIOUS
<1> QED
  BY <1>2, <1>7, <1>8, <1>9 DEF Executing, Busy, ExecBelow

\* Flags, grabs, contexts and uses do not matter.
LEMMA SoundSame ==
  ASSUME NEW S, Sound(S), NEW T
  PROVE  T.win = S.win /\ T.frames = S.frames /\ T.doomed = S.doomed => Sound(T)
BY DEF Sound

\* A frame that ends no window begins.
LEMMA SoundPush ==
  ASSUME NEW S \in States, Sound(S), NEW x \in Frame, Lives(S.win, x), ~Ending(x),
         LayerFits(S.frames, Len(S.frames) + 1, x.kind),
         NEW T, T.win = S.win, T.doomed = S.doomed, T.frames = Append(S.frames, x)
  PROVE  Sound(T)
<1>1. S.frames \in Seq(Frame)
  BY StateParts
<1>2. /\ Layered(S.frames) /\ AllLive(S.win, S.frames) /\ Told(S.win)
      /\ Due(S.win, S.doomed) /\ Once(S.doomed, S.frames)
  BY DEF Sound
<1>3. Layered(T.frames)
  BY <1>1, <1>2, PushLayer
<1>4. AllLive(T.win, T.frames)
  BY <1>1, <1>2, PushLive
<1>5. Sole(S.doomed, S.frames, x)
  BY DEF Sole
<1>6. Once(T.doomed, T.frames)
  BY <1>1, <1>2, <1>5, PushOnce
<1> QED
  BY <1>2, <1>3, <1>4, <1>6 DEF Sound

\* A frame ends.
LEMMA SoundPop ==
  ASSUME NEW S \in States, Sound(S), NEW L, NEW x, Left(S, L, x)
  PROVE  /\ Sound(L) /\ Lives(S.win, x) /\ LayerFits(L.frames, Len(L.frames) + 1, x.kind)
         /\ Sole(L.doomed, L.frames, x) /\ L.frames \in Seq(Frame)
<1>1. /\ L \in States /\ x \in Frame /\ S.frames = Append(L.frames, x) /\ L.win = S.win
      /\ L.doomed = S.doomed
  BY DEF Left
<1>2. L.frames \in Seq(Frame)
  BY <1>1, StateParts
<1>3. /\ Layered(S.frames) /\ AllLive(S.win, S.frames) /\ Told(S.win)
      /\ Due(S.win, S.doomed) /\ Once(S.doomed, S.frames)
  BY DEF Sound
<1>4. Layered(L.frames) /\ LayerFits(L.frames, Len(L.frames) + 1, x.kind)
  BY <1>1, <1>2, <1>3, PushLayer
<1>5. AllLive(S.win, L.frames) /\ Lives(S.win, x)
  BY <1>1, <1>2, <1>3, PushLive
<1>6. Once(S.doomed, L.frames) /\ Sole(S.doomed, L.frames, x)
  BY <1>1, <1>2, <1>3, PushOnce
<1> QED
  BY <1>1, <1>2, <1>3, <1>4, <1>5, <1>6 DEF Sound

\* The innermost frame changes.
LEMMA SoundRetop ==
  ASSUME NEW S \in States, Sound(S), NEW L, NEW x, Left(S, L, x),
         NEW y \in Frame, Lives(S.win, y), ~Ending(y),
         LayerFits(L.frames, Len(L.frames) + 1, y.kind),
         NEW T, T.win = S.win, T.doomed = S.doomed, T.frames = Append(L.frames, y)
  PROVE  Sound(T)
<1>1. L \in States /\ L.win = S.win /\ L.doomed = S.doomed
  BY DEF Left
<1>2. Sound(L)
  BY SoundPop
<1>3. Lives(L.win, y) /\ T.win = L.win /\ T.doomed = L.doomed
  BY <1>1
<1> QED
  BY <1>1, <1>2, <1>3, SoundPush

-----------------------------------------------------------------------------
\* Waits of the event loop keep no window.
LEMMA IdleKeepsNothing ==
  ASSUME NEW fr \in Seq(Frame), FramesFit(fr), Idle(fr), NEW w
  PROVE  AllLive(w, fr)
<1>1. PICK n \in Nat : n = Len(fr)
  OBVIOUS
<1>2. n + 1 - 1 = n
  OBVIOUS
<1>3. \A i \in 1..n : fr[i].kind = "wait" /\ Fits(fr[i])
  BY <1>1, <1>2 DEF Idle, WaitsBelow, FramesFit
<1>4. \A i \in 1..n : fr[i].win = None /\ fr[i].todo = {}
  BY <1>3 DEF Fits
<1> QED
  BY <1>1, <1>3, <1>4 DEF AllLive, Lives, Ending

\* Nothing runs when only Waits are left.
LEMMA IdleNotBusy ==
  ASSUME NEW fr, Idle(fr)
  PROVE  ~Busy(fr)
BY DEF Idle, Busy, WaitsBelow, ExecBelow

\* The record of one window changed: it is scheduled now.
LEMMA ChangedLives ==
  ASSUME NEW S, NEW T, NEW r \in Recs, Changed(S, T, r, "scheduled", 1),
         NEW fr \in Seq(Frame), AllLive(S.win, fr)
  PROVE  AllLive(T.win, fr)
<1>1. \A q \in Recs : /\ S.win[q].status # "freed" => T.win[q].status # "freed"
                      /\ S.win[q].status = "scheduled" => T.win[q].status = "scheduled"
  BY DEF Changed
<1>2. ASSUME NEW i \in 1..Len(fr)
      PROVE  Lives(T.win, fr[i])
  <2>0. PICK x : x = fr[i]
    OBVIOUS
  <2>1. x \in Frame /\ Lives(S.win, x)
    BY <2>0, ElementOfSeq DEF AllLive
  <2>2. x.win \in Recs \cup {None} /\ x.todo \in SUBSET Recs
    BY <2>1 DEF Frame
  <2>3. x.win # None => T.win[x.win].status # "freed"
    BY <1>1, <2>1, <2>2 DEF Lives
  <2>4. \A q \in x.todo : T.win[q].status # "freed"
    BY <1>1, <2>1, <2>2 DEF Lives
  <2>5. Ending(x) => x.win \in Recs /\ T.win[x.win].status = "scheduled"
    BY <1>1, <2>1 DEF Lives
  <2> QED
    BY <2>0, <2>3, <2>4, <2>5 DEF Lives
<1> QED
  BY <1>2 DEF AllLive

\* A window is announced when it goes away.
LEMMA ScheduledTold ==
  ASSUME NEW S, NEW T, NEW r \in Recs, Told(S.win), Changed(S, T, r, "scheduled", 1),
         S.win[r].status \in {"none", "listed"}
  PROVE  Told(T.win)
<1>1. S.win[r].told = 0
  BY DEF Told, ToldOnce
<1>2. T.win[r].told = 1 /\ T.win[r].status = "scheduled"
  BY <1>1 DEF Changed
<1>3. ASSUME NEW q \in Recs
      PROVE  ToldOnce(T.win, q)
  <2>1. CASE q = r
    BY <1>2, <2>1 DEF ToldOnce
  <2>2. CASE q # r
    BY <2>2 DEF Told, ToldOnce, Changed
  <2> QED
    BY <2>1, <2>2
<1> QED
  BY <1>3 DEF Told

\* It is not announced again when it is freed.
LEMMA FreedTold ==
  ASSUME NEW S, NEW T, NEW r \in Recs, Told(S.win), Changed(S, T, r, "freed", 0),
         S.win[r].status = "scheduled"
  PROVE  Told(T.win)
<1>1. S.win[r].told = 1
  BY DEF Told, ToldOnce
<1>2. T.win[r].told = 1 /\ T.win[r].status = "freed"
  BY <1>1 DEF Changed
<1>3. ASSUME NEW q \in Recs
      PROVE  ToldOnce(T.win, q)
  <2>1. CASE q = r
    BY <1>2, <2>1 DEF ToldOnce
  <2>2. CASE q # r
    BY <2>2 DEF Told, ToldOnce, Changed
  <2> QED
    BY <2>1, <2>2
<1> QED
  BY <1>3 DEF Told

\* destroy_window broadcasts the end of a window that was listed.
LEMMA BeginsSound ==
  ASSUME NEW S \in States, Sound(S), NEW r \in Recs, S.win[r].status \in {"none", "listed"},
         NEW kind, LayerFits(S.frames, Len(S.frames) + 1, kind),
         NEW T, Changed(S, T, r, "scheduled", 1), Begins(S, T, kind, r), T.doomed = S.doomed
  PROVE  kind \in {"put off", "destroy"} => Sound(T)
<1>0. SUFFICES ASSUME kind \in {"put off", "destroy"} PROVE Sound(T)
  OBVIOUS
<1>1. PICK x \in Frame :
        T.frames = Append(S.frames, x) /\ Plain(x) /\ x.kind = kind /\ x.win = r
  BY DEF Begins
<1>2. x.todo = {} /\ x.win = r /\ T.win[r].status = "scheduled"
  BY <1>0, <1>1 DEF Plain, Fits, Changed
<1>3. Lives(T.win, x)
  BY <1>2 DEF Lives
<1>4. /\ S.frames \in Seq(Frame) /\ Layered(S.frames) /\ AllLive(S.win, S.frames)
      /\ Told(S.win) /\ Due(S.win, S.doomed) /\ Once(S.doomed, S.frames)
  BY StateParts DEF Sound
<1>5. AllLive(T.win, S.frames)
  BY <1>4, ChangedLives
<1>6. AllLive(T.win, T.frames)
  BY <1>1, <1>3, <1>4, <1>5, PushLive
<1>7. Layered(T.frames)
  BY <1>1, <1>4, PushLayer
<1>8. Told(T.win)
  BY <1>4, ScheduledTold
<1>9. Due(T.win, S.doomed)
  <2>1. S.doomed \in Seq(Recs)
    BY DEF States
  <2>2. ASSUME NEW i \in 1..Len(S.doomed)
        PROVE  T.win[S.doomed[i]].status = "scheduled"
    <3>1. S.doomed[i] \in Recs /\ S.win[S.doomed[i]].status = "scheduled"
      BY <1>4, <2>1, ElementOfSeq DEF Due
    <3> QED
      BY <3>1 DEF Changed
  <2> QED
    BY <2>2 DEF Due
<1>10. Sole(S.doomed, S.frames, x)
  BY <1>2, <1>4 DEF Sole, Due, AllLive, Lives
<1>11. Once(T.doomed, T.frames)
  BY <1>1, <1>4, <1>10, PushOnce
<1> QED
  BY <1>6, <1>7, <1>8, <1>9, <1>11 DEF Sound

\* A window may be destroyed while something executes, or by the event loop
\* if it is listed.
MayGo(S, r) ==
  \/ Busy(S.frames) /\ S.win[r].status # "freed"
  \/ Idle(S.frames) /\ S.win[r].status = "listed"

\* A window that may be destroyed is.
LEMMA DestroySound ==
  ASSUME NEW S \in States, Kept(S), Sound(S), NEW r \in Recs, MayGo(S, r),
         NEW T, T = DestroyWindow(S, r)
  PROVE  Sound(T)
<1>1. Executing(S) <=> Busy(S.frames)
  BY BusyExecutes
<1>2. S.win[r].status \in {"none", "listed", "scheduled"}
  BY DEF States, WinRec, MayGo
<1>3. CASE T = S
  BY <1>3
<1>4. CASE Executing(S) /\ S.win[r].status # "scheduled" /\ PutOff(S, T, r)
             /\ Begins(S, T, "put off", r) /\ Others(S, T)
  <2>1. S.win[r].status \in {"none", "listed"} /\ Changed(S, T, r, "scheduled", 1)
    BY <1>2, <1>4 DEF PutOff
  <2>2. LayerFits(S.frames, Len(S.frames) + 1, "put off")
    BY <1>1, <1>4 DEF LayerFits, Busy
  <2>3. "put off" \in {"put off", "destroy"} /\ T.doomed = S.doomed
    BY <1>4 DEF Others
  <2> QED
    BY <1>4, <2>1, <2>2, <2>3, BeginsSound
<1>5. ~(~Executing(S) /\ S.win[r].status = "scheduled")
  BY <1>1 DEF MayGo
<1>6. CASE ~Executing(S) /\ S.win[r].status # "scheduled" /\ Destroys(S, T, r)
             /\ Begins(S, T, "destroy", r) /\ Others(S, T)
  <2>1. S.win[r].status \in {"none", "listed"} /\ Changed(S, T, r, "scheduled", 1)
    BY <1>2, <1>6 DEF Destroys
  <2>2. LayerFits(S.frames, Len(S.frames) + 1, "destroy")
    BY <1>1, <1>6 DEF LayerFits, Idle, MayGo
  <2>3. "destroy" \in {"put off", "destroy"} /\ T.doomed = S.doomed
    BY <1>6 DEF Others
  <2> QED
    BY <1>6, <2>1, <2>2, <2>3, BeginsSound
<1>7. Outcome(S, T, r)
  BY DestroyCases
<1> QED
  BY <1>3, <1>4, <1>5, <1>6, <1>7 DEF Outcome

-----------------------------------------------------------------------------
\* What was called may read r.
Alive(S, r) == r # None => S.win[r].status # "freed"

\* The commands that may be executed for r on top of the frames of S.
Ready(cmds, S, r) ==
  \/ Busy(S.frames)
  \/ Idle(S.frames) /\ "all" \notin cmds /\ (r # None => S.win[r].status = "listed")
  \/ cmds \subseteq Tame

\* A frame of a command begins.
LEMMA EnterSound ==
  ASSUME NEW S \in States, Sound(S), NEW G \in States, G.win = S.win, G.frames = S.frames,
         G.doomed = S.doomed, NEW kind \in Kinds \ {"put off", "destroy"}, NEW r \in Recs \cup {None}, NEW f \in Functions \cup {None},
         NEW todo \in SUBSET Recs, NEW saved \in BOOLEAN,
         Alive(S, r), \A q \in todo : S.win[q].status # "freed",
         LayerFits(S.frames, Len(S.frames) + 1, kind), NEW T
  PROVE  T = Enter(G, kind, r, f, todo, saved) => Sound(T)
<1>0. SUFFICES ASSUME T = Enter(G, kind, r, f, todo, saved) PROVE Sound(T)
  OBVIOUS
<1>1. Entered(G, T, kind, r, f, todo, saved)
  BY <1>0, EnterFields
<1>2. PICK x \in Frame :
        /\ x.kind = kind /\ x.win = r /\ x.todo = todo
        /\ T.frames = Append(G.frames, x) /\ T.win = G.win /\ T.doomed = G.doomed
  BY <1>1 DEF Entered
<1>3. Lives(S.win, x) /\ ~Ending(x)
  BY <1>2 DEF Lives, Alive, Ending
<1> QED
  BY <1>2, <1>3, SoundPush

\* A complex function begins or is given up.
LEMMA FunctionSound ==
  ASSUME NEW S \in States, Good(S), Sound(S), NEW r \in Recs \cup {None}, Alive(S, r),
         NEW f \in DOMAIN S.uses, NEW T
  PROVE  T \in ExecuteComplexFunction(S, f, r) => Sound(T)
<1>0. SUFFICES ASSUME T \in ExecuteComplexFunction(S, f, r) PROVE Sound(T)
  OBVIOUS
<1>1. PICK B : B = BeginFunction(S, f)
  OBVIOUS
<1>2. PICK targets : targets = IF r = None THEN Listed(S) \cup {None} ELSE {r}
  OBVIOUS
<1>3. /\ B \in States /\ B.win = S.win /\ B.frames = S.frames /\ B.doomed = S.doomed
      /\ UsesChanged(S.uses, B.uses, f, 1) /\ B.flags.depth = S.flags.depth + 1
  BY <1>1, BeginFields DEF Same
<1>4. CASE T = EndFunction(B, f)
  <2>1. f \in DOMAIN B.uses /\ B.uses[f] = S.uses[f] + 1
    BY <1>3 DEF UsesChanged
  <2>2. S.uses[f] \in Nat /\ S.flags.depth \in Nat
    BY StateParts
  <2>3. B.uses[f] # 0 /\ B.flags.depth # 0
    BY <1>3, <2>1, <2>2
  <2>4. T.win = B.win /\ T.frames = B.frames /\ T.doomed = B.doomed
    BY <1>3, <1>4, <2>1, <2>3, EndFields DEF Same
  <2> QED
    BY <1>3, <2>4, SoundSame
<1>5. ASSUME NEW t \in targets, T = Enter(GrabEm(B, "normal"), "function", t, f, {}, FALSE)
      PROVE  Sound(T)
  <2>1. PICK G : G = GrabEm(B, "normal")
    OBVIOUS
  <2>2. "normal" \in {"normal", "menu", "passive"}
    OBVIOUS
  <2>3. G \in States /\ G.win = B.win /\ G.frames = B.frames /\ G.doomed = B.doomed
    BY <1>3, <2>1, <2>2, GrabFields
  <2>4. t \in Recs \cup {None} /\ Alive(S, t)
    BY <1>2 DEF Listed, Alive
  <2>5. f \in Functions \cup {None} /\ "function" \in Kinds \ {"put off", "destroy"} /\ FALSE \in BOOLEAN
    BY StateParts DEF Kinds
  <2>6. LayerFits(S.frames, Len(S.frames) + 1, "function")
    BY DEF LayerFits
  <2>7. T = Enter(G, "function", t, f, {}, FALSE)
    BY <1>5, <2>1
  <2>8. G.win = S.win /\ G.frames = S.frames /\ G.doomed = S.doomed
    BY <1>3, <2>3
  <2> QED
    BY <2>3, <2>4, <2>5, <2>6, <2>7, <2>8, EnterSound
<1> QED
  BY <1>0, <1>1, <1>2, <1>4, <1>5 DEF ExecuteComplexFunction

\* A command that may be executed is.
LEMMA ExecuteSound ==
  ASSUME NEW S \in States, Good(S), Sound(S), NEW r \in Recs \cup {None}, Alive(S, r),
         NEW cmds \in SUBSET Commands, Ready(cmds, S, r), NEW cmd \in cmds,
         NEW T \in Execute(S, cmd, r)
  PROVE  Sound(T)
<1>1. CASE cmd = "close"
  <2>2. T = S \/ (r \in Recs /\ T = DestroyWindow(S, r))
    BY <1>1 DEF Execute
  <2>3. ASSUME r \in Recs, T = DestroyWindow(S, r)
        PROVE  Sound(T)
    <3>0. r # None
      BY <2>3, WindowUseAssumption
    <3>1. MayGo(S, r)
      BY <1>1, <3>0 DEF Ready, Tame, Alive, MayGo
    <3> QED
      BY <2>3, <3>1, DestroySound DEF Good
  <2> QED
    BY <2>2, <2>3
<1>2. CASE cmd = "wait"
  <2>1. Busy(S.frames) \/ Idle(S.frames)
    BY <1>2 DEF Ready, Tame
  <2>2. PICK G : G = UngrabEm(S, "normal")
    OBVIOUS
  <2>3. "normal" \in {"normal", "menu", "passive"}
    OBVIOUS
  <2>4. G \in States /\ G.win = S.win /\ G.frames = S.frames /\ G.doomed = S.doomed
    BY <2>2, <2>3, UngrabFields
  <2>5. PICK b \in BOOLEAN : b = (S.grab.normal > 0)
    <3>1. (S.grab.normal > 0) \in BOOLEAN
      OBVIOUS
    <3> QED
      BY <3>1, Zenon
  <2>6. T = Enter(G, "wait", None, None, {}, b)
    BY <1>2, <2>2, <2>5 DEF Execute, CmdWait
  <2>7. LayerFits(S.frames, Len(S.frames) + 1, "wait")
    BY <2>1 DEF LayerFits, Busy, Idle
  <2>8. /\ "wait" \in Kinds \ {"put off", "destroy"} /\ None \in Recs \cup {None} /\ None \in Functions \cup {None}
        /\ {} \in SUBSET Recs /\ Alive(S, None) /\ \A q \in {} : S.win[q].status # "freed"
    BY DEF Kinds, Alive
  <2> QED
    BY <2>4, <2>6, <2>7, <2>8, EnterSound
<1>3. CASE cmd = "menu"
  <2>1. PICK G : G = GrabEm(S, "menu")
    OBVIOUS
  <2>2. "menu" \in {"normal", "menu", "passive"} /\ "menu" \in Kinds \ {"put off", "destroy"}
    BY DEF Kinds
  <2>3. G \in States /\ G.win = S.win /\ G.frames = S.frames /\ G.doomed = S.doomed
    BY <2>1, <2>2, GrabFields
  <2>4. T = S \/ T = Enter(G, "menu", r, None, {}, FALSE)
    BY <1>3, <2>1 DEF Execute, CmdMenu
  <2>5. LayerFits(S.frames, Len(S.frames) + 1, "menu")
    BY DEF LayerFits
  <2>6. /\ None \in Functions \cup {None} /\ {} \in SUBSET Recs /\ FALSE \in BOOLEAN
        /\ \A q \in {} : S.win[q].status # "freed"
    OBVIOUS
  <2>7. T = Enter(G, "menu", r, None, {}, FALSE) => Sound(T)
    BY <2>2, <2>3, <2>5, <2>6, EnterSound
  <2> QED
    BY <2>4, <2>7
<1>4. CASE cmd = "all"
  <2>1. Busy(S.frames)
    BY <1>4 DEF Ready, Tame
  <2>2. T = Enter(S, "all", None, None, Listed(S), FALSE)
    BY <1>4 DEF Execute
  <2>3. LayerFits(S.frames, Len(S.frames) + 1, "all")
    BY <2>1 DEF LayerFits, Busy
  <2>4. /\ "all" \in Kinds \ {"put off", "destroy"} /\ None \in Recs \cup {None} /\ None \in Functions \cup {None}
        /\ Listed(S) \in SUBSET Recs /\ Alive(S, None) /\ FALSE \in BOOLEAN
        /\ \A q \in Listed(S) : S.win[q].status # "freed"
    BY DEF Kinds, Alive, Listed
  <2> QED
    BY <2>2, <2>3, <2>4, EnterSound
<1>5. CASE cmd = "function"
  <2>1. T = S \/ \E f \in DOMAIN S.uses : T \in ExecuteComplexFunction(S, f, r)
    BY <1>5 DEF Execute
  <2> QED
    BY <2>1, FunctionSound
<1>6. ASSUME NEW us, T = [S EXCEPT !.uses = us]
      PROVE  Sound(T)
  <2>1. T.win = S.win /\ T.frames = S.frames /\ T.doomed = S.doomed
    BY <1>6 DEF States
  <2> QED
    BY <2>1, SoundSame
<1>7. CASE cmd = "destroyfunc"
  <2>1. T = S \/ \E f \in DOMAIN S.uses : T = DestroyFunction(S, f)
    BY <1>7 DEF Execute
  <2>2. T = S \/ \E us : T = [S EXCEPT !.uses = us]
    BY <2>1 DEF DestroyFunction
  <2> QED
    BY <1>6, <2>2
<1>8. CASE cmd = "addtofunc"
  <2>1. \E f \in Functions : T = AddToFunction(S, f)
    BY <1>8 DEF Execute
  <2>2. \E us : T = [S EXCEPT !.uses = us]
    BY <2>1 DEF AddToFunction
  <2> QED
    BY <1>6, <2>2
<1> QED
  BY <1>1, <1>2, <1>3, <1>4, <1>5, <1>7, <1>8 DEF Commands

\* A step that executes one of some commands.
LEMMA StepSound ==
  ASSUME NEW S, Good(S), Sound(S), NEW cmds \in SUBSET Commands, NEW r \in Recs \cup {None},
         Alive(S, r), Ready(cmds, S, r), Step(cmds, S, r)
  PROVE  Sound(Now')
<1>1. S \in States
  BY GoodState
<1>2. CASE Becomes(S)
  BY <1>1, <1>2, BecomesNow
<1>3. ASSUME NEW cmd \in cmds, NEW T \in Execute(S, cmd, r), Becomes(T)
      PROVE  Sound(Now')
  <2>1. Good(T)
    BY <1>1, ExecuteGood
  <2>2. Sound(T)
    BY <1>1, ExecuteSound
  <2> QED
    BY <1>3, <2>1, <2>2, GoodState, BecomesNow
<1> QED
  BY <1>2, <1>3 DEF Step

-----------------------------------------------------------------------------
\* What runs, with one frame more.
LEMMA TopLayer ==
  ASSUME NEW fr \in Seq(Frame), NEW x \in Frame
  PROVE  /\ Busy(Append(fr, x)) <=> Busy(fr) \/ x.kind \in {"function", "item"}
         /\ Idle(Append(fr, x)) <=> Idle(fr) /\ x.kind = "wait"
<1>1. PICK n \in Nat : n = Len(fr)
  OBVIOUS
<1>2. PICK gr : gr = Append(fr, x)
  OBVIOUS
<1>3. Len(gr) = n + 1 /\ gr[n + 1] = x /\ \A i \in 1..n : gr[i] = fr[i]
  BY <1>1, <1>2, Pushed
<1>4. n + 1 + 1 - 1 = n + 1 /\ n + 1 - 1 = n /\ 1..(n + 1) = 1..n \cup {n + 1}
  OBVIOUS
<1>5. Busy(gr) <=> \E i \in 1..(n + 1) : gr[i].kind \in {"function", "item"}
  BY <1>3, <1>4 DEF Busy, ExecBelow
<1>6. Busy(fr) <=> \E i \in 1..n : fr[i].kind \in {"function", "item"}
  BY <1>1, <1>4 DEF Busy, ExecBelow
<1>7. Idle(gr) <=> \A i \in 1..(n + 1) : gr[i].kind = "wait"
  BY <1>3, <1>4 DEF Idle, WaitsBelow
<1>8. Idle(fr) <=> \A i \in 1..n : fr[i].kind = "wait"
  BY <1>1, <1>4 DEF Idle, WaitsBelow
<1>9. (\E i \in 1..(n + 1) : gr[i].kind \in {"function", "item"})
        <=> (\E i \in 1..n : fr[i].kind \in {"function", "item"}) \/ x.kind \in {"function", "item"}
  BY <1>3, <1>4
<1>10. (\A i \in 1..(n + 1) : gr[i].kind = "wait")
         <=> (\A i \in 1..n : fr[i].kind = "wait") /\ x.kind = "wait"
  BY <1>3, <1>4
<1> QED
  BY <1>2, <1>5, <1>6, <1>7, <1>8, <1>9, <1>10

\* What is known of the innermost frame when a step of it begins.
LEMMA TopSound ==
  ASSUME Good(Now), Sound(Now), frames # <<>>
  PROVE  /\ Now \in States /\ Left(Now, Leave(Now), Top) /\ Top \in Frame /\ Fits(Top)
         /\ Sound(Leave(Now)) /\ Lives(win, Top) /\ Leave(Now).frames \in Seq(Frame)
         /\ LayerFits(Leave(Now).frames, Len(Leave(Now).frames) + 1, Top.kind)
         /\ Sole(Leave(Now).doomed, Leave(Now).frames, Top)
         /\ frames = Append(Leave(Now).frames, Top)
         /\ Busy(frames) <=> Busy(Leave(Now).frames) \/ Top.kind \in {"function", "item"}
         /\ Idle(frames) <=> Idle(Leave(Now).frames) /\ Top.kind = "wait"
         /\ Alive(Now, Top.win) /\ Top.win \in Recs \cup {None}
<1>1. /\ Now \in States /\ Left(Now, Leave(Now), Top) /\ Top \in Frame
      /\ Top.win \in Recs \cup {None}
  BY TopFields
<1>2. Fits(Top) /\ frames = Append(Leave(Now).frames, Top)
  BY <1>1, LeftParts, NowFields
<1>3. /\ Sound(Leave(Now)) /\ Lives(win, Top) /\ Leave(Now).frames \in Seq(Frame)
      /\ LayerFits(Leave(Now).frames, Len(Leave(Now).frames) + 1, Top.kind)
      /\ Sole(Leave(Now).doomed, Leave(Now).frames, Top)
  BY <1>1, NowFields, SoundPop
<1>4. /\ Busy(frames) <=> Busy(Leave(Now).frames) \/ Top.kind \in {"function", "item"}
      /\ Idle(frames) <=> Idle(Leave(Now).frames) /\ Top.kind = "wait"
  BY <1>1, <1>2, <1>3, TopLayer
<1>5. Alive(Now, Top.win)
  BY <1>3, NowFields DEF Lives, Alive
<1> QED
  BY <1>1, <1>2, <1>3, <1>4, <1>5

\* Where the event loop runs, something executes or only Waits are left.
LEMMA LoopReady ==
  ASSUME Good(Now), Sound(Now), InEventLoop
  PROVE  Busy(frames) \/ Idle(frames)
<1>1. CASE frames = <<>>
  <2>1. Len(frames) = 0
    BY <1>1, EmptySeq
  <2> QED
    BY <2>1 DEF Idle, WaitsBelow
<1>2. CASE frames # <<>> /\ Top.kind = "wait"
  <2>1. LayerFits(Leave(Now).frames, Len(Leave(Now).frames) + 1, "wait")
    BY <1>2, TopSound
  <2>2. Busy(Leave(Now).frames) \/ Idle(Leave(Now).frames)
    BY <2>1 DEF LayerFits, Busy, Idle
  <2> QED
    BY <1>2, <2>2, TopSound
<1> QED
  BY <1>1, <1>2 DEF InEventLoop, Runs

\* The context of a client leads to a record that may be read; to a listed one
\* while the event loop is idle.
LEMMA ContextAlive ==
  ASSUME NEW S \in States, Contexts(S), Sound(S), NEW c \in Clients, S.context[c] # None
  PROVE  /\ S.context[c] \in Recs /\ Alive(S, S.context[c])
         /\ Idle(S.frames) => S.win[S.context[c]].status = "listed"
<1>1. S.context[c] \in Recs /\ S.frames \in Seq(Frame)
  BY StateParts DEF States
<1>2. \/ S.win[S.context[c]].status = "listed"
      \/ S.context[c] \in Held(S.frames, {"destroy"})
  BY DEF Contexts
<1>3. CASE S.win[S.context[c]].status = "listed"
  BY <1>1, <1>3 DEF Alive
<1>4. CASE S.context[c] \in Held(S.frames, {"destroy"})
  <2>1. PICK i \in 1..Len(S.frames) :
          S.frames[i].kind = "destroy" /\ S.frames[i].win = S.context[c]
    BY <1>4 DEF Held
  <2>2. Lives(S.win, S.frames[i])
    BY DEF Sound, AllLive
  <2>3. S.win[S.context[c]].status = "scheduled"
    BY <2>1, <2>2 DEF Lives, Ending
  <2>4. ~Idle(S.frames)
    <3>1. PICK n \in Nat : n = Len(S.frames)
      BY <1>1
    <3>2. n + 1 - 1 = n
      OBVIOUS
    <3> QED
      BY <2>1, <3>1, <3>2 DEF Idle, WaitsBelow
  <2> QED
    BY <1>1, <2>3, <2>4 DEF Alive
<1> QED
  BY <1>2, <1>3, <1>4

\* Each action keeps Sound.
LEMMA DestroyNotifySound ==
  ASSUME Good(Now), Sound(Now), NEW c \in Clients, HandleDestroyNotify(c)
  PROVE  Sound(Now')
<1>1. Now \in States /\ Kept(Now) /\ Contexts(Now) /\ Now.context[c] # None
  BY GoodState, NowFields DEF HandleDestroyNotify, Good
<1>2. PICK r \in Recs : r = Now.context[c]
  BY <1>1, ContextAlive
<1>3. Alive(Now, r) /\ (Idle(Now.frames) => Now.win[r].status = "listed")
  BY <1>1, <1>2, ContextAlive
<1>4. Busy(Now.frames) \/ Idle(Now.frames)
  BY LoopReady, NowFields DEF HandleDestroyNotify
<1>5. MayGo(Now, r)
  BY <1>3, <1>4, WindowUseAssumption DEF MayGo, Alive
<1>6. PICK T : T = DestroyWindow(Now, r)
  OBVIOUS
<1>7. Sound(T) /\ T \in States
  BY <1>1, <1>5, <1>6, DestroySound, DestroyCases
<1>8. Becomes(T)
  BY <1>2, <1>6, NowFields DEF HandleDestroyNotify
<1> QED
  BY <1>7, <1>8, BecomesNow

\* A record that is used again was kept by no frame.
LEMMA MapRequestSound ==
  ASSUME Good(Now), Sound(Now), NEW c \in Clients, HandleMapRequest(c)
  PROVE  Sound(Now')
<1>1. win \in [Recs -> WinRec] /\ frames \in Seq(Frame) /\ doomed \in Seq(Recs)
  BY GoodState, NowFields DEF States
<1>2. PICK r \in Unused :
        win' = [win EXCEPT ![r] = [client |-> c, told |-> 0, status |-> "listed"]]
  BY DEF HandleMapRequest
<1>3. /\ r \in Recs /\ win[r].status \in {"none", "freed"}
      /\ UNCHANGED <<doomed, frames>>
  BY <1>2 DEF Unused, HandleMapRequest
<1>4. /\ win'[r].status = "listed" /\ win'[r].told = 0
      /\ \A q \in Recs : q # r => win'[q] = win[q]
  BY <1>1, <1>2, <1>3
<1>5. /\ Layered(frames) /\ AllLive(win, frames) /\ Told(win)
      /\ Due(win, doomed) /\ Once(doomed, frames)
  BY NowFields DEF Sound
<1>6. AllLive(win', frames)
  <2>1. \A q \in Recs : /\ win[q].status # "freed" => win'[q].status # "freed"
                        /\ win[q].status = "scheduled" => win'[q].status = "scheduled"
    BY <1>3, <1>4
  <2>2. ASSUME NEW i \in 1..Len(frames)
        PROVE  Lives(win', frames[i])
    <3>1. PICK x : x = frames[i]
      OBVIOUS
    <3>6. x \in Frame /\ Lives(win, x)
      BY <1>1, <1>5, <3>1, ElementOfSeq DEF AllLive
    <3>2. Lives(win, x) /\ x.win \in Recs \cup {None} /\ x.todo \in SUBSET Recs
      BY <3>6 DEF Frame
    <3>3. x.win # None => win'[x.win].status # "freed"
      BY <2>1, <3>2 DEF Lives
    <3>4. \A q \in x.todo : win'[q].status # "freed"
      BY <2>1, <3>2 DEF Lives
    <3>5. Ending(x) => x.win \in Recs /\ win'[x.win].status = "scheduled"
      BY <2>1, <3>2 DEF Lives
    <3> QED
      BY <3>1, <3>3, <3>4, <3>5 DEF Lives
  <2> QED
    BY <2>2 DEF AllLive
<1>7. Told(win')
  <2>1. ASSUME NEW q \in Recs
        PROVE  ToldOnce(win', q)
    <3>1. CASE q = r
      BY <1>4, <3>1 DEF ToldOnce
    <3>2. CASE q # r
      BY <1>4, <1>5, <3>2 DEF Told, ToldOnce
    <3> QED
      BY <3>1, <3>2
  <2> QED
    BY <2>1 DEF Told
<1>8. Due(win', doomed)
  <2>1. ASSUME NEW i \in 1..Len(doomed)
        PROVE  win'[doomed[i]].status = "scheduled"
    <3>1. doomed[i] \in Recs /\ win[doomed[i]].status = "scheduled"
      BY <1>1, <1>5, ElementOfSeq DEF Due
    <3> QED
      BY <1>3, <1>4, <3>1
  <2> QED
    BY <2>1 DEF Due
<1>9. (Now').win = win' /\ (Now').doomed = doomed /\ (Now').frames = frames
  BY <1>3 DEF Now
<1> QED
  BY <1>5, <1>6, <1>7, <1>8, <1>9 DEF Sound

\* A button press executes a tame command for the window under the pointer.
LEMMA ButtonPressSound ==
  ASSUME TameCommands, Good(Now), Sound(Now), HandleButtonPress
  PROVE  Sound(Now')
<1>1. PICK r \in Recs :
        /\ win[r].status = "listed"
        /\ Step(ClickCommands, Enter(GrabEm(Now, "passive"), "click", r, None, {}, FALSE), r)
  BY NowFields DEF HandleButtonPress, Listed
<1>2. PICK G : G = GrabEm(Now, "passive")
  OBVIOUS
<1>3. PICK T : T = Enter(G, "click", r, None, {}, FALSE)
  OBVIOUS
<1>4. /\ "click" \in Kinds \ {"put off", "destroy"} /\ "click" \in Kinds
      /\ "passive" \in {"normal", "menu", "passive"} /\ r \in Recs \cup {None} /\ r # None
      /\ None \in Functions \cup {None} /\ {} \in SUBSET Recs /\ FALSE \in BOOLEAN
      /\ \A q \in {} : win[q].status # "freed"
  BY WindowUseAssumption DEF Kinds
<1>5. T = Enter(GrabEm(Now, "passive"), "click", r, None, {}, FALSE)
  BY <1>2, <1>3
<1>6. Good(T)
  BY <1>4, <1>5, GoodState, GrabbedGood
<1>7. /\ G \in States /\ G.win = Now.win /\ G.frames = Now.frames /\ G.doomed = Now.doomed
      /\ Now \in States
  BY <1>2, <1>4, GoodState, GrabFields
<1>8. LayerFits(Now.frames, Len(Now.frames) + 1, "click") /\ Alive(Now, r)
  BY <1>1, NowFields DEF LayerFits, Alive
<1>9. Sound(T)
  BY <1>3, <1>4, <1>7, <1>8, EnterSound
<1>10. T.win = Now.win
  <2>1. Entered(G, T, "click", r, None, {}, FALSE)
    BY <1>3, <1>4, <1>7, EnterFields
  <2> QED
    BY <1>7, <2>1 DEF Entered
<1>11. Alive(T, r) /\ Ready(ClickCommands, T, r)
  BY <1>8, <1>10 DEF Alive, Ready, TameCommands
<1>12. Step(ClickCommands, T, r)
  BY <1>1, <1>5
<1> QED
  BY <1>4, <1>6, <1>9, <1>11, <1>12, CommandSets, StepSound

LEMMA CommandSound ==
  ASSUME TameCommands, Good(Now), Sound(Now), HandleCommand
  PROVE  Sound(Now')
<1>1. PICK r \in Recs \cup {None} :
        (r # None => win[r].status = "listed") /\ Step(EventCommands, Now, r)
  BY NowFields DEF HandleCommand, Listed
<1>2. Busy(Now.frames) \/ Idle(Now.frames)
  BY LoopReady, NowFields DEF HandleCommand
<1>3. Alive(Now, r)
  BY <1>1, NowFields DEF Alive
<1>4. Ready(EventCommands, Now, r)
  BY <1>1, <1>2, NowFields DEF Ready, TameCommands
<1> QED
  BY <1>1, <1>3, <1>4, CommandSets, StepSound

LEMMA FunctionItemSound ==
  ASSUME Good(Now), Sound(Now), RunFunctionItem
  PROVE  Sound(Now')
<1>1. frames # <<>> /\ Top.kind = "function" /\ Step(FunctionCommands, Now, Top.win)
  BY DEF RunFunctionItem, Runs
<1>2. /\ Alive(Now, Top.win) /\ Top.win \in Recs \cup {None}
      /\ Busy(frames)
  BY <1>1, TopSound
<1>3. Ready(FunctionCommands, Now, Top.win)
  BY <1>2, NowFields DEF Ready
<1> QED
  BY <1>1, <1>2, <1>3, CommandSets, StepSound

\* A module that delays M_DESTROY_WINDOW sends tame commands.
LEMMA LockedCommandSound ==
  ASSUME TameCommands, Good(Now), Sound(Now), RunLockedCommand
  PROVE  Sound(Now')
<1>1. PICK c \in Clients : context[c] # None /\ Step(LockCommands, Now, context[c])
  BY DEF RunLockedCommand
<1>2. Now \in States /\ Contexts(Now)
  BY GoodState DEF Good
<1>3. Now.context[c] \in Recs /\ Alive(Now, Now.context[c])
  BY <1>1, <1>2, NowFields, ContextAlive
<1>4. context[c] \in Recs \cup {None} /\ Alive(Now, context[c])
  BY <1>3, NowFields
<1>5. Ready(LockCommands, Now, context[c])
  BY DEF Ready, TameCommands
<1> QED
  BY <1>1, <1>4, <1>5, CommandSets, StepSound

LEMMA SelectWindowSound ==
  ASSUME Good(Now), Sound(Now), SelectWindow
  PROVE  Sound(Now')
<1>1. frames # <<>> /\ Top.kind = "function"
  BY DEF SelectWindow, Runs
<1>2. /\ Now \in States /\ frames[Len(frames)] = Top /\ Top \in Frame
      /\ Left(Now, Leave(Now), Top) /\ Now.frames = frames /\ Fits(Top)
  BY <1>1, TopFields, TopSound, NowFields
<1>3. PICK r \in Recs :
        frames' = [frames EXCEPT ![Len(frames)].win = r] /\ win[r].status = "listed"
  BY NowFields DEF SelectWindow, Listed
<1>4. PICK y : y = [Top EXCEPT !.win = r]
  OBVIOUS
<1>5. y \in Frame /\ y.kind = "function" /\ y.win = r /\ y.todo = Top.todo
  BY <1>1, <1>2, <1>4 DEF Frame
<1>6. frames' = [frames EXCEPT ![Len(frames)] = y]
  BY <1>2, <1>3, <1>4
<1>7. PICK T : T = [Now EXCEPT !.frames = [Now.frames EXCEPT ![Len(Now.frames)] = y]]
  OBVIOUS
<1>8. Now' = T
  BY <1>2, <1>6, <1>7 DEF SelectWindow, Now
<1>9. T.frames = Append(Leave(Now).frames, y) /\ Same(Now, T)
  <2>1. Now.frames # <<>> /\ y \in Frame
    BY <1>1, <1>2, <1>5
  <2> QED
    BY <1>2, <1>7, <2>1, ReplaceTop
<1>10. Lives(win, y) /\ ~Ending(y)
  <2>1. Top.todo = {}
    BY <1>1, <1>2 DEF Fits
  <2> QED
    BY <1>3, <1>5, <2>1 DEF Lives, Ending
<1>11. LayerFits(Leave(Now).frames, Len(Leave(Now).frames) + 1, y.kind)
  BY <1>5 DEF LayerFits
<1>12. Sound(T)
  BY <1>2, <1>5, <1>9, <1>10, <1>11, NowFields, SoundRetop DEF Same
<1> QED
  BY <1>8, <1>12

LEMMA RunAllSound ==
  ASSUME Good(Now), Sound(Now), RunAll
  PROVE  Sound(Now')
<1>1. frames # <<>> /\ Top.kind = "all"
  BY DEF RunAll, Runs
<1>2. /\ Now \in States /\ frames[Len(frames)] = Top /\ Top \in Frame
      /\ Left(Now, Leave(Now), Top) /\ Now.frames = frames /\ Fits(Top)
      /\ Top.todo \in SUBSET Recs
  BY <1>1, TopFields, TopSound, NowFields
<1>3. PICK r \in Top.todo :
        Step(AllCommands, [Now EXCEPT !.frames[Len(frames)].todo = @ \ {r}], r)
  BY DEF RunAll
<1>4. PICK y : y = [Top EXCEPT !.todo = Top.todo \ {r}]
  OBVIOUS
<1>5. /\ y \in Frame /\ y.kind = Top.kind /\ y.func = Top.func /\ y.saved = Top.saved
      /\ y.win = Top.win /\ y.todo = Top.todo \ {r}
  BY <1>2, <1>4 DEF Frame
<1>6. Fits(y) /\ Top.win = None
  BY <1>1, <1>2, <1>5 DEF Fits
<1>7. PICK T : T = [Now EXCEPT !.frames = [Now.frames EXCEPT ![Len(Now.frames)] = y]]
  OBVIOUS
<1>8. Top.kind # "put off" /\ Top.kind # "destroy" /\ Now.frames # <<>>
  BY <1>1, <1>2
<1>9. Good(T)
  BY <1>2, <1>5, <1>6, <1>7, <1>8, ChangeGood
<1>10. [Now EXCEPT !.frames[Len(frames)].todo = @ \ {r}] = T
  BY <1>2, <1>4, <1>7
<1>11. T.frames = Append(Leave(Now).frames, y) /\ Same(Now, T)
  <2>1. y \in Frame
    BY <1>5
  <2> QED
    BY <1>2, <1>7, <1>8, <2>1, ReplaceTop
<1>12. /\ Lives(win, Top) /\ Leave(Now).frames \in Seq(Frame)
       /\ LayerFits(Leave(Now).frames, Len(Leave(Now).frames) + 1, Top.kind)
  BY <1>1, TopSound
<1>13. Lives(win, y) /\ ~Ending(y) /\ win[r].status # "freed"
  <2>1. ~Ending(y) /\ y.win = None
    BY <1>1, <1>5, <1>6 DEF Ending
  <2> QED
    BY <1>5, <1>12, <2>1 DEF Lives
<1>14. LayerFits(Leave(Now).frames, Len(Leave(Now).frames) + 1, y.kind)
  BY <1>5, <1>12
<1>15. Sound(T)
  BY <1>2, <1>5, <1>11, <1>13, <1>14, NowFields, SoundRetop DEF Same
<1>16. Busy(T.frames)
  <2>1. Busy(Leave(Now).frames)
    BY <1>1, <1>12 DEF LayerFits, Busy
  <2> QED
    BY <1>5, <1>11, <1>12, <2>1, TopLayer
<1>17. Ready(AllCommands, T, r)
  BY <1>16 DEF Ready
<1>18. r \in Recs \cup {None} /\ Alive(T, r)
  BY <1>2, <1>11, <1>13, NowFields DEF Alive, Same
<1> QED
  BY <1>3, <1>9, <1>10, <1>15, <1>17, <1>18, CommandSets, StepSound

\* The action of a menu runs above everything the menu keeps.
LEMMA ItemSound ==
  ASSUME NEW S \in States, Sound(S), NEW t \in Recs \cup {None}, Alive(S, t), NEW T
  PROVE  T = MenuExecuteFunction(S, t) => Sound(T) /\ Busy(T.frames) /\ T.win = S.win
<1>0. SUFFICES ASSUME T = MenuExecuteFunction(S, t)
               PROVE  Sound(T) /\ Busy(T.frames) /\ T.win = S.win
  OBVIOUS
<1>1. PICK b \in BOOLEAN : b = S.flags.menu
  BY StateParts
<1>2. PICK G : G = Enter(S, "item", t, None, {}, b)
  OBVIOUS
<1>3. /\ "item" \in Kinds \ {"put off", "destroy"} /\ "item" \in Kinds
      /\ None \in Functions \cup {None} /\ {} \in SUBSET Recs
      /\ \A q \in {} : S.win[q].status # "freed"
  BY DEF Kinds
<1>4. LayerFits(S.frames, Len(S.frames) + 1, "item")
  BY DEF LayerFits
<1>5. Sound(G)
  BY <1>2, <1>3, <1>4, EnterSound
<1>6. Entered(S, G, "item", t, None, {}, b)
  BY <1>2, <1>3, EnterFields
<1>7. PICK x \in Frame :
        x.kind = "item" /\ G \in States /\ G.frames = Append(S.frames, x) /\ G.win = S.win
  BY <1>6 DEF Entered
<1>8. Busy(G.frames)
  BY <1>7, StateParts, TopLayer
<1>9. T = [G EXCEPT !.flags.menu = TRUE]
  BY <1>0, <1>1, <1>2 DEF MenuExecuteFunction
<1>10. T.win = G.win /\ T.frames = G.frames /\ T.doomed = G.doomed
  BY <1>7, <1>9 DEF States
<1>11. Sound(T)
  BY <1>5, <1>10, SoundSame
<1> QED
  BY <1>7, <1>8, <1>10, <1>11

LEMMA MenuActionSound ==
  ASSUME Good(Now), Sound(Now), RunMenuAction
  PROVE  Sound(Now')
<1>1. frames # <<>> /\ Top.kind = "menu"
  BY DEF RunMenuAction, Runs
<1>2. /\ Now \in States /\ frames[Len(frames)] = Top /\ Now.frames = frames
      /\ Top.win \in Recs \cup {None} /\ Alive(Now, Top.win)
  BY <1>1, TopFields, TopSound, NowFields
<1>3. PICK T : T = MenuExecuteFunction(Now, Top.win)
  OBVIOUS
<1>4. Now.frames # <<>> /\ Now.frames[Len(Now.frames)].kind \in {"menu", "closed menu"}
  BY <1>1, <1>2
<1>5. Good(T)
  BY <1>2, <1>3, <1>4, ItemGood
<1>6. Sound(T) /\ Busy(T.frames) /\ T.win = Now.win
  BY <1>2, <1>3, ItemSound
<1>7. Step(MenuCommands, T, Top.win)
  BY <1>3 DEF RunMenuAction
<1>8. Alive(T, Top.win) /\ Ready(MenuCommands, T, Top.win)
  BY <1>2, <1>6 DEF Alive, Ready
<1> QED
  BY <1>2, <1>5, <1>6, <1>7, <1>8, CommandSets, StepSound

\* The action of an item runs above the closed menu.
LEMMA SelectItemSound ==
  ASSUME Good(Now), Sound(Now), SelectItem
  PROVE  Sound(Now')
<1>1. frames # <<>> /\ Top.kind = "menu"
  BY DEF SelectItem, Runs
<1>2. /\ Now \in States /\ Left(Now, Leave(Now), Top) /\ Top.win \in Recs \cup {None}
      /\ Alive(Now, Top.win) /\ Lives(win, Top) /\ Leave(Now).frames \in Seq(Frame)
  BY <1>1, TopSound
<1>3. PICK C : C = UngrabEm([Now EXCEPT !.frames[Len(frames)].kind = "closed menu"], "menu")
  OBVIOUS
<1>4. PICK y \in Frame :
        /\ y.kind = "closed menu" /\ y.win = Top.win /\ y.todo = Top.todo
        /\ Good(C) /\ C.frames = Append(Leave(Now).frames, y)
        /\ C.win = win /\ C.doomed = doomed
  BY <1>1, <1>3, SelectedGood
<1>5. Lives(win, y) /\ ~Ending(y) /\ LayerFits(Leave(Now).frames, Len(Leave(Now).frames) + 1, y.kind)
  BY <1>2, <1>4 DEF Lives, Ending, LayerFits
<1>6. Sound(C)
  BY <1>2, <1>4, <1>5, NowFields, SoundRetop
<1>7. PICK T : T = MenuExecuteFunction(C, Top.win)
  OBVIOUS
<1>8. Good(T)
  <2>1. PICK n \in Nat : n = Len(Leave(Now).frames)
    BY <1>2
  <2>2. C.frames = Append(Leave(Now).frames, y) /\ y \in Frame
    BY <1>4
  <2>3. Len(C.frames) = n + 1 /\ C.frames[n + 1] = y
    BY <1>2, <2>1, <2>2, Pushed
  <2>4. C.frames # <<>>
    BY <2>3, EmptySeq
  <2> QED
    BY <1>2, <1>4, <1>7, <2>3, <2>4, GoodState, ItemGood
<1>9. Alive(C, Top.win)
  BY <1>2, <1>4, NowFields DEF Alive
<1>10. Sound(T) /\ Busy(T.frames) /\ T.win = C.win
  BY <1>2, <1>4, <1>6, <1>7, <1>9, GoodState, ItemSound
<1>11. Step(MenuCommands, T, Top.win)
  BY <1>3, <1>7 DEF SelectItem
<1>12. Alive(T, Top.win) /\ Ready(MenuCommands, T, Top.win)
  BY <1>9, <1>10 DEF Alive, Ready
<1> QED
  BY <1>2, <1>8, <1>10, <1>11, <1>12, CommandSets, StepSound

-----------------------------------------------------------------------------
\* A frame that gives back its grab ends.
LEMMA UngrabbedSound ==
  ASSUME NEW S \in States, Sound(S), NEW ctx \in {"normal", "menu", "passive"},
         NEW T, T = UngrabEm(S, ctx), Becomes(T)
  PROVE  Sound(Now')
<1>1. T \in States /\ T.win = S.win /\ T.doomed = S.doomed /\ T.frames = S.frames
  BY UngrabFields
<1>2. Sound(T)
  BY <1>1, SoundSame
<1> QED
  BY <1>1, <1>2, BecomesNow

LEMMA ReturnFromClickSound ==
  ASSUME Good(Now), Sound(Now), ReturnFromClick
  PROVE  Sound(Now')
<1>1. frames # <<>> /\ "passive" \in {"normal", "menu", "passive"}
  BY DEF ReturnFromClick, Runs
<1>2. Sound(Leave(Now)) /\ Leave(Now) \in States
  BY <1>1, TopSound DEF Left
<1>3. Becomes(UngrabEm(Leave(Now), "passive"))
  BY DEF ReturnFromClick
<1> QED
  BY <1>1, <1>2, <1>3, UngrabbedSound

LEMMA ReturnFromFunctionSound ==
  ASSUME Good(Now), Sound(Now), ReturnFromFunction
  PROVE  Sound(Now')
<1>1. frames # <<>> /\ Top.kind = "function"
  BY DEF ReturnFromFunction, Runs
<1>2. Now \in States /\ Left(Now, Leave(Now), Top) /\ Sound(Leave(Now))
  BY <1>1, TopSound
<1>3. PICK T : T = UngrabEm(EndFunction(Leave(Now), Top.func), "normal")
  OBVIOUS
<1>4. Good(T) /\ Same(Now, T) /\ T.frames = Leave(Now).frames
  BY <1>1, <1>2, <1>3, LeaveFunction
<1>5. Sound(T)
  BY <1>2, <1>4, SoundSame DEF Same, Left
<1>6. Becomes(T)
  BY <1>3 DEF ReturnFromFunction
<1> QED
  BY <1>4, <1>5, <1>6, GoodState, BecomesNow

LEMMA ReturnFromMenuSound ==
  ASSUME Good(Now), Sound(Now), ReturnFromMenu
  PROVE  Sound(Now')
<1>1. frames # <<>> /\ "menu" \in {"normal", "menu", "passive"}
  BY DEF ReturnFromMenu, Runs
<1>2. Sound(Leave(Now)) /\ Leave(Now) \in States
  BY <1>1, TopSound DEF Left
<1>3. Becomes(UngrabEm(Leave(Now), "menu")) \/ Becomes(Leave(Now))
  BY DEF ReturnFromMenu
<1> QED
  BY <1>1, <1>2, <1>3, UngrabbedSound, BecomesNow

LEMMA ReturnFromAllSound ==
  ASSUME Good(Now), Sound(Now), ReturnFromAll
  PROVE  Sound(Now')
<1>1. frames # <<>>
  BY DEF ReturnFromAll, Runs
<1>2. Sound(Leave(Now)) /\ Leave(Now) \in States
  BY <1>1, TopSound DEF Left
<1>3. Becomes(Leave(Now))
  BY DEF ReturnFromAll
<1> QED
  BY <1>2, <1>3, BecomesNow

LEMMA ReturnFromWaitSound ==
  ASSUME Good(Now), Sound(Now), ReturnFromWait
  PROVE  Sound(Now')
<1>1. frames # <<>> /\ "normal" \in {"normal", "menu", "passive"}
  BY DEF ReturnFromWait, Runs
<1>2. Sound(Leave(Now)) /\ Leave(Now) \in States
  BY <1>1, TopSound DEF Left
<1>3. PICK T : T = GrabEm(Leave(Now), "normal")
  OBVIOUS
<1>4. /\ T \in States /\ T.win = Leave(Now).win /\ T.doomed = Leave(Now).doomed
      /\ T.frames = Leave(Now).frames
  BY <1>1, <1>2, <1>3, GrabFields
<1>5. Sound(T)
  BY <1>2, <1>4, SoundSame
<1>6. Becomes(T) \/ Becomes(Leave(Now))
  BY <1>3 DEF ReturnFromWait
<1> QED
  BY <1>2, <1>4, <1>5, <1>6, BecomesNow

\* The menu goes on, without its window if that is gone.
LEMMA ReturnFromItemSound ==
  ASSUME Good(Now), Sound(Now), ReturnFromItem
  PROVE  Sound(Now')
<1>1. frames # <<>> /\ Top.kind = "item"
  BY DEF ReturnFromItem, Runs
<1>2. /\ Now \in States /\ Left(Now, Leave(Now), Top) /\ Now.frames = frames
      /\ Sound(Leave(Now))
  BY <1>1, TopSound, NowFields
<1>3. PICK B : B = [Leave(Now) EXCEPT !.flags.menu = Top.saved]
  OBVIOUS
<1>4. Good(B) /\ Same(Now, B) /\ B.frames = Leave(Now).frames
  BY <1>1, <1>2, <1>3, LeaveItem
<1>5. Sound(B) /\ B \in States
  BY <1>2, <1>4, SoundSame, GoodState DEF Same, Left
<1>6. PICK x \in Frame : x = B.frames[Len(B.frames)]
  BY <1>1, <1>2, <1>4, ItemAbove
<1>7. /\ B.frames # <<>> /\ Len(frames) - 1 = Len(B.frames)
      /\ Fits(x) /\ x.kind \in {"menu", "closed menu"}
  BY <1>1, <1>2, <1>4, <1>6, ItemAbove
<1>8. PICK y : y = [x EXCEPT !.win = None]
  OBVIOUS
<1>9. y \in Frame /\ y.kind = x.kind /\ y.win = None /\ y.todo = {}
  BY <1>7, <1>8 DEF Frame, Fits
<1>10. PICK T : T = [B EXCEPT !.frames = [B.frames EXCEPT ![Len(B.frames)] = y]]
  OBVIOUS
<1>11. T \in States /\ T.frames = Append(Leave(B).frames, y) /\ Same(B, T)
  <2>1. y \in Frame
    BY <1>9
  <2> QED
    BY <1>5, <1>7, <1>10, <2>1, ReplaceTop
<1>12. Left(B, Leave(B), Last(B.frames))
  BY <1>5, <1>7, LeaveFields
<1>13. /\ Lives(B.win, y) /\ ~Ending(y)
       /\ LayerFits(Leave(B).frames, Len(Leave(B).frames) + 1, y.kind)
  BY <1>7, <1>9 DEF Lives, Ending, LayerFits
<1>14. Sound(T)
  BY <1>5, <1>9, <1>11, <1>12, <1>13, SoundRetop DEF Same
<1>15. [B EXCEPT !.frames[Len(frames) - 1].win = None] = T
  BY <1>5, <1>6, <1>7, <1>8, <1>10 DEF States
<1>16. Becomes(IF Top.win \in Listed(Now) THEN B
               ELSE [B EXCEPT !.frames[Len(frames) - 1].win = None])
  BY <1>3 DEF ReturnFromItem
<1>17. Becomes(B) \/ Becomes(T)
  BY <1>15, <1>16
<1> QED
  BY <1>5, <1>11, <1>14, <1>17, BecomesNow

-----------------------------------------------------------------------------
\* destroy_window queues its window.
LEMMA PutOffSound ==
  ASSUME NEW S \in States, Good(S), Sound(S), NEW L, NEW x, Left(S, L, x), Ending(x), NEW T
  PROVE  T = [L EXCEPT !.doomed = Append(@, x.win)] => Sound(T) /\ T \in States
<1>0. SUFFICES ASSUME T = [L EXCEPT !.doomed = Append(@, x.win)]
               PROVE  Sound(T) /\ T \in States
  OBVIOUS
<1>1. /\ Sound(L) /\ Lives(S.win, x) /\ Sole(L.doomed, L.frames, x) /\ L \in States
      /\ L.win = S.win /\ L.doomed \in Seq(Recs)
  BY SoundPop DEF Left, States
<1>2. PICK r \in Recs : r = x.win /\ L.win[r].status = "scheduled"
  BY <1>1 DEF Lives
<1>3. PICK n \in Nat : n = Len(L.doomed)
  BY <1>1
<1>a. PICK q : q = Append(L.doomed, r)
  OBVIOUS
<1>4. /\ q \in Seq(Recs) /\ q = Append(L.doomed, r) /\ Len(q) = n + 1 /\ q[n + 1] = r
      /\ \A i \in 1..n : q[i] = L.doomed[i]
  BY <1>1, <1>3, <1>a, AppendProperties
<1>5. T = [L EXCEPT !.doomed = q]
  BY <1>0, <1>1, <1>2, <1>4 DEF States
<1>6. T \in States /\ T.doomed = q /\ T.win = L.win /\ T.frames = L.frames
  <2>1. q \in Seq(Recs)
    BY <1>4
  <2> QED
    BY <1>1, <1>5, <2>1 DEF States
<1>7. /\ 1..(n + 1) = 1..n \cup {n + 1} /\ n + 1 \notin 1..n
      /\ Layered(L.frames) /\ AllLive(L.win, L.frames) /\ Told(L.win)
      /\ Due(L.win, L.doomed) /\ Once(L.doomed, L.frames)
  BY <1>1 DEF Sound
<1>8. Due(T.win, q)
  BY <1>2, <1>3, <1>4, <1>6, <1>7 DEF Due
<1>9. /\ \A i \in 1..n : L.doomed[i] # r
      /\ \A i \in 1..Len(L.frames) : Ending(L.frames[i]) => L.frames[i].win # r
  BY <1>1, <1>2, <1>3 DEF Sole
<1>10. ASSUME NEW i \in 1..Len(q), NEW j \in 1..Len(q), q[i] = q[j]
       PROVE  i = j
  <2>1. \A k \in 1..n : q[k] # r
    BY <1>4, <1>9
  <2>2. (i \in 1..n \/ i = n + 1) /\ (j \in 1..n \/ j = n + 1)
    BY <1>4
  <2>3. CASE i \in 1..n /\ j \in 1..n
    <3>1. L.doomed[i] = L.doomed[j]
      BY <1>4, <1>10, <2>3
    <3> QED
      BY <1>3, <1>7, <2>3, <3>1 DEF Once
  <2> QED
    BY <1>4, <1>10, <2>1, <2>2, <2>3
<1>11. \A i \in 1..Len(q), j \in 1..Len(L.frames) : Ending(L.frames[j]) => L.frames[j].win # q[i]
  BY <1>3, <1>4, <1>7, <1>9 DEF Once
<1>13. \A i, j \in 1..Len(q) : q[i] = q[j] => i = j
  BY <1>10
<1>12. Once(T.doomed, T.frames)
  BY <1>6, <1>7, <1>11, <1>13 DEF Once
<1> QED
  BY <1>6, <1>7, <1>8, <1>12 DEF Sound

\* A record that is freed when only Waits are left is kept by none of them.
LEMMA FreeSound ==
  ASSUME NEW S \in States, Kept(S), Sound(S), Idle(S.frames), NEW r \in Recs,
         S.win[r].status = "scheduled", \A i \in 1..Len(S.doomed) : S.doomed[i] # r,
         NEW T, Changed(S, T, r, "freed", 0), T.frames = S.frames, T.doomed = S.doomed
  PROVE  Sound(T)
<1>1. /\ Layered(S.frames) /\ Told(S.win) /\ Due(S.win, S.doomed) /\ Once(S.doomed, S.frames)
      /\ S.frames \in Seq(Frame) /\ FramesFit(S.frames) /\ S.doomed \in Seq(Recs)
  BY DEF Sound, States, Kept
<1>2. AllLive(T.win, T.frames)
  BY <1>1, IdleKeepsNothing
<1>3. Told(T.win)
  BY <1>1, FreedTold
<1>4. Due(T.win, T.doomed)
  <2>1. ASSUME NEW i \in 1..Len(S.doomed)
        PROVE  T.win[S.doomed[i]].status = "scheduled"
    <3>1. S.doomed[i] \in Recs /\ S.doomed[i] # r /\ S.win[S.doomed[i]].status = "scheduled"
      BY <1>1, ElementOfSeq DEF Due
    <3> QED
      BY <3>1 DEF Changed
  <2> QED
    BY <2>1 DEF Due
<1> QED
  BY <1>1, <1>2, <1>3, <1>4 DEF Sound

\* destroy_window returns: its window is queued or freed.
LEMMA ReturnFromBroadcastSound ==
  ASSUME Good(Now), Sound(Now), ReturnFromBroadcast
  PROVE  Sound(Now')
<1>1. frames # <<>> /\ Top.kind \in {"put off", "destroy"}
  BY DEF ReturnFromBroadcast, Runs
<1>2. PICK L : L = Leave(Now)
  OBVIOUS
<1>3. PICK x : x = Top
  OBVIOUS
<1>4. /\ Now \in States /\ Left(Now, L, x) /\ Sound(L) /\ Lives(win, x) /\ L \in States
      /\ LayerFits(L.frames, Len(L.frames) + 1, x.kind) /\ Sole(L.doomed, L.frames, x)
      /\ L.win = win
  BY <1>1, <1>2, <1>3, TopSound, NowFields DEF Left
<1>5. Ending(x) /\ Kept(L) /\ x.win \in Recs
  BY <1>1, <1>3, <1>4, LeaveKept DEF Ending
<1>6. PICK T : T = [L EXCEPT !.doomed = Append(@, x.win)]
  OBVIOUS
<1>7. Sound(T) /\ T \in States
  BY <1>4, <1>5, <1>6, PutOffSound
<1>8. PICK R : R = FreeWindow(L, x.win)
  OBVIOUS
<1>9. ASSUME x.kind = "destroy"
      PROVE  Sound(R) /\ R \in States
  <2>1. Idle(L.frames)
    BY <1>4, <1>9 DEF LayerFits, Idle
  <2>2. /\ win[x.win].status = "scheduled" /\ \A i \in 1..Len(L.doomed) : L.doomed[i] # x.win
    BY <1>4, <1>5 DEF Lives, Sole
  <2>3. /\ R \in States /\ Changed(L, R, x.win, "freed", 0) /\ R.frames = L.frames
        /\ R.doomed = L.doomed
    BY <1>4, <1>5, <1>8, FreeFields DEF Others
  <2> QED
    BY <1>4, <1>5, <2>1, <2>2, <2>3, FreeSound
<1>10. Becomes(T) \/ (x.kind = "destroy" /\ Becomes(R))
  BY <1>2, <1>3, <1>6, <1>8 DEF ReturnFromBroadcast, Runs
<1> QED
  BY <1>7, <1>9, <1>10, BecomesNow

-----------------------------------------------------------------------------
\* Nothing runs any more, and the windows of q, all different, are scheduled.
Settled(S, q) ==
  /\ Kept(S) /\ Sound(S) /\ ~Executing(S) /\ S.frames = <<>> /\ S.doomed = <<>>
  /\ Due(S.win, q) /\ \A i, j \in 1..Len(q) : q[i] = q[j] => i = j

\* Each of them is freed.
LEMMA EachSound ==
  ASSUME NEW S \in States, NEW q \in Seq(Recs), Settled(S, q)
  PROVE  Sound(DestroyEach(S, q)) /\ DestroyEach(S, q) \in States
<1>1. PICK N \in Nat : N = Len(q)
  OBVIOUS
<1>2. PICK g : /\ g[0] = S /\ DestroyEach(S, q) = g[N]
               /\ \A n \in 1..N : g[n] = DestroyWindow(g[n - 1], q[n])
  <2>1. Len(q) \in Nat
    BY <1>1
  <2>2. PICK g : Unfolded(S, q, g)
    BY <2>1, EachUnfolds, Zenon
  <2>3. /\ g[0] = S /\ DestroyEach(S, q) = g[N]
        /\ \A n \in 1..N : g[n] = DestroyWindow(g[n - 1], q[n])
    BY <1>1, <2>2, Zenon DEF Unfolded
  <2> QED
    BY <2>3, Zenon
<1>3. \A i \in 1..N : q[i] \in Recs
  BY <1>1, ElementOfSeq
<1> DEFINE Left_(n) == \A i \in (n + 1)..N : g[n].win[q[i]].status = "scheduled"
           Fine(n) == /\ g[n] \in States /\ Kept(g[n]) /\ Sound(g[n]) /\ g[n].frames = <<>>
                      /\ g[n].doomed = <<>> /\ ~Executing(g[n])
           P == {n \in Nat : n <= N => Fine(n) /\ Left_(n)}
<1>4. Fine(0) /\ Left_(0)
  BY <1>1, <1>2 DEF Settled, Due
<1>d. \A i, j \in 1..N : q[i] = q[j] => i = j
  BY <1>1 DEF Settled
<1>5. ASSUME NEW n \in Nat, n + 1 <= N, Fine(n), Left_(n)
      PROVE  Fine(n + 1) /\ Left_(n + 1)
  <2>1. /\ n + 1 \in 1..N /\ (n + 1) - 1 = n /\ n + 1 \in (n + 1)..N
        /\ \A i \in (n + 1 + 1)..N : i \in (n + 1)..N /\ i # n + 1 /\ i \in 1..N
    BY <1>5
  <2>2. PICK r \in Recs : r = q[n + 1]
    BY <1>3, <2>1
  <2>3. g[n + 1] = DestroyWindow(g[n], r)
    BY <1>2, <2>1, <2>2
  <2>4. PICK A : A = g[n]
    OBVIOUS
  <2>5. PICK B : B = g[n + 1]
    OBVIOUS
  <2>6. /\ A \in States /\ Kept(A) /\ Sound(A) /\ A.frames = <<>>
        /\ A.doomed = <<>> /\ ~Executing(A)
    BY <1>5, <2>4
  <2>7. B = DestroyWindow(A, r)
    BY <2>3, <2>4, <2>5
  <2>8. A.win[r].status = "scheduled"
    BY <1>5, <2>1, <2>2, <2>4
  <2>9. \A i \in (n + 1 + 1)..N : /\ A.win[q[i]].status = "scheduled"
                                  /\ q[i] # r /\ q[i] \in Recs
    BY <1>d, <1>3, <1>5, <2>1, <2>2, <2>4
  <2> HIDE DEF Left_, Fine
  <2>10. B \in States /\ Frees(A, B, r) /\ Others(A, B)
    BY <2>6, <2>7, <2>8, DestroyCases DEF Outcome
  <2>11. Kept(B)
    BY <2>6, <2>7, DestroyKept
  <2>12. Idle(A.frames) /\ \A i \in 1..Len(A.doomed) : A.doomed[i] # r
    <3>1. Len(A.frames) = 0 /\ Len(A.doomed) = 0
      BY <2>6, EmptySeq
    <3> QED
      BY <3>1 DEF Idle, WaitsBelow
  <2>13. /\ Changed(A, B, r, "freed", 0) /\ B.frames = A.frames /\ B.doomed = A.doomed
         /\ B.flags = A.flags
    BY <2>10 DEF Frees, Others
  <2>14. Sound(B)
    BY <2>6, <2>8, <2>12, <2>13, FreeSound
  <2>15. Fine(n + 1)
    BY <2>5, <2>6, <2>10, <2>11, <2>13, <2>14 DEF Fine, Executing
  <2>16. Left_(n + 1)
    BY <2>5, <2>9, <2>13 DEF Left_, Changed
  <2> QED
    BY <2>15, <2>16
<1>6. P = Nat
  <2>1. P \subseteq Nat /\ 0 \in P
    BY <1>4
  <2>2. ASSUME NEW n \in P
        PROVE  n + 1 \in P
    <3>1. n \in Nat /\ n + 1 \in Nat /\ (n + 1 <= N => n <= N)
      BY <1>1
    <3>2. n <= N => Fine(n) /\ Left_(n)
      OBVIOUS
    <3> HIDE DEF Fine, Left_
    <3> QED
      BY <1>5, <3>1, <3>2
  <2> HIDE DEF P
  <2> QED
    BY <2>1, <2>2, InductionOnSet
<1>7. Fine(N)
  <2>1. N \in P
    <3> HIDE DEF P
    <3> QED
      BY <1>6
  <2>2. N <= N
    OBVIOUS
  <2> HIDE DEF Fine
  <2> QED
    BY <2>1, <2>2
<1> QED
  BY <1>2, <1>7

\* destroy_scheduled_windows when the event loop is idle.
LEMMA DestroyScheduledSound ==
  ASSUME Good(Now), Sound(Now), DestroyScheduledWindows
  PROVE  Sound(Now')
<1>1. frames = <<>> /\ ~NothingScheduled
  BY DEF DestroyScheduledWindows
<1>2. Now \in States /\ Kept(Now)
  BY GoodState DEF Good
<1>3. PICK S : S = [Now EXCEPT !.flags.scheduled = FALSE, !.doomed = <<>>]
  OBVIOUS
<1>4. PICK q : q = doomed
  OBVIOUS
<1>5. /\ S \in States /\ S.doomed = <<>> /\ S.win = Now.win /\ S.context = Now.context
      /\ S.uses = Now.uses /\ S.grab = Now.grab /\ S.frames = Now.frames
      /\ FlagsButScheduled(Now, S)
  BY <1>2, <1>3, ResetFields
<1>6. ~Executing(S)
  BY <1>1, <1>5, NowFields DEF NothingScheduled, Executing, FlagsButScheduled
<1>7. Kept(S)
  BY <1>2, <1>5 DEF Kept, FlagsFit, FlagsButScheduled
<1>8. /\ q \in Seq(Recs) /\ Due(S.win, q) /\ \A i, j \in 1..Len(q) : q[i] = q[j] => i = j
  BY <1>2, <1>4, <1>5, NowFields DEF Sound, States, Once
<1>9. Sound(S)
  <2>1. Len(S.doomed) = 0
    BY <1>5, EmptySeq
  <2> QED
    BY <1>5, <2>1 DEF Sound, Due, Once
<1>10. Sound(DestroyEach(S, q)) /\ DestroyEach(S, q) \in States
  BY <1>1, <1>5, <1>6, <1>7, <1>8, <1>9, NowFields, EachSound DEF Settled
<1>11. Becomes(DestroyEach(S, q))
  BY <1>3, <1>4 DEF DestroyScheduledWindows
<1> QED
  BY <1>10, <1>11, BecomesNow

-----------------------------------------------------------------------------
\* There are no frames at the start.
LEMMA InitSound ==
  ASSUME Init
  PROVE  Sound(Now)
<1>1. PICK S : S = Now
  OBVIOUS
<1>2. /\ S.win = [r \in Recs |-> [client |-> None, told |-> 0, status |-> "none"]]
      /\ S.doomed = <<>> /\ S.frames = <<>>
  BY <1>1, NowFields DEF Init
<1>3. Len(S.frames) = 0 /\ Len(S.doomed) = 0
  BY <1>2
<1>4. Layered(S.frames) /\ AllLive(S.win, S.frames)
  BY <1>3 DEF Layered, AllLive
<1>5. Told(S.win)
  BY <1>2 DEF Told, ToldOnce
<1>6. Due(S.win, S.doomed) /\ Once(S.doomed, S.frames)
  BY <1>3 DEF Due, Once
<1> QED
  BY <1>1, <1>4, <1>5, <1>6 DEF Sound

\* Every step keeps Sound, given Good.
LEMMA NextSound ==
  ASSUME TameCommands, Good(Now), Sound(Now), [Next]_vars
  PROVE  Sound(Now')
<1>1. ASSUME NEW c \in Clients, HandleMapRequest(c)
      PROVE  Sound(Now')
  BY <1>1, MapRequestSound
<1>2. ASSUME NEW c \in Clients, HandleDestroyNotify(c)
      PROVE  Sound(Now')
  BY <1>2, DestroyNotifySound
<1>3. CASE HandleButtonPress
  BY <1>3, ButtonPressSound
<1>4. CASE HandleCommand
  BY <1>4, CommandSound
<1>5. CASE RunFunctionItem
  BY <1>5, FunctionItemSound
<1>6. CASE SelectWindow
  BY <1>6, SelectWindowSound
<1>7. CASE RunMenuAction
  BY <1>7, MenuActionSound
<1>8. CASE SelectItem
  BY <1>8, SelectItemSound
<1>9. CASE RunAll
  BY <1>9, RunAllSound
<1>10. CASE RunLockedCommand
  BY <1>10, LockedCommandSound
<1>11. CASE ReturnFromClick
  BY <1>11, ReturnFromClickSound
<1>12. CASE ReturnFromFunction
  BY <1>12, ReturnFromFunctionSound
<1>13. CASE ReturnFromMenu
  BY <1>13, ReturnFromMenuSound
<1>14. CASE ReturnFromItem
  BY <1>14, ReturnFromItemSound
<1>15. CASE ReturnFromAll
  BY <1>15, ReturnFromAllSound
<1>16. CASE ReturnFromWait
  BY <1>16, ReturnFromWaitSound
<1>17. CASE ReturnFromBroadcast
  BY <1>17, ReturnFromBroadcastSound
<1>18. CASE DestroyScheduledWindows
  BY <1>18, DestroyScheduledSound
<1>19. CASE UNCHANGED vars
  <2>1. Now' = Now
    BY <1>19 DEF vars, Now
  <2> QED
    BY <2>1
<1> QED
  BY <1>1, <1>2, <1>3, <1>4, <1>5, <1>6, <1>7, <1>8, <1>9, <1>10, <1>11, <1>12, <1>13,
     <1>14, <1>15, <1>16, <1>17, <1>18, <1>19 DEF Next

\* With tame bindings no frame keeps a record that was freed, each scheduled
\* window is queued or being destroyed in one place, and M_DESTROY_WINDOW was
\* sent once for it.
THEOREM SoundInvariant ==
  ASSUME TameCommands
  PROVE  Spec => [](Good(Now) /\ Sound(Now))
<1>1. Init => Good(Now) /\ Sound(Now)
  BY InitGood, InitSound
<1>2. Good(Now) /\ Sound(Now) /\ [Next]_vars => (Good(Now) /\ Sound(Now))'
  BY NextGood, NextSound
<1> QED
  BY <1>1, <1>2, PTL DEF Spec

\* The function that the innermost frame runs is counted in its uses.
LEMMA TopDefined ==
  ASSUME Good(Now), frames # <<>>
  PROVE  Top.func # None => Top.func \in DOMAIN uses
<1>1. /\ Now \in States /\ Left(Now, Leave(Now), Top) /\ frames[Len(frames)] = Top
      /\ Top.func \in Functions \cup {None}
  BY TopFields
<1>2. PICK fr \in Seq(Frame) : fr = frames
  BY <1>1, NowFields, StateParts
<1>3. PICK n \in Nat : n = Len(fr)
  BY <1>2
<1>4. n \in 1..n /\ fr[n] = Top
  BY <1>1, <1>2, <1>3, EmptySeq
<1>5. UsesFit(uses, fr)
  BY <1>2, NowFields DEF Good, Kept
<1>6. Top.func # None => Top.kind = "function"
  BY <1>1, LeftParts DEF Fits
<1> QED
  BY <1>3, <1>4, <1>5, <1>6 DEF UsesFit

\* No window that was freed is read by what runs next: by a function before
\* its next item, by a click after the bound command, by destroy_window after
\* its broadcast, by All.
THEOREM NoneUsedAfterFree ==
  ASSUME TameCommands
  PROVE  Spec => []NoUseAfterFree
<1>1. ASSUME Good(Now), Sound(Now)
      PROVE  NoUseAfterFree
  <2>1. ASSUME frames # <<>>
        PROVE  /\ Lives(win, Top) /\ (Top.func # None => Top.func \in DOMAIN uses)
    BY <1>1, <2>1, TopSound, TopDefined
  <2> QED
    BY <2>1 DEF NoUseAfterFree, Lives
<1> QED
  BY <1>1, SoundInvariant, PTL

\* Modules are told once of the end of each window, before its record goes.
THEOREM EachAnnouncedOnce ==
  ASSUME TameCommands
  PROVE  Spec => []AnnouncedOnce
<1>1. ASSUME Good(Now), Sound(Now)
      PROVE  AnnouncedOnce
  BY <1>1, NowFields DEF Sound, Told, ToldOnce, AnnouncedOnce
<1> QED
  BY <1>1, SoundInvariant, PTL
=============================================================================
