----------------------------- MODULE StackRing -----------------------------
(* The algorithms of fvwm/stack.c as operators on a record S:               *)
(*   ring, layer    the stack ring from top to bottom, each window's layer  *)
(*   parent         what a window is transient for: a window, the root      *)
(*                  window, or None                                         *)
(*   iconified, byParent, mapped   sets of windows with that flag           *)
(*   x              the order of the frames in the X server, top to bottom  *)
(*   view           the order in which FvwmPager draws the windows          *)
(*   published      _NET_CLIENT_LIST_STACKING, top to bottom                *)
(*   grabbed        windows whose buttons are grabbed so that a click can   *)
(*                  raise them or give them the focus                       *)
(*   marks          what the last pass of marking left: kept is             *)
(*                  Scr.FvwmRoot.scratch.i, in the windows that are flagged *)
(*                  IN_TRANSIENT_SUBTREE, linked those whose scratch.p is   *)
(*                  set. Marks that are not kept are cleaned before use.    *)
(* Every two windows overlap and are on the current desk; an icon window    *)
(* moves with the frame of its window.                                      *)
EXTENDS Integers, FiniteSets, SequencesExt

CONSTANTS
  Windows, None, Root,
  RaiseTr, LowerTr,      \* windows with style RaiseTransient, LowerTransient
  StackParent,           \* windows with style StackTransientParent
  ClickFocus,            \* windows focused by a click (FPFocusClick)
  ClickRaise,            \* windows raised by a click (FPRaiseUnfocused...)
  Listening              \* whether there is a pager; its view is empty if not

ASSUME NamesAssumption == None # Root /\ {None, Root} \cap Windows = {}
ASSUME WindowsAssumption == IsFiniteSet(Windows)

MaxTransientsInBranch == 200000
LowerPenalty == 2000000000

---------------------------------------------------------------------------
(* Sequences of windows without repetition.                                 *)

Place(q, w) == CHOOSE i \in DOMAIN q : q[i] = w

\* What is left of q when the windows in W are taken out, and when no others stay.
Without(q, W) ==
  LET rest[n \in 0..Len(q)] ==
        IF n = 0 THEN <<>>
        ELSE IF q[n] \in W THEN rest[n - 1] ELSE Append(rest[n - 1], q[n])
  IN rest[Len(q)]

Only(q, W) == Without(q, ToSet(q) \ W)

Splice(q, i, p) == SubSeq(q, 1, i) \o p \o SubSeq(q, i + 1, Len(q))

PrevIn(q, w) == IF w = q[1] THEN None ELSE q[Place(q, w) - 1]

NextIn(q, w) == IF w = q[Len(q)] THEN None ELSE q[Place(q, w) + 1]

\* XConfigureWindow with sibling r, stack mode Below, and XRestackWindows for
\* what follows; Above s.
PlaceBelow(q, p, r) ==
  LET o == Without(q, ToSet(p)) IN Splice(o, Place(o, r), p)

PlaceAbove(q, p, s) ==
  LET o == Without(q, ToSet(p)) IN Splice(o, Place(o, s) - 1, p)

XRestackWindows(q, p) == PlaceBelow(q, Tail(p), p[1])

ToTop(q, w) == <<w>> \o Without(q, {w})

ToBottom(q, w) == Append(Without(q, {w}), w)

---------------------------------------------------------------------------
(* Transients.                                                              *)

InLayer(S, l) == {w \in ToSet(S.ring) : S.layer[w] = l}

\* get_transientfor_fvwmwindow
TransientFor(S, w) ==
  IF S.parent[w] \in ToSet(S.ring) THEN S.parent[w] ELSE None

IsTransient(S, w) == S.parent[w] # None

\* __is_restack_transients_needed; mode "all" is MARK_ALL.
Moves(w, mode) ==
  \/ mode = "all"
  \/ w \in RaiseTr /\ mode \in {"raise", "restack"}
  \/ w \in LowerTr /\ mode \in {"lower", "restack"}

NoMarks == [kept |-> FALSE, in |-> {}, linked |-> {}]

\* The flags and links a pass starts with.
MarkBase(S, W) ==
  IF S.marks.kept THEN S.marks
  ELSE [kept |-> FALSE, in |-> {},
        linked |-> {w \in W : TransientFor(S, w) # None}]

\* mark_transient_subtree: the windows flagged when t's subtree has been
\* marked among the windows W, starting from the marks in base.
MarkSubtree(S, base, t, W, mode, ignoreIcons) ==
  LET Joins(M, w) == /\ w \in base.linked
                     /\ S.parent[w] \in M
                     /\ Moves(S.parent[w], mode)
                     /\ ignoreIcons => w \notin S.iconified
      M[n \in 0..Cardinality(Windows)] ==
        IF n = 0 THEN base.in \cup {t}
        ELSE M[n - 1] \cup {w \in W : Joins(M[n - 1], w)}
  IN M[Cardinality(Windows)]

Marked(S, t, mode) ==
  LET W == InLayer(S, S.layer[t])
  IN MarkSubtree(S, MarkBase(S, W), t, W, mode, TRUE)

\* Mutant: icons are left out here too.
MarkedInAllLayers_NoIcons(S, t) ==
  LET W == ToSet(S.ring)
  IN MarkSubtree(S, MarkBase(S, W), t, W, "all", TRUE)

MarkedInAllLayers(S, t) ==
  LET W == ToSet(S.ring)
  IN MarkSubtree(S, MarkBase(S, W), t, W, "all", FALSE)

\* scratch.i of the marked windows: one more than the parent's, plus the
\* bonus that __raise_lower_recursion gave.
Ranks(S, from, bonus) ==
  LET r[n \in 0..Cardinality(Windows)] ==
        IF n = 0 THEN bonus
        ELSE [w \in Windows |-> IF w \in from \/ S.parent[w] \notin Windows THEN bonus[w]
                               ELSE r[n - 1][S.parent[w]] + 1 + bonus[w]]
  IN r[Cardinality(Windows)]

\* __sort_transient_ring: by rank, windows of the same rank in ring order.
SortTransients(S, F, rank) ==
  LET Before(v, w) == \/ rank[v] > rank[w]
                      \/ /\ rank[v] = rank[w]
                         /\ Place(S.ring, v) < Place(S.ring, w)
  IN [i \in 1..Cardinality(F) |->
        CHOOSE w \in F : Cardinality({v \in F : Before(v, w)}) = i - 1]

\* __must_move_transients
MustMoveTransients(S, t, mode) ==
  /\ t \notin S.iconified
  /\ Moves(t, mode)
  /\ \E q \in InLayer(S, S.layer[t]) \ {t} :
       \/ S.parent[q] = t
       \/ mode = "raise" /\ Place(S.ring, q) < Place(S.ring, t)

\* Mutant: nobody looks at what is above and below the subtree.
IsSubtreeStraight_Anywhere(S, t, mode, M, rank) ==
  /\ Cardinality(M) <= Place(S.ring, t)
  /\ \A i \in 1..(Cardinality(M) - 1) : S.ring[Place(S.ring, t) - i] \in M

\* is_transient_subtree_straight. The marks M and ranks it sets are those of
\* a complete pass if it returns True.
IsSubtreeStraight(S, t, mode, M, rank) ==
  LET k == Cardinality(M) - 1
      at == Place(S.ring, t)
      Up(i) == S.ring[at - i]
      Edge(i) == i \notin DOMAIN S.ring \/ S.layer[S.ring[i]] # S.layer[t]
  IN /\ k < at
     /\ \A i \in 1..k : /\ Up(i) \in M
                        /\ \E j \in 0..(i - 1) : S.parent[Up(i)] = Up(j)
                        /\ \A j \in 1..i : rank[Up(j)] <= rank[Up(i)]
     /\ IF mode = "raise" THEN Edge(at - k - 1) ELSE Edge(at + 1)

---------------------------------------------------------------------------
(* Telling modules and the X server.                                        *)

Send(S, v) == IF Listening THEN [S EXCEPT !.view = v] ELSE S

\* Mutant: the packet leaves out the window the others are put below.
BroadcastRestack_NotFirst(S, s1, s2) ==
  LET from == IF s1 = None THEN S.ring[1] ELSE s1
      to == IF s2 = None THEN Last(S.ring) ELSE s2
      packet == SubSeq(S.ring, Place(S.ring, from) + 1, Place(S.ring, to))
  IN Send(S, IF packet = <<>> THEN S.view ELSE XRestackWindows(S.view, packet))

\* BroadcastRestack: M_RAISE_WINDOW if the first window is on top, and
\* M_RESTACK for the windows from s1 to s2; as FvwmPager follows them
\* (list_raise, list_restack).
BroadcastRestack(S, s1, s2) ==
  LET from == IF s1 = None THEN S.ring[1] ELSE s1
      to == IF s2 = None THEN Last(S.ring) ELSE s2
      raised == IF s1 = None THEN ToTop(S.view, from) ELSE S.view
      packet == SubSeq(S.ring, Place(S.ring, from), Place(S.ring, to))
  IN Send(S, IF from = to \/ (s1 = None /\ NextIn(S.ring, from) = to) THEN raised
             ELSE XRestackWindows(raised, packet))

BroadcastRestackAllWindows(S) ==
  BroadcastRestack(S, S.ring[1], Last(S.ring))

\* Mutants: only the first window is placed; the list is not set.
RestackWindowList_FirstOnly(S, r, p, s, all, lower) ==
  LET placed == IF r # None THEN PlaceBelow(S.x, <<p[1]>>, r)
                ELSE IF s # None THEN PlaceAbove(S.x, <<p[1]>>, s)
                ELSE IF lower THEN ToTop(S.x, p[1]) ELSE ToBottom(S.x, p[1])
  IN BroadcastRestackAllWindows([S EXCEPT !.x = placed, !.published = S.ring])

RestackWindowList_NotPublished(S, r, p, s, all, lower) ==
  BroadcastRestackAllWindows([S EXCEPT !.x = S.ring])

\* __restack_window_list for the windows p between r and s.
RestackWindowList(S, r, p, s, all, lower) ==
  LET placed == IF r # None THEN PlaceBelow(S.x, p, r)
                ELSE IF s # None
                THEN XRestackWindows(PlaceAbove(S.x, <<p[1]>>, s), p)
                ELSE XRestackWindows(IF lower THEN ToTop(S.x, p[1])
                                     ELSE ToBottom(S.x, p[1]), p)
      R == [S EXCEPT !.x = placed, !.published = S.ring]
  IN IF all THEN BroadcastRestackAllWindows(R) ELSE BroadcastRestack(R, r, s)

ResyncXStackingOrder(S) ==
  BroadcastRestackAllWindows([S EXCEPT !.x = XRestackWindows(@, S.ring)])

---------------------------------------------------------------------------
(* Grabs of mouse buttons.                                                  *)

IsVisible(S, w) == ~(w \in S.iconified /\ w \in S.byParent)

\* is_on_top_of_layer_ignore_rom
IsOnTopOfLayer(S, w) ==
  \A t \in InLayer(S, S.layer[w]) :
    Place(S.ring, t) < Place(S.ring, w) /\ IsVisible(S, t) /\ IsVisible(S, w)
    => w \in RaiseTr /\ t \in Marked(S, w, "raise")

\* The pass of marking in is_on_top_of_layer_ignore_rom.
UseMarks(S, w) == IF w \in RaiseTr THEN [S EXCEPT !.marks = NoMarks] ELSE S

\* focus_grab_buttons, for a window that has not got the focus.
FocusGrabButtons(S, w) ==
  LET want == IF w \in ClickFocus THEN TRUE
              ELSE ~IsOnTopOfLayer(S, w) /\ w \in ClickRaise
      R == IF w \in ClickFocus THEN S ELSE UseMarks(S, w)
  IN IF w \notin S.mapped THEN S
     ELSE [R EXCEPT !.grabbed = IF want THEN @ \cup {w} ELSE @ \ {w}]

FocusGrabButtonsOnLayer(S, l) ==
  LET q == Only(S.ring, InLayer(S, l))
      done[n \in 0..Len(q)] ==
        IF n = 0 THEN S ELSE FocusGrabButtons(done[n - 1], q[n])
  IN done[Len(q)]

---------------------------------------------------------------------------
(* Raise, lower, restack.                                                   *)

\* The number of windows of q above the first one in layer l or below.
FirstAtMost(S, q, l) ==
  LET i == SelectInSeq(q, LAMBDA w : S.layer[w] <= l)
  IN IF i = 0 THEN Len(q) ELSE i - 1

\* Mutant: a lowered window goes below every layer.
InsertAfter_BelowAll(S, q, t, mode) ==
  IF mode = "lower" THEN Len(q) ELSE FirstAtMost(S, q, S.layer[t])

\* __get_window_to_insert_after, as the number of windows of q above it.
InsertAfter(S, q, t, mode) ==
  FirstAtMost(S, q, IF mode = "lower" THEN S.layer[t] - 1 ELSE S.layer[t])

\* Mutant: the window is not taken out of the ring first.
Reinsert_StillLinked(S, t, mode, F, rank, isNew) ==
  [S EXCEPT !.ring = Splice(Without(@, F), 0, Append(SortTransients(S, F, rank), t))]

\* The rest of __restack_window: family F with its ranks goes above t, at
\* the place of t's layer that the mode asks for.
Reinsert(S, t, mode, F, rank, isNew) ==
  LET p == Append(SortTransients(S, F, rank), t)
      below == Without(S.ring, F)
      q == Without(S.ring, F \cup {t})
      i == IF mode = "restack" THEN Place(below, t) - 1
           ELSE InsertAfter(S, q, t, mode)
      r == IF i = 0 THEN None ELSE q[i]
      s == IF i = Len(q) THEN None ELSE q[i + 1]
      R == [S EXCEPT !.ring = Splice(q, i, p)]
  IN IF isNew /\ IsTransient(S, t) /\ t \in StackParent /\ t \notin S.iconified
     THEN R
     ELSE RestackWindowList(R, r, p, s, F # {}, mode = "lower")

\* __restack_window, with __is_restack_needed.
RestackWindow1(S, t, mode, bonus, isNew) ==
  LET W == InLayer(S, S.layer[t])
      move == ~isNew /\ MustMoveTransients(S, t, mode)
      C == [S EXCEPT !.marks = NoMarks]
      base == MarkBase(IF mode = "restack" THEN S ELSE C, W)
      M == MarkSubtree(S, base, t, W, mode, TRUE)
      rank == Ranks(S, base.in \cup {t}, bonus)
      under == Without(SubSeq(S.ring, Place(S.ring, t) + 1, Len(S.ring)), M)
      placed == /\ ~isNew
                /\ \/ mode = "raise" /\ PrevIn(S.ring, t) \notin W
                   \/ mode = "lower" /\ NextIn(S.ring, t) \notin W
  IN IF move /\ mode # "restack" /\ IsSubtreeStraight(S, t, mode, M, rank)
     THEN BroadcastRestack(
            [S EXCEPT !.marks = [kept |-> TRUE, in |-> M, linked |-> base.linked]],
            PrevIn(S.ring, t), IF under = <<>> THEN None ELSE under[1])
     ELSE IF move THEN Reinsert(C, t, mode, M \ {t}, rank, isNew)
     ELSE IF placed THEN S ELSE Reinsert(S, t, mode, {}, rank, isNew)

\* __raise_lower_recursion goes up from t to the parents it acts on first.
Climbs(S, w) ==
  LET p == TransientFor(S, w)
  IN /\ w \notin S.iconified /\ w \in StackParent
     /\ p # None /\ p \notin S.iconified /\ S.layer[p] = S.layer[w]

Branch(S, t) ==
  LET up[n \in 0..Cardinality(Windows)] ==
        IF n = 0 THEN <<t>>
        ELSE IF Climbs(S, up[n - 1][1]) THEN <<S.parent[up[n - 1][1]]>> \o up[n - 1]
        ELSE up[n - 1]
  IN up[Cardinality(Windows)]

Bonus(S, branch, mode) ==
  [w \in Windows |->
     IF w \notin ToSet(Tail(branch)) THEN 0
     ELSE IF mode = "lower" /\ (S.parent[w] \notin StackParent
                                \/ ~IsTransient(S, S.parent[w]))
     THEN -LowerPenalty ELSE MaxTransientsInBranch]

\* raise_or_lower_window with recursion allowed; a parent that moves its
\* transients has moved the next window of the branch already.
RaiseOrLowerWindow(S, t, mode) ==
  LET branch == Branch(S, t)
      Step(R, w) == IF w # branch[1] /\ Moves(S.parent[w], mode) THEN R
                    ELSE RestackWindow1(R, w, mode, Bonus(S, branch, mode), FALSE)
      done[n \in 0..Len(branch)] ==
        IF n = 0 THEN S ELSE Step(done[n - 1], branch[n])
  IN done[Len(branch)]

RaiseWindow(S, t) ==
  FocusGrabButtonsOnLayer(
    RaiseOrLowerWindow(Send(S, ToTop(S.view, t)), t, "raise"), S.layer[t])

\* Mutant: the grabs in the layer are left as they were.
LowerWindow_NoGrabs(S, t) ==
  RaiseOrLowerWindow(Send(S, ToBottom(S.view, t)), t, "lower")

LowerWindow(S, t) ==
  FocusGrabButtonsOnLayer(
    RaiseOrLowerWindow(Send(S, ToBottom(S.view, t)), t, "lower"), S.layer[t])

RestackWindow(S, t) ==
  FocusGrabButtonsOnLayer(RaiseOrLowerWindow(S, t, "restack"), S.layer[t])

\* position_new_window_in_stack_ring, for a window at the top of the ring.
PositionNewWindow(S, t, lower) ==
  LET mode == IF lower THEN "lower" ELSE "raise"
      R == RestackWindow1(S, t, mode, [w \in Windows |-> 0], TRUE)
  IN IF IsTransient(S, t) /\ t \in StackParent
     THEN ResyncXStackingOrder(RaiseOrLowerWindow(R, t, mode))
     ELSE R

\* new_layer
TopParent(S, t) ==
  LET up[n \in 0..Cardinality(Windows)] ==
        IF n = 0 THEN t
        ELSE IF TransientFor(S, up[n - 1]) = None \/ up[n - 1] \notin StackParent
        THEN up[n - 1] ELSE S.parent[up[n - 1]]
  IN up[Cardinality(Windows)]

NewLayer(S, w, l) ==
  LET t == TopParent(S, w)
      old == S.layer[t]
      M == Marked(S, t, IF l < old THEN "lower" ELSE "raise")
      p == Only(S.ring, M)
      q == Without(S.ring, M)
      i == FirstAtMost(S, q, IF l < old THEN l - 1 ELSE l)
      R == [S EXCEPT !.ring = Splice(q, i, p), !.marks = NoMarks,
                     !.layer = [v \in Windows |-> IF v \in M THEN l ELSE @[v]]]
      T == RestackWindowList(R, IF i = 0 THEN None ELSE q[i], p,
                             IF i = Len(q) THEN None ELSE q[i + 1],
                             Len(p) > 1, l < old)
  IN IF l = old THEN S
     ELSE FocusGrabButtonsOnLayer(FocusGrabButtonsOnLayer(T, l), old)
=============================================================================
