------------------------------- MODULE Stack -------------------------------
(* The windows of one desk, their stacking order and what depends on it:    *)
(* the commands of fvwm/stack.c, iconification (fvwm/icons.c), requests of   *)
(* clients (fvwm/events.c) and new and withdrawn windows.                    *)
EXTENDS StackRing

CONSTANTS
  Layers,        \* a set of natural numbers
  HintsOf,       \* for each window, what it may say it is transient for
  Ops,           \* the operations that users and clients use
  MaxMapping,    \* bound: new windows that wait for their MapNotify
  StaleMarks     \* whether one that marks transients may find marks kept

ASSUME LayersAssumption == Layers \subseteq Nat /\ Layers # {}

VARIABLES
  ring, layer, parent,             \* Scr.FvwmRoot.stack_next, fields of windows
  iconified, byParent, mapped,     \* flags of windows
  x, view, published, grabbed,     \* the server's, the pager's, the root's
  marks,                           \* see StackRing
  mapping                          \* windows whose MapNotify is on its way

vars == <<ring, layer, parent, iconified, byParent, mapped, x, view,
          published, grabbed, marks, mapping>>

Now == [ring |-> ring, layer |-> layer, parent |-> parent,
        iconified |-> iconified, byParent |-> byParent, mapped |-> mapped,
        x |-> x, view |-> view, published |-> published, grabbed |-> grabbed,
        marks |-> marks]

Becomes(S) ==
  /\ ring' = S.ring /\ layer' = S.layer /\ parent' = S.parent
  /\ iconified' = S.iconified /\ byParent' = S.byParent /\ mapped' = S.mapped
  /\ x' = S.x /\ view' = S.view /\ published' = S.published
  /\ grabbed' = S.grabbed /\ marks' = S.marks

Managed == ToSet(ring)

\* Marks that were kept for a pass that never came; see IsSubtreeStraight.
Unmarked == StaleMarks \/ ~marks.kept

TypeOK ==
  /\ ring \in Seq(Windows) /\ IsInjective(ring)
  /\ layer \in [Windows -> Layers]
  /\ parent \in [Windows -> Windows \cup {None, Root}]
  /\ iconified \subseteq Managed /\ byParent \subseteq Managed
  /\ mapped \subseteq Managed \ iconified
  /\ mapping \subseteq Managed /\ grabbed \subseteq Managed
  /\ ToSet(x) = Managed /\ ToSet(published) = Managed
  /\ Listening => ToSet(view) = Managed
  /\ marks.kept \in BOOLEAN /\ marks.in \cup marks.linked \subseteq Windows

LowestLayer == CHOOSE l \in Layers : \A m \in Layers : l <= m

Init ==
  /\ ring = <<>> /\ x = <<>> /\ view = <<>> /\ published = <<>>
  /\ layer = [w \in Windows |-> LowestLayer]
  /\ parent = [w \in Windows |-> None]
  /\ iconified = {} /\ byParent = {} /\ mapped = {} /\ grabbed = {}
  /\ marks = NoMarks /\ mapping = {}

---------------------------------------------------------------------------
(* New and withdrawn windows.                                               *)

\* What w may say it is transient for; a hint that names a window that is not
\* managed counts as the root window, and clients give none here.
Hints(w) == HintsOf[w] \cap (Managed \cup {None, Root})

\* validate_transientfor: a hint that closes a loop counts as the root window.
ValidTransientFor(w, p) ==
  LET up[n \in 0..Cardinality(Windows)] ==
        IF n = 0 THEN p
        ELSE IF up[n - 1] \in Managed THEN parent[up[n - 1]] ELSE up[n - 1]
  IN IF \E n \in DOMAIN up : up[n] = w THEN Root ELSE p

\* HandleMapRequestKeepRaised and AddWindow: the frame is made on top, then
\* put in its layer, and mapped.
NewWindow(w, p, l, lower) ==
  /\ "new" \in Ops /\ w \notin Managed /\ Cardinality(mapping) < MaxMapping
  /\ LET S == [Now EXCEPT !.ring = <<w>> \o @, !.x = <<w>> \o @,
                 !.layer[w] = l, !.parent[w] = ValidTransientFor(w, p)]
         R == PositionNewWindow(Send(S, <<w>> \o view), w, lower)
     IN Becomes([R EXCEPT !.published = R.ring])
  /\ mapping' = mapping \cup {w}

HandleMapNotify(w) ==
  /\ w \in mapping
  /\ mapping' = mapping \ {w}
  /\ Becomes(FocusGrabButtonsOnLayer(
       [Now EXCEPT !.mapped = @ \cup {w}, !.iconified = @ \ {w}], layer[w]))

\* destroy_window
Withdraw(w) ==
  /\ "withdraw" \in Ops /\ w \in Managed
  /\ LET rest == Without(ring, {w})
         S == [Now EXCEPT !.ring = rest, !.x = Without(@, {w}),
                 !.view = Without(@, {w}), !.published = rest,
                 !.layer[w] = LowestLayer, !.parent[w] = None,
                 !.iconified = @ \ {w}, !.byParent = @ \ {w},
                 !.mapped = @ \ {w}, !.grabbed = @ \ {w},
                 !.marks = [kept |-> @.kept, in |-> @.in \ {w},
                            linked |-> @.linked \ {w}]]
     IN Becomes(FocusGrabButtonsOnLayer(S, layer[w]))
  /\ mapping' = mapping \ {w}

\* A PropertyNotify for WM_TRANSIENT_FOR.
HandleTransientFor(w, p) ==
  /\ "hint" \in Ops /\ w \in Managed /\ p # parent[w] /\ Unmarked
  /\ LET S == [Now EXCEPT !.parent[w] = ValidTransientFor(w, p)]
     IN Becomes(IF p = None THEN S ELSE RaiseWindow(S, w))
  /\ UNCHANGED mapping

---------------------------------------------------------------------------
(* Commands and requests that restack.                                      *)

CmdRaise(w) ==
  /\ "raise" \in Ops /\ w \in Managed
  /\ Becomes(RaiseWindow(Now, w)) /\ UNCHANGED mapping

CmdLower(w) ==
  /\ "lower" \in Ops /\ w \in Managed
  /\ Becomes(LowerWindow(Now, w)) /\ UNCHANGED mapping

CmdRestackTransients(w) ==
  /\ "restack" \in Ops /\ w \in Managed /\ Unmarked
  /\ Becomes(RestackWindow(Now, w)) /\ UNCHANGED mapping

CmdRaiseLower(w) ==
  /\ "raiselower" \in Ops /\ w \in Managed /\ Unmarked
  /\ Becomes(IF IsOnTopOfLayer(Now, w) THEN LowerWindow(UseMarks(Now, w), w)
             ELSE RaiseWindow(UseMarks(Now, w), w))
  /\ UNCHANGED mapping

CmdLayer(w, l) ==
  /\ "layer" \in Ops /\ w \in Managed /\ Unmarked
  /\ Becomes(NewLayer(Now, w, l)) /\ UNCHANGED mapping

\* _handle_cr_restack with a sibling of the same layer; with any other
\* sibling, or none, it raises or lowers.
HandleConfigureRequest(w, s, above) ==
  /\ "configure" \in Ops /\ {w, s} \subseteq Managed /\ w # s
  /\ layer[w] = layer[s]
  /\ LET S == [Now EXCEPT
                 !.ring = IF above THEN PlaceAbove(@, <<w>>, s)
                          ELSE PlaceBelow(@, <<w>>, s),
                 !.x = IF above THEN PlaceAbove(@, <<w>>, s)
                       ELSE PlaceBelow(@, <<w>>, s)]
     IN Becomes(BroadcastRestack(S, PrevIn(S.ring, w), NextIn(S.ring, w)))
  /\ UNCHANGED mapping

---------------------------------------------------------------------------
(* Icons. Events about mapping are handled before the next request.         *)

IconifyWindow(S, w) ==
  LET M == MarkedInAllLayers(S, w)
      R == [S EXCEPT !.iconified = @ \cup M, !.mapped = @ \ M,
                     !.byParent = @ \cup (M \ {w}), !.marks = NoMarks]
  IN IF w \in S.byParent THEN R
     ELSE FocusGrabButtonsOnLayer(LowerWindow(R, w), S.layer[w])

Iconify(w) ==
  /\ "iconify" \in Ops /\ w \in Managed \ iconified /\ mapping = {} /\ Unmarked
  /\ Becomes(IconifyWindow(Now, w)) /\ UNCHANGED mapping

\* The window whose icon stands for w.
IconOwner(S, w) ==
  LET up[n \in 0..Cardinality(Windows)] ==
        IF n = 0 THEN w
        ELSE IF up[n - 1] \in S.byParent /\ TransientFor(S, up[n - 1]) # None
        THEN S.parent[up[n - 1]] ELSE up[n - 1]
  IN up[Cardinality(Windows)]

DeIconifyWindow(S, w) ==
  LET o == IconOwner(S, w)
      M == MarkedInAllLayers(S, o)
      R == [S EXCEPT !.iconified = @ \ M, !.mapped = @ \cup M,
                     !.byParent = @ \ (M \cup {o}), !.marks = NoMarks]
  IN FocusGrabButtonsOnLayer(RaiseWindow(R, o), S.layer[o])

DeIconify(w) ==
  /\ "iconify" \in Ops /\ w \in iconified /\ mapping = {} /\ Unmarked
  /\ Becomes(DeIconifyWindow(Now, w))
  /\ mapping' = mapped' \ mapped

Next ==
  \E w \in Windows :
    \/ \E p \in Hints(w), l \in Layers, lower \in BOOLEAN : NewWindow(w, p, l, lower)
    \/ HandleMapNotify(w)
    \/ Withdraw(w)
    \/ \E p \in Hints(w) : HandleTransientFor(w, p)
    \/ CmdRaise(w)
    \/ CmdLower(w)
    \/ CmdRestackTransients(w)
    \/ CmdRaiseLower(w)
    \/ \E l \in Layers : CmdLayer(w, l)
    \/ \E s \in Windows, above \in BOOLEAN : HandleConfigureRequest(w, s, above)
    \/ Iconify(w)
    \/ DeIconify(w)

Spec == Init /\ [][Next]_vars

---------------------------------------------------------------------------
(* Properties.                                                              *)

\* No window is above a window of a higher layer (the first assertion of
\* verify_stack_ring_consistency).
LayerOrder ==
  \A i, j \in DOMAIN ring : i < j => layer[ring[i]] >= layer[ring[j]]

\* The X server has the frames in the order of the stack ring (the last
\* assertion of verify_stack_ring_consistency).
ServerAgrees == x = ring

\* What verify_stack_ring_consistency asserts of both orders.
RingConsistent == LayerOrder /\ ServerAgrees

\* A pager that follows M_RAISE_WINDOW, M_LOWER_WINDOW and M_RESTACK draws
\* the windows of a layer in the right order.
PagerAgrees ==
  \A i, j \in DOMAIN ring :
    i < j /\ layer[ring[i]] = layer[ring[j]]
    => Place(view, ring[i]) < Place(view, ring[j])

\* While no dialog has a dialog itself, what modules are told keeps a pager
\* that draws the right order in the right order.
PagerFollows ==
  [][PagerAgrees /\ (\A v \in Managed : parent[v] \in Managed => parent[parent[v]] \notin Managed)
     => PagerAgrees']_vars

\* The windows that hang on w by their transient hints.
Family(w) ==
  LET f[n \in 0..Cardinality(Windows)] ==
        IF n = 0 THEN {w}
        ELSE f[n - 1] \cup {v \in Managed : parent[v] \in f[n - 1]}
  IN f[Cardinality(Windows)]

AboveInLayer(S, w) ==
  {v \in InLayer(S, S.layer[w]) : Place(S.ring, v) < Place(S.ring, w)}

\* What other commands on w lead to.
Restacked(w) ==
  IF ~Unmarked THEN {}
  ELSE {RaiseOrLowerWindow(Now, w, "restack")}
       \cup {NewLayer(Now, w, l) : l \in Layers \ {layer[TopParent(Now, w)]}}

Toggled(w) ==
  IF mapping # {} \/ ~Unmarked \/ IconOwner(Now, w) # w THEN {}
  ELSE IF w \in iconified THEN {DeIconifyWindow(Now, w)}
  ELSE {IconifyWindow(Now, w)}

\* After Raise only transients of the window are above it in its layer, after
\* Lower only windows connected with it by transient hints are below it, and no
\* command moves two windows against each other that transient hints do not
\* connect with its window.
CommandsRestack ==
  \A w \in Managed :
    LET Up == RaiseOrLowerWindow(Now, w, "raise")
        Down == RaiseOrLowerWindow(Now, w, "lower")
        theirs == Family(TopParent(Now, w))
    IN /\ AboveInLayer(Up, w) \subseteq Family(w)
       /\ InLayer(Down, Down.layer[w]) \ AboveInLayer(Down, w) \subseteq theirs
       /\ Cardinality(Managed \ theirs) > 1 =>
            \A S \in {Up, Down} \cup Restacked(w) \cup Toggled(w) :
              Without(S.ring, theirs) = Without(ring, theirs)

ClientRestacks ==
  \E w, s \in Windows, above \in BOOLEAN : HandleConfigureRequest(w, s, above)

\* _NET_CLIENT_LIST_STACKING is made to be the stack ring by every step that
\* moves a window, but for a client that puts its window next to another one.
ListPublished ==
  [][\/ published' = ring'
     \/ ring' = ring /\ published' = published
     \/ ClientRestacks]_vars

\* Windows that a click should raise, that have a window above them in their
\* layer, and whose buttons are not grabbed. (A dialog with RaiseTransient may
\* lack the grab: kept marks make it believe that the other windows of its
\* family are its own.)
ClicksLost ==
  {v \in (ClickRaise \ RaiseTr) \cap (mapped \ (mapping \cup grabbed)) :
     AboveInLayer(Now, v) \cap (mapped \ mapping) # {}}

\* No command takes a window the click that raises it, and the MapNotify of a
\* new window, which may have covered others, gives it back.
ClicksRaise ==
  [][mapping' = {}
     => \/ ClicksLost' \subseteq {v \in ClicksLost :
                                  \A w \in mapping : layer[w] # layer[v]}
        \/ ClientRestacks]_vars

\* A window that was iconified with its parent has no icon of its own: its
\* parent is an icon too, or the window could not be found any more.
IconsReachable == \A w \in byParent : w \in iconified /\ parent[w] \in iconified

\* Only a parent that is withdrawn, or that a client no longer names as parent,
\* leaves such windows behind.
IconsStayReachable ==
  [][IconsReachable => \/ IconsReachable'
                       \/ \E w \in Windows :
                            Withdraw(w) \/ \E p \in Hints(w) : HandleTransientFor(w, p)]_vars
=============================================================================
