---------------------------- MODULE WindowFocus ----------------------------
(* The keyboard focus: what fvwm asks of the X server and what it believes   *)
(* meanwhile, the FocusIn and FocusOut events that tell it what became of    *)
(* that, clients that take the focus themselves, and windows that come and   *)
(* go with the focus (fvwm/focus.c, fvwm/events.c, fvwm/add_window.c).       *)
(*                                                                           *)
(* Requests to the server and its events pass each other.  A client's own    *)
(* requests are not ordered with either.                                     *)
EXTENDS Integers, Sequences, FiniteSets, SequencesExt

CONSTANTS
  Windows,       \* client windows that fvwm manages
  Unmanaged,     \* override-redirect windows
  NoFocusWin,    \* fvwm's own window, focused when no other is
  Root,          \* focused when an override-redirect window leaves its focus
  Nowhere,       \* the decorations of a window that has been unmapped
  None,
  StyleOf,       \* styles and hints of each window, which take part in focusing
  ParentOf,      \* the window a transient belongs to
  SwiftPointer,  \* the pointer moves on before the focus has settled
  MaxInFlight    \* bound: requests and events under way when users and clients act

Styles == {"enter", "leave", "click", "function", "program", "lenient", "by open",
           "grab", "grab transient", "override grab",
           "release", "release transient", "override release",
           "no input", "takes focus"}

ASSUME FocusAssumption ==
  /\ StyleOf \in [Windows -> SUBSET Styles]
  /\ ParentOf \in [Windows -> Windows \cup {None}]
  /\ \A r \in Windows : ParentOf[r] # r /\ StyleOf[r] \cap {"enter", "click", "function"} # {}
  /\ Windows \cap Unmanaged = {} /\ SwiftPointer \in BOOLEAN
  /\ {NoFocusWin, Root, Nowhere, None} \cap (Windows \cup Unmanaged) = {}

ASSUME PlacesAssumption == IsInjective(<<NoFocusWin, Root, Nowhere, None>>)

VARIABLES
  fvwm,    \* window list, focus pointers, and what its connection holds
  server   \* the X server: focused, viewable and observed windows

vars == <<fvwm, server>>

Focusable == Windows \cup Unmanaged \cup {NoFocusWin}
Managed(F) == ToSet(F.list)

\* requests and events are the output and the input of the connection.
TypeOK ==
  /\ fvwm.list \in Seq(Windows) /\ IsInjective(fvwm.list)
  /\ {fvwm.focus, fvwm.hilite, fvwm.requested, fvwm.pending, fvwm.stolen}
       \subseteq Managed(fvwm) \cup {None}
  /\ fvwm.unknown \in Windows \cup Unmanaged \cup {None}
  /\ fvwm.requests \in
       Seq([op: {"focus", "map", "unmap", "observe"}, win: Focusable \cup {None}])
  /\ fvwm.events \in
       Seq([type: {"FocusIn", "FocusOut", "MapRequest", "Map", "Unmap"}, win: Focusable])
  /\ server.focus \in Focusable \cup {Root, Nowhere, None}
  /\ server.viewable \in SUBSET (Windows \cup Unmanaged)
  /\ server.observed \in SUBSET (server.viewable \cap Unmanaged)

Init ==
  /\ fvwm = [list |-> <<>>, focus |-> None, hilite |-> None, requested |-> None,
             pending |-> None, stolen |-> None, unknown |-> None,
             requests |-> <<>>, events |-> <<>>]
  /\ server = [focus |-> NoFocusWin, viewable |-> {}, observed |-> {}]

---------------------------------------------------------------------------
(* The X server.                                                            *)

Event(type, w) == [type |-> type, win |-> w]
Request(op, w) == [op |-> op, win |-> w]

\* fvwm hears of the focus of its own window, of windows it manages, and of
\* others once it has asked.
Observed(S, F, w) == w = NoFocusWin \/ w \in S.observed \/ w \in Managed(F)

FocusOuts(S, w) ==
  IF w # S.focus /\ S.focus \in S.observed THEN <<Event("FocusOut", S.focus)>> ELSE <<>>

FocusIns(F, S, w) ==
  IF w # S.focus /\ Observed(S, F, w) THEN <<Event("FocusIn", w)>> ELSE <<>>

FocusEvents(F, S, w) == FocusOuts(S, w) \o FocusIns(F, S, w)

\* The focus can only be given to a window that is viewable.
MayHaveFocus(S, w) == w \in {NoFocusWin, None} \cup S.viewable

GiveFocus(w) ==
  /\ server' = [server EXCEPT !.focus = w]
  /\ fvwm' = [fvwm EXCEPT !.events = @ \o FocusEvents(fvwm, server, w)]

\* A window that is no longer viewable leaves its focus to its parent.  (The
\* other windows choose for themselves what becomes of it.)
Hide(S, w) ==
  [S EXCEPT !.viewable = @ \ {w}, !.observed = @ \ {w},
            !.focus = CASE @ # w -> @
                           [] @ = w /\ w \in Windows -> Nowhere
                           [] OTHER -> Root]

\* The server executes the oldest request.
Serve ==
  /\ fvwm.requests # <<>>
  /\ LET q == Head(fvwm.requests)
         w == q.win
         F == [fvwm EXCEPT !.requests = Tail(@)]
         Report(events) == fvwm' = [F EXCEPT !.events = @ \o events]
     IN CASE q.op = "focus" /\ ~MayHaveFocus(server, w) ->
               Report(<<>>) /\ UNCHANGED server
          [] q.op = "focus" /\ MayHaveFocus(server, w) ->
               /\ Report(FocusEvents(F, server, w))
               /\ server' = [server EXCEPT !.focus = w]
          [] q.op = "map" ->
               /\ Report(<<Event("Map", w)>>)
               /\ server' = [server EXCEPT !.viewable = @ \cup {w}]
          [] q.op = "unmap" ->
               Report(<<>>) /\ server' = Hide(server, w)
          [] q.op = "observe" ->
               /\ Report(<<>>)
               /\ server' = [server EXCEPT !.observed = @ \cup ({w} \cap server.viewable)]

---------------------------------------------------------------------------
(* Policies.                                                                *)

Has(r, style) == style \in StyleOf[r]
AcceptsInput(r) == ~Has(r, "no input")
GloballyActive(r) == Has(r, "no input") /\ Has(r, "takes focus")
Passive(r) == ~Has(r, "no input") /\ ~Has(r, "takes focus")
Parent(F, r) == IF ParentOf[r] \in Managed(F) THEN ParentOf[r] ELSE None

\* focus_query_open_grab_focus.
GrabsFocus(F, r) ==
  /\ F.focus # None => ~Has(F.focus, "override grab")
  /\ IF ParentOf[r] # None
     THEN Has(r, "grab transient") /\ F.focus = ParentOf[r]
     ELSE Has(r, "grab")

---------------------------------------------------------------------------
(* Setting the focus.                                                       *)

FocusSet(F, w, r) ==
  [F EXCEPT !.requests = Append(@, Request("focus", w)), !.requested = r]

Allowed(F, r, by) ==
  \/ r = None \/ by = "force"
  \/ /\ Has(r, "lenient") \/ AcceptsInput(r) \/ F.focus = None
     /\ Has(r, by)

\* The windows behind and in front of r in the list.
Place(F, r) == CHOOSE i \in DOMAIN F.list : F.list[i] = r
After(F, r) == SubSeq(F.list, Place(F, r) + 1, Len(F.list))
Before(F, r) == SubSeq(F.list, 1, Place(F, r) - 1)

\* The window moves to the front, or the list is turned until it is there.
UpdateWindowlist(F, r, by, flip) ==
  IF r \notin Managed(F) \ {F.focus} THEN F
  ELSE IF ~flip /\ (Has(r, "by open") \/ by = "function")
       THEN [F EXCEPT !.list = <<r>> \o After(F, r) \o Before(F, r)]
       ELSE [F EXCEPT !.list = <<r>> \o Before(F, r) \o After(F, r)]

\* __set_focus_to_fwin, on one desk.
Give(F, r) ==
  CASE r = None ->
         [FocusSet(F, NoFocusWin, None) EXCEPT !.focus = None, !.unknown = None]
    [] r # None /\ (Has(r, "lenient") \/ AcceptsInput(r)) ->
         LET B == IF ~Has(r, "lenient") /\ F.stolen = r /\ F.unknown # None
                  THEN FocusSet(F, NoFocusWin, None) ELSE F
         IN [FocusSet(B, r, r) EXCEPT !.focus = r, !.unknown = None]
    [] r # None /\ ~Has(r, "lenient") /\ ~AcceptsInput(r) /\ F.focus # None -> F
    [] OTHER -> [FocusSet(F, NoFocusWin, None) EXCEPT !.focus = None]

SetFocus(F, r, by, force, flip) ==
  IF \/ ~force /\ r = F.focus
     \/ ~Allowed(F, r, by)
  THEN F
  ELSE Give(UpdateWindowlist(F, r, by, flip), r)

DeleteFocus(F) == SetFocus(F, None, "force", FALSE, FALSE)

\* focus_force_refresh_focus: the window gets the focus while the server is
\* grabbed and reports nothing about it.
Refresh(F, r) ==
  [F EXCEPT !.requested = None,
            !.events = @ \o FocusOuts(server, r)]

Forget(p, r) == IF p = r THEN None ELSE p

\* The window that gets the focus of r.  after: the windows behind r in the list.
Heir(F, r, after) ==
  LET t == Parent(F, r)
      next == SelectInSeq(after, LAMBDA s : ~Has(s, "override release"))
  IN IF t # None
     THEN IF Has(r, "release transient") /\ ~Has(t, "override release") THEN t ELSE None
     ELSE IF Has(r, "release") /\ next # 0 THEN after[next] ELSE None

\* Mutant: without an heir the focus stays with the window that goes.
RestoreFocus_NoHeir(F, r, after) ==
  LET heir == Heir(F, r, after)
  IN IF F.focus = r /\ heir # None THEN SetFocus(F, heir, "force", TRUE, FALSE)
     ELSE [F EXCEPT !.focus = Forget(@, r)]

\* restore_focus_after_unmap.
RestoreFocus(F, r, after) ==
  LET heir == Heir(F, r, after)
      B == IF heir # None THEN SetFocus(F, heir, "force", TRUE, FALSE) ELSE F
  IN IF F.focus # r THEN F
     ELSE IF B.focus = r THEN DeleteFocus(B) ELSE B

\* The window leaves the list and the screen.
Unlink(F, r) ==
  [F EXCEPT !.list = Before(F, r) \o After(F, r), !.hilite = Forget(@, r),
            !.requests = Append(@, Request("unmap", r))]

\* Mutant: the window the focus was stolen from is not forgotten.
DestroyWindow_KeepsStolen(F, r) ==
  [RestoreFocus(Unlink(F, r), r, <<>>)
     EXCEPT !.pending = Forget(@, r), !.requested = Forget(@, r)]

\* destroy_window has taken the window out of the list when it looks for the
\* window that gets the focus.
DestroyWindow(F, r) ==
  [RestoreFocus(Unlink(F, r), r, <<>>)
     EXCEPT !.stolen = Forget(@, r), !.pending = Forget(@, r),
            !.requested = Forget(@, r)]

---------------------------------------------------------------------------
(* Events of the focus.                                                     *)

LastFocusIn(F, w) ==
  LET last == SelectLastInSeq(F.events, LAMBDA e : e.type = "FocusIn")
  IN IF last = 0 THEN w ELSE F.events[last].win

\* The events that are left when the FocusIn events are taken from the queue.
OtherEvents(F) ==
  LET kept[n \in 0..Len(F.events)] ==
        IF n = 0 THEN <<>>
        ELSE IF F.events[n].type = "FocusIn" THEN kept[n - 1]
        ELSE Append(kept[n - 1], F.events[n])
  IN kept[Len(F.events)]

\* fvwm learns that w has the focus.
AcceptFocusIn(F, w) ==
  CASE w = NoFocusWin ->
         [F EXCEPT !.hilite = None]
    [] w \notin Managed(F) \cup {NoFocusWin} ->
         [F EXCEPT !.hilite = None, !.unknown = w, !.stolen = F.focus]
    [] w \in Managed(F) ->
         [F EXCEPT !.hilite = w, !.focus = w, !.stolen = F.focus]

\* A globally active window has taken a focus it may not have.
Refuses(F, w) ==
  /\ w \in Managed(F) \ {F.requested}
  /\ GloballyActive(w) /\ ~Has(w, "program")

\* The requests and assignments of __refocus_stolen_focus_win.
ReturnStolen(F) ==
  [FocusSet(F, F.stolen, F.stolen) EXCEPT !.unknown = None, !.stolen = None]

\* fvwm has found out that w has the focus, and handles all focus events at once.
FocusIsOn(F, w) ==
  LET B == [F EXCEPT !.events = OtherEvents(F), !.pending = None]
      C == [B EXCEPT !.unknown = None]
  IN CASE w = None -> B
       [] w # None /\ Refuses(F, w) ->
            IF F.stolen = None THEN ReturnStolen(C)
            ELSE AcceptFocusIn(ReturnStolen(C), F.stolen)
       [] OTHER -> AcceptFocusIn(C, w)

\* Mutant: the first of the FocusIn events counts.
HandleFocusIn_First(F, w) == FocusIsOn(F, IF w = None THEN LastFocusIn(F, w) ELSE w)

\* Only the last of the FocusIn events counts.
HandleFocusIn(F, w) == FocusIsOn(F, LastFocusIn(F, w))

\* __refocus_stolen_focus_win: the event at hand becomes a FocusIn.
Refocus(F) == HandleFocusIn(ReturnStolen(F), F.stolen)

HandleFocusOut(F, u) ==
  IF F.unknown = u /\ F.stolen # None THEN Refocus(F) ELSE F

---------------------------------------------------------------------------
(* Windows come and go.                                                     *)

GrabOnOpen(F, r) == IF GrabsFocus(F, r) THEN SetFocus(F, r, "force", TRUE, FALSE) ELSE F

HandleMapRequest(F, r) ==
  LET B == [F EXCEPT !.list = Append(@, r),
                     !.requests = Append(@, Request("map", r))]
  IN GrabOnOpen(B, r)

\* The decorations are drawn for what fvwm thinks the focus is.
HandleMapNotify(F, w) ==
  LET B == GrabOnOpen(F, w)
  IN CASE w \in Managed(F) ->
            [B EXCEPT !.hilite = IF B.focus = w THEN w ELSE Forget(@, w)]
       [] w \in Unmanaged ->
            [F EXCEPT !.unknown = w, !.requests = Append(@, Request("observe", w))]
       [] OTHER -> F

\* The window is still in the list when its focus is handed on.
HandleUnmapNotify(F, w) ==
  LET B == [F EXCEPT !.hilite = Forget(@, w)]
  IN IF w \in Managed(F)
     THEN DestroyWindow(RestoreFocus(B, w, After(F, w)), w)
     ELSE F

Dispatch ==
  /\ fvwm.events # <<>>
  /\ LET e == Head(fvwm.events)
         F == [fvwm EXCEPT !.events = Tail(@)]
     IN \/ e.type = "FocusIn" /\ fvwm' = HandleFocusIn(F, e.win)
        \/ e.type = "FocusOut" /\ fvwm' = HandleFocusOut(F, e.win)
        \/ e.type = "MapRequest" /\ fvwm' = HandleMapRequest(F, e.win)
        \/ e.type = "Map" /\ fvwm' = HandleMapNotify(F, e.win)
        \/ e.type = "Unmap" /\ fvwm' = HandleUnmapNotify(F, e.win)
  /\ UNCHANGED server

---------------------------------------------------------------------------
(* The user.                                                                *)

Quiet == fvwm.requests = <<>> /\ fvwm.events = <<>>

User == Len(fvwm.events \o fvwm.requests) < MaxInFlight /\ server.focus # None
Pointer == (SwiftPointer \/ Quiet) /\ User

\* Focus and FlipFocus: pointer events have to wait until the focus has moved.
ActivateWindow(F, r, flip) ==
  LET B == SetFocus(F, r, "function", FALSE, flip)
  IN [B EXCEPT !.pending = IF B.focus # F.focus THEN F.focus ELSE @]

Focus(r) ==
  /\ User /\ UNCHANGED server
  /\ \E flip \in BOOLEAN : fvwm' = ActivateWindow(fvwm, r, flip)

Click(r) ==
  /\ Pointer /\ r \in server.viewable /\ Has(r, "click") /\ fvwm.focus # r
  /\ fvwm' = SetFocus(fvwm, r, "click", TRUE, FALSE)
  /\ UNCHANGED server

\* An unmanaged window keeps the focus only until the pointer enters a window.
ReturnFocus(F, sf) ==
  IF F.unknown # None /\ sf # None /\ sf = F.stolen THEN Refocus(F) ELSE F

\* HandleEnterNotify.  again: the pointer has been in a subwindow of the client
\* all the time.  To refresh the focus is a round trip to the server.
EnterWindow(r) ==
  /\ Pointer /\ r \in server.viewable
  /\ fvwm.pending = None
  /\ \E again \in BOOLEAN :
       LET sf == fvwm.focus
           refresh == /\ sf = r
                      /\ (again /\ Passive(r)) \/ (~Has(r, "enter") /\ AcceptsInput(r))
           A == IF refresh THEN Refresh(fvwm, r) ELSE fvwm
           B == IF sf \notin {None, r} /\ Has(sf, "leave") THEN DeleteFocus(A) ELSE A
           C == IF Has(r, "enter") THEN SetFocus(B, r, "enter", TRUE, FALSE) ELSE B
       IN /\ refresh => fvwm.requests = <<>>
          /\ server' = [server EXCEPT !.focus = IF refresh THEN r ELSE @]
          /\ fvwm' = ReturnFocus(C, sf)

EnterRoot ==
  /\ Pointer /\ fvwm.pending = None
  /\ UNCHANGED server
  /\ fvwm' = IF fvwm.focus = None \/ Has(fvwm.focus, "leave") THEN DeleteFocus(fvwm)
             ELSE ReturnFocus(fvwm, fvwm.focus)

\* CMD_Destroy.
Destroy(r) ==
  /\ Pointer /\ r \in server.viewable
  /\ fvwm' = DestroyWindow(fvwm, r)
  /\ UNCHANGED server

---------------------------------------------------------------------------
(* The clients.                                                             *)

\* What comes after fvwm has left the keyboard to no window is not followed.
Client == Len(fvwm.events \o fvwm.requests) < MaxInFlight /\ server.focus # None

Post(e) == [fvwm EXCEPT !.events = Append(@, e)]

\* (A window that takes the focus while fvwm destroys it takes it to its grave.)
ClientTakesFocus(w) ==
  /\ Client /\ w \in server.viewable \ {server.focus}
  /\ Request("unmap", w) \notin ToSet(fvwm.requests)
  /\ GiveFocus(w)

\* (WindowMap has windows that are mapped again while fvwm still decorates them.)
ClientMaps(r) ==
  /\ Client /\ r \notin server.viewable \cup Managed(fvwm)
  /\ \A i \in DOMAIN fvwm.events : fvwm.events[i].win # r
  /\ \A i \in DOMAIN fvwm.requests : fvwm.requests[i].win # r
  /\ fvwm' = Post(Event("MapRequest", r))
  /\ UNCHANGED server

ClientWithdraws(r) ==
  /\ Client /\ r \in server.viewable
  /\ fvwm' = Post(Event("Unmap", r))
  /\ server' = Hide(server, r)

UnmanagedMaps(u) ==
  /\ Client /\ u \notin server.viewable
  /\ fvwm' = Post(Event("Map", u))
  /\ server' = [server EXCEPT !.viewable = @ \cup {u}]

UnmanagedUnmaps(u) ==
  /\ Client /\ u \in server.viewable
  /\ fvwm' = IF u = server.focus /\ u \in server.observed
             THEN Post(Event("FocusOut", u)) ELSE fvwm
  /\ server' = Hide(server, u)

Next ==
  \/ Serve
  \/ Dispatch
  \/ \E r \in ToSet(fvwm.list) : Focus(r) \/ Click(r) \/ EnterWindow(r) \/ Destroy(r)
  \/ EnterRoot
  \/ \E w \in Windows \cup Unmanaged : ClientTakesFocus(w)
  \/ \E r \in Windows : ClientMaps(r) \/ ClientWithdraws(r)
  \/ \E u \in Unmanaged : UnmanagedMaps(u) \/ UnmanagedUnmaps(u)

Spec == Init /\ [][Next]_vars

---------------------------------------------------------------------------
(* Properties.                                                              *)

\* Once everything has settled, fvwm knows who has got the keyboard: a window
\* that fvwm manages and that has it is the focused window, and it is not lost
\* with a window: it is not in the decorations of one that has gone, whoever had
\* it when, and to whomever fvwm was about to give it.
KeyboardNotLost ==
  Quiet => /\ server.focus # Nowhere
           /\ server.focus \in Managed(fvwm) => fvwm.focus = server.focus

\* Once everything has settled, no window is highlighted that has not really
\* got the focus (screen.h: Hilite "is the window which REALLY has the focus").
\* A window can have the focus and not be highlighted: the server reports nothing
\* when it is given the focus it has already.
HiliteAgrees ==
  Quiet /\ server.focus \in Managed(fvwm) \cup {NoFocusWin} =>
    fvwm.hilite \in {server.focus, None}
===========================================================================
