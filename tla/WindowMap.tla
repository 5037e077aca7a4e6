----------------------------- MODULE WindowMap -----------------------------
(* Client windows between their clients, the X server and fvwm: mapping,    *)
(* unmapping, withdrawing, destroying and iconifying windows and changing   *)
(* desks, while the events that tell fvwm of it wait in its queue. A client *)
(* acts at any time; fvwm handles one event, or one command of the user, at  *)
(* a time (fvwm/events.c, fvwm/icons.c, fvwm/add_window.c, fvwm/virtual.c). *)
EXTENDS Naturals, Sequences, FiniteSets, SequencesExt, FiniteSetsExt

CONSTANTS
  Clients,       \* client windows
  Desks,
  Hint,          \* for each client, the window it is transient for, or None
  StartIconic,   \* clients whose hints may ask for IconicState
  Impatient,     \* clients that map a window before it is withdrawn
  Hasty,         \* whether commands come while frames are still unmapped
  OpensAny,      \* whether icons are opened whose transients are no icons
  Ops,           \* what each client does, and what the user does (at None)
  MaxQueue,      \* bound: no new request while as many events wait
  None           \* no window

ASSUME WindowMapAssumption ==
  /\ Hint \in [Clients -> Clients \cup {None}] /\ None \notin Clients
  /\ Desks \subseteq Nat /\ 0 \in Desks
  /\ MaxQueue \in Nat /\ Hasty \in BOOLEAN /\ OpensAny \in BOOLEAN

VARIABLES
  x,        \* the X server: which windows are mapped, WM_STATE, the queue
  fw,       \* fvwm's records and flags of the windows
  wish      \* what each client and the user last asked for

vars == <<x, fw, wish>>

\* The state as one record, which the operators below take and return.
Now == [x |-> x, fw |-> fw, wish |-> wish]

Becomes(S) == x' = S.x /\ fw' = S.fw /\ wish' = S.wish

EventTypes == {"MapRequest", "MapRequestInFrame", "MapNotify", "FrameMapNotify",
               "UnmapNotify", "FrameUnmapNotify", "SyntheticUnmap",
               "DestroyNotify", "ChangeState"}

\* Flags of a window, with the names of fvwm/window_flags.h.
Flags == {"managed", "mapped", "map_pending", "iconified", "iconify_pending",
          "iconified_by_parent", "icon_unmapped", "iconify_after_map",
          "has_icon", "capture"}

TypeOK ==
  /\ x \in [mapped: SUBSET Clients, frames: SUBSET Clients,
            icons: SUBSET Clients, gone: SUBSET Clients, iconic: SUBSET StartIconic,
            state: [Clients -> {"none", "withdrawn", "normal", "iconic"}],
            queue: Seq([type: EventTypes, win: Clients])]
  /\ DOMAIN fw = Flags \cup {"desk", "current", "parent"}
  /\ \A f \in Flags : fw[f] \subseteq fw.managed
  /\ fw.managed \subseteq Clients /\ fw.current \in Desks
  /\ fw.desk \in [Clients -> Desks]
  /\ fw.parent \in [Clients -> Clients \cup {None}]
  /\ x.frames \cup x.icons \subseteq fw.managed /\ x.mapped \cap x.gone = {}
  /\ wish.client \in [Clients -> {"shown", "unmapped", "withdrawn"}]
  /\ wish.iconic \subseteq fw.managed

Init ==
  /\ x = [mapped |-> {}, frames |-> {}, icons |-> {}, gone |-> {}, iconic |-> {},
          state |-> [c \in Clients |-> "none"], queue |-> <<>>]
  /\ fw = [f \in Flags |-> {}]
          @@ [desk |-> [c \in Clients |-> 0], current |-> 0,
              parent |-> [c \in Clients |-> None]]
  /\ wish = [client |-> [c \in Clients |-> "unmapped"], iconic |-> {}]

---------------------------------------------------------------------------
(* The X server. It reports a client window to fvwm once fvwm has selected   *)
(* its events, which it does when it manages the window; it reports frames   *)
(* to fvwm through the root window, and the first MapNotify of a frame.      *)

Queued(S, types, c) ==
  \E i \in DOMAIN S.x.queue : S.x.queue[i].win = c /\ S.x.queue[i].type \in types

Post(S, type, c) == [S EXCEPT !.x.queue = Append(@, [type |-> type, win |-> c])]

\* FCheckIfEvent and FCheckTypedWindowEvent take the first event that matches.
Take(S, type, c) ==
  [S EXCEPT !.x.queue = RemoveFirst(@, [type |-> type, win |-> c])]

\* Requests of fvwm.
XMapClient(S, c) ==
  IF c \in S.x.mapped \cup S.x.gone THEN S
  ELSE Post([S EXCEPT !.x.mapped = @ \cup {c}], "MapNotify", c)

XUnmapClient(S, c) ==
  IF c \notin S.x.mapped THEN S
  ELSE Post([S EXCEPT !.x.mapped = @ \ {c}], "UnmapNotify", c)

XMapFrame(S, c) ==
  IF c \in S.x.frames THEN S
  ELSE LET R == [S EXCEPT !.x.frames = @ \cup {c}]
       IN IF c \in S.fw.capture THEN Post(R, "FrameMapNotify", c) ELSE R

XUnmapFrame(S, c) ==
  IF c \notin S.x.frames THEN S
  ELSE Post([S EXCEPT !.x.frames = @ \ {c}], "FrameUnmapNotify", c)

XMapIcon(S, c) == [S EXCEPT !.x.icons = @ \cup ({c} \cap S.fw.has_icon)]
XUnmapIcon(S, c) == [S EXCEPT !.x.icons = @ \ {c}]

\* A mapped window that is moved to another parent is unmapped and mapped.
XReparentToRoot(S, c) ==
  IF c \in S.x.mapped THEN Post(Post(S, "UnmapNotify", c), "MapNotify", c) ELSE S

SetMapStateProp(S, c, s) == [S EXCEPT !.x.state[c] = s]

Viewable(S, c) == c \in S.x.mapped /\ c \in S.x.frames

Set(S, f, c) == [S EXCEPT !.fw[f] = @ \cup {c}]
Clear(S, f, c) == [S EXCEPT !.fw[f] = @ \ {c}]

OnCurrentDesk(S, c) == S.fw.desk[c] = S.fw.current

---------------------------------------------------------------------------
(* Iconifying a window, with its transients.                                *)

TransientFor(S, c) ==
  IF S.fw.parent[c] \in S.fw.managed THEN S.fw.parent[c] ELSE None

\* mark_transient_subtree for all layers: c and what is transient for it.
Family(S, c) ==
  LET f[n \in 0..Cardinality(Clients)] ==
        IF n = 0 THEN {c}
        ELSE f[n - 1] \cup {t \in S.fw.managed : S.fw.parent[t] \in f[n - 1]}
  IN f[Cardinality(Clients)]

\* Mutant: the client's window is unmapped with its events still selected.
IconifyOne_Reported(S, t, c) ==
  LET hidden == XUnmapIcon(XUnmapFrame(XUnmapClient(Clear(S, "mapped", t), t), t), t)
      R == SetMapStateProp(hidden, t, "iconic")
  IN IF t = c /\ c \notin S.fw.iconified_by_parent
     THEN Set(R, "iconify_pending", t)
     ELSE Set(Set(Set(R, "iconified", t), "icon_unmapped", t),
              "iconified_by_parent", t)

\* Mutant: the window is not marked as being iconified.
IconifyOne_NotPending(S, t, c) ==
  LET hidden == XUnmapIcon(XUnmapFrame(
                  [Clear(S, "mapped", t) EXCEPT !.x.mapped = @ \ {t}], t), t)
      R == SetMapStateProp(hidden, t, "iconic")
  IN IF t = c /\ c \notin S.fw.iconified_by_parent
     THEN R
     ELSE Set(Set(Set(R, "iconified", t), "icon_unmapped", t),
              "iconified_by_parent", t)

\* The loop of Iconify; the window itself gets its icon later.
IconifyOne(S, t, c) ==
  LET hidden == XUnmapIcon(XUnmapFrame(
                  [Clear(S, "mapped", t) EXCEPT !.x.mapped = @ \ {t}], t), t)
      R == SetMapStateProp(hidden, t, "iconic")
  IN IF t = c /\ c \notin S.fw.iconified_by_parent
     THEN Set(R, "iconify_pending", t)
     ELSE Set(Set(Set(R, "iconified", t), "icon_unmapped", t),
              "iconified_by_parent", t)

IconifyWindow(S, c) ==
  LET P == IF Viewable(S, c) THEN Clear(S, "map_pending", c) ELSE S
      R == FoldSet(LAMBDA t, Q : IconifyOne(Q, t, c), P, Family(P, c))
      I == Clear(Set(Set(R, "has_icon", c), "iconified", c), "icon_unmapped", c)
  IN IF c \in S.x.gone THEN S
     ELSE IF c \in P.fw.map_pending THEN Set(P, "iconify_after_map", c)
     ELSE IF c \in P.fw.iconified_by_parent THEN R
     ELSE IF OnCurrentDesk(I, c) THEN XMapIcon(I, c) ELSE I

\* The window whose icon stands for c.
IconOwner(S, c) ==
  LET up[v \in S.fw.managed] ==
        IF v \in S.fw.iconified_by_parent /\ TransientFor(S, v) # None
        THEN up[S.fw.parent[v]] ELSE v
  IN up[c]

DeIconifyOne(S, t) ==
  LET R == XMapClient(XUnmapIcon(
             Clear(Set(S, "mapped", t), "iconified_by_parent", t), t), t)
      F == IF OnCurrentDesk(R, t) THEN Set(XMapFrame(R, t), "map_pending", t) ELSE R
  IN Clear(Clear(SetMapStateProp(F, t, "normal"), "iconified", t),
           "icon_unmapped", t)

DeIconifyWindow(S, c) ==
  LET P == IF Viewable(S, c) THEN Clear(S, "map_pending", c) ELSE S
      o == IconOwner(P, c)
  IN IF c \in S.x.gone THEN S
     ELSE IF c \in P.fw.map_pending THEN Clear(P, "iconify_after_map", c)
     ELSE FoldSet(LAMBDA t, Q : DeIconifyOne(Q, t),
                  Clear(P, "iconified_by_parent", o), Family(P, o))

\* The user's wishes (ghost): the windows that should be icons in the end.
WantIcons(S, M) == [S EXCEPT !.wish.iconic = @ \cup M]
WantWindows(S, M) == [S EXCEPT !.wish.iconic = @ \ M]

CmdIconify(S, c) ==
  IF c \in S.fw.iconified \cup S.x.gone THEN S
  ELSE IconifyWindow(WantIcons(S, Family(S, c)), c)

CmdDeIconify(S, c) ==
  IF c \in S.x.gone THEN S
  ELSE IF c \notin S.fw.iconified THEN WantWindows(S, {c})
  ELSE DeIconifyWindow(WantWindows(S, Family(S, IconOwner(S, c))), c)

---------------------------------------------------------------------------
(* Managing a window, and giving it up.                                     *)

\* AddWindow. A parent that is not managed is not viewable either.
AddWindow(S, c) ==
  LET R == Set(Set(S, "managed", c), "capture", c)
  IN [R EXCEPT !.fw.desk[c] = S.fw.current,
               !.fw.parent[c] = IF Hint[c] \in S.fw.managed THEN Hint[c] ELSE None]

\* Mutant: the icon stays.
DestroyWindow_KeepsIcon(S, c) ==
  LET OfFrame(e) == e.win = c /\ e.type \in {"FrameMapNotify", "FrameUnmapNotify",
                                             "MapRequestInFrame"}
  IN [S EXCEPT !.fw = [f \in DOMAIN @ |-> CASE f \in Flags -> @[f] \ {c}
                                            [] f = "current" -> @[f]
                                            [] f = "desk" -> [@[f] EXCEPT ![c] = 0]
                                            [] f = "parent" -> [@[f] EXCEPT ![c] = None]],
               !.x.frames = @ \ {c},
               !.x.queue = SelectSeq(@, LAMBDA e : ~OfFrame(e)),
               !.wish.iconic = @ \ {c}]

\* destroy_window. Events of the frame find no window any more.
DestroyWindow(S, c) ==
  LET OfFrame(e) == e.win = c /\ e.type \in {"FrameMapNotify", "FrameUnmapNotify",
                                             "MapRequestInFrame"}
  IN [S EXCEPT !.fw = [f \in DOMAIN @ |-> CASE f \in Flags -> @[f] \ {c}
                                            [] f = "current" -> @[f]
                                            [] f = "desk" -> [@[f] EXCEPT ![c] = 0]
                                            [] f = "parent" -> [@[f] EXCEPT ![c] = None]],
               !.x.frames = @ \ {c}, !.x.icons = @ \ {c},
               !.x.queue = SelectSeq(@, LAMBDA e : ~OfFrame(e)),
               !.wish.iconic = @ \ {c}]

\* HandleMapRequestKeepRaised for a window that is neither an icon nor mapped.
ShowNewWindow(S, c) ==
  IF c \notin S.x.iconic
  THEN LET R == IF OnCurrentDesk(S, c) THEN XMapFrame(Set(S, "map_pending", c), c) ELSE S
       IN SetMapStateProp(XMapClient(R, c), c, "normal")
  ELSE LET p == TransientFor(S, c)
           B == IF p \in S.fw.iconified THEN Set(S, "iconified_by_parent", c) ELSE S
       IN IconifyWindow(WantIcons(B, {c}), c)

\* Mutant: a transient is put back until its parent is managed.
HandleMapRequest_AfterParent(S, c) ==
  IF Hint[c] # None /\ Hint[c] \notin S.fw.managed
  THEN Post(S, "MapRequest", c)
  ELSE IF c \in S.fw.managed
  THEN IF c \in S.fw.map_pending THEN S
       ELSE IF c \in S.fw.iconified THEN CmdDeIconify(S, c)
       ELSE IF c \in S.fw.mapped THEN S
       ELSE ShowNewWindow(S, c)
  ELSE IF Queued(S, {"SyntheticUnmap"}, c)
  THEN SetMapStateProp(Take(S, "SyntheticUnmap", c), c, "none")
  ELSE IF c \in S.x.gone THEN S
  ELSE ShowNewWindow(AddWindow(S, c), c)

HandleMapRequest(S, c) ==
  IF c \in S.fw.managed
  THEN IF c \in S.fw.map_pending THEN S
       ELSE IF c \in S.fw.iconified THEN CmdDeIconify(S, c)
       ELSE IF c \in S.fw.mapped THEN S
       ELSE ShowNewWindow(S, c)
  ELSE IF Queued(S, {"SyntheticUnmap"}, c)
  THEN SetMapStateProp(Take(S, "SyntheticUnmap", c), c, "none")
  ELSE IF c \in S.x.gone THEN S
  ELSE ShowNewWindow(AddWindow(S, c), c)

\* Mutant: a window that is being iconified is shown.
HandleMapNotify_NotPending(S, c) ==
  LET P == Clear(S, "map_pending", c)
      G == XUnmapIcon(IF OnCurrentDesk(P, c) THEN XMapFrame(P, c) ELSE P, c)
      M == Clear(Clear(Set(G, "mapped", c), "iconified", c), "icon_unmapped", c)
  IN IF c \notin M.fw.iconify_after_map THEN M
     ELSE Clear(IconifyWindow(M, c), "iconify_after_map", c)

\* The client window is mapped, or its frame for the first time.
HandleMapNotify(S, c) ==
  LET P == Clear(S, "map_pending", c)
      G == XUnmapIcon(IF OnCurrentDesk(P, c) THEN XMapFrame(P, c) ELSE P, c)
      M == Clear(Clear(Set(G, "mapped", c), "iconified", c), "icon_unmapped", c)
  IN IF c \in S.fw.iconify_pending THEN P
     ELSE IF c \notin M.fw.iconify_after_map THEN M
     ELSE Clear(IconifyWindow(M, c), "iconify_after_map", c)

\* Mutant: a request to map the window inside its frame is not looked for.
HandleUnmapNotify_DropsRequest(S, c, synthetic) ==
  LET U == IF synthetic /\ ~Queued(S, {"MapRequest", "MapRequestInFrame"}, c)
           THEN XUnmapClient(S, c) ELSE S
      W == XReparentToRoot(SetMapStateProp(U, c, "withdrawn"), c)
  IN IF c \notin U.fw.mapped \cup U.fw.iconified THEN U
     ELSE IF c \in U.x.gone THEN DestroyWindow(Take(U, "DestroyNotify", c), c)
     ELSE DestroyWindow(W, c)

\* The client was unmapped, or says on the root window that it withdraws.
HandleUnmapNotify(S, c, synthetic) ==
  LET U == IF synthetic /\ ~Queued(S, {"MapRequest", "MapRequestInFrame"}, c)
           THEN XUnmapClient(S, c) ELSE S
      W == XReparentToRoot(SetMapStateProp(U, c, "withdrawn"), c)
  IN IF c \notin U.fw.mapped \cup U.fw.iconified THEN U
     ELSE IF c \in U.x.gone THEN DestroyWindow(Take(U, "DestroyNotify", c), c)
     ELSE IF Queued(W, {"MapRequestInFrame"}, c)
     THEN HandleMapRequest(DestroyWindow(Take(W, "MapRequestInFrame", c), c), c)
     ELSE DestroyWindow(W, c)

---------------------------------------------------------------------------
(* Desks. No window is sticky.                                              *)

UnmapWindow(S, t) ==
  IF t \in S.fw.iconified THEN XUnmapIcon(S, t)
  ELSE SetMapStateProp(XUnmapFrame(S, t), t, "iconic")

MapWindow(S, t) ==
  IF t \in S.fw.iconified THEN XMapIcon(S, t)
  ELSE IF t \in S.fw.mapped THEN SetMapStateProp(XMapFrame(S, t), t, "normal")
  ELSE S

OfDesk(S, d) == {t \in S.fw.managed \ S.fw.icon_unmapped : S.fw.desk[t] = d}

GotoDesk(S, d) ==
  LET U == FoldSet(LAMBDA t, Q : UnmapWindow(Q, t), S, OfDesk(S, S.fw.current))
  IN FoldSet(LAMBDA t, Q : MapWindow(Q, t), [U EXCEPT !.fw.current = d], OfDesk(U, d))

MoveToDesk(S, c, d) ==
  LET R == [S EXCEPT !.fw.desk[c] = d]
  IN IF OnCurrentDesk(S, c) THEN UnmapWindow(R, c)
     ELSE IF OnCurrentDesk(R, c) THEN MapWindow(R, c)
     ELSE R

---------------------------------------------------------------------------
(* Actions of clients. A client that withdraws tells the root window too,   *)
(* for fvwm may have unmapped the window (ICCCM); one that only unmaps its   *)
(* window does so while it sees it mapped.                                   *)

Room == Len(x.queue) < MaxQueue
Wishes(S, c, w) == [S EXCEPT !.wish.client[c] = w]
Frame(c) == c \in fw.managed

ClientMap(c) ==
  /\ "map" \in Ops[c] /\ Room /\ c \notin x.gone \cup x.mapped
  /\ \/ wish.client[c] # "shown"
     \/ "remap" \in Ops[c] /\ x.state[c] = "iconic" /\ ~Queued(Now, {"MapRequestInFrame"}, c)
  /\ wish.client[c] = "withdrawn"
     => x.state[c] \in {"none", "withdrawn"} \/ c \in Impatient
  /\ IF Frame(c)
     THEN Becomes(Post(Wishes(Now, c, "shown"), "MapRequestInFrame", c))
     ELSE \E hint \in SUBSET (StartIconic \cap {c}) :
            LET S == [Wishes(Now, c, "shown") EXCEPT !.x.iconic = (@ \ {c}) \cup hint]
            IN Becomes(Post(S, "MapRequest", c))

ClientUnmap(c) ==
  /\ "unmap" \in Ops[c] /\ Room /\ c \in x.mapped /\ wish.client[c] = "shown"
  /\ Becomes(XUnmapClient(Wishes(Now, c, "unmapped"), c))

ClientWithdraw(c) ==
  /\ "withdraw" \in Ops[c] /\ Room /\ c \notin x.gone /\ wish.client[c] = "shown"
  /\ Becomes(Post(XUnmapClient(Wishes(Now, c, "withdrawn"), c), "SyntheticUnmap", c))

ClientDestroy(c) ==
  /\ "destroy" \in Ops[c] /\ Room /\ c \notin x.gone
  /\ LET S == XUnmapClient(Wishes(Now, c, "unmapped"), c)
         G == [S EXCEPT !.x.gone = @ \cup {c}]
     IN Becomes(IF Frame(c) THEN Post(G, "DestroyNotify", c) ELSE G)

ClientIconify(c) ==
  /\ "change_state" \in Ops[c] /\ Room /\ c \in x.mapped /\ wish.client[c] = "shown"
  /\ ~Queued(Now, {"ChangeState"}, c)
  /\ Hasty \/ \A t \in Clients : /\ Hint[t] # c
                               /\ ~Queued(Now, {"FrameMapNotify", "FrameUnmapNotify"}, c)
  /\ Becomes(Post(Now, "ChangeState", c))

---------------------------------------------------------------------------
(* Actions of fvwm: the next event, or a command of the user.               *)

Dispatched == [Now EXCEPT !.x.queue = Tail(@)]
Next1(type, c) == x.queue # <<>> /\ Head(x.queue) = [type |-> type, win |-> c]

\* Events of client windows and frames that fvwm does not manage do nothing,
\* nor does a request of a window inside a frame that is no more.
DispatchMapRequest(c) ==
  /\ Next1("MapRequest", c) \/ Next1("MapRequestInFrame", c)
  /\ Becomes(HandleMapRequest(Dispatched, c))

DispatchMapNotify(c) ==
  /\ Next1("MapNotify", c)
  /\ Becomes(IF Frame(c) THEN HandleMapNotify(Dispatched, c) ELSE Dispatched)

DispatchFrameMapNotify(c) ==
  /\ Next1("FrameMapNotify", c)
  /\ Becomes(HandleMapNotify(Clear(Dispatched, "capture", c), c))

DispatchUnmapNotify(c) ==
  /\ Next1("UnmapNotify", c) \/ Next1("SyntheticUnmap", c)
  /\ Becomes(IF Frame(c)
             THEN HandleUnmapNotify(Dispatched, c, Next1("SyntheticUnmap", c))
             ELSE Dispatched)

DispatchFrameUnmapNotify(c) ==
  /\ Next1("FrameUnmapNotify", c)
  /\ Becomes(Clear(Dispatched, "iconify_pending", c))

HandleDestroyNotify(c) ==
  /\ Next1("DestroyNotify", c)
  /\ Becomes(IF Frame(c) THEN DestroyWindow(Dispatched, c) ELSE Dispatched)

HandleClientMessage(c) ==
  /\ Next1("ChangeState", c)
  /\ Becomes(IF Frame(c) THEN CmdIconify(Dispatched, c) ELSE Dispatched)

Dispatch ==
  \E c \in Clients :
    \/ DispatchMapRequest(c) \/ DispatchMapNotify(c)
    \/ DispatchFrameMapNotify(c)
    \/ DispatchUnmapNotify(c) \/ DispatchFrameUnmapNotify(c)
    \/ HandleDestroyNotify(c) \/ HandleClientMessage(c)

\* A user who is not hasty waits until the frames of the windows that his
\* command is about have been unmapped and new transients have been mapped,
\* opens no icon whose client has unmapped or mapped its window meanwhile, and
\* changes no desk while an icon is being opened.
Waits(c, types) ==
  Hasty \/ \A t \in Family(Now, IconOwner(Now, c)) :
             /\ ~Queued(Now, types, t)
             /\ t # c => ~Queued(Now, {"MapNotify", "FrameMapNotify"}, t)

NothingOpens ==
  Hasty \/ \A t \in fw.managed :
             /\ ~Queued(Now, {"ChangeState"}, t)
             /\ t \in fw.has_icon => ~Queued(Now, {"MapNotify", "FrameMapNotify"}, t)

Iconify(c) ==
  /\ "iconify" \in Ops[None] /\ Room /\ Frame(c) /\ Waits(c, {"FrameUnmapNotify"})
  /\ Becomes(CmdIconify(Now, c))

DeIconify(c) ==
  /\ "iconify" \in Ops[None] /\ Room /\ Frame(c)
  /\ Waits(c, {"FrameUnmapNotify", "UnmapNotify", "MapRequestInFrame"})
  /\ OpensAny \/ c \notin fw.iconified
     \/ Family(Now, IconOwner(Now, c)) \subseteq fw.iconified
  /\ Becomes(CmdDeIconify(Now, c))

CmdGotoDesk(d) ==
  /\ "desk" \in Ops[None] /\ Room /\ d # fw.current /\ NothingOpens
  /\ Becomes(GotoDesk(Now, d))

CmdMoveToDesk(c, d) ==
  /\ "move" \in Ops[None] /\ Room /\ Frame(c) /\ d # fw.desk[c] /\ NothingOpens
  /\ Becomes(MoveToDesk(Now, c, d))

Next ==
  \/ Dispatch
  \/ \E c \in Clients :
       \/ ClientMap(c) \/ ClientUnmap(c) \/ ClientWithdraw(c) \/ ClientDestroy(c)
       \/ ClientIconify(c) \/ Iconify(c) \/ DeIconify(c)
       \/ \E d \in Desks : CmdMoveToDesk(c, d)
  \/ \E d \in Desks : CmdGotoDesk(d)

Spec == Init /\ [][Next]_vars

\* Weak fairness of Dispatch, which can happen whenever an event waits.
FairSpec == Spec /\ ([]<>(x.queue = <<>>) \/ []<><<Dispatch>>_vars)

---------------------------------------------------------------------------
(* Properties. Quiet: no event is under way.                                *)

Quiet == x.queue = <<>>

\* When no event is under way the flags of a window tell what the server
\* shows: a frame with its client inside, or an icon, on the current desk only;
\* and WM_STATE tells the client of an icon that it is one.
FlagsMatchServer ==
  Quiet => \A c \in fw.managed :
    /\ c \in x.frames <=> c \in fw.mapped /\ OnCurrentDesk(Now, c)
    /\ c \in x.mapped <=> c \notin fw.iconified
    /\ c \in fw.mapped <=> c \notin fw.iconified
    /\ c \notin fw.icon_unmapped
       => (c \in x.icons <=> c \in fw.iconified /\ OnCurrentDesk(Now, c))
    /\ c \in fw.iconified => x.state[c] = "iconic"

\* When no event is under way the windows that fvwm manages are those that
\* their clients want shown, the others are not mapped, and the icons are the
\* windows that were asked last to be icons (a transient also follows what is
\* asked of its parent later).
WishesGranted ==
  Quiet => \A c \in Clients :
    /\ c \in fw.managed <=> wish.client[c] = "shown"
    /\ c \notin fw.managed \cup x.gone
       => c \notin x.mapped /\ x.state[c] \notin {"normal", "iconic"}
    /\ c \in fw.managed /\ fw.parent[c] = None
       => (c \in fw.iconified <=> c \in wish.iconic)

\* fvwm gives no window up whose client wants it shown: what fvwm unmaps is
\* never taken for a withdrawal.
OnlyClientsWithdraw ==
  [][\A c \in fw.managed \ fw'.managed :
       wish.client[c] # "shown" \/ Queued(Now, {"MapRequest"}, c)]_vars

\* However many requests follow, fvwm gets to what a client asked for.
WishesCome ==
  \A c \in Clients :
    /\ wish.client[c] = "shown" ~> c \in fw.managed \/ wish.client[c] # "shown"
    /\ wish.client[c] # "shown" ~> c \notin fw.managed \/ wish.client[c] = "shown"
=============================================================================
