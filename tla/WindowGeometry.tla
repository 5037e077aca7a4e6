--------------------------- MODULE WindowGeometry ---------------------------
(* Where a window is: the geometry it has when it is not maximized, the one  *)
(* it has when it is, and the frame on the screen, through everything that   *)
(* moves, resizes, maximizes, shades, decorates, pages, saves and restores   *)
(* it.  Only the vertical axis is modelled; the horizontal one is the same   *)
(* code with the names changed.  Normal and maximized geometry are           *)
(* positions on the desk, the frame is relative to the page that is shown.   *)
EXTENDS Integers

CONSTANTS
  DisplayHeight,   \* Scr.MyDisplayHeight, the height of a page
  VyMax,           \* Scr.VyMax, where the last page begins
  Gravities,       \* vertical parts of window gravities: -1 north, 0, 1 south
  MinHeight, BaseHeight, HeightInc,  \* the client's size hints
  Styles,          \* the styles a user may give: border, title, dir, max
  ShadeDirs,       \* vertical parts of shading directions: see Borders
  Targets,         \* bound: positions on the screen that are asked for
  Heights,         \* bound: client heights that are asked for
  MaxSteps         \* bound: operations on the window

ASSUME GeometryAssumption ==
  /\ DisplayHeight \in Nat \ {0} /\ VyMax \in Nat /\ VyMax % DisplayHeight = 0
  /\ MinHeight \in Nat \ {0} /\ BaseHeight \in 0..MinHeight
  /\ HeightInc \in Nat \ {0}
  /\ Gravities \subseteq {-1, 0, 1} /\ ShadeDirs \subseteq {"N", "S", "SW", "W"}
  /\ \A s \in Styles : /\ s.border \in Nat /\ s.title \in Nat
                       /\ s.dir \in {"N", "S", "W"} /\ s.max \in Nat \ {0}
  /\ Targets \subseteq Int /\ Heights \subseteq Nat \ {0}

VARIABLES
  w,        \* the window: the fields of FvwmWindow that say where it is
  Vy,       \* Scr.Vy, the top of the page that is shown
  home,     \* history: where the window was put while it was not maximized
  there,    \* history: where the maximized window was put
  strayed,  \* history: one of the steps under Strays below was taken
  steps     \* history: how many operations there were

vars == <<w, Vy, home, there, strayed, steps>>

Pages == {p \in 0..VyMax : p % DisplayHeight = 0}

\* Division and remainder of C, which round towards zero.
Div(a, b) == IF a < 0 THEN -((-a) \div b) ELSE a \div b
Mod(a, b) == a - b * Div(a, b)

---------------------------------------------------------------------------
(* Geometry: pure functions of rectangles and of the window (geometry.c).   *)

\* The decoration that a style gives a window; windows that fill the screen
\* have none and shaped ones no border (SelectDecor).
Decorated(u) ==
  [u EXCEPT !.border = IF u.shaped \/ u.full THEN 0 ELSE u.style.border,
            !.unshaped = IF u.shaped \/ u.full THEN 0 ELSE u.style.border,
            !.title = IF u.full THEN 0 ELSE u.style.title,
            !.dir = u.style.dir]

\* Height of the decoration; a title on a side of the window adds none.
Top(u) == u.border + (IF u.dir = "N" THEN u.title ELSE 0)
Total(u) == 2 * u.border + (IF u.dir = "W" THEN 0 ELSE u.title)

Relative(g, v) == [g EXCEPT !.y = @ - v]

\* A rectangle that grows by dh: its gravity says where.
Resized(gravity, g, dh) ==
  [y |-> g.y - Div(dh * (gravity + 1), 2), h |-> g.h + dh]

\* The client without decoration, with its reference point where it was; and
\* the frame around such a client.
Naked(gravity, u, g) ==
  LET h == g.h - Total(u)
  IN [y |-> g.y + Div((gravity + 1) * (g.h - 1), 2) - Div((gravity + 1) * (h - 1), 2),
      h |-> h]
Dressed(gravity, u, g) == Resized(gravity, g, Total(u))

\* Mutant: a window without decoration is shaded to nothing.
Shade_NoMinimum(u, dir, g) ==
  LET rest == IF dir = "SW" THEN 2 * u.border ELSE Total(u)
  IN CASE dir = "N" -> [g EXCEPT !.h = rest]
       [] dir \in {"S", "SW"} -> [y |-> g.y + g.h - rest, h |-> rest]
       [] OTHER -> g

\* The frame when the window is shaded.  Shading to a side keeps the height.
Shade(u, dir, g) ==
  LET rest == IF dir = "SW" THEN 2 * u.border ELSE Total(u)
      h == IF rest = 0 THEN 1 ELSE rest
  IN CASE dir = "N" -> [g EXCEPT !.h = h]
       [] dir \in {"S", "SW"} ->
            [y |-> g.y + g.h - rest - (IF rest = 0 THEN 1 ELSE 0), h |-> h]
       [] OTHER -> g

Current(u) == IF u.maximized THEN u.max ELSE u.normal
WithCurrent(u, g) ==
  IF u.maximized THEN [u EXCEPT !.max = g] ELSE [u EXCEPT !.normal = g]

\* What the frame should be, and what it would be unshaded.
UpdateRelative(u, v) ==
  LET g == Relative(Current(u), v)
  IN IF u.shaded THEN Shade(u, u.shadeDir, g) ELSE g
Unshaded(u, v) == IF u.shaded THEN Relative(Current(u), v) ELSE u.frame

\* Mutant: a window shaded to the south is taken to be where its frame is.
UpdateAbsolute_NotDown(u, v) ==
  WithCurrent(u, [y |-> u.frame.y + v,
                  h |-> IF u.shaded /\ u.shadeDir # "W" THEN Current(u).h
                        ELSE u.frame.h])

\* The geometry that follows from the frame; a shaded window keeps its height.
UpdateAbsolute(u, v) ==
  LET h == IF u.shaded /\ u.shadeDir # "W" THEN Current(u).h ELSE u.frame.h
      down == IF u.shaded /\ u.shadeDir \in {"S", "SW"} THEN u.frame.h - h ELSE 0
  IN WithCurrent(u, [y |-> u.frame.y + v + down, h |-> h])

Apart(u) == u.normal.y - u.max.y - u.offset
Near(u) == Apart(u) \in (1 - DisplayHeight)..(DisplayHeight - 1)
AdjustOffset(u) ==
  IF u.maximized
  THEN [u EXCEPT !.normal.y = @ - Div(Apart(u), DisplayHeight) * DisplayHeight]
  ELSE u

\* The height a frame may have: the client's, between its limits and in steps
\* of its increment.  What a maximized window may not fill is its defect, which
\* is added again before the next attempt.
Within(h, min, max) == IF h < min THEN min ELSE IF h > max THEN max ELSE h
Stepped(h, min, max) ==
  LET r == Div(h - BaseHeight, HeightInc) * HeightInc + BaseHeight
      up == IF r < min THEN r + HeightInc ELSE r
  IN IF up > max THEN up - HeightInc ELSE up
Fit(u, h) ==
  LET total == Total(u)
      max == u.limit - total
      min == IF MinHeight > max THEN max ELSE MinHeight
  IN total + Stepped(Within(h - total, min, max), min, max)

\* gravity_constrain_size without and with CS_UPDATE_MAX_DEFECT.
Constrained(u, g) == Resized(u.gravity, g, Fit(u, g.h) - g.h)
ConstrainedMax(u) ==
  LET g == Resized(u.gravity, u.max, u.defect)
      h == Fit(u, g.h)
  IN [u EXCEPT !.max = Resized(u.gravity, g, h - g.h), !.defect = g.h - h]

OnPage(g) == g.y + g.h > 0 /\ g.y < DisplayHeight

\* The page that holds the middle of the window, relative to the one shown;
\* the one shown if the window is visible there.
TruncateToMultiple(x, m) == IF x < 0 THEN m * (Div(x + 1, m) - 1) ELSE m * Div(x, m)
PageOffset(g, v) ==
  LET off == Mod(v, DisplayHeight)
  IN IF OnPage(g) THEN 0
     ELSE TruncateToMultiple(g.y + Div(g.h, 2) + off, DisplayHeight) - off

\* fvwmrect_move_into_rectangle, into the page that begins at p.
IntoPage(g, p) ==
  IF ~(g.y + g.h <= p \/ p + DisplayHeight <= g.y) THEN g.y
  ELSE p + (g.y % DisplayHeight)

---------------------------------------------------------------------------
(* Steps that several commands share, as functions of the window and the    *)
(* viewport (frame.c, move_resize.c, update.c).                             *)

\* The frame is set; what follows from it is set only if the size changes, or
\* if the caller forces it.
ForceSetup(u, v, g) == UpdateAbsolute([u EXCEPT !.frame = g], v)
FrameSetup(u, v, g) ==
  IF g.h # u.frame.h THEN ForceSetup(u, v, g) ELSE [u EXCEPT !.frame = g]

\* A window shaded without a direction follows its title.
FollowTitle(u) == IF u.titleDirUsed THEN [u EXCEPT !.shadeDir = u.dir] ELSE u

OffsetKept(old, u) ==
  [u EXCEPT !.offset = @ + (u.normal.y - u.max.y) - (old.normal.y - old.max.y)]

NoRectangle == [y |-> 0, h |-> 0]
NothingSaved == [max |-> NoRectangle, wasMax |-> FALSE, wasShaded |-> FALSE]

\* apply_window_updates: the parts that change the decoration, the side of the
\* title and the limits of the size.  A maximized window counts as one with
\* NorthWestGravity when its decoration changes.
Redecorated(u) ==
  LET d == Decorated(u)
  IN [d EXCEPT !.normal = Dressed(u.gravity, d, Naked(u.gravity, u, @)),
               !.max = IF u.maximized THEN Dressed(-1, d, Naked(-1, u, @)) ELSE @]
TitleMoved(u) ==
  LET d == [u EXCEPT !.dir = u.style.dir]
      dh == Total(d) - Total(u)
      e == [d EXCEPT !.normal = Constrained(d, Resized(d.gravity, @, dh))]
  IN IF ~u.maximized THEN e
     ELSE ConstrainedMax([e EXCEPT !.max = Resized(d.gravity, @, dh)])
Limited(u) ==
  LET d == [u EXCEPT !.limit = u.style.max]
      e == [d EXCEPT !.normal = Constrained(d, @)]
  IN IF u.maximized THEN ConstrainedMax(e) ELSE e

\* The title is moved when max_offset has been set, g.normal already follows it.
Decorating(u, changes) ==
  LET r == IF "decoration" \in changes THEN Redecorated(u) ELSE u
      t == IF "title" \in changes THEN TitleMoved(r) ELSE r
  IN IF u.maximized /\ "decoration" \in changes
     THEN [t EXCEPT !.offset = OffsetKept(u, [t EXCEPT !.max = r.max]).offset]
     ELSE t
Reframed(u, v) ==
  LET f == IF u.shaded THEN FollowTitle(u) ELSE u
  IN [f EXCEPT !.frame = UpdateRelative(f, v)]
FrameLimited(u, v) == ForceSetup(u, v, Constrained(u, u.frame))

ApplyUpdates(u, v, changes) ==
  LET d == IF changes \cap {"decoration", "title"} = {} THEN u
           ELSE Reframed(Decorating(u, changes), v)
  IN IF "limits" \in changes THEN FrameLimited(Limited(d), v)
     ELSE ForceSetup(d, v, d.frame)

ApplyDecorChange(u, v) == ApplyUpdates(u, v, {"decoration"})

\* frame_reshape_border, when the client has shaped its window or stopped.
Reshaped(u, v) ==
  LET gravity == IF u.maximized THEN -1 ELSE u.gravity
      s == [u EXCEPT !.shaped = ~@, !.border = IF u.shaped THEN u.unshaped ELSE 0]
      c == WithCurrent(s, Dressed(gravity, s, Naked(gravity, u, Current(u))))
      f == IF u.shaded THEN FollowTitle(c) ELSE c
      o == IF u.maximized THEN OffsetKept(u, f) ELSE f
  IN ForceSetup(o, v, UpdateRelative(o, v))

\* Mutant: the normal geometry does not follow the maximized one.
Moved_NotAdjusted(u, v, y) ==
  UpdateAbsolute(FrameSetup(u, v, [u.frame EXCEPT !.y = y]), v)

Moved(u, v, y) ==
  AdjustOffset(UpdateAbsolute(FrameSetup(u, v, [u.frame EXCEPT !.y = y]), v))

\* __resize_window and resize_move_window: the window is no longer maximized.
\* A shaded window that is moved as well keeps its height.
Unset(u) == [u EXCEPT !.maximized = FALSE]
ResizedTo(u, v, h) ==
  LET n == Unset(u)
      g == Unshaded(u, v)
      new == Resized(u.gravity, g, Fit(u, h + Total(u)) - g.h)
      s == IF u.shaded THEN FrameSetup([n EXCEPT !.normal = new], v, Shade(u, u.shadeDir, new))
           ELSE FrameSetup(n, v, new)
  IN UpdateAbsolute(s, v)
ResizedMoved(u, v, g) ==
  UpdateAbsolute(
    FrameSetup(Unset(u), v, [g EXCEPT !.h = IF u.shaded THEN u.frame.h ELSE @]), v)

\* maximize_fvwm_window; while a window is made to fill the screen its size
\* is not constrained.
Maximized(u, v, g, constrain) ==
  LET h == IF constrain THEN Fit(u, g.h) ELSE g.h
      m == [u EXCEPT !.maximized = TRUE, !.defect = g.h - h,
                     !.max = [g EXCEPT !.h = h]]
      f == IF u.shaded THEN Shade(u, u.shadeDir, m.max) ELSE m.max
      s == UpdateAbsolute(FrameSetup(m, v, f), v)
  IN [s EXCEPT !.offset = s.normal.y - s.max.y]

\* CMD_ResizeMaximize and CMD_ResizeMoveMaximize: what the resize made of the
\* window r becomes the maximized geometry.
AsMaximized(u, r, v, constrain) ==
  Maximized([r EXCEPT !.normal = u.normal], v, Relative(r.normal, v), constrain)

\* CMD_WindowShade.
ShadedTo(u, v, dir) ==
  UpdateAbsolute([u EXCEPT !.shaded = TRUE, !.shadeDir = dir,
                           !.frame = Shade(u, dir, Unshaded(u, v))], v)
Unshade(u, v) ==
  UpdateAbsolute([u EXCEPT !.shaded = FALSE, !.frame = Unshaded(u, v)], v)

\* unmaximize_fvwm_window, which also ends filling the screen.  Whether the
\* first frame that is set up has another size also depends on its width.
SetUpAt(u, v, g, wider) == IF wider THEN ForceSetup(u, v, g) ELSE FrameSetup(u, v, g)
ShadedAgain(u, v) == ShadedTo([u EXCEPT !.titleDirUsed = TRUE], v, u.dir)
Reshaded(u, v, was) == IF was.wasShaded /\ ~u.shaded THEN ShadedAgain(u, v) ELSE u
Unmaximized(u, v, wider) ==
  LET was == u.saved
      g == Relative(IF was.wasMax THEN was.max ELSE u.normal, v)
      n == [u EXCEPT !.maximized = was.wasMax, !.full = FALSE, !.saved = NothingSaved]
      d == IF was.wasMax THEN ApplyDecorChange(n, v) ELSE n
  IN ApplyDecorChange(Reshaded(SetUpAt(d, v, g, wider), v, was), v)

\* EWMH_fullscreen.
Filling(u, v) ==
  LET g == [y |-> PageOffset(u.frame, v) - Top(u), h |-> DisplayHeight + Total(u)]
  IN AsMaximized(u, ResizedMoved(u, v, g), v, FALSE)
FillScreen(u, v) ==
  LET s == [u EXCEPT !.saved = [max |-> u.max, wasMax |-> u.maximized,
                                wasShaded |-> u.shaded]]
      o == IF s.shaded THEN Unshade(s, v) ELSE s
  IN Filling(ApplyDecorChange([o EXCEPT !.full = TRUE], v), v)

MovedToPage(u, v, p) ==
  IF u.sticky THEN u ELSE Moved(u, v, IntoPage(u.frame, p - v))

\* stick_across_pages.
Stuck(u, v) ==
  [(IF OnPage(u.frame) THEN u ELSE MovedToPage(u, v, v)) EXCEPT !.sticky = TRUE]

\* Mutant: the maximized geometry of a sticky window stays on the old page.
Paged_MaxBehind(u, old, new) ==
  IF u.sticky THEN [u EXCEPT !.normal.y = @ + new - old]
  ELSE FrameSetup(u, new, [u.frame EXCEPT !.y = @ + old - new])

\* MoveViewport from page old to page new, as far as the window goes.
Paged(u, old, new) ==
  IF u.sticky THEN [u EXCEPT !.normal.y = @ + new - old, !.max.y = @ + new - old]
  ELSE FrameSetup(u, new, [u.frame EXCEPT !.y = @ + old - new])

\* What the session file says of a window on page v (SaveWindowStates), and the
\* window that a new fvwm makes of it on page new (MatchWinToSM, AddWindow).
Saved(u, v) ==
  [u EXCEPT !.normal = LET n == Naked(u.gravity, u, u.normal)
                       IN IF u.sticky THEN Relative(n, v) ELSE n]
Restored(u, new) ==
  LET d == Decorated([u EXCEPT !.shaded = FALSE, !.maximized = FALSE,
                               !.titleDirUsed = TRUE, !.limit = u.style.max])
      n == [d EXCEPT !.normal = Dressed(d.gravity, d, @)]
      h == Fit(n, n.max.h + n.defect)
      m == IF u.maximized
           THEN [n EXCEPT !.maximized = TRUE, !.max.h = h, !.defect = @ + n.max.h - h]
           ELSE n
      f == [m EXCEPT !.frame = Relative(Current(m), new)]
      s == IF u.sticky /\ ~OnPage(f.frame) THEN Stuck([f EXCEPT !.sticky = FALSE], new) ELSE f
      dir == IF u.titleDirUsed THEN s.dir ELSE u.shadeDir
      big == IF s.maximized THEN s.max ELSE s.frame
  IN IF ~u.shaded THEN s
     ELSE UpdateAbsolute([s EXCEPT !.shaded = TRUE, !.shadeDir = dir,
                                   !.frame = Shade(s, dir, big)], new)

---------------------------------------------------------------------------
(* Histories.  A place is the point that the gravity keeps, on whatever page *)
(* it is, and the height of the client.                                     *)

Place(gravity, u, g) ==
  [ref |-> (g.y + Div((gravity + 1) * (g.h - 1), 2)) % DisplayHeight,
   h |-> g.h - Total(u)]
Home(u) == Place(u.gravity, u, u.normal)
There(u) == Place(-1, u, u.max)
Nowhere == [ref |-> 0, h |-> 0]

\* The maximized geometry counts while the window has it, or will have it again
\* when it no longer fills the screen.
Remembered(u, place) ==
  IF u.full THEN IF u.saved.wasMax THEN there ELSE Nowhere
  ELSE IF u.maximized THEN place ELSE Nowhere

\* The window becomes u, which is where the user or the client wanted it ...
Put(u) ==
  /\ w' = u
  /\ home' = IF u.maximized THEN home ELSE Home(u)
  /\ there' = Remembered(u, There(u))
\* ... or which is to be where it was.
Keep(u) == w' = u /\ home' = home /\ there' = Remembered(u, there)
\* ... or which is made again as it was, as high as it may be now.
Remake(u) ==
  /\ w' = u /\ home' = home
  /\ there' = Remembered(u, [there EXCEPT !.h = Fit(u, w.max.h + w.defect) - Total(u)])

\* After these steps of the code a window may be elsewhere; see README.md.
Strays(condition) == strayed' = (strayed \/ condition)
Operation == steps < MaxSteps /\ steps' = steps + 1
Odd(u) == u.gravity = 0 /\ Total(u) % 2 = 1

---------------------------------------------------------------------------
(* The window is mapped for the first time and every operation on it.       *)

\* AddWindow without a session: the size is made to fit around the place that
\* the placement chose.
Init ==
  \E gravity \in Gravities, s \in Styles, y \in Targets, h \in Heights :
    LET u == Decorated(
               [normal |-> NoRectangle, max |-> NoRectangle, frame |-> NoRectangle,
                offset |-> 0, defect |-> 0, gravity |-> gravity, style |-> s,
                limit |-> s.max, border |-> 0, unshaped |-> 0, title |-> 0, dir |-> s.dir,
                maximized |-> FALSE, shaded |-> FALSE, shadeDir |-> "N",
                titleDirUsed |-> TRUE, sticky |-> FALSE, shaped |-> FALSE,
                full |-> FALSE, saved |-> NothingSaved])
        n == UpdateAbsolute(
               [u EXCEPT !.frame = Constrained(u, [y |-> y, h |-> h + Total(u)])], 0)
    IN w = n /\ Vy = 0 /\ home = Home(n) /\ there = Nowhere /\ strayed = FALSE /\ steps = 0

UserMoves ==
  /\ Operation
  /\ \E y \in Targets : Put(Moved(w, Vy, y))
  /\ UNCHANGED <<Vy, strayed>>

UserMovesToPage ==
  /\ Operation
  /\ \E p \in Pages : Keep(MovedToPage(w, Vy, p))
  /\ UNCHANGED <<Vy, strayed>>

\* Resize and ResizeMaximize; a window that fills the screen stays maximized.
UserResizes ==
  /\ Operation
  /\ \E h \in Heights, maximize \in BOOLEAN :
       LET r == ResizedTo(w, Vy, h)
       IN Put(IF w.full \/ maximize THEN AsMaximized(w, r, Vy, TRUE) ELSE r)
  /\ UNCHANGED <<Vy, strayed>>

UserResizesAndMoves ==
  /\ Operation
  /\ \E y \in Targets, h \in Heights, maximize \in BOOLEAN :
       LET r == ResizedMoved(w, Vy, [y |-> y, h |-> Fit(Unset(w), h + Total(w))])
       IN Put(IF w.full \/ maximize THEN AsMaximized(w, r, Vy, TRUE) ELSE r)
  /\ UNCHANGED <<Vy, strayed>>

\* Maximize, with the height in percent of the screen; 0 keeps the height.
Maximize(percent) ==
  LET g == IF percent = 0 THEN w.frame
           ELSE [y |-> PageOffset(w.frame, Vy), h |-> Div(percent * DisplayHeight, 100)]
  IN /\ Operation
     /\ Put(Maximized(w, Vy, g, TRUE))
     /\ UNCHANGED <<Vy, strayed>>

Unmaximize ==
  /\ Operation
  /\ w.maximized
  /\ \E wider \in BOOLEAN :
       /\ Keep(Unmaximized(w, Vy, wider))
       /\ Strays(\/ Odd(w) \/ Odd(w')
                 \/ /\ w.full /\ w.saved.wasMax
                    /\ \/ ~Near(w')
                       \/ ~wider /\ w.saved.max.h - Total(w') = w.max.h - Total(w))
  /\ UNCHANGED Vy

\* Maximize forget: what was maximized becomes the normal geometry.
Forget ==
  /\ Operation
  /\ w.maximized
  /\ \E wider \in BOOLEAN : w' = Unmaximized([w EXCEPT !.normal = w.max], Vy, wider)
  /\ home' = Home(w') /\ there' = Remembered(w', there)
  /\ Strays(w.full /\ w.saved.wasMax)
  /\ UNCHANGED Vy

\* WindowShade with a direction, or with none and perhaps a switch, which may
\* shade a shaded window again; Last stands for the last direction if there was
\* one.
Shading(dir, again) ==
  /\ Operation
  /\ ~w.full
  /\ Keep(IF w.shaded /\ (~again \/ dir = w.shadeDir) THEN Unshade(w, Vy)
          ELSE ShadedTo([w EXCEPT !.titleDirUsed = FALSE], Vy, dir))
  /\ UNCHANGED <<Vy, strayed>>
Toggle ==
  /\ Operation
  /\ ~w.full
  /\ Keep(IF w.shaded THEN Unshade(w, Vy)
          ELSE ShadedTo([w EXCEPT !.titleDirUsed = TRUE], Vy, w.dir))
  /\ UNCHANGED <<Vy, strayed>>

UserPages ==
  /\ Operation
  /\ \E p \in Pages \ {Vy} : Vy' = p /\ Keep(Paged(w, Vy, p))
  /\ UNCHANGED strayed

UserSticks ==
  /\ Operation
  /\ Keep(IF w.sticky THEN [w EXCEPT !.sticky = FALSE] ELSE Stuck(w, Vy))
  /\ UNCHANGED <<Vy, strayed>>

\* EWMH_fullscreen, on a client's request or the user's.
FullScreen ==
  /\ Operation
  /\ Keep(FillScreen(w, Vy))
  /\ Strays(w.full \/ Odd(w))
  /\ UNCHANGED Vy

\* flush_window_updates after a Style command that changes what a style says.
StyleChange ==
  /\ Operation
  /\ \E s \in Styles \ {w.style} :
       LET changes ==
             {c \in {"decoration", "title", "limits"} :
                CASE c = "decoration" -> s.border # w.style.border \/ s.title # w.style.title
                  [] c = "title" -> s.dir # w.style.dir
                  [] OTHER -> s.max # w.style.max}
           refit == changes # {"decoration"}
       IN /\ w' = ApplyUpdates([w EXCEPT !.style = s], Vy, changes)
          /\ home' = IF refit THEN [home EXCEPT !.h = Home(w').h] ELSE home
          /\ there' = Remembered(w', IF ~refit THEN there
                                     ELSE IF w.gravity = -1 THEN [there EXCEPT !.h = There(w').h]
                                     ELSE There(w'))
          /\ Strays(\/ "limits" \in changes /\ (w.shaded \/ w.maximized)
                    \/ refit /\ w.gravity = 0
                    \/ "title" \in changes /\ w.maximized /\ ~Near(w')
                    \/ w.full /\ w.saved.wasMax
                    \/ Odd(w) \/ Odd(w'))
  /\ UNCHANGED Vy

\* HandleShapeNotify.
Reshape ==
  /\ Operation
  /\ Keep(Reshaped(w, Vy))
  /\ Strays(\/ w.maximized \/ Odd(w) \/ Odd(w')
            \/ w.shaped /\ w.unshaped # w.style.border)
  /\ UNCHANGED Vy

\* A client asks for a place, a height, or something on the other axis.
ConfigureRequest ==
  /\ Operation
  /\ \E ask \in SUBSET {"y", "h", "other"} \ {{}}, y \in Targets, h \in Heights,
        useGravity \in BOOLEAN :
       LET g == Unshaded(w, Vy)
           gravity == IF ~w.shaded THEN w.gravity
                      ELSE CASE w.shadeDir = "N" -> -1
                             [] w.shadeDir \in {"S", "SW"} -> 1
                             [] OTHER -> w.gravity
           defect == IF w.maximized THEN w.defect ELSE 0
           asked == IF "h" \in ask /\ ~w.maximized THEN h + Total(w) ELSE g.h
           fit == Fit(w, asked + defect)
           moves == "y" \in ask /\ ~w.shaded
           shift == IF useGravity THEN Div((gravity + 1) * Total(w), 2) ELSE Top(w)
           new == IF moves THEN [y |-> y - shift, h |-> fit]
                  ELSE Resized(gravity, g, fit - g.h)
           d == IF w.maximized THEN [w EXCEPT !.defect = asked + defect - fit] ELSE w
           s == IF w.shaded
                THEN FrameSetup([d EXCEPT !.normal = new], Vy, Shade(w, w.shadeDir, new))
                ELSE FrameSetup(d, Vy, new)
           changes == new # g \/ "other" \in ask
       IN /\ Put(IF changes THEN AdjustOffset(UpdateAbsolute(s, Vy)) ELSE d)
          /\ Strays(w.shaded /\ w.maximized /\ changes)
  /\ UNCHANGED Vy

\* fvwm is restarted: it reads back what it saved, with the first page shown,
\* and then shows the page that was shown.
Restart ==
  /\ Operation
  /\ ~w.full
  /\ Remake(Paged(Restored(Saved(w, Vy), 0), 0, Vy))
  /\ Strays((w.sticky /\ w.maximized) \/ Odd(w))
  /\ UNCHANGED Vy

\* The session is restored and the client shows its window when some page is
\* shown.
SessionRestore ==
  /\ Operation
  /\ ~w.full
  /\ \E p \in Pages :
       /\ Vy' = p
       /\ Remake(Restored(Saved(w, Vy), p))
       /\ Strays(w.sticky \/ (w.shaded /\ w.maximized /\ p # 0) \/ Odd(w))

Next ==
  \/ UserMoves \/ UserMovesToPage \/ UserResizes \/ UserResizesAndMoves
  \/ \E percent \in {0, 50, 100} : Maximize(percent)
  \/ Unmaximize \/ Forget \/ Toggle
  \/ \E dir \in ShadeDirs, again \in BOOLEAN : Shading(dir, again)
  \/ UserPages \/ UserSticks \/ FullScreen \/ StyleChange \/ Reshape
  \/ ConfigureRequest \/ Restart \/ SessionRestore

Spec == Init /\ [][Next]_vars

---------------------------------------------------------------------------
Rectangles == [y : Int, h : Int]

\* The three geometries are rectangles with a height above zero, as the X
\* server demands of a frame (get_shaded_geometry, geometry.c:372, for a window
\* without decoration), except after one of the steps under Strays, and a
\* window that fills the screen is maximized.
TypeOK ==
  /\ w.normal \in Rectangles /\ w.max \in Rectangles /\ w.frame \in Rectangles
  /\ ~strayed => w.normal.h > 0 /\ w.frame.h > 0 /\ (w.maximized => w.max.h > 0)
  /\ w.maximized \in BOOLEAN /\ w.shaded \in BOOLEAN /\ w.full \in BOOLEAN
  /\ w.full => w.maximized
  /\ Vy \in Pages

\* The frame on the screen is always the one that the recorded geometry gives:
\* update_relative_geometry and update_absolute_geometry (geometry.c:579, 594)
\* undo each other after any sequence of operations, so that the frame may be
\* computed from the geometry and the geometry from the frame.
FrameAgrees == ~strayed => w.frame = UpdateRelative(w, Vy)

\* A window stays where the user or its client last put it, and as high: what
\* maximizes and unmaximizes, shades, fills the screen, decorates, reshapes,
\* pages, sticks, saves and restores it does not move the point that its
\* gravity keeps within its page, nor change the height of the client; and
\* the same holds of the place of the maximized window while it has one.
PlaceKept ==
  ~strayed => /\ Home(w) = home
              /\ w.maximized /\ ~w.full => There(w) = there

\* geometry.c:639: "make sure a maximized window and it's normal version are
\* never a page or more apart", but for the distance at which it was maximized,
\* wherever the window is moved.
NeverAPageApart ==
  ~strayed /\ w.maximized => Near(w)

=============================================================================
