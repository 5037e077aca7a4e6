------------------------ MODULE WindowGeometryProofs ------------------------
(* The frame of a window on the screen always agrees with the geometry that  *)
(* is recorded for it (WindowGeometry!FrameAgrees), for every display, desk,  *)
(* style, size hint and gravity and for any number of operations.  What the  *)
(* pure functions return comes first, then what each operation leaves, and   *)
(* last the invariant.                                                       *)
EXTENDS WindowGeometry, TLAPS

\* The windows: the types of the fields of FvwmWindow that are modelled.
Windows ==
  [normal : Rectangles, max : Rectangles, frame : Rectangles, offset : Int, defect : Int,
   gravity : {-1, 0, 1}, style : Styles, limit : Nat, border : Nat, unshaped : Nat,
   title : Nat, dir : {"N", "S", "W"}, maximized : BOOLEAN, shaded : BOOLEAN,
   shadeDir : {"N", "S", "SW", "W"}, titleDirUsed : BOOLEAN, sticky : BOOLEAN,
   shaped : BOOLEAN, full : BOOLEAN,
   saved : [max : Rectangles, wasMax : BOOLEAN, wasShaded : BOOLEAN]]

\* The frame is the one that the geometry gives.
Agrees(u, v) == u.frame = UpdateRelative(u, v)

\* u is like t in everything but its geometry.
SameManner(u, t) ==
  /\ u.maximized = t.maximized /\ u.full = t.full /\ u.sticky = t.sticky
  /\ u.shaded = t.shaded /\ u.shadeDir = t.shadeDir /\ u.titleDirUsed = t.titleDirUsed
  /\ u.border = t.border /\ u.title = t.title /\ u.dir = t.dir /\ u.unshaped = t.unshaped
  /\ u.shaped = t.shaped /\ u.gravity = t.gravity /\ u.style = t.style /\ u.limit = t.limit
  /\ u.saved = t.saved

\* Likeness is transitive.
LEMMA Manners ==
  ASSUME NEW u, NEW t, NEW s, SameManner(u, t), SameManner(t, s)
  PROVE  SameManner(u, s)
BY DEF SameManner

\* A window whose frame is set.
LEMMA FrameIs ==
  ASSUME NEW u \in Windows, NEW g \in Rectangles, NEW R, R = [u EXCEPT !.frame = g]
  PROVE  /\ R \in Windows /\ R.frame = g /\ R.normal = u.normal /\ R.max = u.max
         /\ R.offset = u.offset /\ R.defect = u.defect /\ SameManner(R, u)
BY DEF Windows, SameManner

\* A window whose normal geometry is set.
LEMMA NormalIs ==
  ASSUME NEW u \in Windows, NEW g \in Rectangles, NEW R, R = [u EXCEPT !.normal = g]
  PROVE  /\ R \in Windows /\ R.frame = u.frame /\ R.normal = g /\ R.max = u.max
         /\ R.offset = u.offset /\ R.defect = u.defect /\ SameManner(R, u)
BY DEF Windows, SameManner

\* A window whose maximized geometry is set.
LEMMA MaxIs ==
  ASSUME NEW u \in Windows, NEW g \in Rectangles, NEW R, R = [u EXCEPT !.max = g]
  PROVE  /\ R \in Windows /\ R.frame = u.frame /\ R.normal = u.normal /\ R.max = g
         /\ R.offset = u.offset /\ R.defect = u.defect /\ SameManner(R, u)
BY DEF Windows, SameManner

\* A window whose offset is set.
LEMMA OffsetIs ==
  ASSUME NEW u \in Windows, NEW x \in Int, NEW R, R = [u EXCEPT !.offset = x]
  PROVE  /\ R \in Windows /\ R.frame = u.frame /\ R.normal = u.normal /\ R.max = u.max
         /\ R.offset = x /\ R.defect = u.defect /\ SameManner(R, u)
BY DEF Windows, SameManner

\* A window whose maximized geometry and defect are set.
LEMMA MaxAndDefectIs ==
  ASSUME NEW u \in Windows, NEW g \in Rectangles, NEW x \in Int,
         NEW R, R = [u EXCEPT !.max = g, !.defect = x]
  PROVE  /\ R \in Windows /\ R.frame = u.frame /\ R.normal = u.normal /\ R.max = g
         /\ R.offset = u.offset /\ R.defect = x /\ SameManner(R, u)
BY DEF Windows, SameManner

\* Setting a rectangle of a window leaves a window.
LEMMA FrameTypes ==
  ASSUME NEW u \in Windows, NEW g \in Rectangles
  PROVE  /\ [u EXCEPT !.frame = g] \in Windows
         /\ [u EXCEPT !.normal = g] \in Windows
         /\ [u EXCEPT !.max = g] \in Windows
BY FrameIs, NormalIs, MaxIs

\* The fields of a window.
LEMMA Fields ==
  ASSUME NEW u \in Windows
  PROVE  /\ u.normal \in Rectangles /\ u.max \in Rectangles /\ u.frame \in Rectangles
         /\ u.offset \in Int /\ u.defect \in Int
         /\ u.gravity \in {-1, 0, 1} /\ u.shadeDir \in {"N", "S", "SW", "W"}
         /\ u.dir \in {"N", "S", "W"} /\ u.border \in Nat /\ u.title \in Nat
         /\ u.unshaped \in Nat /\ u.limit \in Nat /\ u.style \in Styles
         /\ u.maximized \in BOOLEAN /\ u.shaded \in BOOLEAN /\ u.sticky \in BOOLEAN
         /\ u.shaped \in BOOLEAN /\ u.full \in BOOLEAN /\ u.titleDirUsed \in BOOLEAN
         /\ u.saved.max \in Rectangles /\ u.saved.wasMax \in BOOLEAN
         /\ u.saved.wasShaded \in BOOLEAN
BY DEF Windows

\* The fields of a style.
LEMMA StyleFields ==
  ASSUME NEW s \in Styles
  PROVE  s.border \in Nat /\ s.title \in Nat /\ s.dir \in {"N", "S", "W"} /\ s.max \in Nat \ {0}
BY GeometryAssumption

\* A shaded rectangle is a rectangle.
LEMMA ShadeTypes ==
  ASSUME NEW u \in Windows, NEW dir \in {"N", "S", "SW", "W"}, NEW g \in Rectangles
  PROVE  Shade(u, dir, g) \in Rectangles
<1>1. Total(u) \in Nat /\ u.border \in Nat
  BY DEF Windows, Total
<1> QED
  BY <1>1 DEF Shade, Rectangles

\* The current geometry is a rectangle.
LEMMA CurrentTypes ==
  ASSUME NEW u \in Windows
  PROVE  Current(u) \in Rectangles
  BY DEF Windows, Current

\* update_absolute_geometry keeps the types.
LEMMA AbsoluteTypes ==
  ASSUME NEW u \in Windows, NEW v \in Int
  PROVE  UpdateAbsolute(u, v) \in Windows
<1>1. u.frame \in Rectangles /\ Current(u) \in Rectangles
  BY CurrentTypes DEF Windows
<1>2. \A g \in Rectangles : WithCurrent(u, g) \in Windows
  BY FrameTypes DEF WithCurrent
<1> QED
  BY <1>1, <1>2 DEF UpdateAbsolute, Rectangles

\* The height that get_shaded_geometry gives a window.
ShadedHeight(u, dir) ==
  LET rest == IF dir = "SW" THEN 2 * u.border ELSE Total(u)
  IN IF rest = 0 THEN 1 ELSE rest

\* What get_shaded_geometry computes, for each direction.
LEMMA ShadeIs ==
  ASSUME NEW u \in Windows, NEW g \in Rectangles
  PROVE  /\ \A dir \in {"N", "S", "SW"} : Shade(u, dir, g).h = ShadedHeight(u, dir)
         /\ Shade(u, "N", g).y = g.y
         /\ \A dir \in {"S", "SW"} : Shade(u, dir, g).y = g.y + g.h - ShadedHeight(u, dir)
         /\ Shade(u, "W", g) = g
         /\ \A dir : ShadedHeight(u, dir) \in Nat \ {0}
<1>1. Total(u) \in Nat /\ u.border \in Nat
  BY DEF Windows, Total
<1> QED
  BY <1>1 DEF Shade, Rectangles, ShadedHeight

\* Rectangles with the same place and height are equal.
LEMMA SameRectangle ==
  ASSUME NEW g \in Rectangles, NEW k \in Rectangles, g.y = k.y, g.h = k.h
  PROVE  g = k
BY DEF Rectangles

\* A rectangle relative to a page.
LEMMA RelativeIs ==
  ASSUME NEW g \in Rectangles, NEW v \in Int
  PROVE  Relative(g, v) \in Rectangles /\ Relative(g, v).y = g.y - v /\ Relative(g, v).h = g.h
BY DEF Relative, Rectangles

\* What update_absolute_geometry sets, and what it leaves.
LEMMA AbsoluteIs ==
  ASSUME NEW u \in Windows, NEW v \in Int, NEW R, R = UpdateAbsolute(u, v)
  PROVE  /\ R \in Windows /\ R.frame = u.frame /\ SameManner(R, u)
         /\ R.offset = u.offset /\ R.defect = u.defect
         /\ (u.maximized => R.normal = u.normal) /\ (~u.maximized => R.max = u.max)
         /\ Current(R).h = IF u.shaded /\ u.shadeDir # "W" THEN Current(u).h ELSE u.frame.h
         /\ Current(R).y = u.frame.y + v
              + (IF u.shaded /\ u.shadeDir \in {"S", "SW"} THEN u.frame.h - Current(u).h ELSE 0)
<1>1. u.frame \in Rectangles /\ Current(u) \in Rectangles
  BY CurrentTypes DEF Windows
<1>2. PICK g \in Rectangles : R = WithCurrent(u, g)
         /\ g.h = (IF u.shaded /\ u.shadeDir # "W" THEN Current(u).h ELSE u.frame.h)
         /\ g.y = u.frame.y + v
              + (IF u.shaded /\ u.shadeDir \in {"S", "SW"} THEN u.frame.h - Current(u).h ELSE 0)
  BY <1>1 DEF UpdateAbsolute, Rectangles
<1>3. Current(WithCurrent(u, g)) = g
  BY DEF Current, WithCurrent, Windows
<1>4. PICK S : S = WithCurrent(u, g)
  OBVIOUS
<1>5. /\ SameManner(S, u) /\ S.frame = u.frame /\ S.offset = u.offset /\ S.defect = u.defect
      /\ (u.maximized => S.normal = u.normal) /\ (~u.maximized => S.max = u.max)
  BY <1>4, NormalIs, MaxIs DEF WithCurrent
<1> QED
  BY <1>2, <1>3, <1>4, <1>5, AbsoluteTypes

\* update_relative_geometry undoes update_absolute_geometry, if the frame of
\* a shaded window has the height of a shaded window.
LEMMA AbsoluteAgrees ==
  ASSUME NEW u \in Windows, NEW v \in Int,
         u.shaded /\ u.shadeDir # "W" => u.frame.h = ShadedHeight(u, u.shadeDir)
  PROVE  Agrees(UpdateAbsolute(u, v), v)
<1>1. PICK R : R = UpdateAbsolute(u, v)
  OBVIOUS
<1>2. /\ R \in Windows /\ R.frame = u.frame /\ SameManner(R, u)
      /\ Current(R).h = (IF u.shaded /\ u.shadeDir # "W" THEN Current(u).h ELSE u.frame.h)
      /\ Current(R).y = u.frame.y + v
           + (IF u.shaded /\ u.shadeDir \in {"S", "SW"} THEN u.frame.h - Current(u).h ELSE 0)
  BY <1>1, AbsoluteIs
<1>3. PICK g \in Rectangles : g = Relative(Current(R), v)
         /\ g.y = Current(R).y - v /\ g.h = Current(R).h
  BY <1>2, CurrentTypes, RelativeIs
<1>4. u.frame \in Rectangles /\ u.frame.y \in Int /\ u.frame.h \in Int /\ Current(u).h \in Int
  BY CurrentTypes DEF Windows, Rectangles
<1>5. CASE ~u.shaded
  <2>1. g = u.frame
    BY <1>2, <1>3, <1>4, <1>5, SameRectangle
  <2> QED
    BY <1>1, <1>2, <1>3, <1>5, <2>1 DEF Agrees, UpdateRelative, SameManner
<1>6. CASE u.shaded
  <2>1. UpdateRelative(R, v) = Shade(R, u.shadeDir, g)
    BY <1>2, <1>3, <1>6 DEF UpdateRelative, SameManner
  <2>2. ShadedHeight(R, u.shadeDir) = ShadedHeight(u, u.shadeDir)
    BY <1>2 DEF SameManner, ShadedHeight, Total
  <2>3. PICK k \in Rectangles : k = Shade(R, u.shadeDir, g)
    BY <1>2, ShadeTypes DEF Windows
  <2>4. u.shadeDir \in {"N", "S", "SW", "W"} /\ ShadedHeight(u, u.shadeDir) \in Nat
    BY ShadeIs DEF Windows
  <2>5. k.h = u.frame.h /\ k.y = u.frame.y
    BY <1>2, <1>3, <1>4, <1>6, <2>2, <2>3, <2>4, ShadeIs
  <2>6. k = u.frame
    BY <1>4, <2>5, SameRectangle
  <2> QED
    BY <1>1, <1>2, <2>1, <2>3, <2>6 DEF Agrees
<1> QED
  BY <1>5, <1>6

\* A height that a frame of the window may have.
Fits(u, g) == u.shaded /\ u.shadeDir # "W" => g.h = ShadedHeight(u, u.shadeDir)

\* A frame that is set up with force.
LEMMA ForceSetupIs ==
  ASSUME NEW u \in Windows, NEW v \in Int, NEW g \in Rectangles, NEW R, R = ForceSetup(u, v, g)
  PROVE  /\ R \in Windows /\ R.frame = g /\ SameManner(R, u)
         /\ Fits(u, g) => Agrees(R, v)
<1>1. PICK t \in Windows : t = [u EXCEPT !.frame = g]
  BY FrameTypes
<1>2. t.frame = g /\ SameManner(t, u)
  BY <1>1 DEF SameManner, Windows
<1>3. R = UpdateAbsolute(t, v)
  BY <1>1 DEF ForceSetup
<1>4. R \in Windows /\ R.frame = t.frame /\ SameManner(R, t)
  BY <1>3, AbsoluteIs
<1>5. ASSUME Fits(u, g) PROVE Agrees(R, v)
  <2>1. t.shaded /\ t.shadeDir # "W" => t.frame.h = ShadedHeight(t, t.shadeDir)
    BY <1>2, <1>5 DEF Fits, SameManner, ShadedHeight, Total
  <2> QED
    BY <1>3, <2>1, AbsoluteAgrees
<1> QED
  BY <1>2, <1>4, <1>5 DEF SameManner

\* A frame that is set up.
LEMMA FrameSetupIs ==
  ASSUME NEW u \in Windows, NEW v \in Int, NEW g \in Rectangles, NEW R, R = FrameSetup(u, v, g)
  PROVE  /\ R \in Windows /\ R.frame = g /\ SameManner(R, u)
<1>1. CASE R = ForceSetup(u, v, g)
  BY <1>1, ForceSetupIs
<1>2. CASE R = [u EXCEPT !.frame = g]
  BY <1>2, FrameTypes DEF SameManner, Windows
<1> QED
  BY <1>1, <1>2 DEF FrameSetup

\* What a step of frame_setup_window and update_absolute_geometry leaves.
LEMMA SettledIs ==
  ASSUME NEW u \in Windows, NEW v \in Int, NEW g \in Rectangles,
         NEW R, R = UpdateAbsolute(FrameSetup(u, v, g), v)
  PROVE  /\ R \in Windows /\ R.frame = g /\ SameManner(R, u)
         /\ Fits(u, g) => Agrees(R, v)
<1>1. PICK t : t = FrameSetup(u, v, g)
  OBVIOUS
<1>2. t \in Windows /\ t.frame = g /\ SameManner(t, u)
  BY <1>1, FrameSetupIs
<1>3. R \in Windows /\ R.frame = t.frame /\ SameManner(R, t)
  BY <1>1, <1>2, AbsoluteIs
<1>4. ASSUME Fits(u, g) PROVE Agrees(R, v)
  <2>1. t.shaded /\ t.shadeDir # "W" => t.frame.h = ShadedHeight(t, t.shadeDir)
    BY <1>2, <1>4 DEF Fits, SameManner, ShadedHeight, Total
  <2> QED
    BY <1>1, <1>2, <2>1, AbsoluteAgrees
<1> QED
  BY <1>2, <1>3, <1>4 DEF SameManner

\* A frame that agrees with the geometry has a fitting height.
LEMMA AgreesFits ==
  ASSUME NEW u \in Windows, NEW v \in Int, Agrees(u, v)
  PROVE  Fits(u, u.frame)
<1>1. PICK g \in Rectangles : g = Relative(Current(u), v)
  BY CurrentTypes, RelativeIs
<1>2. u.shaded => u.frame = Shade(u, u.shadeDir, g)
  BY <1>1 DEF Agrees, UpdateRelative
<1>3. u.shadeDir \in {"N", "S", "SW", "W"}
  BY DEF Windows
<1> QED
  BY <1>2, <1>3, ShadeIs DEF Fits

-----------------------------------------------------------------------------
(* Types of the operators. *)

\* The quotients of the model are integers.
LEMMA Integral ==
  /\ \A a \in Int : Div(a, 2) \in Int
  /\ \A a \in Int : Div(a, HeightInc) \in Int
  /\ \A a \in Int : Div(a, DisplayHeight) \in Int
  /\ \A a \in Int : Mod(a, DisplayHeight) \in Int
  /\ \A a \in Int : Div(a, 100) \in Int
<1>1. ASSUME NEW b \in Nat \ {0}, NEW a \in Int PROVE Div(a, b) \in Int
  BY DEF Div
<1>2. HeightInc \in Nat \ {0} /\ DisplayHeight \in Nat \ {0} /\ 2 \in Nat \ {0} /\ 100 \in Nat \ {0}
  BY GeometryAssumption
<1>3. ASSUME NEW b \in Nat \ {0}, NEW a \in Int, Div(a, b) \in Int
      PROVE  b * Div(a, b) \in Int
  BY <1>3
<1>4. \A a \in Int : Div(a, DisplayHeight) \in Int
  BY <1>1, <1>2
<1>5. \A a \in Int : Mod(a, DisplayHeight) \in Int
  BY <1>2, <1>3, <1>4 DEF Mod
<1> QED
  BY <1>1, <1>2, <1>4, <1>5

\* gravity_resize yields a rectangle.
LEMMA ResizedTypes ==
  ASSUME NEW gravity \in {-1, 0, 1}, NEW g \in Rectangles, NEW dh \in Int
  PROVE  Resized(gravity, g, dh) \in Rectangles
<1>1. dh * (gravity + 1) \in Int /\ g.y \in Int /\ g.h \in Int
  BY DEF Rectangles
<1>2. Div(dh * (gravity + 1), 2) \in Int
  BY <1>1, Integral
<1> QED
  BY <1>1, <1>2 DEF Resized, Rectangles

\* The size of a decoration is a natural number.
LEMMA TotalTypes ==
  ASSUME NEW u \in Windows
  PROVE  Total(u) \in Nat /\ Top(u) \in Nat
BY DEF Windows, Total, Top

\* Geometries with and without decoration are rectangles.
LEMMA NakedTypes ==
  ASSUME NEW gravity \in {-1, 0, 1}, NEW u \in Windows, NEW g \in Rectangles
  PROVE  Naked(gravity, u, g) \in Rectangles /\ Dressed(gravity, u, g) \in Rectangles
<1>1. Total(u) \in Int /\ g.y \in Int /\ g.h \in Int
  BY TotalTypes DEF Rectangles
<1>2. (gravity + 1) * (g.h - 1) \in Int /\ (gravity + 1) * (g.h - Total(u) - 1) \in Int
  BY <1>1
<1>3. /\ Div((gravity + 1) * (g.h - 1), 2) \in Int
      /\ Div((gravity + 1) * (g.h - Total(u) - 1), 2) \in Int
  BY <1>2, Integral
<1>4. Naked(gravity, u, g) \in Rectangles
  BY <1>1, <1>3 DEF Naked, Rectangles
<1> QED
  BY <1>1, <1>4, ResizedTypes DEF Dressed

\* A constrained height is an integer.
LEMMA FitTypes ==
  ASSUME NEW u \in Windows, NEW h \in Int
  PROVE  Fit(u, h) \in Int
<1>1. Total(u) \in Int /\ u.limit \in Int /\ MinHeight \in Int /\ BaseHeight \in Int
      /\ HeightInc \in Int
  BY TotalTypes, GeometryAssumption DEF Windows
<1>2. ASSUME NEW x \in Int, NEW min \in Int, NEW max \in Int
      PROVE  Stepped(Within(x, min, max), min, max) \in Int
  <2>1. PICK y \in Int : y = Within(x, min, max)
    BY DEF Within
  <2>2. Div(y - BaseHeight, HeightInc) \in Int
    BY <1>1, Integral
  <2>3. Div(y - BaseHeight, HeightInc) * HeightInc \in Int
    BY <1>1, <2>2
  <2> QED
    BY <1>1, <2>1, <2>3 DEF Stepped
<1>3. PICK t \in Int, max \in Int : t = Total(u) /\ max = u.limit - t
  BY <1>1
<1>4. PICK min \in Int : min = IF MinHeight > max THEN max ELSE MinHeight
  BY <1>1
<1>5. Fit(u, h) = t + Stepped(Within(h - t, min, max), min, max)
  BY <1>3, <1>4 DEF Fit
<1>6. Stepped(Within(h - t, min, max), min, max) \in Int
  BY <1>2
<1> QED
  BY <1>5, <1>6

\* A decorated window is a window.
LEMMA DecoratedTypes ==
  ASSUME NEW u \in Windows
  PROVE  Decorated(u) \in Windows /\ Decorated(u).shaded = u.shaded
<1>1. u.style.border \in Nat /\ u.style.title \in Nat /\ u.style.dir \in {"N", "S", "W"}
  BY GeometryAssumption DEF Windows
<1> QED
  BY <1>1 DEF Decorated, Windows

\* gravity_constrain_size yields a rectangle.
LEMMA ConstrainedTypes ==
  ASSUME NEW u \in Windows, NEW g \in Rectangles
  PROVE  Constrained(u, g) \in Rectangles
<1>1. g.h \in Int /\ u.gravity \in {-1, 0, 1}
  BY DEF Rectangles, Windows
<1>2. Fit(u, g.h) - g.h \in Int
  BY <1>1, FitTypes
<1> QED
  BY <1>1, <1>2, ResizedTypes DEF Constrained

\* ... and a window when it updates the defect.
LEMMA ConstrainedMaxTypes ==
  ASSUME NEW u \in Windows
  PROVE  ConstrainedMax(u) \in Windows /\ ConstrainedMax(u).shaded = u.shaded
<1>1. u.max \in Rectangles /\ u.gravity \in {-1, 0, 1} /\ u.defect \in Int
  BY DEF Windows
<1>2. PICK g \in Rectangles : g = Resized(u.gravity, u.max, u.defect)
  BY <1>1, ResizedTypes
<1>3. PICK h \in Int : h = Fit(u, g.h)
  BY FitTypes DEF Rectangles
<1>5. g.h - h \in Int /\ h - g.h \in Int
  BY DEF Rectangles
<1>4. PICK k \in Rectangles : k = Resized(u.gravity, g, h - g.h)
  BY <1>1, <1>5, ResizedTypes
<1>6. PICK R : R = [u EXCEPT !.max = k, !.defect = g.h - h]
  OBVIOUS
<1>7. R = ConstrainedMax(u)
  BY <1>2, <1>3, <1>4, <1>6 DEF ConstrainedMax
<1>8. R \in Windows /\ SameManner(R, u)
  BY <1>5, <1>6, MaxAndDefectIs
<1> QED
  BY <1>7, <1>8 DEF SameManner

\* The frame that follows from the geometry is a rectangle.
LEMMA RelativeTypes ==
  ASSUME NEW u \in Windows, NEW v \in Int
  PROVE  UpdateRelative(u, v) \in Rectangles /\ Unshaded(u, v) \in Rectangles
<1>1. Relative(Current(u), v) \in Rectangles
  BY CurrentTypes, RelativeIs
<1>2. u.shadeDir \in {"N", "S", "SW", "W"} /\ u.frame \in Rectangles
  BY DEF Windows
<1>3. Shade(u, u.shadeDir, Relative(Current(u), v)) \in Rectangles
  BY <1>1, <1>2, ShadeTypes
<1> QED
  BY <1>1, <1>2, <1>3 DEF UpdateRelative, Unshaded

\* A window whose decoration changes is a window.
LEMMA RedecoratedTypes ==
  ASSUME NEW u \in Windows
  PROVE  Redecorated(u) \in Windows /\ Redecorated(u).shaded = u.shaded
<1>1. PICK d \in Windows : d = Decorated(u)
  BY DecoratedTypes
<1>2. d.normal = u.normal /\ d.max = u.max /\ d.shaded = u.shaded
  BY <1>1 DEF Decorated, Windows
<1>3. u.normal \in Rectangles /\ u.max \in Rectangles /\ u.gravity \in {-1, 0, 1} /\ -1 \in {-1, 0, 1}
  BY DEF Windows
<1>4. PICK n \in Rectangles : n = Dressed(u.gravity, d, Naked(u.gravity, u, u.normal))
  BY <1>3, NakedTypes
<1>5. PICK x \in Rectangles :
        x = IF u.maximized THEN Dressed(-1, d, Naked(-1, u, u.max)) ELSE u.max
  BY <1>3, NakedTypes
<1>6. Redecorated(u) = [d EXCEPT !.normal = n, !.max = x]
  <2>1. /\ Redecorated(u) = [d EXCEPT !.normal = Dressed(u.gravity, d, Naked(u.gravity, u, d.normal)),
              !.max = IF u.maximized THEN Dressed(-1, d, Naked(-1, u, d.max)) ELSE d.max]
    BY <1>1 DEF Redecorated, Windows
  <2> QED
    BY <1>2, <1>4, <1>5, <2>1
<1> QED
  BY <1>2, <1>6 DEF Windows

\* A window whose title moves is a window.
LEMMA TitleMovedTypes ==
  ASSUME NEW u \in Windows
  PROVE  TitleMoved(u) \in Windows /\ TitleMoved(u).shaded = u.shaded
<1>1. u.style.dir \in {"N", "S", "W"}
  BY Fields, StyleFields
<1>2. PICK d : d = [u EXCEPT !.dir = u.style.dir]
  OBVIOUS
<1>3. d \in Windows /\ d.shaded = u.shaded
  BY <1>1, <1>2 DEF Windows
<1>d. d.normal \in Rectangles /\ d.max \in Rectangles /\ d.gravity \in {-1, 0, 1}
  BY <1>3, Fields
<1>4. PICK dh \in Int : dh = Total(d) - Total(u)
  BY <1>3, TotalTypes
<1>5. PICK n \in Rectangles : n = Constrained(d, Resized(d.gravity, d.normal, dh))
  BY <1>3, <1>d, ResizedTypes, ConstrainedTypes
<1>6. PICK e : e = [d EXCEPT !.normal = n]
  OBVIOUS
<1>e. e \in Windows /\ e.shaded = u.shaded /\ e.max = d.max
  BY <1>3, <1>6, NormalIs DEF SameManner
<1>7. PICK x \in Rectangles : x = Resized(d.gravity, e.max, dh)
  BY <1>d, <1>e, ResizedTypes
<1>8. PICK f : f = [e EXCEPT !.max = x]
  OBVIOUS
<1>f. f \in Windows /\ f.shaded = u.shaded
  BY <1>e, <1>8, MaxIs DEF SameManner
<1>9. TitleMoved(u) = IF ~u.maximized THEN e ELSE ConstrainedMax(f)
  BY <1>2, <1>4, <1>5, <1>6, <1>7, <1>8 DEF TitleMoved
<1>10. ConstrainedMax(f) \in Windows /\ ConstrainedMax(f).shaded = f.shaded
  BY <1>f, ConstrainedMaxTypes
<1> QED
  BY <1>e, <1>f, <1>9, <1>10

\* A window with other limits is a window.
LEMMA LimitedTypes ==
  ASSUME NEW u \in Windows
  PROVE  Limited(u) \in Windows /\ Limited(u).shaded = u.shaded
<1>1. u.style.max \in Nat
  BY Fields, StyleFields
<1>2. PICK d : d = [u EXCEPT !.limit = u.style.max]
  OBVIOUS
<1>d. d \in Windows /\ d.shaded = u.shaded
  BY <1>1, <1>2 DEF Windows
<1>3. PICK n \in Rectangles : n = Constrained(d, d.normal)
  BY <1>d, Fields, ConstrainedTypes
<1>4. PICK e : e = [d EXCEPT !.normal = n]
  OBVIOUS
<1>e. e \in Windows /\ e.shaded = u.shaded
  BY <1>d, <1>4, NormalIs DEF SameManner
<1>5. Limited(u) = IF u.maximized THEN ConstrainedMax(e) ELSE e
  BY <1>2, <1>3, <1>4 DEF Limited
<1>6. ConstrainedMax(e) \in Windows /\ ConstrainedMax(e).shaded = e.shaded
  BY <1>e, ConstrainedMaxTypes
<1> QED
  BY <1>e, <1>5, <1>6

\* The offset that keeps the distance of the geometries.
LEMMA OffsetTypes ==
  ASSUME NEW u \in Windows, NEW old \in Windows
  PROVE  OffsetKept(old, u).offset \in Int
         /\ OffsetKept(old, u) = [u EXCEPT !.offset = OffsetKept(old, u).offset]
<1>1. /\ u.normal.y \in Int /\ u.max.y \in Int /\ u.offset \in Int
      /\ old.normal.y \in Int /\ old.max.y \in Int
  BY DEF Windows, Rectangles
<1> QED
  BY <1>1 DEF OffsetKept, Windows

\* The first half of apply_window_updates leaves a window.
LEMMA DecoratingTypes ==
  ASSUME NEW u \in Windows, NEW changes
  PROVE  Decorating(u, changes) \in Windows /\ Decorating(u, changes).shaded = u.shaded
<1>1. PICK r \in Windows : r = (IF "decoration" \in changes THEN Redecorated(u) ELSE u)
        /\ r.shaded = u.shaded /\ r.max \in Rectangles
  BY RedecoratedTypes DEF Windows
<1>2. PICK t \in Windows : t = (IF "title" \in changes THEN TitleMoved(r) ELSE r)
        /\ t.shaded = u.shaded
  BY <1>1, TitleMovedTypes
<1>3. PICK q \in Windows : q = [t EXCEPT !.max = r.max]
  BY <1>1, FrameTypes
<1>4. PICK x \in Int : x = OffsetKept(u, q).offset
  BY OffsetTypes
<1>5. PICK e : e = [t EXCEPT !.offset = x]
  OBVIOUS
<1>e. e \in Windows /\ e.shaded = t.shaded
  BY <1>5, OffsetIs DEF SameManner
<1>6. Decorating(u, changes) =
        IF u.maximized /\ "decoration" \in changes THEN e ELSE t
  BY <1>1, <1>2, <1>3, <1>4, <1>5 DEF Decorating
<1> QED
  BY <1>2, <1>e, <1>6

-----------------------------------------------------------------------------
(* What the operations leave: windows whose frame agrees with the geometry. *)

\* A window whose shade follows its title.
LEMMA FollowTitleIs ==
  ASSUME NEW u \in Windows, NEW R, R = FollowTitle(u)
  PROVE  /\ R \in Windows /\ R.shaded = u.shaded /\ Current(R) = Current(u)
BY DEF FollowTitle, Windows, Current

\* A frame that is computed from the geometry agrees with it.
LEMMA ReframedAgrees ==
  ASSUME NEW u \in Windows, NEW v \in Int, NEW R, R = Reframed(u, v)
  PROVE  R \in Windows /\ R.shaded = u.shaded /\ Agrees(R, v)
<1>1. PICK f \in Windows : f = (IF u.shaded THEN FollowTitle(u) ELSE u) /\ f.shaded = u.shaded
  BY FollowTitleIs
<1>2. PICK g \in Rectangles : g = UpdateRelative(f, v)
  BY RelativeTypes
<1>3. R = [f EXCEPT !.frame = g]
  BY <1>1, <1>2 DEF Reframed
<1>4. /\ R \in Windows /\ R.frame = g /\ SameManner(R, f)
      /\ R.normal = f.normal /\ R.max = f.max
  BY <1>3, FrameIs
<1>5. Current(R) = Current(f) /\ R.shaded = f.shaded /\ R.shadeDir = f.shadeDir
      /\ R.border = f.border /\ Total(R) = Total(f)
  BY <1>4 DEF Current, SameManner, Total
<1>6. UpdateRelative(R, v) = UpdateRelative(f, v)
  BY <1>5 DEF UpdateRelative, Shade
<1> QED
  BY <1>1, <1>2, <1>4, <1>5, <1>6 DEF Agrees

\* Changes after which the frame is computed anew.
Reframes(changes) == changes \cap {"decoration", "title"} # {}

\* After apply_window_updates the frame agrees with the geometry, unless the
\* limits of a shaded window change.
LEMMA UpdatesAgree ==
  ASSUME NEW u \in Windows, NEW v \in Int, NEW changes, NEW R, R = ApplyUpdates(u, v, changes)
  PROVE  /\ R \in Windows /\ (R.shaded <=> u.shaded)
         /\ ("limits" \in changes => ~u.shaded)
              /\ (Agrees(u, v) \/ Reframes(changes)) => Agrees(R, v)
<1>1. PICK d : d = (IF ~Reframes(changes) THEN u ELSE Reframed(Decorating(u, changes), v))
  OBVIOUS
<1>d. /\ d \in Windows /\ (d.shaded <=> u.shaded)
      /\ Agrees(u, v) \/ Reframes(changes) => Agrees(d, v)
  BY <1>1, DecoratingTypes, ReframedAgrees
<1>r. R = IF "limits" \in changes THEN FrameLimited(Limited(d), v)
          ELSE ForceSetup(d, v, d.frame)
  BY <1>1 DEF ApplyUpdates, Reframes
<1>2. CASE "limits" \notin changes
  <2>1. d.frame \in Rectangles /\ R = ForceSetup(d, v, d.frame)
    BY <1>d, <1>r, <1>2, Fields
  <2>2. R \in Windows /\ SameManner(R, d) /\ (Fits(d, d.frame) => Agrees(R, v))
    BY <1>d, <2>1, ForceSetupIs
  <2>3. Agrees(d, v) => Agrees(R, v)
    BY <1>d, <2>2, AgreesFits
  <2>4. R.shaded = d.shaded
    BY <2>2 DEF SameManner
  <2> QED
    BY <1>d, <2>2, <2>3, <2>4
<1>3. CASE "limits" \in changes
  <2>1. PICK e : e = Limited(d)
    OBVIOUS
  <2>e. e \in Windows /\ e.shaded = d.shaded /\ e.frame \in Rectangles
    BY <1>d, <2>1, LimitedTypes, Fields
  <2>2. PICK g \in Rectangles : g = Constrained(e, e.frame)
    BY <2>e, ConstrainedTypes
  <2>3. R = ForceSetup(e, v, g)
    BY <1>r, <1>3, <2>1, <2>2 DEF FrameLimited
  <2>4. R \in Windows /\ SameManner(R, e) /\ (Fits(e, g) => Agrees(R, v))
    BY <2>e, <2>3, ForceSetupIs
  <2>5. ~e.shaded => Fits(e, g)
    BY DEF Fits
  <2>6. R.shaded = e.shaded
    BY <2>4 DEF SameManner
  <2> QED
    BY <1>d, <1>3, <2>e, <2>4, <2>5, <2>6
<1> QED
  BY <1>2, <1>3

-----------------------------------------------------------------------------
\* A rectangle at another place.
LEMMA AtIs ==
  ASSUME NEW g \in Rectangles, NEW x \in Int, NEW k, k = [g EXCEPT !.y = x]
  PROVE  k \in Rectangles /\ k.y = x /\ k.h = g.h
BY DEF Rectangles

\* A rectangle of another height.
LEMMA HighIs ==
  ASSUME NEW g \in Rectangles, NEW x \in Int, NEW k, k = [g EXCEPT !.h = x]
  PROVE  k \in Rectangles /\ k.y = g.y /\ k.h = x
BY DEF Rectangles

\* The frame agrees as long as the current geometry is the same.
LEMMA AgreesFrom ==
  ASSUME NEW u \in Windows, NEW t \in Windows, NEW v \in Int, SameManner(t, u),
         Current(t) = Current(u), t.frame = u.frame, Agrees(u, v)
  PROVE  Agrees(t, v)
<1>1. t.shaded = u.shaded /\ t.shadeDir = u.shadeDir /\ t.border = u.border /\ Total(t) = Total(u)
  BY DEF SameManner, Total
<1>2. UpdateRelative(t, v) = UpdateRelative(u, v)
  BY <1>1 DEF UpdateRelative, Shade
<1> QED
  BY <1>2 DEF Agrees

\* maximize_adjust_offset moves no frame.
LEMMA AdjustIs ==
  ASSUME NEW u \in Windows, NEW v \in Int, NEW R, R = AdjustOffset(u)
  PROVE  /\ R \in Windows /\ R.frame = u.frame /\ SameManner(R, u)
         /\ Agrees(u, v) => Agrees(R, v)
<1>1. CASE ~u.maximized
  <2>1. R = u
    BY <1>1 DEF AdjustOffset
  <2> QED
    BY <2>1 DEF SameManner
<1>2. CASE u.maximized
  <2>1. u.normal \in Rectangles /\ u.normal.y \in Int /\ u.normal.h \in Int /\ Apart(u) \in Int
    BY DEF Apart, Rectangles, Windows
  <2>2. Div(Apart(u), DisplayHeight) \in Int /\ DisplayHeight \in Int
    BY <2>1, Integral, GeometryAssumption
  <2>3. PICK x \in Int : x = Div(Apart(u), DisplayHeight) * DisplayHeight
    BY <2>2
  <2>y. PICK y \in Int : y = u.normal.y - x
    BY <2>1
  <2>4. PICK g : g = [u.normal EXCEPT !.y = y]
    OBVIOUS
  <2>g. g \in Rectangles
    BY <2>1, <2>4, AtIs
  <2>5. R = [u EXCEPT !.normal = g]
    BY <1>2, <2>3, <2>y, <2>4 DEF AdjustOffset
  <2>6. R \in Windows /\ R.frame = u.frame /\ R.max = u.max /\ SameManner(R, u)
    BY <2>g, <2>5, NormalIs
  <2>7. Current(R) = Current(u)
    BY <1>2, <2>6 DEF Current, SameManner
  <2> QED
    BY <2>6, <2>7, AgreesFrom
<1> QED
  BY <1>1, <1>2

\* A move keeps the agreement.
LEMMA MovedIs ==
  ASSUME NEW u \in Windows, NEW v \in Int, NEW y \in Int, NEW R, R = Moved(u, v, y)
  PROVE  /\ R \in Windows /\ SameManner(R, u)
         /\ Agrees(u, v) => Agrees(R, v)
<1>1. PICK g : g = [u.frame EXCEPT !.y = y]
  OBVIOUS
<1>g. g \in Rectangles /\ g.h = u.frame.h
  BY <1>1, Fields, AtIs
<1>2. PICK t : t = UpdateAbsolute(FrameSetup(u, v, g), v)
  OBVIOUS
<1>3. t \in Windows /\ SameManner(t, u) /\ (Fits(u, g) => Agrees(t, v))
  BY <1>g, <1>2, SettledIs
<1>4. Agrees(u, v) => Fits(u, g)
  BY <1>g, AgreesFits DEF Fits
<1>5. R = AdjustOffset(t)
  BY <1>1, <1>2 DEF Moved
<1>6. R \in Windows /\ SameManner(R, t) /\ (Agrees(t, v) => Agrees(R, v))
  BY <1>3, <1>5, AdjustIs
<1> QED
  BY <1>3, <1>4, <1>6, Manners

\* A window that is no longer maximized.
LEMMA UnsetIs ==
  ASSUME NEW u \in Windows, NEW R, R = Unset(u)
  PROVE  /\ R \in Windows /\ R.shaded = u.shaded /\ R.shadeDir = u.shadeDir
         /\ R.normal = u.normal /\ R.max = u.max /\ R.frame = u.frame
         /\ \A dir : ShadedHeight(R, dir) = ShadedHeight(u, dir)
BY DEF Unset, Windows, ShadedHeight, Total

\* What is shaded has the height of a shaded window.
LEMMA ShadeFits ==
  ASSUME NEW u \in Windows, NEW t \in Windows, NEW g \in Rectangles,
         u.shaded, t.shadeDir = u.shadeDir,
         ShadedHeight(t, u.shadeDir) = ShadedHeight(u, u.shadeDir)
  PROVE  Fits(t, Shade(u, u.shadeDir, g)) /\ Shade(u, u.shadeDir, g) \in Rectangles
<1>1. u.shadeDir \in {"N", "S", "SW", "W"}
  BY Fields
<1>2. Shade(u, u.shadeDir, g) \in Rectangles
  BY <1>1, ShadeTypes
<1> QED
  BY <1>1, <1>2, ShadeIs DEF Fits

\* __resize_window leaves a frame that agrees.
LEMMA ResizedToIs ==
  ASSUME NEW u \in Windows, NEW v \in Int, NEW h \in Int, NEW R, R = ResizedTo(u, v, h)
  PROVE  R \in Windows /\ Agrees(R, v)
<1>1. PICK n : n = Unset(u)
  OBVIOUS
<1>n. /\ n \in Windows /\ n.shaded = u.shaded /\ n.shadeDir = u.shadeDir
      /\ \A dir : ShadedHeight(n, dir) = ShadedHeight(u, dir)
  BY <1>1, UnsetIs
<1>2. PICK g \in Rectangles : g = Unshaded(u, v)
  BY RelativeTypes
<1>3. Total(u) \in Int /\ g.h \in Int /\ u.gravity \in {-1, 0, 1}
  BY TotalTypes, Fields DEF Rectangles
<1>4. PICK dh \in Int : dh = Fit(u, h + Total(u)) - g.h
  BY <1>3, FitTypes
<1>5. PICK new \in Rectangles : new = Resized(u.gravity, g, dh)
  BY <1>3, ResizedTypes
<1>6. CASE u.shaded
  <2>1. PICK m : m = [n EXCEPT !.normal = new]
    OBVIOUS
  <2>2. m \in Windows /\ SameManner(m, n)
    BY <1>n, <2>1, NormalIs
  <2>3. m.shadeDir = u.shadeDir /\ ShadedHeight(m, u.shadeDir) = ShadedHeight(u, u.shadeDir)
    BY <1>n, <2>2 DEF SameManner, ShadedHeight, Total
  <2>4. PICK f : f = Shade(u, u.shadeDir, new)
    OBVIOUS
  <2>5. Fits(m, f) /\ f \in Rectangles
    BY <1>6, <2>2, <2>3, <2>4, ShadeFits
  <2>6. R = UpdateAbsolute(FrameSetup(m, v, f), v)
    BY <1>1, <1>2, <1>4, <1>5, <1>6, <2>1, <2>4 DEF ResizedTo
  <2> QED
    BY <2>2, <2>5, <2>6, SettledIs
<1>7. CASE ~u.shaded
  <2>1. Fits(n, new)
    BY <1>n, <1>7 DEF Fits
  <2>2. R = UpdateAbsolute(FrameSetup(n, v, new), v)
    BY <1>1, <1>2, <1>4, <1>5, <1>7 DEF ResizedTo
  <2> QED
    BY <1>n, <2>1, <2>2, SettledIs
<1> QED
  BY <1>6, <1>7

\* resize_move_window keeps the agreement.
LEMMA ResizedMovedIs ==
  ASSUME NEW u \in Windows, NEW v \in Int, NEW g \in Rectangles, NEW R, R = ResizedMoved(u, v, g)
  PROVE  R \in Windows /\ (Agrees(u, v) => Agrees(R, v))
<1>1. PICK n : n = Unset(u)
  OBVIOUS
<1>n. /\ n \in Windows /\ n.shaded = u.shaded /\ n.shadeDir = u.shadeDir
      /\ \A dir : ShadedHeight(n, dir) = ShadedHeight(u, dir)
  BY <1>1, UnsetIs
<1>h. PICK h \in Int : h = IF u.shaded THEN u.frame.h ELSE g.h
  BY Fields DEF Rectangles
<1>2. PICK k : k = [g EXCEPT !.h = h]
  OBVIOUS
<1>k. k \in Rectangles /\ k.h = h
  BY <1>2, HighIs
<1>3. R = UpdateAbsolute(FrameSetup(n, v, k), v)
  BY <1>1, <1>h, <1>2 DEF ResizedMoved
<1>4. R \in Windows /\ (Fits(n, k) => Agrees(R, v))
  BY <1>n, <1>k, <1>3, SettledIs
<1>5. Fits(u, u.frame) => Fits(n, k)
  BY <1>n, <1>h, <1>k DEF Fits
<1> QED
  BY <1>4, <1>5, AgreesFits

\* maximize_fvwm_window leaves a frame that agrees.
LEMMA MaximizedIs ==
  ASSUME NEW u \in Windows, NEW v \in Int, NEW g \in Rectangles, NEW constrain,
         NEW R, R = Maximized(u, v, g, constrain)
  PROVE  R \in Windows /\ Agrees(R, v) /\ (R.shaded <=> u.shaded)
<1>1. PICK h \in Int : h = IF constrain THEN Fit(u, g.h) ELSE g.h
  BY FitTypes DEF Rectangles
<1>2. PICK x \in Int : x = g.h - h
  BY DEF Rectangles
<1>3. PICK k : k = [g EXCEPT !.h = h]
  OBVIOUS
<1>k. k \in Rectangles
  BY <1>3, HighIs
<1>4. PICK m : m = [u EXCEPT !.maximized = TRUE, !.defect = x, !.max = k]
  OBVIOUS
<1>m. /\ m \in Windows /\ m.max = k /\ m.shaded = u.shaded /\ m.shadeDir = u.shadeDir
      /\ m.border = u.border /\ m.title = u.title /\ m.dir = u.dir
  BY <1>k, <1>4 DEF Windows
<1>5. PICK f : f = IF u.shaded THEN Shade(u, u.shadeDir, m.max) ELSE m.max
  OBVIOUS
<1>6. ShadedHeight(m, u.shadeDir) = ShadedHeight(u, u.shadeDir)
  BY <1>m DEF ShadedHeight, Total
<1>f. f \in Rectangles /\ Fits(m, f)
  <2>1. CASE u.shaded
    BY <1>k, <1>m, <1>5, <1>6, <2>1, ShadeFits
  <2>2. CASE ~u.shaded
    <3>1. f \in Rectangles
      BY <1>k, <1>m, <1>5, <2>2
    <3>2. Fits(m, f)
      BY <1>m, <2>2 DEF Fits
    <3> QED
      BY <3>1, <3>2
  <2> QED
    BY <2>1, <2>2
<1>7. PICK s : s = UpdateAbsolute(FrameSetup(m, v, f), v)
  OBVIOUS
<1>s. s \in Windows /\ SameManner(s, m) /\ Agrees(s, v)
  BY <1>m, <1>f, <1>7, SettledIs
<1>8. PICK o \in Int : o = s.normal.y - s.max.y
  BY <1>s, Fields DEF Rectangles
<1>9. R = [s EXCEPT !.offset = o]
  BY <1>1, <1>2, <1>3, <1>4, <1>5, <1>7, <1>8 DEF Maximized
<1>10. /\ R \in Windows /\ R.frame = s.frame /\ R.normal = s.normal /\ R.max = s.max
       /\ SameManner(R, s)
  BY <1>s, <1>9, OffsetIs
<1>11. Current(R) = Current(s) /\ R.shaded = s.shaded /\ s.shaded = m.shaded
  BY <1>s, <1>10 DEF Current, SameManner
<1> QED
  BY <1>m, <1>s, <1>10, <1>11, AgreesFrom

\* ... and so does a resize that maximizes.
LEMMA AsMaximizedIs ==
  ASSUME NEW u \in Windows, NEW r \in Windows, NEW v \in Int, NEW constrain,
         NEW R, R = AsMaximized(u, r, v, constrain)
  PROVE  R \in Windows /\ Agrees(R, v)
<1>1. PICK n : n = [r EXCEPT !.normal = u.normal]
  OBVIOUS
<1>2. n \in Windows
  BY <1>1, Fields, NormalIs
<1>3. PICK g \in Rectangles : g = Relative(r.normal, v)
  BY Fields, RelativeIs
<1>4. R = Maximized(n, v, g, constrain)
  BY <1>1, <1>3 DEF AsMaximized
<1> QED
  BY <1>2, <1>4, MaximizedIs

\* CMD_WindowShade leaves a frame that agrees when it shades.
LEMMA ShadedToIs ==
  ASSUME NEW u \in Windows, NEW v \in Int, NEW dir \in {"N", "S", "SW", "W"},
         NEW R, R = ShadedTo(u, v, dir)
  PROVE  R \in Windows /\ Agrees(R, v)
<1>1. PICK g \in Rectangles : g = Unshaded(u, v)
  BY RelativeTypes
<1>2. PICK f \in Rectangles : f = Shade(u, dir, g)
  BY ShadeTypes
<1>3. PICK s : s = [u EXCEPT !.shaded = TRUE, !.shadeDir = dir, !.frame = f]
  OBVIOUS
<1>s. /\ s \in Windows /\ s.frame = f /\ s.shaded /\ s.shadeDir = dir
      /\ s.border = u.border /\ s.title = u.title /\ s.dir = u.dir
  BY <1>3 DEF Windows
<1>4. ShadedHeight(s, dir) = ShadedHeight(u, dir)
  BY <1>s DEF ShadedHeight, Total
<1>5. dir # "W" => f.h = ShadedHeight(u, dir)
  BY <1>2, ShadeIs
<1>6. R = UpdateAbsolute(s, v)
  BY <1>1, <1>2, <1>3 DEF ShadedTo
<1>7. R \in Windows
  BY <1>s, <1>6, AbsoluteIs
<1>8. Agrees(R, v)
  BY <1>s, <1>4, <1>5, <1>6, AbsoluteAgrees
<1> QED
  BY <1>7, <1>8

\* ... and when it unshades.
LEMMA UnshadeIs ==
  ASSUME NEW u \in Windows, NEW v \in Int, NEW R, R = Unshade(u, v)
  PROVE  R \in Windows /\ Agrees(R, v)
<1>1. PICK g \in Rectangles : g = Unshaded(u, v)
  BY RelativeTypes
<1>2. PICK s : s = [u EXCEPT !.shaded = FALSE, !.frame = g]
  OBVIOUS
<1>s. s \in Windows /\ ~s.shaded
  BY <1>2 DEF Windows
<1>3. R = UpdateAbsolute(s, v)
  BY <1>1, <1>2 DEF Unshade
<1>4. R \in Windows
  BY <1>s, <1>3, AbsoluteIs
<1>5. Agrees(R, v)
  BY <1>s, <1>3, AbsoluteAgrees
<1> QED
  BY <1>4, <1>5

\* apply_decor_change leaves a frame that agrees.
LEMMA DecorChangeIs ==
  ASSUME NEW u \in Windows, NEW v \in Int, NEW R, R = ApplyDecorChange(u, v)
  PROVE  R \in Windows /\ Agrees(R, v) /\ (R.shaded <=> u.shaded)
<1>1. R = ApplyUpdates(u, v, {"decoration"}) /\ "limits" \notin {"decoration"}
  BY DEF ApplyDecorChange
<1>2. Reframes({"decoration"})
  BY DEF Reframes
<1> QED
  BY <1>1, <1>2, UpdatesAgree

\* unmaximize_fvwm_window leaves a frame that agrees.
LEMMA UnmaximizedIs ==
  ASSUME NEW u \in Windows, NEW v \in Int, NEW wider, NEW R, R = Unmaximized(u, v, wider)
  PROVE  R \in Windows /\ Agrees(R, v)
<1>1. PICK was : was = u.saved
  OBVIOUS
<1>2. was.wasMax \in BOOLEAN /\ was.max \in Rectangles /\ u.normal \in Rectangles
  BY <1>1, Fields
<1>3. PICK g \in Rectangles : g = Relative(IF was.wasMax THEN was.max ELSE u.normal, v)
  BY <1>2, RelativeIs
<1>4. PICK n : n = [u EXCEPT !.maximized = was.wasMax, !.full = FALSE, !.saved = NothingSaved]
  OBVIOUS
<1>n. n \in Windows
  <2>1. PICK nothing : nothing = NothingSaved
    OBVIOUS
  <2>2. nothing \in [max : Rectangles, wasMax : BOOLEAN, wasShaded : BOOLEAN]
    BY <2>1 DEF NothingSaved, NoRectangle, Rectangles
  <2> QED
    BY <1>2, <1>4, <2>1, <2>2 DEF Windows
<1>5. PICK d : d = IF was.wasMax THEN ApplyDecorChange(n, v) ELSE n
  OBVIOUS
<1>d. d \in Windows
  BY <1>n, <1>5, DecorChangeIs
<1>6. PICK s : s = SetUpAt(d, v, g, wider)
  OBVIOUS
<1>s. s \in Windows
  BY <1>d, <1>6, ForceSetupIs, FrameSetupIs DEF SetUpAt
<1>7. PICK r : r = Reshaded(s, v, was)
  OBVIOUS
<1>r. r \in Windows
  <2>1. PICK t : t = [s EXCEPT !.titleDirUsed = TRUE]
    OBVIOUS
  <2>2. t \in Windows /\ s.dir \in {"N", "S", "SW", "W"}
    BY <1>s, <2>1 DEF Windows
  <2>3. ShadedAgain(s, v) = ShadedTo(t, v, s.dir)
    BY <2>1 DEF ShadedAgain
  <2>4. ShadedAgain(s, v) \in Windows
    BY <2>2, <2>3, ShadedToIs
  <2> QED
    BY <1>s, <1>7, <2>4 DEF Reshaded
<1>8. R = ApplyDecorChange(r, v)
  BY <1>1, <1>3, <1>4, <1>5, <1>6, <1>7 DEF Unmaximized
<1> QED
  BY <1>r, <1>8, DecorChangeIs

\* The offset of a page is an integer.
LEMMA PageOffsetTypes ==
  ASSUME NEW g \in Rectangles, NEW v \in Int
  PROVE  PageOffset(g, v) \in Int
<1>1. Mod(v, DisplayHeight) \in Int /\ Div(g.h, 2) \in Int /\ g.y \in Int
  BY Integral DEF Rectangles
<1>2. PICK x \in Int : x = g.y + Div(g.h, 2) + Mod(v, DisplayHeight)
  BY <1>1
<1>3. Div(x + 1, DisplayHeight) \in Int /\ Div(x, DisplayHeight) \in Int /\ DisplayHeight \in Int
  BY Integral, GeometryAssumption
<1>4. DisplayHeight * (Div(x + 1, DisplayHeight) - 1) \in Int /\ DisplayHeight * Div(x, DisplayHeight) \in Int
  BY <1>3
<1>5. TruncateToMultiple(x, DisplayHeight) \in Int
  BY <1>4 DEF TruncateToMultiple
<1> QED
  BY <1>1, <1>2, <1>5 DEF PageOffset

\* The last half of EWMH_fullscreen leaves a frame that agrees.
LEMMA FillingIs ==
  ASSUME NEW u \in Windows, NEW v \in Int, NEW R, R = Filling(u, v)
  PROVE  R \in Windows /\ Agrees(R, v)
<1>1. PageOffset(u.frame, v) \in Int /\ Top(u) \in Int /\ Total(u) \in Int /\ DisplayHeight \in Int
  BY Fields, PageOffsetTypes, TotalTypes, GeometryAssumption
<1>2. PICK g : g = [y |-> PageOffset(u.frame, v) - Top(u), h |-> DisplayHeight + Total(u)]
  OBVIOUS
<1>g. g \in Rectangles
  BY <1>1, <1>2 DEF Rectangles
<1>3. PICK r : r = ResizedMoved(u, v, g)
  OBVIOUS
<1>4. r \in Windows
  BY <1>g, <1>3, ResizedMovedIs
<1>5. R = AsMaximized(u, r, v, FALSE)
  BY <1>2, <1>3 DEF Filling
<1> QED
  BY <1>4, <1>5, AsMaximizedIs

\* EWMH_fullscreen leaves a frame that agrees.
LEMMA FillScreenIs ==
  ASSUME NEW u \in Windows, NEW v \in Int, NEW R, R = FillScreen(u, v)
  PROVE  R \in Windows /\ Agrees(R, v)
<1>1. PICK saved : saved = [max |-> u.max, wasMax |-> u.maximized, wasShaded |-> u.shaded]
  OBVIOUS
<1>2. PICK s : s = [u EXCEPT !.saved = saved]
  OBVIOUS
<1>s. s \in Windows
  <2>1. saved \in [max : Rectangles, wasMax : BOOLEAN, wasShaded : BOOLEAN]
    BY <1>1, Fields
  <2> QED
    BY <1>2, <2>1 DEF Windows
<1>3. PICK o : o = IF s.shaded THEN Unshade(s, v) ELSE s
  OBVIOUS
<1>o. o \in Windows
  BY <1>s, <1>3, UnshadeIs
<1>4. PICK f : f = [o EXCEPT !.full = TRUE]
  OBVIOUS
<1>f. f \in Windows
  BY <1>o, <1>4 DEF Windows
<1>5. PICK d : d = ApplyDecorChange(f, v)
  OBVIOUS
<1>d. d \in Windows
  BY <1>f, <1>5, DecorChangeIs
<1>6. R = Filling(d, v)
  BY <1>1, <1>2, <1>3, <1>4, <1>5 DEF FillScreen
<1> QED
  BY <1>d, <1>6, FillingIs

\* A place on a page is an integer.
LEMMA PageTypes ==
  ASSUME NEW g \in Rectangles, NEW p \in Int
  PROVE  IntoPage(g, p) \in Int
<1>1. DisplayHeight \in Nat \ {0} /\ g.y \in Int
  BY GeometryAssumption DEF Rectangles
<1>2. g.y % DisplayHeight \in Int
  BY <1>1
<1> QED
  BY <1>1, <1>2 DEF IntoPage

\* A move to a page keeps the agreement.
LEMMA MovedToPageIs ==
  ASSUME NEW u \in Windows, NEW v \in Int, NEW p \in Int, NEW R, R = MovedToPage(u, v, p)
  PROVE  R \in Windows /\ SameManner(R, u) /\ (Agrees(u, v) => Agrees(R, v))
<1>1. PICK y \in Int : y = IntoPage(u.frame, p - v)
  BY Fields, PageTypes
<1>2. CASE u.sticky
  BY <1>2 DEF MovedToPage, SameManner
<1>3. CASE ~u.sticky
  <2>1. R = Moved(u, v, y)
    BY <1>1, <1>3 DEF MovedToPage
  <2> QED
    BY <2>1, MovedIs
<1> QED
  BY <1>2, <1>3

\* A window that sticks or no longer sticks has the same geometry.
LEMMA StickyIs ==
  ASSUME NEW u \in Windows, NEW v \in Int, NEW b \in BOOLEAN, NEW R, R = [u EXCEPT !.sticky = b]
  PROVE  /\ R \in Windows /\ (Agrees(u, v) => Agrees(R, v))
         /\ R.shaded = u.shaded /\ R.maximized = u.maximized
<1>1. /\ R \in Windows /\ R.frame = u.frame /\ R.normal = u.normal /\ R.max = u.max
      /\ R.maximized = u.maximized /\ R.shaded = u.shaded /\ R.shadeDir = u.shadeDir
      /\ R.border = u.border /\ R.title = u.title /\ R.dir = u.dir
  BY DEF Windows
<1>2. Current(R) = Current(u) /\ Total(R) = Total(u)
  BY <1>1 DEF Current, Total
<1>3. UpdateRelative(R, v) = UpdateRelative(u, v)
  BY <1>1, <1>2 DEF UpdateRelative, Shade
<1> QED
  BY <1>1, <1>3 DEF Agrees

\* stick_across_pages keeps the agreement.
LEMMA StuckIs ==
  ASSUME NEW u \in Windows, NEW v \in Int, NEW R, R = Stuck(u, v)
  PROVE  /\ R \in Windows /\ (Agrees(u, v) => Agrees(R, v))
         /\ R.shaded = u.shaded /\ R.maximized = u.maximized
<1>1. PICK t : t = IF OnPage(u.frame) THEN u ELSE MovedToPage(u, v, v)
  OBVIOUS
<1>2. t \in Windows /\ SameManner(t, u) /\ (Agrees(u, v) => Agrees(t, v))
  BY <1>1, MovedToPageIs DEF SameManner
<1>3. t.shaded = u.shaded /\ t.maximized = u.maximized
  BY <1>2 DEF SameManner
<1>4. R = [t EXCEPT !.sticky = TRUE]
  BY <1>1 DEF Stuck
<1> QED
  BY <1>2, <1>3, <1>4, StickyIs

\* Shading commutes with moving.
LEMMA ShadeMoves ==
  ASSUME NEW u \in Windows, NEW dir \in {"N", "S", "SW", "W"}, NEW g \in Rectangles,
         NEW k \in Rectangles, NEW x \in Int, k.y = g.y + x, k.h = g.h
  PROVE  /\ Shade(u, dir, k).y = Shade(u, dir, g).y + x
         /\ Shade(u, dir, k).h = Shade(u, dir, g).h
<1>1. g.y \in Int /\ g.h \in Int
  BY DEF Rectangles
<1>2. ShadedHeight(u, dir) \in Nat
  BY ShadeIs
<1> QED
  BY <1>1, <1>2, ShadeIs

\* MoveViewport keeps the agreement, on the new page.
LEMMA PagedIs ==
  ASSUME NEW u \in Windows, NEW old \in Int, NEW new \in Int, NEW R, R = Paged(u, old, new)
  PROVE  R \in Windows /\ (Agrees(u, old) => Agrees(R, new))
<1>1. u.normal \in Rectangles /\ u.max \in Rectangles /\ u.frame \in Rectangles
      /\ u.shadeDir \in {"N", "S", "SW", "W"} /\ u.shaded \in BOOLEAN
  BY Fields
<1>2. u.normal.y \in Int /\ u.max.y \in Int /\ u.frame.y \in Int
  BY <1>1 DEF Rectangles
<1>3. PICK c \in Rectangles : c = Current(u) /\ c.y \in Int
  BY CurrentTypes DEF Rectangles
<1>4. PICK g \in Rectangles : g = Relative(c, old) /\ g.y = c.y - old /\ g.h = c.h
  BY RelativeIs
<1>5. CASE u.sticky
  <2>y. PICK y \in Int, z \in Int : y = u.normal.y + new - old /\ z = u.max.y + new - old
    BY <1>2
  <2>1. PICK n : n = [u.normal EXCEPT !.y = y]
    OBVIOUS
  <2>n. n \in Rectangles /\ n.y = y /\ n.h = u.normal.h
    BY <1>1, <2>1, AtIs
  <2>2. PICK x : x = [u.max EXCEPT !.y = z]
    OBVIOUS
  <2>x. x \in Rectangles /\ x.y = z /\ x.h = u.max.h
    BY <1>1, <2>2, AtIs
  <2>3. PICK t : t = [u EXCEPT !.normal = n]
    OBVIOUS
  <2>t. /\ t \in Windows /\ SameManner(t, u) /\ t.normal = n /\ t.max = u.max
        /\ t.frame = u.frame
    BY <2>n, <2>3, NormalIs
  <2>4. R = [t EXCEPT !.max = x]
    BY <1>5, <2>y, <2>1, <2>2, <2>3 DEF Paged
  <2>5. /\ R \in Windows /\ SameManner(R, t) /\ R.normal = n /\ R.max = x
        /\ R.frame = u.frame
    BY <2>x, <2>t, <2>4, MaxIs
  <2>6. SameManner(R, u)
    BY <2>t, <2>5, Manners
  <2>7. PICK d \in Rectangles : d = Current(R) /\ d.y = c.y + new - old /\ d.h = c.h
    BY <1>3, <2>y, <2>n, <2>x, <2>5, <2>6 DEF Current, SameManner
  <2>8. PICK k \in Rectangles : k = Relative(d, new) /\ k.y = d.y - new /\ k.h = d.h
    BY RelativeIs
  <2>9. k = g
    BY <1>3, <1>4, <2>7, <2>8, SameRectangle
  <2>10. UpdateRelative(R, new) = UpdateRelative(u, old)
    BY <1>3, <1>4, <2>6, <2>7, <2>8, <2>9 DEF UpdateRelative, SameManner, Shade, Total
  <2> QED
    BY <2>5, <2>10 DEF Agrees
<1>6. CASE ~u.sticky
  <2>1. PICK f : f = [u.frame EXCEPT !.y = u.frame.y + old - new]
    OBVIOUS
  <2>f. f \in Rectangles /\ f.y = u.frame.y + old - new /\ f.h = u.frame.h
    BY <1>1, <1>2, <2>1, AtIs
  <2>2. R = FrameSetup(u, new, f)
    BY <1>6, <2>1 DEF Paged
  <2>3. R = [u EXCEPT !.frame = f]
    BY <2>f, <2>2 DEF FrameSetup
  <2>4. R \in Windows /\ SameManner(R, u) /\ R.normal = u.normal /\ R.max = u.max /\ R.frame = f
    BY <2>f, <2>3, FrameIs
  <2>5. Current(R) = c
    BY <1>3, <2>4 DEF Current, SameManner
  <2>6. PICK k \in Rectangles : k = Relative(c, new) /\ k.y = c.y - new /\ k.h = c.h
    BY RelativeIs
  <2>7. k.y = g.y + (old - new) /\ k.h = g.h /\ old - new \in Int
    BY <1>3, <1>4, <2>6
  <2>8. UpdateRelative(R, new) = IF u.shaded THEN Shade(u, u.shadeDir, k) ELSE k
    BY <2>4, <2>5, <2>6 DEF UpdateRelative, SameManner, Shade, Total
  <2>9. UpdateRelative(u, old) = IF u.shaded THEN Shade(u, u.shadeDir, g) ELSE g
    BY <1>3, <1>4 DEF UpdateRelative
  <2>10. PICK a : a = UpdateRelative(u, old)
    OBVIOUS
  <2>11. PICK b : b = UpdateRelative(R, new)
    OBVIOUS
  <2>12. a \in Rectangles /\ b \in Rectangles
    BY <2>4, <2>10, <2>11, RelativeTypes
  <2>13. b.y = a.y + (old - new) /\ b.h = a.h
    <3>1. CASE u.shaded
      <4>1. /\ Shade(u, u.shadeDir, k).y = Shade(u, u.shadeDir, g).y + (old - new)
            /\ Shade(u, u.shadeDir, k).h = Shade(u, u.shadeDir, g).h
        BY <1>1, <2>7, ShadeMoves
      <4> QED
        BY <2>8, <2>9, <2>10, <2>11, <3>1, <4>1
    <3>2. CASE ~u.shaded
      BY <2>7, <2>8, <2>9, <2>10, <2>11, <3>2
    <3> QED
      BY <3>1, <3>2
  <2>14. ASSUME u.frame = a PROVE f = b
    <3>1. a.y \in Int
      BY <2>12 DEF Rectangles
    <3> QED
      BY <2>f, <2>12, <2>13, <2>14, <3>1, SameRectangle
  <2> QED
    BY <2>4, <2>10, <2>11, <2>14 DEF Agrees
<1> QED
  BY <1>5, <1>6

\* The frame that follows from the geometry has a fitting height.
LEMMA UpdateFits ==
  ASSUME NEW u \in Windows, NEW v \in Int
  PROVE  Fits(u, UpdateRelative(u, v))
<1>1. PICK g \in Rectangles : g = Relative(Current(u), v)
  BY CurrentTypes, RelativeIs
<1>2. u.shadeDir \in {"N", "S", "SW", "W"}
  BY Fields
<1> QED
  BY <1>1, <1>2, ShadeIs DEF Fits, UpdateRelative

\* frame_reshape_border leaves a frame that agrees.
LEMMA ReshapedIs ==
  ASSUME NEW u \in Windows, NEW v \in Int, NEW R, R = Reshaped(u, v)
  PROVE  R \in Windows /\ Agrees(R, v)
<1>1. PICK gravity \in {-1, 0, 1} : gravity = IF u.maximized THEN -1 ELSE u.gravity
  BY Fields
<1>2. PICK b \in Nat : b = IF u.shaped THEN u.unshaped ELSE 0
  BY Fields
<1>3. PICK s : s = [u EXCEPT !.shaped = ~u.shaped, !.border = b]
  OBVIOUS
<1>s. s \in Windows /\ s.shaded = u.shaded
  BY <1>3 DEF Windows
<1>4. PICK n \in Rectangles : n = Naked(gravity, u, Current(u))
  BY CurrentTypes, NakedTypes
<1>5. PICK g \in Rectangles : g = Dressed(gravity, s, n)
  BY <1>s, NakedTypes
<1>6. PICK c : c = WithCurrent(s, g)
  OBVIOUS
<1>c. c \in Windows
  BY <1>s, <1>6, FrameTypes DEF WithCurrent
<1>7. PICK f : f = IF u.shaded THEN FollowTitle(c) ELSE c
  OBVIOUS
<1>f. f \in Windows
  BY <1>c, <1>7, FollowTitleIs
<1>8. PICK x \in Int : x = OffsetKept(u, f).offset /\ OffsetKept(u, f) = [f EXCEPT !.offset = x]
  BY <1>f, OffsetTypes
<1>9. PICK o : o = IF u.maximized THEN OffsetKept(u, f) ELSE f
  OBVIOUS
<1>o. o \in Windows
  BY <1>f, <1>8, <1>9, OffsetIs
<1>10. PICK k \in Rectangles : k = UpdateRelative(o, v) /\ Fits(o, k)
  BY <1>o, RelativeTypes, UpdateFits
<1>11. R = ForceSetup(o, v, k)
  BY <1>1, <1>2, <1>3, <1>4, <1>5, <1>6, <1>7, <1>9, <1>10 DEF Reshaped
<1> QED
  BY <1>o, <1>10, <1>11, ForceSetupIs

\* A saved window has the fields of a window.
LEMMA SavedTypes ==
  ASSUME NEW u \in Windows, NEW v \in Int
  PROVE  Saved(u, v) \in Windows
<1>1. PICK n \in Rectangles : n = Naked(u.gravity, u, u.normal)
  BY Fields, NakedTypes
<1>2. PICK k \in Rectangles : k = IF u.sticky THEN Relative(n, v) ELSE n
  BY RelativeIs
<1>3. PICK R : R = [u EXCEPT !.normal = k]
  OBVIOUS
<1>4. R = Saved(u, v)
  BY <1>1, <1>2, <1>3 DEF Saved
<1> QED
  BY <1>3, <1>4, NormalIs

\* AddWindow leaves a frame that agrees with the geometry of the session.
LEMMA RestoredIs ==
  ASSUME NEW u \in Windows, NEW new \in Int, NEW R, R = Restored(u, new)
  PROVE  R \in Windows /\ Agrees(R, new)
<1>0. u.style.max \in Nat /\ u.shadeDir \in {"N", "S", "SW", "W"}
  BY Fields, StyleFields
<1>1. PICK e : e = [u EXCEPT !.shaded = FALSE, !.maximized = FALSE,
                             !.titleDirUsed = TRUE, !.limit = u.style.max]
  OBVIOUS
<1>e. e \in Windows /\ ~e.shaded
  BY <1>0, <1>1 DEF Windows
<1>2. PICK d : d = Decorated(e)
  OBVIOUS
<1>d. d \in Windows /\ ~d.shaded /\ d.normal \in Rectangles /\ d.gravity \in {-1, 0, 1}
  BY <1>e, <1>2, DecoratedTypes, Fields
<1>3. PICK k \in Rectangles : k = Dressed(d.gravity, d, d.normal)
  BY <1>d, NakedTypes
<1>4. PICK n : n = [d EXCEPT !.normal = k]
  OBVIOUS
<1>n. n \in Windows /\ ~n.shaded
  BY <1>d, <1>4, NormalIs DEF SameManner
<1>5. n.max \in Rectangles /\ n.max.h \in Int /\ n.defect \in Int /\ n.max.h + n.defect \in Int
  BY <1>n, Fields DEF Rectangles
<1>6. PICK h \in Int : h = Fit(n, n.max.h + n.defect)
  BY <1>n, <1>5, FitTypes
<1>7. PICK x \in Int : x = n.defect + n.max.h - h
  BY <1>5
<1>8. PICK g : g = [n.max EXCEPT !.h = h]
  OBVIOUS
<1>g. g \in Rectangles
  BY <1>5, <1>8, HighIs
<1>9. PICK a : a = [n EXCEPT !.maximized = TRUE, !.max = g, !.defect = x]
  OBVIOUS
<1>a. a \in Windows /\ ~a.shaded
  BY <1>n, <1>g, <1>9 DEF Windows
<1>10. PICK m : m = IF u.maximized THEN a ELSE n
  OBVIOUS
<1>m. m \in Windows /\ ~m.shaded
  BY <1>n, <1>a, <1>10
<1>11. PICK r \in Rectangles : r = Relative(Current(m), new)
  BY <1>m, CurrentTypes, RelativeIs
<1>12. PICK f : f = [m EXCEPT !.frame = r]
  OBVIOUS
<1>f. f \in Windows /\ ~f.shaded /\ Agrees(f, new)
  <2>1. f \in Windows /\ f.frame = r /\ f.normal = m.normal /\ f.max = m.max /\ SameManner(f, m)
    BY <1>m, <1>12, FrameIs
  <2>2. ~f.shaded /\ Current(f) = Current(m)
    BY <1>m, <2>1 DEF SameManner, Current
  <2> QED
    BY <1>11, <2>1, <2>2 DEF Agrees, UpdateRelative
<1>13. PICK b : b = [f EXCEPT !.sticky = FALSE]
  OBVIOUS
<1>14. PICK s : s = IF u.sticky /\ ~OnPage(f.frame) THEN Stuck(b, new) ELSE f
  OBVIOUS
<1>s. s \in Windows /\ ~s.shaded /\ Agrees(s, new)
  <2>1. b \in Windows /\ ~b.shaded /\ Agrees(b, new)
    BY <1>f, <1>13, StickyIs
  <2>2. Stuck(b, new) \in Windows /\ ~Stuck(b, new).shaded /\ Agrees(Stuck(b, new), new)
    BY <2>1, StuckIs
  <2> QED
    BY <1>f, <1>14, <2>2
<1>15. PICK dir \in {"N", "S", "SW", "W"} : dir = IF u.titleDirUsed THEN s.dir ELSE u.shadeDir
  BY <1>0, <1>s, Fields
<1>16. PICK big \in Rectangles : big = IF s.maximized THEN s.max ELSE s.frame
  BY <1>s, Fields
<1>17. PICK c \in Rectangles : c = Shade(s, dir, big)
  BY <1>s, ShadeTypes
<1>18. PICK t : t = [s EXCEPT !.shaded = TRUE, !.shadeDir = dir, !.frame = c]
  OBVIOUS
<1>t. /\ t \in Windows /\ t.shadeDir = dir /\ t.frame = c
      /\ t.border = s.border /\ t.title = s.title /\ t.dir = s.dir
  BY <1>s, <1>18 DEF Windows
<1>19. ShadedHeight(t, dir) = ShadedHeight(s, dir)
  BY <1>t DEF ShadedHeight, Total
<1>20. t.shadeDir # "W" => t.frame.h = ShadedHeight(t, t.shadeDir)
  BY <1>s, <1>17, <1>t, <1>19, ShadeIs
<1>21. UpdateAbsolute(t, new) \in Windows /\ Agrees(UpdateAbsolute(t, new), new)
  BY <1>t, <1>20, AbsoluteIs, AbsoluteAgrees
<1>22. R = IF ~u.shaded THEN s ELSE UpdateAbsolute(t, new)
  <2> DEFINE d0 == Decorated([u EXCEPT !.shaded = FALSE, !.maximized = FALSE,
                                       !.titleDirUsed = TRUE, !.limit = u.style.max])
             n0(y) == [y EXCEPT !.normal = Dressed(y.gravity, y, @)]
             h0(y) == Fit(y, y.max.h + y.defect)
             a0(y) == [y EXCEPT !.maximized = TRUE, !.max.h = h0(y), !.defect = @ + y.max.h - h0(y)]
             f0(y) == [y EXCEPT !.frame = Relative(Current(y), new)]
             s0(y) == IF u.sticky /\ ~OnPage(y.frame) THEN Stuck([y EXCEPT !.sticky = FALSE], new) ELSE y
             dir0(y) == IF u.titleDirUsed THEN y.dir ELSE u.shadeDir
             big0(y) == IF y.maximized THEN y.max ELSE y.frame
             r0(y) == IF ~u.shaded THEN y
                      ELSE UpdateAbsolute([y EXCEPT !.shaded = TRUE, !.shadeDir = dir0(y),
                                                    !.frame = Shade(y, dir0(y), big0(y))], new)
  <2>1. R = r0(s0(f0(IF u.maximized THEN a0(n0(d0)) ELSE n0(d0))))
    BY Zenon DEF Restored
  <2>d. d0 = d
    BY <1>1, <1>2
  <2>2. n0(d) = n
    BY <1>3, <1>4
  <2>3. a0(n) = a
    BY <1>6, <1>7, <1>8, <1>9
  <2>4. f0(m) = f
    BY <1>11, <1>12
  <2>5. s0(f) = s
    BY <1>13, <1>14
  <2>6. r0(s) = IF ~u.shaded THEN s ELSE UpdateAbsolute(t, new)
    BY <1>15, <1>16, <1>17, <1>18
  <2> HIDE DEF d0, n0, a0, f0, s0, r0
  <2> QED
    BY <1>10, <2>1, <2>d, <2>2, <2>3, <2>4, <2>5, <2>6
<1> QED
  BY <1>s, <1>21, <1>22

\* A frame is set up for a geometry that a client asked for.
LEMMA AskedIs ==
  ASSUME NEW u \in Windows, NEW d \in Windows, NEW v \in Int, NEW new \in Rectangles,
         SameManner(d, u), NEW s,
         s = IF u.shaded THEN FrameSetup([d EXCEPT !.normal = new], v, Shade(u, u.shadeDir, new))
             ELSE FrameSetup(d, v, new),
         NEW R, R = AdjustOffset(UpdateAbsolute(s, v))
  PROVE  R \in Windows /\ Agrees(R, v)
<1>1. /\ d.shaded = u.shaded /\ d.shadeDir = u.shadeDir
      /\ ShadedHeight(d, u.shadeDir) = ShadedHeight(u, u.shadeDir)
  BY DEF SameManner, ShadedHeight, Total
<1>2. PICK t : t = UpdateAbsolute(s, v)
  OBVIOUS
<1>3. t \in Windows /\ Agrees(t, v)
  <2>1. CASE u.shaded
    <3>1. PICK n : n = [d EXCEPT !.normal = new]
      OBVIOUS
    <3>2. n \in Windows /\ SameManner(n, d)
      BY <3>1, NormalIs
    <3>3. n.shadeDir = u.shadeDir /\ ShadedHeight(n, u.shadeDir) = ShadedHeight(u, u.shadeDir)
      BY <1>1, <3>2 DEF SameManner, ShadedHeight, Total
    <3>4. PICK f : f = Shade(u, u.shadeDir, new)
      OBVIOUS
    <3>5. Fits(n, f) /\ f \in Rectangles
      BY <2>1, <3>2, <3>3, <3>4, ShadeFits
    <3>6. t = UpdateAbsolute(FrameSetup(n, v, f), v)
      BY <1>2, <2>1, <3>1, <3>4
    <3> QED
      BY <3>2, <3>5, <3>6, SettledIs
  <2>2. CASE ~u.shaded
    <3>1. Fits(d, new)
      BY <1>1, <2>2 DEF Fits
    <3>2. t = UpdateAbsolute(FrameSetup(d, v, new), v)
      BY <1>2, <2>2
    <3> QED
      BY <3>1, <3>2, SettledIs
  <2> QED
    BY <2>1, <2>2
<1>4. R = AdjustOffset(t)
  BY <1>2
<1> QED
  BY <1>3, <1>4, AdjustIs

\* A window with another defect has the same frame.
LEMMA DefectIs ==
  ASSUME NEW u \in Windows, NEW v \in Int, NEW x \in Int, NEW R, R = [u EXCEPT !.defect = x]
  PROVE  R \in Windows /\ SameManner(R, u) /\ (Agrees(u, v) => Agrees(R, v))
<1>1. /\ R \in Windows /\ SameManner(R, u) /\ R.frame = u.frame
      /\ R.normal = u.normal /\ R.max = u.max
  BY DEF Windows, SameManner
<1>2. Current(R) = Current(u)
  BY <1>1 DEF SameManner, Current
<1> QED
  BY <1>1, <1>2, AgreesFrom

-----------------------------------------------------------------------------
\* The inductive invariant: a window, on a page, whose frame agrees.
\* The inductive invariant: a window, on a page, whose frame agrees.
Inv == w \in Windows /\ Vy \in Pages /\ (~strayed => Agrees(w, Vy))

\* The bounds of the model are integers.
LEMMA Bounds ==
  /\ DisplayHeight \in Nat \ {0} /\ \A p \in Pages : p \in Int
  /\ \A y \in Targets : y \in Int
  /\ \A h \in Heights : h \in Int
  /\ ShadeDirs \subseteq {"N", "S", "SW", "W"}
BY GeometryAssumption DEF Pages

\* The window e is mapped with the frame f: what AddWindow has done then.
Mapped(e, f) ==
  /\ ~e.shaded /\ ~e.maximized /\ ~e.full /\ ~e.saved.wasMax /\ e.limit = e.style.max
  /\ \E g \in Rectangles : f = Constrained(Decorated(e), g)
  /\ w = UpdateAbsolute([Decorated(e) EXCEPT !.frame = f], 0)
  /\ Vy = 0 /\ home = Home(w)

\* Every window begins as one that was mapped.
LEMMA InitIs ==
  ASSUME Init
  PROVE  \E e \in Windows, f \in Rectangles : Mapped(e, f)
<1>1. PICK gravity \in Gravities, s \in Styles, y \in Targets, h \in Heights :
    LET u == Decorated(
               [normal |-> NoRectangle, max |-> NoRectangle, frame |-> NoRectangle,
                offset |-> 0, defect |-> 0, gravity |-> gravity, style |-> s,
                limit |-> s.max, border |-> 0, unshaped |-> 0, title |-> 0, dir |-> s.dir,
                maximized |-> FALSE, shaded |-> FALSE, shadeDir |-> "N",
                titleDirUsed |-> TRUE, sticky |-> FALSE, shaped |-> FALSE,
                full |-> FALSE, saved |-> NothingSaved])
        n == UpdateAbsolute(
               [u EXCEPT !.frame = Constrained(u, [y |-> y, h |-> h + Total(u)])], 0)
    IN w = n /\ Vy = 0 /\ home = Home(n) /\ there = Nowhere /\ strayed = FALSE /\ steps = 0
  BY Zenon DEF Init
<1>2. PICK nothing : nothing = NothingSaved
  OBVIOUS
<1>3. nothing \in [max : Rectangles, wasMax : BOOLEAN, wasShaded : BOOLEAN]
  BY <1>2 DEF NothingSaved, NoRectangle, Rectangles
<1>4. PICK nowhere : nowhere = NoRectangle
  OBVIOUS
<1>5. nowhere \in Rectangles
  BY <1>4 DEF NoRectangle, Rectangles
<1>6. PICK e :
        e = [normal |-> nowhere, max |-> nowhere, frame |-> nowhere,
                offset |-> 0, defect |-> 0, gravity |-> gravity, style |-> s,
                limit |-> s.max, border |-> 0, unshaped |-> 0, title |-> 0, dir |-> s.dir,
                maximized |-> FALSE, shaded |-> FALSE, shadeDir |-> "N",
                titleDirUsed |-> TRUE, sticky |-> FALSE, shaped |-> FALSE,
                full |-> FALSE, saved |-> nothing]
  OBVIOUS
<1>7. gravity \in {-1, 0, 1} /\ s.max \in Nat /\ s.dir \in {"N", "S", "W"}
  BY StyleFields, GeometryAssumption
<1>8. e \in Windows
  BY <1>3, <1>5, <1>6, <1>7 DEF Windows
<1>9. ~e.shaded /\ ~e.maximized /\ ~e.full /\ e.limit = e.style.max /\ e.saved = nothing
  BY <1>6
<1>n. ~nothing.wasMax
  BY <1>2 DEF NothingSaved
<1>10. PICK u : u = Decorated(e)
  OBVIOUS
<1>11. u \in Windows /\ Total(u) \in Int /\ y \in Int /\ h \in Int
  BY <1>8, <1>10, DecoratedTypes, TotalTypes, Bounds
<1>12. PICK g : g = [y |-> y, h |-> h + Total(u)]
  OBVIOUS
<1>13. g \in Rectangles
  BY <1>11, <1>12 DEF Rectangles
<1>14. PICK f \in Rectangles : f = Constrained(u, g)
  BY <1>11, <1>13, ConstrainedTypes
<1>15. PICK t : t = [u EXCEPT !.frame = f]
  OBVIOUS
<1>16. PICK n : n = UpdateAbsolute(t, 0)
  OBVIOUS
<1>17. w = n /\ Vy = 0 /\ home = Home(n)
  BY <1>1, <1>2, <1>4, <1>6, <1>10, <1>12, <1>14, <1>15, <1>16
<1>18. Mapped(e, f)
  BY <1>9, <1>n, <1>10, <1>13, <1>14, <1>15, <1>16, <1>17 DEF Mapped
<1> QED
  BY <1>8, <1>18

\* The invariant holds of a window that is mapped.
LEMMA InitInv ==
  Init => Inv
<1> SUFFICES ASSUME Init PROVE Inv
  OBVIOUS
<1>1. PICK e \in Windows, f \in Rectangles : Mapped(e, f)
  BY InitIs
<1>2. PICK u : u = Decorated(e)
  OBVIOUS
<1>3. u \in Windows /\ ~u.shaded
  BY <1>1, <1>2, DecoratedTypes DEF Mapped
<1>4. PICK t : t = [u EXCEPT !.frame = f]
  OBVIOUS
<1>5. t \in Windows /\ ~t.shaded
  BY <1>3, <1>4, FrameIs DEF SameManner
<1>6. w = UpdateAbsolute(t, 0) /\ Vy = 0
  BY <1>1, <1>2, <1>4 DEF Mapped
<1>7. w \in Windows /\ Agrees(w, Vy)
  BY <1>5, <1>6, AbsoluteIs, AbsoluteAgrees
<1>8. 0 \in Pages
  BY GeometryAssumption DEF Pages
<1> QED
  BY <1>6, <1>7, <1>8 DEF Inv

\* Every operation keeps the invariant: one case for each.
LEMMA NextInv ==
  ASSUME Inv, Next
  PROVE  Inv'
<1> USE DEF Put, Keep, Remake, Strays
<1>0. /\ w \in Windows /\ Vy \in Pages /\ Vy \in Int /\ (~strayed => Agrees(w, Vy))
      /\ Total(w) \in Int
  BY Bounds, TotalTypes DEF Inv
<1> SUFFICES /\ w' \in Windows /\ Vy' \in Pages
             /\ ~strayed' => Agrees(w', Vy')
  BY DEF Inv, Agrees, UpdateRelative, Relative, Current, Shade, Total
<1>1. CASE UserMoves
  <2>1. PICK y \in Int : w' = Moved(w, Vy, y) /\ Vy' = Vy /\ strayed' = strayed
    BY <1>1, Bounds DEF UserMoves
  <2> QED
    BY <1>0, <2>1, MovedIs
<1>2. CASE UserMovesToPage
  <2>1. PICK p \in Int : w' = MovedToPage(w, Vy, p) /\ Vy' = Vy /\ strayed' = strayed
    BY <1>2, Bounds DEF UserMovesToPage
  <2> QED
    BY <1>0, <2>1, MovedToPageIs
<1>3. CASE UserResizes
  <2>1. PICK h \in Int, maximize \in BOOLEAN :
          /\ w' = (IF w.full \/ maximize THEN AsMaximized(w, ResizedTo(w, Vy, h), Vy, TRUE)
                   ELSE ResizedTo(w, Vy, h))
          /\ Vy' = Vy
    BY <1>3, Bounds DEF UserResizes
  <2>2. ResizedTo(w, Vy, h) \in Windows /\ Agrees(ResizedTo(w, Vy, h), Vy)
    BY <1>0, ResizedToIs
  <2> QED
    BY <1>0, <2>1, <2>2, AsMaximizedIs
<1>4. CASE UserResizesAndMoves
  <2>1. PICK y \in Int, h \in Int, maximize \in BOOLEAN :
          LET r == ResizedMoved(w, Vy, [y |-> y, h |-> Fit(Unset(w), h + Total(w))])
          IN /\ w' = (IF w.full \/ maximize THEN AsMaximized(w, r, Vy, TRUE) ELSE r)
             /\ Vy' = Vy /\ strayed' = strayed
    BY <1>4, Bounds DEF UserResizesAndMoves
  <2>2. PICK x \in Int : x = Fit(Unset(w), h + Total(w))
    BY <1>0, UnsetIs, FitTypes
  <2>3. PICK g : g = [y |-> y, h |-> x]
    OBVIOUS
  <2>4. g \in Rectangles
    BY <2>3 DEF Rectangles
  <2>5. PICK r : r = ResizedMoved(w, Vy, g)
    OBVIOUS
  <2>6. r \in Windows /\ (Agrees(w, Vy) => Agrees(r, Vy))
    BY <1>0, <2>4, <2>5, ResizedMovedIs
  <2>7. /\ w' = (IF w.full \/ maximize THEN AsMaximized(w, r, Vy, TRUE) ELSE r)
        /\ Vy' = Vy /\ strayed' = strayed
    BY <2>1, <2>2, <2>3, <2>5
  <2> QED
    BY <1>0, <2>6, <2>7, AsMaximizedIs
<1>5. ASSUME NEW percent \in {0, 50, 100}, Maximize(percent)
      PROVE  /\ w' \in Windows /\ Vy' \in Pages
             /\ ~strayed' => Agrees(w', Vy')
  <2>1. PICK g : g = IF percent = 0 THEN w.frame
                     ELSE [y |-> PageOffset(w.frame, Vy), h |-> Div(percent * DisplayHeight, 100)]
    OBVIOUS
  <2>2. w.frame \in Rectangles /\ PageOffset(w.frame, Vy) \in Int
    BY <1>0, Fields, PageOffsetTypes
  <2>3. Div(percent * DisplayHeight, 100) \in Int
    BY Bounds, Integral
  <2>4. g \in Rectangles
    BY <2>1, <2>2, <2>3 DEF Rectangles
  <2>5. w' = Maximized(w, Vy, g, TRUE) /\ Vy' = Vy
    BY <1>5, <2>1 DEF Maximize
  <2> QED
    BY <1>0, <2>4, <2>5, MaximizedIs
<1>6. CASE Unmaximize
  <2>1. PICK wider \in BOOLEAN : w' = Unmaximized(w, Vy, wider) /\ Vy' = Vy
    BY <1>6 DEF Unmaximize
  <2> QED
    BY <1>0, <2>1, UnmaximizedIs
<1>7. CASE Forget
  <2>1. PICK n : n = [w EXCEPT !.normal = w.max]
    OBVIOUS
  <2>2. n \in Windows
    BY <1>0, <2>1, Fields, NormalIs
  <2>3. PICK wider \in BOOLEAN : w' = Unmaximized(n, Vy, wider) /\ Vy' = Vy
    BY <1>7, <2>1 DEF Forget
  <2> QED
    BY <1>0, <2>2, <2>3, UnmaximizedIs
<1>8. CASE Toggle
  <2>1. PICK n : n = [w EXCEPT !.titleDirUsed = TRUE]
    OBVIOUS
  <2>2. n \in Windows /\ w.dir \in {"N", "S", "SW", "W"}
    BY <1>0, <2>1 DEF Windows
  <2>3. Vy' = Vy /\ w' = (IF w.shaded THEN Unshade(w, Vy) ELSE ShadedTo(n, Vy, w.dir))
    BY <1>8, <2>1 DEF Toggle
  <2> QED
    BY <1>0, <2>2, <2>3, UnshadeIs, ShadedToIs
<1>9. ASSUME NEW dir \in ShadeDirs, NEW again \in BOOLEAN, Shading(dir, again)
      PROVE  /\ w' \in Windows /\ Vy' \in Pages
             /\ ~strayed' => Agrees(w', Vy')
  <2>1. PICK n : n = [w EXCEPT !.titleDirUsed = FALSE]
    OBVIOUS
  <2>2. n \in Windows /\ dir \in {"N", "S", "SW", "W"}
    BY <1>0, <2>1, Bounds DEF Windows
  <2>3. Vy' = Vy /\ (w' = Unshade(w, Vy) \/ w' = ShadedTo(n, Vy, dir))
    BY <1>9, <2>1 DEF Shading
  <2> QED
    BY <1>0, <2>2, <2>3, UnshadeIs, ShadedToIs
<1>10. CASE UserPages
  <2>1. PICK p \in Pages : w' = Paged(w, Vy, p) /\ Vy' = p /\ strayed' = strayed
    BY <1>10 DEF UserPages
  <2>2. p \in Int
    BY Bounds
  <2> QED
    BY <1>0, <2>1, <2>2, PagedIs
<1>11. CASE UserSticks
  <2>1. /\ Vy' = Vy /\ strayed' = strayed
        /\ w' = [w EXCEPT !.sticky = FALSE] \/ w' = Stuck(w, Vy)
    BY <1>11 DEF UserSticks
  <2> QED
    BY <1>0, <2>1, StickyIs, StuckIs
<1>12. CASE FullScreen
  <2>1. w' = FillScreen(w, Vy) /\ Vy' = Vy
    BY <1>12 DEF FullScreen
  <2> QED
    BY <1>0, <2>1, FillScreenIs
<1>13. CASE StyleChange
  <2>1. PICK s, changes :
          /\ s \in Styles
          /\ w' = ApplyUpdates([w EXCEPT !.style = s], Vy, changes)
          /\ Vy' = Vy
          /\ ~strayed' => ~strayed /\ ("limits" \in changes => ~w.shaded)
    BY <1>13 DEF StyleChange
  <2>2. PICK n : n = [w EXCEPT !.style = s]
    OBVIOUS
  <2>s. s \in Styles
    BY <2>1
  <2>3. /\ n \in Windows /\ n.shaded = w.shaded /\ (Agrees(w, Vy) => Agrees(n, Vy))
    <3>1. /\ n \in Windows /\ n.shaded = w.shaded /\ n.shadeDir = w.shadeDir
          /\ n.frame = w.frame /\ n.normal = w.normal /\ n.max = w.max
          /\ n.maximized = w.maximized
          /\ n.border = w.border /\ n.title = w.title /\ n.dir = w.dir
      BY <1>0, <2>2, <2>s DEF Windows
    <3>2. Current(n) = Current(w) /\ Total(n) = Total(w)
      BY <3>1 DEF Current, Total
    <3>3. UpdateRelative(n, Vy) = UpdateRelative(w, Vy)
      BY <3>1, <3>2 DEF UpdateRelative, Shade
    <3> QED
      BY <3>1, <3>3 DEF Agrees
  <2>4. w' = ApplyUpdates(n, Vy, changes)
    BY <2>1, <2>2
  <2> QED
    BY <1>0, <2>1, <2>3, <2>4, UpdatesAgree
<1>14. CASE Reshape
  <2>1. w' = Reshaped(w, Vy) /\ Vy' = Vy
    BY <1>14 DEF Reshape
  <2> QED
    BY <1>0, <2>1, ReshapedIs
<1>15. CASE ConfigureRequest
  <2>1. PICK gravity \in {-1, 0, 1}, asked \in Int, fit \in Int, d \in Windows, new \in Rectangles :
          LET s == IF w.shaded
                   THEN FrameSetup([d EXCEPT !.normal = new], Vy, Shade(w, w.shadeDir, new))
                   ELSE FrameSetup(d, Vy, new)
          IN /\ SameManner(d, w) /\ (Agrees(w, Vy) => Agrees(d, Vy))
             /\ w' = AdjustOffset(UpdateAbsolute(s, Vy)) \/ w' = d
             /\ Vy' = Vy /\ (~strayed' => ~strayed)
    <3>1. PICK ask \in SUBSET {"y", "h", "other"} \ {{}}, y \in Targets, h \in Heights,
               useGravity \in BOOLEAN :
            LET g == Unshaded(w, Vy)
                gravity == IF ~w.shaded THEN w.gravity
                           ELSE CASE w.shadeDir = "N" -> -1
                                  [] w.shadeDir \in {"S", "SW"} -> 1
                                  [] OTHER -> w.gravity
                defect == IF w.maximized THEN w.defect ELSE 0
                asked == IF "h" \in ask /\ ~w.maximized THEN h + Total(w) ELSE g.h
                fit == Fit(w, asked + defect)
                moves == "y" \in ask /\ ~w.shaded
                shift == IF useGravity THEN Div((gravity + 1) * Total(w), 2) ELSE Top(w)
                new == IF moves THEN [y |-> y - shift, h |-> fit]
                       ELSE Resized(gravity, g, fit - g.h)
                d == IF w.maximized THEN [w EXCEPT !.defect = asked + defect - fit] ELSE w
                s == IF w.shaded
                     THEN FrameSetup([d EXCEPT !.normal = new], Vy, Shade(w, w.shadeDir, new))
                     ELSE FrameSetup(d, Vy, new)
                changes == new # g \/ "other" \in ask
            IN /\ Put(IF changes THEN AdjustOffset(UpdateAbsolute(s, Vy)) ELSE d)
               /\ Strays(w.shaded /\ w.maximized /\ changes)
      BY <1>15, Zenon DEF ConfigureRequest
    <3>h. y \in Int /\ h \in Int
      BY Bounds
    <3>2. PICK g \in Rectangles : g = Unshaded(w, Vy) /\ g.h \in Int
      BY <1>0, RelativeTypes DEF Rectangles
    <3>3. PICK gravity \in {-1, 0, 1} :
            gravity = IF ~w.shaded THEN w.gravity
                      ELSE CASE w.shadeDir = "N" -> -1
                             [] w.shadeDir \in {"S", "SW"} -> 1
                             [] OTHER -> w.gravity
      BY <1>0, Fields
    <3>4. PICK asked \in Int : asked = IF "h" \in ask /\ ~w.maximized THEN h + Total(w) ELSE g.h
      BY <1>0, <3>2, <3>h
    <3>5. PICK defect \in Int : defect = IF w.maximized THEN w.defect ELSE 0
      BY <1>0, Fields
    <3>6. PICK fit \in Int : fit = Fit(w, asked + defect)
      BY <1>0, FitTypes
    <3>7. PICK x \in Int : x = fit - g.h
      BY <3>2
    <3>8. PICK shift \in Int : shift = IF useGravity THEN Div((gravity + 1) * Total(w), 2) ELSE Top(w)
      <4>1. (gravity + 1) * Total(w) \in Int
        BY <1>0
      <4> QED
        BY <1>0, <4>1, TotalTypes, Integral
    <3>9. PICK a : a = [y |-> y - shift, h |-> fit]
      OBVIOUS
    <3>10. a \in Rectangles
      BY <3>9, <3>h DEF Rectangles
    <3>11. PICK b \in Rectangles : b = Resized(gravity, g, x)
      BY ResizedTypes
    <3>12. PICK new \in Rectangles : new = IF "y" \in ask /\ ~w.shaded THEN a ELSE b
      BY <3>10
    <3>13. PICK z \in Int : z = asked + defect - fit
      OBVIOUS
    <3>14. PICK e : e = [w EXCEPT !.defect = z]
      OBVIOUS
    <3>15. PICK d : d = IF w.maximized THEN e ELSE w
      OBVIOUS
    <3>16. d \in Windows /\ SameManner(d, w) /\ (Agrees(w, Vy) => Agrees(d, Vy))
      BY <1>0, <3>14, <3>15, DefectIs DEF SameManner
    <3>17. PICK s : s = IF w.shaded
                   THEN FrameSetup([d EXCEPT !.normal = new], Vy, Shade(w, w.shadeDir, new))
                   ELSE FrameSetup(d, Vy, new)
      OBVIOUS
    <3>18. w' = AdjustOffset(UpdateAbsolute(s, Vy)) \/ w' = d
      BY <3>1, <3>2, <3>3, <3>4, <3>5, <3>6, <3>7, <3>8, <3>9, <3>11, <3>12, <3>13, <3>14,
         <3>15, <3>17
    <3>19. Vy' = Vy /\ (~strayed' => ~strayed)
      BY <1>15, <3>1 DEF ConfigureRequest
    <3> QED
      BY <3>16, <3>17, <3>18, <3>19
  <2> QED
    BY <1>0, <2>1, AskedIs
<1>16. CASE Restart
  <2>1. w' = Paged(Restored(Saved(w, Vy), 0), 0, Vy) /\ Vy' = Vy
    BY <1>16 DEF Restart
  <2>2. PICK r : r = Restored(Saved(w, Vy), 0)
    OBVIOUS
  <2>3. r \in Windows /\ Agrees(r, 0)
    BY <1>0, <2>2, SavedTypes, RestoredIs
  <2> QED
    BY <1>0, <2>1, <2>2, <2>3, PagedIs
<1>17. CASE SessionRestore
  <2>1. PICK p \in Pages : w' = Restored(Saved(w, Vy), p) /\ Vy' = p
    BY <1>17 DEF SessionRestore
  <2> QED
    BY <1>0, <2>1, Bounds, SavedTypes, RestoredIs
<1> QED
  BY <1>1, <1>2, <1>3, <1>4, <1>5, <1>6, <1>7, <1>8, <1>9, <1>10, <1>11, <1>12, <1>13, <1>14,
     <1>15, <1>16, <1>17 DEF Next

\* The frame on the screen is always the one that the recorded geometry gives,
\* whatever the styles, the gravities, the page and the number of operations:
\* update_relative_geometry and update_absolute_geometry undo each other.
THEOREM FrameFollowsGeometry == Spec => []FrameAgrees
<1>1. Inv /\ UNCHANGED vars => Inv'
  BY DEF Inv, vars, Agrees, UpdateRelative, Relative, Current, Shade, Total
<1>2. Inv /\ [Next]_vars => Inv'
  BY <1>1, NextInv
<1>3. Inv => FrameAgrees
  BY DEF Inv, FrameAgrees, Agrees
<1> QED
  BY InitInv, <1>2, <1>3, PTL DEF Spec

=============================================================================
