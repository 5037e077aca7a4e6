------------------------ MODULE WindowGeometryPlaces ------------------------
(* Proofs about WindowGeometry: windows stay where they were put, less than  *)
(* a page from their maximized version, and with a height.  The invariant of *)
(* WindowGeometryProofs, that the frame follows the geometry, is not enough: *)
(* an operation finds the geometry by what an earlier one left in the flags, *)
(* the decoration, the limit and the saved geometry (Sound), and its client  *)
(* must have a height for the gravity to keep a point of it.  Each step of   *)
(* the code gets a lemma that says what it makes of a window, as a predicate *)
(* such as Moves, Puts, Kept or Rebuilt; the actions are put together from   *)
(* these in NextGood.                                                        *)
EXTENDS WindowGeometryProofs
-----------------------------------------------------------------------------
(* Arithmetic: pages, and the points that a gravity keeps. *)

\* a and b are a number of pages apart.
Shift(a, b) == \E k \in Int : a = b + k * DisplayHeight

\* The only multiple of d strictly between -d and d is 0.
LEMMA Multiples ==
  ASSUME NEW d \in Nat \ {0}, NEW m \in Int, d * m < d, d * m > -d
  PROVE  m = 0
<1>1. CASE m >= 1
  <2>1. PICK j \in Nat : m = j + 1
    BY <1>1
  <2>2. d * m = d * j + d /\ d * j >= 0
    BY <2>1
  <2> QED
    BY <2>2
<1>2. CASE m <= -1
  <2>1. PICK j \in Nat : m = -(j + 1)
    <3>1. -m - 1 \in Nat /\ m = -((-m - 1) + 1)
      BY <1>2
    <3> QED
      BY <3>1
  <2>2. d * m = -(d * j) - d /\ d * j >= 0
    BY <2>1
  <2> QED
    BY <2>2
<1> QED
  BY <1>1, <1>2

\* Every integer is a multiple of d and a remainder.
LEMMA ModOf ==
  ASSUME NEW d \in Nat \ {0}, NEW x \in Int
  PROVE  \E q \in Int : x = d * q + (x % d) /\ x % d \in 0..(d - 1)
<1>1. x \div d \in Int
  OBVIOUS
<1>2. x = d * (x \div d) + (x % d)
  OBVIOUS
<1>3. x % d \in 0..(d - 1)
  OBVIOUS
<1> QED
  BY <1>1, <1>2, <1>3

\* What is some pages apart is at the same place within its page.
LEMMA ShiftMod ==
  ASSUME NEW a \in Int, NEW b \in Int, Shift(a, b)
  PROVE  a % DisplayHeight = b % DisplayHeight
<1>1. PICK d \in Nat \ {0} : d = DisplayHeight
  BY GeometryAssumption
<1>2. PICK k \in Int : a = b + k * d
  BY <1>1 DEF Shift
<1>3. PICK q \in Int : a = d * q + (a % d) /\ a % d \in 0..(d - 1)
  BY ModOf
<1>4. PICK r \in Int : b = d * r + (b % d) /\ b % d \in 0..(d - 1)
  BY ModOf
<1>5. PICK x \in 0..(d - 1), y \in 0..(d - 1) : x = a % d /\ y = b % d
  BY <1>3, <1>4
<1>6. PICK m \in Int : m = r + k - q
  OBVIOUS
<1>7. d * m = d * r + d * k - d * q
  BY <1>6
<1>8. k * d = d * k
  OBVIOUS
<1>9. PICK A \in Int, B \in Int, C \in Int, M \in Int :
        A = d * r /\ B = d * k /\ C = d * q /\ M = d * m
  OBVIOUS
<1>10. a = C + x /\ b = A + y /\ a = b + B /\ M = A + B - C
  BY <1>2, <1>3, <1>4, <1>5, <1>7, <1>8, <1>9
<1>11. M = x - y
  BY <1>10
<1>12. M < d /\ M > -d
  BY <1>11
<1>13. m = 0
  BY <1>9, <1>12, Multiples
<1>14. M = 0
  BY <1>9, <1>13
<1> QED
  BY <1>1, <1>5, <1>11, <1>14

\* Shift is an equivalence that sums and differences respect.
LEMMA ShiftSame ==
  ASSUME NEW a \in Int
  PROVE  Shift(a, a)
<1>1. a = a + 0 * DisplayHeight
  BY GeometryAssumption
<1> QED
  BY <1>1 DEF Shift

\* ... sums and differences ...
LEMMA ShiftSum ==
  ASSUME NEW a \in Int, NEW b \in Int, NEW c \in Int, NEW e \in Int,
         Shift(a, b), Shift(c, e)
  PROVE  Shift(a + c, b + e) /\ Shift(a - c, b - e)
<1>1. PICK d \in Nat \ {0} : d = DisplayHeight
  BY GeometryAssumption
<1>2. PICK k \in Int : a = b + k * d
  BY <1>1 DEF Shift
<1>3. PICK m \in Int : c = e + m * d
  BY <1>1 DEF Shift
<1>4. PICK s \in Int, t \in Int : s = k + m /\ t = k - m
  OBVIOUS
<1>5. s * d = k * d + m * d /\ t * d = k * d - m * d
  BY <1>4
<1>6. a + c = b + e + s * d /\ a - c = b - e + t * d
  BY <1>2, <1>3, <1>5
<1> QED
  BY <1>1, <1>6 DEF Shift

\* ... and transitive.
LEMMA ShiftTrans ==
  ASSUME NEW a \in Int, NEW b \in Int, NEW c \in Int, Shift(a, b), Shift(b, c)
  PROVE  Shift(a, c)
<1>1. Shift(a + b, b + c)
  BY ShiftSum
<1>2. Shift(a + b - b, b + c - b)
  BY <1>1, ShiftSame, ShiftSum
<1>3. a + b - b = a /\ b + c - b = c
  OBVIOUS
<1> QED
  BY <1>2, <1>3

\* Two pages are a number of pages apart.
LEMMA PageShift ==
  ASSUME NEW p \in Pages, NEW q \in Pages
  PROVE  p \in Int /\ Shift(p, 0) /\ Shift(p, q) /\ Shift(q, p)
<1>1. \A r \in Pages : r \in Int /\ Shift(r, 0) /\ Shift(0, r)
  <2> TAKE r \in Pages
  <2>1. PICK d \in Nat \ {0} : d = DisplayHeight
    BY GeometryAssumption
  <2>2. r \in Int /\ r % d = 0
    BY <2>1 DEF Pages
  <2>3. PICK k \in Int : r = d * k + (r % d)
    BY <2>2, ModOf
  <2>4. PICK m \in Int : m = -k
    OBVIOUS
  <2>5. d * k = k * d /\ m * d = -(k * d)
    BY <2>4
  <2>6. r = 0 + k * d /\ 0 = r + m * d
    BY <2>2, <2>3, <2>5
  <2> QED
    BY <2>1, <2>2, <2>6 DEF Shift
<1> QED
  BY <1>1, ShiftTrans

\* The point of a rectangle that a gravity keeps.
Ref(gravity, g) == g.y + Div((gravity + 1) * (g.h - 1), 2)

\* The point for each gravity: top, middle and bottom.
LEMMA RefIs ==
  ASSUME NEW g \in Rectangles
  PROVE  /\ Ref(-1, g) = g.y
         /\ Ref(0, g) = g.y + Div(g.h - 1, 2)
         /\ Ref(1, g) = g.y + g.h - 1
         /\ \A gravity \in {-1, 0, 1} : Ref(gravity, g) \in Int
<1>1. g.y \in Int /\ g.h \in Int
  BY DEF Rectangles
<1>2. (-1 + 1) * (g.h - 1) = 0 /\ (0 + 1) * (g.h - 1) = g.h - 1 /\ (1 + 1) * (g.h - 1) = 2 * (g.h - 1)
  BY <1>1
<1>3. Div(0, 2) = 0 /\ Div(2 * (g.h - 1), 2) = g.h - 1 /\ Div(g.h - 1, 2) \in Int
  <2>1. PICK j \in Int : j = g.h - 1
    BY <1>1
  <2>2. Div(0, 2) = 0 /\ Div(2 * j, 2) = j
    BY DEF Div
  <2> QED
    BY <2>1, <2>2, Integral
<1>4. /\ Ref(-1, g) = g.y
      /\ Ref(0, g) = g.y + Div(g.h - 1, 2)
      /\ Ref(1, g) = g.y + g.h - 1
  BY <1>1, <1>2, <1>3 DEF Ref
<1> QED
  BY <1>1, <1>3, <1>4

\* Even numbers.
Even(x) == x % 2 = 0

\* R is g that has grown by dh where the gravity says.
Grown(gravity, g, dh, R) ==
  /\ R \in Rectangles /\ R.h = g.h + dh
  /\ gravity = -1 => R.y = g.y
  /\ gravity # 0 => Ref(gravity, R) = Ref(gravity, g)
  /\ dh \in Nat /\ Even(dh) /\ g.h > 0 => Ref(gravity, R) = Ref(gravity, g)

\* gravity_resize keeps the point of the gravity; with a centre gravity it does
\* for decoration of even height.
LEMMA ResizedRef ==
  ASSUME NEW gravity \in {-1, 0, 1}, NEW g \in Rectangles, NEW dh \in Int,
         NEW R, R = Resized(gravity, g, dh)
  PROVE  Grown(gravity, g, dh, R)
<1> USE DEF Grown
<1>1. R \in Rectangles /\ R.h = g.h + dh /\ R.y = g.y - Div(dh * (gravity + 1), 2)
      /\ g.y \in Int /\ g.h \in Int
  BY ResizedTypes DEF Resized, Rectangles
<1>2. CASE gravity = -1
  <2>1. Div(dh * (gravity + 1), 2) = 0
    BY <1>2 DEF Div
  <2> QED
    BY <1>1, <1>2, <2>1, RefIs
<1>3. CASE gravity = 1
  <2>1. dh * (gravity + 1) = 2 * dh
    BY <1>3
  <2>2. Div(2 * dh, 2) = dh
    BY DEF Div
  <2> QED
    BY <1>1, <1>3, <2>1, <2>2, RefIs
<1>4. CASE gravity = 0
  <2>1. dh * (gravity + 1) = dh
    BY <1>4
  <2>2. ASSUME dh \in Nat, Even(dh), g.h > 0
        PROVE  Ref(gravity, R) = Ref(gravity, g)
    <3>1. PICK j \in Nat : dh = 2 * j
      BY <2>2 DEF Even
    <3>2. Div(dh, 2) = j
      BY <3>1 DEF Div
    <3>3. Div(g.h + dh - 1, 2) = Div(g.h - 1, 2) + j
      <4>1. PICK h \in Nat : h = g.h - 1
        BY <1>1, <2>2
      <4>2. Div(h + 2 * j, 2) = Div(h, 2) + j
        BY DEF Div
      <4>3. g.h + dh - 1 = h + 2 * j
        BY <1>1, <3>1, <4>1
      <4> QED
        BY <4>1, <4>2, <4>3
    <3>4. Div(g.h - 1, 2) \in Int
      BY <1>1, Integral
    <3> QED
      BY <1>1, <1>4, <2>1, <3>2, <3>3, <3>4, RefIs
  <2> QED
    BY <1>1, <1>4, <2>2
<1> QED
  BY <1>2, <1>3, <1>4

\* gravity_get_naked_geometry keeps the point of the gravity exactly.
LEMMA NakedRef ==
  ASSUME NEW gravity \in {-1, 0, 1}, NEW u \in Windows, NEW g \in Rectangles,
         NEW R, R = Naked(gravity, u, g)
  PROVE  R \in Rectangles /\ R.h = g.h - Total(u) /\ Ref(gravity, R) = Ref(gravity, g)
<1>1. R \in Rectangles
  BY NakedTypes
<1>2. PICK a \in Int, b \in Int, h \in Int :
        /\ a = Div((gravity + 1) * (g.h - 1), 2) /\ b = Div((gravity + 1) * (h - 1), 2)
        /\ h = g.h - Total(u)
  <2>1. PICK h \in Int : h = g.h - Total(u)
    BY TotalTypes DEF Rectangles
  <2>2. (gravity + 1) * (g.h - 1) \in Int /\ (gravity + 1) * (h - 1) \in Int
    BY DEF Rectangles
  <2> QED
    BY <2>1, <2>2, Integral
<1>3. R.h = h /\ R.y = g.y + a - b /\ g.y \in Int
  BY <1>2 DEF Naked, Rectangles
<1>4. Ref(gravity, g) = g.y + a /\ Ref(gravity, R) = R.y + b
  BY <1>2, <1>3 DEF Ref
<1>5. g.y + a = g.y + a - b + b
  BY <1>3
<1> QED
  BY <1>1, <1>2, <1>3, <1>4, <1>5

\* A client keeps its place and its height when its decoration changes.
LEMMA DressedRef ==
  ASSUME NEW gravity \in {-1, 0, 1}, NEW u \in Windows, NEW d \in Windows, NEW g \in Rectangles,
         NEW R, R = Dressed(gravity, d, Naked(gravity, u, g))
  PROVE  /\ R \in Rectangles /\ R.h - Total(d) = g.h - Total(u)
         /\ gravity # 0 \/ (Even(Total(d)) /\ g.h > Total(u)) => Ref(gravity, R) = Ref(gravity, g)
<1>1. PICK n : n = Naked(gravity, u, g)
  OBVIOUS
<1>2. n \in Rectangles /\ n.h = g.h - Total(u) /\ Ref(gravity, n) = Ref(gravity, g)
  BY <1>1, NakedRef
<1>3. Total(d) \in Nat /\ Total(u) \in Nat /\ g.h \in Int
  BY TotalTypes DEF Rectangles
<1>t. PICK t \in Nat : t = Total(d)
  BY <1>3
<1>4. R = Resized(gravity, n, t)
  BY <1>1, <1>t DEF Dressed
<1>5. /\ R \in Rectangles /\ R.h = n.h + t
      /\ gravity # 0 => Ref(gravity, R) = Ref(gravity, n)
      /\ t \in Nat /\ Even(t) /\ n.h > 0 => Ref(gravity, R) = Ref(gravity, n)
  <2>1. n \in Rectangles /\ t \in Int
    BY <1>2
  <2>2. Grown(gravity, n, t, R)
    BY <1>4, <2>1, ResizedRef
  <2> QED
    BY <2>2 DEF Grown
<1>6. R.h - t = g.h - Total(u) /\ (g.h > Total(u) => n.h > 0)
  BY <1>2, <1>3, <1>5
<1> QED
  BY <1>2, <1>t, <1>5, <1>6

-----------------------------------------------------------------------------
(* Where the operations leave the geometry. *)

\* The frame of a window that has the rectangle k when it is not shaded.
Framed(u, k) == IF u.shaded THEN Shade(u, u.shadeDir, k) ELSE k

\* R differs from u in its frame and its current geometry only.
OnlyCurrent(R, u) ==
  /\ R \in Windows /\ SameManner(R, u) /\ R.offset = u.offset /\ R.defect = u.defect
  /\ u.maximized => R.normal = u.normal
  /\ ~u.maximized => R.max = u.max

\* R differs from u in its frame only.
OnlyFrame(R, u) == OnlyCurrent(R, u) /\ R.normal = u.normal /\ R.max = u.max

\* R is u, set up where the rectangle k is when v is shown.
Lands(R, u, k, v) ==
  OnlyCurrent(R, u) /\ Current(R).y = k.y + v /\ Current(R).h = k.h /\ Agrees(R, v)

\* What the frame of u is set up for has a height that u may have.
Upright(u, k) == u.shaded /\ u.shadeDir # "W" => Current(u).h = k.h

\* OnlyCurrent is transitive.
LEMMA OnlyTrans ==
  ASSUME NEW u, NEW t, NEW s, OnlyCurrent(s, t), OnlyCurrent(t, u)
  PROVE  OnlyCurrent(s, u)
<1>1. SameManner(s, u)
  BY Manners DEF OnlyCurrent
<1> QED
  BY <1>1 DEF OnlyCurrent, SameManner

\* The frame is a rectangle that the window may have.
LEMMA FramedTypes ==
  ASSUME NEW u \in Windows, NEW k \in Rectangles
  PROVE  Framed(u, k) \in Rectangles /\ Fits(u, Framed(u, k))
<1>1. u.shadeDir \in {"N", "S", "SW", "W"}
  BY Fields
<1>2. CASE u.shaded
  BY <1>1, <1>2, ShadeTypes, ShadeFits DEF Framed
<1>3. CASE ~u.shaded
  BY <1>3 DEF Framed, Fits
<1> QED
  BY <1>2, <1>3

\* It depends on how the window is shaded only.
LEMMA FramedSame ==
  ASSUME NEW u, NEW t, SameManner(t, u), NEW k
  PROVE  Framed(t, k) = Framed(u, k)
<1>1. t.shaded = u.shaded /\ t.shadeDir = u.shadeDir /\ t.border = u.border /\ Total(t) = Total(u)
  BY DEF SameManner, Total
<1> QED
  BY <1>1 DEF Framed, Shade

\* update_relative_geometry in these terms.
LEMMA RelativeFramed ==
  ASSUME NEW u \in Windows, NEW v \in Int
  PROVE  /\ UpdateRelative(u, v) = Framed(u, Relative(Current(u), v))
         /\ Relative(Current(u), v) \in Rectangles
         /\ Relative(Current(u), v).y = Current(u).y - v
         /\ Relative(Current(u), v).h = Current(u).h
         /\ Current(u).y \in Int /\ Current(u).h \in Int
<1>1. Current(u) \in Rectangles
  BY CurrentTypes
<1> QED
  BY <1>1, RelativeIs DEF UpdateRelative, Framed, Rectangles

\* update_absolute_geometry finds the rectangle that the frame was made for.
LEMMA AbsoluteLands ==
  ASSUME NEW u \in Windows, NEW v \in Int, NEW k \in Rectangles,
         u.frame = Framed(u, k), Upright(u, k), NEW R, R = UpdateAbsolute(u, v)
  PROVE  Lands(R, u, k, v)
<1>1. /\ R \in Windows /\ SameManner(R, u)
      /\ R.offset = u.offset /\ R.defect = u.defect
      /\ (u.maximized => R.normal = u.normal) /\ (~u.maximized => R.max = u.max)
      /\ Current(R).h = (IF u.shaded /\ u.shadeDir # "W" THEN Current(u).h ELSE u.frame.h)
      /\ Current(R).y = u.frame.y + v
           + (IF u.shaded /\ u.shadeDir \in {"S", "SW"} THEN u.frame.h - Current(u).h ELSE 0)
  BY AbsoluteIs
<1>2. OnlyCurrent(R, u)
  BY <1>1 DEF OnlyCurrent
<1>3. u.frame \in Rectangles /\ Fits(u, u.frame)
  BY FramedTypes
<1>4. Agrees(R, v)
  BY <1>3, AbsoluteAgrees DEF Fits
<1>5. /\ k.y \in Int /\ k.h \in Int /\ u.frame.y \in Int /\ u.frame.h \in Int
      /\ u.shadeDir \in {"N", "S", "SW", "W"}
  BY <1>3, Fields DEF Rectangles
<1>6. CASE ~u.shaded
  <2>1. u.frame = k
    BY <1>6 DEF Framed
  <2>2. Current(R).h = u.frame.h /\ Current(R).y = u.frame.y + v + 0
    BY <1>1, <1>6
  <2> QED
    BY <1>2, <1>4, <1>5, <2>1, <2>2 DEF Lands
<1>7. CASE u.shaded /\ u.shadeDir = "W"
  <2>1. u.frame = k
    BY <1>7, ShadeIs DEF Framed
  <2>2. Current(R).h = u.frame.h /\ Current(R).y = u.frame.y + v + 0
    BY <1>1, <1>7
  <2> QED
    BY <1>2, <1>4, <1>5, <2>1, <2>2 DEF Lands
<1>8. CASE u.shaded /\ u.shadeDir = "N"
  <2>1. u.frame.y = k.y
    BY <1>8, ShadeIs DEF Framed
  <2>2. Current(R).h = Current(u).h /\ Current(R).y = u.frame.y + v + 0
    BY <1>1, <1>8
  <2>3. Current(u).h = k.h
    BY <1>8 DEF Upright
  <2> QED
    BY <1>2, <1>4, <1>5, <2>1, <2>2, <2>3 DEF Lands
<1>9. CASE u.shaded /\ u.shadeDir \in {"S", "SW"}
  <2>1. u.frame.y = k.y + k.h - ShadedHeight(u, u.shadeDir) /\ u.frame.h = ShadedHeight(u, u.shadeDir)
    BY <1>9, ShadeIs DEF Framed
  <2>2. Current(R).h = Current(u).h /\ Current(R).y = u.frame.y + v + (u.frame.h - Current(u).h)
    BY <1>1, <1>9
  <2>3. Current(u).h = k.h
    BY <1>9 DEF Upright
  <2>4. ShadedHeight(u, u.shadeDir) \in Int
    BY ShadeIs
  <2>5. Current(R).y = k.y + v
    BY <1>5, <2>1, <2>2, <2>3, <2>4
  <2> QED
    BY <1>2, <1>4, <2>2, <2>3, <2>5 DEF Lands
<1> QED
  BY <1>5, <1>6, <1>7, <1>8, <1>9

\* A frame is set.
LEMMA FrameOnly ==
  ASSUME NEW u \in Windows, NEW g \in Rectangles, NEW R, R = [u EXCEPT !.frame = g]
  PROVE  OnlyFrame(R, u) /\ Current(R) = Current(u) /\ R.frame = g
<1>1. /\ R \in Windows /\ R.frame = g /\ R.normal = u.normal /\ R.max = u.max
      /\ R.offset = u.offset /\ R.defect = u.defect /\ SameManner(R, u)
  BY FrameIs
<1> QED
  BY <1>1 DEF OnlyFrame, OnlyCurrent, Current, SameManner

\* frame_force_setup_window lands the window.
LEMMA ForceLands ==
  ASSUME NEW u \in Windows, NEW v \in Int, NEW k \in Rectangles, Upright(u, k),
         NEW R, R = ForceSetup(u, v, Framed(u, k))
  PROVE  Lands(R, u, k, v)
<1>1. PICK t : t = [u EXCEPT !.frame = Framed(u, k)]
  OBVIOUS
<1>2. OnlyFrame(t, u) /\ Current(t) = Current(u) /\ t.frame = Framed(u, k)
  BY <1>1, FramedTypes, FrameOnly
<1>3. t \in Windows /\ SameManner(t, u) /\ OnlyCurrent(t, u)
  BY <1>2 DEF OnlyFrame, OnlyCurrent
<1>4. t.frame = Framed(t, k)
  BY <1>2, <1>3, FramedSame
<1>5. Upright(t, k)
  BY <1>2, <1>3 DEF Upright, SameManner
<1>6. R = UpdateAbsolute(t, v)
  BY <1>1 DEF ForceSetup
<1>7. Lands(R, t, k, v)
  BY <1>3, <1>4, <1>5, <1>6, AbsoluteLands
<1>8. OnlyCurrent(R, u)
  BY <1>3, <1>7, OnlyTrans DEF Lands
<1> QED
  BY <1>7, <1>8 DEF Lands

\* frame_setup_window and update_absolute_geometry do, whatever the size was.
LEMMA SettleLands ==
  ASSUME NEW u \in Windows, NEW v \in Int, NEW k \in Rectangles, Upright(u, k),
         NEW R, R = UpdateAbsolute(FrameSetup(u, v, Framed(u, k)), v)
  PROVE  Lands(R, u, k, v) /\ R.frame = Framed(u, k)
<1>1. PICK t : t = FrameSetup(u, v, Framed(u, k))
  OBVIOUS
<1>2. Framed(u, k) \in Rectangles
  BY FramedTypes
<1>3. t \in Windows /\ t.frame = Framed(u, k) /\ SameManner(t, u)
  BY <1>1, <1>2, FrameSetupIs
<1>4. OnlyCurrent(t, u) /\ Upright(t, k)
  <2>1. CASE t = [u EXCEPT !.frame = Framed(u, k)]
    <3>1. OnlyFrame(t, u) /\ Current(t) = Current(u)
      BY <1>2, <2>1, FrameOnly
    <3> QED
      BY <1>3, <3>1 DEF OnlyFrame, Upright, SameManner
  <2>2. CASE t = ForceSetup(u, v, Framed(u, k))
    <3>1. Lands(t, u, k, v)
      BY <2>2, ForceLands
    <3> QED
      BY <3>1 DEF Lands, Upright
  <2> QED
    BY <1>1, <2>1, <2>2 DEF FrameSetup
<1>5. t.frame = Framed(t, k)
  BY <1>3, FramedSame
<1>6. Lands(R, t, k, v) /\ R.frame = t.frame
  BY <1>1, <1>3, <1>4, <1>5, AbsoluteLands, AbsoluteIs
<1>7. OnlyCurrent(R, u)
  BY <1>4, <1>6, OnlyTrans DEF Lands
<1> QED
  BY <1>3, <1>6, <1>7 DEF Lands

\* A window that lands where it was has its geometry still.
LEMMA LandsThere ==
  ASSUME NEW u \in Windows, NEW v \in Int, NEW R, Lands(R, u, Relative(Current(u), v), v)
  PROVE  OnlyFrame(R, u)
<1>1. PICK c \in Rectangles : c = Current(u) /\ c.y \in Int
  BY CurrentTypes DEF Rectangles
<1>2. R \in Windows /\ OnlyCurrent(R, u)
  BY DEF Lands, OnlyCurrent
<1>3. PICK d \in Rectangles : d = Current(R)
  BY <1>2, CurrentTypes
<1>4. d.h = c.h /\ d.y = c.y - v + v
  BY <1>1, <1>3, RelativeIs DEF Lands
<1>5. d = c
  BY <1>1, <1>4, SameRectangle
<1> QED
  BY <1>1, <1>2, <1>3, <1>5 DEF OnlyFrame, OnlyCurrent, Current, SameManner

\* To set up the frame again changes nothing.
LEMMA Stays ==
  ASSUME NEW u \in Windows, NEW v \in Int, Agrees(u, v), NEW R, R = ForceSetup(u, v, u.frame)
  PROVE  OnlyFrame(R, u) /\ Agrees(R, v)
<1>1. PICK k \in Rectangles : k = Relative(Current(u), v) /\ k.h = Current(u).h
  BY RelativeFramed
<1>2. u.frame = Framed(u, k) /\ Upright(u, k)
  BY <1>1, RelativeFramed DEF Agrees, Upright
<1>3. Lands(R, u, k, v)
  BY <1>2, ForceLands
<1> QED
  BY <1>1, <1>3, LandsThere DEF Lands

-----------------------------------------------------------------------------
(* Windows whose client has a height. *)

\* A style leaves room for the least client and one increment of its size.
RoomForClient ==
  \A s \in Styles : s.max >= 2 * s.border + s.title + MinHeight + HeightInc - 1

\* The window's limit leaves as much.
Roomy(u) == u.limit - Total(u) >= MinHeight + HeightInc - 1

\* constrain_size then leaves the client a height.
LEMMA FitHigh ==
  ASSUME NEW u \in Windows, Roomy(u), NEW h \in Int
  PROVE  Fit(u, h) \in Int /\ Fit(u, h) > Total(u)
<1>1. PICK t \in Nat, l \in Nat : t = Total(u) /\ l = u.limit
  BY TotalTypes, Fields
<1>2. PICK max \in Int : max = l - t
  OBVIOUS
<1>3. PICK m \in Nat \ {0}, b \in Nat, i \in Nat \ {0} :
        m = MinHeight /\ b = BaseHeight /\ i = HeightInc /\ b <= m
  BY GeometryAssumption
<1>4. max >= m + i - 1
  BY <1>1, <1>2, <1>3 DEF Roomy
<1>5. Fit(u, h) = t + Stepped(Within(h - t, m, max), m, max)
  BY <1>1, <1>2, <1>3, <1>4 DEF Fit
<1>6. PICK y \in Int : y = Within(h - t, m, max) /\ y >= m /\ y <= max
  BY <1>3, <1>4 DEF Within
<1>7. PICK z \in Nat : z = y - b
  BY <1>3, <1>6
<1>8. PICK q \in Int : z = i * q + (z % i) /\ z % i \in 0..(i - 1) /\ q = z \div i
  <2>1. z \div i \in Int /\ z = i * (z \div i) + (z % i)
    OBVIOUS
  <2>2. z % i \in 0..(i - 1)
    OBVIOUS
  <2> QED
    BY <2>1, <2>2
<1>9. Div(y - b, i) = q
  BY <1>7, <1>8 DEF Div
<1>10. PICK p \in Int : p = q * i /\ p = i * q
  OBVIOUS
<1>11. PICK r \in Int : r = p + b /\ r <= y /\ r > y - i
  <2>1. PICK x \in 0..(i - 1) : x = z % i
    BY <1>8
  <2>2. z = p + x
    BY <1>8, <1>10, <2>1
  <2> QED
    BY <1>3, <1>7, <2>1, <2>2
<1>12. Stepped(y, m, max) =
         LET up == IF r < m THEN r + i ELSE r
         IN IF up > max THEN up - i ELSE up
  BY <1>3, <1>9, <1>10, <1>11 DEF Stepped
<1>13. Stepped(y, m, max) \in Int /\ Stepped(y, m, max) >= m
  BY <1>3, <1>4, <1>6, <1>11, <1>12
<1> QED
  BY <1>1, <1>3, <1>5, <1>6, <1>13

\* The decoration is the one that the style gives.
Suits(u) ==
  /\ u.border = IF u.shaped \/ u.full THEN 0 ELSE u.style.border
  /\ u.title = IF u.full THEN 0 ELSE u.style.title
  /\ u.dir = u.style.dir

\* Height of the decoration that the window has when it does not fill the screen.
StyleTotal(u) ==
  2 * (IF u.shaped THEN 0 ELSE u.style.border)
    + (IF u.style.dir = "W" THEN 0 ELSE u.style.title)

\* Flags that go together, the limit and decoration of the style, and clients
\* with a height in each geometry.
Sound(u) ==
  /\ u.full => u.maximized /\ ~u.shaded
  /\ ~u.full => ~u.saved.wasMax
  /\ u.limit = u.style.max
  /\ Suits(u)
  /\ u.normal.h > Total(u)
  /\ u.maximized => u.max.h > Total(u)
  /\ u.full /\ u.saved.wasMax => u.saved.max.h > StyleTotal(u)

\* The height of the decoration that the style gives.
LEMMA SuitsTotal ==
  ASSUME NEW u \in Windows, Suits(u)
  PROVE  /\ ~u.full => Total(u) = StyleTotal(u)
         /\ u.full => Total(u) = 0 /\ Top(u) = 0
         /\ StyleTotal(u) \in Nat
<1>1. u.style.border \in Nat /\ u.style.title \in Nat
  BY Fields, StyleFields
<1> QED
  BY <1>1 DEF Suits, Total, Top, StyleTotal

\* A window of the style has the style's room.
LEMMA SuitsRoomy ==
  ASSUME RoomForClient, NEW u \in Windows, Suits(u), u.limit = u.style.max
  PROVE  Roomy(u)
<1>1. PICK s \in Styles : s = u.style
  BY Fields
<1>2. s.border \in Nat /\ s.title \in Nat /\ s.max \in Nat
  BY StyleFields
<1>3. s.max >= 2 * s.border + s.title + MinHeight + HeightInc - 1
  BY DEF RoomForClient
<1>4. Total(u) \in Nat /\ Total(u) <= 2 * s.border + s.title
  BY <1>1, <1>2 DEF Suits, Total
<1>5. MinHeight \in Nat /\ HeightInc \in Nat
  BY GeometryAssumption
<1> QED
  BY <1>1, <1>2, <1>3, <1>4, <1>5 DEF Roomy

\* t is like u in what its size depends on.
SameLook(t, u) ==
  /\ t.maximized = u.maximized /\ t.full = u.full /\ t.saved = u.saved
  /\ t.border = u.border /\ t.title = u.title /\ t.dir = u.dir
  /\ t.shaped = u.shaped /\ t.gravity = u.gravity /\ t.style = u.style /\ t.limit = u.limit

\* Windows that differ in geometry only look alike.
LEMMA MannerLook ==
  ASSUME NEW u, NEW t, SameManner(t, u)
  PROVE  SameLook(t, u) /\ t.shaded = u.shaded
BY DEF SameManner, SameLook

\* SameLook is transitive.
LEMMA LookTrans ==
  ASSUME NEW u, NEW t, NEW s, SameLook(s, t), SameLook(t, u)
  PROVE  SameLook(s, u)
BY DEF SameLook

\* What looks alike has decoration of the same height and as much room.
LEMMA LookTotal ==
  ASSUME NEW u, NEW t, SameLook(t, u)
  PROVE  /\ Total(t) = Total(u) /\ StyleTotal(t) = StyleTotal(u) /\ (Suits(u) => Suits(t))
         /\ (Roomy(u) => Roomy(t))
BY DEF SameLook, Total, StyleTotal, Suits, Roomy

\* What looks like a sound window is sound if its clients have a height.
LEMMA SoundFrom ==
  ASSUME NEW u, NEW t, SameLook(t, u), t.full => ~t.shaded, Sound(u),
         t.normal.h > Total(u), u.maximized => t.max.h > Total(u)
  PROVE  Sound(t)
<1>1. Total(t) = Total(u) /\ StyleTotal(t) = StyleTotal(u) /\ Suits(t)
  BY LookTotal DEF Sound
<1>2. /\ t.full = u.full /\ t.maximized = u.maximized
      /\ t.saved = u.saved /\ t.limit = u.limit /\ t.style = u.style
  BY DEF SameLook
<1> QED
  BY <1>1, <1>2 DEF Sound

-----------------------------------------------------------------------------
(* Places. *)

\* The same place on whatever page.
Alike(g, k) == g.h = k.h /\ Shift(g.y, k.y)

\* Alike is reflexive ...
LEMMA AlikeSame ==
  ASSUME NEW g \in Rectangles
  PROVE  Alike(g, g)
BY ShiftSame DEF Alike, Rectangles

\* ... and transitive.
LEMMA AlikeTrans ==
  ASSUME NEW g \in Rectangles, NEW k \in Rectangles, NEW l \in Rectangles,
         Alike(g, k), Alike(k, l)
  PROVE  Alike(g, l)
<1>1. g.y \in Int /\ k.y \in Int /\ l.y \in Int
  BY DEF Rectangles
<1> QED
  BY <1>1, ShiftTrans DEF Alike

\* Place in terms of Ref.
LEMMA PlaceIs ==
  ASSUME NEW gravity, NEW u, NEW g
  PROVE  Place(gravity, u, g) = [ref |-> Ref(gravity, g) % DisplayHeight, h |-> g.h - Total(u)]
BY DEF Place, Ref

\* Rectangles that are alike have alike points.
LEMMA RefShift ==
  ASSUME NEW gravity \in {-1, 0, 1}, NEW g \in Rectangles, NEW k \in Rectangles, Alike(g, k)
  PROVE  Shift(Ref(gravity, g), Ref(gravity, k))
<1>1. g.y \in Int /\ k.y \in Int /\ g.h \in Int /\ g.h = k.h /\ Shift(g.y, k.y)
  BY DEF Rectangles, Alike
<1>2. (gravity + 1) * (g.h - 1) \in Int
  BY <1>1
<1>3. PICK x \in Int : x = Div((gravity + 1) * (g.h - 1), 2)
  BY <1>2, Integral
<1>4. Shift(g.y + x, k.y + x)
  BY <1>1, ShiftSame, ShiftSum
<1>5. Ref(gravity, g) = g.y + x /\ Ref(gravity, k) = k.y + x
  BY <1>1, <1>3 DEF Ref
<1> QED
  BY <1>4, <1>5

\* They have the same place, around the same decoration.
LEMMA PlaceAlike ==
  ASSUME NEW gravity \in {-1, 0, 1}, NEW u, NEW t, Total(u) = Total(t),
         NEW g \in Rectangles, NEW k \in Rectangles, Alike(g, k)
  PROVE  Place(gravity, u, g) = Place(gravity, t, k)
<1>1. Ref(gravity, g) \in Int /\ Ref(gravity, k) \in Int
  BY RefIs
<1>2. Ref(gravity, g) % DisplayHeight = Ref(gravity, k) % DisplayHeight
  BY <1>1, RefShift, ShiftMod
<1> QED
  BY <1>2, PlaceIs DEF Alike

\* So have windows with alike geometries.
LEMMA PlacesAlike ==
  ASSUME NEW u \in Windows, NEW t \in Windows, SameLook(t, u)
  PROVE  /\ Alike(t.normal, u.normal) => Home(t) = Home(u)
         /\ Alike(t.max, u.max) => There(t) = There(u)
<1>1. Total(t) = Total(u) /\ t.gravity = u.gravity
  BY LookTotal DEF SameLook
<1>2. u.gravity \in {-1, 0, 1} /\ -1 \in {-1, 0, 1}
  BY Fields
<1>3. t.normal \in Rectangles /\ u.normal \in Rectangles /\ t.max \in Rectangles /\ u.max \in Rectangles
  BY Fields
<1> QED
  BY <1>1, <1>2, <1>3, PlaceAlike DEF Home, There

-----------------------------------------------------------------------------
(* The invariant, as a predicate of the window, the page and the histories. *)

\* The place to which a window returns that fills the screen.
SavedPlace(u) == [ref |-> u.saved.max.y % DisplayHeight, h |-> u.saved.max.h - StyleTotal(u)]

\* The window u is sound, is shown by its frame on page v, and is at the places
\* h and t that the histories remember.
Good(u, v, h, t) ==
  /\ u \in Windows /\ Sound(u) /\ Agrees(u, v)
  /\ Home(u) = h
  /\ u.maximized => Near(u)
  /\ u.maximized /\ ~u.full => There(u) = t
  /\ u.full /\ u.saved.wasMax => t = SavedPlace(u)

\* The place that is remembered for a window.
Recalls(R, place, t, s) ==
  /\ R.maximized /\ ~R.full => s = place
  /\ R.full /\ R.saved.wasMax => s = t

\* The history remembers a place when the window has it or will have it again.
LEMMA RememberedRecalls ==
  ASSUME NEW R \in Windows, NEW place
  PROVE  Recalls(R, place, there, Remembered(R, place))
BY DEF Recalls, Remembered

\* R is u, but on some page, with the normal geometry near the maximized one.
Moves(R, u, v) ==
  /\ R \in Windows /\ SameLook(R, u) /\ (R.full => ~R.shaded) /\ Agrees(R, v)
  /\ Alike(R.normal, u.normal)
  /\ u.maximized => Alike(R.max, u.max) /\ Near(R)

\* A window that is only moved to some page stays good.
LEMMA MovesGood ==
  ASSUME NEW u, NEW R, NEW v, NEW v2, NEW h, NEW t, NEW s, Good(u, v, h, t), Moves(R, u, v2),
         Recalls(R, t, t, s)
  PROVE  Good(R, v2, h, s)
<1>1. u \in Windows /\ R \in Windows /\ SameLook(R, u) /\ Sound(u) /\ (R.full => ~R.shaded)
  BY DEF Good, Moves
<1>2. /\ R.full = u.full /\ R.maximized = u.maximized /\ R.saved = u.saved
      /\ StyleTotal(R) = StyleTotal(u)
  BY <1>1, LookTotal DEF SameLook
<1>3. R.normal.h = u.normal.h /\ (u.maximized => R.max.h = u.max.h)
  BY DEF Moves, Alike
<1>4. Sound(R)
  BY <1>1, <1>3, SoundFrom DEF Sound
<1>5. Home(R) = Home(u) /\ (u.maximized => There(R) = There(u))
  BY <1>1, PlacesAlike DEF Moves
<1>6. SavedPlace(R) = SavedPlace(u)
  BY <1>2 DEF SavedPlace
<1> QED
  BY <1>2, <1>4, <1>5, <1>6 DEF Good, Moves, Recalls

\* What only changes the frame or leaves the window alone.
LEMMA FrameMoves ==
  ASSUME NEW u \in Windows, NEW R, NEW v, OnlyFrame(R, u), Agrees(R, v),
         u.maximized => Near(u), u.full => ~u.shaded
  PROVE  Moves(R, u, v)
<1>1. R \in Windows /\ SameManner(R, u) /\ R.normal = u.normal /\ R.max = u.max
      /\ R.offset = u.offset
  BY DEF OnlyFrame, OnlyCurrent
<1>4. SameLook(R, u) /\ (R.full => ~R.shaded)
  BY <1>1, MannerLook DEF SameLook
<1>2. Alike(R.normal, u.normal) /\ Alike(R.max, u.max)
  BY <1>1, AlikeSame, Fields
<1>3. Near(R) <=> Near(u)
  BY <1>1 DEF Near, Apart
<1> QED
  BY <1>1, <1>2, <1>3, <1>4 DEF Moves

\* maximize_adjust_offset
LEMMA AdjustNear ==
  ASSUME NEW u \in Windows, u.maximized, NEW R, R = AdjustOffset(u)
  PROVE  /\ R \in Windows /\ SameManner(R, u) /\ R.max = u.max /\ R.frame = u.frame
         /\ Alike(R.normal, u.normal) /\ Near(R)
<1>1. PICK d \in Nat \ {0} : d = DisplayHeight
  BY GeometryAssumption
<1>2. PICK a \in Int : a = Apart(u)
  BY Fields DEF Apart, Rectangles
<1>3. u.normal \in Rectangles /\ u.normal.y \in Int /\ u.max.y \in Int /\ u.offset \in Int
  BY Fields DEF Rectangles
<1>4. PICK q \in Int : q = Div(a, d) /\ a - q * d \in (1 - d)..(d - 1)
  <2>1. CASE a < 0
    <3>1. PICK b \in Nat : b = -a
      BY <2>1
    <3>2. b \div d \in Int /\ b = d * (b \div d) + (b % d)
      OBVIOUS
    <3>3. b % d \in 0..(d - 1)
      OBVIOUS
    <3>4. PICK p \in Int, x \in 0..(d - 1) : p = b \div d /\ x = b % d /\ b = d * p + x
      BY <3>2, <3>3
    <3>5. PICK q \in Int : q = -p
      OBVIOUS
    <3>6. q * d = -(d * p)
      BY <3>5
    <3>7. a - q * d = -x
      BY <3>1, <3>4, <3>6
    <3>8. Div(a, d) = q
      BY <2>1, <3>1, <3>4, <3>5 DEF Div
    <3>9. -x \in (1 - d)..(d - 1)
      OBVIOUS
    <3> QED
      BY <3>7, <3>8, <3>9
  <2>2. CASE ~(a < 0)
    <3>2. a \div d \in Int /\ a = d * (a \div d) + (a % d)
      OBVIOUS
    <3>3. a % d \in 0..(d - 1)
      OBVIOUS
    <3>4. PICK q \in Int, x \in 0..(d - 1) : q = a \div d /\ x = a % d /\ a = d * q + x
      BY <3>2, <3>3
    <3>5. q * d = d * q
      OBVIOUS
    <3>6. a - q * d = x
      BY <3>4, <3>5
    <3>7. Div(a, d) = q
      BY <2>2, <3>4 DEF Div
    <3>8. x \in (1 - d)..(d - 1)
      OBVIOUS
    <3> QED
      BY <3>6, <3>7, <3>8
  <2> QED
    BY <2>1, <2>2
<1>5. PICK x \in Int : x = q * d
  OBVIOUS
<1>6. PICK y \in Int : y = u.normal.y - x
  BY <1>3
<1>7. PICK g : g = [u.normal EXCEPT !.y = y]
  OBVIOUS
<1>8. g \in Rectangles /\ g.y = y /\ g.h = u.normal.h
  BY <1>3, <1>7, AtIs
<1>9. R = [u EXCEPT !.normal = g]
  BY <1>1, <1>2, <1>4, <1>5, <1>6, <1>7 DEF AdjustOffset
<1>10. /\ R \in Windows /\ SameManner(R, u) /\ R.max = u.max /\ R.frame = u.frame
       /\ R.normal = g /\ R.offset = u.offset
  BY <1>8, <1>9, NormalIs
<1>11. Shift(y, u.normal.y)
  <2>1. PICK m \in Int : m = -q
    OBVIOUS
  <2>2. m * d = -(q * d)
    BY <2>1
  <2>3. y = u.normal.y + m * d
    BY <1>3, <1>5, <1>6, <2>2
  <2> QED
    BY <1>1, <2>3 DEF Shift
<1>12. Apart(R) = a - x
  BY <1>2, <1>3, <1>6, <1>8, <1>10 DEF Apart
<1>13. Near(R)
  BY <1>1, <1>4, <1>5, <1>12 DEF Near
<1> QED
  BY <1>8, <1>10, <1>11, <1>13 DEF Alike

-----------------------------------------------------------------------------
(* Operations that move the window or its frame. *)

\* R is u moved by x.
MovedBy(R, u, x, v) ==
  /\ R \in Windows /\ SameManner(R, u) /\ Agrees(R, v)
  /\ ~u.maximized => R.normal.h = u.normal.h /\ R.normal.y = u.normal.y + x
  /\ u.maximized => /\ R.max.h = u.max.h /\ R.max.y = u.max.y + x
                    /\ Alike(R.normal, u.normal) /\ Near(R)

\* Move moves a window by as much as its frame, and the other geometry by pages.
LEMMA MovedMoves ==
  ASSUME NEW u \in Windows, NEW v \in Int, NEW y \in Int, Agrees(u, v), NEW R, R = Moved(u, v, y)
  PROVE  MovedBy(R, u, y - u.frame.y, v)
<1>1. u.frame \in Rectangles /\ u.frame.y \in Int /\ u.shadeDir \in {"N", "S", "SW", "W"}
  BY Fields DEF Rectangles
<1>2. PICK x \in Int : x = y - u.frame.y
  BY <1>1
<1>3. PICK g \in Rectangles : /\ g = Relative(Current(u), v) /\ g.h = Current(u).h
        /\ g.y = Current(u).y - v /\ g.y \in Int /\ g.h \in Int /\ Current(u).y \in Int
  BY RelativeFramed DEF Rectangles
<1>4. u.frame = Framed(u, g)
  BY <1>3, RelativeFramed DEF Agrees
<1>5. PICK z \in Int : z = g.y + x
  BY <1>3
<1>6. PICK k : k = [g EXCEPT !.y = z]
  OBVIOUS
<1>7. k \in Rectangles /\ k.y = g.y + x /\ k.h = g.h
  BY <1>5, <1>6, AtIs
<1>8. PICK f : f = [u.frame EXCEPT !.y = y]
  OBVIOUS
<1>9. f \in Rectangles /\ f.y = u.frame.y + x /\ f.h = u.frame.h
  BY <1>1, <1>2, <1>8, AtIs
<1>10. PICK l \in Rectangles : l = Framed(u, k)
  BY <1>7, FramedTypes
<1>11. l.y = u.frame.y + x /\ l.h = u.frame.h
  <2>1. CASE u.shaded
    <3>1. Shade(u, u.shadeDir, k).y = Shade(u, u.shadeDir, g).y + x
          /\ Shade(u, u.shadeDir, k).h = Shade(u, u.shadeDir, g).h
      BY <1>1, <1>7, ShadeMoves
    <3> QED
      BY <1>4, <1>10, <2>1, <3>1 DEF Framed
  <2>2. CASE ~u.shaded
    BY <1>4, <1>7, <1>10, <2>2 DEF Framed
  <2> QED
    BY <2>1, <2>2
<1>12. f = Framed(u, k)
  BY <1>9, <1>10, <1>11, SameRectangle
<1>13. Upright(u, k)
  BY <1>3, <1>7 DEF Upright
<1>14. PICK t : t = UpdateAbsolute(FrameSetup(u, v, f), v)
  OBVIOUS
<1>15. Lands(t, u, k, v)
  BY <1>7, <1>12, <1>13, <1>14, SettleLands
<1>16. t \in Windows /\ SameManner(t, u) /\ Agrees(t, v) /\ OnlyCurrent(t, u)
  BY <1>15 DEF Lands, OnlyCurrent
<1>17. Current(t).y = Current(u).y + x /\ Current(t).h = Current(u).h
  BY <1>3, <1>7, <1>15 DEF Lands
<1>18. R = AdjustOffset(t)
  BY <1>8, <1>14 DEF Moved
<1>19. R \in Windows /\ SameManner(R, u) /\ Agrees(R, v)
  BY <1>16, <1>18, AdjustIs, Manners
<1>20. CASE ~u.maximized
  <2>1. ~t.maximized /\ R = t
    BY <1>16, <1>18, <1>20 DEF AdjustOffset, SameManner
  <2>2. R.normal.h = u.normal.h /\ R.normal.y = u.normal.y + x
    BY <1>17, <1>20, <2>1 DEF Current
  <2> QED
    BY <1>2, <1>19, <1>20, <2>2 DEF MovedBy
<1>21. CASE u.maximized
  <2>1. t.maximized
    BY <1>16, <1>21 DEF SameManner
  <2>2. R.max = t.max /\ Alike(R.normal, t.normal) /\ Near(R)
    BY <1>16, <1>18, <2>1, AdjustNear
  <2>3. t.normal = u.normal
    BY <1>16, <1>21 DEF OnlyCurrent
  <2>4. t.max.h = u.max.h /\ t.max.y = u.max.y + x
    BY <1>17, <1>21, <2>1 DEF Current
  <2> QED
    BY <1>2, <1>19, <1>21, <2>2, <2>3, <2>4 DEF MovedBy
<1> QED
  BY <1>20, <1>21

\* A window moves into a page by a number of pages.
LEMMA IntoPageShift ==
  ASSUME NEW g \in Rectangles, NEW p \in Int, Shift(p, 0)
  PROVE  IntoPage(g, p) \in Int /\ Shift(IntoPage(g, p) - g.y, 0)
<1>1. PICK d \in Nat \ {0} : d = DisplayHeight
  BY GeometryAssumption
<1>2. PICK y \in Int : y = g.y
  BY DEF Rectangles
<1>3. PICK k \in Int : p = 0 + k * d
  BY <1>1 DEF Shift
<1>4. PICK q \in Int : y = d * q + (y % d) /\ y % d \in 0..(d - 1)
  BY ModOf
<1>5. PICK x \in 0..(d - 1) : x = y % d
  BY <1>4
<1>6. PICK m \in Int : m = k - q
  OBVIOUS
<1>7. m * d = k * d - d * q
  BY <1>6
<1>8. PICK z \in Int : z = p + x - y /\ z = 0 + m * d
  <2>1. PICK A \in Int, B \in Int, C \in Int : A = k * d /\ B = d * q /\ C = m * d
    OBVIOUS
  <2>2. p = A /\ y = B + x /\ C = A - B
    BY <1>3, <1>4, <1>5, <1>7, <2>1
  <2> QED
    BY <2>1, <2>2
<1>9. y - y = 0
  OBVIOUS
<1>10. IntoPage(g, p) = y \/ IntoPage(g, p) = p + x
  BY <1>1, <1>2, <1>5 DEF IntoPage
<1>11. Shift(p + x - y, 0) /\ Shift(y - y, 0)
  <2>1. Shift(z, 0)
    BY <1>1, <1>8 DEF Shift
  <2>2. Shift(0, 0)
    BY ShiftSame
  <2> QED
    BY <1>8, <1>9, <2>1, <2>2
<1> QED
  BY <1>2, <1>10, <1>11

\* What is moved by whole pages is where it was.
LEMMA PageMoves ==
  ASSUME NEW u \in Windows, NEW R, NEW v, NEW x \in Int, MovedBy(R, u, x, v), Shift(x, 0),
         u.full => ~u.shaded
  PROVE  Moves(R, u, v)
<1>1. R \in Windows /\ SameLook(R, u) /\ (R.full => ~R.shaded) /\ Agrees(R, v)
  BY MannerLook DEF MovedBy, SameLook
<1>2. /\ u.normal \in Rectangles /\ u.max \in Rectangles
      /\ u.normal.y \in Int /\ u.max.y \in Int
  BY Fields DEF Rectangles
<1>3. Shift(u.normal.y + x, u.normal.y) /\ Shift(u.max.y + x, u.max.y)
  <2>1. ASSUME NEW a \in Int PROVE Shift(a + x, a)
    <3>1. Shift(a, a)
      BY ShiftSame
    <3>2. Shift(a + x, a + 0)
      BY <3>1, ShiftSum
    <3> QED
      BY <3>2
  <2> QED
    BY <1>2, <2>1
<1>4. CASE ~u.maximized
  <2>1. Alike(R.normal, u.normal)
    BY <1>2, <1>3, <1>4 DEF MovedBy, Alike
  <2> QED
    BY <1>1, <1>4, <2>1 DEF Moves
<1>5. CASE u.maximized
  <2>1. Alike(R.max, u.max)
    BY <1>2, <1>3, <1>5 DEF MovedBy, Alike
  <2> QED
    BY <1>1, <1>5, <2>1 DEF Moves, MovedBy
<1> QED
  BY <1>4, <1>5

\* No move is a move.
LEMMA MovesSame ==
  ASSUME NEW u \in Windows, NEW v, Agrees(u, v), u.maximized => Near(u), u.full => ~u.shaded
  PROVE  Moves(u, u, v)
<1>1. Alike(u.normal, u.normal) /\ Alike(u.max, u.max)
  BY AlikeSame, Fields
<1> QED
  BY <1>1 DEF Moves, SameLook

\* MoveToPage moves by pages.
LEMMA ToPageMoves ==
  ASSUME NEW u \in Windows, NEW v \in Pages, NEW p \in Pages, Agrees(u, v),
         u.maximized => Near(u), u.full => ~u.shaded, NEW R, R = MovedToPage(u, v, p)
  PROVE  Moves(R, u, v)
<1>1. CASE u.sticky
  BY <1>1, MovesSame DEF MovedToPage
<1>2. CASE ~u.sticky
  <2>0. p \in Int /\ v \in Int /\ Shift(p, v)
    BY PageShift
  <2>i. Shift(v, v)
    BY <2>0, ShiftSame
  <2>1. p \in Int /\ v \in Int /\ p - v \in Int /\ Shift(p - v, v - v)
    BY <2>0, <2>i, ShiftSum
  <2>2. v - v = 0
    BY <2>1
  <2>3. u.frame \in Rectangles /\ u.frame.y \in Int
    BY Fields DEF Rectangles
  <2>4. PICK y \in Int : y = IntoPage(u.frame, p - v) /\ Shift(y - u.frame.y, 0)
    BY <2>1, <2>2, <2>3, IntoPageShift
  <2>5. R = Moved(u, v, y)
    BY <1>2, <2>4 DEF MovedToPage
  <2>6. MovedBy(R, u, y - u.frame.y, v) /\ y - u.frame.y \in Int
    BY <2>1, <2>3, <2>5, MovedMoves
  <2> QED
    BY <2>4, <2>6, PageMoves
<1> QED
  BY <1>1, <1>2

\* Only the frame and what it depends on change, so that the window is where it was.
LEMMA StillMoves ==
  ASSUME NEW u \in Windows, NEW R \in Windows, NEW v, SameLook(R, u), R.full => ~R.shaded,
         Agrees(R, v), R.normal = u.normal, R.max = u.max, R.offset = u.offset,
         u.maximized => Near(u)
  PROVE  Moves(R, u, v)
<1>1. Alike(R.normal, u.normal) /\ Alike(R.max, u.max)
  BY AlikeSame, Fields
<1>2. Near(R) <=> Near(u)
  BY DEF Near, Apart
<1> QED
  BY <1>1, <1>2 DEF Moves

\* CMD_WindowShade keeps the geometry; so does what unshades.
Kept(R, u) ==
  /\ R \in Windows /\ SameLook(R, u) /\ R.sticky = u.sticky
  /\ R.normal = u.normal /\ R.max = u.max /\ R.offset = u.offset /\ R.defect = u.defect

\* The unshaded frame is where the geometry is.
LEMMA UnshadedIs ==
  ASSUME NEW u \in Windows, NEW v \in Int, Agrees(u, v)
  PROVE  Unshaded(u, v) = Relative(Current(u), v)
BY DEF Unshaded, Agrees, UpdateRelative

\* What lands where it was is kept.
LEMMA OnlyCurrentKept ==
  ASSUME NEW u \in Windows, NEW s \in Windows, SameLook(s, u), s.sticky = u.sticky,
         s.normal = u.normal, s.max = u.max, s.offset = u.offset, s.defect = u.defect,
         NEW R, OnlyCurrent(R, s), Current(R).y = Current(u).y, Current(R).h = Current(u).h
  PROVE  Kept(R, u)
<1>1. R \in Windows /\ SameManner(R, s) /\ R.offset = s.offset /\ R.defect = s.defect
  BY DEF OnlyCurrent
<1>2. SameLook(R, u) /\ R.sticky = u.sticky /\ R.maximized = u.maximized /\ s.maximized = u.maximized
  BY <1>1 DEF SameManner, SameLook
<1>3. Current(R) = Current(u)
  BY <1>1, CurrentTypes, SameRectangle
<1>4. R.normal = u.normal /\ R.max = u.max
  BY <1>2, <1>3 DEF OnlyCurrent, Current
<1> QED
  BY <1>1, <1>2, <1>4 DEF Kept

\* Shading keeps the geometry ...
LEMMA ShadedToKept ==
  ASSUME NEW u \in Windows, NEW v \in Int, NEW dir \in {"N", "S", "SW", "W"}, Agrees(u, v),
         NEW R, R = ShadedTo(u, v, dir)
  PROVE  Kept(R, u) /\ Agrees(R, v)
<1>1. PICK k \in Rectangles : k = Relative(Current(u), v) /\ k.h = Current(u).h
        /\ k.y = Current(u).y - v /\ Current(u).y \in Int
  BY RelativeFramed
<1>2. k = Unshaded(u, v)
  BY <1>1, UnshadedIs
<1>3. PICK f \in Rectangles : f = Shade(u, dir, k)
  BY ShadeTypes
<1>4. PICK s : s = [u EXCEPT !.shaded = TRUE, !.shadeDir = dir, !.frame = f]
  OBVIOUS
<1>5. /\ s \in Windows /\ s.frame = f /\ s.shaded /\ s.shadeDir = dir /\ SameLook(s, u)
      /\ s.sticky = u.sticky /\ s.normal = u.normal /\ s.max = u.max
      /\ s.offset = u.offset /\ s.defect = u.defect
  BY <1>4 DEF Windows, SameLook
<1>6. Total(s) = Total(u) /\ s.border = u.border /\ Current(s) = Current(u)
  BY <1>5 DEF SameLook, Total, Current
<1>7. s.frame = Framed(s, k) /\ Upright(s, k)
  BY <1>1, <1>3, <1>5, <1>6 DEF Framed, Upright, Shade
<1>8. R = UpdateAbsolute(s, v)
  BY <1>2, <1>3, <1>4 DEF ShadedTo
<1>9. Lands(R, s, k, v)
  BY <1>5, <1>7, <1>8, AbsoluteLands
<1>10. OnlyCurrent(R, s) /\ Current(R).y = Current(u).y /\ Current(R).h = Current(u).h /\ Agrees(R, v)
  BY <1>1, <1>9 DEF Lands
<1> QED
  BY <1>5, <1>10, OnlyCurrentKept

\* ... and so does unshading.
LEMMA UnshadeKept ==
  ASSUME NEW u \in Windows, NEW v \in Int, Agrees(u, v), NEW R, R = Unshade(u, v)
  PROVE  Kept(R, u) /\ Agrees(R, v) /\ ~R.shaded
<1>1. PICK k \in Rectangles : k = Relative(Current(u), v) /\ k.h = Current(u).h
        /\ k.y = Current(u).y - v /\ Current(u).y \in Int
  BY RelativeFramed
<1>2. k = Unshaded(u, v)
  BY <1>1, UnshadedIs
<1>4. PICK s : s = [u EXCEPT !.shaded = FALSE, !.frame = k]
  OBVIOUS
<1>5. /\ s \in Windows /\ s.frame = k /\ ~s.shaded /\ SameLook(s, u)
      /\ s.sticky = u.sticky /\ s.normal = u.normal /\ s.max = u.max
      /\ s.offset = u.offset /\ s.defect = u.defect
  BY <1>4 DEF Windows, SameLook
<1>7. s.frame = Framed(s, k) /\ Upright(s, k)
  BY <1>5 DEF Framed, Upright
<1>8. R = UpdateAbsolute(s, v)
  BY <1>2, <1>4 DEF Unshade
<1>9. Lands(R, s, k, v)
  BY <1>5, <1>7, <1>8, AbsoluteLands
<1>10. OnlyCurrent(R, s) /\ Current(R).y = Current(u).y /\ Current(R).h = Current(u).h /\ Agrees(R, v)
  BY <1>1, <1>9 DEF Lands
<1>11. ~R.shaded
  BY <1>5, <1>10 DEF OnlyCurrent, SameManner
<1> QED
  BY <1>5, <1>10, <1>11, OnlyCurrentKept

\* What is kept has not moved.
LEMMA KeptMoves ==
  ASSUME NEW u \in Windows, NEW R, NEW v, Kept(R, u), Agrees(R, v), R.full => ~R.shaded,
         u.maximized => Near(u)
  PROVE  Moves(R, u, v)
BY StillMoves DEF Kept

\* Nor has what becomes sticky or stops being so.
LEMMA StickyKept ==
  ASSUME NEW u \in Windows, NEW v \in Int, Agrees(u, v), NEW b \in BOOLEAN,
         u.maximized => Near(u), u.full => ~u.shaded, NEW R, R = [u EXCEPT !.sticky = b]
  PROVE  Moves(R, u, v)
<1>1. R \in Windows /\ Agrees(R, v) /\ R.shaded = u.shaded
  BY StickyIs
<1>2. SameLook(R, u) /\ R.normal = u.normal /\ R.max = u.max /\ R.offset = u.offset /\ R.full = u.full
  BY DEF Windows, SameLook
<1> QED
  BY <1>1, <1>2, StillMoves

\* Two moves make a move.
LEMMA MovesTrans ==
  ASSUME NEW u \in Windows, NEW t, NEW s, NEW v, NEW x, Moves(t, u, v), Moves(s, t, x)
  PROVE  Moves(s, u, x)
<1>1. t \in Windows /\ s \in Windows /\ SameLook(s, u) /\ t.maximized = u.maximized
  BY LookTrans DEF Moves, SameLook
<1>2. Alike(s.normal, u.normal)
  BY <1>1, AlikeTrans, Fields DEF Moves
<1>3. u.maximized => Alike(s.max, u.max)
  BY <1>1, AlikeTrans, Fields DEF Moves
<1> QED
  BY <1>1, <1>2, <1>3 DEF Moves

\* stick_across_pages moves by pages.
LEMMA StuckMoves ==
  ASSUME NEW u \in Windows, NEW v \in Pages, Agrees(u, v),
         u.maximized => Near(u), u.full => ~u.shaded, NEW R, R = Stuck(u, v)
  PROVE  Moves(R, u, v)
<1>1. PICK t : t = IF OnPage(u.frame) THEN u ELSE MovedToPage(u, v, v)
  OBVIOUS
<1>2. Moves(t, u, v)
  BY <1>1, ToPageMoves, MovesSame
<1>3. R = [t EXCEPT !.sticky = TRUE]
  BY <1>1 DEF Stuck
<1>4. /\ t \in Windows /\ Agrees(t, v) /\ (t.full => ~t.shaded) /\ (t.maximized => Near(t))
      /\ v \in Int
  BY <1>2, PageShift DEF Moves, SameLook
<1>5. Moves(R, t, v)
  BY <1>3, <1>4, StickyKept
<1> QED
  BY <1>2, <1>5, MovesTrans

\* MoveViewport moves by pages.
LEMMA PagedMoves ==
  ASSUME NEW u \in Windows, NEW old \in Pages, NEW new \in Pages, Agrees(u, old),
         u.maximized => Near(u), u.full => ~u.shaded, NEW R, R = Paged(u, old, new)
  PROVE  Moves(R, u, new)
<1>1. old \in Int /\ new \in Int /\ Shift(new, old)
  BY PageShift
<1>2. R \in Windows /\ Agrees(R, new)
  BY <1>1, PagedIs
<1>3. /\ u.normal \in Rectangles /\ u.max \in Rectangles /\ u.frame \in Rectangles
      /\ u.normal.y \in Int /\ u.max.y \in Int /\ u.frame.y \in Int
  BY Fields DEF Rectangles
<1>4. CASE u.sticky
  <2>y. PICK y \in Int, z \in Int : y = u.normal.y + new - old /\ z = u.max.y + new - old
    BY <1>1, <1>3
  <2>1. PICK n : n = [u.normal EXCEPT !.y = y]
    OBVIOUS
  <2>n. n \in Rectangles /\ n.y = y /\ n.h = u.normal.h
    BY <1>3, <2>1, AtIs
  <2>2. PICK x : x = [u.max EXCEPT !.y = z]
    OBVIOUS
  <2>x. x \in Rectangles /\ x.y = z /\ x.h = u.max.h
    BY <1>3, <2>2, AtIs
  <2>3. PICK t : t = [u EXCEPT !.normal = n]
    OBVIOUS
  <2>t. /\ t \in Windows /\ SameManner(t, u) /\ t.normal = n /\ t.max = u.max
        /\ t.offset = u.offset
    BY <2>n, <2>3, NormalIs
  <2>4. R = [t EXCEPT !.max = x]
    BY <1>4, <2>y, <2>1, <2>2, <2>3 DEF Paged
  <2>5. SameManner(R, t) /\ R.normal = n /\ R.max = x /\ R.offset = u.offset
    BY <2>x, <2>t, <2>4, MaxIs
  <2>6. SameManner(R, u)
    BY <2>t, <2>5, Manners
  <2>7. SameLook(R, u) /\ (R.full => ~R.shaded)
    BY <2>6, MannerLook DEF SameLook
  <2>8. Shift(y, u.normal.y) /\ Shift(z, u.max.y)
    <3>1. ASSUME NEW a \in Int PROVE Shift(a + new - old, a)
      <4>1. Shift(a, a)
        BY ShiftSame
      <4>2. Shift(a + new, a + old)
        BY <1>1, <4>1, ShiftSum
      <4>3. Shift(old, old)
        BY <1>1, ShiftSame
      <4>4. Shift(a + new - old, a + old - old)
        BY <1>1, <4>2, <4>3, ShiftSum
      <4>5. a + old - old = a
        BY <1>1
      <4> QED
        BY <4>4, <4>5
    <3> QED
      BY <1>3, <2>y, <3>1
  <2>9. Apart(R) = Apart(u)
    <3>1. u.offset \in Int
      BY Fields
    <3> QED
      BY <1>1, <1>3, <2>y, <2>n, <2>x, <2>5, <3>1 DEF Apart
  <2>10. Alike(R.normal, u.normal) /\ Alike(R.max, u.max)
    BY <2>n, <2>x, <2>5, <2>8 DEF Alike
  <2>11. u.maximized => Near(R)
    BY <2>9 DEF Near
  <2> QED
    BY <1>2, <2>7, <2>10, <2>11 DEF Moves
<1>5. CASE ~u.sticky
  <2>y. PICK y \in Int : y = u.frame.y + old - new
    BY <1>1, <1>3
  <2>1. PICK f : f = [u.frame EXCEPT !.y = y]
    OBVIOUS
  <2>f. f \in Rectangles /\ f.h = u.frame.h
    BY <1>3, <2>1, AtIs
  <2>2. R = FrameSetup(u, new, f)
    BY <1>5, <2>y, <2>1 DEF Paged
  <2>3. R = [u EXCEPT !.frame = f]
    BY <2>f, <2>2 DEF FrameSetup
  <2>4. OnlyFrame(R, u)
    BY <2>f, <2>3, FrameOnly
  <2> QED
    BY <1>2, <2>4, FrameMoves
<1> QED
  BY <1>4, <1>5

-----------------------------------------------------------------------------
(* Operations that change the decoration. *)

\* R is like u in everything but decoration and geometry.
SameStatus(R, u) ==
  /\ R.maximized = u.maximized /\ R.full = u.full /\ R.saved = u.saved
  /\ R.shaped = u.shaped /\ R.gravity = u.gravity /\ R.style = u.style /\ R.limit = u.limit
  /\ R.shaded = u.shaded /\ R.sticky = u.sticky

\* The normal geometry is where it was, around the same client.
NormalKept(R, u) ==
  /\ R.normal.h - Total(R) = u.normal.h - Total(u)
  /\ u.gravity # 0 \/ (Even(Total(R)) /\ u.normal.h > Total(u)) =>
       Ref(u.gravity, R.normal) = Ref(u.gravity, u.normal)

\* The maximized geometry is where it was, around the same client.
MaxKept(R, u) ==
  u.maximized => R.max.y = u.max.y /\ R.max.h - Total(R) = u.max.h - Total(u)

\* SameStatus is transitive.
LEMMA StatusTrans ==
  ASSUME NEW u, NEW t, NEW s, SameStatus(s, t), SameStatus(t, u)
  PROVE  SameStatus(s, u)
BY DEF SameStatus

\* SelectDecor changes the decoration only.
LEMMA DecoratedIs ==
  ASSUME NEW u \in Windows, NEW R, R = Decorated(u)
  PROVE  /\ R \in Windows /\ SameStatus(R, u) /\ Suits(R)
         /\ R.normal = u.normal /\ R.max = u.max /\ R.frame = u.frame
         /\ R.offset = u.offset /\ R.defect = u.defect
<1>1. R \in Windows
  BY DecoratedTypes
<1>2. /\ SameStatus(R, u) /\ R.normal = u.normal /\ R.max = u.max /\ R.frame = u.frame
      /\ R.offset = u.offset /\ R.defect = u.defect
  BY DEF Decorated, Windows, SameStatus
<1>3. /\ R.border = (IF u.shaped \/ u.full THEN 0 ELSE u.style.border)
      /\ R.title = (IF u.full THEN 0 ELSE u.style.title) /\ R.dir = u.style.dir
  BY DEF Decorated, Windows
<1>4. Suits(R)
  BY <1>2, <1>3 DEF Suits, SameStatus
<1> QED
  BY <1>1, <1>2, <1>4

\* New decoration is put around the client that was there.
LEMMA RedecoratedIs ==
  ASSUME NEW u \in Windows, NEW R, R = Redecorated(u)
  PROVE  /\ R \in Windows /\ SameStatus(R, u) /\ Suits(R) /\ R.offset = u.offset
         /\ NormalKept(R, u) /\ MaxKept(R, u)
<1>1. PICK d : d = Decorated(u)
  OBVIOUS
<1>2. /\ d \in Windows /\ SameStatus(d, u) /\ Suits(d)
      /\ d.normal = u.normal /\ d.max = u.max /\ d.offset = u.offset
  BY <1>1, DecoratedIs
<1>3. u.normal \in Rectangles /\ u.max \in Rectangles /\ u.gravity \in {-1, 0, 1} /\ -1 \in {-1, 0, 1}
  BY Fields
<1>4. PICK n : n = Dressed(u.gravity, d, Naked(u.gravity, u, u.normal))
  OBVIOUS
<1>n. /\ n \in Rectangles /\ n.h - Total(d) = u.normal.h - Total(u)
      /\ u.gravity # 0 \/ (Even(Total(d)) /\ u.normal.h > Total(u)) =>
           Ref(u.gravity, n) = Ref(u.gravity, u.normal)
  BY <1>2, <1>3, <1>4, DressedRef
<1>5. PICK m : m = Dressed(-1, d, Naked(-1, u, u.max))
  OBVIOUS
<1>m. /\ m \in Rectangles /\ m.h - Total(d) = u.max.h - Total(u)
      /\ Ref(-1, m) = Ref(-1, u.max)
  <2>1. -1 # 0
    OBVIOUS
  <2> QED
    BY <1>2, <1>3, <1>5, <2>1, DressedRef
<1>y. m.y = u.max.y
  BY <1>3, <1>m, RefIs
<1>6. PICK x \in Rectangles : x = IF u.maximized THEN m ELSE u.max
  BY <1>3, <1>m
<1>7. PICK e : e = [d EXCEPT !.normal = n]
  OBVIOUS
<1>8. R = [e EXCEPT !.max = x]
  <2>1. R = [d EXCEPT !.normal = Dressed(u.gravity, d, Naked(u.gravity, u, d.normal)),
              !.max = IF u.maximized THEN Dressed(-1, d, Naked(-1, u, d.max)) ELSE d.max]
    BY <1>1 DEF Redecorated, Windows
  <2> QED
    BY <1>2, <1>4, <1>5, <1>6, <1>7, <2>1
<1>9. e \in Windows /\ SameManner(e, d) /\ e.normal = n /\ e.offset = u.offset
  BY <1>2, <1>n, <1>7, NormalIs
<1>10. R \in Windows /\ SameManner(R, e) /\ R.normal = n /\ R.max = x /\ R.offset = u.offset
  BY <1>9, <1>8, MaxIs
<1>11. SameManner(R, d)
  BY <1>9, <1>10, Manners
<1>12. SameStatus(R, d) /\ SameLook(R, d)
  BY <1>11 DEF SameManner, SameStatus, SameLook
<1>13. SameStatus(R, u) /\ Suits(R) /\ Total(R) = Total(d)
  BY <1>2, <1>12, StatusTrans, LookTotal
<1>14. NormalKept(R, u)
  BY <1>n, <1>10, <1>13 DEF NormalKept
<1>15. MaxKept(R, u)
  BY <1>m, <1>y, <1>6, <1>10, <1>13 DEF MaxKept
<1> QED
  BY <1>10, <1>13, <1>14, <1>15

\* The title and the frame follow the decoration; the geometry does not change.
LEMMA ReframedKept ==
  ASSUME NEW u \in Windows, NEW v \in Int, NEW R, R = Reframed(u, v)
  PROVE  Kept(R, u) /\ R.shaded = u.shaded /\ Agrees(R, v)
<1>1. PICK f : f = IF u.shaded THEN FollowTitle(u) ELSE u
  OBVIOUS
<1>2. Kept(f, u) /\ f.shaded = u.shaded
  BY <1>1 DEF FollowTitle, Kept, Windows, SameLook
<1>3. f \in Windows
  BY <1>2 DEF Kept
<1>4. PICK g \in Rectangles : g = UpdateRelative(f, v)
  BY <1>3, RelativeTypes
<1>5. R = [f EXCEPT !.frame = g]
  BY <1>1, <1>4 DEF Reframed
<1>6. /\ R \in Windows /\ R.normal = f.normal /\ R.max = f.max
      /\ R.offset = f.offset /\ R.defect = f.defect /\ SameManner(R, f)
  BY <1>3, <1>5, FrameIs
<1>7. SameLook(R, u) /\ R.sticky = u.sticky /\ R.shaded = u.shaded
  BY <1>2, <1>6 DEF SameManner, Kept, SameLook
<1> QED
  BY <1>2, <1>6, <1>7, ReframedAgrees DEF Kept

\* Kept is transitive.
LEMMA KeptTrans ==
  ASSUME NEW u, NEW t, NEW s, Kept(t, u), Kept(s, t)
  PROVE  Kept(s, u)
BY LookTrans DEF Kept

\* What keeps the geometry keeps the client where it was.
LEMMA KeptGeometry ==
  ASSUME NEW u, NEW t, NEW R, Kept(R, t), R.shaded = t.shaded, SameStatus(t, u)
  PROVE  /\ SameStatus(R, u) /\ (Suits(t) => Suits(R)) /\ Total(R) = Total(t)
         /\ (NormalKept(t, u) => NormalKept(R, u)) /\ (MaxKept(t, u) => MaxKept(R, u))
         /\ Apart(R) = Apart(t)
<1>1. /\ SameLook(R, t) /\ R.normal = t.normal /\ R.max = t.max /\ R.offset = t.offset
      /\ R.sticky = t.sticky
  BY DEF Kept
<1>2. SameStatus(R, u)
  BY <1>1 DEF SameLook, SameStatus
<1>3. Total(R) = Total(t) /\ (Suits(t) => Suits(R))
  BY <1>1, LookTotal
<1> QED
  BY <1>1, <1>2, <1>3 DEF NormalKept, MaxKept, Apart

\* apply_window_updates when nothing but the decoration changes.
Redressed(R, u, v) ==
  /\ R \in Windows /\ SameStatus(R, u) /\ Suits(R) /\ NormalKept(R, u) /\ MaxKept(R, u)
  /\ u.maximized => Apart(R) = Apart(u)
  /\ Agrees(R, v)

\* apply_decor_change puts new decoration around the same client.
LEMMA DecorRedressed ==
  ASSUME NEW u \in Windows, NEW v \in Int, NEW R, R = ApplyUpdates(u, v, {"decoration"})
  PROVE  Redressed(R, u, v)
<1>1. PICK r : r = Redecorated(u)
  OBVIOUS
<1>2. /\ r \in Windows /\ SameStatus(r, u) /\ Suits(r) /\ r.offset = u.offset
      /\ NormalKept(r, u) /\ MaxKept(r, u)
  BY <1>1, RedecoratedIs
<1>3. /\ r.normal.y \in Int /\ r.max.y \in Int /\ u.normal.y \in Int /\ u.max.y \in Int
      /\ u.offset \in Int
  BY <1>2, Fields DEF Rectangles
<1>4. PICK x \in Int : x = r.offset + (r.normal.y - r.max.y) - (u.normal.y - u.max.y)
  BY <1>2, <1>3
<1>5. PICK q : q = [r EXCEPT !.max = r.max]
  OBVIOUS
<1>6. OffsetKept(u, q).offset = x
  <2>1. q = r
    BY <1>2, <1>5 DEF Windows
  <2> QED
    BY <1>2, <1>4, <2>1 DEF OffsetKept, Windows
<1>7. PICK o : o = [r EXCEPT !.offset = x]
  OBVIOUS
<1>8. PICK e : e = IF u.maximized THEN o ELSE r
  OBVIOUS
<1>9. e = Decorating(u, {"decoration"})
  BY <1>1, <1>5, <1>6, <1>7, <1>8 DEF Decorating
<1>10. /\ o \in Windows /\ SameManner(o, r) /\ o.normal = r.normal /\ o.max = r.max
       /\ o.offset = x
  BY <1>2, <1>7, OffsetIs
<1>11. SameStatus(o, u) /\ Suits(o) /\ Total(o) = Total(r)
  BY <1>2, <1>10, MannerLook, LookTotal DEF SameStatus, SameManner
<1>12. NormalKept(o, u) /\ MaxKept(o, u)
  BY <1>2, <1>10, <1>11 DEF NormalKept, MaxKept
<1>13. Apart(o) = Apart(u)
  BY <1>2, <1>3, <1>4, <1>10 DEF Apart
<1>14. /\ e \in Windows /\ SameStatus(e, u) /\ Suits(e) /\ NormalKept(e, u) /\ MaxKept(e, u)
       /\ u.maximized => Apart(e) = Apart(u)
  BY <1>2, <1>8, <1>10, <1>11, <1>12, <1>13
<1>15. PICK f : f = Reframed(e, v)
  OBVIOUS
<1>16. Kept(f, e) /\ f.shaded = e.shaded /\ Agrees(f, v)
  BY <1>14, <1>15, ReframedKept
<1>17. R = ForceSetup(f, v, f.frame)
  <2>1. {"decoration"} \cap {"decoration", "title"} # {} /\ "limits" \notin {"decoration"}
    OBVIOUS
  <2> QED
    BY <1>9, <1>15, <2>1 DEF ApplyUpdates
<1>18. OnlyFrame(R, f) /\ Agrees(R, v)
  BY <1>16, <1>17, Stays DEF Kept
<1>19. Kept(R, f) /\ R.shaded = f.shaded
  BY <1>18, MannerLook DEF OnlyFrame, OnlyCurrent, Kept, SameManner
<1>20. Kept(R, e) /\ R.shaded = e.shaded
  BY <1>16, <1>19, KeptTrans
<1>21. R \in Windows
  BY <1>20 DEF Kept
<1> QED
  BY <1>14, <1>18, <1>20, <1>21, KeptGeometry DEF Redressed

-----------------------------------------------------------------------------
(* Operations that put the window somewhere. *)

\* t is like u in what its size depends on, maximized or not.
SameDress(t, u) ==
  /\ t.full = u.full /\ t.saved = u.saved
  /\ t.border = u.border /\ t.title = u.title /\ t.dir = u.dir
  /\ t.shaped = u.shaped /\ t.gravity = u.gravity /\ t.style = u.style /\ t.limit = u.limit

\* Windows that look alike are dressed alike.
LEMMA LookDress ==
  ASSUME NEW u, NEW t
  PROVE  /\ SameLook(t, u) => SameDress(t, u) /\ t.maximized = u.maximized
         /\ SameManner(t, u) => SameDress(t, u) /\ t.maximized = u.maximized /\ t.shaded = u.shaded
BY DEF SameLook, SameManner, SameDress

\* SameDress is transitive.
LEMMA DressTrans ==
  ASSUME NEW u, NEW t, NEW s, SameDress(s, t), SameDress(t, u)
  PROVE  SameDress(s, u)
BY DEF SameDress

\* What is dressed alike has decoration of the same height and as much room.
LEMMA DressTotal ==
  ASSUME NEW u, NEW t, SameDress(t, u)
  PROVE  /\ Total(t) = Total(u) /\ StyleTotal(t) = StyleTotal(u) /\ (Suits(u) => Suits(t))
         /\ (Roomy(u) => Roomy(t)) /\ SavedPlace(t) = SavedPlace(u)
<1>1. Total(t) = Total(u) /\ StyleTotal(t) = StyleTotal(u)
  BY DEF SameDress, Total, StyleTotal
<1>2. Suits(u) => Suits(t)
  BY DEF SameDress, Suits
<1>3. Roomy(u) => Roomy(t)
  BY <1>1 DEF SameDress, Roomy
<1>4. SavedPlace(t) = SavedPlace(u)
  BY <1>1 DEF SameDress, SavedPlace
<1> QED
  BY <1>1, <1>2, <1>3, <1>4

\* constrain_size asks for no more than that.
LEMMA FitSame ==
  ASSUME NEW u, NEW t, SameDress(t, u), NEW x
  PROVE  Fit(t, x) = Fit(u, x)
<1>1. Total(t) = Total(u) /\ t.limit = u.limit
  BY DressTotal DEF SameDress
<1> QED
  BY <1>1 DEF Fit

\* A window that was put somewhere, when h is where it was while it was not
\* maximized and t is where it was when it was.
Puts(R, v, h, t) ==
  /\ R \in Windows /\ Sound(R) /\ Agrees(R, v)
  /\ R.maximized => Near(R) /\ Home(R) = h
  /\ R.full /\ R.saved.wasMax => t = SavedPlace(R)

\* A window that is put somewhere is good, with its place for the history.
LEMMA PutGood ==
  ASSUME NEW R, NEW v, NEW h, NEW t, NEW s, Puts(R, v, h, t), Recalls(R, There(R), t, s)
  PROVE  Good(R, v, IF R.maximized THEN h ELSE Home(R), s)
<1>1. R.full => R.maximized
  BY DEF Puts, Sound
<1> QED
  BY <1>1 DEF Puts, Recalls, Good

\* What is put somewhere without becoming maximized or unmaximized.
LEMMA DressSound ==
  ASSUME NEW u, NEW R, SameDress(R, u), Sound(u), R.full => R.maximized /\ ~R.shaded,
         R.normal.h > Total(u), R.maximized => R.max.h > Total(u)
  PROVE  Sound(R)
<1>1. Total(R) = Total(u) /\ StyleTotal(R) = StyleTotal(u) /\ Suits(R)
  BY DressTotal DEF Sound
<1>2. R.full = u.full /\ R.saved = u.saved /\ R.limit = u.limit /\ R.style = u.style
  BY DEF SameDress
<1> QED
  BY <1>1, <1>2 DEF Sound

\* The operation of a window that was good.
LEMMA DressPuts ==
  ASSUME NEW u, NEW R \in Windows, NEW v, NEW v2, NEW h, NEW t, Good(u, v, h, t),
         SameDress(R, u), R.full => R.maximized /\ ~R.shaded, R.normal.h > Total(u),
         Agrees(R, v2),
         R.maximized => R.max.h > Total(u) /\ Near(R) /\ Alike(R.normal, u.normal)
  PROVE  Puts(R, v2, h, t)
<1>1. u \in Windows /\ Sound(u) /\ Home(u) = h /\ (u.full /\ u.saved.wasMax => t = SavedPlace(u))
  BY DEF Good
<1>2. Sound(R)
  BY <1>1, DressSound
<1>3. Total(R) = Total(u) /\ SavedPlace(R) = SavedPlace(u) /\ R.gravity = u.gravity
      /\ R.full = u.full /\ R.saved = u.saved
  BY DressTotal DEF SameDress
<1>4. R.normal \in Rectangles /\ u.normal \in Rectangles /\ u.gravity \in {-1, 0, 1}
  BY <1>1, Fields
<1>5. R.maximized => Home(R) = Home(u)
  BY <1>3, <1>4, PlaceAlike DEF Home
<1> QED
  BY <1>1, <1>2, <1>3, <1>5 DEF Puts

\* What the lemmas need of a good window.
LEMMA GoodIs ==
  ASSUME NEW u, NEW v, NEW h, NEW t, Good(u, v, h, t)
  PROVE  /\ u \in Windows /\ Sound(u) /\ Agrees(u, v) /\ Suits(u) /\ u.limit = u.style.max
         /\ (u.maximized => Near(u)) /\ (u.full => u.maximized /\ ~u.shaded)
         /\ (~u.full => ~u.saved.wasMax) /\ u.normal.h > Total(u)
         /\ (u.maximized => u.max.h > Total(u)) /\ Current(u).h > Total(u)
         /\ (RoomForClient => Roomy(u))
<1>1. u \in Windows /\ Sound(u) /\ Agrees(u, v) /\ (u.maximized => Near(u))
  BY DEF Good
<1>2. /\ Suits(u) /\ u.limit = u.style.max /\ (u.full => u.maximized /\ ~u.shaded)
      /\ (~u.full => ~u.saved.wasMax) /\ u.normal.h > Total(u)
      /\ (u.maximized => u.max.h > Total(u))
  BY <1>1 DEF Sound
<1>3. Current(u).h > Total(u)
  BY <1>2 DEF Current
<1>4. RoomForClient => Roomy(u)
  BY <1>1, <1>2, SuitsRoomy
<1> QED
  BY <1>1, <1>2, <1>3, <1>4

\* Move puts the window.
LEMMA MovedPuts ==
  ASSUME NEW u, NEW v \in Int, NEW h, NEW t, Good(u, v, h, t), NEW y \in Int,
         NEW R, R = Moved(u, v, y)
  PROVE  Puts(R, v, h, t)
<1>1. u \in Windows /\ Agrees(u, v) /\ (u.full => u.maximized /\ ~u.shaded)
      /\ u.normal.h > Total(u) /\ (u.maximized => u.max.h > Total(u))
  BY GoodIs
<1>2. MovedBy(R, u, y - u.frame.y, v)
  BY <1>1, MovedMoves
<1>3. R \in Windows /\ SameManner(R, u) /\ Agrees(R, v)
  BY <1>2 DEF MovedBy
<1>4. SameDress(R, u) /\ R.maximized = u.maximized /\ R.shaded = u.shaded /\ R.full = u.full
  BY <1>3, LookDress DEF SameManner
<1>5. R.normal.h = u.normal.h
  BY <1>2 DEF MovedBy, Alike
<1>6. R.maximized => R.max.h = u.max.h /\ Near(R) /\ Alike(R.normal, u.normal)
  BY <1>2, <1>4 DEF MovedBy
<1> QED
  BY <1>1, <1>3, <1>4, <1>5, <1>6, DressPuts

\* What maximize_fvwm_window makes of a window: its maximized height is h.
Enlarges(R, u, v, h) ==
  /\ R \in Windows /\ SameDress(R, u) /\ R.maximized /\ (R.shaded <=> u.shaded)
  /\ R.normal = u.normal /\ Near(R) /\ Agrees(R, v) /\ R.max.h = h

\* Maximize sets up the maximized geometry, near the normal one.
LEMMA MaximizedLands ==
  ASSUME NEW u \in Windows, NEW v \in Int, NEW g \in Rectangles, NEW constrain,
         NEW R, R = Maximized(u, v, g, constrain)
  PROVE  Enlarges(R, u, v, IF constrain THEN Fit(u, g.h) ELSE g.h)
<1>1. PICK h \in Int : h = IF constrain THEN Fit(u, g.h) ELSE g.h
  BY FitTypes DEF Rectangles
<1>2. PICK x \in Int : x = g.h - h
  BY DEF Rectangles
<1>3. PICK k : k = [g EXCEPT !.h = h]
  OBVIOUS
<1>k. k \in Rectangles /\ k.h = h
  BY <1>3, HighIs
<1>4. PICK m : m = [u EXCEPT !.maximized = TRUE, !.defect = x, !.max = k]
  OBVIOUS
<1>m. /\ m \in Windows /\ m.max = k /\ m.shaded = u.shaded /\ m.shadeDir = u.shadeDir
      /\ m.maximized /\ m.normal = u.normal /\ SameDress(m, u)
  BY <1>k, <1>4 DEF Windows, SameDress
<1>5. PICK f : f = IF u.shaded THEN Shade(u, u.shadeDir, m.max) ELSE m.max
  OBVIOUS
<1>6. f = Framed(m, k)
  <2>1. Total(m) = Total(u) /\ m.border = u.border
    BY <1>m, DressTotal DEF SameDress
  <2> QED
    BY <1>m, <1>5, <2>1 DEF Framed, Shade
<1>7. Upright(m, k)
  BY <1>m DEF Upright, Current
<1>8. PICK s : s = UpdateAbsolute(FrameSetup(m, v, f), v)
  OBVIOUS
<1>9. Lands(s, m, k, v)
  BY <1>k, <1>m, <1>6, <1>7, <1>8, SettleLands
<1>10. OnlyCurrent(s, m) /\ Current(s).h = h /\ Agrees(s, v)
  BY <1>k, <1>9 DEF Lands
<1>11. s \in Windows /\ SameManner(s, m) /\ s.normal = u.normal
  BY <1>m, <1>10 DEF OnlyCurrent
<1>12. s.maximized /\ s.shaded = m.shaded /\ SameDress(s, m)
  BY <1>m, <1>11, LookDress
<1>13. s.max.h = h
  BY <1>10, <1>12 DEF Current
<1>14. PICK o \in Int : o = s.normal.y - s.max.y
  BY <1>11, Fields DEF Rectangles
<1>15. R = [s EXCEPT !.offset = o]
  BY <1>1, <1>2, <1>3, <1>4, <1>5, <1>8, <1>14 DEF Maximized
<1>16. /\ R \in Windows /\ R.frame = s.frame /\ R.normal = s.normal /\ R.max = s.max
       /\ R.offset = o /\ SameManner(R, s)
  BY <1>11, <1>15, OffsetIs
<1>17. /\ SameDress(R, s) /\ R.maximized = s.maximized /\ R.shaded = s.shaded
       /\ Current(R) = Current(s)
  BY <1>16, LookDress DEF Current, SameManner
<1>18. Agrees(R, v)
  BY <1>10, <1>11, <1>16, <1>17, AgreesFrom
<1>19. SameDress(R, u)
  BY <1>m, <1>12, <1>17, DressTrans
<1>20. Near(R)
  <2>1. s.normal.y \in Int /\ s.max.y \in Int
    BY <1>11, Fields DEF Rectangles
  <2>2. Apart(R) = 0
    BY <1>14, <1>16, <2>1 DEF Apart
  <2> QED
    BY <2>2, Bounds DEF Near
<1> QED
  BY <1>1, <1>m, <1>11, <1>12, <1>13, <1>16, <1>17, <1>18, <1>19, <1>20 DEF Enlarges

\* Maximize puts the window.
LEMMA MaximizedPuts ==
  ASSUME RoomForClient, NEW u, NEW v \in Int, NEW h, NEW t, Good(u, v, h, t), NEW g \in Rectangles,
         NEW R, R = Maximized(u, v, g, TRUE)
  PROVE  Puts(R, v, h, t)
<1>1. u \in Windows /\ Agrees(u, v) /\ (u.full => u.maximized /\ ~u.shaded)
      /\ u.normal.h > Total(u) /\ Roomy(u)
  BY GoodIs
<1>2. /\ R \in Windows /\ SameDress(R, u) /\ R.maximized /\ (R.shaded <=> u.shaded)
      /\ R.normal = u.normal /\ Near(R) /\ Agrees(R, v) /\ R.max.h = Fit(u, g.h)
  <2>1. Enlarges(R, u, v, IF TRUE THEN Fit(u, g.h) ELSE g.h)
    BY <1>1, MaximizedLands, Zenon
  <2> QED
    BY <2>1 DEF Enlarges
<1>3. g.h \in Int /\ u.normal \in Rectangles
  BY <1>1, Fields DEF Rectangles
<1>4. R.max.h > Total(u)
  BY <1>1, <1>2, <1>3, FitHigh
<1>5. Alike(R.normal, u.normal) /\ R.full = u.full
  BY <1>2, <1>3, AlikeSame DEF SameDress
<1> QED
  BY <1>1, <1>2, <1>4, <1>5, DressPuts

\* A resize that maximizes takes its height from the resized window r.
LEMMA AsMaximizedPuts ==
  ASSUME RoomForClient, NEW u, NEW v \in Int, NEW h, NEW t, Good(u, v, h, t),
         NEW r \in Windows, SameDress(r, u), r.shaded <=> u.shaded,
         NEW R, R = AsMaximized(u, r, v, TRUE)
  PROVE  Puts(R, v, h, t)
<1>1. u \in Windows /\ Agrees(u, v) /\ (u.full => u.maximized /\ ~u.shaded)
      /\ u.normal.h > Total(u) /\ Roomy(u)
  BY GoodIs
<1>2. PICK n : n = [r EXCEPT !.normal = u.normal]
  OBVIOUS
<1>3. n \in Windows /\ n.normal = u.normal /\ SameManner(n, r) /\ u.normal \in Rectangles
  BY <1>1, <1>2, Fields, NormalIs
<1>4. SameDress(n, u) /\ (n.shaded <=> u.shaded)
  BY <1>3, LookDress, DressTrans
<1>5. PICK g \in Rectangles : g = Relative(r.normal, v) /\ g.h \in Int
  BY Fields, RelativeIs DEF Rectangles
<1>6. R = Maximized(n, v, g, TRUE)
  BY <1>2, <1>5 DEF AsMaximized
<1>7. /\ R \in Windows /\ SameDress(R, n) /\ R.maximized /\ (R.shaded <=> n.shaded)
      /\ R.normal = n.normal /\ Near(R) /\ Agrees(R, v) /\ R.max.h = Fit(n, g.h)
  <2>1. Enlarges(R, n, v, IF TRUE THEN Fit(n, g.h) ELSE g.h)
    BY <1>3, <1>6, MaximizedLands, Zenon
  <2> QED
    BY <2>1 DEF Enlarges
<1>8. SameDress(R, u) /\ Roomy(n) /\ Total(n) = Total(u)
  BY <1>1, <1>4, <1>7, DressTrans, DressTotal
<1>9. R.max.h > Total(u)
  BY <1>3, <1>5, <1>7, <1>8, FitHigh
<1>10. Alike(R.normal, u.normal) /\ R.full = u.full
  BY <1>3, <1>7, <1>8, AlikeSame DEF SameDress
<1> QED
  BY <1>1, <1>3, <1>4, <1>7, <1>8, <1>9, <1>10, DressPuts

\* A window that is no longer maximized is dressed alike.
LEMMA UnsetDress ==
  ASSUME NEW u \in Windows, NEW R, R = Unset(u)
  PROVE  /\ R \in Windows /\ SameDress(R, u) /\ ~R.maximized /\ R.shaded = u.shaded
         /\ R.shadeDir = u.shadeDir /\ R.normal = u.normal /\ R.frame = u.frame
BY DEF Unset, Windows, SameDress

\* What a resize makes of a window.
Resizes(R, u, v) ==
  /\ R \in Windows /\ SameDress(R, u) /\ ~R.maximized /\ (R.shaded <=> u.shaded)
  /\ R.normal.h > Total(u) /\ Agrees(R, v)

\* What lands unmaximized with a client that has a height is resized.
LEMMA LandsResizes ==
  ASSUME NEW u \in Windows, NEW n \in Windows, SameDress(n, u), ~n.maximized,
         n.shaded <=> u.shaded, NEW v, NEW k \in Rectangles, k.h > Total(u),
         NEW R, Lands(R, n, k, v)
  PROVE  Resizes(R, u, v)
<1>1. OnlyCurrent(R, n) /\ Current(R).h = k.h /\ Agrees(R, v)
  BY DEF Lands
<1>2. R \in Windows /\ SameManner(R, n)
  BY <1>1 DEF OnlyCurrent
<1>3. SameDress(R, n) /\ ~R.maximized /\ R.shaded = n.shaded
  BY <1>2, LookDress
<1>4. SameDress(R, u) /\ R.normal.h = k.h
  BY <1>1, <1>3, DressTrans DEF Current
<1> QED
  BY <1>1, <1>2, <1>3, <1>4 DEF Resizes

\* __resize_window
LEMMA ResizedToSized ==
  ASSUME NEW u \in Windows, Roomy(u), NEW v \in Int, NEW h \in Int, NEW R, R = ResizedTo(u, v, h)
  PROVE  Resizes(R, u, v)
<1>1. PICK n : n = Unset(u)
  OBVIOUS
<1>n. /\ n \in Windows /\ SameDress(n, u) /\ ~n.maximized /\ n.shaded = u.shaded
      /\ n.shadeDir = u.shadeDir
  BY <1>1, UnsetDress
<1>2. PICK g \in Rectangles : g = Unshaded(u, v) /\ g.h \in Int
  BY RelativeTypes DEF Rectangles
<1>3. Total(u) \in Int /\ u.gravity \in {-1, 0, 1} /\ h + Total(u) \in Int
  BY TotalTypes, Fields
<1>4. PICK fit \in Int : fit = Fit(u, h + Total(u)) /\ fit > Total(u)
  BY <1>3, FitHigh
<1>d. PICK dh \in Int : dh = fit - g.h
  BY <1>2
<1>5. PICK new : new = Resized(u.gravity, g, dh)
  OBVIOUS
<1>6. new \in Rectangles /\ new.h = fit
  <2>1. Grown(u.gravity, g, dh, new)
    BY <1>3, <1>5, ResizedRef
  <2>2. new \in Rectangles /\ new.h = g.h + dh
    BY <2>1 DEF Grown
  <2> QED
    BY <1>2, <1>d, <2>2
<1>7. CASE u.shaded
  <2>1. PICK m : m = [n EXCEPT !.normal = new]
    OBVIOUS
  <2>2. m \in Windows /\ SameManner(m, n) /\ m.normal = new
    BY <1>n, <1>6, <2>1, NormalIs
  <2>3. SameDress(m, u) /\ ~m.maximized /\ m.shaded = u.shaded
    BY <1>n, <2>2, LookDress, DressTrans
  <2>4. m.shadeDir = u.shadeDir /\ Total(m) = Total(u) /\ m.border = u.border
    BY <1>n, <2>2, <2>3, DressTotal DEF SameManner, SameDress
  <2>5. PICK f : f = Shade(u, u.shadeDir, new)
    OBVIOUS
  <2>6. f = Framed(m, new)
    BY <1>7, <2>3, <2>4, <2>5 DEF Framed, Shade
  <2>7. Upright(m, new)
    BY <2>2, <2>3 DEF Upright, Current
  <2>8. R = UpdateAbsolute(FrameSetup(m, v, f), v)
    BY <1>1, <1>2, <1>4, <1>d, <1>5, <1>7, <2>1, <2>5 DEF ResizedTo
  <2>9. Lands(R, m, new, v)
    BY <1>6, <2>2, <2>6, <2>7, <2>8, SettleLands
  <2> QED
    BY <1>4, <1>6, <2>2, <2>3, <2>9, LandsResizes
<1>8. CASE ~u.shaded
  <2>1. new = Framed(n, new) /\ Upright(n, new)
    BY <1>n, <1>8 DEF Framed, Upright
  <2>2. R = UpdateAbsolute(FrameSetup(n, v, new), v)
    BY <1>1, <1>2, <1>4, <1>d, <1>5, <1>8 DEF ResizedTo
  <2>3. Lands(R, n, new, v)
    BY <1>n, <1>6, <2>1, <2>2, SettleLands
  <2> QED
    BY <1>n, <1>4, <1>6, <2>3, LandsResizes
<1> QED
  BY <1>7, <1>8

\* resize_move_window: a shaded window keeps its height.
LEMMA ResizedMovedSized ==
  ASSUME NEW u \in Windows, NEW v \in Int, NEW g \in Rectangles, g.h > Total(u),
         u.normal.h > Total(u), Current(u).h > Total(u), Agrees(u, v),
         NEW R, R = ResizedMoved(u, v, g)
  PROVE  Resizes(R, u, v) /\ (~u.shaded => R.normal.h = g.h)
<1>1. PICK n : n = Unset(u)
  OBVIOUS
<1>n. /\ n \in Windows /\ SameDress(n, u) /\ ~n.maximized /\ n.shaded = u.shaded
      /\ n.shadeDir = u.shadeDir /\ n.normal = u.normal /\ n.frame = u.frame
  BY <1>1, UnsetDress
<1>h. PICK h \in Int : h = IF u.shaded THEN u.frame.h ELSE g.h
  BY Fields DEF Rectangles
<1>2. PICK k : k = [g EXCEPT !.h = h]
  OBVIOUS
<1>k. k \in Rectangles /\ k.h = h
  BY <1>2, <1>h, HighIs
<1>3. PICK s : s = FrameSetup(n, v, k)
  OBVIOUS
<1>4. R = UpdateAbsolute(s, v)
  BY <1>1, <1>h, <1>2, <1>3 DEF ResizedMoved
<1>5. R \in Windows /\ Agrees(R, v)
  BY ResizedMovedIs
<1>6. s \in Windows /\ s.frame = k /\ SameManner(s, n)
  BY <1>n, <1>k, <1>3, FrameSetupIs
<1>7. /\ SameManner(R, s)
      /\ Current(R).h = IF s.shaded /\ s.shadeDir # "W" THEN Current(s).h ELSE s.frame.h
  BY <1>4, <1>6, AbsoluteIs
<1>8. SameManner(R, n)
  BY <1>6, <1>7, Manners
<1>9. SameDress(R, u) /\ ~R.maximized /\ R.shaded = u.shaded
  BY <1>n, <1>8, LookDress, DressTrans
<1>10. s.shaded = u.shaded /\ s.shadeDir = u.shadeDir /\ ~s.maximized
  BY <1>n, <1>6 DEF SameManner
<1>11. R.normal.h = IF u.shaded /\ u.shadeDir # "W" THEN s.normal.h ELSE h
  BY <1>k, <1>6, <1>7, <1>9, <1>10 DEF Current
<1>12. CASE ~u.shaded
  BY <1>h, <1>5, <1>9, <1>11, <1>12 DEF Resizes
<1>13. CASE u.shaded /\ u.shadeDir = "W"
  <2>1. u.frame = Framed(u, Relative(Current(u), v)) /\ Relative(Current(u), v).h = Current(u).h
        /\ Relative(Current(u), v) \in Rectangles
    BY RelativeFramed DEF Agrees
  <2>2. u.frame.h = Current(u).h
    BY <1>13, <2>1, ShadeIs DEF Framed
  <2> QED
    BY <1>h, <1>5, <1>9, <1>11, <1>13, <2>2 DEF Resizes
<1>14. CASE u.shaded /\ u.shadeDir # "W"
  <2>1. k.h = n.frame.h
    BY <1>h, <1>k, <1>n, <1>14
  <2>2. s = [n EXCEPT !.frame = k]
    BY <1>3, <2>1 DEF FrameSetup
  <2>3. s.normal = u.normal
    BY <1>n, <1>k, <2>2, FrameIs
  <2> QED
    BY <1>5, <1>9, <1>11, <1>14, <2>3 DEF Resizes
<1> QED
  BY <1>12, <1>13, <1>14

\* What a resize makes of a good window, maximized or not.
LEMMA ResizesPuts ==
  ASSUME RoomForClient, NEW u, NEW v \in Int, NEW h, NEW t, Good(u, v, h, t),
         NEW r, Resizes(r, u, v), NEW maximize \in BOOLEAN,
         NEW R, R = IF u.full \/ maximize THEN AsMaximized(u, r, v, TRUE) ELSE r
  PROVE  Puts(R, v, h, t)
<1>1. r \in Windows /\ SameDress(r, u) /\ ~r.maximized /\ (r.shaded <=> u.shaded)
      /\ r.normal.h > Total(u) /\ Agrees(r, v)
  BY DEF Resizes
<1>2. CASE u.full \/ maximize
  BY <1>1, <1>2, AsMaximizedPuts
<1>3. CASE ~(u.full \/ maximize)
  <2>1. ~r.full /\ R = r
    BY <1>1, <1>3 DEF SameDress
  <2> QED
    BY <1>1, <2>1, DressPuts
<1> QED
  BY <1>2, <1>3

-----------------------------------------------------------------------------
(* Operations after which the window is where it was. *)

\* A window around the same client, with another decoration perhaps.
LEMMA NormalHigh ==
  ASSUME NEW u \in Windows, NEW R \in Windows, NormalKept(R, u), u.normal.h > Total(u)
  PROVE  R.normal.h > Total(R)
<1>1. Total(R) \in Int /\ Total(u) \in Int /\ R.normal.h \in Int /\ u.normal.h \in Int
  BY TotalTypes, Fields DEF Rectangles
<1>2. R.normal.h - Total(R) = u.normal.h - Total(u)
  BY DEF NormalKept
<1> QED
  BY <1>1, <1>2

\* With decoration of even height, or no centre gravity, the place is kept.
LEMMA NormalHome ==
  ASSUME NEW u \in Windows, NEW R \in Windows, NormalKept(R, u), R.gravity = u.gravity,
         u.normal.h > Total(u), ~Odd(R)
  PROVE  Home(R) = Home(u) /\ R.normal.h > Total(R)
<1>1. /\ Total(R) \in Nat /\ Total(u) \in Nat /\ R.normal.h \in Int /\ u.normal.h \in Int
      /\ u.gravity \in {-1, 0, 1}
  BY TotalTypes, Fields DEF Rectangles
<1>2. u.gravity # 0 \/ Even(Total(R))
  <2>1. Total(R) % 2 \in {0, 1}
    BY <1>1
  <2> QED
    BY <2>1 DEF Odd, Even
<1>3. Ref(u.gravity, R.normal) = Ref(u.gravity, u.normal)
  BY <1>2 DEF NormalKept
<1>4. R.normal.h - Total(R) = u.normal.h - Total(u)
  BY DEF NormalKept
<1>5. Home(R) = Home(u)
  BY <1>3, <1>4, PlaceIs DEF Home
<1> QED
  BY <1>1, <1>4, <1>5

\* A client that is kept stays so while the geometry is.
LEMMA NormalTrans ==
  ASSUME NEW u \in Windows, NEW t \in Windows, NEW s \in Windows, NormalKept(t, u),
         s.normal.h = t.normal.h, s.normal = t.normal, Total(s) = Total(t)
  PROVE  NormalKept(s, u)
BY DEF NormalKept

\* frame_setup_window to where the window is.
LEMMA SetUpKept ==
  ASSUME NEW u \in Windows, NEW v \in Int, NEW wider \in BOOLEAN, NEW g \in Rectangles,
         g = Relative(Current(u), v), NEW R, R = SetUpAt(u, v, g, wider)
  PROVE  Kept(R, u) /\ R.frame = g /\ R.shaded = u.shaded
<1>1. g.h = Current(u).h /\ g.y = Current(u).y - v /\ Current(u).y \in Int /\ Current(u).h \in Int
  BY RelativeFramed
<1>2. PICK t : t = [u EXCEPT !.frame = g]
  OBVIOUS
<1>3. t \in Windows /\ OnlyFrame(t, u) /\ Current(t) = Current(u) /\ t.frame = g
  BY <1>2, FrameOnly DEF OnlyFrame, OnlyCurrent
<1>4. /\ SameManner(t, u) /\ t.normal = u.normal /\ t.max = u.max /\ t.offset = u.offset
      /\ t.defect = u.defect
  BY <1>3 DEF OnlyFrame, OnlyCurrent
<1>5. SameLook(t, u) /\ t.sticky = u.sticky /\ t.shaded = u.shaded /\ t.shadeDir = u.shadeDir
  BY <1>4, MannerLook DEF SameManner
<1>6. Kept(t, u)
  BY <1>3, <1>4, <1>5 DEF Kept
<1>7. PICK s : s = UpdateAbsolute(t, v)
  OBVIOUS
<1>8. /\ s \in Windows /\ s.frame = g /\ SameManner(s, t) /\ s.offset = t.offset /\ s.defect = t.defect
      /\ (t.maximized => s.normal = t.normal) /\ (~t.maximized => s.max = t.max)
      /\ Current(s).h = IF t.shaded /\ t.shadeDir # "W" THEN Current(t).h ELSE t.frame.h
      /\ Current(s).y = t.frame.y + v
           + (IF t.shaded /\ t.shadeDir \in {"S", "SW"} THEN t.frame.h - Current(t).h ELSE 0)
  BY <1>3, <1>7, AbsoluteIs
<1>9. Current(s).h = Current(u).h
  BY <1>1, <1>3, <1>8
<1>10. Current(s).y = Current(u).y
  <2>1. t.frame.h - Current(t).h = 0
    BY <1>1, <1>3
  <2> QED
    BY <1>1, <1>3, <1>8, <2>1
<1>11. OnlyCurrent(s, t)
  BY <1>8 DEF OnlyCurrent
<1>12. Kept(s, u) /\ s.shaded = u.shaded
  BY <1>3, <1>4, <1>5, <1>8, <1>9, <1>10, <1>11, OnlyCurrentKept DEF SameManner
<1>13. R = s \/ R = t
  BY <1>2, <1>7 DEF SetUpAt, FrameSetup, ForceSetup
<1> QED
  BY <1>3, <1>5, <1>6, <1>8, <1>12, <1>13

\* A window that was shaded before it filled the screen is shaded again.
LEMMA ReshadedKept ==
  ASSUME NEW u \in Windows, NEW v \in Int, NEW was, ~u.shaded => Agrees(u, v),
         NEW R, R = Reshaded(u, v, was)
  PROVE  Kept(R, u)
<1>1. CASE ~(was.wasShaded /\ ~u.shaded)
  <2>1. R = u
    BY <1>1 DEF Reshaded
  <2> QED
    BY <2>1 DEF Kept, SameLook
<1>2. CASE was.wasShaded /\ ~u.shaded
  <2>1. PICK n : n = [u EXCEPT !.titleDirUsed = TRUE]
    OBVIOUS
  <2>2. /\ n \in Windows /\ SameLook(n, u) /\ n.sticky = u.sticky /\ n.frame = u.frame
        /\ n.normal = u.normal /\ n.max = u.max /\ n.offset = u.offset /\ n.defect = u.defect
        /\ n.shaded = u.shaded /\ n.shadeDir = u.shadeDir
    BY <2>1 DEF Windows, SameLook
  <2>3. Kept(n, u)
    BY <2>2 DEF Kept
  <2>4. Current(n) = Current(u)
    BY <2>2 DEF SameLook, Current
  <2>5. UpdateRelative(n, v) = UpdateRelative(u, v)
    BY <1>2, <2>2, <2>4 DEF UpdateRelative
  <2>6. Agrees(n, v)
    BY <1>2, <2>2, <2>5 DEF Agrees
  <2>7. R = ShadedTo(n, v, u.dir) /\ u.dir \in {"N", "S", "SW", "W"}
    BY <1>2, <2>1, Fields DEF Reshaded, ShadedAgain
  <2>8. Kept(R, n)
    BY <2>2, <2>6, <2>7, ShadedToKept
  <2> QED
    BY <2>3, <2>8, KeptTrans
<1> QED
  BY <1>1, <1>2

\* The window is no longer maximized, as unmaximize_fvwm_window begins.
Released(n, u, wasMax) ==
  /\ n \in Windows /\ n.maximized = wasMax /\ ~n.full /\ ~n.saved.wasMax
  /\ n.border = u.border /\ n.title = u.title /\ n.dir = u.dir
  /\ n.shaped = u.shaped /\ n.gravity = u.gravity /\ n.style = u.style /\ n.limit = u.limit
  /\ n.shaded = u.shaded /\ n.normal = u.normal /\ n.max = u.max /\ n.offset = u.offset

\* Nothing else changes.
LEMMA ReleasedIs ==
  ASSUME NEW u \in Windows, NEW b \in BOOLEAN,
         NEW R, R = [u EXCEPT !.maximized = b, !.full = FALSE, !.saved = NothingSaved]
  PROVE  Released(R, u, b)
<1>1. NothingSaved \in [max : Rectangles, wasMax : BOOLEAN, wasShaded : BOOLEAN]
      /\ ~NothingSaved.wasMax
  BY DEF NothingSaved, NoRectangle, Rectangles
<1>2. PICK n : n = NothingSaved
  OBVIOUS
<1>3. R = [u EXCEPT !.maximized = b, !.full = FALSE, !.saved = n]
  BY <1>2
<1> QED
  BY <1>1, <1>2, <1>3 DEF Windows, Released

\* The window is what it was before it was maximized.
LEMMA UnmaximizedPlain ==
  ASSUME NEW u \in Windows, NEW v \in Int, NEW wider \in BOOLEAN, ~u.saved.wasMax,
         u.normal.h > Total(u), u.limit = u.style.max, NEW R, R = Unmaximized(u, v, wider)
  PROVE  /\ R \in Windows /\ ~R.maximized /\ Agrees(R, v)
         /\ R.gravity = u.gravity /\ Sound(R) /\ (~Odd(R) => Home(R) = Home(u))
<1>1. PICK n : n = [u EXCEPT !.maximized = u.saved.wasMax, !.full = FALSE, !.saved = NothingSaved]
  OBVIOUS
<1>2. Released(n, u, u.saved.wasMax)
  BY <1>1, Fields, ReleasedIs
<1>3. /\ n \in Windows /\ ~n.maximized /\ ~n.full /\ ~n.saved.wasMax /\ n.gravity = u.gravity
      /\ n.limit = n.style.max /\ n.normal = u.normal /\ n.shaded = u.shaded /\ Total(n) = Total(u)
  BY <1>2 DEF Released, Total
<1>4. PICK g \in Rectangles : g = Relative(n.normal, v)
  BY <1>3, Fields, RelativeIs
<1>5. g = Relative(Current(n), v)
  BY <1>3, <1>4 DEF Current
<1>6. PICK s : s = SetUpAt(n, v, g, wider)
  OBVIOUS
<1>7. Kept(s, n) /\ s.frame = g /\ s.shaded = n.shaded
  BY <1>3, <1>5, <1>6, SetUpKept
<1>8. s \in Windows /\ ~s.maximized /\ s.normal = n.normal
  BY <1>3, <1>7 DEF Kept, SameLook
<1>9. ~s.shaded => Agrees(s, v)
  BY <1>4, <1>7, <1>8 DEF Agrees, UpdateRelative, Current
<1>10. PICK t : t = Reshaded(s, v, u.saved)
  OBVIOUS
<1>11. Kept(t, s)
  BY <1>8, <1>9, <1>10, ReshadedKept
<1>12. Kept(t, n)
  BY <1>7, <1>11, KeptTrans
<1>13. R = ApplyUpdates(t, v, {"decoration"})
  <2>1. g = Relative(IF u.saved.wasMax THEN u.saved.max ELSE u.normal, v)
    BY <1>3, <1>4
  <2>2. n = IF u.saved.wasMax THEN ApplyDecorChange(n, v) ELSE n
    OBVIOUS
  <2> QED
    BY <1>1, <1>6, <1>10, <2>1, <2>2 DEF Unmaximized, ApplyDecorChange
<1>14. t \in Windows /\ SameLook(t, n) /\ t.normal = n.normal
  BY <1>12 DEF Kept
<1>15. Redressed(R, t, v)
  BY <1>13, <1>14, DecorRedressed
<1>16. R \in Windows /\ SameStatus(R, t) /\ Suits(R) /\ NormalKept(R, t) /\ Agrees(R, v)
  BY <1>15 DEF Redressed
<1>17. /\ ~R.maximized /\ ~R.full /\ ~R.saved.wasMax /\ R.gravity = u.gravity
       /\ R.limit = R.style.max /\ t.gravity = u.gravity
  BY <1>3, <1>14, <1>16 DEF SameStatus, SameLook
<1>18. Total(t) = Total(u) /\ t.normal = u.normal
  BY <1>3, <1>14, LookTotal
<1>19. Home(t) = Home(u)
  BY <1>17, <1>18, PlaceIs DEF Home
<1>20. R.normal.h > Total(R) /\ (~Odd(R) => Home(R) = Home(u))
  BY <1>14, <1>16, <1>17, <1>18, <1>19, NormalHigh, NormalHome
<1>21. Sound(R)
  BY <1>16, <1>17, <1>20 DEF Sound
<1> QED
  BY <1>16, <1>17, <1>20, <1>21

\* It depends on the style and on the shape only.
LEMMA StyleTotalIs ==
  ASSUME NEW u, NEW R, R.shaped = u.shaped, R.style = u.style
  PROVE  StyleTotal(R) = StyleTotal(u)
BY DEF StyleTotal

\* The same geometry, decoration and gravity: the same places.
LEMMA SameHome ==
  ASSUME NEW u, NEW R, R.gravity = u.gravity, R.normal = u.normal, Total(R) = Total(u)
  PROVE  Home(R) = Home(u) /\ (Odd(R) <=> Odd(u))
BY PlaceIs DEF Home, Odd

\* frame_setup_window to another maximized geometry: it becomes the one of the
\* window, unless its height is the one of the frame.
LEMMA SetUpMax ==
  ASSUME NEW u \in Windows, u.maximized, ~u.shaded, NEW v \in Int, NEW wider \in BOOLEAN,
         NEW k \in Rectangles, wider \/ k.h # u.frame.h,
         NEW R, R = SetUpAt(u, v, Relative(k, v), wider)
  PROVE  /\ R \in Windows /\ SameManner(R, u) /\ Agrees(R, v)
         /\ R.normal = u.normal /\ R.max = k
<1>1. PICK g \in Rectangles : g = Relative(k, v) /\ g.h = k.h /\ g.y = k.y - v
  BY RelativeIs
<1>2. R = ForceSetup(u, v, g)
  BY <1>1 DEF SetUpAt, FrameSetup
<1>3. g = Framed(u, g) /\ Upright(u, g)
  BY DEF Framed, Upright
<1>4. Lands(R, u, g, v)
  BY <1>2, <1>3, ForceLands
<1>5. OnlyCurrent(R, u) /\ Current(R).y = g.y + v /\ Current(R).h = g.h /\ Agrees(R, v)
  BY <1>4 DEF Lands
<1>6. R \in Windows /\ SameManner(R, u) /\ R.normal = u.normal
  BY <1>5 DEF OnlyCurrent
<1>7. R.maximized /\ R.max \in Rectangles
  BY <1>6, Fields DEF SameManner
<1>8. k.y \in Int
  BY DEF Rectangles
<1>9. R.max.y = k.y /\ R.max.h = k.h
  BY <1>1, <1>5, <1>7, <1>8 DEF Current
<1> QED
  BY <1>5, <1>6, <1>7, <1>9, SameRectangle

\* What a window becomes that filled the screen and was maximized before.
Returns(R, u, v) ==
  /\ R \in Windows /\ R.maximized /\ ~R.full /\ Agrees(R, v)
  /\ (~Odd(R) => Home(R) = Home(u) /\ Sound(R))
  /\ There(R) = SavedPlace(u)

\* Unmaximize returns a window that filled the screen to where it was maximized.
LEMMA UnmaximizedAgain ==
  ASSUME NEW u \in Windows, NEW v \in Int, NEW wider \in BOOLEAN, u.saved.wasMax, u.maximized,
         ~u.shaded, u.normal.h > Total(u), u.limit = u.style.max,
         u.saved.max.h > StyleTotal(u),
         NEW R, R = Unmaximized(u, v, wider),
         wider \/ u.saved.max.h - Total(R) # u.max.h - Total(u)
  PROVE  Returns(R, u, v)
<1>1. PICK n : n = [u EXCEPT !.maximized = u.saved.wasMax, !.full = FALSE, !.saved = NothingSaved]
  OBVIOUS
<1>2. Released(n, u, u.saved.wasMax)
  BY <1>1, Fields, ReleasedIs
<1>3. /\ n \in Windows /\ n.maximized /\ ~n.full /\ ~n.saved.wasMax /\ n.gravity = u.gravity
      /\ n.limit = n.style.max /\ n.normal = u.normal /\ n.max = u.max /\ ~n.shaded
      /\ Total(n) = Total(u) /\ n.shaped = u.shaped /\ n.style = u.style
  BY <1>2 DEF Released, Total
<1>4. PICK d : d = ApplyUpdates(n, v, {"decoration"})
  OBVIOUS
<1>5. Redressed(d, n, v)
  BY <1>3, <1>4, DecorRedressed
<1>6. /\ d \in Windows /\ SameStatus(d, n) /\ Suits(d) /\ NormalKept(d, n) /\ MaxKept(d, n)
      /\ Agrees(d, v)
  BY <1>5 DEF Redressed
<1>7. /\ d.maximized /\ ~d.full /\ ~d.saved.wasMax /\ d.gravity = u.gravity /\ ~d.shaded
      /\ d.limit = d.style.max /\ d.shaped = u.shaped /\ d.style = u.style
  BY <1>3, <1>6 DEF SameStatus
<1>8. d.max.h - Total(d) = u.max.h - Total(u)
  BY <1>3, <1>6 DEF MaxKept
<1>9. PICK k \in Rectangles : k = u.saved.max
  BY Fields
<1>10. PICK s : s = SetUpAt(d, v, Relative(k, v), wider)
  OBVIOUS
<1>11. PICK t : t = Reshaded(s, v, u.saved)
  OBVIOUS
<1>12. R = ApplyUpdates(t, v, {"decoration"})
  <2>1. Relative(k, v) = Relative(IF u.saved.wasMax THEN u.saved.max ELSE u.normal, v)
    BY <1>9
  <2>2. d = IF u.saved.wasMax THEN ApplyDecorChange(n, v) ELSE n
    BY <1>4 DEF ApplyDecorChange
  <2> QED
    BY <1>1, <1>10, <1>11, <2>1, <2>2 DEF Unmaximized, ApplyDecorChange
<1>r. R \in Windows /\ Agrees(R, v)
  BY UnmaximizedIs
<1>13. StyleTotal(d) = StyleTotal(u) /\ Total(d) = StyleTotal(u) /\ Total(d) \in Nat
  BY <1>6, <1>7, StyleTotalIs, SuitsTotal
<1>f. d.frame.h = d.max.h
  <2>1. d.frame = Relative(d.max, v)
    BY <1>6, <1>7 DEF Agrees, UpdateRelative, Current
  <2>2. PICK c \in Rectangles : c = d.max
    BY <1>6, Fields
  <2>3. Relative(c, v).h = c.h
    BY RelativeIs
  <2> QED
    BY <2>1, <2>2, <2>3
<1>14. ASSUME R.shaped = u.shaped, R.style = u.style, ~R.full, Suits(R)
       PROVE  /\ StyleTotal(R) = StyleTotal(u) /\ Total(R) = StyleTotal(u)
              /\ wider \/ k.h # d.frame.h
  <2>1. StyleTotal(R) = StyleTotal(u) /\ Total(R) = StyleTotal(u)
    BY <1>r, <1>14, StyleTotalIs, SuitsTotal
  <2> QED
    BY <1>8, <1>9, <1>13, <1>f, <2>1
<1>15. s \in Windows /\ SameManner(s, d) /\ s.normal = d.normal
  <2>1. PICK g \in Rectangles : g = Relative(k, v)
    BY RelativeIs
  <2>2. s = ForceSetup(d, v, g) \/ s = [d EXCEPT !.frame = g]
    BY <1>10, <2>1 DEF SetUpAt, FrameSetup
  <2>3. CASE s = [d EXCEPT !.frame = g]
    BY <1>6, <2>1, <2>3, FrameIs
  <2>4. CASE s = ForceSetup(d, v, g)
    <3>1. g = Framed(d, g) /\ Upright(d, g)
      BY <1>7 DEF Framed, Upright
    <3>2. Lands(s, d, g, v)
      BY <1>6, <2>1, <2>4, <3>1, ForceLands
    <3> QED
      BY <1>7, <3>2 DEF Lands, OnlyCurrent
  <2> QED
    BY <2>2, <2>3, <2>4
<1>16. ~s.shaded /\ SameLook(s, d)
  BY <1>7, <1>15, MannerLook
<1> DEFINE Settles == wider \/ k.h # d.frame.h
<1>17. Settles => s.max = k /\ Agrees(s, v)
  BY <1>6, <1>7, <1>10, SetUpMax
<1>18. /\ Settles => Kept(t, s)
       /\ t \in Windows /\ SameLook(t, s)
  <2>1. CASE Settles
    <3>1. Kept(t, s)
      BY <1>11, <1>15, <1>17, <2>1, ReshadedKept
    <3> QED
      BY <3>1 DEF Kept
  <2>2. CASE ~Settles
    <3>1. s = [d EXCEPT !.frame = Relative(k, v)]
      <4>1. Relative(k, v).h = k.h
        BY RelativeIs
      <4> QED
        BY <1>10, <2>2, <4>1 DEF SetUpAt, FrameSetup
    <3>2. t = s \/ t = ShadedAgain(s, v)
      BY <1>11 DEF Reshaded
    <3>3. PICK m : m = [s EXCEPT !.titleDirUsed = TRUE]
      OBVIOUS
    <3>4. m \in Windows /\ SameLook(m, s) /\ s.dir \in {"N", "S", "SW", "W"}
      BY <1>15, <3>3, Fields DEF Windows, SameLook
    <3>5. PICK g \in Rectangles : g = Unshaded(m, v)
      BY <3>4, RelativeTypes
    <3>6. PICK f \in Rectangles : f = Shade(m, s.dir, g)
      BY <3>4, ShadeTypes
    <3>7. PICK q : q = [m EXCEPT !.shaded = TRUE, !.shadeDir = s.dir, !.frame = f]
      OBVIOUS
    <3>8. q \in Windows /\ SameLook(q, m)
      BY <3>4, <3>7 DEF Windows, SameLook
    <3>9. ShadedAgain(s, v) = UpdateAbsolute(q, v)
      BY <3>3, <3>5, <3>6, <3>7 DEF ShadedAgain, ShadedTo
    <3>10. PICK z : z = UpdateAbsolute(q, v)
      OBVIOUS
    <3>11. z \in Windows /\ SameLook(z, q)
      BY <3>8, <3>10, AbsoluteIs, MannerLook
    <3>12. SameLook(z, s)
      BY <3>4, <3>8, <3>11, LookTrans
    <3>13. SameLook(s, s)
      BY DEF SameLook
    <3> QED
      BY <1>15, <2>2, <3>2, <3>9, <3>10, <3>11, <3>12, <3>13
  <2> QED
    BY <2>1, <2>2
<1>19. Redressed(R, t, v)
  BY <1>12, <1>18, DecorRedressed
<1>20. SameStatus(R, t) /\ Suits(R) /\ NormalKept(R, t) /\ MaxKept(R, t)
  BY <1>19 DEF Redressed
<1>21. SameLook(t, d)
  BY <1>16, <1>18, LookTrans
<1>22. /\ R.maximized /\ ~R.full /\ ~R.saved.wasMax /\ R.gravity = u.gravity
       /\ R.limit = R.style.max /\ R.shaped = u.shaped /\ R.style = u.style
       /\ t.gravity = u.gravity /\ t.maximized
  BY <1>7, <1>20, <1>21 DEF SameStatus, SameLook
<1>23. StyleTotal(R) = StyleTotal(u) /\ Total(R) = StyleTotal(u) /\ Settles
  BY <1>14, <1>20, <1>22
<1>24. Kept(t, s) /\ s.max = k
  BY <1>17, <1>18, <1>23
<1>25. t.max = k /\ t.normal = d.normal /\ Total(t) = Total(d)
  BY <1>15, <1>21, <1>24, LookTotal DEF Kept
<1>26. k.y \in Int /\ k.h \in Int /\ R.max.h \in Int /\ R.max.y \in Int
  BY <1>r, Fields DEF Rectangles
<1>27. R.max.y = k.y /\ R.max.h = k.h
  BY <1>13, <1>20, <1>22, <1>23, <1>25, <1>26 DEF MaxKept
<1>28. There(R) = SavedPlace(u)
  <2>1. R.max \in Rectangles
    BY <1>r, Fields
  <2> QED
    BY <1>9, <1>23, <1>27, <2>1, RefIs, PlaceIs DEF There, SavedPlace
<1>29. ASSUME ~Odd(R) PROVE Home(R) = Home(u) /\ Sound(R)
  <2>1. ~Odd(d)
    BY <1>7, <1>13, <1>22, <1>23, <1>29 DEF Odd
  <2>2. Home(d) = Home(n) /\ d.normal.h > Total(d)
    BY <1>3, <1>6, <1>7, <2>1, NormalHome
  <2>3. Home(t) = Home(d) /\ Home(n) = Home(u)
    BY <1>3, <1>7, <1>22, <1>25, SameHome
  <2>4. Home(R) = Home(t) /\ R.normal.h > Total(R)
    BY <1>r, <1>18, <1>20, <1>22, <1>25, <1>29, <2>2, NormalHome
  <2>5. R.max.h > Total(R)
    BY <1>9, <1>23, <1>27
  <2> QED
    BY <1>20, <1>22, <2>2, <2>3, <2>4, <2>5 DEF Sound
<1> QED
  BY <1>r, <1>22, <1>28, <1>29 DEF Returns

\* Unmaximize, for a good window.
LEMMA UnmaximizedGood ==
  ASSUME NEW u, NEW v \in Int, NEW h, NEW t, Good(u, v, h, t), u.maximized,
         NEW wider \in BOOLEAN, NEW R, R = Unmaximized(u, v, wider), ~Odd(R),
         u.full /\ u.saved.wasMax =>
           /\ Near(R)
           /\ wider \/ u.saved.max.h - Total(R) # u.max.h - Total(u),
         NEW s, Recalls(R, t, t, s)
  PROVE  Good(R, v, h, s)
<1>1. /\ u \in Windows /\ Sound(u) /\ u.limit = u.style.max /\ (u.full => ~u.shaded)
      /\ (~u.full => ~u.saved.wasMax) /\ u.normal.h > Total(u)
  BY GoodIs
<1>2. Home(u) = h /\ (u.full /\ u.saved.wasMax => t = SavedPlace(u))
  BY DEF Good
<1>3. CASE ~u.saved.wasMax
  <2>1. R \in Windows /\ ~R.maximized /\ Agrees(R, v) /\ Sound(R) /\ Home(R) = Home(u)
    BY <1>1, <1>3, UnmaximizedPlain
  <2>2. ~R.full
    BY <2>1 DEF Sound
  <2> QED
    BY <1>2, <2>1, <2>2 DEF Good
<1>4. CASE u.saved.wasMax
  <2>1. u.full /\ ~u.shaded /\ u.saved.max.h > StyleTotal(u)
    BY <1>1, <1>4 DEF Sound
  <2>2. Returns(R, u, v)
    BY <1>1, <1>4, <2>1, UnmaximizedAgain
  <2>3. /\ R \in Windows /\ R.maximized /\ ~R.full /\ Agrees(R, v) /\ Sound(R)
        /\ Home(R) = h /\ There(R) = t
    BY <1>2, <1>4, <2>1, <2>2 DEF Returns
  <2> QED
    BY <1>4, <2>1, <2>3 DEF Good, Recalls
<1> QED
  BY <1>3, <1>4

\* Maximize forget.
LEMMA ForgottenGood ==
  ASSUME NEW u, NEW v \in Int, NEW h, NEW t, Good(u, v, h, t), u.maximized, ~u.saved.wasMax,
         NEW wider \in BOOLEAN, NEW n, n = [u EXCEPT !.normal = u.max],
         NEW R, R = Unmaximized(n, v, wider), NEW s
  PROVE  Good(R, v, Home(R), s)
<1>1. u \in Windows /\ u.limit = u.style.max /\ u.max.h > Total(u) /\ u.max \in Rectangles
  BY GoodIs, Fields
<1>2. n \in Windows /\ n.normal = u.max /\ SameManner(n, u)
  BY <1>1, NormalIs
<1>3. ~n.saved.wasMax /\ n.limit = n.style.max /\ Total(n) = Total(u)
  BY <1>1, <1>2 DEF SameManner, Total
<1>4. R \in Windows /\ ~R.maximized /\ Agrees(R, v) /\ Sound(R)
  BY <1>1, <1>2, <1>3, UnmaximizedPlain
<1>5. ~R.full
  BY <1>4 DEF Sound
<1> QED
  BY <1>4, <1>5 DEF Good

\* EWMH_fullscreen: the last half.
LEMMA FillingLands ==
  ASSUME NEW u \in Windows, NEW v \in Int, ~u.shaded, NEW R, R = Filling(u, v)
  PROVE  Enlarges(R, u, v, DisplayHeight + Total(u))
<1>1. PICK y \in Int : y = PageOffset(u.frame, v) - Top(u)
  BY Fields, PageOffsetTypes, TotalTypes
<1>2. PICK h \in Int : h = DisplayHeight + Total(u)
  BY TotalTypes, Bounds
<1>3. PICK g : g = [y |-> y, h |-> h]
  OBVIOUS
<1>4. g \in Rectangles /\ g.h = h /\ g.y = y
  BY <1>3 DEF Rectangles
<1>5. PICK r : r = ResizedMoved(u, v, g)
  OBVIOUS
<1>6. R = AsMaximized(u, r, v, FALSE)
  BY <1>1, <1>2, <1>3, <1>5 DEF Filling
<1>7. PICK n : n = Unset(u)
  OBVIOUS
<1>8. n \in Windows /\ SameDress(n, u) /\ ~n.maximized /\ ~n.shaded
  BY <1>7, UnsetDress
<1>9. r = UpdateAbsolute(FrameSetup(n, v, g), v)
  <2>1. PICK x \in Int : x = g.h
    BY <1>4
  <2>2. PICK q : q = [g EXCEPT !.h = x]
    OBVIOUS
  <2>3. q = g
    BY <1>4, <2>1, <2>2, HighIs, SameRectangle
  <2> QED
    BY <1>5, <1>7, <2>1, <2>2, <2>3 DEF ResizedMoved
<1>10. g = Framed(n, g) /\ Upright(n, g)
  BY <1>8 DEF Framed, Upright
<1>11. Lands(r, n, g, v)
  BY <1>4, <1>8, <1>9, <1>10, SettleLands
<1>12. OnlyCurrent(r, n) /\ Current(r).h = h
  BY <1>4, <1>11 DEF Lands
<1>13. r \in Windows /\ SameManner(r, n)
  BY <1>12 DEF OnlyCurrent
<1>14. SameDress(r, u) /\ ~r.maximized /\ ~r.shaded
  BY <1>8, <1>13, LookDress, DressTrans
<1>15. r.normal.h = h
  BY <1>12, <1>14 DEF Current
<1>16. PICK m : m = [r EXCEPT !.normal = u.normal]
  OBVIOUS
<1>17. m \in Windows /\ SameManner(m, r) /\ m.normal = u.normal
  BY <1>13, <1>16, Fields, NormalIs
<1>18. SameDress(m, u) /\ ~m.shaded
  BY <1>14, <1>17, LookDress, DressTrans
<1>19. PICK k \in Rectangles : k = Relative(r.normal, v) /\ k.h = h
  BY <1>13, <1>15, Fields, RelativeIs
<1>20. R = Maximized(m, v, k, FALSE)
  BY <1>6, <1>16, <1>19 DEF AsMaximized
<1>21. Enlarges(R, m, v, IF FALSE THEN Fit(m, k.h) ELSE k.h)
  BY <1>17, <1>20, MaximizedLands, Zenon
<1>22. SameDress(R, m) /\ R.max.h = h
  BY <1>19, <1>21 DEF Enlarges
<1>23. SameDress(R, u)
  BY <1>18, <1>22, DressTrans
<1> QED
  BY <1>2, <1>17, <1>18, <1>21, <1>22, <1>23 DEF Enlarges

\* EWMH_fullscreen.
LEMMA FillScreenGood ==
  ASSUME NEW u, NEW v \in Int, NEW h, NEW t, Good(u, v, h, t), ~u.full,
         NEW R, R = FillScreen(u, v), NEW s, Recalls(R, t, t, s)
  PROVE  Good(R, v, h, s)
<1>1. /\ u \in Windows /\ Sound(u) /\ Agrees(u, v) /\ Suits(u) /\ u.limit = u.style.max
      /\ u.normal.h > Total(u) /\ (u.maximized => u.max.h > Total(u))
  BY GoodIs
<1>2. Home(u) = h /\ (u.maximized => There(u) = t)
  BY DEF Good
<1>3. PICK was : was = [max |-> u.max, wasMax |-> u.maximized, wasShaded |-> u.shaded]
  OBVIOUS
<1>4. /\ was \in [max : Rectangles, wasMax : BOOLEAN, wasShaded : BOOLEAN]
      /\ was.max = u.max /\ (was.wasMax <=> u.maximized)
  BY <1>1, <1>3, Fields
<1>5. PICK n : n = [u EXCEPT !.saved = was]
  OBVIOUS
<1>6. /\ n \in Windows /\ n.saved = was /\ n.maximized = u.maximized /\ n.full = u.full
      /\ n.border = u.border /\ n.title = u.title /\ n.dir = u.dir /\ n.shaped = u.shaped
      /\ n.gravity = u.gravity /\ n.style = u.style /\ n.limit = u.limit
      /\ n.shaded = u.shaded /\ n.shadeDir = u.shadeDir /\ n.frame = u.frame
      /\ n.normal = u.normal /\ n.max = u.max
  BY <1>1, <1>4, <1>5 DEF Windows
<1>7. Agrees(n, v)
  BY <1>1, <1>6 DEF Agrees, UpdateRelative, Current, Shade, Total
<1>8. PICK o : o = IF n.shaded THEN Unshade(n, v) ELSE n
  OBVIOUS
<1>9. /\ o \in Windows /\ SameLook(o, n) /\ o.normal = n.normal /\ o.max = n.max /\ ~o.shaded
  <2>1. CASE n.shaded
    <3>1. Kept(o, n) /\ ~o.shaded
      BY <1>6, <1>7, <1>8, <2>1, UnshadeKept
    <3> QED
      BY <3>1 DEF Kept
  <2>2. CASE ~n.shaded
    BY <1>6, <1>8, <2>2 DEF SameLook
  <2> QED
    BY <2>1, <2>2
<1>10. PICK c : c = [o EXCEPT !.full = TRUE]
  OBVIOUS
<1>11. /\ c \in Windows /\ c.full /\ c.saved = was /\ ~c.shaded /\ c.maximized = u.maximized
       /\ c.border = u.border /\ c.title = u.title /\ c.dir = u.dir /\ c.shaped = u.shaped
       /\ c.gravity = u.gravity /\ c.style = u.style /\ c.limit = u.limit
       /\ c.normal = u.normal /\ c.max = u.max
  BY <1>6, <1>9, <1>10 DEF Windows, SameLook
<1>12. Total(c) = Total(u)
  BY <1>11 DEF Total
<1>13. PICK d : d = ApplyUpdates(c, v, {"decoration"})
  OBVIOUS
<1>14. Redressed(d, c, v)
  BY <1>11, <1>13, DecorRedressed
<1>15. d \in Windows /\ SameStatus(d, c) /\ Suits(d) /\ NormalKept(d, c)
  BY <1>14 DEF Redressed
<1>16. /\ d.full /\ d.saved = was /\ ~d.shaded /\ d.shaped = u.shaped /\ d.gravity = u.gravity
       /\ d.style = u.style /\ d.limit = u.limit
  BY <1>11, <1>15 DEF SameStatus
<1>17. Total(d) = 0
  BY <1>15, <1>16, SuitsTotal
<1>18. R = Filling(d, v)
  BY <1>3, <1>5, <1>8, <1>10, <1>13 DEF FillScreen, ApplyDecorChange
<1>19. Enlarges(R, d, v, DisplayHeight + Total(d))
  BY <1>15, <1>16, <1>18, FillingLands
<1>20. /\ R \in Windows /\ SameDress(R, d) /\ R.maximized /\ ~R.shaded /\ R.normal = d.normal
       /\ Near(R) /\ Agrees(R, v) /\ R.max.h = DisplayHeight
  BY <1>16, <1>17, <1>19, Bounds DEF Enlarges
<1>21. /\ R.full /\ R.saved = was /\ R.shaped = u.shaped /\ R.style = u.style
       /\ R.limit = u.limit /\ R.gravity = u.gravity
  BY <1>16, <1>20 DEF SameDress
<1>22. Total(R) = 0 /\ Suits(R) /\ StyleTotal(R) = Total(u)
  BY <1>1, <1>15, <1>17, <1>20, <1>21, DressTotal, StyleTotalIs, SuitsTotal
<1>23. ~Odd(d)
  BY <1>17 DEF Odd
<1>24. Home(d) = Home(c) /\ d.normal.h > Total(d)
  BY <1>1, <1>11, <1>12, <1>15, <1>16, <1>23, NormalHome
<1>25. Home(c) = Home(u) /\ Home(R) = Home(d)
  BY <1>11, <1>12, <1>16, <1>17, <1>20, <1>21, <1>22, SameHome
<1>26. Sound(R)
  BY <1>1, <1>4, <1>17, <1>20, <1>21, <1>22, <1>24, Bounds DEF Sound
<1>27. There(u) = SavedPlace(R)
  <2>1. u.max \in Rectangles
    BY <1>1, Fields
  <2> QED
    BY <1>4, <1>21, <1>22, <2>1, RefIs, PlaceIs DEF There, SavedPlace
<1> QED
  BY <1>2, <1>4, <1>20, <1>21, <1>24, <1>25, <1>26, <1>27 DEF Good, Recalls

\* frame_reshape_border, when the window is not maximized.
LEMMA ReshapedGood ==
  ASSUME NEW u, NEW v \in Int, NEW h, NEW t, Good(u, v, h, t), ~u.maximized,
         u.shaped => u.unshaped = u.style.border,
         NEW R, R = Reshaped(u, v), ~Odd(R), NEW s0
  PROVE  Good(R, v, h, s0)
<1>1. /\ u \in Windows /\ Suits(u) /\ u.limit = u.style.max /\ u.normal.h > Total(u) /\ ~u.full
      /\ ~u.saved.wasMax /\ Home(u) = h
  BY GoodIs DEF Good
<1>2. PICK b \in Nat : b = IF u.shaped THEN u.unshaped ELSE 0
  BY <1>1, Fields
<1>3. PICK s : s = [u EXCEPT !.shaped = ~u.shaped, !.border = b]
  OBVIOUS
<1>4. /\ s \in Windows /\ s.shaded = u.shaded /\ s.border = b /\ (s.shaped <=> ~u.shaped)
      /\ s.maximized = u.maximized /\ s.full = u.full /\ s.saved = u.saved /\ s.title = u.title
      /\ s.dir = u.dir /\ s.gravity = u.gravity /\ s.style = u.style /\ s.limit = u.limit
      /\ s.max = u.max
  BY <1>1, <1>3 DEF Windows
<1>5. Suits(s)
  BY <1>1, <1>2, <1>4 DEF Suits
<1>6. PICK n \in Rectangles : n = Naked(u.gravity, u, Current(u))
  BY <1>1, CurrentTypes, NakedTypes, Fields
<1>7. PICK g : g = Dressed(u.gravity, s, n)
  OBVIOUS
<1>8. u.gravity \in {-1, 0, 1} /\ Current(u) = u.normal /\ u.normal \in Rectangles
  BY <1>1, Fields DEF Current
<1>9. /\ g \in Rectangles /\ g.h - Total(s) = u.normal.h - Total(u)
      /\ u.gravity # 0 \/ (Even(Total(s)) /\ u.normal.h > Total(u)) =>
           Ref(u.gravity, g) = Ref(u.gravity, u.normal)
  BY <1>1, <1>4, <1>6, <1>7, <1>8, DressedRef
<1>10. PICK c : c = [s EXCEPT !.normal = g]
  OBVIOUS
<1>11. c \in Windows /\ c.normal = g /\ SameManner(c, s)
  BY <1>4, <1>9, <1>10, NormalIs
<1>12. SameLook(c, s) /\ c.shaded = s.shaded
  BY <1>11, MannerLook
<1>13. PICK f : f = IF u.shaded THEN FollowTitle(c) ELSE c
  OBVIOUS
<1>14. f \in Windows /\ SameLook(f, c) /\ f.normal = g /\ f.shaded = c.shaded
  <2>1. FollowTitle(c) \in Windows /\ SameLook(FollowTitle(c), c) /\ FollowTitle(c).normal = c.normal
        /\ FollowTitle(c).shaded = c.shaded
    BY <1>11, Fields DEF FollowTitle, SameLook, Windows
  <2>2. SameLook(c, c)
    BY DEF SameLook
  <2> QED
    BY <1>11, <1>13, <2>1, <2>2
<1>15. R = ForceSetup(f, v, UpdateRelative(f, v))
  <2>1. c = WithCurrent(s, g)
    BY <1>1, <1>4, <1>10 DEF WithCurrent
  <2>2. s = [u EXCEPT !.shaped = ~@, !.border = IF u.shaped THEN u.unshaped ELSE 0]
    BY <1>2, <1>3
  <2>3. g = Dressed(IF u.maximized THEN -1 ELSE u.gravity, s,
                    Naked(IF u.maximized THEN -1 ELSE u.gravity, u, Current(u)))
    BY <1>6, <1>7
  <2> QED
    BY <1>13, <2>1, <2>2, <2>3 DEF Reshaped
<1>16. PICK k \in Rectangles : /\ k = Relative(Current(f), v) /\ k.h = Current(f).h
         /\ UpdateRelative(f, v) = Framed(f, k)
  BY <1>14, RelativeFramed
<1>17. Upright(f, k)
  BY <1>16 DEF Upright
<1>18. Lands(R, f, k, v)
  BY <1>14, <1>15, <1>16, <1>17, ForceLands
<1>19. OnlyFrame(R, f) /\ Agrees(R, v)
  BY <1>14, <1>16, <1>18, LandsThere DEF Lands
<1>20. R \in Windows /\ SameManner(R, f) /\ R.normal = g
  BY <1>14, <1>19 DEF OnlyFrame, OnlyCurrent
<1>21. SameLook(R, s)
  BY <1>12, <1>14, <1>20, MannerLook, LookTrans
<1>22. Total(R) = Total(s) /\ Suits(R)
  BY <1>5, <1>21, LookTotal
<1>23. /\ ~R.maximized /\ ~R.full /\ ~R.saved.wasMax /\ R.gravity = u.gravity
       /\ R.limit = R.style.max
  BY <1>1, <1>4, <1>21 DEF SameLook
<1>24. NormalKept(R, u)
  BY <1>9, <1>20, <1>22 DEF NormalKept
<1>25. Home(R) = h /\ R.normal.h > Total(R)
  BY <1>1, <1>20, <1>23, <1>24, NormalHome
<1>26. Sound(R)
  BY <1>22, <1>23, <1>25 DEF Sound
<1> QED
  BY <1>19, <1>20, <1>23, <1>25, <1>26 DEF Good

\* Another defect, as a request of a client leaves it.
Defective(d, u) ==
  /\ d \in Windows /\ SameManner(d, u) /\ d.normal = u.normal /\ d.max = u.max
  /\ d.frame = u.frame /\ d.offset = u.offset

\* A request that changes only the defect leaves the window where it was.
LEMMA DefectivePuts ==
  ASSUME NEW u, NEW v \in Int, NEW h, NEW t, Good(u, v, h, t), NEW d, Defective(d, u)
  PROVE  Puts(d, v, h, t)
<1>1. /\ u \in Windows /\ Agrees(u, v) /\ (u.maximized => Near(u))
      /\ (u.full => u.maximized /\ ~u.shaded) /\ u.normal.h > Total(u)
      /\ (u.maximized => u.max.h > Total(u)) /\ u.normal \in Rectangles
  BY GoodIs, Fields
<1>2. d \in Windows /\ SameManner(d, u) /\ d.normal = u.normal /\ d.max = u.max
      /\ d.frame = u.frame /\ d.offset = u.offset
  BY DEF Defective
<1>3. SameDress(d, u) /\ d.maximized = u.maximized /\ d.shaded = u.shaded /\ d.full = u.full
  BY <1>2, LookDress DEF SameManner
<1>4. Current(d) = Current(u)
  BY <1>2, <1>3 DEF Current
<1>5. Agrees(d, v)
  BY <1>1, <1>2, <1>4, AgreesFrom
<1>6. d.maximized => Near(d)
  BY <1>1, <1>2, <1>3 DEF Near, Apart
<1>7. Alike(d.normal, u.normal)
  BY <1>1, <1>2, AlikeSame
<1> QED
  BY <1>1, <1>2, <1>3, <1>5, <1>6, <1>7, DressPuts

\* HandleConfigureRequest and its helpers: the window lands where the client
\* wants it.
LEMMA AskedPuts ==
  ASSUME NEW u, NEW v \in Int, NEW h, NEW t, Good(u, v, h, t), NEW d, Defective(d, u),
         ~(u.shaded /\ u.maximized), NEW new \in Rectangles, new.h > Total(u), NEW s,
         s = IF u.shaded THEN FrameSetup([d EXCEPT !.normal = new], v, Shade(u, u.shadeDir, new))
             ELSE FrameSetup(d, v, new),
         NEW R, R = AdjustOffset(UpdateAbsolute(s, v))
  PROVE  Puts(R, v, h, t)
<1>1. /\ u \in Windows /\ (u.full => u.maximized /\ ~u.shaded) /\ u.normal.h > Total(u)
      /\ u.normal \in Rectangles
  BY GoodIs, Fields
<1>2. /\ d \in Windows /\ SameManner(d, u) /\ d.normal = u.normal
  BY DEF Defective
<1>3. /\ SameDress(d, u) /\ d.maximized = u.maximized /\ d.shaded = u.shaded
      /\ d.shadeDir = u.shadeDir
  BY <1>2, LookDress DEF SameManner
<1>4. PICK q : q = UpdateAbsolute(s, v)
  OBVIOUS
<1>5. PICK m : /\ Lands(q, m, new, v) /\ m \in Windows /\ SameManner(m, u)
               /\ (u.maximized => m.normal = u.normal)
  <2>1. CASE u.shaded
    <3>1. PICK m : m = [d EXCEPT !.normal = new]
      OBVIOUS
    <3>2. m \in Windows /\ SameManner(m, d) /\ m.normal = new
      BY <1>2, <3>1, NormalIs
    <3>3. SameManner(m, u)
      BY <1>2, <3>2, Manners
    <3>4. /\ m.shaded = u.shaded /\ m.shadeDir = u.shadeDir /\ ~m.maximized
          /\ Total(m) = Total(u) /\ m.border = u.border
      BY <2>1, <3>3 DEF SameManner, Total
    <3>5. PICK f : f = Shade(u, u.shadeDir, new)
      OBVIOUS
    <3>6. f = Framed(m, new)
      BY <2>1, <3>4, <3>5 DEF Framed, Shade
    <3>7. Upright(m, new)
      BY <3>2, <3>4 DEF Upright, Current
    <3>8. q = UpdateAbsolute(FrameSetup(m, v, f), v)
      BY <1>4, <2>1, <3>1, <3>5
    <3>9. Lands(q, m, new, v)
      BY <3>2, <3>6, <3>7, <3>8, SettleLands
    <3> QED
      BY <2>1, <3>2, <3>3, <3>9
  <2>2. CASE ~u.shaded
    <3>1. new = Framed(d, new) /\ Upright(d, new)
      BY <1>3, <2>2 DEF Framed, Upright
    <3>2. q = UpdateAbsolute(FrameSetup(d, v, new), v)
      BY <1>4, <2>2
    <3>3. Lands(q, d, new, v)
      BY <1>2, <3>1, <3>2, SettleLands
    <3> QED
      BY <1>2, <3>3
  <2> QED
    BY <2>1, <2>2
<1>6. /\ OnlyCurrent(q, m) /\ Current(q).h = new.h /\ Agrees(q, v)
  BY <1>5 DEF Lands
<1>7. q \in Windows /\ SameManner(q, m)
  BY <1>6 DEF OnlyCurrent
<1>8. SameManner(q, u)
  BY <1>5, <1>7, Manners
<1>9. SameDress(q, u) /\ q.maximized = u.maximized /\ q.shaded = u.shaded /\ q.full = u.full
  BY <1>8, LookDress DEF SameManner
<1>10. R = AdjustOffset(q)
  BY <1>4
<1>11. CASE u.maximized
  <2>1. q.max.h = new.h
    BY <1>6, <1>9, <1>11 DEF Current
  <2>2. q.normal = u.normal
    BY <1>5, <1>6, <1>11 DEF OnlyCurrent, SameManner
  <2>3. /\ R \in Windows /\ SameManner(R, q) /\ R.max = q.max /\ R.frame = q.frame
        /\ Alike(R.normal, q.normal) /\ Near(R)
    BY <1>7, <1>9, <1>10, <1>11, AdjustNear
  <2>4. SameDress(R, u) /\ R.maximized = u.maximized /\ R.shaded = u.shaded /\ R.full = u.full
    BY <1>9, <2>3, LookDress, DressTrans DEF SameManner
  <2>5. R.normal.h > Total(u)
    BY <1>1, <2>2, <2>3 DEF Alike
  <2>6. Agrees(R, v)
    BY <1>6, <1>7, <1>10, AdjustIs
  <2> QED
    BY <1>1, <2>1, <2>2, <2>3, <2>4, <2>5, <2>6, DressPuts
<1>12. CASE ~u.maximized
  <2>1. R = q
    BY <1>9, <1>10, <1>12 DEF AdjustOffset
  <2>2. R.normal.h = new.h
    BY <1>6, <1>9, <1>12, <2>1 DEF Current
  <2> QED
    BY <1>1, <1>6, <1>7, <1>9, <1>12, <2>1, <2>2, DressPuts
<1> QED
  BY <1>11, <1>12

-----------------------------------------------------------------------------
(* A style changes: apply_window_updates. *)

\* gravity_constrain_size.
LEMMA ConstrainedIs ==
  ASSUME NEW u \in Windows, NEW g \in Rectangles, NEW R, R = Constrained(u, g)
  PROVE  /\ R \in Rectangles /\ R.h = Fit(u, g.h)
         /\ u.gravity # 0 => Ref(u.gravity, R) = Ref(u.gravity, g)
         /\ u.gravity = -1 => R.y = g.y
<1>1. g.h \in Int /\ u.gravity \in {-1, 0, 1}
  BY Fields DEF Rectangles
<1>2. PICK fit \in Int : fit = Fit(u, g.h)
  BY <1>1, FitTypes
<1>3. PICK dh \in Int : dh = fit - g.h
  BY <1>1
<1>4. R = Resized(u.gravity, g, dh)
  BY <1>2, <1>3 DEF Constrained
<1>5. Grown(u.gravity, g, dh, R)
  BY <1>1, <1>4, ResizedRef
<1>6. R.h = fit
  BY <1>1, <1>3, <1>5 DEF Grown
<1> QED
  BY <1>2, <1>5, <1>6 DEF Grown

\* The maximized geometry is fitted again where its top was.
LEMMA ConstrainedMaxIs ==
  ASSUME NEW u \in Windows, NEW R, R = ConstrainedMax(u)
  PROVE  /\ R \in Windows /\ SameManner(R, u) /\ R.normal = u.normal /\ R.frame = u.frame
         /\ R.offset = u.offset
         /\ u.gravity = -1 => R.max.y = u.max.y
         /\ Roomy(u) => R.max.h > Total(u)
<1>1. u.max \in Rectangles /\ u.gravity \in {-1, 0, 1} /\ u.defect \in Int
  BY Fields
<1>2. PICK g : g = Resized(u.gravity, u.max, u.defect)
  OBVIOUS
<1>3. Grown(u.gravity, u.max, u.defect, g)
  BY <1>1, <1>2, ResizedRef
<1>4. g \in Rectangles /\ g.h \in Int /\ (u.gravity = -1 => g.y = u.max.y)
  BY <1>3 DEF Grown, Rectangles
<1>5. PICK h \in Int : h = Fit(u, g.h) /\ (Roomy(u) => h > Total(u))
  BY <1>4, FitTypes, FitHigh
<1>6. PICK dh \in Int : dh = h - g.h
  BY <1>4
<1>7. PICK k : k = Resized(u.gravity, g, dh)
  OBVIOUS
<1>8. Grown(u.gravity, g, dh, k)
  BY <1>1, <1>4, <1>7, ResizedRef
<1>9. k \in Rectangles /\ k.h = g.h + dh /\ (u.gravity = -1 => k.y = g.y)
  BY <1>8 DEF Grown
<1>10. PICK x \in Int : x = g.h - h
  BY <1>4
<1>11. PICK q : q = [u EXCEPT !.max = k, !.defect = x]
  OBVIOUS
<1>12. /\ q \in Windows /\ q.frame = u.frame /\ q.normal = u.normal /\ q.max = k
       /\ q.offset = u.offset /\ SameManner(q, u)
  <2>1. k \in Rectangles
    BY <1>9
  <2> QED
    BY <1>10, <1>11, <2>1 DEF Windows, SameManner
<1>13. R = q
  BY <1>2, <1>5, <1>6, <1>7, <1>10, <1>11 DEF ConstrainedMax
<1> QED
  BY <1>4, <1>5, <1>6, <1>9, <1>12, <1>13

\* R is u with its reference point where it was, whatever its height.
Anchored(R, u) ==
  /\ SameStatus(R, u) /\ Ref(u.gravity, R.normal) = Ref(u.gravity, u.normal)
  /\ u.maximized /\ u.gravity = -1 => R.max.y = u.max.y

\* The clients have a height.
Tall(u) == u.normal.h > Total(u) /\ (u.maximized => u.max.h > Total(u))

\* Anchored is transitive.
LEMMA AnchoredTrans ==
  ASSUME NEW u, NEW t, NEW s, Anchored(s, t), Anchored(t, u)
  PROVE  Anchored(s, u)
<1>1. t.gravity = u.gravity /\ t.maximized = u.maximized
  BY DEF Anchored, SameStatus
<1> QED
  BY <1>1 DEF Anchored, SameStatus

\* Windows that differ in geometry only have the same status.
LEMMA MannerStatus ==
  ASSUME NEW u, NEW t, SameManner(t, u)
  PROVE  SameStatus(t, u) /\ Total(t) = Total(u)
BY DEF SameManner, SameStatus, Total

\* The same geometry: the same anchor and the same heights.
LEMMA SameAnchor ==
  ASSUME NEW u, NEW R, SameLook(R, u), R.shaded = u.shaded, R.sticky = u.sticky,
         R.normal = u.normal, R.max = u.max
  PROVE  /\ Anchored(R, u) /\ (Tall(u) => Tall(R)) /\ (Suits(u) => Suits(R))
         /\ (Roomy(R) => Roomy(u))
<1>1. Total(R) = Total(u) /\ (Suits(u) => Suits(R))
  BY LookTotal
<1>2. R.limit = u.limit /\ R.maximized = u.maximized
  BY DEF SameLook
<1>3. Anchored(R, u)
  BY DEF Anchored, SameStatus, SameLook
<1>4. Tall(u) => Tall(R)
  BY <1>1, <1>2 DEF Tall
<1>5. Roomy(R) => Roomy(u)
  BY <1>1, <1>2 DEF Roomy
<1> QED
  BY <1>1, <1>3, <1>4, <1>5

\* The decoration is the style's, but perhaps for the side of the title.
SuitsButTitle(u) ==
  /\ u.border = IF u.shaped \/ u.full THEN 0 ELSE u.style.border
  /\ u.title = IF u.full THEN 0 ELSE u.style.title

\* The title moves to another side.
LEMMA TitleMovedAnchored ==
  ASSUME NEW u \in Windows, u.gravity # 0, SuitsButTitle(u), NEW R, R = TitleMoved(u)
  PROVE  R \in Windows /\ Anchored(R, u) /\ Suits(R) /\ (Roomy(R) => Tall(R))
<1>1. u.style.dir \in {"N", "S", "W"} /\ u.gravity \in {-1, 0, 1}
  BY Fields, StyleFields
<1>2. PICK d : d = [u EXCEPT !.dir = u.style.dir]
  OBVIOUS
<1>3. /\ d \in Windows /\ d.dir = u.style.dir /\ SameStatus(d, u) /\ d.normal = u.normal
      /\ d.max = u.max /\ d.border = u.border /\ d.title = u.title
  BY <1>1, <1>2 DEF Windows, SameStatus
<1>4. Suits(d) /\ d.gravity = u.gravity /\ d.maximized = u.maximized
  BY <1>3 DEF Suits, SuitsButTitle, SameStatus
<1>5. PICK dh \in Int : dh = Total(d) - Total(u)
  BY <1>3, TotalTypes
<1>6. PICK g : g = Resized(u.gravity, u.normal, dh)
  OBVIOUS
<1>7. Grown(u.gravity, u.normal, dh, g)
  BY <1>1, <1>6, Fields, ResizedRef
<1>8. g \in Rectangles /\ Ref(u.gravity, g) = Ref(u.gravity, u.normal) /\ g.h \in Int
  BY <1>7 DEF Grown, Rectangles
<1>9. PICK n : n = Constrained(d, g)
  OBVIOUS
<1>10. n \in Rectangles /\ n.h = Fit(d, g.h) /\ Ref(u.gravity, n) = Ref(u.gravity, u.normal)
  BY <1>3, <1>4, <1>8, <1>9, ConstrainedIs
<1>11. Roomy(d) => n.h > Total(d)
  BY <1>3, <1>8, <1>10, FitHigh
<1>12. PICK e : e = [d EXCEPT !.normal = n]
  OBVIOUS
<1>13. e \in Windows /\ SameManner(e, d) /\ e.normal = n /\ e.max = u.max
  BY <1>3, <1>10, <1>12, NormalIs
<1>14. PICK x : x = Resized(u.gravity, u.max, dh)
  OBVIOUS
<1>15. Grown(u.gravity, u.max, dh, x)
  BY <1>1, <1>14, Fields, ResizedRef
<1>16. x \in Rectangles /\ (u.gravity = -1 => x.y = u.max.y)
  BY <1>15 DEF Grown
<1>17. PICK f : f = [e EXCEPT !.max = x]
  OBVIOUS
<1>18. f \in Windows /\ SameManner(f, e) /\ f.max = x /\ f.normal = n
  BY <1>13, <1>16, <1>17, MaxIs
<1>19. R = IF ~u.maximized THEN e ELSE ConstrainedMax(f)
  BY <1>2, <1>3, <1>4, <1>5, <1>6, <1>9, <1>12, <1>13, <1>14, <1>17 DEF TitleMoved
<1>20. CASE ~u.maximized
  <2>1. R = e
    BY <1>19, <1>20
  <2>2. SameStatus(e, u) /\ Total(e) = Total(d) /\ SameLook(e, d)
    BY <1>3, <1>13, MannerStatus, MannerLook, StatusTrans
  <2>3. Suits(e) /\ (Roomy(e) => Roomy(d)) /\ ~e.maximized
    BY <1>4, <1>20, <2>2, LookTotal DEF SameLook, Roomy, SameStatus
  <2>4. Anchored(e, u)
    BY <1>10, <1>13, <1>20, <2>2 DEF Anchored
  <2>5. Roomy(e) => Tall(e)
    BY <1>11, <1>13, <2>2, <2>3 DEF Tall
  <2> QED
    BY <1>13, <2>1, <2>3, <2>4, <2>5
<1>21. CASE u.maximized
  <2>1. R = ConstrainedMax(f)
    BY <1>19, <1>21
  <2>2. SameManner(f, d)
    BY <1>13, <1>18, Manners
  <2>3. f.gravity = u.gravity
    BY <1>4, <2>2 DEF SameManner
  <2>4. /\ R \in Windows /\ SameManner(R, f) /\ R.normal = n
        /\ (u.gravity = -1 => R.max.y = u.max.y) /\ (Roomy(f) => R.max.h > Total(f))
    BY <1>16, <1>18, <2>1, <2>3, ConstrainedMaxIs
  <2>5. SameManner(R, d)
    BY <2>2, <2>4, Manners
  <2>6. SameStatus(R, u) /\ Total(R) = Total(d) /\ SameLook(R, d) /\ Total(f) = Total(d)
    BY <1>3, <2>2, <2>5, MannerStatus, MannerLook, StatusTrans
  <2>7. Suits(R) /\ (Roomy(R) => Roomy(d)) /\ (Roomy(R) => Roomy(f))
    BY <1>4, <2>2, <2>6, LookTotal DEF SameLook, Roomy, SameManner
  <2>8. Anchored(R, u)
    BY <1>10, <2>4, <2>6 DEF Anchored
  <2>9. Roomy(R) => Tall(R)
    BY <1>11, <2>4, <2>6, <2>7 DEF Tall
  <2> QED
    BY <2>4, <2>7, <2>8, <2>9
<1> QED
  BY <1>20, <1>21

\* The decoration and the title follow the style.
LEMMA DecoratingAnchored ==
  ASSUME NEW u \in Windows, u.gravity # 0, NEW changes,
         "decoration" \notin changes => SuitsButTitle(u),
         "title" \notin changes => u.dir = u.style.dir,
         Tall(u), NEW R, R = Decorating(u, changes)
  PROVE  R \in Windows /\ Anchored(R, u) /\ Suits(R) /\ (Roomy(R) => Tall(R))
<1>1. PICK r : r = IF "decoration" \in changes THEN Redecorated(u) ELSE u
  OBVIOUS
<1>2. /\ r \in Windows /\ Anchored(r, u) /\ SuitsButTitle(r) /\ Tall(r)
      /\ ("title" \notin changes => Suits(r))
  <2>1. CASE "decoration" \in changes
    <3>1. /\ r \in Windows /\ SameStatus(r, u) /\ Suits(r) /\ NormalKept(r, u) /\ MaxKept(r, u)
      BY <1>1, <2>1, RedecoratedIs
    <3>2. Anchored(r, u)
      BY <3>1 DEF Anchored, NormalKept, MaxKept
    <3>3. /\ Total(r) \in Int /\ Total(u) \in Int /\ r.normal.h \in Int /\ u.normal.h \in Int
          /\ r.max.h \in Int /\ u.max.h \in Int
      BY <3>1, TotalTypes, Fields DEF Rectangles
    <3>4. r.normal.h - Total(r) = u.normal.h - Total(u)
          /\ (u.maximized => r.max.h - Total(r) = u.max.h - Total(u))
          /\ r.maximized = u.maximized
      BY <3>1 DEF NormalKept, MaxKept, SameStatus
    <3>5. Tall(r)
      BY <3>3, <3>4 DEF Tall
    <3> QED
      BY <3>1, <3>2, <3>5 DEF Suits, SuitsButTitle
  <2>2. CASE "decoration" \notin changes
    <3>1. r = u
      BY <1>1, <2>2
    <3>2. Anchored(u, u)
      BY DEF Anchored, SameStatus
    <3> QED
      BY <2>2, <3>1, <3>2 DEF Suits, SuitsButTitle
  <2> QED
    BY <2>1, <2>2
<1>3. PICK t : t = IF "title" \in changes THEN TitleMoved(r) ELSE r
  OBVIOUS
<1>4. t \in Windows /\ Anchored(t, u) /\ Suits(t) /\ (Roomy(t) => Tall(t))
  <2>1. CASE "title" \in changes
    <3>1. r.gravity # 0
      BY <1>2 DEF Anchored, SameStatus
    <3>2. t \in Windows /\ Anchored(t, r) /\ Suits(t) /\ (Roomy(t) => Tall(t))
      BY <1>2, <1>3, <2>1, <3>1, TitleMovedAnchored
    <3> QED
      BY <1>2, <3>2, AnchoredTrans
  <2>2. CASE "title" \notin changes
    BY <1>2, <1>3, <2>2
  <2> QED
    BY <2>1, <2>2
<1>5. PICK q : q = [t EXCEPT !.max = r.max]
  OBVIOUS
<1>6. q \in Windows
  BY <1>2, <1>4, <1>5, Fields, MaxIs
<1>7. PICK x \in Int : x = OffsetKept(u, q).offset
  BY <1>6, OffsetTypes
<1>8. PICK e : e = [t EXCEPT !.offset = x]
  OBVIOUS
<1>9. e \in Windows /\ SameManner(e, t) /\ e.normal = t.normal /\ e.max = t.max
  BY <1>4, <1>8, OffsetIs
<1>10. SameLook(e, t) /\ e.shaded = t.shaded /\ e.sticky = t.sticky
  BY <1>9, MannerLook DEF SameManner
<1>11. Anchored(e, t) /\ (Tall(t) => Tall(e)) /\ (Suits(t) => Suits(e)) /\ (Roomy(e) => Roomy(t))
  BY <1>9, <1>10, SameAnchor
<1>12. R = IF u.maximized /\ "decoration" \in changes THEN e ELSE t
  BY <1>1, <1>3, <1>5, <1>7, <1>8 DEF Decorating
<1> QED
  BY <1>4, <1>9, <1>11, <1>12, AnchoredTrans

\* apply_window_updates up to the limits of the size.
LEMMA DecoratedAnchored ==
  ASSUME NEW u \in Windows, u.gravity # 0, NEW v \in Int, Agrees(u, v), NEW changes,
         "decoration" \notin changes => SuitsButTitle(u),
         "title" \notin changes => u.dir = u.style.dir,
         Tall(u), NEW R,
         R = IF ~Reframes(changes) THEN u ELSE Reframed(Decorating(u, changes), v)
  PROVE  R \in Windows /\ Anchored(R, u) /\ Suits(R) /\ Agrees(R, v) /\ (Roomy(R) => Tall(R))
<1>1. CASE ~Reframes(changes)
  <2>1. R = u
    BY <1>1
  <2>2. "decoration" \notin changes /\ "title" \notin changes
    BY <1>1 DEF Reframes
  <2>3. Suits(u)
    BY <2>2 DEF Suits, SuitsButTitle
  <2>4. Anchored(u, u)
    BY DEF Anchored, SameStatus
  <2> QED
    BY <2>1, <2>3, <2>4
<1>2. CASE Reframes(changes)
  <2>1. PICK t : t = Decorating(u, changes)
    OBVIOUS
  <2>2. t \in Windows /\ Anchored(t, u) /\ Suits(t) /\ (Roomy(t) => Tall(t))
    BY <2>1, DecoratingAnchored
  <2>3. R = Reframed(t, v)
    BY <1>2, <2>1
  <2>4. Kept(R, t) /\ R.shaded = t.shaded /\ Agrees(R, v)
    BY <2>2, <2>3, ReframedKept
  <2>5. R \in Windows /\ SameLook(R, t) /\ R.sticky = t.sticky /\ R.normal = t.normal /\ R.max = t.max
    BY <2>4 DEF Kept
  <2>6. Anchored(R, t) /\ (Tall(t) => Tall(R)) /\ (Suits(t) => Suits(R)) /\ (Roomy(R) => Roomy(t))
    BY <2>4, <2>5, SameAnchor
  <2> QED
    BY <2>2, <2>4, <2>5, <2>6, AnchoredTrans
<1> QED
  BY <1>1, <1>2

\* The point moves with the rectangle.
LEMMA RefMoved ==
  ASSUME NEW gravity \in {-1, 0, 1}, NEW g \in Rectangles, NEW k \in Rectangles, NEW x \in Int,
         k.y = g.y + x, k.h = g.h
  PROVE  Ref(gravity, k) = Ref(gravity, g) + x
<1>1. PICK d \in Int : d = Div((gravity + 1) * (g.h - 1), 2)
  <2>1. (gravity + 1) * (g.h - 1) \in Int
    BY DEF Rectangles
  <2> QED
    BY <2>1, Integral
<1>2. g.y \in Int
  BY DEF Rectangles
<1> QED
  BY <1>1, <1>2 DEF Ref

\* The limits of the size of a window that is neither shaded nor maximized.
LEMMA LimitedAnchored ==
  ASSUME RoomForClient, NEW u \in Windows, u.gravity # 0, NEW v \in Int, Agrees(u, v), Suits(u),
         ~u.shaded, ~u.maximized, NEW R, R = FrameLimited(Limited(u), v)
  PROVE  /\ R \in Windows /\ Agrees(R, v) /\ Suits(R) /\ R.limit = R.style.max /\ Tall(R)
         /\ Ref(u.gravity, R.normal) = Ref(u.gravity, u.normal)
         /\ ~R.maximized /\ R.full = u.full /\ R.saved = u.saved /\ R.gravity = u.gravity
         /\ R.shaded = u.shaded
<1>1. u.style.max \in Nat /\ u.gravity \in {-1, 0, 1} /\ u.normal \in Rectangles
      /\ u.frame \in Rectangles /\ u.normal.y \in Int
  BY Fields, StyleFields DEF Rectangles
<1>2. PICK d : d = [u EXCEPT !.limit = u.style.max]
  OBVIOUS
<1>3. /\ d \in Windows /\ d.limit = u.style.max /\ d.normal = u.normal /\ d.frame = u.frame
      /\ d.maximized = u.maximized /\ d.full = u.full /\ d.saved = u.saved /\ d.shaded = u.shaded
      /\ d.border = u.border /\ d.title = u.title /\ d.dir = u.dir /\ d.shaped = u.shaped
      /\ d.gravity = u.gravity /\ d.style = u.style
  BY <1>1, <1>2 DEF Windows
<1>4. Suits(d)
  BY <1>3 DEF Suits
<1>5. PICK n \in Rectangles : n = Constrained(d, d.normal)
  BY <1>1, <1>3, ConstrainedTypes
<1>6. PICK e : e = [d EXCEPT !.normal = n]
  OBVIOUS
<1>7. e \in Windows /\ e.normal = n /\ e.frame = u.frame /\ SameManner(e, d)
  BY <1>3, <1>6, NormalIs
<1>8. e = Limited(u)
  BY <1>2, <1>3, <1>5, <1>6 DEF Limited
<1>9. /\ ~e.maximized /\ ~e.shaded /\ e.full = u.full /\ e.saved = u.saved /\ e.shaded = u.shaded
      /\ e.gravity = u.gravity /\ e.limit = e.style.max
  BY <1>3, <1>7 DEF SameManner
<1>10. Suits(e) /\ Roomy(e)
  BY <1>4, <1>7, <1>9, MannerLook, LookTotal, SuitsRoomy
<1>11. PICK g : g = Constrained(e, u.frame)
  OBVIOUS
<1>12. g \in Rectangles /\ g.h = Fit(e, u.frame.h) /\ Ref(u.gravity, g) = Ref(u.gravity, u.frame)
  BY <1>1, <1>7, <1>9, <1>11, ConstrainedIs
<1>13. g.h > Total(e) /\ g.y \in Int
  BY <1>1, <1>7, <1>10, <1>12, FitHigh DEF Rectangles
<1>14. R = ForceSetup(e, v, g)
  BY <1>7, <1>8, <1>11 DEF FrameLimited
<1>15. g = Framed(e, g) /\ Upright(e, g)
  BY <1>9 DEF Framed, Upright
<1>16. Lands(R, e, g, v)
  BY <1>7, <1>12, <1>14, <1>15, ForceLands
<1>17. OnlyCurrent(R, e) /\ Current(R).y = g.y + v /\ Current(R).h = g.h /\ Agrees(R, v)
  BY <1>16 DEF Lands
<1>18. R \in Windows /\ SameManner(R, e)
  BY <1>17 DEF OnlyCurrent
<1>19. /\ ~R.maximized /\ R.full = u.full /\ R.saved = u.saved /\ R.gravity = u.gravity
       /\ R.limit = R.style.max /\ R.shaded = u.shaded
  BY <1>9, <1>18 DEF SameManner
<1>20. Suits(R) /\ Total(R) = Total(e)
  BY <1>10, <1>18, MannerLook, LookTotal
<1>21. R.normal.y = g.y + v /\ R.normal.h = g.h /\ R.normal \in Rectangles
  BY <1>17, <1>18, <1>19, Fields DEF Current
<1>22. Ref(u.gravity, R.normal) = Ref(u.gravity, g) + v
  BY <1>1, <1>12, <1>21, RefMoved
<1>23. u.frame = Relative(u.normal, v)
  BY DEF Agrees, UpdateRelative, Current
<1>24. u.frame.h = u.normal.h /\ u.normal.y = u.frame.y + v
  <2>1. PICK c \in Rectangles : c = u.normal
    BY <1>1
  <2>2. Relative(c, v).y = c.y - v /\ Relative(c, v).h = c.h
    BY RelativeIs
  <2> QED
    BY <1>1, <1>23, <2>1, <2>2
<1>25. Ref(u.gravity, u.normal) = Ref(u.gravity, u.frame) + v
  BY <1>1, <1>24, RefMoved
<1>26. Tall(R)
  BY <1>13, <1>19, <1>20, <1>21 DEF Tall
<1> QED
  BY <1>12, <1>17, <1>18, <1>19, <1>20, <1>22, <1>25, <1>26

\* What apply_window_updates makes of a good window that is fitted again.
Refitted(R, u, v) ==
  /\ R \in Windows /\ Agrees(R, v) /\ Suits(R) /\ R.limit = R.style.max /\ Tall(R)
  /\ Ref(u.gravity, R.normal) = Ref(u.gravity, u.normal)
  /\ R.maximized = u.maximized /\ R.full = u.full /\ R.saved = u.saved /\ R.gravity = u.gravity
  /\ R.shaded = u.shaded
  /\ u.maximized /\ u.gravity = -1 => R.max.y = u.max.y

\* apply_window_updates fits the window again with its point where it was.
LEMMA UpdatesRefit ==
  ASSUME RoomForClient, NEW u \in Windows, u.gravity # 0, NEW v \in Int, Agrees(u, v), NEW changes,
         "decoration" \notin changes => SuitsButTitle(u),
         "title" \notin changes => u.dir = u.style.dir,
         "limits" \notin changes => u.limit = u.style.max,
         "limits" \in changes => ~u.shaded /\ ~u.maximized,
         Tall(u), NEW R, R = ApplyUpdates(u, v, changes)
  PROVE  Refitted(R, u, v)
<1>1. PICK d : d = (IF ~Reframes(changes) THEN u ELSE Reframed(Decorating(u, changes), v))
  OBVIOUS
<1>2. d \in Windows /\ Anchored(d, u) /\ Suits(d) /\ Agrees(d, v) /\ (Roomy(d) => Tall(d))
  BY <1>1, DecoratedAnchored
<1>3. /\ Ref(u.gravity, d.normal) = Ref(u.gravity, u.normal)
      /\ (u.maximized /\ u.gravity = -1 => d.max.y = u.max.y)
      /\ d.maximized = u.maximized /\ d.full = u.full /\ d.saved = u.saved
      /\ d.gravity = u.gravity /\ d.style = u.style /\ d.limit = u.limit /\ d.shaded = u.shaded
  BY <1>2 DEF Anchored, SameStatus
<1>4. R = IF "limits" \in changes THEN FrameLimited(Limited(d), v) ELSE ForceSetup(d, v, d.frame)
  BY <1>1 DEF ApplyUpdates, Reframes
<1>5. CASE "limits" \in changes
  <2>1. ~d.shaded /\ ~d.maximized /\ d.gravity # 0
    BY <1>3, <1>5
  <2>2. R = FrameLimited(Limited(d), v)
    BY <1>4, <1>5
  <2>3. /\ R \in Windows /\ Agrees(R, v) /\ Suits(R) /\ R.limit = R.style.max /\ Tall(R)
        /\ Ref(d.gravity, R.normal) = Ref(d.gravity, d.normal)
        /\ ~R.maximized /\ R.full = d.full /\ R.saved = d.saved /\ R.gravity = d.gravity
        /\ R.shaded = d.shaded
    BY <1>2, <2>1, <2>2, LimitedAnchored
  <2>4. R.maximized = u.maximized
    BY <1>3, <1>5, <2>3, Fields
  <2> QED
    BY <1>3, <1>5, <2>3, <2>4 DEF Refitted
<1>6. CASE "limits" \notin changes
  <2>1. d.limit = d.style.max /\ R = ForceSetup(d, v, d.frame)
    BY <1>3, <1>4, <1>6
  <2>2. Tall(d)
    BY <1>2, <2>1, SuitsRoomy
  <2>3. OnlyFrame(R, d) /\ Agrees(R, v)
    BY <1>2, <2>1, Stays
  <2>4. /\ R \in Windows /\ SameManner(R, d) /\ R.normal = d.normal /\ R.max = d.max
    BY <2>3 DEF OnlyFrame, OnlyCurrent
  <2>5. /\ SameLook(R, d) /\ R.shaded = d.shaded /\ R.sticky = d.sticky
    BY <2>4, MannerLook DEF SameManner
  <2>6. Tall(R) /\ Suits(R)
    BY <1>2, <2>2, <2>4, <2>5, SameAnchor
  <2>7. /\ R.limit = R.style.max /\ R.maximized = u.maximized /\ R.full = u.full
        /\ R.saved = u.saved /\ R.gravity = u.gravity
    BY <1>3, <2>1, <2>5 DEF SameLook
  <2> QED
    BY <1>3, <2>3, <2>4, <2>5, <2>6, <2>7 DEF Refitted
<1> QED
  BY <1>5, <1>6

\* A style changes and nothing is fitted again: only the decoration changes.
LEMMA RedressedGood ==
  ASSUME NEW u, NEW v \in Int, NEW h, NEW t, Good(u, v, h, t), ~(u.full /\ u.saved.wasMax),
         NEW s \in Styles, s.max = u.style.max, NEW n, n = [u EXCEPT !.style = s],
         NEW R, R = ApplyUpdates(n, v, {"decoration"}), ~Odd(R), NEW p, Recalls(R, t, t, p)
  PROVE  Good(R, v, h, p)
<1>1. /\ u \in Windows /\ u.limit = u.style.max /\ (u.maximized => Near(u))
      /\ (u.full => u.maximized /\ ~u.shaded) /\ (~u.full => ~u.saved.wasMax)
      /\ u.normal.h > Total(u) /\ (u.maximized => u.max.h > Total(u)) /\ Home(u) = h
      /\ (u.maximized /\ ~u.full => There(u) = t)
  BY GoodIs DEF Good
<1>2. /\ n \in Windows /\ n.style = s /\ n.limit = u.limit /\ n.normal = u.normal /\ n.max = u.max
      /\ n.offset = u.offset /\ n.maximized = u.maximized /\ n.full = u.full
      /\ n.saved = u.saved /\ n.shaded = u.shaded /\ n.border = u.border /\ n.title = u.title
      /\ n.dir = u.dir /\ n.gravity = u.gravity
  BY <1>1 DEF Windows
<1>3. Redressed(R, n, v)
  BY <1>2, DecorRedressed
<1>4. /\ R \in Windows /\ SameStatus(R, n) /\ Suits(R) /\ NormalKept(R, n) /\ MaxKept(R, n)
      /\ (n.maximized => Apart(R) = Apart(n)) /\ Agrees(R, v)
  BY <1>3 DEF Redressed
<1>5. /\ R.maximized = u.maximized /\ R.full = u.full /\ R.saved = u.saved
      /\ R.shaded = u.shaded /\ R.gravity = u.gravity /\ R.limit = R.style.max
  BY <1>1, <1>2, <1>4 DEF SameStatus
<1>6. Total(n) = Total(u) /\ Apart(n) = Apart(u)
  BY <1>2 DEF Total, Apart
<1>7. Home(n) = Home(u) /\ There(n) = There(u)
  BY <1>2, <1>6, PlaceIs DEF Home, There
<1>8. Home(R) = h /\ R.normal.h > Total(R)
  BY <1>1, <1>2, <1>4, <1>5, <1>6, <1>7, NormalHome
<1>9. /\ R.max \in Rectangles /\ n.max \in Rectangles /\ R.max.h \in Int /\ n.max.h \in Int
      /\ Total(R) \in Int /\ Total(n) \in Int
  <2>1. n \in Windows /\ R \in Windows
    BY <1>2, <1>4
  <2>2. R.max \in Rectangles /\ n.max \in Rectangles
    BY <2>1, Fields
  <2>3. Total(R) \in Int /\ Total(n) \in Int
    BY <2>1, TotalTypes
  <2> QED
    BY <2>2, <2>3 DEF Rectangles
<1>10. u.maximized => R.max.h > Total(R) /\ There(R) = There(n)
  <2>1. ASSUME u.maximized PROVE R.max.y = n.max.y /\ R.max.h - Total(R) = n.max.h - Total(n)
    BY <1>2, <1>4, <2>1 DEF MaxKept
  <2>2. u.maximized => R.max.h > Total(R)
    BY <1>1, <1>2, <1>6, <1>9, <2>1
  <2>3. u.maximized => There(R) = There(n)
    BY <1>9, <2>1, RefIs, PlaceIs DEF There
  <2> QED
    BY <2>2, <2>3
<1>11. R.maximized => Near(R)
  BY <1>1, <1>2, <1>4, <1>5, <1>6 DEF Near
<1>12. Sound(R)
  BY <1>1, <1>4, <1>5, <1>8, <1>10 DEF Sound
<1> QED
  BY <1>1, <1>4, <1>5, <1>7, <1>8, <1>10, <1>11, <1>12 DEF Good, Recalls

\* A style changes and the size is fitted again: the place is the same.
LEMMA RefittedGood ==
  ASSUME RoomForClient,
         NEW u, NEW v \in Int, NEW h, NEW t, Good(u, v, h, t), ~(u.full /\ u.saved.wasMax),
         NEW s \in Styles, NEW changes, u.gravity # 0,
         "decoration" \notin changes => s.border = u.style.border /\ s.title = u.style.title,
         "title" \notin changes => s.dir = u.style.dir,
         "limits" \notin changes => s.max = u.style.max,
         "limits" \in changes => ~u.shaded /\ ~u.maximized,
         NEW n, n = [u EXCEPT !.style = s],
         NEW R, R = ApplyUpdates(n, v, changes), R.maximized => Near(R),
         NEW p, Recalls(R, IF u.gravity = -1 THEN [t EXCEPT !.h = There(R).h] ELSE There(R), t, p)
  PROVE  Good(R, v, [h EXCEPT !.h = Home(R).h], p)
<1>1. /\ u \in Windows /\ Agrees(u, v) /\ Suits(u) /\ u.limit = u.style.max
      /\ (u.full => u.maximized /\ ~u.shaded) /\ (~u.full => ~u.saved.wasMax)
      /\ u.normal.h > Total(u) /\ (u.maximized => u.max.h > Total(u)) /\ Home(u) = h
      /\ (u.maximized /\ ~u.full => There(u) = t)
  BY GoodIs DEF Good
<1>2. /\ n \in Windows /\ n.style = s /\ n.limit = u.limit /\ n.normal = u.normal /\ n.max = u.max
      /\ n.frame = u.frame /\ n.maximized = u.maximized /\ n.full = u.full
      /\ n.saved = u.saved /\ n.shaded = u.shaded /\ n.border = u.border /\ n.title = u.title
      /\ n.dir = u.dir /\ n.gravity = u.gravity /\ n.shaped = u.shaped /\ n.shadeDir = u.shadeDir
  BY <1>1 DEF Windows
<1>3. Total(n) = Total(u) /\ Current(n) = Current(u)
  BY <1>2 DEF Total, Current
<1>4. Agrees(n, v)
  BY <1>1, <1>2, <1>3 DEF Agrees, UpdateRelative, Shade
<1>5. Tall(n)
  BY <1>1, <1>2, <1>3 DEF Tall
<1>6. /\ "decoration" \notin changes => SuitsButTitle(n)
      /\ "title" \notin changes => n.dir = n.style.dir
  BY <1>1, <1>2 DEF Suits, SuitsButTitle
<1>7. Refitted(R, n, v)
  <2>1. n.gravity # 0
    BY <1>2
  <2>2. "limits" \notin changes => n.limit = n.style.max
    BY <1>1, <1>2
  <2>3. "limits" \in changes => ~n.shaded /\ ~n.maximized
    BY <1>2
  <2> QED
    BY <1>2, <1>4, <1>5, <1>6, <2>1, <2>2, <2>3, UpdatesRefit
<1>8. /\ R \in Windows /\ Agrees(R, v) /\ Suits(R) /\ R.limit = R.style.max /\ Tall(R)
      /\ Ref(u.gravity, R.normal) = Ref(u.gravity, u.normal)
      /\ R.maximized = u.maximized /\ R.full = u.full /\ R.saved = u.saved /\ R.gravity = u.gravity
      /\ R.shaded = u.shaded
      /\ (u.maximized /\ u.gravity = -1 => R.max.y = u.max.y)
  BY <1>2, <1>7 DEF Refitted
<1>9. Sound(R)
  BY <1>1, <1>8 DEF Sound, Tall
<1>10. PICK g \in Rectangles, k \in Rectangles, x \in Rectangles, z \in Rectangles :
         g = u.normal /\ k = R.normal /\ x = u.max /\ z = R.max
  BY <1>1, <1>8, Fields
<1>11. Home(R) = [h EXCEPT !.h = Home(R).h]
  <2>1. Home(R) = [ref |-> Ref(u.gravity, u.normal) % DisplayHeight, h |-> R.normal.h - Total(R)]
    BY <1>8, PlaceIs DEF Home
  <2>2. h = [ref |-> Ref(u.gravity, u.normal) % DisplayHeight, h |-> u.normal.h - Total(u)]
    BY <1>1, PlaceIs DEF Home
  <2> QED
    BY <2>1, <2>2
<1>12. ASSUME u.maximized, ~u.full, u.gravity = -1
       PROVE  There(R) = [t EXCEPT !.h = There(R).h]
  <2>1. There(R) = [ref |-> u.max.y % DisplayHeight, h |-> R.max.h - Total(R)]
    BY <1>8, <1>10, <1>12, PlaceIs, RefIs DEF There
  <2>2. t = [ref |-> u.max.y % DisplayHeight, h |-> u.max.h - Total(u)]
    BY <1>1, <1>10, <1>12, PlaceIs, RefIs DEF There
  <2> QED
    BY <2>1, <2>2
<1>13. R.maximized /\ ~R.full => There(R) = p
  BY <1>8, <1>12 DEF Recalls
<1> QED
  BY <1>8, <1>9, <1>11, <1>13 DEF Good

-----------------------------------------------------------------------------
(* A window that is restored from a session. *)

\* The parts of AddWindow and of what it calls: the decoration, the size, the
\* place of a sticky window, and the shade.
Redone(u) ==
  LET d == Decorated([u EXCEPT !.shaded = FALSE, !.maximized = FALSE,
                               !.titleDirUsed = TRUE, !.limit = u.style.max])
  IN [d EXCEPT !.normal = Dressed(d.gravity, d, @)]
Enlarged(n) ==
  LET h == Fit(n, n.max.h + n.defect)
  IN [n EXCEPT !.maximized = TRUE, !.max.h = h, !.defect = @ + n.max.h - h]
Shown(m, new) == [m EXCEPT !.frame = Relative(Current(m), new)]
StuckAgain(u, f, new) ==
  IF u.sticky /\ ~OnPage(f.frame) THEN Stuck([f EXCEPT !.sticky = FALSE], new) ELSE f
ShadedBack(u, s, new) ==
  LET dir == IF u.titleDirUsed THEN s.dir ELSE u.shadeDir
      big == IF s.maximized THEN s.max ELSE s.frame
  IN IF ~u.shaded THEN s
     ELSE UpdateAbsolute([s EXCEPT !.shaded = TRUE, !.shadeDir = dir,
                                   !.frame = Shade(s, dir, big)], new)

\* Restored takes these steps.
LEMMA RestoredSteps ==
  ASSUME NEW u, NEW new
  PROVE  Restored(u, new) =
           ShadedBack(u, StuckAgain(u, Shown(IF u.maximized THEN Enlarged(Redone(u)) ELSE Redone(u),
                                             new), new), new)
BY Zenon DEF Restored, ShadedBack, StuckAgain, Shown, Enlarged, Redone

\* Points that are x apart make rectangles that are.
LEMMA RefPlace ==
  ASSUME NEW gravity \in {-1, 0, 1}, NEW g \in Rectangles, NEW k \in Rectangles, NEW x \in Int,
         k.h = g.h, Ref(gravity, k) = Ref(gravity, g) + x
  PROVE  k.y = g.y + x
<1>1. PICK d \in Int : d = Div((gravity + 1) * (g.h - 1), 2)
  <2>1. (gravity + 1) * (g.h - 1) \in Int
    BY DEF Rectangles
  <2> QED
    BY <2>1, Integral
<1>2. g.y \in Int /\ k.y \in Int
  BY DEF Rectangles
<1> QED
  BY <1>1, <1>2 DEF Ref

\* What the session file says of the normal geometry.
LEMMA SavedIs ==
  ASSUME NEW u \in Windows, NEW v \in Int, NEW R, R = Saved(u, v)
  PROVE  \E z \in Int, k \in Rectangles :
           /\ R = [u EXCEPT !.normal = k] /\ z = (IF u.sticky THEN -v ELSE 0)
           /\ k.h = u.normal.h - Total(u)
           /\ Ref(u.gravity, k) = Ref(u.gravity, u.normal) + z
<1>1. u.gravity \in {-1, 0, 1} /\ u.normal \in Rectangles
  BY Fields
<1>2. PICK n : n = Naked(u.gravity, u, u.normal)
  OBVIOUS
<1>3. n \in Rectangles /\ n.h = u.normal.h - Total(u) /\ Ref(u.gravity, n) = Ref(u.gravity, u.normal)
  BY <1>1, <1>2, NakedRef
<1>4. PICK z \in Int : z = IF u.sticky THEN -v ELSE 0
  OBVIOUS
<1>5. PICK k : k = IF u.sticky THEN Relative(n, v) ELSE n
  OBVIOUS
<1>6. k \in Rectangles /\ k.h = n.h /\ k.y = n.y + z
  <2>1. n.y \in Int
    BY <1>3 DEF Rectangles
  <2>2. CASE u.sticky
    <3>1. PICK r \in Rectangles : r = Relative(n, v) /\ r.y = n.y - v /\ r.h = n.h
      BY <1>3, RelativeIs
    <3>2. k = r /\ z = -v
      BY <1>4, <1>5, <2>2, <3>1
    <3> QED
      BY <2>1, <3>1, <3>2
  <2>3. CASE ~u.sticky
    BY <1>3, <1>4, <1>5, <2>1, <2>3
  <2> QED
    BY <2>2, <2>3
<1>7. Ref(u.gravity, k) = Ref(u.gravity, n) + z
  BY <1>1, <1>3, <1>6, RefMoved
<1>8. R = [u EXCEPT !.normal = k]
  BY <1>2, <1>5 DEF Saved
<1> QED
  BY <1>3, <1>4, <1>6, <1>7, <1>8

\* The window has the decoration that it had, and is where it was.
LEMMA RedoneIs ==
  ASSUME NEW u \in Windows, Suits(u), ~u.full, u.limit = u.style.max, ~Odd(u),
         u.normal.h > Total(u), NEW z \in Int, NEW k \in Rectangles,
         k.h = u.normal.h - Total(u), Ref(u.gravity, k) = Ref(u.gravity, u.normal) + z,
         NEW x, x = [u EXCEPT !.normal = k], NEW R, R = Redone(x)
  PROVE  /\ R \in Windows /\ SameDress(R, u) /\ ~R.maximized /\ ~R.shaded /\ R.sticky = u.sticky
         /\ R.normal.h = u.normal.h /\ R.normal.y = u.normal.y + z
         /\ R.max = u.max /\ R.offset = u.offset /\ R.defect = u.defect
<1>1. PICK e : e = [x EXCEPT !.shaded = FALSE, !.maximized = FALSE,
                             !.titleDirUsed = TRUE, !.limit = x.style.max]
  OBVIOUS
<1>2. u.style.max \in Nat
  BY Fields, StyleFields
<1>3. /\ x \in Windows /\ x.style = u.style /\ x.normal = k
  BY <1>2 DEF Windows
<1>4. /\ e \in Windows /\ ~e.maximized /\ ~e.shaded /\ e.limit = u.limit /\ e.normal = k
      /\ e.max = u.max /\ e.offset = u.offset /\ e.defect = u.defect /\ e.sticky = u.sticky
      /\ e.full = u.full /\ e.saved = u.saved /\ e.shaped = u.shaped
      /\ e.gravity = u.gravity /\ e.style = u.style
  BY <1>1, <1>2, <1>3 DEF Windows
<1>5. PICK d : d = Decorated(e)
  OBVIOUS
<1>6. /\ d \in Windows /\ SameStatus(d, e) /\ Suits(d)
      /\ d.normal = e.normal /\ d.max = e.max
      /\ d.offset = e.offset /\ d.defect = e.defect
  BY <1>4, <1>5, DecoratedIs
<1>7. /\ d.limit = u.limit /\ d.full = u.full /\ d.saved = u.saved /\ d.shaped = u.shaped
      /\ d.gravity = u.gravity /\ d.style = u.style /\ ~d.maximized /\ ~d.shaded
      /\ d.sticky = u.sticky
  BY <1>4, <1>6 DEF SameStatus
<1>8. SameDress(d, u)
  BY <1>6, <1>7 DEF Suits, SameDress
<1>9. Total(d) = Total(u) /\ Total(u) \in Nat /\ u.gravity \in {-1, 0, 1} /\ u.normal.h \in Int
      /\ u.normal \in Rectangles
  BY <1>8, DressTotal, TotalTypes, Fields DEF Rectangles
<1>10. PICK g : g = Resized(u.gravity, k, Total(d))
  OBVIOUS
<1>11. Grown(u.gravity, k, Total(d), g)
  BY <1>9, <1>10, ResizedRef
<1>12. u.gravity # 0 \/ Even(Total(d))
  <2>1. Total(u) % 2 \in {0, 1}
    BY <1>9
  <2> QED
    BY <1>9, <2>1 DEF Odd, Even
<1>13. k.h > 0
  BY <1>9
<1>14. g \in Rectangles /\ g.h = k.h + Total(d) /\ Ref(u.gravity, g) = Ref(u.gravity, k)
  BY <1>9, <1>11, <1>12, <1>13 DEF Grown
<1>15. g.h = u.normal.h
  BY <1>9, <1>14
<1>16. Ref(u.gravity, g) = Ref(u.gravity, u.normal) + z
  BY <1>14
<1>17. g.y = u.normal.y + z
  BY <1>9, <1>14, <1>15, <1>16, RefPlace
<1>18. R = [d EXCEPT !.normal = g]
  <2>1. g = Dressed(d.gravity, d, d.normal)
    BY <1>4, <1>6, <1>7, <1>10 DEF Dressed
  <2> QED
    BY <1>1, <1>5, <2>1 DEF Redone
<1>19. /\ R \in Windows /\ R.normal = g /\ R.max = d.max /\ R.offset = d.offset
       /\ R.defect = d.defect /\ SameManner(R, d)
  BY <1>6, <1>14, <1>18, NormalIs
<1>20. SameDress(R, d) /\ ~R.maximized /\ ~R.shaded /\ R.sticky = u.sticky
  BY <1>7, <1>19, LookDress DEF SameManner
<1> QED
  BY <1>4, <1>6, <1>8, <1>15, <1>17, <1>19, <1>20, DressTrans

\* The maximized geometry is made to fit again.
LEMMA EnlargedIs ==
  ASSUME NEW n \in Windows, NEW R, R = Enlarged(n)
  PROVE  /\ R \in Windows /\ SameDress(R, n) /\ R.maximized /\ R.shaded = n.shaded
         /\ R.sticky = n.sticky /\ R.normal = n.normal /\ R.offset = n.offset
         /\ R.max.y = n.max.y /\ R.max.h = Fit(n, n.max.h + n.defect)
<1>1. n.max \in Rectangles /\ n.max.h \in Int /\ n.defect \in Int /\ n.max.h + n.defect \in Int
  BY Fields DEF Rectangles
<1>2. PICK h \in Int : h = Fit(n, n.max.h + n.defect)
  BY <1>1, FitTypes
<1>3. PICK x \in Int : x = n.defect + n.max.h - h
  BY <1>1
<1>4. PICK g : g = [n.max EXCEPT !.h = h]
  OBVIOUS
<1>5. g \in Rectangles /\ g.y = n.max.y /\ g.h = h
  BY <1>1, <1>4, HighIs
<1>6. R = [n EXCEPT !.maximized = TRUE, !.max = g, !.defect = x]
  BY <1>2, <1>3, <1>4 DEF Enlarged
<1>7. /\ R \in Windows /\ SameDress(R, n) /\ R.maximized /\ R.shaded = n.shaded
      /\ R.sticky = n.sticky /\ R.normal = n.normal /\ R.offset = n.offset /\ R.max = g
  <2>1. PICK e : e = [n EXCEPT !.max = g, !.defect = x]
    OBVIOUS
  <2>2. e \in Windows /\ e.normal = n.normal /\ e.max = g /\ e.offset = n.offset /\ SameManner(e, n)
    BY <1>5, <2>1 DEF Windows, SameManner
  <2>3. R = [e EXCEPT !.maximized = TRUE]
    BY <1>6, <2>1
  <2>4. R \in Windows /\ SameDress(R, e) /\ R.maximized /\ R.shaded = e.shaded
        /\ R.sticky = e.sticky /\ R.normal = e.normal /\ R.offset = e.offset /\ R.max = e.max
    BY <2>2, <2>3 DEF Windows, SameDress
  <2>5. SameDress(R, n) /\ R.shaded = n.shaded /\ R.sticky = n.sticky
    BY <2>2, <2>4, LookDress, DressTrans DEF SameManner
  <2> QED
    BY <2>2, <2>4, <2>5
<1> QED
  BY <1>2, <1>5, <1>7

\* R is u, made again when the page new is shown.
Rebuilt(R, u, new) ==
  /\ R \in Windows /\ SameDress(R, u) /\ (R.maximized <=> u.maximized) /\ Agrees(R, new)
  /\ Alike(R.normal, u.normal)
  /\ u.maximized => /\ Near(R) /\ Shift(R.max.y, u.max.y)
                    /\ R.max.h = Fit(u, u.max.h + u.defect)

\* What was made again may be moved to some page.
LEMMA MovesRebuilt ==
  ASSUME NEW u \in Windows, NEW f, NEW R, NEW v, NEW x, Rebuilt(f, u, v), Moves(R, f, x)
  PROVE  Rebuilt(R, u, x)
<1>1. f \in Windows /\ R \in Windows /\ SameDress(R, f) /\ (R.maximized <=> f.maximized)
  BY LookDress DEF Rebuilt, Moves
<1>2. SameDress(R, u) /\ (R.maximized <=> u.maximized) /\ Agrees(R, x)
  BY <1>1, DressTrans DEF Rebuilt, Moves
<1>3. PICK a \in Rectangles, b \in Rectangles, c \in Rectangles, a1 \in Rectangles,
           b1 \in Rectangles, c1 \in Rectangles :
        /\ a = R.normal /\ b = f.normal /\ c = u.normal
        /\ a1 = R.max /\ b1 = f.max /\ c1 = u.max
  BY <1>1, Fields
<1>4. Alike(a, c)
  BY <1>3, AlikeTrans DEF Rebuilt, Moves
<1>5. ASSUME u.maximized
      PROVE  Near(R) /\ Shift(R.max.y, u.max.y) /\ R.max.h = Fit(u, u.max.h + u.defect)
  <2>1. f.maximized /\ Shift(b1.y, c1.y) /\ b1.h = Fit(u, u.max.h + u.defect)
    BY <1>3, <1>5 DEF Rebuilt
  <2>2. Alike(a1, b1) /\ Near(R)
    BY <1>3, <2>1 DEF Moves
  <2>3. a1.h = b1.h /\ Shift(a1.y, b1.y)
    BY <2>2 DEF Alike
  <2>4. a1.y \in Int /\ b1.y \in Int /\ c1.y \in Int
    BY DEF Rectangles
  <2>5. Shift(a1.y, c1.y)
    BY <2>1, <2>3, <2>4, ShiftTrans
  <2> QED
    BY <1>3, <2>1, <2>2, <2>3, <2>5
<1> QED
  BY <1>1, <1>2, <1>3, <1>4, <1>5 DEF Rebuilt

\* The window that is made again, before it is stuck and shaded.
LEMMA ShownRebuilt ==
  ASSUME NEW u, NEW v \in Pages, NEW h, NEW t, Good(u, v, h, t), NEW new \in Int, ~u.full,
         ~(u.sticky /\ u.maximized), ~Odd(u), NEW x, x = Saved(u, v),
         NEW f, f = Shown(IF u.maximized THEN Enlarged(Redone(x)) ELSE Redone(x), new)
  PROVE  Rebuilt(f, u, new) /\ ~f.shaded /\ f.sticky = u.sticky
<1>1. u \in Windows /\ Suits(u) /\ u.limit = u.style.max /\ (u.maximized => Near(u))
      /\ u.normal.h > Total(u)
  BY GoodIs
<1>2. v \in Int /\ Shift(v, 0)
  BY PageShift
<1>3. PICK z \in Int, k \in Rectangles :
           /\ x = [u EXCEPT !.normal = k] /\ z = (IF u.sticky THEN -v ELSE 0)
           /\ k.h = u.normal.h - Total(u)
           /\ Ref(u.gravity, k) = Ref(u.gravity, u.normal) + z
  BY <1>1, <1>2, SavedIs
<1>4. PICK n : n = Redone(x)
  OBVIOUS
<1>5. /\ n \in Windows /\ SameDress(n, u) /\ ~n.maximized /\ ~n.shaded /\ n.sticky = u.sticky
      /\ n.normal.h = u.normal.h /\ n.normal.y = u.normal.y + z
      /\ n.max = u.max /\ n.offset = u.offset /\ n.defect = u.defect
  BY <1>1, <1>3, <1>4, RedoneIs
<1>6. PICK e : e = Enlarged(n)
  OBVIOUS
<1>7. /\ e \in Windows /\ SameDress(e, n) /\ e.maximized /\ e.shaded = n.shaded
      /\ e.sticky = n.sticky /\ e.normal = n.normal /\ e.offset = n.offset
      /\ e.max.y = n.max.y /\ e.max.h = Fit(n, n.max.h + n.defect)
  BY <1>5, <1>6, EnlargedIs
<1>8. PICK m : m = IF u.maximized THEN e ELSE n
  OBVIOUS
<1>9. /\ m \in Windows /\ SameDress(m, u) /\ (m.maximized <=> u.maximized) /\ ~m.shaded
      /\ m.sticky = u.sticky /\ m.normal = n.normal /\ m.offset = u.offset
      /\ u.maximized => m.max.y = u.max.y /\ m.max.h = Fit(u, u.max.h + u.defect)
  <2>1. CASE u.maximized
    <3>1. SameDress(e, u)
      BY <1>5, <1>7, DressTrans
    <3>2. Fit(n, u.max.h + u.defect) = Fit(u, u.max.h + u.defect)
      BY <1>5, FitSame
    <3>3. m = e
      BY <1>8, <2>1
    <3> QED
      BY <1>5, <1>7, <2>1, <3>1, <3>2, <3>3
  <2>2. CASE ~u.maximized
    BY <1>5, <1>8, <2>2
  <2> QED
    BY <2>1, <2>2
<1>10. PICK r \in Rectangles : r = Relative(Current(m), new)
  BY <1>9, CurrentTypes, RelativeIs
<1>11. f = [m EXCEPT !.frame = r]
  BY <1>4, <1>6, <1>8, <1>10 DEF Shown
<1>12. f \in Windows /\ f.frame = r /\ f.normal = m.normal /\ f.max = m.max /\ f.offset = m.offset
       /\ SameManner(f, m)
  BY <1>9, <1>11, FrameIs
<1>13. /\ SameDress(f, m) /\ f.maximized = m.maximized /\ f.shaded = m.shaded
       /\ f.sticky = m.sticky
  BY <1>12, LookDress DEF SameManner
<1>14. SameDress(f, u)
  BY <1>9, <1>13, DressTrans
<1>15. Agrees(f, new)
  <2>1. ~f.shaded /\ Current(f) = Current(m)
    BY <1>9, <1>12, <1>13 DEF Current
  <2> QED
    BY <1>10, <1>12, <2>1 DEF Agrees, UpdateRelative
<1>16. PICK a \in Rectangles, b \in Rectangles, c \in Rectangles, d \in Rectangles :
         a = u.normal /\ b = f.normal /\ c = u.max /\ d = f.max
  BY <1>1, <1>12, Fields
<1>17. a.y \in Int /\ b.y \in Int /\ c.y \in Int /\ d.y \in Int
  BY DEF Rectangles
<1>18. b.h = a.h /\ b.y = a.y + z
  BY <1>5, <1>9, <1>12, <1>16
<1>19. Alike(b, a)
  <2>1. Shift(0 - v, 0 - 0)
    BY <1>2, ShiftSame, ShiftSum
  <2>2. Shift(z, 0)
    BY <1>2, <1>3, <2>1, ShiftSame
  <2>3. Shift(a.y + z, a.y + 0)
    <3>1. PICK y \in Int : y = a.y
      BY <1>17
    <3>2. Shift(y, y)
      BY ShiftSame
    <3>3. Shift(y + z, y + 0)
      BY <2>2, <3>2, ShiftSum
    <3> QED
      BY <3>1, <3>3
  <2>4. a.y + 0 = a.y
    BY <1>17
  <2> QED
    BY <1>18, <2>3, <2>4 DEF Alike
<1>20. ASSUME u.maximized
       PROVE  Near(f) /\ Shift(d.y, c.y) /\ d.h = Fit(u, u.max.h + u.defect)
  <2>1. d.y = c.y /\ d.h = Fit(u, u.max.h + u.defect)
    BY <1>9, <1>12, <1>16, <1>20
  <2>2. z = 0
    BY <1>3, <1>20
  <2>3. b.y = a.y
    BY <1>17, <1>18, <2>2
  <2>4. f.offset = u.offset
    BY <1>9, <1>12
  <2>5. Apart(f) = Apart(u)
    BY <1>16, <2>1, <2>3, <2>4 DEF Apart
  <2> QED
    BY <1>1, <1>17, <1>20, <2>1, <2>5, ShiftSame DEF Near
<1> QED
  BY <1>9, <1>12, <1>13, <1>14, <1>15, <1>16, <1>19, <1>20 DEF Rebuilt

\* It is stuck to the page that is shown if it was sticky.
LEMMA StuckRebuilt ==
  ASSUME NEW u \in Windows, NEW new \in Pages, NEW f, Rebuilt(f, u, new), ~u.full, ~f.shaded,
         NEW x, NEW s, s = StuckAgain(x, f, new)
  PROVE  Rebuilt(s, u, new) /\ ~s.shaded
<1>1. new \in Int
  BY PageShift
<1>2. /\ f \in Windows /\ ~f.full /\ Agrees(f, new) /\ (f.maximized => Near(f))
  BY DEF Rebuilt, SameDress
<1>3. PICK b : b = [f EXCEPT !.sticky = FALSE]
  OBVIOUS
<1>4. Moves(b, f, new)
  BY <1>1, <1>2, <1>3, StickyKept
<1>5. b \in Windows /\ ~b.shaded /\ Agrees(b, new)
  BY <1>1, <1>2, <1>3, StickyIs
<1>6. (b.maximized => Near(b)) /\ ~b.full
  BY <1>2, <1>4 DEF Moves, SameLook
<1>7. PICK k : k = Stuck(b, new)
  OBVIOUS
<1>8. Moves(k, b, new) /\ ~k.shaded
  BY <1>1, <1>5, <1>6, <1>7, StuckMoves, StuckIs
<1>9. Moves(k, f, new)
  BY <1>2, <1>4, <1>8, MovesTrans
<1>10. Rebuilt(k, u, new)
  BY <1>9, MovesRebuilt
<1>11. s = k \/ s = f
  BY <1>3, <1>7 DEF StuckAgain
<1> QED
  BY <1>8, <1>10, <1>11

\* It is shaded again if it was shaded.
LEMMA ShadedRebuilt ==
  ASSUME NEW u \in Windows, NEW new \in Pages, NEW s, Rebuilt(s, u, new), ~u.full, ~s.shaded,
         NEW x \in Windows, x.shaded => ~u.maximized \/ new = 0, NEW R, R = ShadedBack(x, s, new)
  PROVE  Rebuilt(R, u, new)
<1>1. new \in Int
  BY PageShift
<1>2. /\ s \in Windows /\ ~s.full /\ Agrees(s, new) /\ (s.maximized => Near(s))
      /\ (s.maximized <=> u.maximized)
  BY DEF Rebuilt, SameDress
<1>3. CASE ~x.shaded
  BY <1>3 DEF ShadedBack
<1>4. CASE x.shaded
  <2>1. PICK dir \in {"N", "S", "SW", "W"} : dir = IF x.titleDirUsed THEN s.dir ELSE x.shadeDir
    BY <1>2, Fields
  <2>2. s.frame = Relative(Current(s), new)
    BY <1>2 DEF Agrees, UpdateRelative
  <2>3. s.maximized => s.frame = s.max
    <3> HAVE s.maximized
    <3>1. new = 0 /\ Current(s) = s.max
      BY <1>2, <1>4 DEF Current
    <3>2. PICK g \in Rectangles, k \in Rectangles : g = s.max /\ k = Relative(g, 0)
      BY <1>2, Fields, RelativeIs
    <3>3. k.y = g.y - 0 /\ k.h = g.h
      BY <3>2, RelativeIs
    <3>4. k.y = g.y
      BY <3>3 DEF Rectangles
    <3>5. k = g
      BY <3>3, <3>4, SameRectangle
    <3> QED
      BY <2>2, <3>1, <3>2, <3>5
  <2>4. (IF s.maximized THEN s.max ELSE s.frame) = s.frame /\ Unshaded(s, new) = s.frame
    BY <2>3 DEF Unshaded
  <2>5. R = ShadedTo(s, new, dir)
    BY <1>4, <2>1, <2>4 DEF ShadedBack, ShadedTo
  <2>6. Kept(R, s) /\ Agrees(R, new)
    BY <1>1, <1>2, <2>5, ShadedToKept
  <2>7. ~R.full
    BY <1>2, <2>6 DEF Kept, SameLook
  <2>8. Moves(R, s, new)
    BY <1>2, <2>6, <2>7, KeptMoves
  <2> QED
    BY <2>8, MovesRebuilt
<1> QED
  BY <1>3, <1>4

\* What is saved and restored is where it was.
LEMMA RestoredRebuilt ==
  ASSUME NEW u, NEW v \in Pages, NEW h, NEW t, Good(u, v, h, t), NEW new \in Pages, ~u.full,
         ~(u.sticky /\ u.maximized), ~(u.shaded /\ u.maximized /\ new # 0), ~Odd(u),
         NEW R, R = Restored(Saved(u, v), new)
  PROVE  Rebuilt(R, u, new)
<1>1. u \in Windows /\ v \in Int /\ new \in Int
  BY GoodIs, PageShift
<1>2. PICK x : x = Saved(u, v)
  OBVIOUS
<1>3. x \in Windows /\ x.maximized = u.maximized /\ x.shaded = u.shaded
  <2>1. PICK z \in Int, k \in Rectangles : x = [u EXCEPT !.normal = k]
    BY <1>1, <1>2, SavedIs
  <2>2. x \in Windows /\ SameManner(x, u)
    BY <1>1, <2>1, NormalIs
  <2> QED
    BY <2>2 DEF SameManner
<1>4. PICK f : f = Shown(IF x.maximized THEN Enlarged(Redone(x)) ELSE Redone(x), new)
  OBVIOUS
<1>5. PICK s : s = StuckAgain(x, f, new)
  OBVIOUS
<1>6. R = ShadedBack(x, s, new)
  BY <1>2, <1>4, <1>5, RestoredSteps
<1>7. f = Shown(IF u.maximized THEN Enlarged(Redone(x)) ELSE Redone(x), new)
  BY <1>3, <1>4
<1>8. Rebuilt(f, u, new) /\ ~f.shaded
  BY <1>1, <1>2, <1>7, ShownRebuilt
<1>9. Rebuilt(s, u, new) /\ ~s.shaded
  BY <1>1, <1>5, <1>8, StuckRebuilt
<1> QED
  BY <1>1, <1>3, <1>6, <1>9, ShadedRebuilt

\* A window that was made again is where it was, as high as it may be.
LEMMA RebuiltGood ==
  ASSUME RoomForClient, NEW u, NEW v, NEW h, NEW t, Good(u, v, h, t), ~u.full,
         NEW R, NEW v2, Rebuilt(R, u, v2), NEW p,
         Recalls(R, [t EXCEPT !.h = Fit(R, u.max.h + u.defect) - Total(R)], t, p)
  PROVE  Good(R, v2, h, p)
<1>1. /\ u \in Windows /\ Sound(u) /\ Suits(u) /\ u.limit = u.style.max /\ Roomy(u) /\ Home(u) = h
      /\ u.normal.h > Total(u) /\ (u.maximized => There(u) = t)
  BY GoodIs DEF Good
<1>2. /\ R \in Windows /\ SameDress(R, u) /\ (R.maximized <=> u.maximized) /\ Agrees(R, v2)
      /\ Alike(R.normal, u.normal)
      /\ u.maximized => /\ Near(R) /\ Shift(R.max.y, u.max.y)
                        /\ R.max.h = Fit(u, u.max.h + u.defect)
  BY DEF Rebuilt
<1>3. Total(R) = Total(u) /\ R.gravity = u.gravity /\ ~R.full
  BY <1>2, DressTotal DEF SameDress
<1>4. PICK a \in Rectangles, b \in Rectangles, c \in Rectangles, d \in Rectangles :
         a = u.normal /\ b = R.normal /\ c = u.max /\ d = R.max
  BY <1>1, <1>2, Fields
<1>5. u.gravity \in {-1, 0, 1} /\ u.defect \in Int /\ a.y \in Int /\ c.y \in Int /\ c.h \in Int /\ d.y \in Int
  BY <1>1, Fields DEF Rectangles
<1>6. Home(R) = h
  BY <1>1, <1>2, <1>3, <1>4, <1>5, PlaceAlike DEF Home
<1>7. R.normal.h > Total(u)
  BY <1>1, <1>2 DEF Alike
<1>8. u.maximized => R.max.h > Total(u)
  <2>1. c.h + u.defect \in Int
    BY <1>5
  <2>2. Fit(u, c.h + u.defect) > Total(u)
    BY <1>1, <2>1, FitHigh
  <2> QED
    BY <1>2, <1>4, <2>2
<1>9. Sound(R)
  BY <1>1, <1>2, <1>3, <1>7, <1>8, DressSound
<1>10. ASSUME u.maximized
       PROVE  There(R) = p
  <2>1. p = [t EXCEPT !.h = Fit(R, u.max.h + u.defect) - Total(R)]
    BY <1>2, <1>3, <1>10 DEF Recalls
  <2>2. Fit(R, u.max.h + u.defect) = Fit(u, u.max.h + u.defect)
    BY <1>2, FitSame
  <2>3. t = [ref |-> c.y % DisplayHeight, h |-> c.h - Total(u)]
    BY <1>1, <1>4, <1>10, PlaceIs, RefIs DEF There
  <2>4. There(R) = [ref |-> d.y % DisplayHeight, h |-> R.max.h - Total(R)]
    BY <1>4, PlaceIs, RefIs DEF There
  <2>5. d.y % DisplayHeight = c.y % DisplayHeight
    BY <1>2, <1>4, <1>5, <1>10, ShiftMod
  <2> QED
    BY <1>2, <1>3, <1>10, <2>1, <2>2, <2>3, <2>4, <2>5
<1> QED
  BY <1>2, <1>3, <1>6, <1>9, <1>10 DEF Good

-----------------------------------------------------------------------------
(* What fills the screen is maximized, whatever became of the geometry. *)

\* R is maximized, or fills the screen, as u does.
SameFlags(R, u) == (R.full <=> u.full) /\ (R.maximized <=> u.maximized)

\* What is like u in more than that has the same flags.
LEMMA MannerFlags ==
  ASSUME NEW u, NEW R
  PROVE  /\ SameManner(R, u) => SameFlags(R, u)
         /\ SameStatus(R, u) => SameFlags(R, u)
         /\ SameLook(R, u) => SameFlags(R, u)
BY DEF SameManner, SameStatus, SameLook, SameFlags

\* SameFlags is transitive.
LEMMA FlagsTrans ==
  ASSUME NEW u, NEW t, NEW s, SameFlags(s, t), SameFlags(t, u)
  PROVE  SameFlags(s, u)
BY DEF SameFlags

\* No step but FillScreen makes a window fill the screen, one lemma for each step:
\* resizing ...
LEMMA ResizedToFull ==
  ASSUME NEW u \in Windows, NEW v \in Int, NEW h \in Int, NEW R, R = ResizedTo(u, v, h)
  PROVE  R.full = u.full
<1>1. PICK n : n = Unset(u)
  OBVIOUS
<1>2. n \in Windows /\ n.full = u.full
  BY <1>1, UnsetDress DEF SameDress
<1>3. PICK g \in Rectangles : g = Unshaded(u, v)
  BY RelativeTypes
<1>4. Total(u) \in Int /\ g.h \in Int /\ u.gravity \in {-1, 0, 1}
  BY TotalTypes, Fields DEF Rectangles
<1>5. PICK dh \in Int : dh = Fit(u, h + Total(u)) - g.h
  BY <1>4, FitTypes
<1>6. PICK new \in Rectangles : new = Resized(u.gravity, g, dh)
  BY <1>4, ResizedTypes
<1>7. PICK m : m = [n EXCEPT !.normal = new]
  OBVIOUS
<1>8. m \in Windows /\ m.full = u.full
  BY <1>2, <1>7, NormalIs DEF SameManner
<1>9. PICK f \in Rectangles : f = Shade(u, u.shadeDir, new)
  BY Fields, ShadeTypes
<1>10. \/ R = UpdateAbsolute(FrameSetup(m, v, f), v)
       \/ R = UpdateAbsolute(FrameSetup(n, v, new), v)
  BY <1>1, <1>3, <1>5, <1>6, <1>7, <1>9 DEF ResizedTo
<1> QED
  BY <1>2, <1>8, <1>10, SettledIs DEF SameManner

\* ... resizing and moving ...
LEMMA ResizedMovedFull ==
  ASSUME NEW u \in Windows, NEW v \in Int, NEW g \in Rectangles, NEW R, R = ResizedMoved(u, v, g)
  PROVE  R.full = u.full
<1>1. PICK n : n = Unset(u)
  OBVIOUS
<1>2. n \in Windows /\ n.full = u.full
  BY <1>1, UnsetDress DEF SameDress
<1>3. PICK h \in Int : h = IF u.shaded THEN u.frame.h ELSE g.h
  BY Fields DEF Rectangles
<1>4. PICK k : k = [g EXCEPT !.h = h]
  OBVIOUS
<1>5. k \in Rectangles
  BY <1>4, HighIs
<1>6. R = UpdateAbsolute(FrameSetup(n, v, k), v)
  BY <1>1, <1>3, <1>4 DEF ResizedMoved
<1> QED
  BY <1>2, <1>5, <1>6, SettledIs DEF SameManner

\* ... what is resized as the maximized geometry is maximized ...
LEMMA AsMaximizedMax ==
  ASSUME NEW u \in Windows, NEW r \in Windows, NEW v \in Int, NEW constrain,
         NEW R, R = AsMaximized(u, r, v, constrain)
  PROVE  R.maximized
<1>1. PICK n : n = [r EXCEPT !.normal = u.normal]
  OBVIOUS
<1>2. n \in Windows
  BY <1>1, Fields, NormalIs
<1>3. PICK g \in Rectangles : g = Relative(r.normal, v)
  BY Fields, RelativeIs
<1>4. R = Maximized(n, v, g, constrain)
  BY <1>1, <1>3 DEF AsMaximized
<1> QED
  BY <1>2, <1>3, <1>4, MaximizedLands DEF Enlarges

\* ... shading ...
LEMMA ShadedToFlags ==
  ASSUME NEW u \in Windows, NEW v \in Int, NEW dir \in {"N", "S", "SW", "W"},
         NEW R, R = ShadedTo(u, v, dir)
  PROVE  R \in Windows /\ SameFlags(R, u)
<1>1. PICK f \in Rectangles : f = Shade(u, dir, Unshaded(u, v))
  BY RelativeTypes, ShadeTypes
<1>2. PICK s : s = [u EXCEPT !.shaded = TRUE, !.shadeDir = dir, !.frame = f]
  OBVIOUS
<1>3. s \in Windows /\ SameFlags(s, u)
  BY <1>2 DEF Windows, SameFlags
<1>4. R = UpdateAbsolute(s, v)
  BY <1>1, <1>2 DEF ShadedTo
<1>5. R \in Windows /\ SameManner(R, s)
  BY <1>3, <1>4, AbsoluteIs
<1> QED
  BY <1>3, <1>5, MannerFlags, FlagsTrans

\* ... unshading ...
LEMMA UnshadeFlags ==
  ASSUME NEW u \in Windows, NEW v \in Int, NEW R, R = Unshade(u, v)
  PROVE  R \in Windows /\ SameFlags(R, u)
<1>1. PICK f \in Rectangles : f = Unshaded(u, v)
  BY RelativeTypes
<1>2. PICK s : s = [u EXCEPT !.shaded = FALSE, !.frame = f]
  OBVIOUS
<1>3. s \in Windows /\ SameFlags(s, u)
  BY <1>2 DEF Windows, SameFlags
<1>4. R = UpdateAbsolute(s, v)
  BY <1>1, <1>2 DEF Unshade
<1>5. R \in Windows /\ SameManner(R, s)
  BY <1>3, <1>4, AbsoluteIs
<1> QED
  BY <1>3, <1>5, MannerFlags, FlagsTrans

\* ... new decoration ...
LEMMA DecorFlags ==
  ASSUME NEW u \in Windows, NEW v \in Int, NEW R, R = ApplyDecorChange(u, v)
  PROVE  R \in Windows /\ SameFlags(R, u)
<1>1. Redressed(R, u, v)
  BY DecorRedressed DEF ApplyDecorChange
<1> QED
  BY <1>1, MannerFlags DEF Redressed

\* ... setting up a frame ...
LEMMA SetUpFlags ==
  ASSUME NEW u \in Windows, NEW v \in Int, NEW g \in Rectangles, NEW wider \in BOOLEAN,
         NEW R, R = SetUpAt(u, v, g, wider)
  PROVE  R \in Windows /\ SameFlags(R, u)
<1>1. R = ForceSetup(u, v, g) \/ R = FrameSetup(u, v, g)
  BY DEF SetUpAt
<1> QED
  BY <1>1, ForceSetupIs, FrameSetupIs, MannerFlags

\* unmaximize_fvwm_window also ends filling the screen.
LEMMA UnmaximizedFull ==
  ASSUME NEW u \in Windows, NEW v \in Int, NEW wider \in BOOLEAN,
         NEW R, R = Unmaximized(u, v, wider)
  PROVE  ~R.full
<1>1. PICK n : n = [u EXCEPT !.maximized = u.saved.wasMax, !.full = FALSE, !.saved = NothingSaved]
  OBVIOUS
<1>2. n \in Windows /\ ~n.full
  <2>1. Released(n, u, u.saved.wasMax)
    BY <1>1, Fields, ReleasedIs
  <2> QED
    BY <2>1 DEF Released
<1>3. PICK g \in Rectangles : g = Relative(IF u.saved.wasMax THEN u.saved.max ELSE u.normal, v)
  BY Fields, RelativeIs
<1>4. PICK d : d = IF u.saved.wasMax THEN ApplyDecorChange(n, v) ELSE n
  OBVIOUS
<1>5. d \in Windows /\ ~d.full
  BY <1>2, <1>4, DecorFlags DEF SameFlags
<1>6. PICK s : s = SetUpAt(d, v, g, wider)
  OBVIOUS
<1>7. s \in Windows /\ ~s.full
  BY <1>5, <1>6, SetUpFlags DEF SameFlags
<1>8. PICK k : k = Reshaded(s, v, u.saved)
  OBVIOUS
<1>9. k \in Windows /\ ~k.full
  <2>1. PICK e : e = [s EXCEPT !.titleDirUsed = TRUE]
    OBVIOUS
  <2>2. e \in Windows /\ ~e.full
    BY <1>7, <2>1 DEF Windows
  <2>3. s.dir \in {"N", "S", "SW", "W"}
    BY <1>7, Fields
  <2>4. PICK q : q = ShadedTo(e, v, s.dir)
    OBVIOUS
  <2>5. q \in Windows /\ ~q.full
    <3>1. q \in Windows /\ SameFlags(q, e)
      BY <2>2, <2>3, <2>4, ShadedToFlags
    <3> QED
      BY <2>2, <3>1 DEF SameFlags
  <2>6. k = q \/ k = s
    BY <1>8, <2>1, <2>4 DEF Reshaded, ShadedAgain
  <2> QED
    BY <1>7, <2>5, <2>6
<1>10. R = ApplyDecorChange(k, v)
  BY <1>1, <1>3, <1>4, <1>6, <1>8 DEF Unmaximized
<1> QED
  BY <1>9, <1>10, DecorFlags DEF SameFlags

\* ... fitting the maximized geometry again ...
LEMMA ConstrainedMaxFlags ==
  ASSUME NEW u \in Windows, NEW R, R = ConstrainedMax(u)
  PROVE  R \in Windows /\ SameFlags(R, u)
BY ConstrainedMaxIs, MannerFlags

\* ... moving the title ...
LEMMA TitleFlags ==
  ASSUME NEW u \in Windows, NEW R, R = TitleMoved(u)
  PROVE  R \in Windows /\ SameFlags(R, u)
<1>1. PICK d : d = [u EXCEPT !.dir = u.style.dir]
  OBVIOUS
<1>2. d \in Windows /\ SameFlags(d, u) /\ d.gravity \in {-1, 0, 1}
  BY <1>1, Fields, StyleFields DEF Windows, SameFlags
<1>3. PICK dh \in Int : dh = Total(d) - Total(u)
  BY <1>2, TotalTypes
<1>4. PICK a \in Rectangles : a = Constrained(d, Resized(d.gravity, d.normal, dh))
  BY <1>2, Fields, ResizedTypes, ConstrainedTypes
<1>5. PICK e : e = [d EXCEPT !.normal = a]
  OBVIOUS
<1>6. e \in Windows /\ SameManner(e, d)
  BY <1>2, <1>5, NormalIs
<1>7. PICK b \in Rectangles : b = Resized(d.gravity, e.max, dh)
  BY <1>2, <1>6, Fields, ResizedTypes
<1>8. PICK k : k = [e EXCEPT !.max = b]
  OBVIOUS
<1>9. k \in Windows /\ SameManner(k, e)
  BY <1>6, <1>8, MaxIs
<1>10. R = IF ~u.maximized THEN e ELSE ConstrainedMax(k)
  BY <1>1, <1>3, <1>4, <1>5, <1>7, <1>8 DEF TitleMoved
<1>11. SameFlags(e, u) /\ SameFlags(k, u)
  BY <1>2, <1>6, <1>9, MannerFlags, FlagsTrans
<1>12. ConstrainedMax(k) \in Windows /\ SameFlags(ConstrainedMax(k), u)
  BY <1>9, <1>11, ConstrainedMaxFlags, FlagsTrans
<1> QED
  BY <1>6, <1>10, <1>11, <1>12

\* ... new limits ...
LEMMA LimitedFlags ==
  ASSUME NEW u \in Windows, NEW R, R = Limited(u)
  PROVE  R \in Windows /\ SameFlags(R, u)
<1>1. PICK d : d = [u EXCEPT !.limit = u.style.max]
  OBVIOUS
<1>2. u.style.max \in Nat
  BY Fields, StyleFields
<1>3. d \in Windows /\ SameFlags(d, u)
  BY <1>1, <1>2 DEF Windows, SameFlags
<1>4. PICK a \in Rectangles : a = Constrained(d, d.normal)
  BY <1>3, Fields, ConstrainedTypes
<1>5. PICK e : e = [d EXCEPT !.normal = a]
  OBVIOUS
<1>6. e \in Windows /\ SameManner(e, d)
  BY <1>3, <1>5, NormalIs
<1>7. SameFlags(e, u)
  BY <1>3, <1>6, MannerFlags, FlagsTrans
<1>8. R = IF u.maximized THEN ConstrainedMax(e) ELSE e
  BY <1>1, <1>4, <1>5 DEF Limited
<1>9. ConstrainedMax(e) \in Windows /\ SameFlags(ConstrainedMax(e), u)
  BY <1>6, <1>7, ConstrainedMaxFlags, FlagsTrans
<1> QED
  BY <1>6, <1>7, <1>8, <1>9

\* ... all that a style changes ...
LEMMA DecoratingFlags ==
  ASSUME NEW u \in Windows, NEW changes, NEW R, R = Decorating(u, changes)
  PROVE  R \in Windows /\ SameFlags(R, u)
<1>1. PICK r : r = IF "decoration" \in changes THEN Redecorated(u) ELSE u
  OBVIOUS
<1>2. r \in Windows /\ SameFlags(r, u)
  BY <1>1, RedecoratedIs, MannerFlags DEF SameFlags
<1>3. PICK t : t = IF "title" \in changes THEN TitleMoved(r) ELSE r
  OBVIOUS
<1>4. t \in Windows /\ SameFlags(t, u)
  BY <1>2, <1>3, TitleFlags, FlagsTrans
<1>5. PICK q : q = [t EXCEPT !.max = r.max]
  OBVIOUS
<1>6. q \in Windows
  BY <1>2, <1>4, <1>5, Fields, MaxIs
<1>7. PICK x \in Int : x = OffsetKept(u, q).offset
  BY <1>6, OffsetTypes
<1>8. PICK e : e = [t EXCEPT !.offset = x]
  OBVIOUS
<1>9. e \in Windows /\ SameManner(e, t)
  BY <1>4, <1>8, OffsetIs
<1>10. SameFlags(e, u)
  BY <1>4, <1>9, MannerFlags, FlagsTrans
<1>11. R = IF u.maximized /\ "decoration" \in changes THEN e ELSE t
  BY <1>1, <1>3, <1>5, <1>7, <1>8 DEF Decorating
<1> QED
  BY <1>4, <1>9, <1>10, <1>11

\* ... with the frame that follows ...
LEMMA UpdatesFlags ==
  ASSUME NEW u \in Windows, NEW v \in Int, NEW changes, NEW R, R = ApplyUpdates(u, v, changes)
  PROVE  R \in Windows /\ SameFlags(R, u)
<1>1. PICK a : a = Decorating(u, changes)
  OBVIOUS
<1>2. a \in Windows /\ SameFlags(a, u)
  BY <1>1, DecoratingFlags
<1>3. PICK b : b = Reframed(a, v)
  OBVIOUS
<1>4. b \in Windows /\ SameFlags(b, a)
  BY <1>2, <1>3, ReframedKept, MannerFlags DEF Kept
<1>5. PICK d : d = (IF ~Reframes(changes) THEN u ELSE b)
  OBVIOUS
<1>6. d \in Windows /\ SameFlags(d, u)
  BY <1>2, <1>4, <1>5, FlagsTrans DEF SameFlags
<1>7. R = IF "limits" \in changes THEN FrameLimited(Limited(d), v)
          ELSE ForceSetup(d, v, d.frame)
  BY <1>1, <1>3, <1>5 DEF ApplyUpdates, Reframes
<1>8. PICK e : e = Limited(d)
  OBVIOUS
<1>9. e \in Windows /\ SameFlags(e, u)
  BY <1>6, <1>8, LimitedFlags, FlagsTrans
<1>10. PICK g \in Rectangles, k \in Rectangles : g = Constrained(e, e.frame) /\ k = d.frame
  BY <1>6, <1>9, Fields, ConstrainedTypes
<1>11. R = ForceSetup(e, v, g) \/ R = ForceSetup(d, v, k)
  BY <1>7, <1>8, <1>10 DEF FrameLimited
<1>12. R \in Windows /\ (SameManner(R, e) \/ SameManner(R, d))
  BY <1>6, <1>9, <1>11, ForceSetupIs
<1> QED
  BY <1>6, <1>9, <1>12, MannerFlags, FlagsTrans

\* ... shading along the title ...
LEMMA FollowFlags ==
  ASSUME NEW u \in Windows, NEW R, R = FollowTitle(u)
  PROVE  R \in Windows /\ SameFlags(R, u)
BY DEF FollowTitle, Windows, SameFlags

\* ... a new shape ...
LEMMA ReshapedFlags ==
  ASSUME NEW u \in Windows, NEW v \in Int, NEW R, R = Reshaped(u, v)
  PROVE  R \in Windows /\ SameFlags(R, u)
<1>1. PICK gravity \in {-1, 0, 1} : gravity = IF u.maximized THEN -1 ELSE u.gravity
  BY Fields
<1>2. PICK b \in Nat : b = IF u.shaped THEN u.unshaped ELSE 0
  BY Fields
<1>3. PICK s : s = [u EXCEPT !.shaped = ~u.shaped, !.border = b]
  OBVIOUS
<1>s. s \in Windows /\ SameFlags(s, u)
  BY <1>3 DEF Windows, SameFlags
<1>4. PICK n \in Rectangles : n = Naked(gravity, u, Current(u))
  BY CurrentTypes, NakedTypes
<1>5. PICK g \in Rectangles : g = Dressed(gravity, s, n)
  BY <1>s, NakedTypes
<1>6. PICK c : c = WithCurrent(s, g)
  OBVIOUS
<1>7. c = [s EXCEPT !.max = g] \/ c = [s EXCEPT !.normal = g]
  BY <1>6 DEF WithCurrent
<1>c. c \in Windows /\ SameManner(c, s)
  BY <1>s, <1>7, NormalIs, MaxIs
<1>8. SameFlags(c, u)
  BY <1>s, <1>c, MannerFlags, FlagsTrans
<1>9. PICK f : f = IF u.shaded THEN FollowTitle(c) ELSE c
  OBVIOUS
<1>f. f \in Windows /\ SameFlags(f, u)
  BY <1>c, <1>8, <1>9, FollowFlags, FlagsTrans
<1>10. PICK x \in Int : x = OffsetKept(u, f).offset /\ OffsetKept(u, f) = [f EXCEPT !.offset = x]
  BY <1>f, OffsetTypes
<1>11. PICK o : o = IF u.maximized THEN OffsetKept(u, f) ELSE f
  OBVIOUS
<1>o. o \in Windows /\ (SameManner(o, f) \/ o = f)
  BY <1>f, <1>10, <1>11, OffsetIs
<1>12. SameFlags(o, u)
  BY <1>f, <1>o, MannerFlags, FlagsTrans
<1>13. PICK k \in Rectangles : k = UpdateRelative(o, v)
  BY <1>o, RelativeTypes
<1>14. R = ForceSetup(o, v, k)
  BY <1>1, <1>2, <1>3, <1>4, <1>5, <1>6, <1>9, <1>11, <1>13 DEF Reshaped
<1>15. R \in Windows /\ SameManner(R, o)
  BY <1>o, <1>14, ForceSetupIs
<1> QED
  BY <1>12, <1>15, MannerFlags, FlagsTrans

\* ... a client's request ...
LEMMA AskedFlags ==
  ASSUME NEW u \in Windows, NEW d \in Windows, NEW v \in Int, NEW new \in Rectangles,
         SameManner(d, u), NEW s,
         s = IF u.shaded THEN FrameSetup([d EXCEPT !.normal = new], v, Shade(u, u.shadeDir, new))
             ELSE FrameSetup(d, v, new),
         NEW R, R = AdjustOffset(UpdateAbsolute(s, v))
  PROVE  R \in Windows /\ SameFlags(R, u)
<1>1. PICK n : n = [d EXCEPT !.normal = new]
  OBVIOUS
<1>2. n \in Windows /\ SameManner(n, d)
  BY <1>1, NormalIs
<1>3. PICK f \in Rectangles : f = Shade(u, u.shadeDir, new)
  BY Fields, ShadeTypes
<1>4. s = FrameSetup(n, v, f) \/ s = FrameSetup(d, v, new)
  BY <1>1, <1>3
<1>5. SameFlags(n, u) /\ SameFlags(d, u)
  BY <1>2, MannerFlags, FlagsTrans
<1>6. s \in Windows /\ SameFlags(s, u)
  BY <1>2, <1>4, <1>5, FrameSetupIs, MannerFlags, FlagsTrans
<1>7. PICK t : t = UpdateAbsolute(s, v)
  OBVIOUS
<1>8. t \in Windows /\ SameFlags(t, u)
  BY <1>6, <1>7, AbsoluteIs, MannerFlags, FlagsTrans
<1>9. R = AdjustOffset(t)
  BY <1>7
<1> QED
  BY <1>8, <1>9, AdjustIs, MannerFlags, FlagsTrans

\* ... sticking ...
LEMMA StuckFlags ==
  ASSUME NEW u \in Windows, NEW v \in Int, NEW R,
         R = [u EXCEPT !.sticky = FALSE] \/ R = Stuck(u, v)
  PROVE  R \in Windows /\ SameFlags(R, u)
<1>1. PICK m : m = IF OnPage(u.frame) THEN u ELSE MovedToPage(u, v, v)
  OBVIOUS
<1>2. m \in Windows /\ SameFlags(m, u)
  BY <1>1, MovedToPageIs, MannerFlags DEF SameFlags
<1>3. R = [u EXCEPT !.sticky = FALSE] \/ R = [m EXCEPT !.sticky = TRUE]
  BY <1>1 DEF Stuck
<1>4. ASSUME NEW k \in Windows, NEW b \in BOOLEAN, NEW q, q = [k EXCEPT !.sticky = b]
      PROVE  q \in Windows /\ SameFlags(q, k)
  BY <1>4 DEF Windows, SameFlags
<1> QED
  BY <1>2, <1>3, <1>4, FlagsTrans

\* ... paging ...
LEMMA PagedFlags ==
  ASSUME NEW u \in Windows, NEW old \in Int, NEW new \in Int, NEW R, R = Paged(u, old, new)
  PROVE  SameFlags(R, u)
<1>1. CASE u.sticky
  BY <1>1 DEF Paged, Windows, SameFlags
<1>2. CASE ~u.sticky
  <2>1. PICK g : g = [u.frame EXCEPT !.y = u.frame.y + old - new]
    OBVIOUS
  <2>2. g \in Rectangles
    BY <2>1, Fields, AtIs DEF Rectangles
  <2>3. R = FrameSetup(u, new, g)
    BY <1>2, <2>1 DEF Paged
  <2> QED
    BY <2>2, <2>3, FrameSetupIs, MannerFlags
<1> QED
  BY <1>1, <1>2

\* ... and restoring.
LEMMA RestoredFull ==
  ASSUME NEW u \in Windows, ~u.full, NEW new \in Int, NEW R, R = Restored(u, new)
  PROVE  R \in Windows /\ ~R.full
<1>1. PICK e : e = [u EXCEPT !.shaded = FALSE, !.maximized = FALSE,
                             !.titleDirUsed = TRUE, !.limit = u.style.max]
  OBVIOUS
<1>2. u.style.max \in Nat
  BY Fields, StyleFields
<1>3. e \in Windows /\ ~e.full
  BY <1>1, <1>2 DEF Windows
<1>4. PICK d : d = Decorated(e)
  OBVIOUS
<1>5. d \in Windows /\ ~d.full /\ d.normal \in Rectangles /\ d.gravity \in {-1, 0, 1}
  BY <1>3, <1>4, DecoratedIs, Fields DEF SameStatus
<1>6. PICK k \in Rectangles : k = Dressed(d.gravity, d, d.normal)
  BY <1>5, NakedTypes
<1>7. PICK n : n = [d EXCEPT !.normal = k]
  OBVIOUS
<1>8. n \in Windows /\ ~n.full
  BY <1>5, <1>7, NormalIs DEF SameManner
<1>9. n = Redone(u)
  BY <1>1, <1>4, <1>6, <1>7 DEF Redone
<1>10. PICK m : m = IF u.maximized THEN Enlarged(n) ELSE n
  OBVIOUS
<1>11. m \in Windows /\ ~m.full
  BY <1>8, <1>10, EnlargedIs DEF SameDress
<1>12. PICK r \in Rectangles : r = Relative(Current(m), new)
  BY <1>11, CurrentTypes, RelativeIs
<1>13. PICK f : f = [m EXCEPT !.frame = r]
  OBVIOUS
<1>14. f \in Windows /\ ~f.full
  BY <1>11, <1>13, FrameIs DEF SameManner
<1>15. f = Shown(m, new)
  BY <1>12, <1>13 DEF Shown
<1>16. PICK b : b = [f EXCEPT !.sticky = FALSE]
  OBVIOUS
<1>17. b \in Windows /\ ~b.full
  BY <1>14, <1>16, StuckFlags DEF SameFlags
<1>18. PICK s : s = StuckAgain(u, f, new)
  OBVIOUS
<1>19. s = f \/ s = Stuck(b, new)
  BY <1>16, <1>18 DEF StuckAgain
<1>20. s \in Windows /\ ~s.full
  <2>1. CASE s = f
    BY <1>14, <2>1
  <2>2. CASE s = Stuck(b, new)
    BY <1>17, <2>2, StuckFlags DEF SameFlags
  <2> QED
    BY <1>19, <2>1, <2>2
<1>21. R = ShadedBack(u, s, new)
  BY <1>9, <1>10, <1>15, <1>18, RestoredSteps
<1>22. PICK dir \in {"N", "S", "SW", "W"} : dir = IF u.titleDirUsed THEN s.dir ELSE u.shadeDir
  BY <1>20, Fields
<1>23. PICK c \in Rectangles : c = Shade(s, dir, IF s.maximized THEN s.max ELSE s.frame)
  BY <1>20, Fields, ShadeTypes
<1>24. PICK t : t = [s EXCEPT !.shaded = TRUE, !.shadeDir = dir, !.frame = c]
  OBVIOUS
<1>25. t \in Windows /\ ~t.full
  BY <1>20, <1>24 DEF Windows
<1>26. R = s \/ R = UpdateAbsolute(t, new)
  BY <1>21, <1>22, <1>23, <1>24 DEF ShadedBack
<1> QED
  BY <1>20, <1>25, <1>26, AbsoluteIs DEF SameManner

\* What fills the screen is maximized.
LEMMA FillScreenMax ==
  ASSUME NEW u \in Windows, NEW v \in Int, NEW R, R = FillScreen(u, v)
  PROVE  R.maximized
<1>1. PICK k : k = [max |-> u.max, wasMax |-> u.maximized, wasShaded |-> u.shaded]
  OBVIOUS
<1>2. k \in [max : Rectangles, wasMax : BOOLEAN, wasShaded : BOOLEAN]
  BY <1>1, Fields
<1>3. PICK s : s = [u EXCEPT !.saved = k]
  OBVIOUS
<1>4. s \in Windows
  BY <1>2, <1>3 DEF Windows
<1>5. PICK o : o = IF s.shaded THEN Unshade(s, v) ELSE s
  OBVIOUS
<1>6. o \in Windows
  BY <1>4, <1>5, UnshadeFlags
<1>7. PICK e : e = [o EXCEPT !.full = TRUE]
  OBVIOUS
<1>8. e \in Windows
  BY <1>6, <1>7 DEF Windows
<1>9. PICK d : d = ApplyDecorChange(e, v)
  OBVIOUS
<1>10. d \in Windows
  BY <1>8, <1>9, DecorFlags
<1>11. R = Filling(d, v)
  BY <1>1, <1>3, <1>5, <1>7, <1>9 DEF FillScreen
<1>12. PICK g : g = [y |-> PageOffset(d.frame, v) - Top(d), h |-> DisplayHeight + Total(d)]
  OBVIOUS
<1>13. PageOffset(d.frame, v) \in Int /\ Top(d) \in Int /\ Total(d) \in Int /\ DisplayHeight \in Int
  BY <1>10, Fields, PageOffsetTypes, TotalTypes, Bounds
<1>14. g \in Rectangles
  BY <1>12, <1>13 DEF Rectangles
<1>15. PICK r : r = ResizedMoved(d, v, g)
  OBVIOUS
<1>16. r \in Windows /\ R = AsMaximized(d, r, v, FALSE)
  BY <1>10, <1>11, <1>12, <1>14, <1>15, ResizedMovedIs DEF Filling
<1> QED
  BY <1>10, <1>16, AsMaximizedMax

\* Saving changes no flag.
LEMMA SavedFull ==
  ASSUME NEW u \in Windows, NEW v \in Int, NEW R, R = Saved(u, v)
  PROVE  R \in Windows /\ SameFlags(R, u)
<1>1. PICK z \in Int, k \in Rectangles : R = [u EXCEPT !.normal = k]
  BY SavedIs
<1> QED
  BY <1>1, NormalIs, MannerFlags

\* What a client's request makes of the window: the rectangle new is asked for.
Asked(d, new) ==
  IF w.shaded THEN FrameSetup([d EXCEPT !.normal = new], Vy, Shade(w, w.shadeDir, new))
  ELSE FrameSetup(d, Vy, new)
\* The effect of ConfigureRequest that the proof needs.
Request(d, new) ==
  /\ Defective(d, w) /\ \E x \in Int : new.h = Fit(w, x)
  /\ \/ w' = d
     \/ /\ w' = AdjustOffset(UpdateAbsolute(Asked(d, new), Vy))
        /\ ~strayed' => ~(w.shaded /\ w.maximized)
  /\ home' = (IF w'.maximized THEN home ELSE Home(w'))
  /\ there' = Remembered(w', There(w'))
  /\ Vy' = Vy /\ (~strayed' => ~strayed)

\* Another defect, or none.
LEMMA DefectiveIs ==
  ASSUME NEW u \in Windows, NEW x \in Int, NEW R, R = [u EXCEPT !.defect = x] \/ R = u
  PROVE  R \in Windows /\ Defective(R, u)
BY DEF Windows, Defective, SameManner

\* ConfigureRequest has that effect.
LEMMA RequestIs ==
  ASSUME Inv, ConfigureRequest
  PROVE  \E d \in Windows, new \in Rectangles : Request(d, new)
<1>0. w \in Windows /\ Vy \in Int /\ Total(w) \in Int
  BY Bounds, TotalTypes DEF Inv
<1>1. PICK ask \in SUBSET {"y", "h", "other"} \ {{}}, y \in Targets, h \in Heights,
           useGravity \in BOOLEAN :
        LET g == Unshaded(w, Vy)
            gravity == IF ~w.shaded THEN w.gravity
                       ELSE CASE w.shadeDir = "N" -> -1
                              [] w.shadeDir \in {"S", "SW"} -> 1
                              [] OTHER -> w.gravity
            defect == IF w.maximized THEN w.defect ELSE 0
            asked == IF "h" \in ask /\ ~w.maximized THEN h + Total(w) ELSE g.h
            fit == Fit(w, asked + defect)
            moves == "y" \in ask /\ ~w.shaded
            shift == IF useGravity THEN Div((gravity + 1) * Total(w), 2) ELSE Top(w)
            new == IF moves THEN [y |-> y - shift, h |-> fit]
                   ELSE Resized(gravity, g, fit - g.h)
            d == IF w.maximized THEN [w EXCEPT !.defect = asked + defect - fit] ELSE w
            s == IF w.shaded
                 THEN FrameSetup([d EXCEPT !.normal = new], Vy, Shade(w, w.shadeDir, new))
                 ELSE FrameSetup(d, Vy, new)
            changes == new # g \/ "other" \in ask
        IN /\ Put(IF changes THEN AdjustOffset(UpdateAbsolute(s, Vy)) ELSE d)
           /\ Strays(w.shaded /\ w.maximized /\ changes)
  BY Zenon DEF ConfigureRequest
<1>h. y \in Int /\ h \in Int
  BY Bounds
<1>2. PICK g \in Rectangles : g = Unshaded(w, Vy) /\ g.h \in Int
  BY <1>0, RelativeTypes DEF Rectangles
<1>3. PICK gravity \in {-1, 0, 1} :
        gravity = IF ~w.shaded THEN w.gravity
                  ELSE CASE w.shadeDir = "N" -> -1
                         [] w.shadeDir \in {"S", "SW"} -> 1
                         [] OTHER -> w.gravity
  BY <1>0, Fields
<1>4. PICK asked \in Int : asked = IF "h" \in ask /\ ~w.maximized THEN h + Total(w) ELSE g.h
  BY <1>0, <1>2, <1>h
<1>5. PICK defect \in Int : defect = IF w.maximized THEN w.defect ELSE 0
  BY <1>0, Fields
<1>6. PICK fit \in Int : fit = Fit(w, asked + defect)
  BY <1>0, FitTypes
<1>7. PICK x \in Int : x = fit - g.h
  BY <1>2
<1>8. PICK shift \in Int : shift = IF useGravity THEN Div((gravity + 1) * Total(w), 2) ELSE Top(w)
  <2>1. (gravity + 1) * Total(w) \in Int
    BY <1>0
  <2> QED
    BY <1>0, <2>1, TotalTypes, Integral
<1>9. PICK a : a = [y |-> y - shift, h |-> fit]
  OBVIOUS
<1>10. a \in Rectangles /\ a.h = fit
  BY <1>9, <1>h DEF Rectangles
<1>11. PICK b \in Rectangles : b = Resized(gravity, g, x)
  BY ResizedTypes
<1>12. b.h = fit
  <2>1. Grown(gravity, g, x, b)
    BY <1>11, ResizedRef
  <2>2. b.h = g.h + x
    BY <2>1 DEF Grown
  <2> QED
    BY <1>2, <1>7, <2>2
<1>13. PICK new \in Rectangles : new = IF "y" \in ask /\ ~w.shaded THEN a ELSE b
  BY <1>10
<1>14. new.h = fit /\ asked + defect \in Int
  BY <1>10, <1>12, <1>13
<1>15. PICK z \in Int : z = asked + defect - fit
  OBVIOUS
<1>16. PICK d : d = IF w.maximized THEN [w EXCEPT !.defect = z] ELSE w
  OBVIOUS
<1>17. d \in Windows /\ Defective(d, w)
  BY <1>0, <1>16, DefectiveIs
<1>18. PICK R : R = IF new # g \/ "other" \in ask
                    THEN AdjustOffset(UpdateAbsolute(Asked(d, new), Vy)) ELSE d
  OBVIOUS
<1>19. Put(R) /\ Strays(w.shaded /\ w.maximized /\ (new # g \/ "other" \in ask))
  BY <1>1, <1>2, <1>3, <1>4, <1>5, <1>6, <1>7, <1>8, <1>9, <1>11, <1>13, <1>15, <1>16, <1>18
     DEF Asked
<1>20. Vy' = Vy
  BY DEF ConfigureRequest
<1>21. /\ home' = (IF w'.maximized THEN home ELSE Home(w'))
       /\ there' = Remembered(w', There(w')) /\ w' = R
  BY <1>19 DEF Put
<1>22. /\ ~strayed' => ~strayed
       /\ \/ w' = d
          \/ /\ w' = AdjustOffset(UpdateAbsolute(Asked(d, new), Vy))
             /\ ~strayed' => ~(w.shaded /\ w.maximized)
  BY <1>18, <1>19, <1>21 DEF Strays
<1>23. \E i \in Int : new.h = Fit(w, i)
  BY <1>6, <1>14
<1>24. Request(d, new)
  BY <1>17, <1>20, <1>21, <1>22, <1>23 DEF Request
<1> QED
  BY <1>17, <1>24

\* A window that fills the screen is maximized.
Coherent(u) == u.full => u.maximized

\* It depends on the two flags only.
LEMMA FlagsCoherent ==
  ASSUME NEW u, NEW R, Coherent(u), SameFlags(R, u)
  PROVE  Coherent(R)
BY DEF Coherent, SameFlags

\* Every operation keeps that, strayed or not.
LEMMA NextCoherent ==
  ASSUME Inv, Coherent(w), Next
  PROVE  Coherent(w')
<1> USE DEF Put, Keep, Remake, Strays
<1>0. w \in Windows /\ Vy \in Pages /\ Vy \in Int /\ Total(w) \in Int
  BY Bounds, TotalTypes DEF Inv
<1>1. CASE UserMoves
  <2>1. PICK y \in Int : w' = Moved(w, Vy, y)
    BY <1>1, Bounds DEF UserMoves
  <2> QED
    BY <1>0, <2>1, MovedIs, MannerFlags, FlagsCoherent
<1>2. CASE UserMovesToPage
  <2>1. PICK p \in Int : w' = MovedToPage(w, Vy, p)
    BY <1>2, Bounds DEF UserMovesToPage
  <2> QED
    BY <1>0, <2>1, MovedToPageIs, MannerFlags, FlagsCoherent
<1>3. CASE UserResizes
  <2>1. PICK h \in Int, maximize \in BOOLEAN :
          w' = (IF w.full \/ maximize THEN AsMaximized(w, ResizedTo(w, Vy, h), Vy, TRUE)
                ELSE ResizedTo(w, Vy, h))
    BY <1>3, Bounds DEF UserResizes
  <2>2. PICK r : r = ResizedTo(w, Vy, h)
    OBVIOUS
  <2>3. r \in Windows /\ r.full = w.full
    BY <1>0, <2>2, ResizedToIs, ResizedToFull
  <2> QED
    BY <1>0, <2>1, <2>2, <2>3, AsMaximizedMax DEF Coherent
<1>4. CASE UserResizesAndMoves
  <2>1. PICK y \in Int, h \in Int, maximize \in BOOLEAN :
          LET r == ResizedMoved(w, Vy, [y |-> y, h |-> Fit(Unset(w), h + Total(w))])
          IN w' = (IF w.full \/ maximize THEN AsMaximized(w, r, Vy, TRUE) ELSE r)
    BY <1>4, Bounds DEF UserResizesAndMoves
  <2>2. PICK x \in Int : x = Fit(Unset(w), h + Total(w))
    BY <1>0, UnsetIs, FitTypes
  <2>3. PICK g : g = [y |-> y, h |-> x]
    OBVIOUS
  <2>4. g \in Rectangles
    BY <2>3 DEF Rectangles
  <2>5. PICK r : r = ResizedMoved(w, Vy, g)
    OBVIOUS
  <2>6. r \in Windows /\ r.full = w.full
    BY <1>0, <2>4, <2>5, ResizedMovedIs, ResizedMovedFull
  <2>7. w' = (IF w.full \/ maximize THEN AsMaximized(w, r, Vy, TRUE) ELSE r)
    BY <2>1, <2>2, <2>3, <2>5
  <2> QED
    BY <1>0, <2>6, <2>7, AsMaximizedMax DEF Coherent
<1>5. ASSUME NEW percent \in {0, 50, 100}, Maximize(percent)
      PROVE  Coherent(w')
  <2>1. PICK g : g = IF percent = 0 THEN w.frame
                     ELSE [y |-> PageOffset(w.frame, Vy), h |-> Div(percent * DisplayHeight, 100)]
    OBVIOUS
  <2>2. w.frame \in Rectangles /\ PageOffset(w.frame, Vy) \in Int
    BY <1>0, Fields, PageOffsetTypes
  <2>3. Div(percent * DisplayHeight, 100) \in Int
    BY Bounds, Integral
  <2>4. g \in Rectangles
    BY <2>1, <2>2, <2>3 DEF Rectangles
  <2>5. w' = Maximized(w, Vy, g, TRUE)
    BY <1>5, <2>1 DEF Maximize
  <2> QED
    BY <1>0, <2>4, <2>5, MaximizedLands DEF Enlarges, Coherent
<1>6. CASE Unmaximize \/ Forget
  <2>1. PICK n : n = [w EXCEPT !.normal = w.max]
    OBVIOUS
  <2>2. n \in Windows
    BY <1>0, <2>1, Fields, NormalIs
  <2>3. PICK wider \in BOOLEAN : w' = Unmaximized(w, Vy, wider) \/ w' = Unmaximized(n, Vy, wider)
    BY <1>6, <2>1 DEF Unmaximize, Forget
  <2> QED
    BY <1>0, <2>2, <2>3, UnmaximizedFull DEF Coherent
<1>7. ASSUME Toggle \/ \E dir \in ShadeDirs, again \in BOOLEAN : Shading(dir, again)
      PROVE  Coherent(w')
  <2>1. PICK b \in BOOLEAN, dir \in {"N", "S", "SW", "W"} :
          w' = Unshade(w, Vy) \/ w' = ShadedTo([w EXCEPT !.titleDirUsed = b], Vy, dir)
    <3>1. w.dir \in {"N", "S", "SW", "W"}
      BY <1>0, Fields
    <3> QED
      BY <1>7, <3>1, Bounds DEF Toggle, Shading
  <2>2. PICK n : n = [w EXCEPT !.titleDirUsed = b]
    OBVIOUS
  <2>3. n \in Windows /\ SameFlags(n, w)
    BY <1>0, <2>2 DEF Windows, SameFlags
  <2>4. w' = Unshade(w, Vy) \/ w' = ShadedTo(n, Vy, dir)
    BY <2>1, <2>2
  <2>5. SameFlags(w', w)
    BY <1>0, <2>3, <2>4, UnshadeFlags, ShadedToFlags, FlagsTrans
  <2> QED
    BY <2>5, FlagsCoherent
<1>8. CASE UserPages
  <2>1. PICK p \in Pages : w' = Paged(w, Vy, p)
    BY <1>8 DEF UserPages
  <2> QED
    BY <1>0, <2>1, Bounds, PagedFlags, FlagsCoherent
<1>9. CASE UserSticks
  <2>1. w' = [w EXCEPT !.sticky = FALSE] \/ w' = Stuck(w, Vy)
    BY <1>9 DEF UserSticks
  <2> QED
    BY <1>0, <2>1, StuckFlags, FlagsCoherent
<1>10. CASE FullScreen
  <2>1. w' = FillScreen(w, Vy)
    BY <1>10 DEF FullScreen
  <2>2. w'.maximized
    BY <1>0, <2>1, FillScreenMax
  <2> QED
    BY <2>2 DEF Coherent
<1>11. CASE StyleChange
  <2>1. PICK s, changes : s \in Styles /\ w' = ApplyUpdates([w EXCEPT !.style = s], Vy, changes)
    BY <1>11 DEF StyleChange
  <2>2. PICK n : n = [w EXCEPT !.style = s]
    OBVIOUS
  <2>s. s \in Styles
    BY <2>1
  <2>3. n \in Windows /\ SameFlags(n, w)
    BY <1>0, <2>2, <2>s DEF Windows, SameFlags
  <2>4. w' = ApplyUpdates(n, Vy, changes)
    BY <2>1, <2>2
  <2> QED
    BY <1>0, <2>3, <2>4, UpdatesFlags, FlagsTrans, FlagsCoherent
<1>12. CASE Reshape
  <2>1. w' = Reshaped(w, Vy)
    BY <1>12 DEF Reshape
  <2> QED
    BY <1>0, <2>1, ReshapedFlags, FlagsCoherent
<1>13. CASE ConfigureRequest
  <2>1. PICK d \in Windows, new \in Rectangles : Request(d, new)
    BY <1>13, RequestIs
  <2>2. PICK s : s = IF w.shaded
                     THEN FrameSetup([d EXCEPT !.normal = new], Vy, Shade(w, w.shadeDir, new))
                     ELSE FrameSetup(d, Vy, new)
    OBVIOUS
  <2>3. SameManner(d, w) /\ (w' = AdjustOffset(UpdateAbsolute(s, Vy)) \/ w' = d)
    BY <2>1, <2>2 DEF Request, Asked, Defective
  <2>4. SameFlags(w', w)
    BY <1>0, <2>2, <2>3, AskedFlags, MannerFlags
  <2> QED
    BY <2>4, FlagsCoherent
<1>14. CASE Restart
  <2>1. w' = Paged(Restored(Saved(w, Vy), 0), 0, Vy) /\ ~w.full
    BY <1>14 DEF Restart
  <2>2. PICK x, r : x = Saved(w, Vy) /\ r = Restored(x, 0)
    OBVIOUS
  <2>3. x \in Windows /\ ~x.full
    BY <1>0, <2>1, <2>2, SavedFull DEF SameFlags
  <2>4. r \in Windows /\ ~r.full
    BY <2>2, <2>3, RestoredFull
  <2> QED
    BY <1>0, <2>1, <2>2, <2>4, PagedFlags DEF SameFlags, Coherent
<1>15. CASE SessionRestore
  <2>1. PICK p \in Pages : w' = Restored(Saved(w, Vy), p) /\ ~w.full
    BY <1>15 DEF SessionRestore
  <2>2. PICK x : x = Saved(w, Vy)
    OBVIOUS
  <2>3. x \in Windows /\ ~x.full
    BY <1>0, <2>1, <2>2, SavedFull DEF SameFlags
  <2> QED
    BY <2>1, <2>2, <2>3, Bounds, RestoredFull DEF Coherent
<1> QED
  BY <1>1, <1>2, <1>3, <1>4, <1>5, <1>6, <1>7, <1>8, <1>9, <1>10, <1>11, <1>12, <1>13, <1>14,
     <1>15 DEF Next

-----------------------------------------------------------------------------
(* The invariant. *)

\* Every window is good where it is mapped.
LEMMA InitGood ==
  ASSUME RoomForClient, Init
  PROVE  Coherent(w) /\ Good(w, Vy, home, there)
<1>1. PICK e \in Windows, f \in Rectangles : Mapped(e, f)
  BY InitIs
<1>2. PICK u : u = Decorated(e)
  OBVIOUS
<1>3. PICK t : t = [u EXCEPT !.frame = f]
  OBVIOUS
<1>4. /\ ~e.shaded /\ ~e.maximized /\ ~e.full /\ ~e.saved.wasMax /\ e.limit = e.style.max
      /\ \E g \in Rectangles : f = Constrained(u, g)
      /\ w = UpdateAbsolute(t, 0) /\ Vy = 0 /\ home = Home(w)
  BY <1>1, <1>2, <1>3 DEF Mapped
<1>5. /\ u \in Windows /\ SameStatus(u, e) /\ Suits(u)
  BY <1>2, DecoratedIs
<1>6. /\ ~u.shaded /\ ~u.maximized /\ ~u.full /\ ~u.saved.wasMax /\ u.limit = u.style.max
  BY <1>4, <1>5 DEF SameStatus
<1>7. t \in Windows /\ t.frame = f /\ SameManner(t, u)
  BY <1>3, <1>5, FrameIs
<1>8. w \in Windows /\ w.frame = f /\ SameManner(w, t) /\ Current(w).h = f.h
  <2>1. ~t.shaded
    BY <1>6, <1>7 DEF SameManner
  <2> QED
    BY <1>4, <1>7, <2>1, AbsoluteIs
<1>9. SameManner(w, u)
  BY <1>7, <1>8, Manners
<1>10. /\ ~w.shaded /\ ~w.maximized /\ ~w.full /\ ~w.saved.wasMax /\ w.limit = w.style.max
  BY <1>6, <1>9 DEF SameManner
<1>11. Suits(w) /\ Total(w) = Total(u)
  BY <1>5, <1>9, MannerLook, LookTotal
<1>12. f.h > Total(u)
  <2>1. PICK g \in Rectangles : f = Constrained(u, g)
    BY <1>4
  <2>2. g.h \in Int
    BY DEF Rectangles
  <2>3. f.h = Fit(u, g.h)
    BY <1>5, <2>1, ConstrainedIs
  <2>4. Roomy(u)
    BY <1>5, <1>6, SuitsRoomy
  <2> QED
    BY <1>5, <2>2, <2>3, <2>4, FitHigh
<1>13. w.normal.h > Total(w)
  BY <1>8, <1>10, <1>11, <1>12 DEF Current
<1>14. Agrees(w, Vy)
  <2>1. ~t.shaded
    BY <1>6, <1>7 DEF SameManner
  <2> QED
    BY <1>4, <1>7, <2>1, AbsoluteAgrees
<1>15. Sound(w)
  BY <1>10, <1>11, <1>13 DEF Sound
<1> QED
  BY <1>4, <1>8, <1>10, <1>14, <1>15 DEF Good, Coherent

\* What is put somewhere is good there.
LEMMA PutStep ==
  ASSUME NEW R, Put(R), Puts(R, Vy, home, there), Vy' = Vy
  PROVE  Good(w', Vy', home', there')
<1>1. w' = R /\ home' = (IF R.maximized THEN home ELSE Home(R)) /\ there' = Remembered(R, There(R))
  BY DEF Put
<1>2. R \in Windows
  BY DEF Puts
<1>3. PICK place : place = There(R)
  OBVIOUS
<1>4. Recalls(R, place, there, Remembered(R, place))
  BY <1>2, RememberedRecalls
<1>5. Recalls(R, There(R), there, there')
  BY <1>1, <1>3, <1>4
<1>6. Good(R, Vy, IF R.maximized THEN home ELSE Home(R), there')
  BY <1>5, PutGood
<1> QED
  BY <1>1, <1>6

\* What a step keeps in its place.
LEMMA KeepRecalls ==
  ASSUME NEW R \in Windows, Keep(R)
  PROVE  w' = R /\ home' = home /\ Recalls(R, there, there, there')
<1>1. w' = R /\ home' = home /\ there' = Remembered(R, there)
  BY DEF Keep
<1>2. PICK place : place = there
  OBVIOUS
<1>3. Recalls(R, place, there, Remembered(R, place))
  BY RememberedRecalls
<1> QED
  BY <1>1, <1>2, <1>3

\* A step that keeps the place keeps the window good.
LEMMA KeepStep ==
  ASSUME NEW R, Keep(R), Good(w, Vy, home, there), Moves(R, w, Vy')
  PROVE  Good(w', Vy', home', there')
<1>1. R \in Windows
  BY DEF Moves
<1>2. w' = R /\ home' = home /\ Recalls(R, there, there, there')
  BY <1>1, KeepRecalls
<1>3. Good(R, Vy', home, there')
  BY <1>2, MovesGood
<1> QED
  BY <1>2, <1>3

\* What is made again is good.
LEMMA RemakeStep ==
  ASSUME RoomForClient, NEW R, Remake(R), Good(w, Vy, home, there), ~w.full, Rebuilt(R, w, Vy')
  PROVE  Good(w', Vy', home', there')
<1>1. R \in Windows
  BY DEF Rebuilt
<1>2. PICK place : place = [there EXCEPT !.h = Fit(R, w.max.h + w.defect) - Total(R)]
  OBVIOUS
<1>3. w' = R /\ home' = home /\ there' = Remembered(R, place)
  BY <1>2 DEF Remake
<1>4. Recalls(R, place, there, there')
  BY <1>1, <1>3, RememberedRecalls
<1>5. Recalls(R, [there EXCEPT !.h = Fit(R, w.max.h + w.defect) - Total(R)], there, there')
  BY <1>2, <1>4
<1>6. Good(R, Vy', home, there')
  BY <1>5, RebuiltGood
<1> QED
  BY <1>3, <1>6

\* Another switch of the window than those that count for its geometry.
LEMMA SwitchKept ==
  ASSUME NEW u \in Windows, NEW v, Agrees(u, v), NEW b \in BOOLEAN,
         NEW R, R = [u EXCEPT !.titleDirUsed = b]
  PROVE  R \in Windows /\ Kept(R, u) /\ Agrees(R, v)
<1>1. /\ R \in Windows /\ SameLook(R, u) /\ R.sticky = u.sticky /\ R.normal = u.normal
      /\ R.max = u.max /\ R.offset = u.offset /\ R.defect = u.defect /\ R.frame = u.frame
      /\ R.shaded = u.shaded /\ R.shadeDir = u.shadeDir
  BY DEF Windows, SameLook
<1>2. Total(R) = Total(u) /\ R.border = u.border /\ Current(R) = Current(u)
  BY <1>1 DEF SameLook, Total, Current
<1>3. UpdateRelative(R, v) = UpdateRelative(u, v)
  BY <1>1, <1>2 DEF UpdateRelative, Shade
<1> QED
  BY <1>1, <1>3 DEF Kept, Agrees

\* A Style command, when nothing stray happens.
Restyled(s, changes) ==
  /\ changes \subseteq {"decoration", "title", "limits"}
  /\ "decoration" \notin changes => s.border = w.style.border /\ s.title = w.style.title
  /\ "title" \notin changes => s.dir = w.style.dir
  /\ "limits" \notin changes => s.max = w.style.max
  /\ "limits" \in changes => ~w.shaded /\ ~w.maximized
  /\ w' = ApplyUpdates([w EXCEPT !.style = s], Vy, changes) /\ Vy' = Vy
  /\ changes = {"decoration"} => home' = home /\ there' = Remembered(w', there)
  /\ changes # {"decoration"} =>
       /\ w.gravity # 0
       /\ home' = [home EXCEPT !.h = Home(w').h]
       /\ there' = Remembered(w', IF w.gravity = -1 THEN [there EXCEPT !.h = There(w').h]
                                  ELSE There(w'))
  /\ ~strayed /\ ~(w.full /\ w.saved.wasMax) /\ ~Odd(w')
  /\ "title" \in changes /\ w.maximized => Near(w')

\* StyleChange is such a command unless it strays.
LEMMA StyleIs ==
  ASSUME StyleChange, ~strayed'
  PROVE  \E s, changes : s \in Styles /\ Restyled(s, changes)
<1>1. PICK s \in Styles \ {w.style} :
         LET changes ==
               {c \in {"decoration", "title", "limits"} :
                  CASE c = "decoration" -> s.border # w.style.border \/ s.title # w.style.title
                    [] c = "title" -> s.dir # w.style.dir
                    [] OTHER -> s.max # w.style.max}
             refit == changes # {"decoration"}
         IN /\ w' = ApplyUpdates([w EXCEPT !.style = s], Vy, changes)
            /\ home' = IF refit THEN [home EXCEPT !.h = Home(w').h] ELSE home
            /\ there' = Remembered(w', IF ~refit THEN there
                                       ELSE IF w.gravity = -1 THEN [there EXCEPT !.h = There(w').h]
                                       ELSE There(w'))
            /\ Strays(\/ "limits" \in changes /\ (w.shaded \/ w.maximized)
                      \/ refit /\ w.gravity = 0
                      \/ "title" \in changes /\ w.maximized /\ ~Near(w')
                      \/ w.full /\ w.saved.wasMax
                      \/ Odd(w) \/ Odd(w'))
  BY Zenon DEF StyleChange
<1>2. PICK changes : changes =
               {c \in {"decoration", "title", "limits"} :
                  CASE c = "decoration" -> s.border # w.style.border \/ s.title # w.style.title
                    [] c = "title" -> s.dir # w.style.dir
                    [] OTHER -> s.max # w.style.max}
  OBVIOUS
<1>3. /\ changes \subseteq {"decoration", "title", "limits"}
      /\ "decoration" \notin changes => s.border = w.style.border /\ s.title = w.style.title
      /\ "title" \notin changes => s.dir = w.style.dir
      /\ "limits" \notin changes => s.max = w.style.max
  BY <1>2
<1>4. PICK refit \in BOOLEAN : refit <=> changes # {"decoration"}
  OBVIOUS
<1>5. /\ w' = ApplyUpdates([w EXCEPT !.style = s], Vy, changes)
      /\ home' = (IF refit THEN [home EXCEPT !.h = Home(w').h] ELSE home)
      /\ there' = Remembered(w', IF ~refit THEN there
                                 ELSE IF w.gravity = -1 THEN [there EXCEPT !.h = There(w').h]
                                 ELSE There(w'))
      /\ Strays(\/ "limits" \in changes /\ (w.shaded \/ w.maximized)
                \/ refit /\ w.gravity = 0
                \/ "title" \in changes /\ w.maximized /\ ~Near(w')
                \/ w.full /\ w.saved.wasMax
                \/ Odd(w) \/ Odd(w'))
  BY <1>1, <1>2, <1>4
<1>6. /\ "limits" \in changes => ~w.shaded /\ ~w.maximized
      /\ refit => w.gravity # 0
      /\ ~strayed /\ ~(w.full /\ w.saved.wasMax) /\ ~Odd(w')
      /\ "title" \in changes /\ w.maximized => Near(w')
  BY <1>5 DEF Strays
<1>7. Vy' = Vy
  BY DEF StyleChange
<1>8. changes = {"decoration"} => home' = home /\ there' = Remembered(w', there)
  BY <1>4, <1>5
<1>9. changes # {"decoration"} =>
       /\ w.gravity # 0
       /\ home' = [home EXCEPT !.h = Home(w').h]
       /\ there' = Remembered(w', IF w.gravity = -1 THEN [there EXCEPT !.h = There(w').h]
                                  ELSE There(w'))
  BY <1>4, <1>5, <1>6
<1>10. Restyled(s, changes)
  BY <1>3, <1>5, <1>6, <1>7, <1>8, <1>9 DEF Restyled
<1> QED
  BY <1>10

\* StyleChange keeps the window good.
LEMMA StyleGood ==
  ASSUME RoomForClient, Vy \in Int, Good(w, Vy, home, there), StyleChange, ~strayed'
  PROVE  Good(w', Vy', home', there')
<1>1. PICK s, changes : s \in Styles /\ Restyled(s, changes)
  BY StyleIs
<1>2. PICK n : n = [w EXCEPT !.style = s]
  OBVIOUS
<1>s. s \in Styles
  BY <1>1
<1>3. /\ w \in Windows /\ Agrees(w, Vy) /\ (w.maximized => Near(w))
  BY GoodIs
<1>4. /\ n \in Windows /\ SameFlags(n, w) /\ n.frame = w.frame /\ n.normal = w.normal
      /\ n.max = w.max /\ n.offset = w.offset /\ n.shaded = w.shaded /\ n.shadeDir = w.shadeDir
      /\ n.border = w.border /\ n.title = w.title /\ n.dir = w.dir
  BY <1>2, <1>3, <1>s DEF Windows, SameFlags
<1>5. PICK R : R = w'
  OBVIOUS
<1>6. R = ApplyUpdates(n, Vy, changes) /\ Vy' = Vy
  BY <1>1, <1>2, <1>5 DEF Restyled
<1>7. R \in Windows /\ SameFlags(R, n)
  BY <1>4, <1>6, UpdatesFlags
<1>8. R.maximized <=> w.maximized
  BY <1>4, <1>7 DEF SameFlags
<1>9. ~(w.full /\ w.saved.wasMax) /\ ~Odd(R)
  BY <1>1, <1>5 DEF Restyled
<1>10. CASE changes = {"decoration"}
  <2>1. s.max = w.style.max /\ home' = home /\ there' = Remembered(R, there)
    BY <1>1, <1>5, <1>10 DEF Restyled
  <2>2. PICK place : place = there
    OBVIOUS
  <2>3. Recalls(R, place, there, Remembered(R, place))
    BY <1>7, RememberedRecalls
  <2>4. Recalls(R, there, there, there')
    BY <2>1, <2>2, <2>3
  <2>5. R = ApplyUpdates(n, Vy, {"decoration"})
    BY <1>6, <1>10
  <2>6. Good(R, Vy, home, there')
    BY <1>s, <1>2, <1>9, <2>1, <2>4, <2>5, RedressedGood
  <2> QED
    BY <1>5, <1>6, <2>1, <2>6
<1>11. CASE changes # {"decoration"}
  <2>1. /\ w.gravity # 0 /\ home' = [home EXCEPT !.h = Home(R).h]
        /\ there' = Remembered(R, IF w.gravity = -1 THEN [there EXCEPT !.h = There(R).h]
                                  ELSE There(R))
    BY <1>1, <1>5, <1>11 DEF Restyled
  <2>2. /\ "decoration" \notin changes => s.border = w.style.border /\ s.title = w.style.title
        /\ "title" \notin changes => s.dir = w.style.dir
        /\ "limits" \notin changes => s.max = w.style.max
        /\ "limits" \in changes => ~w.shaded /\ ~w.maximized
        /\ changes \subseteq {"decoration", "title", "limits"}
        /\ "title" \in changes /\ w.maximized => Near(R)
    BY <1>1, <1>5 DEF Restyled
  <2>3. R.maximized => Near(R)
    <3>1. SUFFICES ASSUME w.maximized, "title" \notin changes, "limits" \notin changes
                   PROVE  Near(R)
      BY <1>8, <2>2
    <3>2. changes = {}
      BY <1>11, <2>2, <3>1
    <3>3. Current(n) = Current(w) /\ Total(n) = Total(w)
      BY <1>4 DEF Current, Total, SameFlags
    <3>4. Agrees(n, Vy)
      BY <1>3, <1>4, <3>3 DEF Agrees, UpdateRelative, Shade
    <3>5. R = ForceSetup(n, Vy, n.frame)
      BY <1>6, <3>2 DEF ApplyUpdates
    <3>6. OnlyFrame(R, n)
      BY <1>4, <3>4, <3>5, Stays
    <3>7. R.normal = w.normal /\ R.max = w.max /\ R.offset = w.offset
      BY <1>4, <3>6 DEF OnlyFrame, OnlyCurrent
    <3> QED
      BY <1>3, <3>1, <3>7 DEF Near, Apart
  <2>4. PICK place : place = IF w.gravity = -1 THEN [there EXCEPT !.h = There(R).h] ELSE There(R)
    OBVIOUS
  <2>5. Recalls(R, place, there, Remembered(R, place))
    BY <1>7, RememberedRecalls
  <2>6. Recalls(R, IF w.gravity = -1 THEN [there EXCEPT !.h = There(R).h] ELSE There(R),
                there, there')
    BY <2>1, <2>4, <2>5
  <2>7. Good(R, Vy, [home EXCEPT !.h = Home(R).h], there')
    BY <1>s, <1>2, <1>6, <1>9, <2>1, <2>2, <2>3, <2>6, RefittedGood
  <2> QED
    BY <1>5, <1>6, <2>1, <2>7
<1> QED
  BY <1>10, <1>11

\* Every operation that does not stray keeps the window good.
LEMMA NextGood ==
  ASSUME RoomForClient, Inv, Good(w, Vy, home, there), Next, ~strayed'
  PROVE  Good(w', Vy', home', there')
<1>0. /\ w \in Windows /\ Vy \in Pages /\ Vy \in Int /\ Agrees(w, Vy) /\ Total(w) \in Int
      /\ (w.maximized => Near(w)) /\ (w.full => w.maximized /\ ~w.shaded)
      /\ (~w.full => ~w.saved.wasMax) /\ Roomy(w) /\ w.normal.h > Total(w)
      /\ Current(w).h > Total(w)
  BY Bounds, TotalTypes, GoodIs DEF Inv
<1>1. CASE UserMoves
  <2>1. PICK y \in Int : Put(Moved(w, Vy, y)) /\ Vy' = Vy
    BY <1>1, Bounds DEF UserMoves
  <2>2. PICK R : R = Moved(w, Vy, y)
    OBVIOUS
  <2>3. Puts(R, Vy, home, there)
    BY <1>0, <2>2, MovedPuts
  <2> QED
    BY <2>1, <2>2, <2>3, PutStep
<1>2. CASE UserMovesToPage
  <2>1. PICK p \in Pages : Keep(MovedToPage(w, Vy, p)) /\ Vy' = Vy
    BY <1>2 DEF UserMovesToPage
  <2>2. PICK R : R = MovedToPage(w, Vy, p)
    OBVIOUS
  <2>3. Moves(R, w, Vy)
    BY <1>0, <2>2, ToPageMoves
  <2> QED
    BY <2>1, <2>2, <2>3, KeepStep
<1>3. CASE UserResizes
  <2>1. PICK h \in Int, maximize \in BOOLEAN :
          /\ Put(IF w.full \/ maximize THEN AsMaximized(w, ResizedTo(w, Vy, h), Vy, TRUE)
                 ELSE ResizedTo(w, Vy, h))
          /\ Vy' = Vy
    BY <1>3, Bounds DEF UserResizes
  <2>2. PICK r : r = ResizedTo(w, Vy, h)
    OBVIOUS
  <2>3. Resizes(r, w, Vy)
    BY <1>0, <2>2, ResizedToSized
  <2>4. PICK R : R = IF w.full \/ maximize THEN AsMaximized(w, r, Vy, TRUE) ELSE r
    OBVIOUS
  <2>5. Puts(R, Vy, home, there)
    BY <1>0, <2>3, <2>4, ResizesPuts
  <2> QED
    BY <2>1, <2>2, <2>4, <2>5, PutStep
<1>4. CASE UserResizesAndMoves
  <2>1. PICK y \in Int, h \in Int, maximize \in BOOLEAN :
          LET r == ResizedMoved(w, Vy, [y |-> y, h |-> Fit(Unset(w), h + Total(w))])
          IN /\ Put(IF w.full \/ maximize THEN AsMaximized(w, r, Vy, TRUE) ELSE r)
             /\ Vy' = Vy
    BY <1>4, Bounds DEF UserResizesAndMoves
  <2>2. PICK x : x = Fit(w, h + Total(w))
    OBVIOUS
  <2>3. x \in Int /\ x > Total(w)
    BY <1>0, <2>2, FitHigh
  <2>4. Fit(Unset(w), h + Total(w)) = x
    BY <1>0, <2>2, UnsetDress, FitSame
  <2>5. PICK g : g = [y |-> y, h |-> x]
    OBVIOUS
  <2>6. g \in Rectangles /\ g.h = x
    BY <2>3, <2>5 DEF Rectangles
  <2>7. PICK r : r = ResizedMoved(w, Vy, g)
    OBVIOUS
  <2>8. Resizes(r, w, Vy)
    BY <1>0, <2>3, <2>6, <2>7, ResizedMovedSized
  <2>9. PICK R : R = IF w.full \/ maximize THEN AsMaximized(w, r, Vy, TRUE) ELSE r
    OBVIOUS
  <2>10. Puts(R, Vy, home, there)
    BY <1>0, <2>8, <2>9, ResizesPuts
  <2>11. Put(R) /\ Vy' = Vy
    BY <2>1, <2>4, <2>5, <2>7, <2>9
  <2> QED
    BY <2>10, <2>11, PutStep
<1>5. ASSUME NEW percent \in {0, 50, 100}, Maximize(percent)
      PROVE  Good(w', Vy', home', there')
  <2>1. PICK g : g = IF percent = 0 THEN w.frame
                     ELSE [y |-> PageOffset(w.frame, Vy), h |-> Div(percent * DisplayHeight, 100)]
    OBVIOUS
  <2>2. w.frame \in Rectangles /\ PageOffset(w.frame, Vy) \in Int
    BY <1>0, Fields, PageOffsetTypes
  <2>3. Div(percent * DisplayHeight, 100) \in Int
    BY Bounds, Integral
  <2>4. g \in Rectangles
    BY <2>1, <2>2, <2>3 DEF Rectangles
  <2>5. PICK R : R = Maximized(w, Vy, g, TRUE)
    OBVIOUS
  <2>6. Put(R) /\ Vy' = Vy
    BY <1>5, <2>1, <2>5 DEF Maximize
  <2>7. Puts(R, Vy, home, there)
    <3>1. RoomForClient /\ Vy \in Int /\ Good(w, Vy, home, there)
      BY <1>0
    <3> QED
      BY <3>1, <2>4, <2>5, MaximizedPuts, Zenon
  <2> QED
    BY <2>6, <2>7, PutStep
<1>6. CASE Unmaximize
  <2>1. PICK wider \in BOOLEAN :
          /\ Keep(Unmaximized(w, Vy, wider))
          /\ Strays(\/ Odd(w) \/ Odd(w')
                    \/ /\ w.full /\ w.saved.wasMax
                       /\ \/ ~Near(w')
                          \/ ~wider /\ w.saved.max.h - Total(w') = w.max.h - Total(w))
    BY <1>6 DEF Unmaximize
  <2>2. Vy' = Vy /\ w.maximized
    BY <1>6 DEF Unmaximize
  <2>3. PICK R : R = Unmaximized(w, Vy, wider)
    OBVIOUS
  <2>4. R \in Windows
    BY <1>0, <2>3, UnmaximizedIs
  <2>5. Keep(R)
    BY <2>1, <2>3
  <2>6. w' = R /\ home' = home /\ Recalls(R, there, there, there')
    BY <2>4, <2>5, KeepRecalls
  <2>7. /\ ~Odd(R)
        /\ w.full /\ w.saved.wasMax =>
             Near(R) /\ (wider \/ w.saved.max.h - Total(R) # w.max.h - Total(w))
    BY <2>1, <2>6 DEF Strays
  <2>8. Good(R, Vy, home, there')
    BY <1>0, <2>2, <2>3, <2>6, <2>7, UnmaximizedGood
  <2> QED
    BY <2>2, <2>6, <2>8
<1>7. CASE Forget
  <2>1. PICK n : n = [w EXCEPT !.normal = w.max]
    OBVIOUS
  <2>2. PICK wider \in BOOLEAN : w' = Unmaximized(n, Vy, wider)
    BY <1>7, <2>1 DEF Forget
  <2>3. Vy' = Vy /\ w.maximized /\ home' = Home(w') /\ ~(w.full /\ w.saved.wasMax)
    BY <1>7 DEF Forget, Strays
  <2>4. ~w.saved.wasMax
    BY <1>0, <2>3
  <2>5. PICK R, s : R = w' /\ s = there'
    OBVIOUS
  <2>6. R = Unmaximized(n, Vy, wider)
    BY <2>2, <2>5
  <2>7. Good(R, Vy, Home(R), s)
    BY <1>0, <2>1, <2>3, <2>4, <2>6, ForgottenGood
  <2> QED
    BY <2>3, <2>5, <2>7
<1>8. ASSUME Toggle \/ \E dir \in ShadeDirs, again \in BOOLEAN : Shading(dir, again)
      PROVE  Good(w', Vy', home', there')
  <2>1. PICK b \in BOOLEAN, dir \in {"N", "S", "SW", "W"} :
          Keep(Unshade(w, Vy)) \/ Keep(ShadedTo([w EXCEPT !.titleDirUsed = b], Vy, dir))
    <3>1. w.dir \in {"N", "S", "SW", "W"}
      BY <1>0, Fields
    <3> QED
      BY <1>8, <3>1, Bounds DEF Toggle, Shading
  <2>2. Vy' = Vy /\ ~w.full
    BY <1>8 DEF Toggle, Shading
  <2>3. PICK n : n = [w EXCEPT !.titleDirUsed = b]
    OBVIOUS
  <2>4. n \in Windows /\ Kept(n, w) /\ Agrees(n, Vy)
    BY <1>0, <2>3, SwitchKept
  <2>5. PICK R : Keep(R) /\ (R = Unshade(w, Vy) \/ R = ShadedTo(n, Vy, dir))
    BY <2>1, <2>3
  <2>6. Kept(R, w) /\ Agrees(R, Vy)
    <3>1. CASE R = Unshade(w, Vy)
      BY <1>0, <3>1, UnshadeKept
    <3>2. CASE R = ShadedTo(n, Vy, dir)
      <4>1. Kept(R, n) /\ Agrees(R, Vy)
        BY <1>0, <2>4, <3>2, ShadedToKept
      <4> QED
        BY <2>4, <4>1, KeptTrans
    <3> QED
      BY <2>5, <3>1, <3>2
  <2>7. ~R.full
    BY <2>2, <2>6 DEF Kept, SameLook
  <2>8. Moves(R, w, Vy)
    BY <1>0, <2>6, <2>7, KeptMoves
  <2> QED
    BY <2>2, <2>5, <2>8, KeepStep
<1>9. CASE UserPages
  <2>1. PICK p \in Pages : Vy' = p /\ Keep(Paged(w, Vy, p))
    BY <1>9 DEF UserPages
  <2>2. PICK R : R = Paged(w, Vy, p)
    OBVIOUS
  <2>3. Moves(R, w, p)
    BY <1>0, <2>2, PagedMoves
  <2> QED
    BY <2>1, <2>2, <2>3, KeepStep
<1>10. CASE UserSticks
  <2>1. PICK R : Keep(R) /\ (R = [w EXCEPT !.sticky = FALSE] \/ R = Stuck(w, Vy))
    BY <1>10 DEF UserSticks
  <2>2. Vy' = Vy
    BY <1>10 DEF UserSticks
  <2>3. Moves(R, w, Vy)
    <3>1. CASE R = [w EXCEPT !.sticky = FALSE]
      BY <1>0, <3>1, StickyKept
    <3>2. CASE R = Stuck(w, Vy)
      BY <1>0, <3>2, StuckMoves
    <3> QED
      BY <2>1, <3>1, <3>2
  <2> QED
    BY <2>1, <2>2, <2>3, KeepStep
<1>11. CASE FullScreen
  <2>1. Keep(FillScreen(w, Vy)) /\ Vy' = Vy /\ ~w.full
    BY <1>11 DEF FullScreen, Strays
  <2>2. PICK R : R = FillScreen(w, Vy)
    OBVIOUS
  <2>3. R \in Windows
    BY <1>0, <2>2, FillScreenIs
  <2>4. Keep(R)
    BY <2>1, <2>2
  <2>5. w' = R /\ home' = home /\ Recalls(R, there, there, there')
    BY <2>3, <2>4, KeepRecalls
  <2>6. Good(R, Vy, home, there')
    BY <1>0, <2>1, <2>2, <2>5, FillScreenGood
  <2> QED
    BY <2>1, <2>5, <2>6
<1>12. CASE StyleChange
  BY <1>0, <1>12, StyleGood
<1>13. CASE Reshape
  <2>1. Keep(Reshaped(w, Vy)) /\ Vy' = Vy
    BY <1>13 DEF Reshape
  <2>2. PICK R : R = Reshaped(w, Vy)
    OBVIOUS
  <2>3. R \in Windows
    BY <1>0, <2>2, ReshapedIs
  <2>4. Keep(R)
    BY <2>1, <2>2
  <2>5. w' = R /\ home' = home
    BY <2>4 DEF Keep
  <2>6. ~w.maximized /\ ~Odd(R) /\ (w.shaped => w.unshaped = w.style.border)
    BY <1>13, <2>5 DEF Reshape, Strays
  <2>7. PICK s : s = there'
    OBVIOUS
  <2>8. Good(R, Vy, home, s)
    BY <1>0, <2>2, <2>6, ReshapedGood
  <2> QED
    BY <2>1, <2>5, <2>7, <2>8
<1>14. CASE ConfigureRequest
  <2>1. PICK d \in Windows, new \in Rectangles : Request(d, new)
    BY <1>14, RequestIs
  <2>2. PICK x \in Int : new.h = Fit(w, x)
    BY <2>1 DEF Request
  <2>3. new.h > Total(w)
    BY <1>0, <2>2, FitHigh
  <2>4. PICK R : R = w'
    OBVIOUS
  <2>5. /\ Defective(d, w) /\ Vy' = Vy
        /\ home' = (IF R.maximized THEN home ELSE Home(R)) /\ there' = Remembered(R, There(R))
        /\ \/ R = d
           \/ R = AdjustOffset(UpdateAbsolute(Asked(d, new), Vy)) /\ ~(w.shaded /\ w.maximized)
    BY <2>1, <2>4 DEF Request
  <2>6. Puts(R, Vy, home, there)
    <3>1. CASE R = d
      BY <1>0, <2>5, <3>1, DefectivePuts
    <3>2. CASE R = AdjustOffset(UpdateAbsolute(Asked(d, new), Vy)) /\ ~(w.shaded /\ w.maximized)
      <4>1. PICK s : s = IF w.shaded
              THEN FrameSetup([d EXCEPT !.normal = new], Vy, Shade(w, w.shadeDir, new))
              ELSE FrameSetup(d, Vy, new)
        OBVIOUS
      <4>2. R = AdjustOffset(UpdateAbsolute(s, Vy))
        BY <3>2, <4>1 DEF Asked
      <4> QED
        BY <1>0, <2>3, <2>5, <3>2, <4>1, <4>2, AskedPuts
    <3> QED
      BY <2>5, <3>1, <3>2
  <2>7. Put(R)
    BY <2>4, <2>5 DEF Put
  <2> QED
    BY <2>5, <2>6, <2>7, PutStep
<1>15. CASE Restart
  <2>1. /\ Remake(Paged(Restored(Saved(w, Vy), 0), 0, Vy)) /\ Vy' = Vy /\ ~w.full
        /\ ~(w.sticky /\ w.maximized) /\ ~Odd(w)
    BY <1>15 DEF Restart, Strays
  <2>2. 0 \in Pages
    BY GeometryAssumption DEF Pages
  <2>3. PICK r : r = Restored(Saved(w, Vy), 0)
    OBVIOUS
  <2>4. Rebuilt(r, w, 0)
    BY <1>0, <2>1, <2>2, <2>3, RestoredRebuilt
  <2>5. r \in Windows /\ Agrees(r, 0) /\ (r.maximized => Near(r)) /\ ~r.full
    BY <2>1, <2>4 DEF Rebuilt, SameDress
  <2>6. PICK R : R = Paged(r, 0, Vy)
    OBVIOUS
  <2>7. Moves(R, r, Vy)
    BY <1>0, <2>2, <2>5, <2>6, PagedMoves
  <2>8. Rebuilt(R, w, Vy)
    BY <1>0, <2>4, <2>7, MovesRebuilt
  <2>9. Remake(R)
    BY <2>1, <2>3, <2>6
  <2> QED
    BY <2>1, <2>8, <2>9, RemakeStep
<1>16. CASE SessionRestore
  <2>1. PICK p \in Pages :
          /\ Vy' = p /\ Remake(Restored(Saved(w, Vy), p))
          /\ Strays(w.sticky \/ (w.shaded /\ w.maximized /\ p # 0) \/ Odd(w))
    BY <1>16 DEF SessionRestore
  <2>2. ~w.full /\ ~w.sticky /\ ~(w.shaded /\ w.maximized /\ p # 0) /\ ~Odd(w)
    BY <1>16, <2>1 DEF SessionRestore, Strays
  <2>3. PICK R : R = Restored(Saved(w, Vy), p)
    OBVIOUS
  <2>4. Rebuilt(R, w, p)
    BY <1>0, <2>2, <2>3, RestoredRebuilt
  <2> QED
    BY <2>1, <2>2, <2>3, <2>4, RemakeStep
<1> QED
  BY <1>1, <1>2, <1>3, <1>4, <1>5, <1>6, <1>7, <1>8, <1>9, <1>10, <1>11, <1>12, <1>13, <1>14,
     <1>15, <1>16 DEF Next

\* What strayed once has strayed for good.
LEMMA StrayedStays ==
  ASSUME Inv, Next, ~strayed'
  PROVE  ~strayed
<1>1. CASE UserMoves
  BY <1>1 DEF UserMoves
<1>2. CASE UserMovesToPage
  BY <1>2 DEF UserMovesToPage
<1>3. CASE UserResizes
  BY <1>3 DEF UserResizes
<1>4. CASE UserResizesAndMoves
  BY <1>4 DEF UserResizesAndMoves
<1>5. ASSUME NEW percent \in {0, 50, 100}, Maximize(percent)
      PROVE  ~strayed
  BY <1>5 DEF Maximize
<1>6. CASE Unmaximize
  <2>1. PICK condition : Strays(condition)
    BY <1>6, Zenon DEF Unmaximize
  <2> QED
    BY <2>1 DEF Strays
<1>7. CASE Forget
  BY <1>7 DEF Forget, Strays
<1>8. CASE Toggle
  BY <1>8 DEF Toggle
<1>9. ASSUME NEW dir \in ShadeDirs, NEW again \in BOOLEAN, Shading(dir, again)
      PROVE  ~strayed
  BY <1>9 DEF Shading
<1>10. CASE UserPages
  BY <1>10 DEF UserPages
<1>11. CASE UserSticks
  BY <1>11 DEF UserSticks
<1>12. CASE FullScreen
  BY <1>12 DEF FullScreen, Strays
<1>13. CASE StyleChange
  <2>1. PICK s, changes : s \in Styles /\ Restyled(s, changes)
    BY <1>13, StyleIs
  <2> QED
    BY <2>1 DEF Restyled
<1>14. CASE Reshape
  BY <1>14 DEF Reshape, Strays
<1>15. CASE ConfigureRequest
  <2>1. PICK d, new : Request(d, new)
    BY <1>15, RequestIs
  <2> QED
    BY <2>1 DEF Request
<1>16. CASE Restart
  BY <1>16 DEF Restart, Strays
<1>17. CASE SessionRestore
  BY <1>17 DEF SessionRestore, Strays
<1> QED
  BY <1>1, <1>2, <1>3, <1>4, <1>5, <1>6, <1>7, <1>8, <1>9, <1>10, <1>11, <1>12, <1>13, <1>14, <1>15, <1>16, <1>17 DEF Next

-----------------------------------------------------------------------------
\* The inductive invariant.
Inv2 == Inv /\ Coherent(w) /\ (~strayed => Good(w, Vy, home, there))

\* It holds of a window that is mapped for the first time ...
LEMMA InitInv2 ==
  ASSUME RoomForClient, Init
  PROVE  Inv2
BY InitInv, InitGood DEF Inv2

\* ... and every operation keeps it.
LEMMA NextInv2 ==
  ASSUME RoomForClient, Inv2, [Next]_vars
  PROVE  Inv2'
<1>1. CASE Next
  <2>1. Inv'
    BY <1>1, NextInv DEF Inv2
  <2>2. Coherent(w')
    BY <1>1, NextCoherent DEF Inv2
  <2>3. ~strayed' => ~strayed
    BY <1>1, StrayedStays DEF Inv2
  <2>4. ~strayed' => Good(w', Vy', home', there')
    BY <1>1, <2>3, NextGood DEF Inv2
  <2>5. (~strayed => Good(w, Vy, home, there))' <=> (~strayed' => Good(w', Vy', home', there'))
    BY DEF Good, Sound, Agrees, UpdateRelative, Relative, Current, Shade, Total, Suits, StyleTotal,
           Home, There, Near, Apart, SavedPlace, Place, Div
  <2> QED
    BY <2>1, <2>2, <2>4, <2>5 DEF Inv2, Coherent
<1>2. CASE UNCHANGED vars
  BY <1>2 DEF vars, Inv2, Inv, Coherent, Good, Sound, Agrees, UpdateRelative, Relative, Current, Shade, Total, Suits, StyleTotal,
           Home, There, Near, Apart, SavedPlace, Place, Div
<1> QED
  BY <1>1, <1>2

\* Inv2 gives the type of the window and heights above zero.
LEMMA TypeOKFromInv2 ==
  ASSUME Inv2
  PROVE  TypeOK
<1>1. /\ w \in Windows /\ Vy \in Pages /\ Vy \in Int /\ (w.full => w.maximized)
      /\ Total(w) \in Nat
  BY Bounds, TotalTypes DEF Inv2, Inv, Coherent
<1>2. /\ w.normal \in Rectangles /\ w.max \in Rectangles /\ w.frame \in Rectangles
      /\ w.normal.h \in Int /\ w.max.h \in Int
      /\ w.maximized \in BOOLEAN /\ w.shaded \in BOOLEAN /\ w.full \in BOOLEAN
  BY <1>1, Fields DEF Rectangles
<1>3. ASSUME ~strayed
      PROVE  w.normal.h > 0 /\ w.frame.h > 0 /\ (w.maximized => w.max.h > 0)
  <2>1. Good(w, Vy, home, there)
    BY <1>3 DEF Inv2
  <2>2. /\ w.normal.h > Total(w) /\ (w.maximized => w.max.h > Total(w))
        /\ Current(w).h > Total(w) /\ Agrees(w, Vy)
    BY <2>1, GoodIs
  <2>3. PICK k \in Rectangles : k = Relative(Current(w), Vy) /\ k.h = Current(w).h
    BY <1>1, RelativeFramed
  <2>4. w.frame = IF w.shaded THEN Shade(w, w.shadeDir, k) ELSE k
    BY <2>2, <2>3 DEF Agrees, UpdateRelative
  <2>5. k.h \in Int /\ k.h > 0
    BY <1>1, <2>2, <2>3 DEF Rectangles
  <2>6. w.shadeDir \in {"N", "S", "SW", "W"}
    BY <1>1, Fields
  <2>7. CASE w.shaded /\ w.shadeDir # "W"
    <3>1. w.frame.h = ShadedHeight(w, w.shadeDir)
      BY <1>1, <2>4, <2>6, <2>7, ShadeIs
    <3>2. ShadedHeight(w, w.shadeDir) \in Nat \ {0}
      BY <1>1, ShadeIs
    <3> QED
      BY <1>1, <1>2, <2>2, <3>1, <3>2
  <2>8. CASE ~(w.shaded /\ w.shadeDir # "W")
    <3>1. w.frame = k
      BY <1>1, <2>4, <2>8, ShadeIs
    <3> QED
      BY <1>1, <1>2, <2>2, <2>5, <3>1
  <2> QED
    BY <2>7, <2>8
<1> QED
  BY <1>1, <1>2, <1>3 DEF TypeOK

\* TypeOK: after any operations, of every window and style, the three
\* geometries are rectangles and, until a step under Strays, the frame that
\* is asked of the X server has a height above zero.
THEOREM TypeCorrect == ASSUME RoomForClient PROVE Spec => []TypeOK
<1>1. Init => Inv2
  BY InitInv2
<1>2. Inv2 /\ [Next]_vars => Inv2'
  BY NextInv2
<1>3. Inv2 => TypeOK
  BY TypeOKFromInv2
<1> QED
  BY <1>1, <1>2, <1>3, PTL DEF Spec

\* PlaceKept: what decorates, maximizes, shades, pages, sticks, fills the
\* screen, saves and restores the window leaves the point that its gravity
\* keeps and the height of its client where the user or the client put them.
THEOREM PlaceStays == ASSUME RoomForClient PROVE Spec => []PlaceKept
<1>1. Init => Inv2
  BY InitInv2
<1>2. Inv2 /\ [Next]_vars => Inv2'
  BY NextInv2
<1>3. Inv2 => PlaceKept
  BY DEF Inv2, Good, PlaceKept
<1> QED
  BY <1>1, <1>2, <1>3, PTL DEF Spec

\* NeverAPageApart: the maximized window and its normal version are less than
\* a page apart, but for the distance at which it was maximized.
THEOREM NearStays == ASSUME RoomForClient PROVE Spec => []NeverAPageApart
<1>1. Init => Inv2
  BY InitInv2
<1>2. Inv2 /\ [Next]_vars => Inv2'
  BY NextInv2
<1>3. Inv2 => NeverAPageApart
  BY DEF Inv2, Good, NeverAPageApart
<1> QED
  BY <1>1, <1>2, <1>3, PTL DEF Spec
=============================================================================
