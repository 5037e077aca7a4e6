-------------------------- MODULE MCWindowGeometry --------------------------
(* One screen of 10 lines, two pages, and styles that differ in one thing    *)
(* each from the plain one: decoration, side of the title, greatest size.    *)
EXTENDS WindowGeometry

Plain == [border |-> 1, title |-> 2, dir |-> "N", max |-> 9]
Bare == [Plain EXCEPT !.border = 0, !.title = 0]
Below == [Plain EXCEPT !.dir = "S"]
Small == [Plain EXCEPT !.max = 7]
MCStyles == {Plain, Bare, Below, Small}
\* The least client has room in each of them (RoomForClient, WindowGeometryPlaces).
ASSUME \A s \in MCStyles : s.max >= 2 * s.border + s.title + MinHeight + HeightInc - 1

MCGravities == {-1, 0, 1}
=============================================================================
