------------------------------ MODULE MCStack ------------------------------
(* Instances of Stack for TLC: windows a and c may be main windows, b is a   *)
(* transient of a, c main or transient of a or b.                            *)
EXTENDS Stack, TLC

CONSTANTS a, b, c

Tree == a :> {None} @@ b :> {a} @@ c :> {None, b}
=============================================================================
