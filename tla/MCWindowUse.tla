---------------------------- MODULE MCWindowUse ----------------------------
(* An instance of WindowUse for TLC: records are interchangeable.           *)
EXTENDS WindowUse

Symmetry == Permutations(Recs) \cup Permutations(Clients)
=============================================================================
