---------------------------- MODULE MCWindowMap ----------------------------
(* Instances of WindowMap for TLC: b is a transient of a.                   *)
EXTENDS WindowMap

CONSTANTS a, b

NoHints == [c \in Clients |-> None]
Pair == [c \in Clients |-> IF c = b THEN a ELSE None]

\* b does whatever a client may do, a only maps and destroys its window.
AllOps == [o \in Clients \cup {None} |->
  CASE o = None -> {"iconify", "desk", "move"}
    [] o = a /\ b \in Clients -> {"map", "destroy"}
    [] OTHER -> {"map", "remap", "unmap", "withdraw", "destroy", "change_state"}]

\* Clients map their windows, the user iconifies and opens them.
Commands == [o \in Clients \cup {None} |-> {"map", "iconify"}]
=============================================================================
