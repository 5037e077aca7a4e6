--------------------------- MODULE ModuleChannel ---------------------------
(***************************************************************************)
(* What fvwm promises of the packets it sends to a module: a channel for   *)
(* each module that loses nothing from its middle, repeats nothing and     *)
(* keeps the order in which the packets were sent.  Packets are lost only  *)
(* from the end of the channel, and only of one that is being closed; a    *)
(* closed channel takes no more packets.                                   *)
(***************************************************************************)
EXTENDS Naturals, Sequences

CONSTANTS Modules, Messages

VARIABLES
    chan,   \* per module, the packets sent and not yet read
    state   \* [Modules -> {"new", "open", "closing", "closed"}]

cvars == <<chan, state>>

CInit == /\ state \in [Modules -> {"new", "open"}]
         /\ chan = [m \in Modules |-> <<>>]

Open(m) ==
    /\ state[m] = "new"
    /\ state' = [state EXCEPT ![m] = "open"]
    /\ UNCHANGED chan

(* fvwm may still be sending to a module that it is about to drop. *)
Put(m, x) ==
    /\ state[m] \in {"open", "closing"}
    /\ \A i \in DOMAIN chan[m] : chan[m][i] # x
    /\ chan' = [chan EXCEPT ![m] = Append(@, x)]
    /\ UNCHANGED state

Get(m) ==
    /\ chan[m] # <<>>
    /\ chan' = [chan EXCEPT ![m] = Tail(@)]
    /\ UNCHANGED state

StartClosing(ms) ==
    /\ \A m \in ms : state[m] = "open"
    /\ state' = [m \in Modules |-> IF m \in ms THEN "closing" ELSE state[m]]
    /\ UNCHANGED chan

Close(ms) ==
    /\ \A m \in ms : state[m] = "closing"
    /\ state' = [m \in Modules |-> IF m \in ms THEN "closed" ELSE state[m]]
    /\ chan' = [m \in Modules |-> IF m \in ms THEN chan'[m] ELSE chan[m]]
    /\ \A m \in ms : \E n \in 0 .. Len(chan[m]) : chan'[m] = SubSeq(chan[m], 1, n)

(* The module exits: nobody reads any more. *)
Lose(m) ==
    /\ state[m] # "new"
    /\ chan' = [chan EXCEPT ![m] = <<>>]
    /\ UNCHANGED state

CNext ==
    \/ \E m \in Modules : Open(m) \/ Get(m) \/ Lose(m)
    \/ \E m \in Modules, x \in Messages : Put(m, x)
    \/ \E ms \in SUBSET Modules : StartClosing(ms) \/ Close(ms)

CSpec == CInit /\ [][CNext]_cvars
=============================================================================
