----------------------------- MODULE JobService -----------------------------
(***************************************************************************)
(* What Schedule and Deschedule promise (doc/commands/Schedule.xml and     *)
(* Deschedule.xml), with no clock, no queue and no records: a job runs     *)
(* once, a periodic one until it is descheduled, one job at a time, and a  *)
(* job that is descheduled before it ran never runs.                       *)
(***************************************************************************)
CONSTANT Jobs

VARIABLES
    status,     \* [Jobs -> {"free", "pending", "running"}]
    periodic    \* the pending or running jobs that are periodic

jvars == <<status, periodic>>

Running == {j \in Jobs : status[j] = "running"}

JInit == status = [j \in Jobs |-> "free"] /\ periodic = {}

Submit(j, p) ==
    /\ status[j] = "free"
    /\ status' = [status EXCEPT ![j] = "pending"]
    /\ periodic' = IF p THEN periodic \cup {j} ELSE periodic

(* One Deschedule takes all jobs of an id that have not been started. *)
Cancel(js) ==
    /\ \A j \in js : status[j] = "pending"
    /\ status' = [j \in Jobs |-> IF j \in js THEN "free" ELSE status[j]]
    /\ periodic' = periodic \ js

Start(j) ==
    /\ Running = {} /\ status[j] = "pending"
    /\ status' = [status EXCEPT ![j] = "running"]
    /\ UNCHANGED periodic

(* The running job ends; the same walk may start the next one. *)
Return(j, next) ==
    /\ status[j] = "running"
    /\ next \subseteq {k \in Jobs : status[k] = "pending"}
    /\ status' = [k \in Jobs |->
                    IF k \in next THEN "running"
                    ELSE IF k = j THEN IF j \in periodic THEN "pending" ELSE "free"
                    ELSE status[k]]
    /\ UNCHANGED periodic

JNext ==
    \/ \E j \in Jobs, p \in BOOLEAN : Submit(j, p)
    \/ \E js \in SUBSET Jobs : Cancel(js)
    \/ \E j \in Jobs : Start(j)
    \/ \E j \in Jobs, next \in {{}} \cup {{k} : k \in Jobs} : Return(j, next)

JSpec == JInit /\ [][JNext]_jvars
=============================================================================
