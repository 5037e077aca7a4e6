------------------------------ MODULE Schedule ------------------------------
(***************************************************************************)
(* The scheduled-command queue of fvwm/schedule.c, with the event loop     *)
(* (My_XNextEvent) that drives it and the two clocks it reads.             *)
(*                                                                         *)
(* Everything runs in one thread, but a scheduled command may itself       *)
(* schedule, deschedule, or Wait; Wait runs the event loop again while the *)
(* outer walk over the queue is still under way.  calls is the stack of    *)
(* walks (activations of squeue_execute), each stopped inside the command  *)
(* of the record cur; the running command is that of the last walk.        *)
(*                                                                         *)
(* X server time is a counter modulo Wrap, stored in C's unsigned long,    *)
(* which counts modulo LongMod.  LongMod = Wrap on ILP32 machines and is   *)
(* far larger on LP64.                                                     *)
(***************************************************************************)
EXTENDS FQueue, Integers, FiniteSets

CONSTANTS
    Wrap,       \* modulus of the X server's clock (2^32)
    LongMod,    \* modulus of the C type Time (unsigned long)
    ClockSkew,  \* CLOCK_SKEW_MS
    Ids,        \* job group ids a user passes explicitly (positive)
    AutoIds,    \* automatic ids run from -1 down to -AutoIds, then wrap
    Delays,     \* delays given to Schedule, in ms
    Modes,      \* subset of BOOLEAN: one-shot (FALSE), Periodic (TRUE)
    Nested,     \* what a scheduled command may do: "schedule", "deschedule", "wait"
    Jobs,       \* names for the jobs in the queue (bounds their number)
    RIds,       \* heap cells for queue records
    MaxDepth,   \* bound on nested walks (MAX_FUNCTION_DEPTH in the code)
    MaxLag,     \* bound on the age of the last X timestamp
    MaxLate     \* bound on how late a due command is done with (loop latency)

ASSUME ClockAssumption ==
    /\ Wrap \in Nat \ {0} /\ LongMod \in Nat \ {0} /\ LongMod % Wrap = 0
    /\ ClockSkew \in Nat /\ MaxLag \in Nat /\ MaxLate \in Nat
    /\ MaxDepth \in Nat
ASSUME DelayAssumption == Delays \subseteq Nat /\ Modes \subseteq BOOLEAN
ASSUME NestedAssumption == Nested \subseteq {"schedule", "deschedule", "wait"}
ASSUME IdAssumption == Ids \subseteq Nat \ {0} /\ AutoIds \in Nat \ {0}

VARIABLES
    clock,      \* X server time
    evtime,     \* fev_last_timestamp
    sq,         \* the queue sq; objects are [job, id, due, period, cmd]
    calls,      \* stack of walks [now, cur]
    lastId,     \* last_schedule_id
    nextId,     \* next_schedule_id
    owed,       \* history: per record, real ms until the delay is over
    descheduled \* history: jobs that a Deschedule named after they were scheduled

vars == <<clock, evtime, sq, calls, lastId, nextId, owed, descheduled>>

-----------------------------------------------------------------------------
(* Clocks. *)

(* Mutant: times are compared as plain unsigned numbers. *)
TimeBefore_Unsigned(t1, t2) == t1 < t2

(* cmp_times(t1, t2) < 0 and >= 0: the sign of the wrapped difference. *)
TimeBefore(t1, t2) == 2 * ((t1 - t2) % LongMod) >= LongMod
TimeReached(t1, t2) == ~TimeBefore(t1, t2)

(* cmp_object_time(o1, o2) < 0. *)
RunsBefore(o1, o2) == TimeBefore(o1.due, o2.due)
LaterThan(obj) == {i \in DOMAIN sq.recs : RunsBefore(obj, sq.recs[i].obj)}

(* How far the last X timestamp is behind the server. *)
Lag == (clock - evtime) % Wrap

(* fev_update_last_timestamp for an event stamped with the current time. *)
Timestamp ==
    IF clock > evtime \/ evtime - clock > ClockSkew THEN clock ELSE evtime

(* Mutant: the automatic id is not reset when it wraps. *)
NextAuto_NoWrap(n) == n - 1

(* The next automatic id. *)
NextAuto(n) == IF n = -AutoIds THEN -1 ELSE n - 1

-----------------------------------------------------------------------------
(* Walks. *)

Depth == Len(calls)
TopCall == calls[Depth]
RecOf(Q, rid) == Q.recs[IndexOfRec(Q, rid)]
RunningObj == RecOf(sq, TopCall.cur).obj

(* The code that can act now is either the event loop (no walk under way)
   or the command of the record the innermost walk is at.                  *)
InCommand(what) == Depth > 0 => RunningObj.cmd /\ what \in Nested

(* squeue_execute from position from on: run the next due record, or end
   the walk.  outer is the stack without this walk.                        *)
Walk(Q, from, now, outer) ==
    LET due == {i \in Candidates(Q, from) : TimeReached(now, Q.recs[i].obj.due)}
    IN  IF due = {}
        THEN sq' = UnlockQueue(Q) /\ calls' = outer
        ELSE /\ sq' = Q
             /\ calls' = Append(outer,
                           [now |-> now, cur |-> Q.recs[MinOf(due)].rid])

FreeRIds == RIds \ RecIds(sq)

(* The bound on heap cells: walks and new jobs need room for all periodic
   commands that may still be requeued by the walks under way.             *)
Requeues == Cardinality({i \in Candidates(sq, 1) : sq.recs[i].obj.period > 0})
Room == Cardinality(FreeRIds) - Requeues - Depth

FreeJobs == Jobs \ {sq.recs[i].obj.job : i \in DOMAIN sq.recs}

-----------------------------------------------------------------------------
Init ==
    /\ clock = 0 /\ evtime = 0
    /\ sq = EmptyQueue
    /\ calls = <<>>
    /\ lastId = 0 /\ nextId = -1
    /\ owed = [r \in RIds |-> 0]
    /\ descheduled = {}

(* Time passes.  MaxLag and MaxLate bound how far the program lags behind,
   the time a command runs included: both are short against half the range
   of the clock (24.8 days).                                               *)
Tick ==
    /\ Lag < MaxLag
    /\ \A i \in DOMAIN sq.recs :
          LET due == sq.recs[i].obj.due
          IN  TimeReached(clock, due) => (clock - due) % LongMod < MaxLate
    /\ clock' = (clock + 1) % Wrap
    /\ owed' = [r \in RIds |-> IF owed[r] = 0 THEN 0 ELSE owed[r] - 1]
    /\ UNCHANGED <<evtime, sq, calls, lastId, nextId, descheduled>>

(* The event loop fetches an X event that carries a timestamp. *)
TimestampedEvent ==
    /\ InCommand("wait")
    /\ evtime' = Timestamp
    /\ UNCHANGED <<clock, sq, calls, lastId, nextId, owed, descheduled>>

Remaining(ms) == IF ms > Lag THEN ms - Lag ELSE 0

(* CMD_Schedule [Periodic] ms [id] command.  explicit holds the id, if one
   is given.                                                               *)
CmdSchedule(ms, periodic, explicit) ==
    /\ InCommand("schedule")
    /\ FreeJobs # {} /\ Room > 0
    /\ LET id  == IF explicit = {} THEN nextId ELSE CHOOSE i \in explicit : TRUE
           job == CHOOSE j \in FreeJobs : TRUE
           rid == CHOOSE r \in FreeRIds : TRUE
           obj == [job |-> job, id |-> id, due |-> (evtime + ms) % LongMod,
                   period |-> IF periodic THEN ms ELSE 0, cmd |-> TRUE]
       IN  /\ sq' = AddInside(sq, rid, obj, LaterThan(obj))
           /\ lastId' = id
           /\ nextId' = IF explicit = {} THEN NextAuto(nextId) ELSE nextId
           /\ owed' = [owed EXCEPT ![rid] = Remaining(ms)]
           /\ descheduled' = descheduled \ {job}
    /\ UNCHANGED <<clock, evtime, calls>>

(* CMD_Deschedule [id]. *)
CmdDeschedule(explicit) ==
    /\ InCommand("deschedule")
    /\ LET id == IF explicit = {} THEN lastId ELSE CHOOSE i \in explicit : TRUE
       IN  /\ sq' = RemoveMatching(sq, {i \in DOMAIN sq.recs : sq.recs[i].obj.id = id})
           /\ descheduled' = descheduled \cup
                 {sq.recs[i].obj.job : i \in {k \in LiveRecs(sq) : sq.recs[k].obj.id = id}}
    /\ UNCHANGED <<clock, evtime, calls, lastId, nextId, owed>>

(* squeue_execute, called by the event loop when a command is due or select
   times out; by the event loop inside Wait when a command is running.     *)
SqueueExecute ==
    /\ sq.recs # <<>>
    /\ InCommand("wait") /\ Depth < MaxDepth /\ Room >= 0
    /\ evtime' = Timestamp                       \* get_server_time
    /\ Walk(LockQueue(sq), 1, clock, calls)
    /\ UNCHANGED <<clock, lastId, nextId, owed, descheduled>>

(* execute_function returns to execute_obj_func: a periodic job is queued
   anew, the old record loses its command and is scheduled for deletion,
   and the walk goes on behind it.  Room keeps a heap cell free for it.    *)
CommandReturns ==
    /\ Depth > 0
    /\ RunningObj.period > 0 => FreeRIds # {}
    /\ LET cur == TopCall.cur
           obj == RunningObj
           i   == IndexOfRec(sq, cur)
           again == [obj EXCEPT !.due = (evtime + obj.period) % LongMod]
           rid == CHOOSE r \in FreeRIds : TRUE
           requeued == AddInside([sq EXCEPT !.recs[i].obj.cmd = FALSE],
                                 rid, again, LaterThan(again))
           done == MarkDeleted(IF obj.period > 0 THEN requeued ELSE sq, cur)
       IN  /\ owed' = IF obj.period > 0
                        THEN [owed EXCEPT ![rid] = Remaining(obj.period)]
                        ELSE owed
           /\ Walk(done, IndexOfRec(done, cur) + 1, TopCall.now,
                   SubSeq(calls, 1, Depth - 1))
    /\ UNCHANGED <<clock, evtime, lastId, nextId, descheduled>>

ExplicitIds == {{}} \cup {{i} : i \in Ids}

Next ==
    \/ Tick
    \/ TimestampedEvent
    \/ \E ms \in Delays, periodic \in Modes, explicit \in ExplicitIds :
          CmdSchedule(ms, periodic, explicit)
    \/ \E explicit \in ExplicitIds : CmdDeschedule(explicit)
    \/ SqueueExecute
    \/ CommandReturns

Spec == Init /\ [][Next]_vars

(* Time goes on, the event loop comes round, and no command runs forever. *)
FairSpec ==
    /\ Spec
    /\ WF_vars(Tick)
    /\ WF_vars(SqueueExecute)
    /\ WF_vars(CommandReturns)
-----------------------------------------------------------------------------
(* Properties. *)

Objects == [job : Jobs, id : -AutoIds .. -1 \cup Ids, due : 0 .. LongMod - 1,
            period : Delays \cup {0}, cmd : BOOLEAN]

(* Every variable has the type its declaration gives it, and no heap cell
   is linked into the queue twice.                                         *)
TypeOK ==
    /\ clock \in 0 .. Wrap - 1 /\ evtime \in 0 .. Wrap - 1
    /\ \A i \in DOMAIN sq.recs :
          sq.recs[i] \in [rid : RIds, obj : Objects, del : BOOLEAN, new : BOOLEAN]
    /\ \A i, j \in DOMAIN sq.recs : sq.recs[i].rid = sq.recs[j].rid => i = j
    /\ sq.lock \in Nat /\ sq.dirty \in BOOLEAN
    /\ \A k \in DOMAIN calls : calls[k] \in [now : 0 .. Wrap - 1, cur : RIds]
    /\ lastId \in (-AutoIds .. 0) \cup Ids /\ nextId \in -AutoIds .. -1
    /\ owed \in [RIds -> Nat] /\ descheduled \subseteq Jobs

(* No walk is left holding a freed record: whatever a command schedules,
   deschedules or waits for, the record that each walk is stopped at stays
   linked until that walk has moved on (queue.c, lock_level).              *)
NoDanglingWalk == \A k \in DOMAIN calls : calls[k].cur \in RecIds(sq)

(* The lock level counts the walks under way, and once the last one has
   ended nothing is left marked: records flagged for deletion are gone, and
   new ones have become visible to the next walk.                          *)
LockDiscipline ==
    /\ sq.lock = Depth
    /\ Depth = 0 => \A i \in DOMAIN sq.recs : ~sq.recs[i].del /\ ~sq.recs[i].new

(* However walks nest, the queue stays sound for each of them. *)
WalksSound == NoDanglingWalk /\ LockDiscipline

(* The queue is in order of execution time, across a wrap of the clock and
   across insertions made while it is walked; squeue_get_next_ms looks at
   its first record only.                                                  *)
QueueSorted ==
    \A i, j \in DOMAIN sq.recs :
        i < j => ~RunsBefore(sq.recs[j].obj, sq.recs[i].obj)

(* A job has at most one record that can still run: requeueing a periodic
   job neither doubles it nor leaves the old record alive.                 *)
OneRecordPerJob ==
    \A i, j \in LiveRecs(sq) :
        sq.recs[i].obj.job = sq.recs[j].obj.job =>
            i = j \/ (Depth > 0 /\ sq.recs[i].rid = TopCall.cur)
                  \/ (Depth > 0 /\ sq.recs[j].rid = TopCall.cur)

(* No command is started before its delay, counted from the timestamp of
   the event that scheduled it, has really passed - also when the clock
   wraps in between.                                                       *)
Starting == {calls'[k].cur : k \in {n \in DOMAIN calls' :
                n \notin DOMAIN calls \/ calls[n] # calls'[n]}}
NeverEarly == [][\A r \in Starting : owed[r] = 0]_vars

(* A job that a Deschedule named is gone once no command is running. *)
DescheduleIsFinal ==
    Depth = 0 => \A i \in DOMAIN sq.recs : sq.recs[i].obj.job \notin descheduled

StatusOf(j) ==
    IF Depth > 0 /\ RunningObj.job = j THEN "running"
    ELSE IF \E i \in LiveRecs(sq) : sq.recs[i].obj.job = j THEN "pending"
    ELSE "free"

(* A scheduled command is eventually executed or descheduled; a periodic one
   time and again.                                                         *)
EventuallyDone ==
    \A j \in Jobs : (StatusOf(j) = "pending") ~> (StatusOf(j) # "pending")

(* The queue implements the promise of the two commands: a record that can
   still run is a pending job, the record a walk stands at a running one.  *)
PeriodicJobs == {sq.recs[i].obj.job : i \in {k \in LiveRecs(sq) : sq.recs[k].obj.period > 0}}

Promise == INSTANCE JobService WITH status <- [j \in Jobs |-> StatusOf(j)],
                                    periodic <- PeriodicJobs
ImplementsPromise == Promise!JSpec
=============================================================================
