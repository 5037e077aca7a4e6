------------------------------- MODULE FQueue -------------------------------
(***************************************************************************)
(* The object queue of libs/queue.c as operators on a queue value          *)
(*                                                                         *)
(*   [recs  : sequence of [rid, obj, del, new],  the linked records        *)
(*    lock  : Nat,                               fq->lock_level            *)
(*    dirty : BOOLEAN]                           fq->flags.is_dirty        *)
(*                                                                         *)
(* rid names the heap cell of a record, so that a caller that still holds  *)
(* a pointer to a record can be told from one whose record was freed; del  *)
(* is is_scheduled_for_deletion and new is is_just_created.  fq->last is   *)
(* the last record of recs: the one operation that lets the two disagree,  *)
(* fqueue_add_at_front on an empty queue, has no caller in the program.    *)
(***************************************************************************)
EXTENDS Naturals, Sequences, SequencesExt

EmptyQueue == [recs |-> <<>>, lock |-> 0, dirty |-> FALSE]

MinOf(S) == CHOOSE i \in S : \A j \in S : i <= j

(* Position of record rid in the queue. *)
IndexOfRec(Q, rid) == CHOOSE i \in DOMAIN Q.recs : Q.recs[i].rid = rid

RecIds(Q) == {Q.recs[i].rid : i \in DOMAIN Q.recs}

(* Records an operation on the queue may still act upon. *)
LiveRecs(Q) == {i \in DOMAIN Q.recs : ~Q.recs[i].del}

-----------------------------------------------------------------------------
(* A record allocated while the queue is locked is flagged as new. *)
NewRecord(Q, rid, obj) ==
    [rid |-> rid, obj |-> obj, del |-> FALSE, new |-> Q.lock > 0]

(* Mutant: new objects simply go to the end of the queue. *)
AddInside_AtEnd(Q, rid, obj, later) ==
    [Q EXCEPT !.recs = Append(@, NewRecord(Q, rid, obj)), !.dirty = @ \/ Q.lock > 0]

(* fqueue_add_inside: in front of the first of the positions later, those
   of the records cmp_objects says come after obj.                         *)
AddInside(Q, rid, obj, later) ==
    LET pos == IF later = {} THEN Len(Q.recs) + 1 ELSE MinOf(later)
    IN  [Q EXCEPT !.recs  = InsertAt(@, pos, NewRecord(Q, rid, obj)),
                  !.dirty = @ \/ Q.lock > 0]

(* Mutant: new records are not made permanent. *)
Cleanup_KeepsNew(Q) ==
    LET kept[n \in 0 .. Len(Q.recs)] ==
          IF n = 0 THEN <<>>
          ELSE IF Q.recs[n].del THEN kept[n - 1]
          ELSE Append(kept[n - 1], Q.recs[n])
    IN  [Q EXCEPT !.recs = kept[Len(Q.recs)]]

(* fqueue_cleanup_queue: destroys what is scheduled for deletion and makes
   new records permanent; is_dirty is left set.  kept[n] is what is left of
   the first n records.                                                    *)
Cleanup(Q) ==
    LET kept[n \in 0 .. Len(Q.recs)] ==
          IF n = 0 THEN <<>>
          ELSE IF Q.recs[n].del THEN kept[n - 1]
          ELSE Append(kept[n - 1], [Q.recs[n] EXCEPT !.new = FALSE])
    IN  [Q EXCEPT !.recs = kept[Len(Q.recs)]]

LockQueue(Q) == [Q EXCEPT !.lock = @ + 1]

(* Mutant: every unlock cleans up, not only the outermost. *)
UnlockQueue_AnyLevel(Q) ==
    IF Q.lock = 0 THEN Q
    ELSE [(IF Q.dirty THEN Cleanup(Q) ELSE Q) EXCEPT !.lock = @ - 1]

(* fqueue_unlock_queue: the outermost unlock of a dirty queue cleans up. *)
UnlockQueue(Q) ==
    IF Q.lock = 0 THEN Q
    ELSE LET c == IF Q.lock = 1 /\ Q.dirty THEN Cleanup(Q) ELSE Q
         IN  [c EXCEPT !.lock = @ - 1]

(* Mutants: the record is not flagged, or the queue not made dirty. *)
MarkDeleted_NotFlagged(Q, rid) == [Q EXCEPT !.dirty = TRUE]
MarkDeleted_NotDirty(Q, rid) == [Q EXCEPT !.recs[IndexOfRec(Q, rid)].del = TRUE]

(* The tail of fqueue_operate, reached when operate_func has returned. *)
MarkDeleted(Q, rid) ==
    [Q EXCEPT !.recs[IndexOfRec(Q, rid)].del = TRUE, !.dirty = TRUE]

(* The positions from from on that the walk of fqueue_remove_or_operate_all
   hands to check_func.                                                    *)
Candidates(Q, from) ==
    {i \in DOMAIN Q.recs : i >= from /\ ~Q.recs[i].new /\ ~Q.recs[i].del}

(* Mutant: the walk stops at the first record removed. *)
RemoveMatching_First(Q, matching) ==
    LET hit == Candidates(Q, 1) \cap matching
    IN  IF hit = {} THEN Q
        ELSE LET L == LockQueue(Q)
             IN  UnlockQueue([L EXCEPT !.recs[MinOf(hit)].del = TRUE, !.dirty = TRUE])

(* fqueue_remove_or_operate_all without an operate_func: all records at the
   positions matching go.                                                  *)
RemoveMatching(Q, matching) ==
    IF Q.recs = <<>> THEN Q
    ELSE LET hit    == Candidates(Q, 1) \cap matching
             marked == [i \in DOMAIN Q.recs |->
                          [Q.recs[i] EXCEPT !.del = Q.recs[i].del \/ i \in hit]]
         IN  UnlockQueue(
               [LockQueue(Q) EXCEPT !.recs = marked, !.dirty = @ \/ hit # {}])
=============================================================================
