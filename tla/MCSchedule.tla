----------------------------- MODULE MCSchedule -----------------------------
(* Instances of Schedule for TLC. *)
EXTENDS Schedule
=============================================================================
