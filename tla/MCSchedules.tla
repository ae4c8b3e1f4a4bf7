---------------------------- MODULE MCSchedules ----------------------------
(* Schedules that are due every minute, and a clock of four minutes.       *)
EXTENDS Schedules

MCNextSlot == [s \in Schedules |-> [t \in 0..LastMinute |-> t + 1]]
============================================================================
