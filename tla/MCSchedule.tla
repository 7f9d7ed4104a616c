----------------------------- MODULE MCSchedule -----------------------------
(***************************************************************************)
(* A plan for TLC: the diamond of schedule.rs's own tests (step 1 the      *)
(* base, 2 and 3 on it, 4 on both) and an independent fifth step, so that  *)
(* steps race, wait for several others, and are refused while planned      *)
(* after a failure.                                                        *)
(***************************************************************************)
EXTENDS Schedule

MCWaits == <<{}, {1}, {1}, {2, 3}, {}>>
=============================================================================
