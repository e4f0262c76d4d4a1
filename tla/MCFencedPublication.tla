------------------------ MODULE MCFencedPublication ------------------------
(* Two workers compete for one job, a run of `zanzara process' for its     *)
(* place, and a second place is only published without a job.              *)
EXTENDS FencedPublication

CONSTANTS j1, p1

MCPlaceOf == [j \in Jobs |-> p1]
=============================================================================
