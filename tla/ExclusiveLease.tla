--------------------------- MODULE ExclusiveLease ---------------------------
(***************************************************************************)
(* What the durable queue promises its workers, with no clocks, tokens or  *)
(* retries: a job is in the hands of at most one worker that may finish    *)
(* it, only that worker finishes it, and a finished job stays finished and *)
(* is never handed out again.  A job may be taken from its holder at any   *)
(* moment (a failure, a crash, a lease that runs out).                     *)
(***************************************************************************)
CONSTANTS Jobs, Workers

VARIABLES
  holder,   \* the worker that may still finish the job, or none
  done      \* the finished jobs

vars == <<holder, done>>

TypeOK ==
  /\ holder \in [Jobs -> SUBSET Workers]
  /\ done \subseteq Jobs

Init ==
  /\ holder = [j \in Jobs |-> {}]
  /\ done = {}

(* Hand j to w; the jobs of S are withdrawn on the way.                    *)
Acquire(w, j, S) ==
  /\ j \notin done
  /\ holder' = [k \in Jobs |-> IF k = j THEN {w}
                               ELSE IF k \in S THEN {} ELSE holder[k]]
  /\ UNCHANGED done

Withdraw(S) ==
  /\ holder' = [k \in Jobs |-> IF k \in S THEN {} ELSE holder[k]]
  /\ UNCHANGED done

Finish(w, j) ==
  /\ holder[j] = {w}
  /\ holder' = [holder EXCEPT ![j] = {}]
  /\ done' = done \union {j}

Next ==
  \/ \E w \in Workers, j \in Jobs : \E S \in SUBSET Jobs : Acquire(w, j, S)
  \/ \E S \in SUBSET Jobs : Withdraw(S)
  \/ \E w \in Workers, j \in Jobs : Finish(w, j)

Spec == Init /\ [][Next]_vars
=============================================================================
