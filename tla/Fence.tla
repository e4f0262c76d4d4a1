-------------------------------- MODULE Fence --------------------------------
(***************************************************************************)
(* What a publication can rely on of a claimed job: its fencing token only *)
(* grows, it grows with every hand-out, and a lease that was withdrawn (it *)
(* ran out, the job finished, failed or was cancelled) is never given back *)
(* under the same token.  JobQueue implements this; FencedPublication is   *)
(* built on it.                                                            *)
(***************************************************************************)
EXTENDS Naturals

CONSTANT Jobs

VARIABLES
  token,   \* fencing_token of each job
  live     \* the jobs that run under an unexpired lease

fence == <<token, live>>

FenceTypeOK ==
  /\ token \in [Jobs -> Nat]
  /\ live \subseteq Jobs

FenceInit ==
  /\ token = [j \in Jobs |-> 0]
  /\ live = {}

(* Hand out j; the leases of S are withdrawn on the way.                   *)
Grant(j, S) ==
  /\ token' = [token EXCEPT ![j] = @ + 1]
  /\ live' = (live \ S) \union {j}

(* Withdraw the leases of S; a cancellation also moves the token.          *)
Withdraw(S, cancelled) ==
  /\ token' = [j \in Jobs |-> IF j \in cancelled THEN token[j] + 1 ELSE token[j]]
  /\ live' = live \ S

FenceNext ==
  \/ \E j \in Jobs : \E S \in SUBSET Jobs : Grant(j, S)
  \/ \E S \in SUBSET Jobs : \E cancelled \in SUBSET S : Withdraw(S, cancelled)

FenceSpec == FenceInit /\ [][FenceNext]_fence
=============================================================================
