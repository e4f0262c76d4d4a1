----------------------------- MODULE MCJobQueue -----------------------------
(***************************************************************************)
(* Small instances of JobQueue.  Two worker processes run under one owner  *)
(* name, so that only the fencing token tells their attempts apart.        *)
(***************************************************************************)
EXTENDS JobQueue, TLC

CONSTANTS w1, w2, o1, main, r1

MCOwnerOf == [w \in Workers |-> main]
WorkerSymmetry == Permutations(Workers)

MCBackoff == <<1, 2>>

(* Job 2 is paid; job 1 is not, but was enqueued with the same request id, *)
(* so that dispatching it first makes job 2 undispatchable.                *)
MCPaid == {2}
MCRequestOf == [j \in Jobs |-> r1]
=============================================================================
