----------------------------- MODULE MCReviews -----------------------------
(* Reviews: one log of each kind, two reviewers.                           *)
EXTENDS Reviews
MCKindOf == [l \in Logs |-> l]
==============================================================================
