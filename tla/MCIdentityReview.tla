-------------------------- MODULE MCIdentityReview --------------------------
(* Speakers a1 and a2 are of one episode, b1 and b2 of another that was    *)
(* diarized twice: b2 belongs to the second diarization.                   *)
EXTENDS IdentityReview, TLC

CONSTANTS a1, a2, b1, b2

MCEpisodeOf == [s \in Speakers |-> IF s \in {a1, a2} THEN "a" ELSE "b"]
MCDiarizationOf ==
  [s \in Speakers |-> IF s \in {a1, a2} THEN "first of a"
                      ELSE IF s = b1 THEN "first of b" ELSE "second of b"]

(* a1 and a2 have the same episode and diarization; ids and reviewers are  *)
(* told apart by nothing.                                                  *)
Interchangeable ==
  Permutations(Reviewers) \union Permutations(Globals) \union Permutations({a1, a2})
=============================================================================
