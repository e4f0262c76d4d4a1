---------------------------- MODULE MCAlignment ----------------------------
(* Alignment of all short sentences.                                       *)
EXTENDS Alignment
CONSTANTS AlignedTokens, MaxTokens
Sentences == UNION {[1..n -> AlignedTokens] : n \in 0..MaxTokens}
AlignmentInputs == {[kind |-> "alignment", reference |-> a, hypothesis |-> b] : a, b \in Sentences}
==============================================================================
