---------------------------- MODULE MCDiarization ----------------------------
(* DiarizationScore on every small matrix of shared times and on small     *)
(* timelines.                                                              *)
EXTENDS DiarizationScore

CONSTANTS Long   \* the longest time two speakers share

(* Turns that give each pair of speakers its own stretch of time.          *)
Laid(pairs, lengths) ==
  LET from[i \in 1..(Len(pairs) + 1)] == IF i = 1 THEN 0 ELSE from[i - 1] + lengths[i - 1]
      side(k) == {[speaker |-> pairs[i][k], start |-> from[i], end |-> from[i + 1]] :
                    i \in {j \in DOMAIN pairs : lengths[j] > 0}}
  IN [hypothesis |-> side(1), reference |-> side(2), duration |-> from[Len(pairs) + 1]]

Pairs(hypotheses, references) ==
  [i \in 1..(hypotheses * references) |->
     <<((i - 1) \div references) + 1, ((i - 1) % references) + 1>>]

Laying(turns, collar, slices) ==
  [kind |-> "diarization", identity |-> "same", known |-> {"reference", "hypothesis"},
   reference |-> turns.reference, hypothesis |-> turns.hypothesis,
   overlapTruth |-> FALSE, referenceOverlaps |-> {}, hypothesisOverlaps |-> {},
   duration |-> turns.duration, collar |-> collar, slices |-> slices]

Matrices(h, r, most) ==
  {Laying(Laid(Pairs(h, r), f), 0, <<>>) : f \in [1..(h * r) -> 0..most]}

(* Small timelines with overlapping speech, a collar and a slice.          *)
ScoredTimelines ==
  LET turn(speaker, start, end) == [speaker |-> speaker, start |-> start, end |-> end]
      slice == {[start |-> 1, end |-> 3], [start |-> 2, end |-> 5]}
  IN {[Laying([reference |-> {turn(1, 0, a), turn(2, b, 6)},
              hypothesis |-> {turn(1, 0, c), turn(2, d, 6), turn(3, d, e)}, duration |-> 6],
             collar, <<slice>>)
         EXCEPT !.overlapTruth = truth,
                !.referenceOverlaps = {[start |-> b, end |-> a] : x \in IF b < a THEN {1} ELSE {}},
                !.hypothesisOverlaps = {[start |-> 2, end |-> 4]}] :
         a \in {2, 4}, b \in {1, 3, 4}, c \in 1..4, d \in {2, 3}, e \in {4, 6}, collar \in {0, 1},
         truth \in BOOLEAN}

Poor ==
  LET one == CHOOSE t \in ScoredTimelines : TRUE
  IN {[one EXCEPT !.known = {"hypothesis"}], [one EXCEPT !.identity = "differs"]}

DiarizationInputs ==
  Matrices(2, 3, 1) \union Matrices(3, 2, Long) \union Matrices(3, 3, 1) \union ScoredTimelines \union Poor
==============================================================================
