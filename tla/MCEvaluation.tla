---------------------------- MODULE MCEvaluation ----------------------------
(* Evaluation of one reference with variations against short hypotheses.   *)
EXTENDS Evaluation

WordAt(i, token, start, end) ==
  [id |-> i, form |-> token, tokens |-> <<token>>, start |-> start, end |-> end, speaker |-> 1,
   unintelligible |-> FALSE]

(* One word in each block of a short episode, and one across a boundary.   *)
SixWords ==
  [i \in 1..6 |-> IF i <= 5 THEN WordAt(i, 1 + (i % 2), 2 * i - 2, 2 * i - 1) ELSE WordAt(6, 1, 9, 10)]

Reviewed ==
  [origin |-> 0, absent |-> {}, episode |-> "e", source |-> "s", duration |-> 10, status |-> "reviewed", actor |-> "human",
   reviewer |-> "someone", reviewedAt |-> TRUE, split |-> "exact", words |-> SixWords,
   turns |-> {[speaker |-> 1, start |-> 0, end |-> 7], [speaker |-> 2, start |-> 6, end |-> 10]},
   overlaps |-> {[start |-> 6, end |-> 7, speakers |-> {1, 2}]}, spans |-> {}, slices |-> <<>>,
   reviewed |-> 1..6, timed |-> 1..6,
   provenance |-> [configuration |-> TRUE, inputs |-> FALSE, models |-> "hashed"]]

Machine == [Reviewed EXCEPT !.status = "draft", !.actor = "machine", !.reviewer = "machine",
                            !.overlaps = {}, !.provenance.inputs = TRUE, !.provenance.models = "none"]

ReferencesToCheck ==
  LET span == [start |-> 8, end |-> 9]
      named(name) == <<[name |-> name, start |-> 0, end |-> 4]>>
  IN {Reviewed, Machine, [Reviewed EXCEPT !.episode = "f"], [Reviewed EXCEPT !.absent = {"split", "status"}]}
     \union {[Reviewed EXCEPT !.absent = {f}] : f \in RequiredFields}
     \union {[Machine EXCEPT !.absent = {f}] : f \in {"actor_type", "reviewer"}}
     \union {[Reviewed EXCEPT !.provenance = [configuration |-> c, inputs |-> i, models |-> m]] :
               c \in BOOLEAN, i \in BOOLEAN, m \in {"none", "named", "hashed"}}
     \union {[Reviewed EXCEPT !.status = s] : s \in {"accepted", "draft"}}
     \union {[Reviewed EXCEPT !.reviewer = r] : r \in {"none", "machine"}}
     \union {[Reviewed EXCEPT !.split = "other"]}
     \union {[Reviewed EXCEPT !.timed = t] : t \in {1..5, 2..6, {7}}}
     \union {[Reviewed EXCEPT !.slices = named(n)] : n \in {"custom", "held_out", "all"}}
     \union {[Reviewed EXCEPT !.slices = named("custom") \o named("custom")]}
     \union {[Reviewed EXCEPT !.words[6] = WordAt(6, 1, s, 10), !.words[4].unintelligible = u,
                              !.words[2].speaker = 0, !.words[1].tokens = k, !.spans = m] :
               s \in 6..9, u \in BOOLEAN, k \in {<<>>, <<2, 1>>}, m \in {{}, {span}, {[start |-> 9, end |-> 10]}}}
     \union {[Reviewed EXCEPT !.reviewedAt = FALSE], [Reviewed EXCEPT !.reviewed = 1..5],
             [Reviewed EXCEPT !.duration = 9], [Reviewed EXCEPT !.origin = 1],
             [Reviewed EXCEPT !.source = "t"]}

HypothesesToScore ==
  {[Machine EXCEPT !.words[6].tokens = <<k>>, !.words[6].form = k, !.words[2].speaker = s,
                   !.words[5].start = 7, !.words[5].end = e,
                   !.turns = {[speaker |-> 1, start |-> 0, end |-> f],
                              [speaker |-> 2, start |-> f, end |-> 10]}] :
     k \in {1, 2}, s \in {0, 2}, e \in {8, 9}, f \in {4, 7}}
  \union {[Machine EXCEPT !.source = "t"], [Machine EXCEPT !.duration = 12],
          [Machine EXCEPT !.words = Reverse(@)], [Machine EXCEPT !.words = <<>>, !.turns = {}],
          [Machine EXCEPT !.provenance.models = "named"], [Machine EXCEPT !.provenance.models = "hashed"],
          [Machine EXCEPT !.absent = {"status", "actor_type", "reviewer", "split", "provenance"}]}

EvaluationInputs ==
  LET Of(r, h, metrics) ==
        [kind |-> "evaluation", reference |-> r, hypothesis |-> h,
         thresholds |-> [metrics |-> metrics, percent |-> [m \in Metrics |-> 40]],
         golden |-> [episode |-> "e", source |-> "s", duration |-> 10]]
  IN {Of(r, h, {}) : r \in ReferencesToCheck, h \in HypothesesToScore}
     \union {Of(r, h, metrics) :
               r \in {Reviewed, [Reviewed EXCEPT !.words[5].unintelligible = TRUE,
                                                !.words[6].unintelligible = TRUE]},
               h \in HypothesesToScore, metrics \in SUBSET Metrics \ {{}}}
==============================================================================
