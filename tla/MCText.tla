------------------------------- MODULE MCText -------------------------------
(* TextScore on two streams of short words and on odd items.               *)
EXTENDS TextScore

CONSTANTS MaxStream   \* words in one stream

Token == [words |-> <<1>>, form |-> 1]
Tokens2 == {<<1>>, <<2>>}
Streams2 == UNION {[1..n -> {1, 2}] : n \in 0..MaxStream}
Raw(words) == [i \in DOMAIN words |-> [words |-> <<words[i]>>, form |-> words[i]]]
Bare(words) == [tokens |-> Raw(words), mask |-> {}]

Plain ==
  [chunk |-> "c1", model |-> "m1", belongs |-> TRUE, review |-> "human_truth",
   reference |-> Raw(<<1, 2>>), hypothesis |-> Raw(<<1, 1>>),
   referenceMask |-> {}, hypothesisMask |-> {},
   referenceStreams |-> <<Bare(<<1>>), Bare(<<2>>)>>,
   hypothesisStreams |-> <<Bare(<<1>>), Bare(<<1>>)>>, slices |-> {"condition"}]

Spoken(references, hypotheses) ==
  [Plain EXCEPT !.referenceStreams = [i \in DOMAIN references |-> Bare(references[i])],
                !.hypothesisStreams = [i \in DOMAIN hypotheses |-> Bare(hypotheses[i])]]

OneItem ==
  {Spoken(r, h) : r \in (Streams2 \X Streams2), h \in (Streams2 \X Streams2)}
  \union {Spoken(<<r[1], <<2>>, r[2]>>, h) : r \in (Streams2 \X Streams2), h \in {<<a>> : a \in Streams2}}

(* Items with masks, raw tokens, missing evidence and other slices.        *)
Odd ==
  LET comma == [words |-> <<>>, form |-> 3]
      masked == <<[tokens |-> Raw(<<1, 2>>), mask |-> {1}]>>
      beyond == <<[tokens |-> Raw(<<1>>), mask |-> {2}]>>
  IN {Plain,
      [Plain EXCEPT !.review = "machine"],
      [Plain EXCEPT !.referenceStreams = <<>>],
      [Plain EXCEPT !.reference = <<comma>>, !.hypothesis = <<>>],
      [Plain EXCEPT !.reference = <<comma>> \o @, !.referenceMask = {2}, !.hypothesisMask = {2}],
      [Plain EXCEPT !.referenceMask = {5}, !.hypothesisMask = {1}, !.slices = {}],
      [Plain EXCEPT !.referenceMask = {1}],
      [Plain EXCEPT !.referenceStreams = masked],
      [Plain EXCEPT !.referenceStreams = masked, !.hypothesisStreams = masked],
      [Plain EXCEPT !.referenceStreams = beyond, !.hypothesisStreams = masked],
      [Plain EXCEPT !.referenceStreams = <<Bare(<<>>)>>],
      [Plain EXCEPT !.hypothesisStreams = <<>>],
      [Plain EXCEPT !.belongs = FALSE]}

Pairs2 ==
  {<<a, [b EXCEPT !.chunk = c, !.model = m]>> : a \in Odd, b \in Odd, c \in {"c1", "c2"}, m \in {"m1", "m2"}}

TextInputs ==
  {[kind |-> "text", items |-> <<i>>] : i \in OneItem}
  \union {[kind |-> "text", items |-> p] : p \in Pairs2}
  \union {[kind |-> "text", items |-> <<>>]}
==============================================================================
