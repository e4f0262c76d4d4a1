------------------------------ MODULE TextScore ------------------------------
(***************************************************************************)
(* Scores of transcribed chunks against their references: word error on    *)
(* the text, ORC-WER on streams of speakers without labels (p1r_asr), and  *)
(* cpWER on streams with labels (p1r_integrated); then their sums for each *)
(* model and slice.  A raw token is the words it normalizes to, none for   *)
(* punctuation, and the form they were written in; character errors are    *)
(* the same alignment on other symbols and are left out.                   *)
(***************************************************************************)
EXTENDS Alignment

IsText == input.kind = "text"

TextWork == [phase |-> "given", reports |-> <<>>, models |-> {}]

-----------------------------------------------------------------------------
(* Tokens and masks.                                                       *)

MaskIsValid(tokens, mask) == mask \subseteq DOMAIN tokens

Unmasked(tokens, mask) ==
  LET keep[n \in 0..Len(tokens)] ==
        IF n = 0 THEN <<>>
        ELSE keep[n - 1] \o (IF n \in mask THEN <<>> ELSE <<tokens[n]>>)
  IN keep[Len(tokens)]

Words(tokens, mask) ==
  LET kept == Unmasked(tokens, mask)
  IN FlattenSeq([i \in DOMAIN kept |-> kept[i].words])

StreamWords(streams) == [i \in DOMAIN streams |-> Words(streams[i].tokens, streams[i].mask)]

StreamsAreValid(streams) ==
  \A i \in DOMAIN streams : MaskIsValid(streams[i].tokens, streams[i].mask)

HasMask(streams) == \E i \in DOMAIN streams : streams[i].mask # {}

Metric(status, errors, denominator) ==
  [status |-> status, errors |-> errors, denominator |-> denominator]

Unscorable == Metric("unscorable", 0, 0)
Insufficient == Metric("insufficient", 0, 0)
NotApplicable == Metric("not_applicable", 0, 0)

(* Without a reference word there is no rate.                              *)
Scored(errors, denominator) ==
  IF denominator = 0 THEN Metric("not_applicable", errors, 0)
  ELSE Metric("scored", errors, denominator)

(* _text_metrics: the raw and the normalized rate.                         *)
TextMetric(item, form) ==
  IF (item.referenceMask = {}) # (item.hypothesisMask = {})
     \/ ~MaskIsValid(item.reference, item.referenceMask)
     \/ ~MaskIsValid(item.hypothesis, item.hypothesisMask)
    THEN Unscorable
  ELSE LET Read(tokens, mask) == IF form = "raw" THEN Unmasked(tokens, mask) ELSE Words(tokens, mask)
           a == Read(item.reference, item.referenceMask)
           b == Read(item.hypothesis, item.hypothesisMask)
       IN Scored(ErrorsIn(Backtrace(a, b)), Len(a))

-----------------------------------------------------------------------------
(* _orc_metric: the hypothesis is one stream, the words of the reference   *)
(* streams are interleaved as suits it best.                               *)

LexLeast(S) == CHOOSE x \in S : \A y \in S : LexLeq(x, y)

(* Errors, substitutions, deletions and insertions; among the candidates   *)
(* at each position the least tuple is kept.                               *)
OrcBest(streams, words) ==
  LET start == [i \in DOMAIN streams |-> 0]
      longest == Max({Len(streams[i]) : i \in DOMAIN streams})
      reach == {p \in [DOMAIN streams -> 0..longest] : \A i \in DOMAIN p : p[i] <= Len(streams[i])}
      best[p \in reach, h \in 0..Len(words)] ==
        LET left == {i \in DOMAIN p : p[i] < Len(streams[i])}
            step(i) == [p EXCEPT ![i] = @ + 1]
            miss(i) == IF streams[i][p[i] + 1] = words[h + 1] THEN 0 ELSE 1
            plus(r, s, d, n) == <<r[1] + s + d + n, r[2] + s, r[3] + d, r[4] + n>>
            insert == IF h < Len(words) THEN {plus(best[p, h + 1], 0, 0, 1)} ELSE {}
            delete == {plus(best[step(i), h], 0, 1, 0) : i \in left}
            pair == IF h = Len(words) THEN {}
                    ELSE {plus(best[step(i), h + 1], miss(i), 0, 0) : i \in left}
        IN IF left = {} /\ h = Len(words) THEN <<0, 0, 0, 0>>
           ELSE LexLeast(insert \union delete \union pair)
  IN best[start, 0]

OrcMetric(item) ==
  LET streams == StreamWords(item.referenceStreams)
      words == IF item.hypothesisStreams # <<>> THEN FlattenSeq(StreamWords(item.hypothesisStreams))
               ELSE Words(item.hypothesis, item.hypothesisMask)
      count == Len(FlattenSeq(streams))
  IN CASE item.referenceStreams = <<>> -> NotApplicable
       [] item.referenceStreams # <<>>
          /\ \/ (item.referenceMask = {}) # (item.hypothesisMask = {})
             \/ HasMask(item.referenceStreams) # HasMask(item.hypothesisStreams)
             \/ ~StreamsAreValid(item.referenceStreams)
             \/ ~StreamsAreValid(item.hypothesisStreams)
             \/ item.hypothesisStreams = <<>> /\ ~MaskIsValid(item.hypothesis, item.hypothesisMask)
          -> Unscorable
       [] OTHER -> IF count = 0 THEN NotApplicable ELSE Scored(OrcBest(streams, words)[1], count)

-----------------------------------------------------------------------------
(* _assignment: hypothesis streams to reference streams, both padded with  *)
(* empty ones to the same number.                                          *)

Padded(streams, size) ==
  [i \in 1..size |-> IF i <= Len(streams) THEN streams[i] ELSE <<>>]

(* Mutant: streams are paired in the order they are given in.             *)
CpAssignmentInOrder(references, hypotheses) ==
  LET size == Later(Len(references), Len(hypotheses))
  IN [cost |-> MapThenSumSet(LAMBDA i : ErrorsIn(Backtrace(Padded(references, size)[i],
                                                           Padded(hypotheses, size)[i])), 1..size),
      columns |-> [i \in 1..size |-> i]]

(* The least total of the errors, and then of the labels: an absent        *)
(* reference sorts after all names.  The rows are filled in order.         *)
CpAssignment(references, hypotheses) ==
  LET size == Later(Len(references), Len(hypotheses))
      left == Padded(references, size)
      right == Padded(hypotheses, size)
      errors == [h \in 1..size |-> [r \in 1..size |-> ErrorsIn(Backtrace(left[r], right[h]))]]
      label(r) == Earlier(r, Len(references) + 1)
      Key(c) == <<c.cost>> \o [i \in DOMAIN c.columns |-> label(c.columns[i])] \o c.columns
      best[used \in SUBSET (1..size)] ==
        IF used = 1..size THEN [cost |-> 0, columns |-> <<>>]
        ELSE LET row == Cardinality(used) + 1
                 candidates ==
                   {[cost |-> errors[row][r] + best[used \union {r}].cost,
                     columns |-> <<r>> \o best[used \union {r}].columns] : r \in (1..size) \ used}
             IN LeastBy(candidates, Key)
  IN best[{}]

CpMetric(item) ==
  LET references == StreamWords(item.referenceStreams)
      hypotheses == StreamWords(item.hypothesisStreams)
  IN CASE item.review # "human_truth" -> Insufficient
       [] item.review = "human_truth" /\ item.referenceStreams = <<>> -> Unscorable
       [] OTHER -> Scored(CpAssignment(references, hypotheses).cost, Len(FlattenSeq(references)))

-----------------------------------------------------------------------------
(* score_chunks and score_integrated_chunks                                *)

Streams(item) == item.referenceStreams \o item.hypothesisStreams

(* What the records and the two entry points refuse.                       *)
BatchIsValid ==
  /\ input.items # <<>>
  /\ \A i, j \in DOMAIN input.items :
       i # j => <<input.items[i].chunk, input.items[i].model>>
                  # <<input.items[j].chunk, input.items[j].model>>
  /\ \A i \in DOMAIN input.items :
       LET item == input.items[i]
       IN /\ item.belongs
          /\ (item.referenceMask = {}) <=> (item.hypothesisMask = {})

AcceptBatch ==
  /\ IsText /\ work.phase = "given"
  /\ work' = [work EXCEPT !.phase = IF BatchIsValid THEN "scoring" ELSE "rejected"]
  /\ UNCHANGED input

(* _chunk_report and _cpwer_for_input; a mask past the end of a stream     *)
(* stops the integrated score as a whole.                                  *)
ScoreItem ==
  /\ IsText /\ work.phase = "scoring" /\ Len(work.reports) < Len(input.items)
  /\ LET item == input.items[Len(work.reports) + 1]
         truth == item.review = "human_truth"
         report == [model |-> item.model, slices |-> item.slices \union {"all"},
                    raw |-> IF truth THEN TextMetric(item, "raw") ELSE Insufficient,
                    normalized |-> IF truth THEN TextMetric(item, "normalized") ELSE Insufficient,
                    orc |-> IF truth THEN OrcMetric(item) ELSE Insufficient,
                    cp |-> CpMetric(item)]
     IN work' = IF truth /\ item.referenceStreams # <<>> /\ ~StreamsAreValid(Streams(item))
                  THEN [work EXCEPT !.phase = "failed"]
                  ELSE [work EXCEPT !.reports = Append(@, report)]
  /\ UNCHANGED input

SumOver(reports, metric, field) ==
  MapThenSumSet(LAMBDA i : work.reports[i][metric][field], reports)

WithStatus(reports, metric, status) == {i \in reports : work.reports[i][metric].status = status}

(* _aggregate_metric: chunks without evidence do not make it partial.      *)
AsrAggregate(reports, metric) ==
  LET scored == WithStatus(reports, metric, "scored")
      invalid == WithStatus(reports, metric, "unscorable")
      lacking == WithStatus(reports, metric, "insufficient")
      status == IF scored # {} THEN (IF invalid # {} THEN "partial" ELSE "scored")
                ELSE IF invalid # {} THEN "unscorable"
                ELSE IF lacking # {} THEN "insufficient" ELSE "not_applicable"
  IN Metric(status, SumOver(scored, metric, "errors"), SumOver(scored, metric, "denominator"))

(* _aggregate_cpwer: anything that was not scored does.                    *)
CpAggregate(reports) ==
  LET scored == WithStatus(reports, "cp", "scored")
      status == IF scored # {} THEN (IF scored # reports THEN "partial" ELSE "scored")
                ELSE IF WithStatus(reports, "cp", "insufficient") # {} THEN "insufficient"
                ELSE "unscorable"
  IN Metric(status, SumOver(scored, "cp", "errors"), SumOver(scored, "cp", "denominator"))

AggregateModels ==
  /\ IsText /\ work.phase = "scoring" /\ Len(work.reports) = Len(input.items)
  /\ LET of(model, slice) == {i \in DOMAIN work.reports :
                                work.reports[i].model = model /\ slice \in work.reports[i].slices}
         keys == {<<work.reports[i].model, s>> : i \in DOMAIN work.reports,
                                                 s \in UNION {work.reports[k].slices : k \in DOMAIN work.reports}}
     IN work' = [work EXCEPT !.phase = "done",
                   !.models = {[model |-> k[1], slice |-> k[2],
                                raw |-> AsrAggregate(of(k[1], k[2]), "raw"),
                                normalized |-> AsrAggregate(of(k[1], k[2]), "normalized"),
                                orc |-> AsrAggregate(of(k[1], k[2]), "orc"),
                                cp |-> CpAggregate(of(k[1], k[2]))] :
                                 k \in {q \in keys : of(q[1], q[2]) # {}}}]
  /\ UNCHANGED input

TextNext == AcceptBatch \/ ScoreItem \/ AggregateModels

-----------------------------------------------------------------------------
(* Properties *)

(* All orders in which the words of the streams can follow each other.     *)
Interleavings(streams) ==
  LET all == {<<i, k>> : i \in DOMAIN streams, k \in 1..Len(FlattenSeq(streams))}
      places == {p \in all : p[2] <= Len(streams[p[1]])}
      orders == {o \in [1..Cardinality(places) -> places] :
                   \A a, b \in DOMAIN o : a < b =>
                     o[a] # o[b] /\ (o[a][1] = o[b][1] => o[a][2] < o[b][2])}
  IN {[n \in DOMAIN o |-> streams[o[n][1]][o[n][2]]] : o \in orders}

(* The overlap-aware scores neither punish nor reward what a model cannot  *)
(* know: ORC-WER is the least error over all interleavings of the reference*)
(* streams, cpWER the least over all pairings of streams, so that names    *)
(* and order of the hypothesis streams do not matter to it; and giving     *)
(* labels never lowers the error (p1r_asr.py:416, p1r_integrated.py:376).  *)
OverlapScoresAreLeast ==
  IsText =>
    \A i \in DOMAIN work.reports :
      LET item == input.items[i]
          references == StreamWords(item.referenceStreams)
          hypotheses == StreamWords(item.hypothesisStreams)
          words == FlattenSeq(hypotheses)
          size == Later(Len(references), Len(hypotheses))
          pairings == {p \in [1..size -> 1..size] : \A a, b \in 1..size : a # b => p[a] # p[b]}
          cost(p) == MapThenSumSet(LAMBDA h : EditDistance(Padded(references, size)[p[h]],
                                                           Padded(hypotheses, size)[h]), 1..size)
          orc == work.reports[i].orc
          cp == work.reports[i].cp
      IN /\ orc.status = "scored" /\ hypotheses # <<>> =>
              orc.errors = Min({EditDistance(o, words) : o \in Interleavings(references)})
         /\ cp.status = "scored" => cp.errors = Min({cost(p) : p \in pairings})
         /\ orc.status = "scored" /\ cp.status = "scored" /\ hypotheses # <<>> =>
              orc.errors <= cp.errors

(* No score of a text depends on how it is computed: the word alignment,   *)
(* the interleaving and the pairing of streams behind it are each the best *)
(* there is (evaluation_metrics.py:371, p1r_asr.py:416,                    *)
(* p1r_integrated.py:376).                                                 *)
TextScoresAreExact == AlignmentIsExact /\ OverlapScoresAreLeast
=============================================================================
