--------------------------- MODULE DiarizationScore ---------------------------
(***************************************************************************)
(* Diarization error of a hypothesis against a reference (p1r_diarization, *)
(* and the same algorithm in evaluation_metrics): the scored audio, the    *)
(* one-to-one speaker map, found by solving an assignment problem for each *)
(* option of each hypothesis speaker (the Hungarian algorithm, one action  *)
(* for each pass of its loops), and the metrics under that map.            *)
(***************************************************************************)
EXTENDS Computation, Timeline, FiniteSetsExt, SequencesExt

IsDiarization == input.kind = "diarization"

None == 0   \* no speaker; speakers are positive numbers in the order of their names

NoSearch ==
  [rows |-> <<>>, columns |-> <<>>, row |-> 0, column |-> 0, assigned |-> <<>>,
   previous |-> <<>>, minimum |-> <<>>, visited |-> {}, rowPotential |-> <<>>,
   columnPotential |-> <<>>]

DiarizationWork ==
  [phase |-> "given", slice |-> 0, selected |-> <<>>, remaining |-> 0, options |-> <<>>,
   scores |-> <<>>, hypotheses |-> <<>>, references |-> <<>>,
   search |-> NoSearch, score |-> 0, results |-> <<>>]

-----------------------------------------------------------------------------
(* What is scored: the ticks of a slice away from reference boundaries,    *)
(* and who speaks on each side there.                                      *)

Ranges == IF work.slice = 1 THEN {[start |-> 0, end |-> input.duration]}
          ELSE input.slices[work.slice - 1]

(* _collared_ranges                                                        *)
ScoredTicks(ranges, collar) ==
  {t \in Covered(ranges) :
     \A turn \in input.reference : \A boundary \in {turn.start, turn.end} :
       ~(boundary - collar <= t /\ t < boundary + collar)}

InSlice == ScoredTicks(Ranges, input.collar)

ReferenceAt(tick) == ActiveAt(input.reference, tick)
HypothesisAt(tick) == ActiveAt(input.hypothesis, tick)

(* _duration_events: the scored time with both speakers active.            *)
Shared(hypothesis, reference) ==
  Cardinality({t \in InSlice : hypothesis \in HypothesisAt(t) /\ reference \in ReferenceAt(t)})

ScoredSpeakers(turns) == UNION {ActiveAt(turns, t) : t \in InSlice}

-----------------------------------------------------------------------------
(* maximum_score: rows are hypothesis speakers, columns reference speakers *)
(* and one column of zeros for each row.                                   *)

Infinite == 100 * (input.duration + 1)   \* math.inf: above every reduced cost

ColumnCount(search) == Len(search.columns) + Len(search.rows)

Weight(search, row, column) ==
  IF column > Len(search.columns) THEN 0
  ELSE work.scores[search.rows[row], search.columns[column]]

StartRow(search, row) ==
  [search EXCEPT !.row = row, !.column = 0, !.visited = {},
     !.assigned = [@ EXCEPT ![0] = row],
     !.minimum = [c \in 0..ColumnCount(search) |-> Infinite],
     !.previous = [c \in 0..ColumnCount(search) |-> 0]]

Search(rows, columns) ==
  LET all == 0..(Len(rows) + Len(columns))
      none == [c \in all |-> 0]
  IN StartRow([NoSearch EXCEPT !.rows = rows, !.columns = columns, !.assigned = none,
                 !.columnPotential = none, !.rowPotential = [r \in 0..Len(rows) |-> 0]], 1)

IsTrivial(rows, columns) == rows = <<>> \/ columns = <<>>

(* One pass of the inner loop: visit the column, relax the others, take    *)
(* the first of the least, and shift the potentials.                       *)
Visit(search) ==
  LET row     == search.assigned[search.column]
      visited == search.visited \union {search.column}
      open    == (1..ColumnCount(search)) \ visited
      cost(c) == -Weight(search, row, c) - search.rowPotential[row] - search.columnPotential[c]
      relaxed == {c \in open : cost(c) < search.minimum[c]}
      minimum == [c \in DOMAIN search.minimum |->
                    IF c \in relaxed THEN cost(c) ELSE search.minimum[c]]
      next    == CHOOSE c \in open : \A d \in open :
                   minimum[c] < minimum[d] \/ (minimum[c] = minimum[d] /\ c <= d)
      delta   == minimum[next]
      rows    == {search.assigned[c] : c \in visited}
  IN [search EXCEPT !.column = next, !.visited = visited,
        !.previous = [c \in DOMAIN @ |-> IF c \in relaxed THEN search.column ELSE @[c]],
        !.minimum = [c \in DOMAIN @ |->
                       IF c \in visited THEN minimum[c] ELSE minimum[c] - delta],
        !.rowPotential = [r \in DOMAIN @ |-> IF r \in rows THEN @[r] + delta ELSE @[r]],
        !.columnPotential = [c \in DOMAIN @ |->
                               IF c \in visited THEN @[c] - delta ELSE @[c]]]

(* Mutant: the free column is given to the new row, the path is kept.      *)
AugmentLast(search) ==
  [search EXCEPT !.assigned = [@ EXCEPT ![search.column] = search.row]]

(* The free column takes the row of the one it was reached from, and so on *)
(* back to column 0.                                                       *)
Augment(search) ==
  LET path[n \in 0..ColumnCount(search)] ==
        IF n = 0 THEN search.column ELSE search.previous[path[n - 1]]
      onPath == {path[n] : n \in {k \in DOMAIN path : \A i \in 0..(k - 1) : path[i] # 0}}
  IN [search EXCEPT !.assigned =
        [c \in DOMAIN @ |-> IF c \in onPath \ {0} THEN @[search.previous[c]] ELSE @[c]]]

Total(search) ==
  MapThenSumSet(LAMBDA c : IF search.assigned[c] = 0 THEN 0
                           ELSE Weight(search, search.assigned[c], c),
                1..Len(search.columns))

IsSearching == IsDiarization /\ work.search.row > 0

Begin(w, rows, columns) ==
  [w EXCEPT !.score = 0, !.search = IF IsTrivial(rows, columns) THEN NoSearch
                                    ELSE Search(rows, columns)]

VisitColumn ==
  /\ IsSearching /\ work.search.assigned[work.search.column] # 0
  /\ work' = [work EXCEPT !.search = Visit(@)]
  /\ UNCHANGED input

AugmentPath ==
  /\ IsSearching /\ work.search.assigned[work.search.column] = 0
  /\ LET done == Augment(work.search)
     IN work' = IF done.row < Len(done.rows)
                  THEN [work EXCEPT !.search = StartRow(done, done.row + 1)]
                  ELSE [work EXCEPT !.search = NoSearch, !.score = Total(done)]
  /\ UNCHANGED input

-----------------------------------------------------------------------------
(* _speaker_mapping: the first option of each hypothesis speaker, in order,*)
(* with which the greatest score is still reached.                         *)

Unused(selected) == SelectSeq(work.references, LAMBDA r : r \notin Range(selected))

(* Mutant: unmapped is the last resort.             *)
OptionsMappedFirst(selected) == Reverse(Unused(selected)) \o <<None>>

(* Unmapped first, then the names from above: the code sorts unmapped as   *)
(* "~", which is above every name of letters and digits.                   *)
OptionsAfter(selected) == <<None>> \o Reverse(Unused(selected))

TryOption(w) ==
  Begin(w, SubSeq(w.hypotheses, Len(w.selected) + 2, Len(w.hypotheses)),
        SelectSeq(w.references, LAMBDA r : r \notin Range(w.selected) \union {Head(w.options)}))

CanScore == input.known = {"reference", "hypothesis"}

(* The next slice; without turns on both sides nothing is reconstructed.   *)
OpenSlice ==
  /\ IsDiarization /\ work.phase = "given" /\ work.slice < Len(input.slices) + 1
  /\ work' = IF input.identity = "differs" THEN [work EXCEPT !.phase = "rejected"]
              ELSE [work EXCEPT !.slice = @ + 1, !.phase = "opened"]
  /\ UNCHANGED input

CollectScores ==
  /\ IsDiarization /\ work.phase = "opened" /\ CanScore
  /\ LET hypotheses == SetToSortSeq(ScoredSpeakers(input.hypothesis), <)
         references == SetToSortSeq(ScoredSpeakers(input.reference), <)
         opened == [work EXCEPT !.selected = <<>>, !.hypotheses = hypotheses,
                      !.references = references,
                      !.scores = [p \in Range(hypotheses) \X Range(references) |->
                                    Shared(p[1], p[2])]]
     IN work' = IF IsTrivial(hypotheses, references)
                  THEN [opened EXCEPT !.phase = "mapped"]
                  ELSE Begin([opened EXCEPT !.phase = "total"], hypotheses, references)
  /\ UNCHANGED input

TakeTotal ==
  /\ IsDiarization /\ work.phase = "total" /\ ~IsSearching
  /\ work' = TryOption([work EXCEPT !.phase = "option", !.remaining = work.score,
                          !.options = OptionsAfter(<<>>)])
  /\ UNCHANGED input

Reaches(gain) == gain + work.score = work.remaining

DecideOption ==
  /\ IsDiarization /\ work.phase = "option" /\ ~IsSearching
  /\ LET option == Head(work.options)
         gain == IF option = None THEN 0
                 ELSE work.scores[work.hypotheses[Len(work.selected) + 1], option]
         selected == Append(work.selected, option)
     IN work' =
          IF ~Reaches(gain)
            THEN IF Len(work.options) = 1 THEN [work EXCEPT !.phase = "failed"]
                 ELSE TryOption([work EXCEPT !.options = Tail(@)])
          ELSE IF Len(selected) = Len(work.hypotheses)
            THEN [work EXCEPT !.selected = selected, !.phase = "mapped"]
          ELSE TryOption([work EXCEPT !.selected = selected, !.remaining = work.score,
                            !.options = OptionsAfter(selected)])
  /\ UNCHANGED input

-----------------------------------------------------------------------------
(* The metrics of a slice under the map.                                   *)

(* The hypothesis speakers that are mapped, to their reference speakers.   *)
Mapping ==
  [h \in {work.hypotheses[i] : i \in {k \in DOMAIN work.selected : work.selected[k] # None}} |->
     work.selected[CHOOSE i \in DOMAIN work.selected : work.hypotheses[i] = h]]

Correct(mapping, t) ==
  Cardinality({h \in HypothesisAt(t) : h \in DOMAIN mapping /\ mapping[h] \in ReferenceAt(t)})

(* _der                                                                    *)
ErrorTicks(mapping) ==
  LET references(t) == Cardinality(ReferenceAt(t))
      hypotheses(t) == Cardinality(HypothesisAt(t))
      Sum(op(_)) == MapThenSumSet(op, InSlice)
  IN [missed |-> Sum(LAMBDA t : Later(0, references(t) - hypotheses(t))),
      falseAlarm |-> Sum(LAMBDA t : Later(0, hypotheses(t) - references(t))),
      confusion |-> Sum(LAMBDA t : Later(0, Earlier(references(t), hypotheses(t))
                                              - Correct(mapping, t))),
      reference |-> Sum(references)]

(* _jer, over the whole slice: the shared and the joint time of each       *)
(* reference speaker with the hypothesis speaker mapped to it.             *)
JaccardErrors(mapping) ==
  LET ticks == Covered(Ranges)
      claims(r, t) == \E h \in DOMAIN mapping : mapping[h] = r /\ h \in HypothesisAt(t)
  IN {[speaker |-> r,
       shared |-> Cardinality({t \in ticks : r \in ReferenceAt(t) /\ claims(r, t)}),
       joint |-> Cardinality({t \in ticks : r \in ReferenceAt(t) \/ claims(r, t)})] :
        r \in UNION {ReferenceAt(t) : t \in ticks}}

(* _count_error                                                            *)
CountError ==
  LET present(turns) == {t.speaker : t \in {u \in turns : \E r \in Ranges : Intersect(u, r)}}
  IN IF present(input.reference) = {} THEN "insufficient"
     ELSE Cardinality(present(input.hypothesis)) - Cardinality(present(input.reference))

(* _overlap_metrics, on the overlaps that were given, never derived.       *)
OverlapTicks ==
  LET within(overlaps) == Covered(overlaps) \intersect Covered(Ranges)
  IN IF ~input.overlapTruth THEN <<>>
     ELSE [reference |-> within(input.referenceOverlaps),
           hypothesis |-> within(input.hypothesisOverlaps)]

ScoreSlice ==
  /\ IsDiarization /\ work.phase = "mapped"
  /\ work' = [work EXCEPT !.phase = "given",
               !.results = Append(@,
                 [status |-> IF ErrorTicks(Mapping).reference > 0 THEN "scored" ELSE "insufficient",
                  errors |-> ErrorTicks(Mapping), mapping |-> Mapping, ticks |-> InSlice,
                  scores |-> work.scores, jaccard |-> JaccardErrors(Mapping),
                  count |-> CountError, overlap |-> OverlapTicks])]
  /\ UNCHANGED input

LeaveUnscored ==
  /\ IsDiarization /\ work.phase = "opened" /\ ~CanScore
  /\ work' = [work EXCEPT !.phase = "given", !.results = Append(@, [status |-> "unscorable"])]
  /\ UNCHANGED input

DiarizationNext ==
  \/ OpenSlice
  \/ CollectScores
  \/ VisitColumn
  \/ AugmentPath
  \/ TakeTotal
  \/ DecideOption
  \/ ScoreSlice
  \/ LeaveUnscored

-----------------------------------------------------------------------------
(* Properties *)

Injections(from, to) ==
  {m \in UNION {[S -> to] : S \in SUBSET from} :
     \A a, b \in DOMAIN m : a # b => m[a] # m[b]}

(* The map of a slice gives the least diarization error that any           *)
(* one-to-one map gives, so that the score of a hypothesis never depends   *)
(* on the names of its speakers, whatever the collar and the slice; and    *)
(* the reconstruction of the map from the scores never fails               *)
(* (evaluation_metrics.py:736, p1r_diarization.py:402).                    *)
ErrorRateIsLeast ==
  IsDiarization =>
    /\ work.phase # "failed"
    /\ \A i \in DOMAIN work.results :
         work.results[i].status # "unscorable" =>
           LET r == work.results[i]
               heard == UNION {HypothesisAt(t) : t \in r.ticks}
               spoken == UNION {ReferenceAt(t) : t \in r.ticks}
               right(m) == MapThenSumSet(LAMBDA h : Cardinality(
                             {t \in r.ticks : h \in HypothesisAt(t) /\ m[h] \in ReferenceAt(t)}),
                             DOMAIN m)
               most == MapThenSumSet(LAMBDA t :
                         Later(Cardinality(HypothesisAt(t)), Cardinality(ReferenceAt(t))), r.ticks)
               least == most - Max({right(m) : m \in Injections(heard, spoken)})
           IN r.errors.missed + r.errors.falseAlarm + r.errors.confusion = least

(* Between maps of the same score the choice is fixed: no speaker is       *)
(* mapped with whom no time is shared, and a hypothesis speaker is left    *)
(* unmapped, or given the greatest name, whenever the later ones can still *)
(* reach the best score (evaluation_metrics.py:724).                       *)
MapIsCanonical ==
  IsDiarization =>
    \A i \in DOMAIN work.results :
      work.results[i].status # "unscorable" =>
        LET r == work.results[i]
            heard == UNION {HypothesisAt(t) : t \in r.ticks}
            spoken == UNION {ReferenceAt(t) : t \in r.ticks}
            worth(m) == MapThenSumSet(LAMBDA h : r.scores[h, m[h]], DOMAIN m)
            rank(m, h) == IF h \in DOMAIN m THEN m[h] ELSE Max(spoken) + 1
        IN /\ \A h \in DOMAIN r.mapping : r.scores[h, r.mapping[h]] > 0
           /\ \A m \in Injections(heard, spoken) :
                worth(m) = worth(r.mapping) =>
                  \A h \in heard :
                    rank(m, h) > rank(r.mapping, h) =>
                      \E g \in heard : g < h /\ rank(r.mapping, g) > rank(m, g)

(* The speaker map is the best one, and of the best the canonical one      *)
(* (evaluation_metrics.py:724, p1r_diarization.py:402).                    *)
SpeakerMapIsBest == ErrorRateIsLeast /\ MapIsCanonical
=============================================================================
