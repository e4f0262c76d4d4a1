----------------------------- MODULE Evaluation -----------------------------
(***************************************************************************)
(* Scoring a hypothesis against a reference annotation                     *)
(* (evaluation_metrics): what is accepted, the slices, the metrics of each *)
(* slice and the quality verdict, and validate_reference (evaluation.py),  *)
(* the gate a reference passes before.  A word has the form it is written  *)
(* in and the tokens it normalizes to, none for punctuation; the counts of *)
(* a rate stand for it; character rates and quantiles are left out.        *)
(***************************************************************************)
EXTENDS Alignment, Timeline

CONSTANT TimedWordsRequired   \* manually timed words a verdict asks for; 200

ASSUME TimedWordsAssumption == TimedWordsRequired \in Nat \ {0}

Nothing == 0   \* no speaker

IsEvaluation == input.kind = "evaluation"

NoErrors == [missing |-> {}, wrong |-> {}]

EvaluationWork ==
  [phase |-> "given", errors |-> NoErrors, slices |-> <<>>, report |-> <<>>, verdict |-> "none"]

-----------------------------------------------------------------------------
(* Documents.                                                              *)

(* E1's five contiguous blocks.                                            *)
Boundary(duration, k) == (k * duration) \div 5

Block(duration, k) == [start |-> Boundary(duration, k - 1), end |-> Boundary(duration, k)]

IsInterval(i, duration) == 0 <= i.start /\ i.start < i.end /\ i.end <= duration

WordIds(doc) == {doc.words[i].id : i \in DOMAIN doc.words}

(* What a payload may lack and validate_reference asks for by name.        *)
RequiredFields ==
  {"schema_version", "episode_id", "source_sha256", "duration_ms", "status", "actor_type",
   "reviewer", "reviewed_at", "words", "split", "split_sha256", "provenance"}

(* The models of a provenance, or its model fingerprint: none, something   *)
(* that is named, or the hash of a fingerprint.                            *)
NoProvenance == [configuration |-> FALSE, inputs |-> FALSE, models |-> "none"]

(* A payload with the defaults of what it lacks; who acted and who         *)
(* reviewed is taken for something else by each of the two readers.        *)
Filled(doc, actor, reviewer) ==
  LET Given(field, value, default) == IF field \in doc.absent THEN default ELSE value
  IN [doc EXCEPT !.status = Given("status", @, "draft"),
                 !.actor = Given("actor_type", @, actor),
                 !.reviewer = Given("reviewer", @, reviewer),
                 !.reviewedAt = Given("reviewed_at", @, FALSE),
                 !.split = Given("split", @, "exact"),
                 !.provenance = Given("provenance", @, NoProvenance)]

(* validate_reference leaves the defaults to the annotation ...            *)
AsReference(doc) == Filled(doc, "human", "none")

(* ... and parse_evaluation_document takes the payload for a machine's.    *)
AsScored(doc) == Filled(doc, "machine", "machine")

(* What validate_annotation_payload makes of a payload.                    *)
Canonical(doc) ==
  LET status == IF doc.status = "accepted" THEN "reviewed" ELSE doc.status
  IN [doc EXCEPT !.status = status,
        !.reviewer = IF doc.actor = "machine" THEN "machine" ELSE @,
        !.reviewedAt = @ /\ status = "reviewed"]

(* What it requires: machine output is never reviewed, a reviewed          *)
(* reference covers every word, and a split is the one of the duration.    *)
IsAnnotation(doc) ==
  LET d == Canonical(doc)
  IN /\ d.absent \intersect {"episode_id", "source_sha256", "duration_ms", "words"} = {}
     /\ d.duration > 0
     /\ d.actor = "human" => d.reviewer # "none"
     /\ d.status = "reviewed" => d.actor = "human" /\ d.reviewed = WordIds(d)
     /\ \A i \in DOMAIN d.words : IsInterval(d.words[i], d.duration)
     /\ Cardinality(WordIds(d)) = Len(d.words)
     /\ \A t \in d.turns \union d.spans : IsInterval(t, d.duration)
     /\ \A o \in d.overlaps : IsInterval(o, d.duration) /\ Cardinality(o.speakers) >= 2
     /\ d.reviewed \union d.timed \subseteq WordIds(d)
     /\ d.split # "other"

(* parse_evaluation_document                                               *)
IsDocument(doc) ==
  /\ doc.origin = 0
  /\ IsAnnotation(AsScored(doc))
  /\ \A i, j \in DOMAIN doc.words : i < j => doc.words[i].start <= doc.words[j].start
  /\ \A i, j \in DOMAIN doc.slices : i # j => doc.slices[i].name # doc.slices[j].name
  /\ \A i \in DOMAIN doc.slices : IsInterval(doc.slices[i], doc.duration)

AcceptDocuments ==
  /\ IsEvaluation /\ work.phase = "checked"
  /\ LET r == input.reference
         h == input.hypothesis
     IN work' = [work EXCEPT !.phase =
                   IF IsDocument(r) /\ IsDocument(h) /\ r.source = h.source /\ r.duration = h.duration
                     THEN "accepted" ELSE "rejected"]
  /\ UNCHANGED input

-----------------------------------------------------------------------------
(* validate_reference: everything that keeps a reference from being used.  *)

ReferenceErrors(raw, golden) ==
  LET doc == Canonical(AsReference(raw))
      timed == {i \in DOMAIN doc.words : doc.words[i].id \in doc.timed}
      inBlock(i, k) == LET b == Block(golden.duration, k)
                       IN b.start <= Midpoint(doc.words[i]) /\ Midpoint(doc.words[i]) < b.end
      Report(wrong, error) == IF wrong THEN {error} ELSE {}
  IN IF ~IsAnnotation(AsReference(raw)) THEN [NoErrors EXCEPT !.wrong = {"invalid"}]
     ELSE [missing |-> raw.absent,
           wrong |->
             Report(doc.episode # golden.episode, "episode")
             \union Report(doc.source # golden.source, "source")
             \union Report(doc.duration # golden.duration, "duration")
             \union Report(doc.status # "reviewed" \/ doc.actor # "human", "review")
             \union Report(doc.reviewer = "machine", "reviewer")
             \union Report(~doc.reviewedAt, "reviewedAt")
             \union Report(doc.source # golden.source \/ doc.duration # golden.duration, "split")
             \union Report(doc.reviewed # WordIds(doc), "coverage")
             \union Report(Cardinality(doc.timed) < TimedWordsRequired, "timed")
             \union Report(~doc.provenance.configuration, "configuration")
             \union Report(doc.provenance.models = "none" /\ ~doc.provenance.inputs, "provenance")
             \union Report(\E k \in 1..5 : \A i \in timed : ~inBlock(i, k), "blocks")]

CheckReference ==
  /\ IsEvaluation /\ work.phase = "given"
  /\ work' = [work EXCEPT !.phase = "checked",
                !.errors = ReferenceErrors(input.reference, input.golden)]
  /\ UNCHANGED input

-----------------------------------------------------------------------------
(* _slice_catalog                                                          *)

Slice(name, ranges) == [name |-> name, ranges |-> ranges]

BlockNames == <<"block-0", "block-1", "block-2", "block-3", "block-4">>

BlockSlices(duration) ==
  LET blocks == [k \in 1..5 |-> Block(duration, k)]
  IN [k \in 1..5 |-> Slice(BlockNames[k], {blocks[k]})]
     \o <<Slice("development", {blocks[k] : k \in 1..4}), Slice("held_out", {blocks[5]})>>

CustomSlices(doc) ==
  [i \in DOMAIN doc.slices |->
     Slice(doc.slices[i].name, {[start |-> doc.slices[i].start, end |-> doc.slices[i].end]})]

RegionSlice(name, regions) == IF regions = {} THEN <<>> ELSE <<Slice(name, regions)>>

(* Mutant: a later slice replaces an earlier one of its name.              *)
LastOfEachName(slices) ==
  Part(slices, {i \in DOMAIN slices :
                  \A j \in DOMAIN slices : j > i => slices[j].name # slices[i].name})

FirstOfEachName(slices) ==
  Part(slices, {i \in DOMAIN slices : \A j \in 1..(i - 1) : slices[j].name # slices[i].name})

CatalogSlices ==
  /\ IsEvaluation /\ work.phase = "accepted"
  /\ LET r == input.reference
         all == <<Slice("all", {[start |-> 0, end |-> r.duration]})>>
     IN work' = [work EXCEPT !.phase = "scoring",
                   !.slices = FirstOfEachName(all \o BlockSlices(r.duration) \o CustomSlices(r)
                                \o RegionSlice("overlap", r.overlaps)
                                \o RegionSlice("unintelligible", r.spans))]
  /\ UNCHANGED input

-----------------------------------------------------------------------------
(* The metrics of a slice.                                                 *)

Ratio(numerator, denominator) == [numerator |-> numerator, denominator |-> denominator]

(* The spans of both documents mask a word, its flag only the word itself. *)
IsMasked(word) ==
  word.unintelligible
  \/ \E s \in input.reference.spans \union input.hypothesis.spans : Intersect(s, word)

InRanges(word, ranges) ==
  \E r \in ranges : r.start <= Midpoint(word) /\ Midpoint(word) < r.end

ScoredWords(words, ranges) ==
  Part(words, {i \in DOMAIN words : InRanges(words[i], ranges) /\ ~IsMasked(words[i])})

(* The normalized text of each word, and the tokens of all of them.        *)
Texts(words) == [i \in DOMAIN words |-> words[i].tokens]

Tokens(words) == FlattenSeq(Texts(words))

ErrorRatio(reference, hypothesis) ==
  Ratio(ErrorsIn(EditAlignment(reference, hypothesis)), Len(reference))

(* _speaker_mapping as a definition: of the one-to-one maps with the most  *)
(* shared time the first, unmapped before the greater before the lesser    *)
(* name, speaker by speaker.                                               *)
SpeakerMap(ticks) ==
  LET heard  == UNION {ActiveAt(input.hypothesis.turns, t) : t \in ticks}
      spoken == UNION {ActiveAt(input.reference.turns, t) : t \in ticks}
      maps   == {m \in [heard -> spoken \union {Nothing}] :
                   \A g, h \in heard : g # h => m[g] # m[h] \/ m[g] = Nothing}
      shared(m) == Cardinality({p \in ticks \X heard :
                     /\ p[2] \in ActiveAt(input.hypothesis.turns, p[1])
                     /\ m[p[2]] \in ActiveAt(input.reference.turns, p[1])})
      order  == SetToSortSeq(heard, <)
      rank(s) == IF s = Nothing THEN Max(spoken \union {0}) + 1 ELSE s
      Key(m) == <<-shared(m)>> \o [i \in DOMAIN order |-> -rank(m[order[i]])]
  IN LeastBy(maps, Key)

DiarizationErrors(ticks, map) ==
  LET references(t) == ActiveAt(input.reference.turns, t)
      hypotheses(t) == ActiveAt(input.hypothesis.turns, t)
      correct(t) == Cardinality({h \in hypotheses(t) : map[h] \in references(t)})
  IN Ratio(MapThenSumSet(LAMBDA t : Later(Cardinality(references(t)), Cardinality(hypotheses(t)))
                                      - correct(t), ticks),
           MapThenSumSet(LAMBDA t : Cardinality(references(t)), ticks))

(* _sa_wer_metrics: the words without a speaker on either side meet in one *)
(* bucket, like those whose speaker is not mapped to a scored one.  A word *)
(* counts once here, whatever number of tokens it normalizes to.           *)
SpeakerErrors(reference, hypothesis, map) ==
  LET speakers == {reference[i].speaker : i \in DOMAIN reference} \ {Nothing}
      bucketOf(s) == IF s \in speakers THEN s ELSE Nothing
      mapped(w) == IF w.speaker \in DOMAIN map THEN bucketOf(map[w.speaker]) ELSE Nothing
      spoken(words) == SelectSeq(Texts(words), LAMBDA text : text # <<>>)
      inBucket(b) == spoken(SelectSeq(reference, LAMBDA w : bucketOf(w.speaker) = b))
      givenTo(b) == spoken(SelectSeq(hypothesis, LAMBDA w : mapped(w) = b))
  IN [ratio |-> Ratio(MapThenSumSet(LAMBDA b : ErrorsIn(EditAlignment(inBucket(b), givenTo(b))),
                                    speakers \union {Nothing}),
                      Len(spoken(reference))),
      unassigned |-> Ratio(Len(SelectSeq(hypothesis, LAMBDA w : mapped(w) = Nothing)), Len(hypothesis))]

(* _timing_metrics: the equal words of the manually timed ones.            *)
TimingErrors(reference, hypothesis) ==
  LET timed == SelectSeq(reference, LAMBDA w : w.id \in input.reference.timed)
      ops == EditAlignment(Texts(timed), Texts(hypothesis))
      pairs == {k \in DOMAIN ops : ops[k].op = "equal"}
      a(k) == timed[ops[k].reference]
      b(k) == hypothesis[ops[k].hypothesis]
  IN [ratio |-> Ratio(Cardinality(pairs), Len(timed)),
      errors |-> {<<a(k).id, b(k).id, Distance(a(k).start, b(k).start), Distance(a(k).end, b(k).end)>> :
                    k \in pairs}]

ScoreEvaluationSlice ==
  /\ IsEvaluation /\ work.phase = "scoring" /\ Len(work.report) < Len(work.slices)
  /\ LET slice == work.slices[Len(work.report) + 1]
         reference == ScoredWords(input.reference.words, slice.ranges)
         hypothesis == ScoredWords(input.hypothesis.words, slice.ranges)
         ticks == Covered(slice.ranges)
         map == SpeakerMap(ticks)
         forms(words) == [i \in DOMAIN words |-> words[i].form]
     IN work' = [work EXCEPT !.report = Append(@,
                   [slice |-> slice,
                    raw |-> ErrorRatio(forms(reference), forms(hypothesis)),
                    normalized |-> ErrorRatio(Tokens(reference), Tokens(hypothesis)),
                    der |-> DiarizationErrors(ticks, map),
                    speakers |-> SpeakerErrors(reference, hypothesis, map),
                    timing |-> TimingErrors(reference, hypothesis)])]
  /\ UNCHANGED input

-----------------------------------------------------------------------------
(* _quality_verdict                                                        *)

SliceNamed(name) == CHOOSE i \in DOMAIN work.report : work.report[i].slice.name = name

(* The metrics of a report a threshold may be asked of, in percent.        *)
Metrics == {"raw", "normalized", "der"}

DefaultThresholds ==
  [metrics |-> {"normalized", "der"}, percent |-> [metric \in Metrics |-> 25]]

Thresholds == IF input.thresholds.metrics = {} THEN DefaultThresholds ELSE input.thresholds

(* At most the threshold, and never without a reference.                   *)
Passes(ratio, percent) ==
  ratio.denominator > 0 /\ 100 * ratio.numerator <= percent * ratio.denominator

(* _model_hashes finds one: the name of a model is none.                   *)
HasFingerprint(doc) == AsScored(doc).provenance.models = "hashed"

(* Mutant: one timed word too many is asked for.                           *)
LacksEvidenceOffByOne(raw, hypothesis) ==
  LET doc == Canonical(AsScored(raw))
  IN \/ "split" \in doc.absent \/ doc.status # "reviewed" \/ doc.actor # "human"
     \/ doc.reviewer \in {"none", "machine"} \/ ~doc.reviewedAt
     \/ Cardinality(doc.timed) <= TimedWordsRequired

LacksEvidence(raw, hypothesis) ==
  LET doc == Canonical(AsScored(raw))
  IN \/ "split" \in doc.absent
     \/ doc.status # "reviewed" \/ doc.actor # "human"
     \/ doc.reviewer \in {"none", "machine"} \/ ~doc.reviewedAt
     \/ Cardinality(doc.timed) < TimedWordsRequired
     \/ ~HasFingerprint(raw) /\ ~HasFingerprint(hypothesis)

DecideVerdict ==
  /\ IsEvaluation /\ work.phase = "scoring" /\ Len(work.report) = Len(work.slices)
  /\ LET heldOut == work.report[SliceNamed("held_out")]
     IN work' = [work EXCEPT !.phase = "done",
                   !.verdict = IF LacksEvidence(input.reference, input.hypothesis)
                                 THEN "insufficient_evidence"
                               ELSE IF \A m \in Thresholds.metrics :
                                         Passes(heldOut[m], Thresholds.percent[m])
                                 THEN "pass" ELSE "blocked"]
  /\ UNCHANGED input

EvaluationNext ==
  \/ CheckReference
  \/ AcceptDocuments
  \/ CatalogSlices
  \/ ScoreEvaluationSlice
  \/ DecideVerdict

EvaluationWord ==
  [id : Nat, form : Nat, tokens : Seq(Nat), start : Int, end : Int, speaker : Nat, unintelligible : BOOLEAN]

(* What may be read from two documents, valid or not; what stands for a    *)
(* field that is absent is never looked at.                                *)
EvaluationDocument ==
  [origin : Nat, absent : SUBSET RequiredFields, episode : STRING, source : STRING, duration : Int,
   status : {"draft", "reviewed", "accepted"}, actor : {"human", "machine"},
   reviewer : {"none", "machine", "someone"}, reviewedAt : BOOLEAN, split : {"exact", "other"}, words : Seq(EvaluationWord),
   turns : SUBSET [speaker : Nat, start : Int, end : Int],
   overlaps : SUBSET [start : Int, end : Int, speakers : SUBSET Nat],
   spans : SUBSET [start : Int, end : Int], slices : Seq([name : STRING, start : Int, end : Int]),
   reviewed : SUBSET Nat, timed : SUBSET Nat,
   provenance : [configuration : BOOLEAN, inputs : BOOLEAN, models : {"none", "named", "hashed"}]]

EvaluationInput ==
  [kind : {"evaluation"}, reference : EvaluationDocument, hypothesis : EvaluationDocument,
   golden : [episode : STRING, source : STRING, duration : Int],
   thresholds : [metrics : SUBSET Metrics, percent : [Metrics -> Nat]]]

EvaluationSpec ==
  input \in EvaluationInput /\ work = EvaluationWork /\ [][EvaluationNext]_computation

-----------------------------------------------------------------------------
(* Properties *)

(* A verdict rests on the held-out fifth alone: every word that is not     *)
(* masked is scored in exactly one of the five blocks, also a word that    *)
(* lies across a boundary; development and held-out words together are all *)
(* words; no slice that the reference brings along takes the place of the  *)
(* held-out one; and a pass that asks for a word error rate, as it does    *)
(* unless it is told otherwise, has held-out words to show for it          *)
(* (evaluation_metrics.py:285, 1046, 1076).                                *)
HeldOutIsApart ==
  IsEvaluation /\ work.phase = "done" =>
    LET words(name) == work.report[SliceNamed(name)].raw.denominator
        last == {i \in DOMAIN input.reference.words :
                   LET w == input.reference.words[i]
                   IN ~IsMasked(w) /\ Block(input.reference.duration, 5).start <= Midpoint(w)}
    IN /\ words("all") = words("block-0") + words("block-1") + words("block-2")
                            + words("block-3") + words("block-4")
       /\ words("all") = words("development") + words("held_out")
       /\ words("all") = Cardinality({i \in DOMAIN input.reference.words :
                                        ~IsMasked(input.reference.words[i])})
       /\ work.report[SliceNamed("held_out")].slice.ranges = {Block(input.reference.duration, 5)}
       /\ work.verdict = "pass" /\ {"raw", "normalized"} \intersect Thresholds.metrics # {} =>
            last # {}

(* The two gates agree on the review: a reference without an error of      *)
(* validate_reference is never turned down by the verdict once a model     *)
(* fingerprint is hashed in one of the documents, and what a verdict is    *)
(* based on lacks no field but those the annotation stands in for, and was *)
(* found wrong there in nothing but whose audio it is, where it comes from *)
(* and how its timed words are spread (evaluation.py:94,                   *)
(* evaluation_metrics.py:1127).                                            *)
GatesAgree ==
  IsEvaluation /\ work.phase = "done" =>
    /\ work.errors = NoErrors /\ (HasFingerprint(input.reference) \/ HasFingerprint(input.hypothesis)) =>
         work.verdict # "insufficient_evidence"
    /\ work.verdict # "insufficient_evidence" =>
         /\ work.errors.missing \subseteq {"schema_version", "split_sha256", "provenance"}
         /\ work.errors.wrong \subseteq
              {"episode", "source", "duration", "split", "configuration", "provenance", "blocks"}
=============================================================================
