-------------------------- MODULE ComputationProofs --------------------------
(***************************************************************************)
(* What the pure computations promise, for every input and every limit.    *)
(***************************************************************************)
EXTENDS Stages, Evaluation, Exemplars, FiniteSetTheorems, SequenceTheorems,
        WellFoundedInduction, TLAPS

-----------------------------------------------------------------------------
(*                               Stages                                    *)
(*                                                                         *)
(* ReuseIsExact speaks of the end of the walks only.  WalkInv is what each *)
(* step of a walk keeps: a stage that is invalidated was changed or has an *)
(* invalidated dependency, and one that is not pending any more has handed *)
(* the change to everything that depends on it.                            *)

StagesTypes ==
  /\ input \in StagesInput
  /\ work \in [phase : {"given", "walking", "done", "rejected"}, todo : SUBSET ArchiveStages,
               pending : SUBSET ArchiveStages, discovered : SUBSET ArchiveStages,
               invalidated : SUBSET ArchiveStages, reusable : SUBSET ArchiveStages]

WalkInv ==
  /\ StagesTypes
  /\ work.phase = "given" => work = StagesWork
  /\ work.pending \union work.discovered \subseteq work.invalidated
  /\ work.todo \subseteq input.changed
  /\ work.phase \in {"walking", "done"} =>
       /\ input.changed \subseteq work.todo \union work.invalidated
       /\ \A s \in work.invalidated :
            s \in input.changed \/ Dependencies[s] \intersect work.invalidated # {}
       /\ \A s \in work.invalidated \ work.pending : Dependants(s) \subseteq work.invalidated
  /\ work.phase = "done" =>
       /\ work.todo = {} /\ work.pending = {}
       /\ work.reusable = input.available \ work.invalidated

LEMMA StagesBegin ==
  ASSUME input \in StagesInput, work = StagesWork
  PROVE  WalkInv
BY DEF WalkInv, StagesTypes, StagesWork

LEMMA AcceptStagesInv ==
  ASSUME WalkInv, AcceptStages
  PROVE  WalkInv'
<1>1. /\ work.phase = "given" /\ work.todo = {} /\ work.pending = {} /\ work.discovered = {}
      /\ work.invalidated = {} /\ work.reusable = {} /\ input' = input
  BY DEF WalkInv, StagesWork, AcceptStages
<1>2. CASE input.changed \subseteq ArchiveStages
  <2>1. work' = [work EXCEPT !.phase = "walking", !.todo = input.changed]
    BY <1>2 DEF AcceptStages
  <2>2. StagesTypes'
    BY <1>1, <1>2, <2>1 DEF WalkInv, StagesTypes
  <2>3. /\ work'.phase = "walking" /\ work'.todo = input.changed /\ work'.pending = {}
        /\ work'.discovered = {} /\ work'.invalidated = {}
    BY <1>1, <2>1 DEF WalkInv, StagesTypes
  <2> QED  BY <1>1, <2>2, <2>3 DEF WalkInv
<1>3. CASE ~(input.changed \subseteq ArchiveStages)
  <2>1. work' = [work EXCEPT !.phase = "rejected"]
    BY <1>3 DEF AcceptStages
  <2>2. StagesTypes'
    BY <1>1, <2>1 DEF WalkInv, StagesTypes
  <2>3. /\ work'.phase = "rejected" /\ work'.todo = {} /\ work'.pending = {}
        /\ work'.discovered = {} /\ work'.invalidated = {}
    BY <1>1, <2>1 DEF WalkInv, StagesTypes
  <2> QED  BY <1>1, <2>2, <2>3 DEF WalkInv
<1> QED  BY <1>2, <1>3

LEMMA StartWalkInv ==
  ASSUME WalkInv, StartWalk
  PROVE  WalkInv'
<1>1. PICK stage \in work.todo :
        work' = [work EXCEPT !.todo = work.todo \ {stage}, !.pending = {stage}, !.discovered = {},
                   !.invalidated = work.invalidated \union {stage}]
  BY DEF StartWalk
<1>2. StagesTypes'
  BY <1>1 DEF StartWalk, WalkInv, StagesTypes
<1>3. /\ work'.todo = work.todo \ {stage} /\ work'.pending = {stage} /\ work'.discovered = {}
      /\ work'.invalidated = work.invalidated \union {stage} /\ work'.phase = "walking"
      /\ input' = input /\ work.phase = "walking" /\ work.pending = {}
      /\ stage \in input.changed
  BY <1>1 DEF StartWalk, WalkInv, StagesTypes
<1> QED  BY <1>2, <1>3 DEF WalkInv, StagesTypes, Dependants

LEMMA WalkDownstreamInv ==
  ASSUME WalkInv, WalkDownstream
  PROVE  WalkInv'
<1>1. PICK current \in work.pending :
        work' = [work EXCEPT
          !.pending = (work.pending \ {current}) \union (Dependants(current) \ work.discovered),
          !.discovered = work.discovered \union (Dependants(current) \ work.discovered),
          !.invalidated = work.invalidated \union (Dependants(current) \ work.discovered)]
  BY DEF WalkDownstream
<1>2. Dependants(current) \subseteq ArchiveStages
  BY DEF Dependants
<1>3. \A s \in Dependants(current) : current \in Dependencies[s]
  BY DEF Dependants
<1> HIDE DEF Dependants
<1>4. PICK new : new = Dependants(current) \ work.discovered
  OBVIOUS
<1>5. StagesTypes'
  BY <1>1, <1>2 DEF WalkDownstream, WalkInv, StagesTypes
<1>6. /\ work'.todo = work.todo /\ work'.pending = (work.pending \ {current}) \union new
      /\ work'.discovered = work.discovered \union new
      /\ work'.invalidated = work.invalidated \union new
      /\ work'.phase = "walking" /\ input' = input /\ work.phase = "walking"
      /\ current \in work.invalidated
  BY <1>1, <1>4 DEF WalkDownstream, WalkInv, StagesTypes
<1>7. \A s \in work'.invalidated :
        s \in input.changed \/ Dependencies[s] \intersect work'.invalidated # {}
  BY <1>3, <1>4, <1>6 DEF WalkInv
<1>8. \A s \in work'.invalidated \ work'.pending : Dependants(s) \subseteq work'.invalidated
  BY <1>4, <1>6 DEF WalkInv
<1> QED  BY <1>5, <1>6, <1>7, <1>8 DEF WalkInv

LEMMA ReuseInv ==
  ASSUME WalkInv, Reuse
  PROVE  WalkInv'
BY DEF WalkInv, StagesTypes, Reuse, StagesInput

LEMMA WalkStep == WalkInv /\ [StagesNext]_computation => WalkInv'
<1>1. WalkInv /\ UNCHANGED computation => WalkInv'
  BY DEF WalkInv, StagesTypes, computation
<1> QED  BY <1>1, AcceptStagesInv, StartWalkInv, WalkDownstreamInv, ReuseInv DEF StagesNext

(* Whatever stages change, and in whatever order the graph is walked, what *)
(* is reused depends on nothing that changed, and nothing else is thrown   *)
(* away (downstream_stages, reusable_stages).                              *)
THEOREM ReuseExact == StagesSpec => []ReuseIsExact
<1>1. ASSUME WalkInv PROVE ReuseIsExact
  <2> SUFFICES ASSUME work.phase = "done" PROVE ReuseIsExact!2
    BY DEF ReuseIsExact
  <2>1. \A s \in work.invalidated : s \in ArchiveStages /\ Dependants(s) \subseteq work.invalidated
    BY <1>1 DEF WalkInv, StagesTypes
  <2>2. input.changed \subseteq work.invalidated
    BY <1>1 DEF WalkInv
  <2>3. \A s \in ArchiveStages :
          Dependencies[s] \intersect work.invalidated # {} => s \in work.invalidated
    BY <2>1 DEF Dependants
  <2> QED  BY <1>1, <2>2, <2>3 DEF WalkInv, StagesInput, StagesTypes
<1> QED  BY <1>1, StagesBegin, WalkStep, PTL DEF StagesSpec

-----------------------------------------------------------------------------
(*                             Evaluation                                  *)
(*                                                                         *)
(* GatesAgree compares what two functions make of one reference at         *)
(* different times.  GateInv says where each result comes from, and that   *)
(* only a document that parsed is ever scored.                             *)

GateInv ==
  /\ input \in EvaluationInput
  /\ {"phase", "errors", "slices", "report", "verdict"} \subseteq DOMAIN work
  /\ work.phase # "given" => work.errors = ReferenceErrors(input.reference, input.golden)
  /\ work.phase \in {"accepted", "scoring", "done"} => IsDocument(input.reference)
  /\ work.phase = "done" =>
       (work.verdict = "insufficient_evidence"
          <=> LacksEvidence(input.reference, input.hypothesis))

LEMMA EvaluationBegins ==
  ASSUME input \in EvaluationInput, work = EvaluationWork
  PROVE  GateInv
BY DEF GateInv, EvaluationWork

LEMMA GateStep == GateInv /\ [EvaluationNext]_computation => GateInv'
<1> SUFFICES ASSUME GateInv, [EvaluationNext]_computation PROVE GateInv'
  OBVIOUS
<1>1. CASE CheckReference
  BY <1>1 DEF GateInv, CheckReference
<1>2. CASE AcceptDocuments
  <2>1. PICK result : /\ work' = [work EXCEPT !.phase = result]
                      /\ result = "rejected" \/ (result = "accepted" /\ IsDocument(input.reference))
    <3> DEFINE accepted == IsDocument(input.reference) /\ IsDocument(input.hypothesis)
                           /\ input.reference.source = input.hypothesis.source
                           /\ input.reference.duration = input.hypothesis.duration
    <3>1. work' = [work EXCEPT !.phase = IF accepted THEN "accepted" ELSE "rejected"]
      BY <1>2 DEF AcceptDocuments
    <3>2. accepted => IsDocument(input.reference)
      OBVIOUS
    <3> HIDE DEF accepted
    <3>3. CASE accepted
      BY <3>1, <3>2, <3>3, Zenon
    <3>4. CASE ~accepted
      <4>1. work' = [work EXCEPT !.phase = "rejected"]
        BY <3>1, <3>4, Zenon
      <4> QED  BY <4>1, Zenon
    <3> QED  BY <3>3, <3>4
  <2> QED  BY <1>2, <2>1 DEF GateInv, AcceptDocuments
<1>3. CASE CatalogSlices
  <2>1. PICK slices : work' = [work EXCEPT !.phase = "scoring", !.slices = slices]
    BY <1>3 DEF CatalogSlices
  <2> QED  BY <1>3, <2>1 DEF GateInv, CatalogSlices
<1>4. CASE ScoreEvaluationSlice
  <2>1. PICK entry : work' = [work EXCEPT !.report = Append(work.report, entry)]
    BY <1>4 DEF ScoreEvaluationSlice
  <2> QED  BY <1>4, <2>1 DEF GateInv, ScoreEvaluationSlice
<1>5. CASE DecideVerdict
  <2>1. PICK verdict :
          /\ work' = [work EXCEPT !.phase = "done", !.verdict = verdict]
          /\ verdict = "insufficient_evidence"
               <=> LacksEvidence(input.reference, input.hypothesis)
    <3> DEFINE lacking == LacksEvidence(input.reference, input.hypothesis)
               passing == \A m \in Thresholds.metrics :
                            Passes(work.report[SliceNamed("held_out")][m], Thresholds.percent[m])
    <3>1. work' = [work EXCEPT !.phase = "done",
                     !.verdict = IF lacking THEN "insufficient_evidence"
                                 ELSE IF passing THEN "pass" ELSE "blocked"]
      BY <1>5 DEF DecideVerdict
    <3> HIDE DEF lacking, passing
    <3>2. CASE lacking
      BY <3>1, <3>2, Zenon DEF lacking
    <3>3. CASE ~lacking /\ passing
      <4>1. work' = [work EXCEPT !.phase = "done", !.verdict = "pass"]
        BY <3>1, <3>3, Zenon
      <4>2. "pass" # "insufficient_evidence"
        OBVIOUS
      <4> QED  BY <3>3, <4>1, <4>2, Zenon DEF lacking
    <3>4. CASE ~lacking /\ ~passing
      <4>1. work' = [work EXCEPT !.phase = "done", !.verdict = "blocked"]
        BY <3>1, <3>4, Zenon
      <4>2. "blocked" # "insufficient_evidence"
        OBVIOUS
      <4> QED  BY <3>4, <4>1, <4>2, Zenon DEF lacking
    <3> QED  BY <3>2, <3>3, <3>4
  <2> QED  BY <1>5, <2>1 DEF GateInv, DecideVerdict
<1>6. CASE UNCHANGED computation
  BY <1>6 DEF GateInv, computation
<1> QED  BY <1>1, <1>2, <1>3, <1>4, <1>5, <1>6 DEF EvaluationNext

(* What the defaults and the canonical form leave and what they change.    *)
LEMMA ReadIs ==
  ASSUME NEW raw \in EvaluationDocument, NEW actor \in {"human", "machine"},
         NEW reviewer \in {"none", "machine"}
  PROVE  LET filled == Filled(raw, actor, reviewer)
             doc == Canonical(filled)
         IN /\ filled \in EvaluationDocument
            /\ filled.absent = raw.absent
            /\ filled.status = IF "status" \in raw.absent THEN "draft" ELSE raw.status
            /\ filled.actor = IF "actor_type" \in raw.absent THEN actor ELSE raw.actor
            /\ filled.reviewer = IF "reviewer" \in raw.absent THEN reviewer ELSE raw.reviewer
            /\ filled.reviewedAt = IF "reviewed_at" \in raw.absent THEN FALSE ELSE raw.reviewedAt
            /\ filled.provenance = IF "provenance" \in raw.absent THEN NoProvenance ELSE raw.provenance
            /\ doc.absent = raw.absent /\ doc.actor = filled.actor /\ doc.timed = raw.timed
            /\ doc.status = IF filled.status = "accepted" THEN "reviewed" ELSE filled.status
            /\ doc.reviewer = IF filled.actor = "machine" THEN "machine" ELSE filled.reviewer
            /\ doc.reviewedAt = (filled.reviewedAt /\ doc.status = "reviewed")
            /\ doc.reviewed = raw.reviewed /\ WordIds(doc) = WordIds(raw)
            /\ doc.provenance = filled.provenance
            /\ doc.duration = raw.duration /\ doc.words = raw.words
<1> DEFINE filled == Filled(raw, actor, reviewer)
<1>1. /\ filled \in EvaluationDocument
      /\ filled.absent = raw.absent
      /\ filled.status = IF "status" \in raw.absent THEN "draft" ELSE raw.status
      /\ filled.actor = IF "actor_type" \in raw.absent THEN actor ELSE raw.actor
      /\ filled.reviewer = IF "reviewer" \in raw.absent THEN reviewer ELSE raw.reviewer
      /\ filled.reviewedAt = IF "reviewed_at" \in raw.absent THEN FALSE ELSE raw.reviewedAt
      /\ filled.provenance = IF "provenance" \in raw.absent THEN NoProvenance ELSE raw.provenance
      /\ filled.timed = raw.timed /\ filled.reviewed = raw.reviewed /\ filled.words = raw.words
      /\ filled.duration = raw.duration
  <2> DEFINE status == IF "status" \in raw.absent THEN "draft" ELSE raw.status
             acted == IF "actor_type" \in raw.absent THEN actor ELSE raw.actor
             by == IF "reviewer" \in raw.absent THEN reviewer ELSE raw.reviewer
             at == IF "reviewed_at" \in raw.absent THEN FALSE ELSE raw.reviewedAt
             split == IF "split" \in raw.absent THEN "exact" ELSE raw.split
             from == IF "provenance" \in raw.absent THEN NoProvenance ELSE raw.provenance
             Read(s, a, b, t, e, p) == [raw EXCEPT !.status = s, !.actor = a, !.reviewer = b,
                                          !.reviewedAt = t, !.split = e, !.provenance = p]
  <2>1. filled = Read(status, acted, by, at, split, from)
    BY DEF Filled
  <2>2. /\ status \in {"draft", "reviewed", "accepted"} /\ acted \in {"human", "machine"}
        /\ by \in {"none", "machine", "someone"} /\ at \in BOOLEAN /\ split \in {"exact", "other"}
        /\ from \in [configuration : BOOLEAN, inputs : BOOLEAN, models : {"none", "named", "hashed"}]
    BY DEF EvaluationDocument, NoProvenance
  <2>3. ASSUME NEW s \in {"draft", "reviewed", "accepted"}, NEW a \in {"human", "machine"},
               NEW b \in {"none", "machine", "someone"}, NEW t \in BOOLEAN, NEW e \in {"exact", "other"},
               NEW p \in [configuration : BOOLEAN, inputs : BOOLEAN, models : {"none", "named", "hashed"}]
        PROVE  LET doc == Read(s, a, b, t, e, p)
               IN /\ doc \in EvaluationDocument
                  /\ doc.absent = raw.absent /\ doc.status = s /\ doc.actor = a /\ doc.reviewer = b
                  /\ doc.reviewedAt = t /\ doc.provenance = p /\ doc.timed = raw.timed
                  /\ doc.reviewed = raw.reviewed /\ doc.words = raw.words
                  /\ doc.duration = raw.duration
    BY DEF EvaluationDocument
  <2> HIDE DEF status, acted, by, at, split, from, filled, Read
  <2>4. /\ filled \in EvaluationDocument
        /\ filled.absent = raw.absent /\ filled.status = status /\ filled.actor = acted
        /\ filled.reviewer = by /\ filled.reviewedAt = at /\ filled.provenance = from
        /\ filled.timed = raw.timed /\ filled.reviewed = raw.reviewed /\ filled.words = raw.words
        /\ filled.duration = raw.duration
    BY <2>1, <2>2, <2>3
  <2> QED  BY <2>4 DEF status, acted, by, at, from
<1> HIDE DEF filled
<1>2. LET doc == Canonical(filled)
      IN /\ doc.absent = filled.absent /\ doc.actor = filled.actor /\ doc.timed = filled.timed
         /\ doc.status = IF filled.status = "accepted" THEN "reviewed" ELSE filled.status
         /\ doc.reviewer = IF filled.actor = "machine" THEN "machine" ELSE filled.reviewer
         /\ doc.reviewedAt = (filled.reviewedAt /\ doc.status = "reviewed")
         /\ doc.reviewed = filled.reviewed /\ doc.words = filled.words
         /\ doc.provenance = filled.provenance /\ doc.duration = filled.duration
  BY <1>1 DEF Canonical, EvaluationDocument
<1>3. WordIds(Canonical(filled)) = WordIds(raw)
  BY <1>1, <1>2 DEF WordIds
<1> QED  BY <1>1, <1>2, <1>3 DEF filled

(* What the verdict and the gate look at, one after the other.             *)
IsReviewed(doc) ==
  /\ doc.status = "reviewed" /\ doc.actor = "human" /\ doc.reviewedAt
  /\ doc.reviewer # "machine"
  /\ ~(Cardinality(doc.timed) < TimedWordsRequired)

LEMMA ScoredAsReference ==
  ASSUME NEW raw, raw.absent \subseteq {"schema_version", "split_sha256", "provenance"},
         IsAnnotation(AsScored(raw))
  PROVE  IsAnnotation(AsReference(raw))
<1>1. AsScored(raw) = AsReference(raw)
  BY DEF AsScored, AsReference, Filled
<1> QED  BY <1>1

LEMMA GatesCompared ==
  ASSUME NEW raw \in EvaluationDocument, NEW golden, NEW hypothesis \in EvaluationDocument
  PROVE  /\ ReferenceErrors(raw, golden) = NoErrors /\ (HasFingerprint(raw) \/ HasFingerprint(hypothesis)) =>
              ~LacksEvidence(raw, hypothesis)
         /\ IsAnnotation(AsScored(raw)) /\ ~LacksEvidence(raw, hypothesis) =>
              /\ ReferenceErrors(raw, golden).missing \subseteq {"schema_version", "split_sha256", "provenance"}
              /\ ReferenceErrors(raw, golden).wrong \subseteq
                   {"episode", "source", "duration", "split", "configuration", "provenance", "blocks"}
<1> DEFINE gate == Canonical(AsReference(raw))
           scored == Canonical(AsScored(raw))
<1>2. raw.absent \in SUBSET RequiredFields
  BY DEF EvaluationDocument
<1>3. ASSUME ReferenceErrors(raw, golden) = NoErrors
      PROVE  raw.absent = {} /\ IsAnnotation(AsReference(raw)) /\ IsReviewed(gate)
  <2>1. IsAnnotation(AsReference(raw))
    BY <1>3 DEF ReferenceErrors, NoErrors
  <2>2. /\ ReferenceErrors(raw, golden).missing = raw.absent
        /\ gate.status # "reviewed" \/ gate.actor # "human" => "review" \in ReferenceErrors(raw, golden).wrong
        /\ gate.reviewer = "machine" => "reviewer" \in ReferenceErrors(raw, golden).wrong
        /\ ~gate.reviewedAt => "reviewedAt" \in ReferenceErrors(raw, golden).wrong
        /\ Cardinality(gate.timed) < TimedWordsRequired => "timed" \in ReferenceErrors(raw, golden).wrong
    BY <2>1 DEF ReferenceErrors
  <2>3. ReferenceErrors(raw, golden).missing = {} /\ ReferenceErrors(raw, golden).wrong = {}
    BY <1>3 DEF NoErrors
  <2> HIDE DEF gate
  <2> QED  BY <2>1, <2>2, <2>3 DEF IsReviewed
<1>4. ASSUME ReferenceErrors(raw, golden) = NoErrors, HasFingerprint(raw) \/ HasFingerprint(hypothesis)
      PROVE  ~LacksEvidence(raw, hypothesis)
  <2>1. raw.absent = {} /\ IsAnnotation(AsReference(raw)) /\ IsReviewed(gate)
    BY <1>3, <1>4
  <2>2. AsReference(raw) = AsScored(raw)
    BY <2>1 DEF AsReference, AsScored, Filled
  <2>3. scored.actor = "human" /\ scored.reviewer # "none"
    <3>1. gate.actor = AsReference(raw).actor
      BY ReadIs DEF AsReference
    <3> QED  BY <2>1, <2>2, <3>1 DEF IsAnnotation, IsReviewed
  <2>4. scored.absent = {}
    BY <2>1, ReadIs DEF AsScored
  <2> QED  BY <1>4, <2>1, <2>2, <2>3, <2>4 DEF LacksEvidence, IsReviewed
<1>5. ASSUME IsAnnotation(AsScored(raw)), ~LacksEvidence(raw, hypothesis)
      PROVE  /\ raw.absent \subseteq {"schema_version", "split_sha256", "provenance"}
             /\ scored = gate /\ IsReviewed(gate) /\ gate.reviewed = WordIds(gate)
  <2>1. /\ "split" \notin scored.absent /\ scored.status = "reviewed" /\ scored.actor = "human"
        /\ scored.reviewer \notin {"none", "machine"} /\ scored.reviewedAt
        /\ ~(Cardinality(scored.timed) < TimedWordsRequired)
    BY <1>5 DEF LacksEvidence
  <2>2. /\ AsScored(raw).absent = raw.absent /\ scored.absent = raw.absent
        /\ AsScored(raw).status = (IF "status" \in raw.absent THEN "draft" ELSE raw.status)
        /\ AsScored(raw).actor = (IF "actor_type" \in raw.absent THEN "machine" ELSE raw.actor)
        /\ AsScored(raw).reviewer = (IF "reviewer" \in raw.absent THEN "machine" ELSE raw.reviewer)
        /\ AsScored(raw).reviewedAt = (IF "reviewed_at" \in raw.absent THEN FALSE ELSE raw.reviewedAt)
        /\ scored.actor = AsScored(raw).actor
        /\ scored.status = (IF AsScored(raw).status = "accepted" THEN "reviewed" ELSE AsScored(raw).status)
        /\ scored.reviewer = (IF AsScored(raw).actor = "machine" THEN "machine" ELSE AsScored(raw).reviewer)
        /\ scored.reviewedAt = (AsScored(raw).reviewedAt /\ scored.status = "reviewed")
    BY ReadIs DEF AsScored
  <2>3. {"status", "actor_type", "reviewer", "reviewed_at", "split"} \intersect raw.absent = {}
    <3> HIDE DEF scored
    <3> QED  BY <2>1, <2>2
  <2>4. raw.absent \intersect {"episode_id", "source_sha256", "duration_ms", "words"} = {}
    <3>1. scored.absent \intersect {"episode_id", "source_sha256", "duration_ms", "words"} = {}
      BY <1>5 DEF IsAnnotation
    <3> QED  BY <2>2, <3>1
  <2>5. raw.absent \subseteq {"schema_version", "split_sha256", "provenance"}
    BY <1>2, <2>3, <2>4 DEF RequiredFields
  <2>6. AsScored(raw) = AsReference(raw)
    BY <2>3 DEF AsScored, AsReference, Filled
  <2>7. scored.reviewed = WordIds(scored)
    BY <1>5, <2>1 DEF IsAnnotation
  <2> QED  BY <2>1, <2>5, <2>6, <2>7 DEF IsReviewed
<1>6. ASSUME IsAnnotation(AsScored(raw)), ~LacksEvidence(raw, hypothesis)
      PROVE  /\ ReferenceErrors(raw, golden).missing \subseteq {"schema_version", "split_sha256", "provenance"}
             /\ ReferenceErrors(raw, golden).wrong \subseteq
                  {"episode", "source", "duration", "split", "configuration", "provenance", "blocks"}
  <2>1. /\ raw.absent \subseteq {"schema_version", "split_sha256", "provenance"}
        /\ IsReviewed(gate) /\ gate.reviewed = WordIds(gate)
    BY <1>5, <1>6
  <2>2. IsAnnotation(AsReference(raw))
    <3>1. raw.absent \subseteq {"schema_version", "split_sha256", "provenance"}
      BY <2>1
    <3> QED  BY <1>6, <3>1, ScoredAsReference
  <2>3. ReferenceErrors(raw, golden).missing = raw.absent
    BY <2>2 DEF ReferenceErrors
  <2>4. \A e \in ReferenceErrors(raw, golden).wrong :
          \/ e \in {"episode", "source", "duration", "split", "configuration", "provenance", "blocks"}
          \/ gate.status # "reviewed" \/ gate.actor # "human" \/ gate.reviewer = "machine"
          \/ ~gate.reviewedAt \/ gate.reviewed # WordIds(gate)
          \/ Cardinality(gate.timed) < TimedWordsRequired
    BY <2>2 DEF ReferenceErrors
  <2> HIDE DEF gate
  <2> QED  BY <2>1, <2>3, <2>4 DEF IsReviewed
<1> QED  BY <1>4, <1>6

(* A reference without an error of validate_reference is never turned down *)
(* by the verdict once a model fingerprint is hashed, whatever fields it   *)
(* lacks and whatever models it names, and what a verdict is based on has  *)
(* passed every check on its review (validate_reference, _quality_verdict).*)
THEOREM GatesAlwaysAgree == EvaluationSpec => []GatesAgree
<1>1. ASSUME GateInv PROVE GatesAgree
  <2> SUFFICES ASSUME work.phase = "done" PROVE GatesAgree!2
    BY DEF GatesAgree
  <2>1. /\ work.errors = ReferenceErrors(input.reference, input.golden)
        /\ IsAnnotation(AsScored(input.reference))
        /\ work.verdict = "insufficient_evidence"
             <=> LacksEvidence(input.reference, input.hypothesis)
    BY <1>1 DEF GateInv, IsDocument
  <2>2. input.reference \in EvaluationDocument /\ input.hypothesis \in EvaluationDocument
    BY <1>1 DEF GateInv, EvaluationInput
  <2> QED  BY <2>1, <2>2, GatesCompared
<1> QED  BY <1>1, EvaluationBegins, GateStep, PTL DEF EvaluationSpec

-----------------------------------------------------------------------------
(*                      Intervals and sets of ticks                        *)

Spans == [start : Int, end : Int]

IsIn(tick, i) == i.start <= tick /\ tick < i.end

LEMMA LeastOf ==
  ASSUME NEW S \in SUBSET Nat, S # {}
  PROVE  \E n \in S : \A m \in S : n <= m
<1>1. PICK n \in S : \A m \in S : ~(<<m, n>> \in OpToRel(<, Nat))
  BY NatLessThanWellFounded, WFMin
<1>2. \A m \in S : ~(m < n)
  BY <1>1 DEF OpToRel
<1> QED  BY <1>2

(* Keys are totally ordered ...                                            *)
LEMMA LexTotal ==
  ASSUME NEW n \in Nat, NEW a \in [1..n -> Int], NEW b \in [1..n -> Int]
  PROVE  LexLeq(a, b) \/ LexLeq(b, a)
<1> DEFINE apart == {i \in 1..n : a[i] # b[i]}
<1>1. CASE apart = {}
  <2>1. a = b
    BY <1>1
  <2> QED  BY <2>1 DEF LexLeq
<1>2. CASE apart # {}
  <2>1. apart \in SUBSET Nat
    OBVIOUS
  <2>2. PICK i \in apart : \A k \in apart : i <= k
    <3> HIDE DEF apart
    <3> QED  BY <1>2, <2>1, LeastOf
  <2>3. i \in 1..n /\ a[i] # b[i] /\ a[i] \in Int /\ b[i] \in Int
    OBVIOUS
  <2>4. \A k \in 1..(i - 1) : a[k] = b[k]
    BY <2>2, <2>3
  <2>5. DOMAIN a = 1..n /\ DOMAIN b = 1..n /\ (a[i] < b[i] \/ b[i] < a[i])
    BY <2>3
  <2>6. CASE a[i] < b[i]
    BY <2>3, <2>4, <2>5, <2>6, Zenon DEF LexLeq
  <2>7. CASE b[i] < a[i]
    <3>1. \A k \in 1..(i - 1) : b[k] = a[k]
      BY <2>4
    <3> QED  BY <2>3, <2>5, <2>7, <3>1, Zenon DEF LexLeq
  <2> QED  BY <2>5, <2>6, <2>7
<1> QED  BY <1>1, <1>2

LEMMA LexTransitive ==
  ASSUME NEW n \in Nat, NEW a \in [1..n -> Int], NEW b \in [1..n -> Int],
         NEW c \in [1..n -> Int], LexLeq(a, b), LexLeq(b, c)
  PROVE  LexLeq(a, c)
<1>1. CASE a = b \/ b = c
  BY <1>1
<1>2. CASE a # b /\ b # c
  <2>1. PICK i \in 1..n : a[i] < b[i] /\ \A k \in 1..(i - 1) : a[k] = b[k]
    BY <1>2 DEF LexLeq
  <2>2. PICK j \in 1..n : b[j] < c[j] /\ \A k \in 1..(j - 1) : b[k] = c[k]
    BY <1>2 DEF LexLeq
  <2>3. PICK m \in 1..n : m = IF i < j THEN i ELSE j
    OBVIOUS
  <2>4. a[m] \in Int /\ b[m] \in Int /\ c[m] \in Int
    OBVIOUS
  <2>5. a[m] < c[m]
    BY <2>1, <2>2, <2>3, <2>4
  <2>6. \A k \in 1..(m - 1) : a[k] = c[k]
    BY <2>1, <2>2, <2>3
  <2> QED  BY <2>5, <2>6 DEF LexLeq
<1> QED  BY <1>1, <1>2

(* A finite set has a member with the least key.                           *)
LEMMA LeastKey ==
  ASSUME NEW S, IsFiniteSet(S), S # {}, NEW n \in Nat, NEW key \in [S -> [1..n -> Int]]
  PROVE  \E x \in S : \A y \in S : LexLeq(key[x], key[y])
<1> DEFINE below(x) == {y \in S : ~LexLeq(key[x], key[y])}
           sizes == {k \in Nat : \E x \in S : Cardinality(below(x)) = k}
<1>1. \A x \in S : IsFiniteSet(below(x)) /\ Cardinality(below(x)) \in Nat
  BY FS_Subset, FS_CardinalityType
<1>2. sizes \in SUBSET Nat /\ sizes # {}
  BY <1>1
<1>3. PICK k \in sizes : \A m \in sizes : k <= m
  <2> HIDE DEF sizes
  <2> QED  BY <1>2, LeastOf
<1>4. PICK x \in S : Cardinality(below(x)) = k
  OBVIOUS
<1>5. ASSUME NEW y \in S, ~LexLeq(key[x], key[y]) PROVE FALSE
  <2>1. LexLeq(key[y], key[x])
    BY <1>5, LexTotal
  <2>2. ASSUME NEW z \in below(y) PROVE z \in below(x)
    BY <2>1, LexTransitive
  <2>3. y \in below(x) /\ y \notin below(y)
    BY <1>5 DEF LexLeq
  <2>4. below(y) \in SUBSET below(x)
    BY <2>2
  <2>5. /\ Cardinality(below(y)) <= Cardinality(below(x))
        /\ Cardinality(below(y)) # Cardinality(below(x))
    <3> HIDE DEF below
    <3> QED  BY <1>1, <2>3, <2>4, FS_Subset
  <2>6. Cardinality(below(y)) \in sizes /\ Cardinality(below(y)) \in Nat /\ k \in Nat
    <3> HIDE DEF below
    <3> QED  BY <1>1
  <2> HIDE DEF below, sizes
  <2> QED  BY <1>3, <1>4, <2>5, <2>6
<1> QED  BY <1>5

LEMMA CoveredMember ==
  ASSUME NEW I, \A i \in I : i.start \in Int /\ i.end \in Int, NEW tick
  PROVE  tick \in Covered(I) <=> tick \in Int /\ \E i \in I : IsIn(tick, i)
<1>1. tick \in Covered(I) <=> \E i \in I : tick \in i.start..(i.end - 1)
  BY Zenon DEF Covered
<1> QED  BY <1>1 DEF IsIn

(* A run is a maximal interval of the ticks.                               *)
LEMMA RunIs ==
  ASSUME NEW ticks \in SUBSET Int, NEW r \in RunsOf(ticks)
  PROVE  /\ r \in Spans /\ r.start < r.end
         /\ r.start \in ticks /\ r.end - 1 \in ticks
         /\ \A tick \in Int : IsIn(tick, r) => tick \in ticks
         /\ r.start - 1 \notin ticks /\ r.end \notin ticks
<1>1. /\ r \in [start : ticks, end : {t + 1 : t \in ticks}] /\ r.start < r.end
      /\ r.start..(r.end - 1) \subseteq ticks /\ r.start - 1 \notin ticks /\ r.end \notin ticks
  BY DEF RunsOf
<1>2. \A e \in {t + 1 : t \in ticks} : e \in Int /\ e - 1 \in ticks
  OBVIOUS
<1>3. r \in Spans
  BY <1>1, <1>2 DEF Spans
<1> QED  BY <1>1, <1>2, <1>3 DEF IsIn, Spans

(* It has all of any interval of ticks that it meets.                      *)
LEMMA RunContains ==
  ASSUME NEW ticks \in SUBSET Int, NEW r \in RunsOf(ticks), NEW a \in Int, NEW b \in Int,
         \A tick \in a..(b - 1) : tick \in ticks, NEW tick \in a..(b - 1), IsIn(tick, r)
  PROVE  r.start <= a /\ b <= r.end
<1>1. r.start \in Int /\ r.end \in Int
  BY RunIs DEF Spans
<1>2. r.start - 1 \notin a..(b - 1) /\ r.end \notin a..(b - 1)
  BY RunIs
<1> QED  BY <1>1, <1>2 DEF IsIn

LEMMA RunsApart ==
  ASSUME NEW ticks \in SUBSET Int, NEW r \in RunsOf(ticks), NEW q \in RunsOf(ticks),
         NEW tick \in Int, IsIn(tick, r), IsIn(tick, q)
  PROVE  r = q
<1>1. r \in Spans /\ q \in Spans
  BY RunIs
<1>2. r.start <= q.start /\ q.end <= r.end
  BY <1>1, RunIs, RunContains DEF Spans, IsIn
<1>3. q.start <= r.start /\ r.end <= q.end
  BY <1>1, RunIs, RunContains DEF Spans, IsIn
<1> QED  BY <1>1, <1>2, <1>3 DEF Spans

(* Every tick of a bounded set is in a run.                                *)
LEMMA RunAt ==
  ASSUME NEW ticks \in SUBSET Int, NEW low \in Int, NEW high \in Int,
         \A tick \in ticks : low <= tick /\ tick <= high, NEW t \in ticks
  PROVE  \E r \in RunsOf(ticks) : IsIn(t, r)
<1> DEFINE above == {n \in Nat : t + n \notin ticks}
           below == {n \in Nat : t - n \notin ticks}
<1>1. high + 1 - t \in above /\ t + 1 - low \in below
  OBVIOUS
<1>2. PICK n \in above : \A m \in above : n <= m
  <2> HIDE DEF above
  <2> QED  BY <1>1, LeastOf DEF above
<1>3. PICK k \in below : \A m \in below : k <= m
  <2> HIDE DEF below
  <2> QED  BY <1>1, LeastOf DEF below
<1>4. n > 0 /\ k > 0 /\ n \in Nat /\ k \in Nat /\ t + n \notin ticks /\ t - k \notin ticks
  OBVIOUS
<1>5. \A tick \in (t - k + 1)..(t + n - 1) : tick \in ticks
  <2> SUFFICES ASSUME NEW tick \in (t - k + 1)..(t + n - 1) PROVE tick \in ticks
    OBVIOUS
  <2>1. CASE tick >= t
    <3>1. tick - t \in Nat /\ tick - t < n /\ t + (tick - t) = tick
      BY <1>4, <2>1
    <3>2. tick - t \notin above
      BY <1>2, <1>4, <3>1
    <3> QED  BY <3>1, <3>2
  <2>2. CASE tick < t
    <3>1. t - tick \in Nat /\ t - tick < k /\ t - (t - tick) = tick
      BY <1>4, <2>2
    <3>2. t - tick \notin below
      <4> HIDE DEF below
      <4> QED  BY <1>3, <1>4, <3>1
    <3> QED  BY <3>1, <3>2
  <2> QED  BY <2>1, <2>2
<1> DEFINE r == [start |-> t - k + 1, end |-> t + n]
<1> HIDE DEF above, below
<1>6. r.start \in ticks /\ r.end - 1 \in ticks /\ r.start - 1 \notin ticks /\ r.end \notin ticks
  BY <1>4, <1>5
<1>7. r.end \in {u + 1 : u \in ticks}
  <2>1. (t + n) - 1 \in ticks /\ t + n = ((t + n) - 1) + 1
    BY <1>4, <1>6
  <2> QED  BY <2>1
<1>8. r.start < r.end /\ r.start..(r.end - 1) \subseteq ticks
  BY <1>4, <1>5
<1>9. r \in [start : ticks, end : {u + 1 : u \in ticks}]
  BY <1>6, <1>7
<1>10. r \in RunsOf(ticks)
  <2> HIDE DEF r
  <2> QED  BY <1>6, <1>8, <1>9, Zenon DEF RunsOf
<1> QED  BY <1>4, <1>10 DEF IsIn

-----------------------------------------------------------------------------
(*                     The parts of a long piece                           *)

LEMMA ProductOrder ==
  ASSUME NEW n \in Nat \ {0}, NEW a \in Int, NEW b \in Int, n * a < n * b
  PROVE  a < b
OBVIOUS

(* What the bounds have of one part and the next.                          *)
LEMMA EvenBounds ==
  ASSUME NEW n \in Nat \ {0}, NEW length \in Nat, NEW i \in Int
  PROVE  /\ (length * i) \div n \in Int
         /\ n * ((length * i) \div n) <= length * i
         /\ length * i < n * ((length * i) \div n) + n
OBVIOUS

LEMMA LimitsAre ==
  /\ {MinExcerpt, PreferredExcerpt, MaxExcerpt, Transition, ExcerptLimit} \subseteq Nat \ {0}
  /\ MinExcerpt <= PreferredExcerpt /\ PreferredExcerpt <= MaxExcerpt
BY ExcerptAssumption

Length(i) == i.end - i.start

CountOf(piece) == (Length(piece) + MaxExcerpt - 1) \div MaxExcerpt

IsEven(piece) == Length(piece) >= CountOf(piece) * PreferredExcerpt

CutsOf(piece) ==
  [i \in 0..CountOf(piece) |->
     IF IsEven(piece) THEN piece.start + (Length(piece) * i) \div CountOf(piece)
     ELSE Earlier(piece.start + i * MaxExcerpt, piece.end)]

LEMMA PartsAre ==
  ASSUME NEW piece
  PROVE  Parts(piece) =
           {Interval(CutsOf(piece)[i], CutsOf(piece)[i + 1]) : i \in 0..(CountOf(piece) - 1)}
BY Zenon DEF Parts, CutsOf, CountOf, IsEven, Length

LEMMA CountIs ==
  ASSUME NEW piece \in Spans, Length(piece) > 0
  PROVE  /\ CountOf(piece) \in Nat \ {0}
         /\ Length(piece) <= CountOf(piece) * MaxExcerpt
         /\ (CountOf(piece) - 1) * MaxExcerpt < Length(piece)
<1>1. MaxExcerpt \in Nat \ {0} /\ Length(piece) \in Nat
  BY LimitsAre DEF Length, Spans
<1>2. PICK n : n = CountOf(piece)
  OBVIOUS
<1>3. n \in Int /\ MaxExcerpt * n <= Length(piece) + MaxExcerpt - 1
      /\ Length(piece) + MaxExcerpt - 1 < MaxExcerpt * n + MaxExcerpt
  BY <1>1, <1>2 DEF CountOf
<1>4. MaxExcerpt * n = n * MaxExcerpt /\ (n - 1) * MaxExcerpt = n * MaxExcerpt - MaxExcerpt
  BY <1>1, <1>3
<1>5. n > 0
  BY <1>1, <1>3
<1> QED  BY <1>1, <1>2, <1>3, <1>4, <1>5

(* The pieces of an even split.                                            *)
LEMMA EvenSplit ==
  ASSUME NEW n \in Nat \ {0}, NEW length \in Nat, NEW p \in Nat \ {0}, NEW most \in Nat,
         length <= n * most, n * p <= length,
         NEW i \in Int, NEW j \in Int, i < j
  PROVE  /\ (length * i) \div n < (length * j) \div n
         /\ j = i + 1 =>
              /\ (length * j) \div n - (length * i) \div n <= most
              /\ p <= (length * j) \div n - (length * i) \div n
<1>1. PICK a : a = (length * i) \div n
  OBVIOUS
<1>2. PICK b : b = (length * j) \div n
  OBVIOUS
<1>3. a \in Int /\ n * a <= length * i /\ length * i < n * a + n
  BY <1>1, EvenBounds
<1>4. b \in Int /\ n * b <= length * j /\ length * j < n * b + n
  BY <1>2, EvenBounds
<1>5. length * i + length <= length * j
  OBVIOUS
<1>6. n * p < n * ((b - a) + 1)
  BY <1>3, <1>4, <1>5
<1>7. p < (b - a) + 1
  BY <1>3, <1>4, <1>6, ProductOrder
<1>8. ASSUME j = i + 1 PROVE b - a <= most
  <2>1. length * j = length * i + length
    BY <1>8
  <2>2. n * (b - a) < n * (most + 1)
    BY <1>3, <1>4, <2>1
  <2>3. b - a < most + 1
    BY <1>3, <1>4, <2>2, ProductOrder
  <2> QED  BY <1>3, <1>4, <2>3
<1> QED  BY <1>1, <1>2, <1>3, <1>4, <1>7, <1>8

LEMMA CutsAre ==
  ASSUME NEW piece \in Spans, LongEnough(piece),
         NEW n, n = CountOf(piece), NEW f, f = CutsOf(piece)
  PROVE  /\ n \in Nat \ {0}
         /\ \A i \in 0..n : f[i] \in Int
         /\ f[0] = piece.start /\ f[n] = piece.end
         /\ \A i, j \in 0..n : i < j => f[i] < f[j]
         /\ \A i \in 0..(n - 1) : f[i + 1] - f[i] <= MaxExcerpt
         /\ \E i \in 0..(n - 1) : f[i + 1] - f[i] >= MinExcerpt
<1>1. /\ n \in Nat \ {0} /\ Length(piece) <= n * MaxExcerpt
      /\ (n - 1) * MaxExcerpt < Length(piece) /\ Length(piece) \in Nat
      /\ Length(piece) >= MinExcerpt
      /\ piece.start \in Int /\ piece.end \in Int /\ piece.end = piece.start + Length(piece)
  BY CountIs, LimitsAre DEF LongEnough, Length, Spans
<1> HIDE DEF Length
<1>2. CASE IsEven(piece)
  <2>1. \A i \in 0..n : f[i] = piece.start + (Length(piece) * i) \div n
    BY <1>2 DEF CutsOf
  <2>2. n * PreferredExcerpt <= Length(piece)
    BY <1>1, <1>2, LimitsAre DEF IsEven
  <2>3. \A i \in 0..n : (Length(piece) * i) \div n \in Int
    BY <1>1, EvenBounds
  <2>4. (Length(piece) * 0) \div n = 0 /\ (Length(piece) * n) \div n = Length(piece)
    BY <1>1
  <2>5. \A i, j \in 0..n : i < j =>
          /\ (Length(piece) * i) \div n < (Length(piece) * j) \div n
          /\ j = i + 1 =>
               /\ (Length(piece) * j) \div n - (Length(piece) * i) \div n <= MaxExcerpt
               /\ PreferredExcerpt <= (Length(piece) * j) \div n - (Length(piece) * i) \div n
    BY <1>1, <2>2, LimitsAre, EvenSplit
  <2>6. \A i \in 0..n : f[i] \in Int
    BY <1>1, <2>1, <2>3
  <2>7. f[0] = piece.start /\ f[n] = piece.end
    BY <1>1, <2>1, <2>4
  <2>8. \A i, j \in 0..n : i < j => f[i] < f[j]
    BY <1>1, <2>1, <2>3, <2>5
  <2>9. \A i \in 0..(n - 1) :
          f[i + 1] - f[i] <= MaxExcerpt /\ PreferredExcerpt <= f[i + 1] - f[i]
    <3> SUFFICES ASSUME NEW i \in 0..(n - 1)
                 PROVE  f[i + 1] - f[i] <= MaxExcerpt /\ PreferredExcerpt <= f[i + 1] - f[i]
      OBVIOUS
    <3>1. i \in 0..n /\ i + 1 \in 0..n /\ i < i + 1
      BY <1>1
    <3> QED  BY <1>1, <2>1, <2>3, <2>5, <3>1
  <2>10. f[0 + 1] - f[0] >= MinExcerpt /\ 0 \in 0..(n - 1)
    BY <1>1, <2>6, <2>9, LimitsAre
  <2> QED  BY <1>1, <2>6, <2>7, <2>8, <2>9, <2>10
<1>3. CASE ~IsEven(piece)
  <2>1. \A i \in 0..n : f[i] = Earlier(piece.start + i * MaxExcerpt, piece.end)
    BY <1>3 DEF CutsOf
  <2>2. \A i \in Int : i * MaxExcerpt \in Int /\ (i + 1) * MaxExcerpt = i * MaxExcerpt + MaxExcerpt
    BY LimitsAre
  <2>3. \A i \in 0..(n - 1) : i * MaxExcerpt <= (n - 1) * MaxExcerpt
    BY <1>1, LimitsAre
  <2>4. \A i, j \in Int : i < j => i * MaxExcerpt < j * MaxExcerpt
    BY LimitsAre
  <2>5. \A i \in 0..(n - 1) : f[i] = piece.start + i * MaxExcerpt
    BY <1>1, <2>1, <2>2, <2>3 DEF Earlier
  <2>6. f[n] = piece.end
    BY <1>1, <2>1, <2>2 DEF Earlier
  <2>7. \A i \in 0..(n - 1) : f[i] < piece.end
    BY <1>1, <2>2, <2>3, <2>5
  <2>8. \A i \in 0..n : f[i] \in Int
    BY <1>1, <2>2, <2>5, <2>6
  <2>9. \A i, j \in 0..n : i < j => f[i] < f[j]
    <3> SUFFICES ASSUME NEW i \in 0..n, NEW j \in 0..n, i < j PROVE f[i] < f[j]
      OBVIOUS
    <3>1. i \in 0..(n - 1)
      BY <1>1
    <3>2. CASE j = n
      BY <2>6, <2>7, <3>1, <3>2
    <3>3. CASE j # n
      <4>1. j \in 0..(n - 1)
        BY <1>1, <3>3
      <4>2. PICK a \in Int : a = i * MaxExcerpt
        BY <2>2, <3>1
      <4>3. PICK b \in Int : b = j * MaxExcerpt
        BY <2>2, <4>1
      <4>4. a < b /\ f[i] = piece.start + a /\ f[j] = piece.start + b
        BY <2>4, <2>5, <3>1, <4>1, <4>2, <4>3
      <4> QED  BY <1>1, <4>4
    <3> QED  BY <3>2, <3>3
  <2>10. \A i \in 0..(n - 1) : f[i + 1] <= piece.start + (i * MaxExcerpt + MaxExcerpt)
    BY <1>1, <2>1, <2>2 DEF Earlier
  <2>11. \A i \in 0..(n - 1) : f[i + 1] - f[i] <= MaxExcerpt
    <3> SUFFICES ASSUME NEW i \in 0..(n - 1) PROVE f[i + 1] - f[i] <= MaxExcerpt
      OBVIOUS
    <3>1. PICK a \in Int : a = i * MaxExcerpt
      BY <2>2
    <3>2. f[i] = piece.start + a /\ f[i + 1] <= piece.start + (a + MaxExcerpt)
      BY <2>5, <2>10, <3>1
    <3>3. f[i] \in Int /\ f[i + 1] \in Int
      BY <1>1, <2>8
    <3> QED  BY <1>1, <3>2, <3>3, LimitsAre
  <2>12. f[0] = piece.start
    <3>1. 0 * MaxExcerpt = 0 /\ 0 \in 0..(n - 1)
      BY <1>1, LimitsAre
    <3> QED  BY <1>1, <2>5, <3>1
  <2>13. f[0 + 1] - f[0] >= MinExcerpt
    <3>1. 1 * MaxExcerpt = MaxExcerpt /\ 0 + 1 \in 0..n
      BY <1>1, LimitsAre
    <3>2. f[0 + 1] = Earlier(piece.start + MaxExcerpt, piece.end)
      BY <2>1, <3>1
    <3> QED  BY <1>1, <2>12, <3>2, LimitsAre DEF Earlier
  <2> QED  BY <1>1, <2>6, <2>8, <2>9, <2>11, <2>12, <2>13
<1> QED  BY <1>2, <1>3

LEMMA PartsSound ==
  ASSUME NEW piece \in Spans, LongEnough(piece)
  PROVE  /\ \A p \in Parts(piece) :
              /\ p \in Spans /\ p.start < p.end /\ Length(p) <= MaxExcerpt
              /\ piece.start <= p.start /\ p.end <= piece.end
         /\ \A p, q \in Parts(piece) :
              \A tick \in Int : IsIn(tick, p) /\ IsIn(tick, q) => p = q
         /\ \A tick \in Int : IsIn(tick, piece) => \E p \in Parts(piece) : IsIn(tick, p)
         /\ \E p \in Parts(piece) : LongEnough(p)
<1>1. PICK n : n = CountOf(piece)
  OBVIOUS
<1>2. PICK f : f = CutsOf(piece)
  OBVIOUS
<1>3. /\ n \in Nat \ {0}
      /\ \A i \in 0..n : f[i] \in Int
      /\ f[0] = piece.start /\ f[n] = piece.end
      /\ \A i, j \in 0..n : i < j => f[i] < f[j]
      /\ \A i \in 0..(n - 1) : f[i + 1] - f[i] <= MaxExcerpt
      /\ \E i \in 0..(n - 1) : f[i + 1] - f[i] >= MinExcerpt
  BY <1>1, <1>2, CutsAre, Zenon
<1>4. \A p : p \in Parts(piece) <=> \E i \in 0..(n - 1) : p = Interval(f[i], f[i + 1])
  BY <1>1, <1>2, PartsAre, Zenon
<1>5. \A i \in 0..(n - 1) :
        /\ i \in 0..n /\ i + 1 \in 0..n /\ f[i] \in Int /\ f[i + 1] \in Int
        /\ f[i] < f[i + 1] /\ piece.start <= f[i] /\ f[i + 1] <= piece.end
  <2> SUFFICES ASSUME NEW i \in 0..(n - 1)
               PROVE  /\ i \in 0..n /\ i + 1 \in 0..n /\ f[i] \in Int /\ f[i + 1] \in Int
                      /\ f[i] < f[i + 1] /\ piece.start <= f[i] /\ f[i + 1] <= piece.end
    OBVIOUS
  <2>1. i \in 0..n /\ i + 1 \in 0..n /\ 0 \in 0..n /\ n \in 0..n /\ i < i + 1
    BY <1>3
  <2>2. i = 0 \/ 0 < i
    OBVIOUS
  <2>3. i + 1 = n \/ i + 1 < n
    BY <1>3
  <2> QED  BY <1>3, <2>1, <2>2, <2>3
<1>6. ASSUME NEW p \in Parts(piece)
      PROVE  /\ p \in Spans /\ p.start < p.end /\ Length(p) <= MaxExcerpt
             /\ piece.start <= p.start /\ p.end <= piece.end
  BY <1>3, <1>4, <1>5 DEF Interval, Spans, Length
<1>7. ASSUME NEW p \in Parts(piece), NEW q \in Parts(piece), NEW tick \in Int,
             IsIn(tick, p), IsIn(tick, q)
      PROVE  p = q
  <2>1. PICK i \in 0..(n - 1) : p = Interval(f[i], f[i + 1])
    BY <1>4
  <2>2. PICK j \in 0..(n - 1) : q = Interval(f[j], f[j + 1])
    BY <1>4
  <2>3. /\ f[i] <= tick /\ tick < f[i + 1]
        /\ f[j] <= tick /\ tick < f[j + 1]
    BY <1>7, <2>1, <2>2 DEF IsIn, Interval
  <2>4. ~(i < j)
    <3> SUFFICES ASSUME i < j PROVE FALSE
      OBVIOUS
    <3>1. i + 1 = j \/ f[i + 1] < f[j]
      BY <1>3, <1>5
    <3> QED  BY <1>5, <2>3, <3>1
  <2>5. ~(j < i)
    <3> SUFFICES ASSUME j < i PROVE FALSE
      OBVIOUS
    <3>1. j + 1 = i \/ f[j + 1] < f[i]
      BY <1>3, <1>5
    <3> QED  BY <1>5, <2>3, <3>1
  <2>6. i = j
    BY <2>4, <2>5, <1>3
  <2> QED  BY <2>1, <2>2, <2>6
<1>8. ASSUME NEW tick \in Int, IsIn(tick, piece)
      PROVE  \E p \in Parts(piece) : IsIn(tick, p)
  <2> DEFINE beyond == {i \in Nat : i \in 0..n /\ f[i] > tick}
  <2>1. beyond \in SUBSET Nat /\ beyond # {}
    <3>1. n \in beyond
      BY <1>3, <1>8 DEF IsIn
    <3> QED  BY <3>1
  <2>2. PICK m \in beyond : \A i \in beyond : m <= i
    <3> HIDE DEF beyond
    <3> QED  BY <2>1, LeastOf
  <2>3. m # 0
    BY <1>3, <1>8 DEF IsIn
  <2>4. m - 1 \in 0..(n - 1) /\ (m - 1) + 1 = m /\ m - 1 < m
    BY <1>3, <2>3
  <2>5. ~(f[m - 1] > tick)
    <3>1. m - 1 \notin beyond
      <4> HIDE DEF beyond
      <4>1. m \in Nat
        BY DEF beyond
      <4> QED  BY <2>2, <2>4, <4>1
    <3> QED  BY <1>3, <2>4, <3>1
  <2>6. IsIn(tick, Interval(f[m - 1], f[(m - 1) + 1]))
    BY <1>5, <2>4, <2>5 DEF IsIn, Interval
  <2> QED  BY <1>4, <2>4, <2>6
<1>9. \E p \in Parts(piece) : LongEnough(p)
  <2>1. PICK i \in 0..(n - 1) : f[i + 1] - f[i] >= MinExcerpt
    BY <1>3
  <2>2. LongEnough(Interval(f[i], f[i + 1]))
    BY <2>1 DEF LongEnough, Interval
  <2> QED  BY <1>4, <2>2
<1> QED  BY <1>6, <1>7, <1>8, <1>9

-----------------------------------------------------------------------------
(*                       Who speaks, and overlaps                          *)

Turns(duration) ==
  {T \in SUBSET [speaker : Nat, start : Nat, end : Nat] :
     IsFiniteSet(T) /\ \A t \in T : t.start < t.end /\ t.end <= duration}

LEMMA ActiveMember ==
  ASSUME NEW T, NEW tick, NEW s
  PROVE  s \in ActiveAt(T, tick) <=> \E t \in T : t.speaker = s /\ IsIn(tick, t)
BY Zenon DEF ActiveAt, IsIn

LEMMA ActiveFinite ==
  ASSUME NEW T, IsFiniteSet(T), NEW tick
  PROVE  IsFiniteSet(ActiveAt(T, tick))
<1> DEFINE here == {u \in T : IsIn(tick, u)}
           name == [t \in here |-> t.speaker]
<1>1. IsFiniteSet(here)
  BY FS_Subset
<1>2. \A s \in ActiveAt(T, tick) : \E t \in here : name[t] = s
  BY ActiveMember
<1>3. name \in [here -> ActiveAt(T, tick)]
  BY ActiveMember
<1>4. name \in Surjection(here, ActiveAt(T, tick))
  <2> HIDE DEF here, name
  <2> QED  BY <1>2, <1>3, Zenon DEF Surjection
<1> HIDE DEF here, name
<1> QED  BY <1>1, <1>4, FS_Surjection

LEMMA TwoOrMore ==
  ASSUME NEW S, IsFiniteSet(S)
  PROVE  Cardinality(S) >= 2 <=> \E a, b \in S : a # b
<1>1. Cardinality(S) \in Nat /\ (Cardinality(S) = 0 <=> S = {})
  BY FS_CardinalityType, FS_EmptySet
<1>2. Cardinality(S) = 1 <=> \E x : S = {x}
  BY FS_Singleton
<1>3. (\E a, b \in S : a # b) => S # {} /\ \A x : S # {x}
  OBVIOUS
<1>4. S # {} /\ (\A x : S # {x}) => \E a, b \in S : a # b
  <2> SUFFICES ASSUME S # {}, \A x : S # {x} PROVE \E a, b \in S : a # b
    OBVIOUS
  <2>1. PICK a : a \in S
    OBVIOUS
  <2>2. S # {a}
    OBVIOUS
  <2> QED  BY <2>1, <2>2
<1> QED  BY <1>1, <1>2, <1>3, <1>4

(* Who speaks changes only where a turn starts or ends.                    *)
LEMMA ChangeIsEdge ==
  ASSUME NEW duration \in Nat, NEW T \in Turns(duration), NEW n \in Int,
         ActiveAt(T, n - 1) # ActiveAt(T, n)
  PROVE  n \in Edges(T, duration)
<1>1. PICK s : ~(s \in ActiveAt(T, n - 1) <=> s \in ActiveAt(T, n))
  OBVIOUS
<1>2. PICK t \in T : ~(IsIn(n - 1, t) <=> IsIn(n, t))
  BY <1>1, ActiveMember
<1>3. t.start \in Nat /\ t.end \in Nat
  BY DEF Turns
<1>4. n = t.start \/ n = t.end
  BY <1>2, <1>3 DEF IsIn
<1> QED  BY <1>4 DEF Edges

LEMMA SegmentAt ==
  ASSUME NEW duration \in Nat, NEW T \in Turns(duration), NEW t \in 0..(duration - 1)
  PROVE  \E s \in Segments(T, duration) :
           /\ s.start \in Nat /\ s.end \in Nat /\ s.end <= duration /\ IsIn(t, s)
           /\ ActiveAt(T, s.start) = ActiveAt(T, t)
<1> DEFINE after == {n \in Nat : t + n = duration \/ ActiveAt(T, t + n) # ActiveAt(T, t)}
           before == {n \in Nat : t - n = -1 \/ ActiveAt(T, t - n) # ActiveAt(T, t)}
<1>1. duration - t \in after /\ t + 1 \in before
  OBVIOUS
<1>2. PICK n \in after : \A m \in after : n <= m
  <2> HIDE DEF after
  <2> QED  BY <1>1, LeastOf DEF after
<1>3. PICK k \in before : \A m \in before : k <= m
  <2> HIDE DEF before
  <2> QED  BY <1>1, LeastOf DEF before
<1>4. /\ n \in Nat /\ k \in Nat /\ n > 0 /\ k > 0 /\ t \in Int
      /\ t + n = duration \/ ActiveAt(T, t + n) # ActiveAt(T, t)
      /\ t - k = -1 \/ ActiveAt(T, t - k) # ActiveAt(T, t)
  OBVIOUS
<1>5. n <= duration - t /\ k <= t + 1
  <2> HIDE DEF after, before
  <2> QED  BY <1>1, <1>2, <1>3
<1>6. \A m \in Nat : m < n => ActiveAt(T, t + m) = ActiveAt(T, t)
  <2> SUFFICES ASSUME NEW m \in Nat, m < n PROVE ActiveAt(T, t + m) = ActiveAt(T, t)
    OBVIOUS
  <2>1. m \notin after
    <3> HIDE DEF after
    <3> QED  BY <1>2, <1>4
  <2> QED  BY <2>1
<1>7. \A m \in Nat : m < k => ActiveAt(T, t - m) = ActiveAt(T, t)
  <2> SUFFICES ASSUME NEW m \in Nat, m < k PROVE ActiveAt(T, t - m) = ActiveAt(T, t)
    OBVIOUS
  <2>1. m \notin before
    <3> HIDE DEF before
    <3> QED  BY <1>3, <1>4
  <2> QED  BY <2>1
<1> HIDE DEF after, before
<1>8. \A tick \in (t - k + 1)..(t + n - 1) : ActiveAt(T, tick) = ActiveAt(T, t)
  <2> SUFFICES ASSUME NEW tick \in (t - k + 1)..(t + n - 1)
               PROVE  ActiveAt(T, tick) = ActiveAt(T, t)
    OBVIOUS
  <2>1. CASE tick >= t
    <3>1. tick - t \in Nat /\ tick - t < n /\ t + (tick - t) = tick
      BY <1>4, <2>1
    <3> QED  BY <1>6, <3>1
  <2>2. CASE tick < t
    <3>1. t - tick \in Nat /\ t - tick < k /\ t - (t - tick) = tick
      BY <1>4, <2>2
    <3> QED  BY <1>7, <3>1
  <2> QED  BY <1>4, <2>1, <2>2
<1>9. PICK a \in Nat : a = t - k + 1
  BY <1>4, <1>5
<1>10. PICK b \in Nat : b = t + n
  BY <1>4
<1>11. /\ a <= t /\ t < b /\ b <= duration /\ a - 1 = t - k
       /\ \A tick \in a..(b - 1) : ActiveAt(T, tick) = ActiveAt(T, t)
  BY <1>4, <1>5, <1>8, <1>9, <1>10
<1>12. a > 0 => ActiveAt(T, a - 1) # ActiveAt(T, a)
  BY <1>4, <1>9, <1>11
<1>13. b < duration => ActiveAt(T, b) # ActiveAt(T, b - 1)
  BY <1>4, <1>10, <1>11
<1>14. ActiveAt(T, a) = ActiveAt(T, t) /\ ActiveAt(T, b - 1) = ActiveAt(T, t)
  BY <1>4, <1>11
<1>15. a \in Edges(T, duration)
  <2>1. CASE a = 0
    BY <2>1 DEF Edges
  <2>2. CASE a > 0
    BY <1>12, <2>2, ChangeIsEdge
  <2> QED  BY <2>1, <2>2
<1>16. b \in Edges(T, duration)
  <2>1. CASE b = duration
    BY <2>1 DEF Edges
  <2>2. CASE b < duration
    BY <1>13, <2>2, ChangeIsEdge
  <2> QED  BY <1>11, <2>1, <2>2
<1> DEFINE s == [start |-> a, end |-> b]
<1>17. s \in [start : Edges(T, duration), end : Edges(T, duration)]
  BY <1>15, <1>16
<1>18. /\ s.start < s.end
       /\ \A tick \in s.start..(s.end - 1) : ActiveAt(T, tick) = ActiveAt(T, s.start)
       /\ s.start > 0 => ActiveAt(T, s.start - 1) # ActiveAt(T, s.start)
       /\ s.end < duration => ActiveAt(T, s.end) # ActiveAt(T, s.start)
  BY <1>11, <1>12, <1>13, <1>14
<1>19. s \in Segments(T, duration)
  <2> HIDE DEF s
  <2> QED  BY <1>17, <1>18, Zenon DEF Segments
<1> QED  BY <1>11, <1>14, <1>19 DEF IsIn

LEMMA OverlapAt ==
  ASSUME NEW duration \in Nat, NEW T \in Turns(duration), NEW t \in 0..(duration - 1),
         Cardinality(ActiveAt(T, t)) >= 2
  PROVE  \E o \in Overlaps(T, duration) : IsIn(t, o)
<1>1. PICK g \in Segments(T, duration) : IsIn(t, g) /\ ActiveAt(T, g.start) = ActiveAt(T, t)
  BY SegmentAt
<1> DEFINE o == [start |-> g.start, end |-> g.end, speakers |-> ActiveAt(T, g.start)]
<1>2. o \in Overlaps(T, duration)
  BY <1>1, Zenon DEF Overlaps
<1>3. IsIn(t, o)
  BY <1>1 DEF IsIn
<1> QED  BY <1>2, <1>3

LEMMA OverlapIs ==
  ASSUME NEW duration \in Nat, NEW T \in Turns(duration), NEW o \in Overlaps(T, duration)
  PROVE  /\ o.start \in 0..duration /\ o.end \in 0..duration /\ o.start < o.end
         /\ \A tick \in Int : IsIn(tick, o) => Cardinality(ActiveAt(T, tick)) >= 2
<1>1. PICK g \in Segments(T, duration) :
        /\ o = [start |-> g.start, end |-> g.end, speakers |-> ActiveAt(T, g.start)]
        /\ Cardinality(ActiveAt(T, g.start)) >= 2
  BY Zenon DEF Overlaps
<1>2. /\ g \in [start : Edges(T, duration), end : Edges(T, duration)] /\ g.start < g.end
      /\ \A tick \in g.start..(g.end - 1) : ActiveAt(T, tick) = ActiveAt(T, g.start)
  BY Zenon DEF Segments
<1>3. \A t \in T : t.start \in 0..duration /\ t.end \in 0..duration
  BY DEF Turns
<1>4. Edges(T, duration) \subseteq 0..duration
  BY <1>3 DEF Edges
<1>5. g.start \in 0..duration /\ g.end \in 0..duration
  BY <1>2, <1>4
<1>6. \A tick \in Int : IsIn(tick, g) => Cardinality(ActiveAt(T, tick)) >= 2
  BY <1>1, <1>2, <1>5 DEF IsIn
<1> QED  BY <1>1, <1>2, <1>5, <1>6 DEF IsIn

-----------------------------------------------------------------------------
(*                              Exemplars                                  *)

LEMMA InputIs ==
  ASSUME input \in ExemplarsInput
  PROVE  /\ input.duration \in Nat /\ input.turns \in Turns(input.duration)
         /\ IsFiniteSet(input.turns) /\ Transition \in Nat /\ Transition > 0
BY LimitsAre DEF ExemplarsInput, Turns

(* What is blocked is near to a tick at which two speakers are active.     *)
LEMMA BlockedIs ==
  ASSUME input \in ExemplarsInput
  PROVE  /\ \A b \in Blocked : b \in Spans
         /\ \A tick \in 0..(input.duration - 1) :
              tick \in Covered(Blocked) <=>
                \E u \in 0..(input.duration - 1) :
                  /\ Cardinality(ActiveAt(input.turns, u)) >= 2
                  /\ u - Transition <= tick /\ tick <= u + Transition
<1> DEFINE overlaps == Overlaps(input.turns, input.duration)
           around(o) == Interval(Later(0, o.start - Transition),
                                 Earlier(input.duration, o.end + Transition))
<1>1. \A b : b \in Blocked <=> \E o \in overlaps : b = around(o)
  BY Zenon DEF Blocked
<1>2. ASSUME NEW o \in overlaps
      PROVE  /\ o.start \in 0..input.duration /\ o.end \in 0..input.duration /\ o.start < o.end
             /\ \A tick \in Int : IsIn(tick, o) => Cardinality(ActiveAt(input.turns, tick)) >= 2
  BY InputIs, OverlapIs
<1>3. ASSUME NEW o \in overlaps, NEW tick \in 0..(input.duration - 1)
      PROVE  /\ around(o) \in Spans
             /\ IsIn(tick, around(o)) <=> o.start - Transition <= tick /\ tick < o.end + Transition
  BY <1>2, InputIs DEF Interval, Later, Earlier, Spans, IsIn
<1>4. \A o \in overlaps : around(o) \in Spans
  BY <1>2, InputIs DEF Interval, Later, Earlier, Spans
<1> HIDE DEF around, overlaps
<1>5. \A b \in Blocked : b \in Spans
  BY <1>1, <1>4
<1>6. ASSUME NEW tick \in 0..(input.duration - 1)
      PROVE  tick \in Covered(Blocked) <=>
               \E o \in overlaps : o.start - Transition <= tick /\ tick < o.end + Transition
  <2>1. tick \in Covered(Blocked) <=> \E b \in Blocked : IsIn(tick, b)
    BY <1>5, CoveredMember DEF Spans
  <2> QED  BY <1>1, <1>3, <2>1
<1>7. ASSUME NEW tick \in 0..(input.duration - 1), NEW o \in overlaps,
             o.start - Transition <= tick, tick < o.end + Transition
      PROVE  \E u \in 0..(input.duration - 1) :
               /\ Cardinality(ActiveAt(input.turns, u)) >= 2
               /\ u - Transition <= tick /\ tick <= u + Transition
  <2> DEFINE u == IF tick < o.start THEN o.start ELSE IF tick < o.end THEN tick ELSE o.end - 1
  <2>1. /\ u \in 0..(input.duration - 1) /\ IsIn(u, o)
        /\ u - Transition <= tick /\ tick <= u + Transition
    BY <1>2, <1>7, InputIs DEF IsIn
  <2> HIDE DEF u
  <2> QED  BY <1>2, <2>1
<1>8. ASSUME NEW tick \in 0..(input.duration - 1), NEW u \in 0..(input.duration - 1),
             Cardinality(ActiveAt(input.turns, u)) >= 2,
             u - Transition <= tick, tick <= u + Transition
      PROVE  \E o \in overlaps : o.start - Transition <= tick /\ tick < o.end + Transition
  <2>1. PICK o \in overlaps : IsIn(u, o)
    BY <1>8, InputIs, OverlapAt DEF overlaps
  <2>2. o.start - Transition <= tick /\ tick < o.end + Transition
    BY <1>2, <1>8, <2>1, InputIs DEF IsIn
  <2> QED  BY <2>2
<1> QED  BY <1>5, <1>6, <1>7, <1>8

(* The part of a turn that excerpts may be taken from.                     *)
Clean(turn) ==
  {tick \in Int : /\ turn.start + Transition <= tick /\ tick < turn.end - Transition
                  /\ tick \notin Covered(Blocked)}

LEMMA PiecesAre ==
  ASSUME input \in ExemplarsInput, NEW turn \in Spans
  PROVE  /\ Blocked = {} =>
              CleanPieces(turn) = {Interval(turn.start + Transition, turn.end - Transition)}
         /\ Blocked # {} => CleanPieces(turn) = RunsOf(Clean(turn))
         /\ Clean(turn) \in SUBSET Int
<1> DEFINE inner == Interval(turn.start + Transition, turn.end - Transition)
<1>1. inner.start \in Int /\ inner.end \in Int
  BY InputIs DEF Spans, Interval
<1>2. \A tick : tick \in Covered({inner}) <=> tick \in Int /\ IsIn(tick, inner)
  <2> HIDE DEF inner
  <2>1. \A i \in {inner} : i.start \in Int /\ i.end \in Int
    BY <1>1
  <2>2. ASSUME NEW tick
        PROVE  tick \in Covered({inner}) <=> tick \in Int /\ \E i \in {inner} : IsIn(tick, i)
    BY <2>1, CoveredMember
  <2> QED  BY <2>2
<1>3. Covered({inner}) \ Covered(Blocked) = Clean(turn)
  BY <1>2 DEF Clean, IsIn, Interval
<1> HIDE DEF inner
<1>4. Blocked # {} => CleanPieces(turn) = RunsOf(Clean(turn))
  BY <1>3, Zenon DEF CleanPieces, inner
<1>5. Blocked = {} => CleanPieces(turn) = {inner}
  BY Zenon DEF CleanPieces, inner
<1> QED  BY <1>4, <1>5 DEF inner, Clean

LEMMA NothingBlocked == Blocked = {} => Covered(Blocked) = {}
BY Zenon DEF Covered

LEMMA PieceIs ==
  ASSUME input \in ExemplarsInput, NEW turn \in Spans, NEW c \in CleanPieces(turn)
  PROVE  /\ c \in Spans
         /\ turn.start + Transition <= c.start /\ c.end <= turn.end - Transition
         /\ \A tick \in Int : IsIn(tick, c) => tick \in Clean(turn)
<1>1. CASE Blocked = {}
  <2>1. c = Interval(turn.start + Transition, turn.end - Transition)
    BY <1>1, PiecesAre
  <2> QED  BY <1>1, <2>1, InputIs, NothingBlocked DEF Interval, Spans, IsIn, Clean
<1>2. CASE Blocked # {}
  <2>1. c \in RunsOf(Clean(turn)) /\ Clean(turn) \in SUBSET Int
    BY <1>2, PiecesAre
  <2>2. /\ c \in Spans /\ c.start \in Clean(turn) /\ c.end - 1 \in Clean(turn)
        /\ \A tick \in Int : IsIn(tick, c) => tick \in Clean(turn)
    BY <2>1, RunIs
  <2>3. turn.start + Transition <= c.start /\ c.end - 1 < turn.end - Transition
    BY <2>2 DEF Clean
  <2> QED  BY <2>2, <2>3, InputIs DEF Spans
<1> QED  BY <1>1, <1>2

LEMMA PiecesApart ==
  ASSUME input \in ExemplarsInput, NEW turn \in Spans, NEW c \in CleanPieces(turn),
         NEW d \in CleanPieces(turn), NEW tick \in Int, IsIn(tick, c), IsIn(tick, d)
  PROVE  c = d
<1>1. CASE Blocked = {}
  BY <1>1, PiecesAre
<1>2. CASE Blocked # {}
  BY <1>2, PiecesAre, RunsApart
<1> QED  BY <1>1, <1>2

(* A stretch that is clean lies in one piece.                              *)
LEMMA PieceAround ==
  ASSUME input \in ExemplarsInput, NEW turn \in Spans, NEW a \in Int, NEW b \in Int, a < b,
         \A tick \in a..(b - 1) : tick \in Clean(turn)
  PROVE  \E c \in CleanPieces(turn) : c.start <= a /\ b <= c.end
<1>1. a \in a..(b - 1) /\ b - 1 \in a..(b - 1) /\ a \in Clean(turn) /\ b - 1 \in Clean(turn)
  OBVIOUS
<1>2. CASE Blocked = {}
  <2>1. turn.start + Transition <= a /\ b <= turn.end - Transition
    BY <1>1, InputIs DEF Clean, Spans
  <2>2. PICK c : c = Interval(turn.start + Transition, turn.end - Transition)
    OBVIOUS
  <2>3. c \in CleanPieces(turn)
    BY <1>2, <2>2, PiecesAre
  <2>4. c.start <= a /\ b <= c.end
    BY <2>1, <2>2 DEF Interval
  <2> QED  BY <2>3, <2>4
<1>3. CASE Blocked # {}
  <2>1. /\ CleanPieces(turn) = RunsOf(Clean(turn)) /\ Clean(turn) \in SUBSET Int
        /\ turn.start + Transition \in Int /\ turn.end - Transition \in Int
        /\ \A tick \in Clean(turn) :
             turn.start + Transition <= tick /\ tick <= turn.end - Transition
    BY <1>3, PiecesAre, InputIs DEF Spans, Clean
  <2>2. PICK c \in RunsOf(Clean(turn)) : IsIn(a, c)
    BY <1>1, <2>1, RunAt
  <2>3. c.start <= a /\ b <= c.end
    BY <1>1, <2>1, <2>2, RunContains
  <2> QED  BY <2>1, <2>2, <2>3
<1> QED  BY <1>2, <1>3

(* When a speaker is active.                                               *)
SpokenBy(s) == {tick \in Int : s \in ActiveAt(input.turns, tick)}

LEMMA SpokenIs ==
  ASSUME input \in ExemplarsInput, NEW s
  PROVE  /\ \A tick \in SpokenBy(s) : tick \in 0..(input.duration - 1)
         /\ MergedTurns(s) = RunsOf(SpokenBy(s))
<1>1. \A t \in input.turns : t.start \in Nat /\ t.end \in Nat /\ t.end <= input.duration
  BY DEF ExemplarsInput
<1> DEFINE hers == {t \in input.turns : t.speaker = s}
<1>2. ASSUME NEW tick
      PROVE  tick \in Covered(hers) <=> tick \in Int /\ s \in ActiveAt(input.turns, tick)
  <2>1. \A t \in hers : t.start \in Int /\ t.end \in Int
    BY <1>1
  <2>2. tick \in Covered(hers) <=> tick \in Int /\ \E t \in hers : IsIn(tick, t)
    <3> HIDE DEF hers
    <3> QED  BY <2>1, CoveredMember
  <2> QED  BY <2>2, ActiveMember
<1>3. Covered(hers) = SpokenBy(s)
  BY <1>2 DEF SpokenBy
<1>4. MergedTurns(s) = RunsOf(SpokenBy(s))
  BY <1>3, Zenon DEF MergedTurns
<1>5. ASSUME NEW tick \in SpokenBy(s) PROVE tick \in 0..(input.duration - 1)
  <2>1. tick \in Int /\ \E t \in input.turns : IsIn(tick, t)
    BY ActiveMember DEF SpokenBy
  <2> QED  BY <1>1, <2>1, InputIs DEF IsIn
<1> QED  BY <1>4, <1>5

LEMMA MergedIs ==
  ASSUME input \in ExemplarsInput, NEW s, NEW m \in MergedTurns(s)
  PROVE  /\ m \in Spans /\ m.start < m.end /\ 0 <= m.start /\ m.end <= input.duration
         /\ \A tick \in Int : IsIn(tick, m) => tick \in SpokenBy(s)
<1>1. m \in RunsOf(SpokenBy(s)) /\ SpokenBy(s) \in SUBSET Int
  BY SpokenIs DEF SpokenBy
<1>2. /\ m \in Spans /\ m.start < m.end /\ m.start \in SpokenBy(s) /\ m.end - 1 \in SpokenBy(s)
      /\ \A tick \in Int : IsIn(tick, m) => tick \in SpokenBy(s)
  BY <1>1, RunIs
<1> QED  BY <1>2, SpokenIs, InputIs DEF Spans

LEMMA MergedApart ==
  ASSUME input \in ExemplarsInput, NEW s, NEW m \in MergedTurns(s), NEW k \in MergedTurns(s),
         NEW tick \in Int, IsIn(tick, m), IsIn(tick, k)
  PROVE  m = k
<1>1. SpokenBy(s) \in SUBSET Int /\ MergedTurns(s) = RunsOf(SpokenBy(s))
  BY SpokenIs DEF SpokenBy
<1> QED  BY <1>1, RunsApart

LEMMA MergedAt ==
  ASSUME input \in ExemplarsInput, NEW s, NEW tick \in SpokenBy(s)
  PROVE  \E m \in MergedTurns(s) : IsIn(tick, m)
<1>1. SpokenBy(s) \in SUBSET Int
  BY DEF SpokenBy
<1>2. MergedTurns(s) = RunsOf(SpokenBy(s)) /\ \A u \in SpokenBy(s) : u \in 0..(input.duration - 1)
  BY SpokenIs
<1>3. PICK low \in Int, high \in Int : low = 0 /\ high = input.duration - 1
  BY InputIs
<1>4. \A u \in SpokenBy(s) : low <= u /\ u <= high
  BY <1>2, <1>3
<1>5. \E r \in RunsOf(SpokenBy(s)) : IsIn(tick, r)
  BY <1>1, <1>4, RunAt
<1> QED  BY <1>2, <1>5

-----------------------------------------------------------------------------
(* The pieces that are long enough, and their parts.                       *)
LongPieces(turn) == {k \in CleanPieces(turn) : LongEnough(k)}

AllOf(s) == UNION {Candidates(t) : t \in MergedTurns(s)}

LEMMA PartsMember ==
  ASSUME NEW turn, NEW p
  PROVE  p \in UNION {Parts(c) : c \in LongPieces(turn)} <=>
           \E c \in CleanPieces(turn) : LongEnough(c) /\ p \in Parts(c)
BY Zenon DEF LongPieces

LEMMA CandidateMember ==
  ASSUME NEW s, NEW p
  PROVE  p \in AllOf(s) <=>
           \E t \in MergedTurns(s) : \E c \in CleanPieces(t) :
             LongEnough(c) /\ p \in Parts(c) /\ LongEnough(p)
<1>1. \A t : p \in Candidates(t) <=> p \in UNION {Parts(c) : c \in LongPieces(t)} /\ LongEnough(p)
  BY Zenon DEF Candidates, LongPieces
<1>2. p \in AllOf(s) <=> \E t \in MergedTurns(s) : p \in Candidates(t)
  BY Zenon DEF AllOf
<1> QED  BY <1>1, <1>2, PartsMember

(* A clean tick is not near to a tick at which another speaker is active.  *)
LEMMA AloneAround ==
  ASSUME input \in ExemplarsInput, NEW s, NEW tick \in SpokenBy(s),
         NEW u \in 0..(input.duration - 1), u \notin Covered(Blocked),
         u - Transition <= tick, tick <= u + Transition
  PROVE  ActiveAt(input.turns, tick) = {s}
<1>1. tick \in 0..(input.duration - 1) /\ s \in ActiveAt(input.turns, tick)
  BY SpokenIs DEF SpokenBy
<1>2. tick - Transition <= u /\ u <= tick + Transition
  BY <1>1, InputIs
<1>3. ~(Cardinality(ActiveAt(input.turns, tick)) >= 2)
  BY <1>1, <1>2, BlockedIs
<1>4. \A a, b \in ActiveAt(input.turns, tick) : a = b
  BY <1>3, InputIs, ActiveFinite, TwoOrMore
<1> QED  BY <1>1, <1>4

LEMMA CandidateIs ==
  ASSUME input \in ExemplarsInput, NEW s, NEW p \in AllOf(s)
  PROVE  /\ p \in Spans /\ p.start < p.end
         /\ p.end - p.start \in MinExcerpt..MaxExcerpt
         /\ 0 <= p.start - Transition /\ p.end + Transition <= input.duration
         /\ \A tick \in (p.start - Transition)..(p.end + Transition - 1) :
              ActiveAt(input.turns, tick) = {s}
<1>1. PICK t \in MergedTurns(s) : \E c \in CleanPieces(t) :
        LongEnough(c) /\ p \in Parts(c) /\ LongEnough(p)
  BY CandidateMember
<1>2. PICK c \in CleanPieces(t) : LongEnough(c) /\ p \in Parts(c) /\ LongEnough(p)
  BY <1>1
<1>3. /\ t \in Spans /\ t.start < t.end /\ 0 <= t.start /\ t.end <= input.duration
      /\ \A tick \in Int : IsIn(tick, t) => tick \in SpokenBy(s)
  BY MergedIs
<1>4. /\ c \in Spans /\ t.start + Transition <= c.start /\ c.end <= t.end - Transition
      /\ \A tick \in Int : IsIn(tick, c) => tick \in Clean(t)
  BY <1>3, PieceIs
<1>5. /\ p \in Spans /\ p.start < p.end /\ Length(p) <= MaxExcerpt
      /\ c.start <= p.start /\ p.end <= c.end
  BY <1>2, <1>4, PartsSound
<1>6. p.end - p.start \in MinExcerpt..MaxExcerpt
  BY <1>2, <1>5, LimitsAre DEF LongEnough, Length, Spans
<1>7. 0 <= p.start - Transition /\ p.end + Transition <= input.duration
  BY <1>3, <1>4, <1>5, InputIs DEF Spans
<1>8. ASSUME NEW tick \in (p.start - Transition)..(p.end + Transition - 1)
      PROVE  ActiveAt(input.turns, tick) = {s}
  <2>1. IsIn(tick, t)
    BY <1>3, <1>4, <1>5, InputIs DEF Spans, IsIn
  <2>2. tick \in SpokenBy(s)
    BY <1>3, <2>1
  <2> DEFINE u == IF tick < p.start THEN p.start ELSE IF tick < p.end THEN tick ELSE p.end - 1
  <2>3. /\ u \in Int /\ p.start <= u /\ u < p.end
        /\ u - Transition <= tick /\ tick <= u + Transition
    BY <1>5, InputIs DEF Spans
  <2> HIDE DEF u
  <2>4. IsIn(u, c)
    BY <1>4, <1>5, <2>3 DEF IsIn, Spans
  <2>5. u \notin Covered(Blocked)
    BY <1>4, <2>3, <2>4 DEF Clean
  <2>6. u \in 0..(input.duration - 1)
    BY <1>5, <1>7, <2>3, InputIs DEF Spans
  <2> QED  BY <2>2, <2>3, <2>5, <2>6, AloneAround
<1> QED  BY <1>5, <1>6, <1>7, <1>8

LEMMA CandidatesApart ==
  ASSUME input \in ExemplarsInput, NEW s, NEW p \in AllOf(s), NEW q \in AllOf(s),
         NEW tick \in Int, IsIn(tick, p), IsIn(tick, q)
  PROVE  p = q
<1>1. PICK t \in MergedTurns(s) : \E c \in CleanPieces(t) : LongEnough(c) /\ p \in Parts(c)
  BY CandidateMember
<1>2. PICK c \in CleanPieces(t) : LongEnough(c) /\ p \in Parts(c)
  BY <1>1
<1>3. PICK k \in MergedTurns(s) : \E d \in CleanPieces(k) : LongEnough(d) /\ q \in Parts(d)
  BY CandidateMember
<1>4. PICK d \in CleanPieces(k) : LongEnough(d) /\ q \in Parts(d)
  BY <1>3
<1>5. t \in Spans /\ k \in Spans
  BY MergedIs
<1>6. /\ c \in Spans /\ t.start + Transition <= c.start /\ c.end <= t.end - Transition
      /\ d \in Spans /\ k.start + Transition <= d.start /\ d.end <= k.end - Transition
  BY <1>5, PieceIs
<1>7. /\ p \in Spans /\ c.start <= p.start /\ p.end <= c.end
      /\ q \in Spans /\ d.start <= q.start /\ q.end <= d.end
  BY <1>2, <1>4, <1>6, PartsSound
<1>8. IsIn(tick, c) /\ IsIn(tick, d)
  BY <1>6, <1>7 DEF IsIn, Spans
<1>9. IsIn(tick, t) /\ IsIn(tick, k)
  BY <1>5, <1>6, <1>8, InputIs DEF IsIn, Spans
<1>10. t = k
  BY <1>9, MergedApart
<1>11. c = d
  BY <1>5, <1>8, <1>10, PiecesApart
<1> QED  BY <1>2, <1>4, <1>6, <1>11, PartsSound

(* A stretch of time at which a speaker is active alone, long enough for   *)
(* an excerpt and the transitions around it, gives a candidate.            *)
AloneBy(s) == {tick \in SpokenBy(s) : ActiveAt(input.turns, tick) = {s}}

LEMMA AloneGives ==
  ASSUME input \in ExemplarsInput, NEW s, NEW r \in RunsOf(AloneBy(s)),
         r.end - r.start >= MinExcerpt + 2 * Transition
  PROVE  AllOf(s) # {}
<1>1. /\ AloneBy(s) \in SUBSET Int /\ SpokenBy(s) \in SUBSET Int
      /\ \A tick \in AloneBy(s) :
           tick \in 0..(input.duration - 1) /\ tick \in SpokenBy(s)
             /\ ActiveAt(input.turns, tick) = {s}
  BY SpokenIs DEF AloneBy, SpokenBy
<1>2. /\ r \in Spans /\ r.start < r.end /\ r.start \in AloneBy(s)
      /\ \A tick \in Int : IsIn(tick, r) => tick \in AloneBy(s)
  BY <1>1, RunIs
<1>3. r.start \in Int /\ r.end \in Int
  BY <1>2 DEF Spans
<1>4. PICK m \in MergedTurns(s) : IsIn(r.start, m)
  BY <1>1, <1>2, MergedAt
<1>5. m \in Spans
  BY MergedIs
<1>6. m.start <= r.start /\ r.end <= m.end
  <2>1. m \in RunsOf(SpokenBy(s))
    BY SpokenIs
  <2>2. \A tick \in r.start..(r.end - 1) : tick \in SpokenBy(s)
    BY <1>1, <1>2, <1>3 DEF IsIn
  <2>3. r.start \in r.start..(r.end - 1)
    BY <1>2, <1>3
  <2> QED  BY <1>1, <1>3, <1>4, <2>1, <2>2, <2>3, RunContains
<1>7. PICK a \in Int, b \in Int : a = r.start + Transition /\ b = r.end - Transition
  BY <1>3, InputIs
<1>8. a < b /\ b - a >= MinExcerpt
  BY <1>3, <1>7, InputIs, LimitsAre
<1>9. ASSUME NEW tick \in a..(b - 1) PROVE tick \in Clean(m)
  <2>1. tick \in Int /\ m.start + Transition <= tick /\ tick < m.end - Transition
    BY <1>3, <1>5, <1>6, <1>7, InputIs DEF Spans
  <2>2. IsIn(tick, r)
    BY <1>3, <1>7, InputIs DEF IsIn
  <2>3. tick \in 0..(input.duration - 1)
    BY <1>1, <1>2, <2>1, <2>2
  <2>4. ASSUME NEW u \in 0..(input.duration - 1), u - Transition <= tick, tick <= u + Transition
        PROVE  ~(Cardinality(ActiveAt(input.turns, u)) >= 2)
    <3>1. IsIn(u, r)
      BY <1>3, <1>7, <2>4, InputIs DEF IsIn
    <3>2. ActiveAt(input.turns, u) = {s}
      BY <1>1, <1>2, <3>1
    <3> QED  BY <3>2, FS_Singleton
  <2>5. tick \notin Covered(Blocked)
    BY <2>3, <2>4, BlockedIs
  <2> QED  BY <2>1, <2>5 DEF Clean
<1>10. PICK c \in CleanPieces(m) : c.start <= a /\ b <= c.end
  BY <1>5, <1>8, <1>9, PieceAround
<1>11. c \in Spans
  BY <1>5, PieceIs
<1>12. LongEnough(c)
  BY <1>8, <1>10, <1>11, LimitsAre DEF LongEnough, Spans
<1>13. PICK p \in Parts(c) : LongEnough(p)
  BY <1>11, <1>12, PartsSound
<1>14. p \in AllOf(s)
  BY <1>12, <1>13, CandidateMember
<1> QED  BY <1>14

LEMMA GivesAlone ==
  ASSUME input \in ExemplarsInput, NEW s, AllOf(s) # {}
  PROVE  \E r \in RunsOf(AloneBy(s)) : r.end - r.start >= MinExcerpt + 2 * Transition
<1>1. PICK p \in AllOf(s) : TRUE
  OBVIOUS
<1>2. /\ p \in Spans /\ p.start < p.end
      /\ p.end - p.start \in MinExcerpt..MaxExcerpt
      /\ 0 <= p.start - Transition /\ p.end + Transition <= input.duration
      /\ \A tick \in (p.start - Transition)..(p.end + Transition - 1) :
           ActiveAt(input.turns, tick) = {s}
  BY CandidateIs
<1>3. AloneBy(s) \in SUBSET Int
      /\ \A tick \in AloneBy(s) : tick \in 0..(input.duration - 1)
  BY SpokenIs DEF AloneBy, SpokenBy
<1>4. PICK a \in Int, b \in Int : a = p.start - Transition /\ b = p.end + Transition
  BY <1>2, InputIs DEF Spans
<1>5. a < b /\ b - a >= MinExcerpt + 2 * Transition
  BY <1>2, <1>4, InputIs, LimitsAre DEF Spans
<1>6. ASSUME NEW tick \in a..(b - 1) PROVE tick \in AloneBy(s)
  <2>1. tick \in (p.start - Transition)..(p.end + Transition - 1)
    BY <1>2, <1>4, InputIs DEF Spans
  <2>2. ActiveAt(input.turns, tick) = {s}
    BY <1>2, <2>1
  <2> QED  BY <2>2 DEF AloneBy, SpokenBy
<1>7. a \in a..(b - 1) /\ a \in AloneBy(s)
  BY <1>5, <1>6
<1>8. PICK low \in Int, high \in Int : low = 0 /\ high = input.duration - 1
  BY InputIs
<1>9. \A u \in AloneBy(s) : low <= u /\ u <= high
  BY <1>3, <1>8
<1>10. PICK r \in RunsOf(AloneBy(s)) : IsIn(a, r)
  BY <1>3, <1>7, <1>9, RunAt
<1>11. r.start <= a /\ b <= r.end
  BY <1>3, <1>6, <1>7, <1>10, RunContains
<1>12. r \in Spans
  BY <1>3, RunIs
<1> QED  BY <1>5, <1>11, <1>12, LimitsAre DEF Spans

-----------------------------------------------------------------------------
(*                       Nothing is dropped silently                       *)

LEMMA ExclusionsMember ==
  ASSUME NEW turn, NEW x
  PROVE  x \in ExclusionsOf(turn) <=>
           \/ x = Interval(turn.start, Earlier(turn.end, turn.start + Transition))
           \/ x = Interval(Later(turn.start, turn.end - Transition), turn.end)
           \/ \E b \in Blocked :
                /\ Intersect(b, turn)
                /\ x = Interval(Later(turn.start, b.start), Earlier(turn.end, b.end))
           \/ x \in CleanPieces(turn) /\ ~LongEnough(x)
           \/ \E c \in CleanPieces(turn) : LongEnough(c) /\ x \in Parts(c) /\ ~LongEnough(x)
           \/ CleanPieces(turn) = {} /\ x = turn
<1> DEFINE near == {Interval(Later(turn.start, b.start), Earlier(turn.end, b.end)) :
                      b \in {k \in Blocked : Intersect(k, turn)}}
           parts == UNION {Parts(c) : c \in LongPieces(turn)}
<1>1. x \in near <=> \E b \in Blocked :
         /\ Intersect(b, turn)
         /\ x = Interval(Later(turn.start, b.start), Earlier(turn.end, b.end))
  BY Zenon
<1>2. x \in parts <=> \E c \in CleanPieces(turn) : LongEnough(c) /\ x \in Parts(c)
  BY PartsMember
<1>3. ExclusionsOf(turn) =
         {Interval(turn.start, Earlier(turn.end, turn.start + Transition)),
          Interval(Later(turn.start, turn.end - Transition), turn.end)}
         \union near \union {c \in CleanPieces(turn) : ~LongEnough(c)}
         \union {p \in parts : ~LongEnough(p)}
         \union (IF CleanPieces(turn) = {} THEN {turn} ELSE {})
  BY Zenon DEF ExclusionsOf, LongPieces
<1> HIDE DEF near, parts
<1> QED  BY <1>1, <1>2, <1>3

LEMMA TurnAccounted ==
  ASSUME input \in ExemplarsInput, NEW s, NEW m \in MergedTurns(s), NEW tick \in Int, IsIn(tick, m)
  PROVE  \E x \in AllOf(s) \union ExclusionsOf(m) :
           x.start \in Int /\ x.end \in Int /\ IsIn(tick, x)
<1>1. m \in Spans /\ m.start \in Int /\ m.end \in Int /\ 0 <= m.start /\ m.end <= input.duration
  BY MergedIs DEF Spans
<1>2. CASE tick < m.start + Transition
  <2>1. PICK x : x = Interval(m.start, Earlier(m.end, m.start + Transition))
    OBVIOUS
  <2>2. x.start \in Int /\ x.end \in Int /\ IsIn(tick, x)
    BY <1>1, <1>2, <2>1, InputIs DEF Interval, Earlier, IsIn
  <2>3. x \in ExclusionsOf(m)
    BY <2>1, ExclusionsMember
  <2> QED  BY <2>2, <2>3
<1>3. CASE m.end - Transition <= tick
  <2>1. PICK x : x = Interval(Later(m.start, m.end - Transition), m.end)
    OBVIOUS
  <2>2. x.start \in Int /\ x.end \in Int /\ IsIn(tick, x)
    BY <1>1, <1>3, <2>1, InputIs DEF Interval, Later, IsIn
  <2>3. x \in ExclusionsOf(m)
    BY <2>1, ExclusionsMember
  <2> QED  BY <2>2, <2>3
<1>4. CASE tick \in Covered(Blocked)
  <2>1. \A b \in Blocked : b.start \in Int /\ b.end \in Int
    BY BlockedIs DEF Spans
  <2>2. PICK b \in Blocked : IsIn(tick, b)
    BY <1>4, <2>1, CoveredMember
  <2>3. Intersect(b, m)
    BY <1>1, <2>1, <2>2 DEF Intersect, IsIn
  <2>4. PICK x : x = Interval(Later(m.start, b.start), Earlier(m.end, b.end))
    OBVIOUS
  <2>5. x.start \in Int /\ x.end \in Int /\ IsIn(tick, x)
    BY <1>1, <2>1, <2>2, <2>4 DEF Interval, Later, Earlier, IsIn
  <2>6. x \in ExclusionsOf(m)
    BY <2>3, <2>4, ExclusionsMember
  <2> QED  BY <2>5, <2>6
<1>5. CASE tick \in Clean(m)
  <2>1. PICK b \in Int : b = tick + 1
    OBVIOUS
  <2>2. tick < b /\ \A u \in tick..(b - 1) : u \in Clean(m)
    BY <1>5, <2>1
  <2>3. PICK c \in CleanPieces(m) : c.start <= tick /\ b <= c.end
    BY <1>1, <2>2, PieceAround
  <2>4. c \in Spans /\ IsIn(tick, c)
    BY <1>1, <2>1, <2>3, PieceIs DEF IsIn, Spans
  <2>5. CASE ~LongEnough(c)
    BY <2>4, <2>5, ExclusionsMember DEF Spans
  <2>6. CASE LongEnough(c)
    <3>1. PICK p \in Parts(c) : IsIn(tick, p)
      BY <2>4, <2>6, PartsSound
    <3>2. p \in Spans
      BY <2>4, <2>6, PartsSound
    <3>3. p \in AllOf(s) \/ p \in ExclusionsOf(m)
      BY <2>6, CandidateMember, ExclusionsMember
    <3> QED  BY <3>1, <3>2, <3>3 DEF Spans
  <2> QED  BY <2>5, <2>6
<1> QED  BY <1>1, <1>2, <1>3, <1>4, <1>5, InputIs DEF Clean

-----------------------------------------------------------------------------
(*                     The order of the candidates                         *)

LEMMA LexOfThree ==
  ASSUME NEW a, NEW b, NEW c, NEW x, NEW y, NEW z
  PROVE  LexLeq(<<a, b, c>>, <<x, y, z>>) <=>
           \/ a = x /\ b = y /\ c = z
           \/ a < x
           \/ b < y /\ a = x
           \/ c < z /\ a = x /\ b = y
<1> DEFINE p == <<a, b, c>>
           q == <<x, y, z>>
<1>1. p = q <=> a = x /\ b = y /\ c = z
  OBVIOUS
<1>2. DOMAIN p = {1, 2, 3} /\ p[1] = a /\ p[2] = b /\ p[3] = c
      /\ q[1] = x /\ q[2] = y /\ q[3] = z
  OBVIOUS
<1>3. 1..(1 - 1) = {} /\ 1..(2 - 1) = {1} /\ 1..(3 - 1) = {1, 2}
  OBVIOUS
<1>4. LexLeq(p, q) <=>
        \/ p = q
        \/ \E i \in DOMAIN p : p[i] < q[i] /\ \A k \in 1..(i - 1) : p[k] = q[k]
  BY Zenon DEF LexLeq
<1> HIDE DEF p, q
<1>5. (\E i \in DOMAIN p : p[i] < q[i] /\ \A k \in 1..(i - 1) : p[k] = q[k]) <=>
        \/ a < x
        \/ b < y /\ a = x
        \/ c < z /\ a = x /\ b = y
  BY <1>2, <1>3
<1>6. LexLeq(p, q) <=>
        \/ a = x /\ b = y /\ c = z
        \/ a < x
        \/ b < y /\ a = x
        \/ c < z /\ a = x /\ b = y
  BY <1>1, <1>4, <1>5
<1> QED  BY <1>6 DEF p, q

(* d ranks before c, or they are one.                                      *)
Ranks(d, c) == LexLeq(RankKey(d), RankKey(c))

Short(c) == IF c.end - c.start < PreferredExcerpt THEN 1 ELSE 0

LEMMA RanksIs ==
  ASSUME NEW d \in Spans, NEW c \in Spans
  PROVE  /\ Short(d) \in {0, 1} /\ Short(c) \in {0, 1}
         /\ Ranks(d, c) <=>
              \/ Short(d) < Short(c)
              \/ /\ Short(d) = Short(c)
                 /\ \/ d.start - d.end < c.start - c.end
                    \/ d.start - d.end = c.start - c.end /\ d.start <= c.start
<1>1. Short(d) \in {0, 1} /\ Short(c) \in {0, 1}
  BY DEF Short
<1>2. RankKey(d) = <<Short(d), d.start - d.end, d.start>>
      /\ RankKey(c) = <<Short(c), c.start - c.end, c.start>>
  BY Zenon DEF RankKey, Short
<1>3. Ranks(d, c) <=>
        \/ Short(d) = Short(c) /\ d.start - d.end = c.start - c.end /\ d.start = c.start
        \/ Short(d) < Short(c)
        \/ d.start - d.end < c.start - c.end /\ Short(d) = Short(c)
        \/ d.start < c.start /\ Short(d) = Short(c) /\ d.start - d.end = c.start - c.end
  <2>1. LexLeq(<<Short(d), d.start - d.end, d.start>>, <<Short(c), c.start - c.end, c.start>>)
        <=> \/ Short(d) = Short(c) /\ d.start - d.end = c.start - c.end /\ d.start = c.start
            \/ Short(d) < Short(c)
            \/ d.start - d.end < c.start - c.end /\ Short(d) = Short(c)
            \/ d.start < c.start /\ Short(d) = Short(c) /\ d.start - d.end = c.start - c.end
    BY LexOfThree, Zenon
  <2> QED  BY <1>2, <2>1, Zenon DEF Ranks
<1>4. d.start \in Int /\ d.end \in Int /\ c.start \in Int /\ c.end \in Int
  BY DEF Spans
<1> QED  BY <1>1, <1>3, <1>4

LEMMA RanksOrder ==
  /\ \A d, c \in Spans : Ranks(d, c) \/ Ranks(c, d)
  /\ \A d, c \in Spans : Ranks(d, c) /\ Ranks(c, d) => d = c
  /\ \A e, d, c \in Spans : Ranks(e, d) /\ Ranks(d, c) => Ranks(e, c)
<1>1. ASSUME NEW d \in Spans, NEW c \in Spans PROVE Ranks(d, c) \/ Ranks(c, d)
  BY RanksIs DEF Spans
<1>2. ASSUME NEW d \in Spans, NEW c \in Spans, Ranks(d, c), Ranks(c, d) PROVE d = c
  <2>1. d.start = c.start /\ d.end = c.end
    BY <1>2, RanksIs DEF Spans
  <2> QED  BY <2>1 DEF Spans
<1>3. ASSUME NEW e \in Spans, NEW d \in Spans, NEW c \in Spans, Ranks(e, d), Ranks(d, c)
      PROVE  Ranks(e, c)
  <2>1. /\ e.start \in Int /\ e.end \in Int /\ d.start \in Int /\ d.end \in Int
        /\ c.start \in Int /\ c.end \in Int
    BY DEF Spans
  <2> QED  BY <1>3, <2>1, RanksIs
<1> QED  BY <1>1, <1>2, <1>3

LEMMA BetterIs ==
  ASSUME NEW c, NEW C, NEW d
  PROVE  d \in Better(c, C) <=> d \in C /\ d # c /\ Ranks(d, c)
BY DEF Better, Ranks

-----------------------------------------------------------------------------
(*                    The candidates of a speaker                          *)

LEMMA AllFinite ==
  ASSUME input \in ExemplarsInput, NEW s
  PROVE  IsFiniteSet(AllOf(s)) /\ AllOf(s) \subseteq Spans
<1> DEFINE times == 0..input.duration
           spans == [start : times, end : times]
           join == [t \in times \X times |-> [start |-> t[1], end |-> t[2]]]
<1>1. IsFiniteSet(times)
  BY FS_Interval, InputIs
<1>2. IsFiniteSet(times \X times)
  <2> HIDE DEF times
  <2> QED  BY <1>1, FS_Product
<1>3. ASSUME NEW i \in spans PROVE \E t \in times \X times : join[t] = i
  <2>1. <<i.start, i.end>> \in times \X times
        /\ join[<<i.start, i.end>>] = [start |-> i.start, end |-> i.end]
    <3> HIDE DEF times
    <3> QED  OBVIOUS
  <2>2. i = [start |-> i.start, end |-> i.end]
    OBVIOUS
  <2> QED  BY <2>1, <2>2
<1>4. join \in [times \X times -> spans]
  <2> HIDE DEF times
  <2> QED  OBVIOUS
<1>5. join \in Surjection(times \X times, spans)
  <2> HIDE DEF times, join, spans
  <2> QED  BY <1>3, <1>4, Zenon DEF Surjection
<1>6. IsFiniteSet(spans)
  <2> HIDE DEF times, join, spans
  <2> QED  BY <1>2, <1>5, FS_Surjection
<1>7. ASSUME NEW p \in AllOf(s) PROVE p \in spans /\ p \in Spans
  <2>1. /\ p \in Spans /\ p.start < p.end
        /\ 0 <= p.start - Transition /\ p.end + Transition <= input.duration
    BY CandidateIs
  <2> QED  BY <2>1, InputIs DEF Spans
<1>8. IsFiniteSet(AllOf(s))
  <2> HIDE DEF spans
  <2> QED  BY <1>6, <1>7, FS_Subset
<1> QED  BY <1>7, <1>8

LEMMA BetterFinite ==
  ASSUME NEW C, IsFiniteSet(C), NEW c
  PROVE  IsFiniteSet(Better(c, C)) /\ Cardinality(Better(c, C)) \in Nat
<1>1. Better(c, C) \in SUBSET C
  BY DEF Better
<1> QED  BY <1>1, FS_Subset, FS_CardinalityType

ChosenOf(C) == {c \in C : Cardinality(Better(c, C)) < ExcerptLimit}

(* The best candidate is chosen.                                           *)
LEMMA BestIsChosen ==
  ASSUME NEW C \in SUBSET Spans, IsFiniteSet(C), C # {}
  PROVE  ChosenOf(C) # {}
<1> DEFINE sizes == {n \in Nat : \E c \in C : Cardinality(Better(c, C)) = n}
<1>1. sizes \in SUBSET Nat /\ sizes # {}
  BY BetterFinite
<1>2. PICK n \in sizes : \A m \in sizes : n <= m
  <2> HIDE DEF sizes
  <2> QED  BY <1>1, LeastOf
<1>3. PICK c \in C : Cardinality(Better(c, C)) = n
  OBVIOUS
<1>4. ASSUME NEW d \in Better(c, C) PROVE FALSE
  <2>1. d \in C /\ d # c /\ Ranks(d, c) /\ d \in Spans /\ c \in Spans
    BY BetterIs
  <2>2. ASSUME NEW e \in Better(d, C) PROVE e \in Better(c, C)
    <3>1. e \in C /\ e # d /\ Ranks(e, d) /\ e \in Spans
      BY BetterIs
    <3>2. Ranks(e, c) /\ e # c
      BY <2>1, <3>1, RanksOrder
    <3> QED  BY <3>1, <3>2, BetterIs
  <2>3. Better(d, C) \in SUBSET Better(c, C) /\ d \notin Better(d, C)
    BY <2>2, BetterIs
  <2>4. Cardinality(Better(d, C)) \in Nat /\ Cardinality(Better(c, C)) \in Nat
        /\ IsFiniteSet(Better(c, C))
    BY BetterFinite
  <2>5. /\ Cardinality(Better(d, C)) <= Cardinality(Better(c, C))
        /\ Cardinality(Better(d, C)) # Cardinality(Better(c, C))
    BY <1>4, <2>3, <2>4, FS_Subset
  <2>6. Cardinality(Better(d, C)) \in sizes
    BY <2>1, <2>4
  <2> QED  BY <1>2, <1>3, <2>4, <2>5, <2>6
<1>5. Better(c, C) = {}
  BY <1>4
<1>6. Cardinality(Better(c, C)) < ExcerptLimit
  BY <1>5, FS_EmptySet, LimitsAre
<1> QED  BY <1>6 DEF ChosenOf

(* What the limit drops ranks after what it keeps.                         *)
LEMMA LimitKeepsLonger ==
  ASSUME NEW C \in SUBSET Spans, IsFiniteSet(C),
         NEW e \in ChosenOf(C), NEW l \in C \ ChosenOf(C)
  PROVE  e.end - e.start >= l.end - l.start
<1>1. /\ e \in C /\ e \in Spans /\ l \in Spans
      /\ Cardinality(Better(e, C)) < ExcerptLimit
      /\ ~(Cardinality(Better(l, C)) < ExcerptLimit)
  BY DEF ChosenOf
<1>2. ASSUME ~Ranks(e, l) PROVE FALSE
  <2>1. Ranks(l, e)
    BY <1>1, <1>2, RanksOrder
  <2>2. ASSUME NEW d \in Better(l, C) PROVE d \in Better(e, C)
    <3>1. d \in C /\ d # l /\ Ranks(d, l) /\ d \in Spans
      BY BetterIs
    <3>2. Ranks(d, e) /\ d # e
      BY <1>1, <1>2, <2>1, <3>1, RanksOrder
    <3> QED  BY <3>1, <3>2, BetterIs
  <2>3. Better(l, C) \in SUBSET Better(e, C)
    BY <2>2
  <2>4. /\ IsFiniteSet(Better(e, C)) /\ Cardinality(Better(e, C)) \in Nat
        /\ Cardinality(Better(l, C)) \in Nat
    BY BetterFinite
  <2>5. Cardinality(Better(l, C)) <= Cardinality(Better(e, C))
    BY <2>3, <2>4, FS_Subset
  <2> QED  BY <1>1, <2>4, <2>5, LimitsAre
<1>3. \/ Short(e) < Short(l)
      \/ Short(e) = Short(l) /\ e.start - e.end <= l.start - l.end
  BY <1>1, <1>2, RanksIs DEF Spans
<1>4. CASE Short(e) < Short(l)
  BY <1>1, <1>4, LimitsAre DEF Short, Spans
<1> QED  BY <1>1, <1>3, <1>4 DEF Spans

-----------------------------------------------------------------------------
(* What the loop writes of a speaker is sound, and the rest is written by  *)
(* the steps one speaker at a time.                                        *)
EntryOf(s) ==
  [speaker |-> s, searchable |-> ChosenOf(AllOf(s)) # {}, excerpts |-> ChosenOf(AllOf(s)),
   limited |-> AllOf(s) \ ChosenOf(AllOf(s)),
   exclusions |-> UNION {ExclusionsOf(t) : t \in MergedTurns(s)}]

Entries ==
  [speaker : Nat, searchable : BOOLEAN, excerpts : SUBSET Spans, limited : SUBSET Spans,
   exclusions : SUBSET Spans]

SelectInv ==
  /\ input \in ExemplarsInput
  /\ {"phase", "todo", "output"} \subseteq DOMAIN work
  /\ \E n \in Nat : DOMAIN work.output = 1..n
  /\ \A i \in DOMAIN work.output : \E s : work.output[i] = EntryOf(s)

LEMMA EntryIs ==
  ASSUME NEW s, NEW o, o = EntryOf(s)
  PROVE  /\ o.speaker = s
         /\ o.excerpts = ChosenOf(AllOf(s)) /\ o.limited = AllOf(s) \ ChosenOf(AllOf(s))
         /\ o.exclusions = UNION {ExclusionsOf(t) : t \in MergedTurns(s)}
         /\ o.searchable <=> AllOf(s) # {} /\ ChosenOf(AllOf(s)) # {}
         /\ o.excerpts \subseteq AllOf(s) /\ o.excerpts \union o.limited = AllOf(s)
<1>1. ChosenOf(AllOf(s)) \subseteq AllOf(s)
  BY DEF ChosenOf
<1>2. /\ o.speaker = s /\ o.searchable = (ChosenOf(AllOf(s)) # {})
      /\ o.excerpts = ChosenOf(AllOf(s)) /\ o.limited = AllOf(s) \ ChosenOf(AllOf(s))
      /\ o.exclusions = UNION {ExclusionsOf(t) : t \in MergedTurns(s)}
  BY DEF EntryOf
<1> QED  BY <1>1, <1>2

LEMMA EntryClean ==
  ASSUME input \in ExemplarsInput, NEW s, NEW o, o = EntryOf(s)
  PROVE  /\ \A e \in o.excerpts :
              /\ e.end - e.start \in MinExcerpt..MaxExcerpt
              /\ \A tick \in (e.start - Transition)..(e.end + Transition - 1) :
                   ActiveAt(input.turns, tick) = {o.speaker}
         /\ \A e, f \in o.excerpts : e # f => ~Intersect(e, f)
<1>1. o.speaker = s /\ o.excerpts \subseteq AllOf(s)
  BY EntryIs
<1>2. ASSUME NEW e \in o.excerpts, NEW f \in o.excerpts, Intersect(e, f) PROVE e = f
  <2>1. /\ e \in AllOf(s) /\ f \in AllOf(s)
        /\ e \in Spans /\ e.start < e.end /\ f \in Spans /\ f.start < f.end
    BY <1>1, CandidateIs
  <2>2. Later(e.start, f.start) \in Int /\ IsIn(Later(e.start, f.start), e)
        /\ IsIn(Later(e.start, f.start), f)
    BY <1>2, <2>1 DEF Intersect, Later, IsIn, Spans
  <2> QED  BY <2>1, <2>2, CandidatesApart
<1> QED  BY <1>1, <1>2, CandidateIs

LEMMA EntryAccounts ==
  ASSUME input \in ExemplarsInput, NEW s, NEW o, o = EntryOf(s)
  PROVE  LET spoken == {tick \in 0..(input.duration - 1) :
                          o.speaker \in ActiveAt(input.turns, tick)}
             alone == {tick \in spoken : ActiveAt(input.turns, tick) = {o.speaker}}
         IN /\ spoken \subseteq Covered(o.excerpts \union o.limited \union o.exclusions)
            /\ \A e \in o.excerpts, l \in o.limited : e.end - e.start >= l.end - l.start
            /\ (\E r \in RunsOf(alone) : r.end - r.start >= MinExcerpt + 2 * Transition)
                 <=> o.searchable
<1> DEFINE spoken == {tick \in 0..(input.duration - 1) :
                        o.speaker \in ActiveAt(input.turns, tick)}
           alone == {tick \in spoken : ActiveAt(input.turns, tick) = {o.speaker}}
           account == o.excerpts \union o.limited \union o.exclusions
<1>1. /\ o.speaker = s /\ o.excerpts \union o.limited = AllOf(s)
      /\ o.excerpts = ChosenOf(AllOf(s)) /\ o.limited = AllOf(s) \ ChosenOf(AllOf(s))
      /\ o.exclusions = UNION {ExclusionsOf(t) : t \in MergedTurns(s)}
      /\ o.searchable <=> AllOf(s) # {} /\ ChosenOf(AllOf(s)) # {}
  BY EntryIs
<1>2. spoken = SpokenBy(s)
  <2>1. \A tick \in SpokenBy(s) : tick \in 0..(input.duration - 1)
    BY SpokenIs
  <2> QED  BY <1>1, <2>1 DEF SpokenBy
<1>3. alone = AloneBy(s)
  BY <1>1, <1>2 DEF AloneBy
<1>4. IsFiniteSet(AllOf(s)) /\ AllOf(s) \in SUBSET Spans
  BY AllFinite
<1>5. ASSUME NEW tick \in SpokenBy(s) PROVE tick \in Covered(account)
  <2>1. PICK m \in MergedTurns(s) : IsIn(tick, m)
    BY MergedAt
  <2>2. tick \in Int
    BY DEF SpokenBy
  <2>3. PICK x \in AllOf(s) \union ExclusionsOf(m) :
          x.start \in Int /\ x.end \in Int /\ IsIn(tick, x)
    BY <2>1, <2>2, TurnAccounted
  <2>4. x \in account
    BY <1>1, <2>3
  <2>5. tick \in x.start..(x.end - 1)
    BY <2>2, <2>3 DEF IsIn
  <2> HIDE DEF account
  <2> QED  BY <2>4, <2>5, Zenon DEF Covered
<1>6. \A e \in o.excerpts, l \in o.limited : e.end - e.start >= l.end - l.start
  BY <1>1, <1>4, LimitKeepsLonger
<1>7. o.searchable <=> AllOf(s) # {}
  BY <1>1, <1>4, BestIsChosen
<1>8. (\E r \in RunsOf(AloneBy(s)) : r.end - r.start >= MinExcerpt + 2 * Transition)
        <=> AllOf(s) # {}
  BY AloneGives, GivesAlone
<1>9. /\ spoken \subseteq Covered(account)
      /\ (\E r \in RunsOf(alone) : r.end - r.start >= MinExcerpt + 2 * Transition)
           <=> o.searchable
  <2> HIDE DEF spoken, alone, account
  <2> QED  BY <1>2, <1>3, <1>5, <1>7, <1>8
<1> QED  BY <1>6, <1>9, Zenon

LEMMA SelectBegins ==
  ASSUME input \in ExemplarsInput, work = ExemplarsWork
  PROVE  SelectInv
BY DEF SelectInv, ExemplarsWork

LEMMA SameEntries ==
  ASSUME input' = input
  PROVE  \A s : EntryOf(s)' = EntryOf(s)
<1>1. Blocked' = Blocked
  BY DEF Blocked
<1>2. \A turn : CleanPieces(turn)' = CleanPieces(turn)
  BY <1>1, Zenon DEF CleanPieces
<1>3. \A turn : ExclusionsOf(turn)' = ExclusionsOf(turn)
  BY <1>1, <1>2 DEF ExclusionsOf
<1>4. \A turn : Candidates(turn)' = Candidates(turn)
  BY <1>2 DEF Candidates
<1>5. \A s : MergedTurns(s)' = MergedTurns(s)
  BY DEF MergedTurns
<1>6. \A s : AllOf(s)' = AllOf(s)
  BY <1>4, <1>5 DEF AllOf
<1> QED  BY <1>3, <1>5, <1>6 DEF EntryOf, ChosenOf

LEMMA SelectStep == SelectInv /\ [ExemplarsNext]_computation => SelectInv'
<1> SUFFICES ASSUME SelectInv, [ExemplarsNext]_computation PROVE SelectInv'
  OBVIOUS
<1>1. CASE ListSpeakers
  <2>1. /\ input' = input /\ DOMAIN work' = DOMAIN work /\ work'.output = work.output
    BY <1>1 DEF ListSpeakers, SelectInv
  <2> QED  BY <2>1, SameEntries DEF SelectInv
<1>2. CASE SelectSpeaker
  <2>1. PICK s \in work.todo :
          work' = [work EXCEPT !.todo = @ \ {s}, !.output = Append(@, EntryOf(s))]
    BY <1>2, Zenon DEF SelectSpeaker, EntryOf, ChosenOf, AllOf
  <2>2. /\ input' = input /\ DOMAIN work' = DOMAIN work
        /\ work'.output = Append(work.output, EntryOf(s))
    BY <1>2, <2>1 DEF SelectSpeaker, SelectInv
  <2> QED  BY <2>2, SameEntries DEF SelectInv
<1>3. CASE UNCHANGED computation
  BY <1>3, SameEntries DEF computation, SelectInv
<1> QED  BY <1>1, <1>2, <1>3 DEF ExemplarsNext

(* An excerpt is its speaker alone, and what is no excerpt is accounted    *)
(* for, whatever the turns of the episode and whatever the lengths that    *)
(* select_exemplars is given (exemplars.py:80, 89).                        *)
THEOREM ExemplarsSound == ExemplarsSpec => []ExemplarsAreSound
<1>1. SelectInv => ExemplarsAreSound
  <2> SUFFICES ASSUME SelectInv PROVE ExemplarsAreSound
    OBVIOUS
  <2>1. ASSUME NEW i \in DOMAIN work.output
        PROVE  \E s : work.output[i] = EntryOf(s)
    BY DEF SelectInv
  <2>2. input \in ExemplarsInput
    BY DEF SelectInv
  <2>3. ExemplarsAreClean
    BY <2>1, <2>2, EntryClean, Zenon DEF ExemplarsAreClean
  <2>4. SpeechIsAccounted
    BY <2>1, <2>2, EntryAccounts, Zenon DEF SpeechIsAccounted
  <2> QED  BY <2>3, <2>4 DEF ExemplarsAreSound
<1> QED  BY <1>1, SelectBegins, SelectStep, PTL DEF ExemplarsSpec

-----------------------------------------------------------------------------
(*                     A part of a sequence                                *)

RankIn(positions, i) == Cardinality({j \in positions : j <= i})

(* The positions are ranked from 1 to their number.                        *)
LEMMA RanksAre ==
  ASSUME NEW n \in Nat, NEW P \in SUBSET (1..n)
  PROVE  /\ IsFiniteSet(P) /\ Cardinality(P) \in Nat
         /\ \A i \in P : RankIn(P, i) \in 1..Cardinality(P)
         /\ \A i, j \in P : i < j => RankIn(P, i) < RankIn(P, j)
         /\ \A k \in 1..Cardinality(P) : \E i \in P : RankIn(P, i) = k
<1> DEFINE before(i) == {j \in P : j <= i}
<1>1. IsFiniteSet(P) /\ Cardinality(P) \in Nat
  <2>1. IsFiniteSet(1..n)
    BY FS_Interval
  <2>2. IsFiniteSet(P)
    BY <2>1, FS_Subset
  <2> QED  BY <2>2, FS_CardinalityType
<1>2. ASSUME NEW i \in P
      PROVE  IsFiniteSet(before(i)) /\ RankIn(P, i) = Cardinality(before(i))
             /\ RankIn(P, i) \in 1..Cardinality(P)
  <2>1. before(i) \in SUBSET P /\ i \in before(i)
    OBVIOUS
  <2>2. IsFiniteSet(before(i)) /\ Cardinality(before(i)) <= Cardinality(P)
    BY <1>1, <2>1, FS_Subset
  <2>3. Cardinality(before(i)) \in Nat /\ Cardinality(before(i)) # 0
    BY <2>1, <2>2, FS_CardinalityType, FS_EmptySet
  <2> QED  BY <1>1, <2>2, <2>3 DEF RankIn
<1>3. ASSUME NEW i \in P, NEW j \in P, i < j
      PROVE  RankIn(P, i) < RankIn(P, j)
  <2>1. before(i) \in SUBSET before(j) /\ j \in before(j) /\ j \notin before(i)
    <3>1. \A k \in P : k \in Int
      OBVIOUS
    <3>2. i \in Int /\ j \in Int /\ ~(j <= i) /\ j <= j /\ \A k \in P : k <= i => k <= j
      BY <3>1, <1>3
    <3> QED  BY <3>2
  <2>2. Cardinality(before(i)) <= Cardinality(before(j)) /\ Cardinality(before(i)) # Cardinality(before(j))
    BY <1>2, <2>1, FS_Subset
  <2> QED  BY <1>2, <2>2
<1>4. ASSUME NEW k \in 1..Cardinality(P) PROVE \E i \in P : RankIn(P, i) = k
  <2> DEFINE rank == [i \in P |-> RankIn(P, i)]
  <2>1. rank \in [P -> 1..Cardinality(P)]
    BY <1>2
  <2>2. \A i, j \in P : rank[i] = rank[j] => i = j
    <3>1. \A i, j \in P : i < j \/ j < i \/ i = j
      OBVIOUS
    <3>2. \A i \in P : RankIn(P, i) \in Int
      <4> HIDE DEF before
      <4> QED  BY <1>1, <1>2
    <3>3. \A i \in P : rank[i] = RankIn(P, i)
      OBVIOUS
    <3> HIDE DEF rank
    <3> QED  BY <1>3, <3>1, <3>2, <3>3
  <2>3. rank \in Injection(P, 1..Cardinality(P))
    BY <2>1, <2>2 DEF Injection, IsInjective
  <2>4. IsFiniteSet(1..Cardinality(P)) /\ Cardinality(1..Cardinality(P)) = Cardinality(P)
    BY <1>1, FS_Interval
  <2>5. rank \in Surjection(P, 1..Cardinality(P))
    <3> HIDE DEF rank
    <3> QED  BY <2>3, <2>4, FS_Injection
  <2> QED  BY <2>5 DEF Surjection
<1> QED  BY <1>1, <1>2, <1>3, <1>4

PositionOf(positions, k) == CHOOSE i \in positions : RankIn(positions, i) = k

LEMMA PositionIs ==
  ASSUME NEW n \in Nat, NEW P \in SUBSET (1..n), NEW k \in 1..Cardinality(P)
  PROVE  PositionOf(P, k) \in P /\ RankIn(P, PositionOf(P, k)) = k
BY RanksAre DEF PositionOf

LEMMA PartIs ==
  ASSUME NEW n \in Nat, NEW P \in SUBSET (1..n), NEW s
  PROVE  /\ Cardinality(P) \in Nat /\ DOMAIN Part(s, P) = 1..Cardinality(P)
         /\ Len(Part(s, P)) = Cardinality(P)
<1>1. Cardinality(P) \in Nat
  BY RanksAre
<1>2. DOMAIN Part(s, P) = 1..Cardinality(P)
  BY Zenon DEF Part
<1> QED  BY <1>1, <1>2

LEMMA PartAt ==
  ASSUME NEW s, NEW P
  PROVE  Part(s, P) = [k \in 1..Cardinality(P) |-> s[PositionOf(P, k)]]
BY Zenon DEF Part, PositionOf, RankIn

LEMMA PartSeq ==
  ASSUME NEW n \in Nat, NEW P \in SUBSET (1..n), NEW s, NEW C, \A i \in P : s[i] \in C
  PROVE  Part(s, P) \in Seq(C)
<1>1. \A k \in 1..Cardinality(P) : s[PositionOf(P, k)] \in C
  BY PositionIs
<1>2. Part(s, P) \in [1..Cardinality(P) -> C]
  BY <1>1, PartAt
<1>3. Cardinality(P) \in Nat
  BY RanksAre
<1> QED  BY <1>2, <1>3

(* Of each name the first is kept, so names that begin the sequence and    *)
(* are all different stay where they are.                                  *)
LEMMA FirstAre ==
  ASSUME NEW C, NEW s \in Seq(C), NEW n \in 0..Len(s),
         \A i, j \in 1..n : s[i].name = s[j].name => i = j
  PROVE  LET f == FirstOfEachName(s)
         IN /\ f \in Seq(C) /\ n <= Len(f)
            /\ \A k \in 1..n : f[k] = s[k]
            /\ \A i, j \in DOMAIN f : f[i].name = f[j].name => i = j
<1> DEFINE P == {i \in DOMAIN s : \A j \in 1..(i - 1) : s[j].name # s[i].name}
           f == FirstOfEachName(s)
<1>1. f = Part(s, P)
  BY DEF FirstOfEachName
<1>2. Len(s) \in Nat /\ P \in SUBSET (1..Len(s)) /\ \A i \in P : s[i] \in C
  OBVIOUS
<1>3. /\ \A k \in 1..n : k \in P
      /\ \A i \in P : i \in Int /\ 1 <= i
  OBVIOUS
<1>4. \A i, j \in P : s[i].name = s[j].name => i = j
  <2>1. ASSUME NEW i \in P, NEW j \in P, i < j PROVE s[i].name # s[j].name
    <3>1. i \in 1..(j - 1)
      BY <2>1, <1>2
    <3> QED  BY <3>1
  <2>2. \A i, j \in P : i < j \/ j < i \/ i = j
    BY <1>2
  <2> QED  BY <2>1, <2>2
<1> HIDE DEF P
<1>11. /\ Cardinality(P) \in Nat
       /\ \A i \in P : RankIn(P, i) \in 1..Cardinality(P)
       /\ \A i, j \in P : i < j => RankIn(P, i) < RankIn(P, j)
  BY <1>2, RanksAre
<1>5. ASSUME NEW k \in 1..n PROVE RankIn(P, k) = k
  <2>1. {j \in P : j <= k} = 1..k
    <3>1. \A j \in 1..k : j \in 1..n /\ j <= k
      OBVIOUS
    <3>2. \A j \in P : j <= k => j \in 1..k
      BY <1>3
    <3> QED  BY <1>3, <3>1, <3>2
  <2>2. Cardinality(1..k) = k
    BY FS_Interval
  <2> QED  BY <2>1, <2>2 DEF RankIn
<1>6. n <= Cardinality(P)
  <2>1. CASE n = 0
    BY <2>1, <1>11
  <2>2. CASE n # 0
    <3>1. n \in P /\ n \in 1..n
      BY <1>3, <2>2
    <3> QED  BY <3>1, <1>5, <1>11
  <2> QED  BY <2>1, <2>2
<1>7. \A i, j \in P : RankIn(P, i) = RankIn(P, j) => i = j
  <2>1. \A i, j \in P : i < j \/ j < i \/ i = j
    BY <1>3
  <2>2. \A i \in P : RankIn(P, i) \in Int
    BY <1>11
  <2> QED  BY <2>1, <2>2, <1>11
<1>8. /\ f \in Seq(C) /\ Len(f) = Cardinality(P) /\ DOMAIN f = 1..Cardinality(P)
      /\ \A k \in 1..Cardinality(P) : f[k] = s[PositionOf(P, k)]
  <2>1. PICK m : m \in Nat /\ P \in SUBSET (1..m) /\ \A i \in P : s[i] \in C
    BY <1>2
  <2> HIDE DEF f
  <2>2. Part(s, P) \in Seq(C)
    BY <2>1, PartSeq
  <2>3. Len(Part(s, P)) = Cardinality(P) /\ DOMAIN Part(s, P) = 1..Cardinality(P)
    BY <2>1, PartIs
  <2>4. \A k \in 1..Cardinality(P) : f[k] = s[PositionOf(P, k)]
    BY <1>1, PartAt
  <2> QED  BY <1>1, <2>2, <2>3, <2>4
<1>12. \A k \in 1..Cardinality(P) : PositionOf(P, k) \in P /\ RankIn(P, PositionOf(P, k)) = k
  BY <1>2, PositionIs
<1>9. ASSUME NEW k \in 1..n PROVE f[k] = s[k]
  <2>1. k \in P /\ k \in 1..Cardinality(P)
    BY <1>3, <1>6, <1>11
  <2>2. PositionOf(P, k) = k
    BY <2>1, <1>5, <1>7, <1>12
  <2> QED  BY <2>1, <2>2, <1>8
<1>10. ASSUME NEW i \in DOMAIN f, NEW j \in DOMAIN f, f[i].name = f[j].name PROVE i = j
  <2> DEFINE a == PositionOf(P, i)
             b == PositionOf(P, j)
  <2>1. i \in 1..Cardinality(P) /\ j \in 1..Cardinality(P)
    BY <1>8
  <2>2. a \in P /\ b \in P /\ RankIn(P, a) = i /\ RankIn(P, b) = j
    BY <1>12, <2>1
  <2>3. s[a].name = s[b].name
    <3> HIDE DEF f
    <3> QED  BY <1>8, <1>10, <2>1
  <2>4. a = b
    <3> HIDE DEF a, b
    <3> QED  BY <1>4, <2>2, <2>3
  <2> QED  BY <2>2, <2>4
<1> QED  BY <1>6, <1>8, <1>9, <1>10

-----------------------------------------------------------------------------
(*                     The slices of a verdict                             *)

(* The slices that are always there come before those of the reference.    *)
FixedNames ==
  <<"all", "block-0", "block-1", "block-2", "block-3", "block-4", "development", "held_out">>

AlwaysNamed == {FixedNames[k] : k \in 1..8}

FixedRanges(d) ==
  <<{[start |-> 0, end |-> d]}, {Block(d, 1)}, {Block(d, 2)}, {Block(d, 3)}, {Block(d, 4)},
    {Block(d, 5)}, {Block(d, 1), Block(d, 2), Block(d, 3), Block(d, 4)}, {Block(d, 5)}>>

IsCatalog(slices) ==
  /\ \E C : slices \in Seq(C)
  /\ 8 <= Len(slices)
  /\ \A k \in 1..8 : slices[k] = Slice(FixedNames[k], FixedRanges(input.reference.duration)[k])
  /\ \A i, j \in DOMAIN slices : slices[i].name = slices[j].name => i = j

LEMMA FixedAre ==
  ASSUME NEW d \in Int
  PROVE  LET s == <<Slice("all", {[start |-> 0, end |-> d]})>> \o BlockSlices(d)
             C == [name : AlwaysNamed, ranges : SUBSET Spans]
         IN /\ s \in Seq(C) /\ Len(s) = 8
            /\ \A k \in 1..8 : s[k] = Slice(FixedNames[k], FixedRanges(d)[k])
<1> DEFINE C == [name : AlwaysNamed, ranges : SUBSET Spans]
           blocks == [k \in 1..5 |-> Block(d, k)]
           five == [k \in 1..5 |-> Slice(BlockNames[k], {blocks[k]})]
           two == <<Slice("development", {blocks[k] : k \in 1..4}), Slice("held_out", {blocks[5]})>>
           one == <<Slice("all", {[start |-> 0, end |-> d]})>>
<1>1. \A k \in 1..5 : Block(d, k) \in Spans
  BY DEF Block, Boundary, Spans
<1>2. {blocks[k] : k \in 1..4} = {Block(d, 1), Block(d, 2), Block(d, 3), Block(d, 4)}
  <2>1. 1..4 = {1, 2, 3, 4}
    OBVIOUS
  <2> QED  BY <2>1
<1> DEFINE S(k) == Slice(BlockNames[k], {Block(d, k)})
           whole == Slice("all", {[start |-> 0, end |-> d]})
           first == Slice("development", {Block(d, 1), Block(d, 2), Block(d, 3), Block(d, 4)})
           last == Slice("held_out", {Block(d, 5)})
<1>3. whole \in C /\ first \in C /\ last \in C /\ \A k \in 1..5 : S(k) \in C
  <2>0. \A k \in 1..8 : FixedNames[k] \in AlwaysNamed
    BY DEF AlwaysNamed
  <2>1. /\ \A k \in 1..5 : BlockNames[k] \in AlwaysNamed
        /\ "all" \in AlwaysNamed /\ "development" \in AlwaysNamed /\ "held_out" \in AlwaysNamed
    <3>1. /\ FixedNames[1] = "all" /\ FixedNames[7] = "development" /\ FixedNames[8] = "held_out"
          /\ \A k \in 1..5 : BlockNames[k] = FixedNames[k + 1] /\ k + 1 \in 1..8
      BY DEF FixedNames, BlockNames
    <3>2. 1 \in 1..8 /\ 7 \in 1..8 /\ 8 \in 1..8
      OBVIOUS
    <3> QED  BY <2>0, <3>1, <3>2
  <2>2. [start |-> 0, end |-> d] \in Spans
    BY DEF Spans
  <2>3. ASSUME NEW name \in AlwaysNamed, NEW R \in SUBSET Spans PROVE Slice(name, R) \in C
    BY DEF Slice
  <2> HIDE DEF C
  <2>4. whole \in C
    <3>1. {[start |-> 0, end |-> d]} \in SUBSET Spans
      BY <2>2
    <3> QED  BY <2>1, <3>1, <2>3, Zenon
  <2>5. first \in C /\ last \in C
    <3>1. /\ {Block(d, 1), Block(d, 2), Block(d, 3), Block(d, 4)} \in SUBSET Spans
          /\ {Block(d, 5)} \in SUBSET Spans
      BY <1>1
    <3> QED  BY <2>1, <3>1, <2>3, Zenon
  <2>6. \A k \in 1..5 : S(k) \in C
    BY <1>1, <2>1, <2>3
  <2> QED  BY <2>4, <2>5, <2>6
<1>4. five = [k \in 1..5 |-> S(k)]
  BY Zenon
<1>5. two = <<first, last>> /\ one = <<whole>>
  <2>1. blocks[5] = Block(d, 5)
    OBVIOUS
  <2> HIDE DEF blocks
  <2> QED  BY <1>2, <2>1
<1>6. BlockSlices(d) = five \o two
  BY Zenon DEF BlockSlices
<1> HIDE DEF C, five, two, one, S, whole, first, last
<1>7. /\ five \in Seq(C) /\ Len(five) = 5 /\ \A k \in 1..5 : five[k] = S(k)
      /\ two \in Seq(C) /\ Len(two) = 2 /\ two[1] = first /\ two[2] = last
      /\ one \in Seq(C) /\ Len(one) = 1 /\ one[1] = whole
  BY <1>3, <1>4, <1>5
<1>10. /\ five \o two \in Seq(C) /\ Len(five \o two) = 7
       /\ \A k \in 1..7 : (five \o two)[k] = IF k <= 5 THEN five[k] ELSE two[k - 5]
  <2>1. /\ five \o two \in Seq(C) /\ Len(five \o two) = Len(five) + Len(two)
        /\ \A k \in 1..(Len(five) + Len(two)) :
             (five \o two)[k] = IF k <= Len(five) THEN five[k] ELSE two[k - Len(five)]
    BY <1>7, ConcatProperties
  <2> QED  BY <1>7, <2>1
<1>8. /\ one \o (five \o two) \in Seq(C) /\ Len(one \o (five \o two)) = 8
      /\ \A k \in 1..8 : (one \o (five \o two))[k] =
           IF k <= 1 THEN one[k] ELSE (five \o two)[k - 1]
  <2>1. PICK t : t = five \o two
    OBVIOUS
  <2>2. /\ one \o t \in Seq(C) /\ Len(one \o t) = Len(one) + Len(t)
        /\ \A k \in 1..(Len(one) + Len(t)) :
             (one \o t)[k] = IF k <= Len(one) THEN one[k] ELSE t[k - Len(one)]
    BY <1>7, <1>10, <2>1, ConcatProperties
  <2> QED  BY <1>7, <1>10, <2>1, <2>2
<1>9. ASSUME NEW k \in 1..8
      PROVE  (one \o (five \o two))[k] = Slice(FixedNames[k], FixedRanges(d)[k])
  <2> DEFINE all == one \o (five \o two)
  <2>1. k = 1 \/ k = 2 \/ k = 3 \/ k = 4 \/ k = 5 \/ k = 6 \/ k = 7 \/ k = 8
    OBVIOUS
  <2>2. all[1] = whole /\ all[7] = first /\ all[8] = last
    BY <1>7, <1>8, <1>10
  <2>3. all[2] = S(1) /\ all[3] = S(2) /\ all[4] = S(3) /\ all[5] = S(4) /\ all[6] = S(5)
    BY <1>7, <1>8, <1>10
  <2>4. /\ S(1) = Slice("block-0", {Block(d, 1)}) /\ S(2) = Slice("block-1", {Block(d, 2)})
        /\ S(3) = Slice("block-2", {Block(d, 3)}) /\ S(4) = Slice("block-3", {Block(d, 4)})
        /\ S(5) = Slice("block-4", {Block(d, 5)})
    <3>1. /\ BlockNames[1] = "block-0" /\ BlockNames[2] = "block-1" /\ BlockNames[3] = "block-2"
          /\ BlockNames[4] = "block-3" /\ BlockNames[5] = "block-4"
      BY DEF BlockNames
    <3> QED  BY <3>1, Zenon DEF S
  <2> HIDE DEF all
  <2>5. k = 1 => all[k] = Slice(FixedNames[k], FixedRanges(d)[k])
    BY <2>2 DEF FixedNames, FixedRanges, whole
  <2>6. k = 7 \/ k = 8 => all[k] = Slice(FixedNames[k], FixedRanges(d)[k])
    BY <2>2 DEF FixedNames, FixedRanges, first, last
  <2>7. k \in 2..6 => all[k] = Slice(FixedNames[k], FixedRanges(d)[k])
    <3> HIDE DEF S
    <3> QED  BY <2>1, <2>3, <2>4 DEF FixedNames, FixedRanges
  <2>8. k \in 2..6 \/ k = 1 \/ k = 7 \/ k = 8
    OBVIOUS
  <2> QED  BY <2>5, <2>6, <2>7, <2>8, Zenon DEF all
<1> QED  BY <1>6, <1>8, <1>9 DEF C, one

LEMMA CatalogIs ==
  ASSUME input \in EvaluationInput, CatalogSlices
  PROVE  \E slices : /\ work' = [work EXCEPT !.phase = "scoring", !.slices = slices]
                     /\ IsCatalog(slices)
<1> DEFINE r == input.reference
           d == r.duration
           all == <<Slice("all", {[start |-> 0, end |-> d]})>>
           custom == CustomSlices(r)
           overlap == RegionSlice("overlap", r.overlaps)
           spans == RegionSlice("unintelligible", r.spans)
           ranges == Spans \union r.overlaps \union r.spans
           names == AlwaysNamed \union {"overlap", "unintelligible"}
                      \union {r.slices[i].name : i \in DOMAIN r.slices}
           C == [name : names, ranges : SUBSET ranges]
           fixed == all \o BlockSlices(d)
           s == fixed \o custom \o overlap \o spans
<1>1. work' = [work EXCEPT !.phase = "scoring", !.slices = FirstOfEachName(s)]
  BY Zenon DEF CatalogSlices
<1>2. /\ r \in EvaluationDocument /\ d \in Int
      /\ r.slices \in Seq([name : STRING, start : Int, end : Int])
  BY DEF EvaluationInput, EvaluationDocument
<1>3. /\ fixed \in Seq(C) /\ Len(fixed) = 8
      /\ \A k \in 1..8 : fixed[k] = Slice(FixedNames[k], FixedRanges(d)[k])
  <2> DEFINE B == [name : AlwaysNamed, ranges : SUBSET Spans]
  <2>1. /\ fixed \in Seq(B) /\ Len(fixed) = 8
        /\ \A k \in 1..8 : fixed[k] = Slice(FixedNames[k], FixedRanges(d)[k])
    BY <1>2, FixedAre
  <2>2. B \subseteq C
    OBVIOUS
  <2> HIDE DEF B, C, fixed
  <2> QED  BY <2>1, <2>2
<1>4. custom \in Seq(C)
  <2>1. Len(r.slices) \in Nat /\ DOMAIN r.slices = 1..Len(r.slices)
    BY <1>2
  <2>2. \A i \in 1..Len(r.slices) : r.slices[i] \in [name : STRING, start : Int, end : Int]
    <3> HIDE DEF r
    <3> QED  BY <1>2, ElementOfSeq
  <2>3. custom \in [1..Len(r.slices) -> C]
    <3>1. \A i \in 1..Len(r.slices) :
            Slice(r.slices[i].name, {[start |-> r.slices[i].start, end |-> r.slices[i].end]}) \in C
      <4>1. \A i \in 1..Len(r.slices) : r.slices[i].name \in names
        BY <2>1
      <4>2. \A i \in 1..Len(r.slices) :
              {[start |-> r.slices[i].start, end |-> r.slices[i].end]} \in SUBSET ranges
        <5> HIDE DEF r
        <5> QED  BY <2>2 DEF Spans
      <4> HIDE DEF r, names, ranges
      <4> QED  BY <4>1, <4>2 DEF Slice
    <3> HIDE DEF r, C
    <3> QED  BY <2>1, <3>1 DEF CustomSlices
  <2> HIDE DEF custom, r, C
  <2> QED  BY <2>1, <2>3
<1>5. overlap \in Seq(C) /\ spans \in Seq(C)
  <2>1. <<>> \in Seq(C) /\ \A e \in C : <<e>> \in Seq(C)
    OBVIOUS
  <2>2. Slice("overlap", r.overlaps) \in C /\ Slice("unintelligible", r.spans) \in C
    <3>1. /\ r.overlaps \in SUBSET ranges /\ r.spans \in SUBSET ranges
          /\ "overlap" \in names /\ "unintelligible" \in names
      BY <1>2 DEF EvaluationDocument
    <3> HIDE DEF r, ranges, names
    <3> QED  BY <3>1 DEF Slice
  <2> QED  BY <2>1, <2>2, Zenon DEF RegionSlice
<1> HIDE DEF C, fixed, custom, overlap, spans, d
<1>6. /\ s \in Seq(C) /\ 8 <= Len(s) /\ \A k \in 1..8 : s[k] = fixed[k]
  <2> DEFINE s1 == fixed \o custom
             s2 == s1 \o overlap
  <2>1. s1 \in Seq(C) /\ 8 <= Len(s1) /\ \A k \in 1..8 : s1[k] = fixed[k]
    <3>1. /\ s1 \in Seq(C) /\ Len(s1) = Len(fixed) + Len(custom)
          /\ \A k \in 1..(Len(fixed) + Len(custom)) :
               s1[k] = IF k <= Len(fixed) THEN fixed[k] ELSE custom[k - Len(fixed)]
      BY <1>3, <1>4, ConcatProperties
    <3>2. Len(custom) \in Nat
      BY <1>4
    <3> HIDE DEF s1
    <3> QED  BY <1>3, <3>1, <3>2
  <2> HIDE DEF s1
  <2>2. s2 \in Seq(C) /\ 8 <= Len(s2) /\ \A k \in 1..8 : s2[k] = fixed[k]
    <3>1. /\ s2 \in Seq(C) /\ Len(s2) = Len(s1) + Len(overlap)
          /\ \A k \in 1..(Len(s1) + Len(overlap)) :
               s2[k] = IF k <= Len(s1) THEN s1[k] ELSE overlap[k - Len(s1)]
      BY <1>5, <2>1, ConcatProperties
    <3>2. Len(overlap) \in Nat /\ Len(s1) \in Nat
      BY <1>5, <2>1
    <3> HIDE DEF s2
    <3> QED  BY <2>1, <3>1, <3>2
  <2> HIDE DEF s2
  <2>3. s = s2 \o spans
    BY DEF s1, s2
  <2>4. /\ s2 \o spans \in Seq(C) /\ Len(s2 \o spans) = Len(s2) + Len(spans)
        /\ \A k \in 1..(Len(s2) + Len(spans)) :
             (s2 \o spans)[k] = IF k <= Len(s2) THEN s2[k] ELSE spans[k - Len(s2)]
    BY <1>5, <2>2, ConcatProperties
  <2>5. Len(spans) \in Nat /\ Len(s2) \in Nat
    BY <1>5, <2>2
  <2> HIDE DEF s
  <2> QED  BY <2>2, <2>3, <2>4, <2>5
<1> HIDE DEF s
<1>7. \A i, j \in 1..8 : s[i].name = s[j].name => i = j
  <2>1. \A k \in 1..8 : s[k].name = FixedNames[k]
    BY <1>3, <1>6 DEF Slice
  <2>2. \A i, j \in 1..8 : FixedNames[i] = FixedNames[j] => i = j
    BY DEF FixedNames
  <2> QED  BY <2>1, <2>2
<1>8. IsCatalog(FirstOfEachName(s))
  <2>1. 8 \in 0..Len(s)
    BY <1>6
  <2>2. /\ FirstOfEachName(s) \in Seq(C) /\ 8 <= Len(FirstOfEachName(s))
        /\ \A k \in 1..8 : FirstOfEachName(s)[k] = s[k]
        /\ \A i, j \in DOMAIN FirstOfEachName(s) :
             FirstOfEachName(s)[i].name = FirstOfEachName(s)[j].name => i = j
    BY <1>6, <1>7, <2>1, FirstAre
  <2> QED  BY <1>3, <1>6, <2>2 DEF IsCatalog, d
<1> QED  BY <1>1, <1>8

-----------------------------------------------------------------------------
(*                     What is scored in a slice                           *)

LEMMA ExtendedBy ==
  ASSUME NEW s, \E C : s \in Seq(C), NEW e
  PROVE  /\ \E C : Append(s, e) \in Seq(C)
         /\ Len(s) \in Nat /\ Len(Append(s, e)) = Len(s) + 1
         /\ \A i \in 1..Len(s) : Append(s, e)[i] = s[i]
         /\ Append(s, e)[Len(s) + 1] = e
<1>1. PICK C : s \in Seq(C)
  OBVIOUS
<1>2. PICK D : D = C \union {e}
  OBVIOUS
<1>3. s \in Seq(D) /\ e \in D
  BY <1>1, <1>2
<1>4. Append(s, e) \in Seq(D)
  BY <1>3
<1> QED  BY <1>3, <1>4

(* The positions of the words of the reference that a slice scores.        *)
ScoredAt(ranges) ==
  {i \in DOMAIN input.reference.words :
     InRanges(input.reference.words[i], ranges) /\ ~IsMasked(input.reference.words[i])}

LEMMA ScoredAre ==
  ASSUME input \in EvaluationInput, NEW ranges
  PROVE  LET words == ScoredWords(input.reference.words, ranges)
         IN /\ IsFiniteSet(ScoredAt(ranges)) /\ Cardinality(ScoredAt(ranges)) \in Nat
            /\ DOMAIN words = 1..Cardinality(ScoredAt(ranges))
            /\ Len(Tokens(words)) > 0 => ScoredAt(ranges) # {}
<1> DEFINE all == input.reference.words
           words == ScoredWords(all, ranges)
<1>1. all \in Seq(EvaluationWord)
  BY DEF EvaluationInput, EvaluationDocument
<1>2. Len(all) \in Nat /\ ScoredAt(ranges) \in SUBSET (1..Len(all))
  BY <1>1 DEF ScoredAt
<1>3. words = Part(all, ScoredAt(ranges))
  BY DEF ScoredWords, ScoredAt
<1>4. IsFiniteSet(ScoredAt(ranges)) /\ Cardinality(ScoredAt(ranges)) \in Nat
  BY <1>2, RanksAre
<1>5. DOMAIN words = 1..Cardinality(ScoredAt(ranges))
  <2> HIDE DEF words
  <2> QED  BY <1>2, <1>3, PartIs
<1>6. ASSUME ScoredAt(ranges) = {} PROVE Len(Tokens(words)) = 0
  <2>1. Cardinality(ScoredAt(ranges)) = 0
    BY <1>6, FS_EmptySet
  <2>2. DOMAIN Texts(words) = 1..0
    <3> HIDE DEF words
    <3> QED  BY <1>5, <2>1 DEF Texts
  <2> HIDE DEF words
  <2>3. Len(Texts(words)) = 0
    BY <2>2
  <2>4. Tokens(words) = Texts(words)
    BY <2>3 DEF Tokens, FlattenSeq
  <2> QED  BY <2>3, <2>4
<1> QED  BY <1>4, <1>5, <1>6

IsEntry(entry, slice) ==
  /\ entry.slice = slice
  /\ entry.raw.denominator = Cardinality(ScoredAt(slice.ranges))
  /\ entry.normalized.denominator > 0 => ScoredAt(slice.ranges) # {}

LEMMA ScoredEntry ==
  ASSUME input \in EvaluationInput, ScoreEvaluationSlice
  PROVE  \E entry : /\ work' = [work EXCEPT !.report = Append(work.report, entry)]
                    /\ IsEntry(entry, work.slices[Len(work.report) + 1])
<1> DEFINE slice == work.slices[Len(work.report) + 1]
           reference == ScoredWords(input.reference.words, slice.ranges)
           hypothesis == ScoredWords(input.hypothesis.words, slice.ranges)
           ticks == Covered(slice.ranges)
           map == SpeakerMap(ticks)
           forms(words) == [i \in DOMAIN words |-> words[i].form]
           raw == ErrorRatio(forms(reference), forms(hypothesis))
           normalized == ErrorRatio(Tokens(reference), Tokens(hypothesis))
           entry == [slice |-> slice, raw |-> raw, normalized |-> normalized,
                     der |-> DiarizationErrors(ticks, map),
                     speakers |-> SpeakerErrors(reference, hypothesis, map),
                     timing |-> TimingErrors(reference, hypothesis)]
<1>1. work' = [work EXCEPT !.report = Append(work.report, entry)]
  BY Zenon DEF ScoreEvaluationSlice
<1>2. entry.slice = slice /\ entry.raw = raw /\ entry.normalized = normalized
  <2> HIDE DEF slice, raw, normalized, reference, hypothesis, ticks, map
  <2> QED  OBVIOUS
<1>3. raw.denominator = Len(forms(reference))
  <2> HIDE DEF reference, hypothesis, forms
  <2> QED  BY DEF ErrorRatio, Ratio
<1>4. normalized.denominator = Len(Tokens(reference))
  <2> HIDE DEF reference, hypothesis
  <2> QED  BY DEF ErrorRatio, Ratio
<1> HIDE DEF slice
<1>5. /\ DOMAIN reference = 1..Cardinality(ScoredAt(slice.ranges))
      /\ Cardinality(ScoredAt(slice.ranges)) \in Nat
      /\ Len(Tokens(reference)) > 0 => ScoredAt(slice.ranges) # {}
  BY ScoredAre
<1>6. Len(forms(reference)) = Cardinality(ScoredAt(slice.ranges))
  <2> HIDE DEF reference
  <2>1. DOMAIN forms(reference) = 1..Cardinality(ScoredAt(slice.ranges))
    BY <1>5
  <2> HIDE DEF forms
  <2> QED  BY <1>5, <2>1
<1>7. IsEntry(entry, slice)
  <2> HIDE DEF entry, raw, normalized, reference
  <2> QED  BY <1>2, <1>3, <1>4, <1>5, <1>6 DEF IsEntry
<1> QED  BY <1>1, <1>7 DEF slice

-----------------------------------------------------------------------------
(*                     The verdict                                         *)

HeldInv ==
  /\ input \in EvaluationInput
  /\ {"phase", "errors", "slices", "report", "verdict"} \subseteq DOMAIN work
  /\ work.phase \in {"given", "checked", "accepted"} => work.report = <<>>
  /\ work.phase \in {"accepted", "scoring", "done"} => IsDocument(input.reference)
  /\ work.phase \in {"scoring", "done"} =>
       /\ IsCatalog(work.slices)
       /\ \E C : work.report \in Seq(C)
       /\ Len(work.report) <= Len(work.slices)
       /\ \A i \in 1..Len(work.report) : IsEntry(work.report[i], work.slices[i])
  /\ work.phase = "done" =>
       /\ Len(work.report) = Len(work.slices)
       /\ work.verdict = "pass" =>
            \A m \in Thresholds.metrics :
              Passes(work.report[SliceNamed("held_out")][m], Thresholds.percent[m])

LEMMA HeldBegins ==
  ASSUME input \in EvaluationInput, work = EvaluationWork
  PROVE  HeldInv
BY DEF HeldInv, EvaluationWork

LEMMA HeldKept == HeldInv /\ GateInv /\ GateInv' /\ [EvaluationNext]_computation => HeldInv'
<1> SUFFICES ASSUME HeldInv, GateInv, GateInv', [EvaluationNext]_computation PROVE HeldInv'
  OBVIOUS
<1>1. CASE CheckReference
  <2>1. work'.phase = "checked" /\ work'.report = work.report /\ DOMAIN work' = DOMAIN work
    BY <1>1 DEF CheckReference, HeldInv
  <2> QED  BY <1>1, <2>1 DEF HeldInv, CheckReference
<1>2. CASE AcceptDocuments
  <2>1. PICK result : /\ work' = [work EXCEPT !.phase = result]
                      /\ result = "rejected" \/ result = "accepted"
    <3>1. \A accepted \in BOOLEAN :
            LET result == IF accepted THEN "accepted" ELSE "rejected"
            IN result = "rejected" \/ result = "accepted"
      OBVIOUS
    <3> QED  BY <1>2, Zenon DEF AcceptDocuments
  <2>2. work'.phase = result /\ work'.report = work.report /\ DOMAIN work' = DOMAIN work
    BY <2>1 DEF HeldInv
  <2>3. work'.phase = "accepted" => IsDocument(input.reference)'
    BY DEF GateInv
  <2> QED  BY <1>2, <2>1, <2>2, <2>3 DEF HeldInv, AcceptDocuments
<1>3. CASE CatalogSlices
  <2>1. PICK slices : /\ work' = [work EXCEPT !.phase = "scoring", !.slices = slices]
                      /\ IsCatalog(slices)
    BY <1>3, CatalogIs DEF HeldInv
  <2>2. /\ work'.phase = "scoring" /\ work'.report = <<>> /\ DOMAIN work' = DOMAIN work
        /\ work'.slices = slices
    BY <1>3, <2>1 DEF HeldInv, CatalogSlices
  <2>3. IsDocument(input.reference)' /\ input' = input
    BY <1>3 DEF HeldInv, CatalogSlices
  <2>4. IsCatalog(work.slices)'
    BY <2>1, <2>2, <2>3 DEF IsCatalog
  <2>5. <<>> \in Seq({}) /\ Len(<<>>) = 0
    OBVIOUS
  <2>6. 8 <= Len(work.slices)'
    BY <2>4 DEF IsCatalog
  <2> QED  BY <2>2, <2>3, <2>4, <2>5, <2>6 DEF HeldInv
<1>4. CASE ScoreEvaluationSlice
  <2>1. PICK entry : /\ work' = [work EXCEPT !.report = Append(work.report, entry)]
                     /\ IsEntry(entry, work.slices[Len(work.report) + 1])
    BY <1>4, ScoredEntry DEF HeldInv
  <2>2. /\ work'.phase = "scoring" /\ work.phase = "scoring" /\ DOMAIN work' = DOMAIN work
        /\ work'.report = Append(work.report, entry) /\ work'.slices = work.slices
        /\ input' = input /\ Len(work.report) < Len(work.slices)
    BY <1>4, <2>1 DEF HeldInv, ScoreEvaluationSlice
  <2>3. \E C : work.report \in Seq(C)
    BY <2>2 DEF HeldInv
  <2>4. /\ \E C : work'.report \in Seq(C)
        /\ Len(work.report) \in Nat /\ Len(work'.report) = Len(work.report) + 1
        /\ \A i \in 1..Len(work.report) : work'.report[i] = work.report[i]
        /\ work'.report[Len(work.report) + 1] = entry
    <3>1. PICK r : r = work.report
      OBVIOUS
    <3>2. /\ \E C : Append(r, entry) \in Seq(C)
          /\ Len(r) \in Nat /\ Len(Append(r, entry)) = Len(r) + 1
          /\ \A i \in 1..Len(r) : Append(r, entry)[i] = r[i]
          /\ Append(r, entry)[Len(r) + 1] = entry
      BY <2>3, <3>1, ExtendedBy
    <3> QED  BY <2>2, <3>1, <3>2
  <2>5. IsCatalog(work.slices)'
    BY <2>2 DEF HeldInv, IsCatalog
  <2>6. ASSUME NEW i \in 1..Len(work'.report)
        PROVE  IsEntry(work.report[i], work.slices[i])'
    <3> SUFFICES IsEntry(work'.report[i], work.slices[i])
      <4>1. \A ranges : ScoredAt(ranges)' = ScoredAt(ranges)
        BY <2>2 DEF ScoredAt, IsMasked
      <4> QED  BY <2>2, <4>1 DEF IsEntry
    <3>1. CASE i = Len(work.report) + 1
      BY <2>1, <2>4, <3>1
    <3>2. CASE i # Len(work.report) + 1
      <4>1. i \in 1..Len(work.report)
        BY <2>4, <3>2
      <4> QED  BY <2>2, <2>4, <4>1 DEF HeldInv
    <3> QED  BY <3>1, <3>2
  <2>7. Len(work.slices) \in Nat
    BY <2>2 DEF HeldInv, IsCatalog
  <2>8. Len(work'.report) <= Len(work'.slices)
    BY <2>2, <2>4, <2>7
  <2>9. input' \in EvaluationInput /\ IsDocument(input.reference)'
    BY <2>2 DEF HeldInv
  <2> QED  BY <2>2, <2>4, <2>5, <2>6, <2>8, <2>9 DEF HeldInv
<1>5. CASE DecideVerdict
  <2> DEFINE lacking == LacksEvidence(input.reference, input.hypothesis)
             held == work.report[SliceNamed("held_out")]
             passing == \A m \in Thresholds.metrics : Passes(held[m], Thresholds.percent[m])
  <2>1. work' = [work EXCEPT !.phase = "done",
                   !.verdict = IF lacking THEN "insufficient_evidence"
                               ELSE IF passing THEN "pass" ELSE "blocked"]
    BY <1>5 DEF DecideVerdict
  <2>2. /\ work'.phase = "done" /\ work.phase = "scoring" /\ DOMAIN work' = DOMAIN work
        /\ work'.report = work.report /\ work'.slices = work.slices
        /\ input' = input /\ Len(work.report) = Len(work.slices)
    <3> HIDE DEF lacking, held, passing
    <3> QED  BY <1>5, <2>1 DEF HeldInv, DecideVerdict
  <2>3. work'.verdict = "pass" => passing
    <3> HIDE DEF lacking, held, passing
    <3>1. work'.verdict = IF lacking THEN "insufficient_evidence"
                          ELSE IF passing THEN "pass" ELSE "blocked"
      BY <2>1 DEF HeldInv
    <3>2. "pass" # "insufficient_evidence" /\ "pass" # "blocked"
      OBVIOUS
    <3> QED  BY <3>1, <3>2, Zenon
  <2>4. work'.verdict = "pass" =>
          (\A m \in Thresholds.metrics :
             Passes(work.report[SliceNamed("held_out")][m], Thresholds.percent[m]))'
    <3>1. SliceNamed("held_out")' = SliceNamed("held_out") /\ Thresholds' = Thresholds
      BY <2>2, Zenon DEF SliceNamed, Thresholds
    <3> QED  BY <2>2, <2>3, <3>1, Zenon
  <2>5. /\ IsCatalog(work.slices)' /\ input' \in EvaluationInput /\ IsDocument(input.reference)'
        /\ \E C : work'.report \in Seq(C)
    BY <2>2 DEF HeldInv, IsCatalog
  <2>6. \A i \in 1..Len(work'.report) : IsEntry(work.report[i], work.slices[i])'
    BY <2>2 DEF HeldInv, IsEntry, ScoredAt, IsMasked
  <2>7. Len(work.slices) \in Nat
    BY <2>5, <2>2 DEF IsCatalog
  <2> HIDE DEF lacking, held, passing
  <2> QED  BY <2>2, <2>4, <2>5, <2>6, <2>7 DEF HeldInv
<1>6. CASE UNCHANGED computation
  <2>1. input' = input /\ work' = work
    BY <1>6 DEF computation
  <2>2. \A ranges : ScoredAt(ranges)' = ScoredAt(ranges)
    BY <2>1 DEF ScoredAt, IsMasked
  <2>3. \A i \in 1..Len(work.report) :
          IsEntry(work.report[i], work.slices[i])' <=> IsEntry(work.report[i], work.slices[i])
    BY <2>1, <2>2 DEF IsEntry
  <2>4. /\ SliceNamed("held_out")' = SliceNamed("held_out") /\ Thresholds' = Thresholds
        /\ IsCatalog(work.slices)' = IsCatalog(work.slices)
    BY <2>1 DEF SliceNamed, IsCatalog, Thresholds
  <2>5. work.phase \in {"scoring", "done"} =>
          \A i \in 1..Len(work.report) : IsEntry(work.report[i], work.slices[i])'
    BY <2>3 DEF HeldInv
  <2> QED  BY <2>1, <2>4, <2>5 DEF HeldInv
<1> QED  BY <1>1, <1>2, <1>3, <1>4, <1>5, <1>6 DEF EvaluationNext

(* The words that are not masked, and those of them in a block.            *)
Scorable == {i \in DOMAIN input.reference.words : ~IsMasked(input.reference.words[i])}

MiddleOf(i) == Midpoint(input.reference.words[i])

InBlock(k) ==
  {i \in Scorable : /\ Boundary(input.reference.duration, k - 1) <= MiddleOf(i)
                 /\ MiddleOf(i) < Boundary(input.reference.duration, k)}

LEMMA BoundariesAre ==
  ASSUME NEW d \in Nat
  PROVE  /\ Boundary(d, 0) = 0 /\ Boundary(d, 5) = d
         /\ \A k \in 0..5 : Boundary(d, k) \in Int
         /\ \A k \in 1..5 : Boundary(d, k - 1) <= Boundary(d, k)
<1>1. 0 * d = 0 /\ \A k \in 0..5 : k * d \in Int
  OBVIOUS
<1>2. 0 \div 5 = 0 /\ (5 * d) \div 5 = d
  OBVIOUS
<1>3. \A x, y \in Nat : x <= y => x \div 5 <= y \div 5
  OBVIOUS
<1>4. ASSUME NEW k \in 1..5 PROVE Boundary(d, k - 1) <= Boundary(d, k)
  <2>1. (k - 1) * d \in Nat /\ k * d \in Nat /\ (k - 1) * d <= k * d
    <3>1. k * d = (k - 1) * d + d /\ (k - 1) * d \in Nat
      OBVIOUS
    <3> QED  BY <3>1
  <2> QED  BY <1>3, <2>1 DEF Boundary
<1>5. \A k \in 0..5 : Boundary(d, k) \in Int
  BY <1>1 DEF Boundary
<1> QED  BY <1>1, <1>2, <1>4, <1>5 DEF Boundary

LEMMA WordsAre ==
  ASSUME input \in EvaluationInput, IsDocument(input.reference)
  PROVE  /\ input.reference.duration \in Nat
         /\ IsFiniteSet(Scorable)
         /\ \A i \in Scorable : MiddleOf(i) \in Int /\ 0 <= MiddleOf(i)
                                           /\ MiddleOf(i) < input.reference.duration
<1> DEFINE r == input.reference
<1>1. /\ r \in EvaluationDocument /\ r.duration \in Int /\ r.words \in Seq(EvaluationWord)
  BY DEF EvaluationInput, EvaluationDocument
<1>2. /\ Canonical(AsScored(r)).duration = r.duration /\ Canonical(AsScored(r)).words = r.words
  BY <1>1, ReadIs DEF AsScored
<1>3. r.duration > 0 /\ \A i \in DOMAIN r.words : IsInterval(r.words[i], r.duration)
  BY <1>2 DEF IsDocument, IsAnnotation
<1>4. Len(r.words) \in Nat /\ DOMAIN r.words = 1..Len(r.words)
  BY <1>1
<1>5. IsFiniteSet(Scorable)
  <2>1. IsFiniteSet(1..Len(r.words)) /\ Scorable \in SUBSET (1..Len(r.words))
    BY <1>4, FS_Interval DEF Scorable
  <2> QED  BY <2>1, FS_Subset
<1>6. ASSUME NEW i \in Scorable
      PROVE  MiddleOf(i) \in Int /\ 0 <= MiddleOf(i) /\ MiddleOf(i) < r.duration
  <2>1. i \in 1..Len(r.words) /\ i \in DOMAIN r.words
    BY <1>4 DEF Scorable
  <2>2. r.words[i] \in EvaluationWord
    <3> HIDE DEF r
    <3> QED  BY <1>1, <2>1, ElementOfSeq
  <2>3. PICK a \in Int, b \in Int : a = r.words[i].start /\ b = r.words[i].end
    BY <2>2 DEF EvaluationWord
  <2>4. 0 <= a /\ a < b /\ b <= r.duration
    BY <1>3, <2>1, <2>3 DEF IsInterval
  <2>5. MiddleOf(i) = (a + b) \div 2
    BY <2>3 DEF MiddleOf, Midpoint
  <2> HIDE DEF r
  <2> QED  BY <1>1, <2>4, <2>5
<1> QED  BY <1>1, <1>3, <1>5, <1>6

LEMMA ScoredIn ==
  ASSUME input \in EvaluationInput, IsDocument(input.reference)
  PROVE  LET d == input.reference.duration
         IN /\ ScoredAt({[start |-> 0, end |-> d]}) = Scorable
            /\ \A k \in 1..5 : ScoredAt({Block(d, k)}) = InBlock(k)
            /\ ScoredAt({Block(d, 1), Block(d, 2), Block(d, 3), Block(d, 4)})
                 = InBlock(1) \union InBlock(2) \union InBlock(3) \union InBlock(4)
<1> DEFINE d == input.reference.duration
           w(i) == input.reference.words[i]
<1>1. ScoredAt({[start |-> 0, end |-> d]}) = Scorable
  <2>1. \A i \in Scorable : InRanges(w(i), {[start |-> 0, end |-> d]})
    BY WordsAre DEF InRanges, MiddleOf
  <2> QED  BY <2>1 DEF ScoredAt, Scorable
<1>2. ASSUME NEW k \in 1..5 PROVE ScoredAt({Block(d, k)}) = InBlock(k)
  <2>1. \A i : InRanges(w(i), {Block(d, k)}) <=>
               Boundary(d, k - 1) <= MiddleOf(i) /\ MiddleOf(i) < Boundary(d, k)
    BY DEF InRanges, MiddleOf, Block
  <2> HIDE DEF d
  <2> QED  BY <2>1 DEF ScoredAt, Scorable, InBlock, d
<1>3. ASSUME NEW R, NEW Q PROVE ScoredAt(R \union Q) = ScoredAt(R) \union ScoredAt(Q)
  BY DEF ScoredAt, InRanges
<1>4. {Block(d, 1), Block(d, 2), Block(d, 3), Block(d, 4)} =
        (({Block(d, 1)} \union {Block(d, 2)}) \union {Block(d, 3)}) \union {Block(d, 4)}
  OBVIOUS
<1> HIDE DEF d
<1>5. 1 \in 1..5 /\ 2 \in 1..5 /\ 3 \in 1..5 /\ 4 \in 1..5
  OBVIOUS
<1>6. ScoredAt({Block(d, 1), Block(d, 2), Block(d, 3), Block(d, 4)}) =
        ((ScoredAt({Block(d, 1)}) \union ScoredAt({Block(d, 2)})) \union ScoredAt({Block(d, 3)}))
          \union ScoredAt({Block(d, 4)})
  <2> DEFINE a == {Block(d, 1)}
             b == {Block(d, 2)}
             c == {Block(d, 3)}
             e == {Block(d, 4)}
  <2> HIDE DEF a, b, c, e
  <2>1. ScoredAt(a \union b) = ScoredAt(a) \union ScoredAt(b)
    BY <1>3
  <2>2. ScoredAt((a \union b) \union c) = ScoredAt(a \union b) \union ScoredAt(c)
    BY <1>3
  <2>3. ScoredAt(((a \union b) \union c) \union e) = ScoredAt((a \union b) \union c) \union ScoredAt(e)
    BY <1>3
  <2>4. ScoredAt(((a \union b) \union c) \union e)
          = ((ScoredAt(a) \union ScoredAt(b)) \union ScoredAt(c)) \union ScoredAt(e)
    BY <2>1, <2>2, <2>3, Zenon
  <2> QED  BY <1>4, <2>4, Zenon DEF a, b, c, e
<1> QED  BY <1>1, <1>2, <1>5, <1>6 DEF d

LEMMA DisjointSum ==
  ASSUME NEW S, NEW T, IsFiniteSet(S), IsFiniteSet(T), S \intersect T = {}
  PROVE  /\ IsFiniteSet(S \union T)
         /\ Cardinality(S \union T) = Cardinality(S) + Cardinality(T)
<1>1. Cardinality(S) \in Nat /\ Cardinality(T) \in Nat /\ Cardinality({}) = 0
  BY FS_CardinalityType, FS_EmptySet
<1>2. /\ IsFiniteSet(S \union T)
      /\ Cardinality(S \union T) = Cardinality(S) + Cardinality(T) - Cardinality(S \intersect T)
  BY FS_Union
<1>3. Cardinality(S \intersect T) = 0
  BY <1>1, Zenon
<1> QED  BY <1>1, <1>2, <1>3

(* The blocks are apart and together have every word.                      *)
LEMMA BlocksSum ==
  ASSUME input \in EvaluationInput, IsDocument(input.reference)
  PROVE  LET first == InBlock(1) \union InBlock(2) \union InBlock(3) \union InBlock(4)
             C(k) == Cardinality(InBlock(k))
         IN /\ \A k \in 1..5 : C(k) \in Nat
            /\ Cardinality(first) = C(1) + C(2) + C(3) + C(4)
            /\ Cardinality(Scorable) = C(1) + C(2) + C(3) + C(4) + C(5)
<1> DEFINE d == input.reference.duration
           two == InBlock(1) \union InBlock(2)
           three == two \union InBlock(3)
           four == three \union InBlock(4)
<1>1. d \in Nat /\ IsFiniteSet(Scorable)
  BY WordsAre
<1>2. \A k \in 1..5 : IsFiniteSet(InBlock(k)) /\ Cardinality(InBlock(k)) \in Nat
  <2>1. \A k \in 1..5 : InBlock(k) \in SUBSET Scorable
    BY DEF InBlock
  <2>2. \A k \in 1..5 : IsFiniteSet(InBlock(k))
    BY <1>1, <2>1, FS_Subset
  <2> QED  BY <2>2, FS_CardinalityType
<1>3. \A j, k \in 1..5 : j < k => InBlock(j) \intersect InBlock(k) = {}
  <2> SUFFICES ASSUME NEW j \in 1..5, NEW k \in 1..5, j < k, NEW i \in InBlock(j), i \in InBlock(k)
               PROVE  FALSE
    OBVIOUS
  <2>1. Boundary(d, j) <= Boundary(d, k - 1)
    <3>1. \A n \in 0..5 : Boundary(d, n) \in Int
      BY <1>1, BoundariesAre
    <3>2. /\ Boundary(d, 1) <= Boundary(d, 2) /\ Boundary(d, 2) <= Boundary(d, 3)
          /\ Boundary(d, 3) <= Boundary(d, 4)
      <4>1. \A n \in 1..5 : Boundary(d, n - 1) <= Boundary(d, n)
        BY <1>1, BoundariesAre
      <4>2. Boundary(d, 2 - 1) <= Boundary(d, 2) /\ Boundary(d, 3 - 1) <= Boundary(d, 3)
            /\ Boundary(d, 4 - 1) <= Boundary(d, 4)
        BY <4>1
      <4> QED  BY <4>2
    <3>3. /\ j = 1 \/ j = 2 \/ j = 3 \/ j = 4
          /\ k - 1 = 1 \/ k - 1 = 2 \/ k - 1 = 3 \/ k - 1 = 4
          /\ j <= k - 1
      OBVIOUS
    <3>4. /\ Boundary(d, 1) \in Int /\ Boundary(d, 2) \in Int
          /\ Boundary(d, 3) \in Int /\ Boundary(d, 4) \in Int
      BY <3>1
    <3> HIDE DEF d
    <3> QED  BY <3>2, <3>3, <3>4
  <2>2. MiddleOf(i) < Boundary(d, j) /\ Boundary(d, k - 1) <= MiddleOf(i) /\ i \in Scorable
    BY DEF InBlock
  <2>3. MiddleOf(i) \in Int /\ Boundary(d, j) \in Int /\ Boundary(d, k - 1) \in Int
    BY <1>1, <2>2, WordsAre, BoundariesAre
  <2> QED  BY <2>1, <2>2, <2>3
<1>4. Scorable = four \union InBlock(5)
  <2>1. ASSUME NEW i \in Scorable PROVE \E k \in 1..5 : i \in InBlock(k)
    <3>1. PICK m \in Int : m = MiddleOf(i) /\ 0 <= m /\ m < d
      BY WordsAre
    <3>2. /\ Boundary(d, 0) = 0 /\ Boundary(d, 5) = d
          /\ Boundary(d, 1) \in Int /\ Boundary(d, 2) \in Int
          /\ Boundary(d, 3) \in Int /\ Boundary(d, 4) \in Int
      BY <1>1, BoundariesAre
    <3>3. \/ Boundary(d, 1 - 1) <= m /\ m < Boundary(d, 1)
          \/ Boundary(d, 2 - 1) <= m /\ m < Boundary(d, 2)
          \/ Boundary(d, 3 - 1) <= m /\ m < Boundary(d, 3)
          \/ Boundary(d, 4 - 1) <= m /\ m < Boundary(d, 4)
          \/ Boundary(d, 5 - 1) <= m /\ m < Boundary(d, 5)
      <4> HIDE DEF d
      <4> QED  BY <3>1, <3>2
    <3> QED  BY <3>1, <3>3 DEF InBlock
  <2>2. \A k \in 1..5 : k = 1 \/ k = 2 \/ k = 3 \/ k = 4 \/ k = 5
    OBVIOUS
  <2>3. InBlock(1) \subseteq Scorable /\ InBlock(2) \subseteq Scorable /\ InBlock(3) \subseteq Scorable
        /\ InBlock(4) \subseteq Scorable /\ InBlock(5) \subseteq Scorable
    BY DEF InBlock
  <2>4. ASSUME NEW i \in Scorable PROVE i \in four \union InBlock(5)
    BY <2>1, <2>2
  <2> QED  BY <2>3, <2>4
<1>5. /\ InBlock(1) \intersect InBlock(2) = {} /\ two \intersect InBlock(3) = {}
      /\ three \intersect InBlock(4) = {} /\ four \intersect InBlock(5) = {}
  <2>1. \A k \in 2..5 : InBlock(1) \intersect InBlock(k) = {}
    BY <1>3
  <2>2. \A k \in 3..5 : InBlock(2) \intersect InBlock(k) = {}
    BY <1>3
  <2>3. \A k \in 4..5 : InBlock(3) \intersect InBlock(k) = {}
    BY <1>3
  <2>4. InBlock(4) \intersect InBlock(5) = {}
    BY <1>3
  <2> QED  BY <2>1, <2>2, <2>3, <2>4
<1> HIDE DEF d
<1>11. /\ IsFiniteSet(InBlock(1)) /\ IsFiniteSet(InBlock(2)) /\ IsFiniteSet(InBlock(3))
       /\ IsFiniteSet(InBlock(4)) /\ IsFiniteSet(InBlock(5))
  BY <1>2
<1>6. IsFiniteSet(two) /\ Cardinality(two) = Cardinality(InBlock(1)) + Cardinality(InBlock(2))
  BY <1>11, <1>5, DisjointSum
<1> HIDE DEF two
<1>7. IsFiniteSet(three) /\ Cardinality(three) = Cardinality(two) + Cardinality(InBlock(3))
  BY <1>11, <1>5, <1>6, DisjointSum
<1> HIDE DEF three
<1>8. IsFiniteSet(four) /\ Cardinality(four) = Cardinality(three) + Cardinality(InBlock(4))
  BY <1>11, <1>5, <1>7, DisjointSum
<1> HIDE DEF four
<1>9. Cardinality(Scorable) = Cardinality(four) + Cardinality(InBlock(5))
  BY <1>11, <1>4, <1>5, <1>8, DisjointSum
<1>10. four = InBlock(1) \union InBlock(2) \union InBlock(3) \union InBlock(4)
  BY DEF two, three, four
<1> QED  BY <1>2, <1>6, <1>7, <1>8, <1>9, <1>10

(* A name of a slice that is always there finds that slice.                *)
LEMMA NamedIs ==
  ASSUME HeldInv, work.phase = "done", NEW k \in 1..8
  PROVE  /\ SliceNamed(FixedNames[k]) = k
         /\ IsEntry(work.report[k], Slice(FixedNames[k], FixedRanges(input.reference.duration)[k]))
<1>1. /\ IsCatalog(work.slices) /\ Len(work.report) = Len(work.slices)
      /\ \E C : work.report \in Seq(C)
      /\ \A i \in 1..Len(work.report) : IsEntry(work.report[i], work.slices[i])
  BY DEF HeldInv
<1>2. /\ Len(work.report) \in Nat /\ DOMAIN work.report = 1..Len(work.report)
      /\ DOMAIN work.slices = 1..Len(work.report)
      /\ k \in 1..Len(work.report)
  BY <1>1 DEF IsCatalog
<1>3. /\ work.slices[k] = Slice(FixedNames[k], FixedRanges(input.reference.duration)[k])
      /\ work.slices[k].name = FixedNames[k]
  BY <1>1 DEF IsCatalog, Slice
<1>4. \A i \in DOMAIN work.report : work.report[i].slice = work.slices[i]
  BY <1>1, <1>2 DEF IsEntry
<1>5. \A i \in DOMAIN work.report : work.report[i].slice.name = FixedNames[k] <=> i = k
  <2>1. \A i, j \in DOMAIN work.slices : work.slices[i].name = work.slices[j].name => i = j
    BY <1>1 DEF IsCatalog
  <2> QED  BY <1>2, <1>3, <1>4, <2>1
<1>6. SliceNamed(FixedNames[k]) = k
  BY <1>2, <1>5 DEF SliceNamed
<1> QED  BY <1>1, <1>2, <1>3, <1>6

(* A verdict rests on the held-out fifth alone, and the slices of a report *)
(* score every word that is not masked in exactly one block                *)
(* (_slice_catalog, _quality_verdict).                                     *)
THEOREM HeldOutApart == EvaluationSpec => []HeldOutIsApart
<1>1. ASSUME HeldInv PROVE HeldOutIsApart
  <2> SUFFICES ASSUME work.phase = "done" PROVE HeldOutIsApart!2
    BY DEF HeldOutIsApart
  <2> DEFINE d == input.reference.duration
             words(name) == work.report[SliceNamed(name)].raw.denominator
             C(k) == Cardinality(InBlock(k))
             last == {i \in DOMAIN input.reference.words :
                        LET w == input.reference.words[i]
                        IN ~IsMasked(w) /\ Block(d, 5).start <= Midpoint(w)}
  <2>1. input \in EvaluationInput /\ IsDocument(input.reference)
    BY <1>1 DEF HeldInv
  <2>2. ASSUME NEW k \in 1..8
        PROVE  /\ words(FixedNames[k]) = Cardinality(ScoredAt(FixedRanges(d)[k]))
               /\ work.report[SliceNamed(FixedNames[k])].slice.ranges = FixedRanges(d)[k]
               /\ work.report[SliceNamed(FixedNames[k])].normalized.denominator > 0 =>
                    ScoredAt(FixedRanges(d)[k]) # {}
    BY <1>1, NamedIs DEF IsEntry, Slice
  <2>3. /\ FixedNames[1] = "all" /\ FixedNames[2] = "block-0" /\ FixedNames[3] = "block-1"
        /\ FixedNames[4] = "block-2" /\ FixedNames[5] = "block-3" /\ FixedNames[6] = "block-4"
        /\ FixedNames[7] = "development" /\ FixedNames[8] = "held_out"
    BY DEF FixedNames
  <2>4. /\ FixedRanges(d)[1] = {[start |-> 0, end |-> d]} /\ FixedRanges(d)[2] = {Block(d, 1)}
        /\ FixedRanges(d)[3] = {Block(d, 2)} /\ FixedRanges(d)[4] = {Block(d, 3)}
        /\ FixedRanges(d)[5] = {Block(d, 4)} /\ FixedRanges(d)[6] = {Block(d, 5)}
        /\ FixedRanges(d)[7] = {Block(d, 1), Block(d, 2), Block(d, 3), Block(d, 4)}
        /\ FixedRanges(d)[8] = {Block(d, 5)}
    BY DEF FixedRanges
  <2>5. /\ ScoredAt({[start |-> 0, end |-> d]}) = Scorable
        /\ ScoredAt({Block(d, 1)}) = InBlock(1) /\ ScoredAt({Block(d, 2)}) = InBlock(2)
        /\ ScoredAt({Block(d, 3)}) = InBlock(3) /\ ScoredAt({Block(d, 4)}) = InBlock(4)
        /\ ScoredAt({Block(d, 5)}) = InBlock(5)
        /\ ScoredAt({Block(d, 1), Block(d, 2), Block(d, 3), Block(d, 4)})
             = InBlock(1) \union InBlock(2) \union InBlock(3) \union InBlock(4)
    BY <2>1, ScoredIn
  <2> HIDE DEF words
  <2>6. /\ words("all") = Cardinality(Scorable) /\ words("block-0") = C(1) /\ words("block-1") = C(2)
        /\ words("block-2") = C(3) /\ words("block-3") = C(4) /\ words("block-4") = C(5)
        /\ words("held_out") = C(5)
        /\ words("development") =
             Cardinality(InBlock(1) \union InBlock(2) \union InBlock(3) \union InBlock(4))
    <3>1. /\ words(FixedNames[1]) = Cardinality(ScoredAt(FixedRanges(d)[1]))
          /\ words(FixedNames[2]) = Cardinality(ScoredAt(FixedRanges(d)[2]))
          /\ words(FixedNames[3]) = Cardinality(ScoredAt(FixedRanges(d)[3]))
          /\ words(FixedNames[4]) = Cardinality(ScoredAt(FixedRanges(d)[4]))
          /\ words(FixedNames[5]) = Cardinality(ScoredAt(FixedRanges(d)[5]))
          /\ words(FixedNames[6]) = Cardinality(ScoredAt(FixedRanges(d)[6]))
          /\ words(FixedNames[7]) = Cardinality(ScoredAt(FixedRanges(d)[7]))
          /\ words(FixedNames[8]) = Cardinality(ScoredAt(FixedRanges(d)[8]))
      BY <2>2
    <3> QED  BY <2>3, <2>4, <2>5, <3>1, Zenon
  <2>7. /\ C(1) \in Nat /\ C(2) \in Nat /\ C(3) \in Nat /\ C(4) \in Nat /\ C(5) \in Nat
        /\ Cardinality(InBlock(1) \union InBlock(2) \union InBlock(3) \union InBlock(4))
             = C(1) + C(2) + C(3) + C(4)
        /\ Cardinality(Scorable) = C(1) + C(2) + C(3) + C(4) + C(5)
    BY <2>1, BlocksSum
  <2> HIDE DEF C
  <2>8. /\ words("all") = words("block-0") + words("block-1") + words("block-2")
                           + words("block-3") + words("block-4")
        /\ words("all") = words("development") + words("held_out")
    BY <2>6, <2>7
  <2>9. /\ work.report[SliceNamed("held_out")].slice.ranges = {Block(d, 5)}
        /\ work.report[SliceNamed("held_out")].normalized.denominator > 0 => InBlock(5) # {}
        /\ work.report[SliceNamed("held_out")].raw.denominator > 0 => InBlock(5) # {}
    <3>1. 8 \in 1..8
      OBVIOUS
    <3>2. InBlock(5) = {} => Cardinality(InBlock(5)) = 0
      BY FS_EmptySet
    <3>3. work.report[SliceNamed("held_out")].raw.denominator = Cardinality(InBlock(5))
      BY <2>6 DEF C, words
    <3>4. /\ work.report[SliceNamed(FixedNames[8])].slice.ranges = FixedRanges(d)[8]
          /\ work.report[SliceNamed(FixedNames[8])].normalized.denominator > 0 =>
               ScoredAt(FixedRanges(d)[8]) # {}
      BY <2>2, <3>1
    <3>5. /\ work.report[SliceNamed("held_out")].slice.ranges = {Block(d, 5)}
          /\ work.report[SliceNamed("held_out")].normalized.denominator > 0 => InBlock(5) # {}
      BY <2>3, <2>4, <2>5, <3>4, Zenon
    <3>6. work.report[SliceNamed("held_out")].raw.denominator > 0 => InBlock(5) # {}
      BY <3>2, <3>3
    <3> QED  BY <3>5, <3>6
  <2>10. work.verdict = "pass" /\ {"raw", "normalized"} \intersect Thresholds.metrics # {} => last # {}
    <3>1. ASSUME work.verdict = "pass", {"raw", "normalized"} \intersect Thresholds.metrics # {}
          PROVE  InBlock(5) # {}
      <4>1. PICK m \in {"raw", "normalized"} :
              Passes(work.report[SliceNamed("held_out")][m], Thresholds.percent[m])
        BY <1>1, <3>1 DEF HeldInv
      <4>2. CASE m = "raw"
        BY <2>9, <4>1, <4>2 DEF Passes
      <4>3. CASE m = "normalized"
        BY <2>9, <4>1, <4>3 DEF Passes
      <4> QED  BY <4>2, <4>3
    <3>2. InBlock(5) \subseteq last
      BY DEF InBlock, Scorable, MiddleOf, Block
    <3> QED  BY <3>1, <3>2
  <2>11. Scorable = {i \in DOMAIN input.reference.words : ~IsMasked(input.reference.words[i])}
    BY DEF Scorable
  <2> QED  BY <2>6, <2>8, <2>9, <2>10, <2>11 DEF words
<1>2. EvaluationSpec => []GateInv
  BY EvaluationBegins, GateStep, PTL DEF EvaluationSpec
<1> QED  BY <1>1, <1>2, HeldBegins, HeldKept, PTL DEF EvaluationSpec
=============================================================================
