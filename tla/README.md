# TLA+ models of the Zanzara archive

Zanzara archive turns the recordings of a radio show into a searchable corpus:
stages (decode, diarization, transcription, embeddings, ...) run as durable jobs
over one SQLite database, publish immutable artifacts as directories, and humans
decide in a local web application which voices belong together and what was said.
The code is sequential Python almost everywhere; what is hard about it is what
several processes do to the same database and file system: worker processes and
their heartbeat threads, operator commands, `zanzara process`, web requests and
benchmark runs, each of which may stop at any point.

These modules model that core, and the computations whose results the archive is
judged by: cutting audio, merging and attributing words, choosing excerpts, scoring.
TLC checks them on small instances; TLAPS proves every safety property that the passing
runs check, for every value of the constants, but two about the scoring algorithms.

## The system

| Component | Source | State it keeps | Operations | Hard part |
|---|---|---|---|---|
| Durable job queue | `storage.py`, `jobs.py`, `cli.py` | `jobs` rows: status, attempts, owner, fencing token, lease | enqueue, claim, heartbeat, complete, fail, cancel, retry, recover | leases that run out under a slow worker, stale clocks, read-then-write operator commands |
| Cost ledger | `storage.py` | `cost_reservations` | reserve, mark ambiguous, settle, release | a paid call whose outcome is unknown |
| Artifact publication | `artifacts.py`, `storage.py` | artifact directories, `artifacts` rows | publish, record, reconcile | two stores without a common transaction; fence checks that age |
| Identity review | `storage.py`, `web.py` | decisions, audit, memberships, global speakers, one revision | register, same / different / uncertain, undo, split, name | a derived grouping kept incrementally; optimistic concurrency |
| Chunk inference orchestration | `p1r_orchestration.py`, `storage.py` | dispatch rows, hypotheses, raw artifacts, jobs | run, retry, reconcile | one result spread over four records; overlapping and repeated runs |
| Annotation revisions, chunk review, calibration | `annotations.py`, `chunk_review.py`, `calibration.py`, `storage.py`, `web.py` | append-only revisions | save, export, decide | revision numbers computed before the write lock; an export after the commit |
| Draft assistance | `qwen_assistance.py`, `storage.py` | one draft per question and model | ask, call, record, read back | two answers to one question |
| Text index and generations | `text_index.py`, `storage.py` | `text_chunks` and their FTS rows, generations, pointers | build, replace, publish | two tables no key ties together; a fence read before the lock |
| Voice index and search | `voice_index.py`, `voice_search.py` | vector collections behind two aliases | build, switch, search | switch against build and reader |
| Stage graph | `stages.py` | none (pure) | dependencies, invalidation, reuse | closure under dependencies |
| Chunk segmentation | `chunking.py` | none (pure) | candidates, cuts, merge of tails | coverage, limits, ties |
| Transcripts, attribution | `asr.py`, `transcripts.py`, `text_index.py` | none (pure) | window, merge, attribute, group | words on borders, overlaps |
| Exemplar selection | `exemplars.py` | none (pure) | interval subtraction, choice | rounding, boundaries |
| Evaluation, scoring | `evaluation*.py`, `p1r_asr.py`, `p1r_diarization.py`, `p1r_integrated.py` | none (pure) | alignment, assignment, metrics, gates | optimality, ties, leaks between splits |
| Condition seeds | `*_conditions.py`, `inference.py` | none (pure) | round, clip, sweep, average | segments that touch, missing classes |
| Corpus, pilot, baseline, contracts, model locks, services | the remaining files | files on disk | verify, run, validate | I/O |

How they interact. The jobs table is the only coordination between processes: a
worker's right to act is its fencing token, which publication and dispatch rows
check again (`_assert_job_fence`). The orchestrator is a client of both the queue
and the publisher. A blocked paid job and the flag on its reservation change in
one transaction. The identity tables share only the database with the rest.

One fact about SQLite decides the granularity of every model:
`SQLiteRepository.transaction()` leaves the beginning of the transaction to
Python's `sqlite3`, which begins it at the first INSERT, UPDATE or DELETE. A SELECT
before that is a read of its own. Where a method writes by primary key what such a
read allowed, the model has two actions; where the method begins with
`_begin_immediate()`, writes first, or repeats its condition in the WHERE clause, it
has one.

## Modules

| Module | Models | Extends / instantiates |
|---|---|---|
| `CostLedger` | the ledger; every operation one action | |
| `JobQueue` | the jobs table, `DurableWorker.run_once` with its heartbeat, operator commands, the ledger | EXTENDS `CostLedger`; INSTANCE `ExclusiveLease`, `Fence` |
| `ExclusiveLease` | abstract: what the queue promises a worker | |
| `Fence` | abstract: what a publication may rely on | |
| `FencedPublication` | `ArtifactPublisher.publish`, `record_artifact`, `reconcile` | EXTENDS `Fence` |
| `IdentityReview` | the identity tables, the speakers page and the API | |
| `ChunkDispatch` | `ChunkInferenceOrchestrator` with its dispatch rows | |
| `JobQueueProofs` | types, unique holder, who may succeed; implements `Fence` and `ExclusiveLease`; paid requests are dispatched once, charges flagged, budgets kept | EXTENDS `JobQueue` |
| `FencedPublicationProofs` | types, rows are on disk, success is recorded, immutability | EXTENDS `FencedPublication` |
| `IdentityReviewProofs` | groups are the components of the decisions, the audit | EXTENDS `IdentityReview` |
| `ChunkDispatchProofs` | provenance, outcomes, immutable results | EXTENDS `ChunkDispatch` |
| `Reviews` | annotation, decision and chunk review logs with their open pages | |
| `Assistance` | drafts of a language model for a reviewer | |
| `SearchIndex` | `record_artifact`, `replace_text_chunks`, `publish_generation` | |
| `VoiceIndex` | builds, alias switch, voice search over Qdrant | |
| `ServicesProofs` | reviews, drafts, voice search and text search keep their promises | EXTENDS `Reviews`, `Assistance`, `VoiceIndex`, `SearchIndex` |
| `Computation` | the frame of a pure computation: an input and the work on it | |
| `Timeline` | intervals, overlaps, gaps, who is active | |
| `Stages` | invalidation and reuse | EXTENDS `Computation` |
| `Chunking` | the three segmentation policies | EXTENDS `Computation`, `Timeline` |
| `ChunkingProofs` | sound segmentation, bad cuts are the last resort | EXTENDS `Chunking`, `ComputationProofs` |
| `Transcription` | ASR windows to indexed runs | EXTENDS `Computation`, `Timeline` |
| `Exemplars` | excerpts of each speaker | EXTENDS `Computation`, `Timeline` |
| `Conditions` | speaker and acoustic condition seeds | EXTENDS `Computation`, `Timeline` |
| `Alignment` | edit distance, backtrace, Hirschberg split | EXTENDS `Computation` |
| `TextScore` | WER, ORC-WER, cpWER and their sums | EXTENDS `Alignment` |
| `DiarizationScore` | speaker assignment and diarization error | EXTENDS `Computation`, `Timeline` |
| `Evaluation` | slices, word counts, the two review gates | EXTENDS `Alignment`, `Timeline` |
| `ComputationProofs` | reuse, gates, held-out slices and exemplars are what they promise | EXTENDS `Stages`, `Evaluation`, `Exemplars` |
| `SpeechProofs` | condition seeds are exact, words are indexed once and in maximal runs | EXTENDS `ComputationProofs`, `Conditions`, `Transcription` |
| `MCArchive` | all of the above from `Reviews` on, and `CostLedger`, side by side | EXTENDS their MC modules |
| other `MC*` | the instances for TLC | |

### JobQueue and the code

`job[j]` is the row of j: `attempts`, `token` (`fencing_token`), `owner`, `action`
(`recovery_action`), `created` (`created_at`, one value per second), and `ttl`,
which is `lease_expires_at` minus now, in ticks. In `retry_wait` the same column
holds the end of the backoff, in the code and in the model. `Tick` lets time pass.
Every call computes its timestamp before it waits for the database, so each action
that compares with a clock takes the `age` of its timestamp, at most `Lag` ticks.

`worker[w]` is the memory of a worker process: which claim it works under, whether
its heartbeat thread was refused (`lost`), and, between the callback and the final
write, what `fail_job` read. `RunnerReturns` and `RunnerRaises` are the stage
callback; its work is opaque. `operator[o]` holds what `cancel_job` and
`recover_expired_leases` have read and not yet written. `dispatched` is a history
variable: it counts how often a paid request reached a runner.

The abstract `ExclusiveLease` has no clocks, tokens or retries: a set of at most one
worker that may still finish a job. The refinement maps the holder to the worker
whose token is current on a running row, and `done` to the succeeded jobs. It is
implemented by the queue without operator commands, which can un-finish a job (see
the findings). `Fence` is weaker and holds with them: tokens only grow, a new lease
needs a new token, a withdrawn lease never comes back under the old one. It is what
`FencedPublication` is built from, so its worker is not tied to one queue.

### FencedPublication and the code

One action per durable effect: the fence check on entry, the temporary directory, the
second fence check, `os.replace`, the SELECTs of `record_artifact`, its INSERT. A
directory that exists is read back whatever this attempt produced, so
`publisher[w].content` becomes what is on disk. `Direct` publishers are `zanzara
process`, which has no job. A crash drops the memory of the process and leaves what
is on disk. `reconcile` is a pass: `BeginReconcile` remembers which directories are
complete, `ScanOrphan` takes them one by one, `CheckOrphan` and `RecordOrphan` are the
SELECT and the INSERT of `record_artifact`. `reconcile` catches an
`ArtifactPublicationError` alone (`artifacts.py:229`), so a conflict or a refused INSERT
ends the whole pass; so may a crash.
File contents are one value per attempt: the checksums in the manifest are the
comparison of these values.

### IdentityReview and the code

Every edit begins with the guarded UPDATE of `identity_state.revision` and is
therefore one action, with all it does: the decision, the merge or rebuild of the
groups, the supersession of decisions and global speakers, the audit rows.
`Component` gives the union-find of `_rebuild_identity_group` its meaning: the
smallest set around a speaker that no pair leaves. Which fresh id a group gets is
nondeterministic. The page of a reviewer is loaded in two steps (rows, then
revision), as `speakers_page` does.

### ChunkDispatch and the code

`run[o]` is one process inside `ChunkInferenceOrchestrator.run`: the position in its
list of dispatches, the statuses it listed at the beginning, the audio of the current
chunk, its claim, the response. Each of `start_chunk_inference_dispatch`,
`publish_chunk_inference_success` and `record_chunk_inference_failure` is a check
and a later write, since its reads precede the SQLite transaction. `Visit` is the
reconciliation at the beginning of `_run_dispatch`, `Reread` the row that is read after it. `Expire` stands
for the clock; a lease may run out between any two steps. The heartbeat needs no action of its
own: it delays `Expire`, and its refusal is an alternative of `Ask`. `Crash` also
covers the provenance errors that end a run. The raw artifact is published in two
steps; `FencedPublication` has the detail.

### Computations and the code

A module of the `Computation` family has two variables: `input`, which never changes
and whose `kind` names the module, and `work`, what is computed so far. One action is
one pass of a loop of the code (a cut, a window, a visited column, a swept segment)
or one call that has no loop of interest. What is deterministic in the code is
deterministic here; only the recognizer of `Transcription`, which is external, may or
may not hear the rest of a word that its window cuts. Times are ticks. Records,
digests, messages and diagnostics are left out; an input the code refuses ends in a
phase of its own (`rejected`, `refused`, `failed`).

- `Chunking`: `Prepare` is `segment_chunks_with_metadata` up to the loop, with the
  choice of the policy; `CommunityBoundaries` and `NativeCandidates` are the candidates
  with their classes; the cutting actions take one chunk each and merge a short tail
  into its predecessor. `SegmentationIsAccepted` is `_validate_coverage`.
- `Transcription`: `transcribe_windowed`, `merge_window_results`, `attribute_word`,
  `build_text_chunks`, in the order `process` calls them.
- `Exemplars` and `Stages`: one action for each speaker and for each stage taken from
  the worklist.
- `DiarizationScore`: `VisitColumn` and `AugmentPath` are the two loops of
  `maximum_score`, the Hungarian algorithm with potentials; the options of
  `_speaker_mapping` are tried in order, each with a search of its own.
  `evaluation_metrics` has the same algorithm and is mapped to the same definitions.
- `Alignment`: `TrimEnds`, `SplitInHalf`, `AlignDirectly` and `AppendSuffix` are one action each;
  the pending pairs are the recursion's stack.
- `TextScore` and `Evaluation`: one item, one slice, one aggregation per action. The
  recurrences (`Costs`, `OrcBest`, `CpAssignment`) are recursive functions, as the code
  memoizes them. `EditAlignment` is `_edit_alignment` as one operator, for the metrics that
  call it. A document of `Evaluation` says which of the required fields it lacks, since its
  two readers fill them in differently (`AsReference`, `AsScored`), and whether its
  provenance merely names a model or has the hash of a fingerprint. A word has the form it is
  written in and the tokens it normalizes to. Thresholds are given or the default ones.
- `Conditions`: service times are half ticks and are rounded as `_seconds_to_ms` does;
  probabilities are percents. A service that fails, or whose answer is refused, leaves its
  half of the seed unknown. Sums of scores are exact, where the code adds floats.

Simplifications that make more behaviours, or none less: a window of `Transcription` without
words, or with words out of order, is refused by the code and goes on here; `Exemplars` derives
the overlaps from the turns, where the service sends both; `OptionsAfter` of
`DiarizationScore` puts unmapped before every name, which the code does for names that
sort below `~`; `ScrollExemplars` of `VoiceIndex` leaves out the limit of eleven, above the ten
excerpts a speaker can have.

### Services and the code

`Reviews` has the stored revisions of three kinds of log and the page of each
reviewer. `CheckRevision` and `InsertRow` are two actions, because the SELECT runs
before SQLite opens the transaction; the chunk review is one, because it begins with
`BEGIN IMMEDIATE`. `PublishExport` and `FailExport` follow the commit of an annotation,
`FailReread` that of a chunk review, whose answer reads the chunk once more.
A page may send the same form again after any answer but success.

`Assistance` has a look-up, the call to the helper, the SELECT, the INSERT and the
reading back as separate actions of each request. The helper may fail; the failure
is recorded like a text. `answered` is a history of what was said to which question.

`SearchIndex` gives the open write transaction its own copy of the database, `draft`,
which a commit puts in place and a crash forgets. `VoiceIndex` has one action for each
request to Qdrant; which points are nearest is nondeterministic.

## What the runs check

| Run | Instance | Shows |
|---|---|---|
| `jobs_workers` | 2 jobs (one paid, same request id), 2 workers under one owner name, lease 2, backoff 1 and 2, lag 1, 2 attempts | refinement of `ExclusiveLease`; `UnfinishedJobsComeFree` |
| `jobs_operators` | the same with an operator process, 1 manual retry, lag 0, worker symmetry | types, `OneHolder`, `SucceedsByHolder`, `PaidAtMostOnce`, `UnknownChargeFlagged`, refinement of `Fence` |
| `publication` | 1 job, 2 workers, 1 direct publisher, 2 places, 2 contents, 3 tokens | recorded artifacts are on disk, immutable and never lost; a finished job has its artifact; a pass of reconcile leaves no orphan behind |
| `identity` | 4 speakers in 2 episodes, 3 global ids, 3 decisions, 4 edits | groups, decisions and audit agree; no contradiction; superseded is final |
| `chunk_dispatch` | 1 dispatch, 2 overlapping runs, 2 responses, 2 attempts, 1 retry, 1 crash | provenance, visible outcomes, immutability, surfacing, every dispatch decided |
| `archive` | see below | the computations compute what they are to compute, and the services keep their promises under races, failures and repeats |

`MCArchive` puts the computations and services side by side: the kind of the input
chosen in `Init` says which one a behaviour is about, and the others stay as they begin,
so that one run checks them all on the sum, not the product, of their states. They
do not interact in the code either, except through records on disk. Its inputs:

| Part | Inputs | Property | What it says |
|---|---|---|---|
| `Chunking` | every assignment of two speakers to six cells under the community and the native policy, with one or two regions; legacy boundaries at five places; one of every refused input | `SegmentationIsSound` | an episode is covered without overlap by chunks of legal length; only a last chunk without room before it is short |
| | | `BadCutIsLastResort` | a cut in speech or near an overlap is made only where no silence was in reach |
| `Transcription` | two words anywhere in an episode of three windows, perhaps a third, three pairs of tracks, any hearing of cut words | `TranscriptIsSound` | a word not longer than the two contexts is indexed once with its own offsets; chunks are maximal runs of one speaker |
| `Exemplars` | three turns with every offset of one against the other | `ExemplarsAreSound` | excerpts and their surroundings are one speaker alone, everything else said is accounted for |
| `Stages` | every pair of changed stages | `ReuseIsExact` | a result is reused iff nothing upstream changed |
| `DiarizationScore` | every small matrix of shared times, and timelines with overlap, collar and slice | `SpeakerMapIsBest` | the map gives the least error of all one-to-one maps, is canonical among equals, and is always found |
| `Alignment`, `TextScore` | every pair of sentences of up to five words over two tokens; every two reference and two hypothesis streams of up to two words, a third stream, pairs of odd items | `TextScoresAreExact` | trimming and splitting, interleaving and pairing give the least error there is |
| `Evaluation` | one reference with every kind of defect, each required field left out and every provenance; hypotheses with changed words, times, speakers and provenance; every choice of thresholds | `HeldOutIsApart` | the verdict rests on the held-out fifth, each word counts in one block |
| | | `GatesAgree` | `validate_reference` and the verdict agree, but for a named model that has no hash, the fields the annotation stands in for, and what the verdict never asks: whose audio it is, its provenance, the spread of its timed words |
| `Conditions` | every turn of two speakers with several third turns; every score table over two windows | `ConditionsAreExact` | the seed of a chunk is what the whole episode says of it; labels have evidence |
| `CostLedger` | three requests, budget 3 | `BudgetRespected` | exposure passes the budget only by what charges exceeded their own bound |
| `Reviews` | one log of each kind, two reviewers with two saves each | `NoReviewIsLost` | revisions are one chain, and answers tell the truth about them |
| `SearchIndex` | two attributions of an episode, a changed and a foreign one, two indexers, a publisher | `SearchIsOneEdition` | a search finds one whole edition or nothing; the pointer names a generation |
| `VoiceIndex` | three artifacts, two builders with two builds, a searcher | `VoiceSearchIsCoherent` | the aliases name one complete generation, a search stays in one |
| `Assistance` | one question, two clients of one model and one without a helper, two requests each | `DraftsAgree` | everybody answered for one model has the one stored draft |

The reference definitions in the properties are brute force and know nothing of the
algorithm: all interleavings, all injections, every tick of the chunk.

Runs that are expected to fail, each with one property quoted from the repository:

| Run | The repository says | What happens |
|---|---|---|
| `jobs_cancel` | "terminal jobs cannot be cancelled" (`storage.py:2854`) | the job succeeds between `cancel_job`'s SELECT and its UPDATE by `job_id`: a finished job becomes cancelled |
| `jobs_recover` | "Requeue expired jobs, or persist retry exhaustion, in one short transaction." (`storage.py:2886`) | the job is reclaimed for its last attempt after the SELECT; the UPDATE queues it with no attempt left, and no claim takes it |
| `publication_stale` | "A lost lease therefore cannot expose stale output" (`docs/jobs.md:23`) | the lease is lost after the last check and before `os.replace` |
| `identity_page` | "A stale revision returns conflict, never overwrites human work" (`planning/SYSTEM-DESIGN.md:160`) | another reviewer's edit falls between the page's row query and its revision query: old rows, current revision, accepted edit |
| `chunk_dispatch_raw` | "publishes its raw JSON response as an immutable `chunk-inference` artifact, then records the immutable `TranscriptionHypothesis`" (`docs/p1r-orchestration.md:13`) | the attempt ends after publication; the next one gets another response, keeps the old directory, and records a hypothesis whose `raw_response_sha256` is not that of its artifact |
| `chunking_change` | "A clean change may have a micro-gap, or two near-contiguous turns." (`chunking.py:743`), "±250 ms speaker-change" (`docs/p1r-chunk-segmentation.md:22`) | inside a silence nobody is active, so the check of one speaker on each side of the midpoint (`chunking.py:764`) drops every change across a gap; only turns that touch, or cross without conflict, qualify |

The window of each race is short in practice; the counterexamples show that nothing but
timing closes it.

### Bounds, and why they are enough

Two workers and one operator suffice for a stale actor beside a current one, which is
all a fence can confuse; a third would repeat the second. Both workers have one owner
name because the code allows it and only the token then separates them. Two jobs are
needed for the shared request id and the order of `claim_next_job`. Two attempts give
every class of row (fresh, retried, exhausted). A lease of two ticks leaves time both
to renew it and to lose it, and `Lag` 1 lets a call judge an expiry with an old clock.
Three tokens allow two reclaims of a stale publisher. Four speakers are the smallest
number for which a split leaves two real groups. `MaxRetries`, `MaxToken`, `MaxDirect`,
`MaxDecisions`, `MaxEdits` and `MaxCrashes` bound what would otherwise go on for ever.

In `archive`, times are as short as the case distinctions allow: a region of twelve
ticks against a hard maximum of six needs two to six cuts and leaves every kind of
tail; two ticks to a quarter second tell all score adjustments apart. Three windows give
a word a border on both sides. Three speakers on a side give the assignment a real
path to augment, two streams of two words every interleaving that matters, and
`DirectCells` 4 splits sentences of three words already. Two reviewers, indexers or
clients race in every way that one stale read allows. `MaxSaves`, `MaxBuilds`,
`MaxStarts` and `MaxAsks` bound repetition. Computations end and the bounded services
stop, so this run and `chunking_change` do not check deadlock.

`ChunkDispatch` is checked with one dispatch. With two dispatches of one chunk the safety properties
hold on 5.1 million states, which with liveness is beyond a short run; dispatches
share only the audio and the order in which a run visits them.

### Fairness

`JobQueue`: time passes, a stage callback returns or raises, and the write that follows in
the same `worker run` is made. `worker run` takes one job and exits (`cli.py:657`,
`docs/workstation.md:76`), so no claim is assumed, and nothing of heartbeats, crashes or
operators. `UnfinishedJobsComeFree` therefore says what the queue does by itself: a job that is
held, by whomever, ends, or comes back to where the next `worker run` would claim or block it
at any clock, or has used its attempts and waits for `jobs recover`.
`FencedPublication`: none. Reconciliation is an "explicit restart operation"
(`docs/jobs.md:24`) that somebody runs or not, and a conflict ends it; so what
it achieves is a safety property, `PassLeavesNoOrphan`: whatever a pass that still goes on has been to
is recorded. A pass that ended early promises nothing about the rest.
`ChunkDispatch`: a run goes on until it ends and is started again; leases and
backoffs end. The model never has to answer: a dispatch may be decided by exhausting
its attempts. The modules of `archive` are checked for safety alone: the computations
are loops over finite data, and nothing in the code calls a reviewer, a builder or a
client again.

## What is proved

For every number of jobs, workers, operators and requests, every lease, backoff, lag
below the lease, and attempt limit (`QueueAssumption`, `LedgerAssumption`):

- `TypeCorrect`: `Spec => []TypeOK`.
- `HolderUnique`: `Spec => []OneHolder`. `OneHolder` alone is not inductive: a claim
  could give out a token that some forgotten attempt still holds. The inductive
  invariant is `FenceInv`: the types; `FencesDistinct`, every attempt in memory holds
  a token not above that of its row, and no two attempts at one job the same; and
  `OperatorNamesJob`, an operator about to write a cancellation names a job. A claim
  moves the token past everything handed out before; no other step lowers it, stale writes
  included: a cancellation raises it, a recovery leaves it alone.
- `OnlyHolderSucceeds`: `Spec => [][...]`, the action property `SucceedsByHolder`, from
  the same invariant: only `Complete` sets `succeeded`.
- `PaidDispatchedOnce`: `Spec => []PaidAtMostOnce`. The argument, `PaidInv`: a request
  that was dispatched has a paid job with attempts behind it, which `Dispatchable`
  refuses; only `retry_job` resets attempts, it does so from `failed` alone, and no
  paid job ever fails: its failures are deterministic or ambiguous, and a recovery
  blocks it even when it writes from a stale read.
- `UnknownChargesFlagged`: `Spec => []UnknownChargeFlagged`. A job could be blocked while
  its request has no row yet, and the row be reserved afterwards; and a recovery blocks by
  what it read. `FlagInv` adds that a paid job with attempts behind it has a row, and that
  a running job, or one a recovery is about to write, has attempts. A row never
  disappears and never goes back to `reserved` (`LedgerAdvances`), whoever changes it.
- `BudgetKept`: `Spec => []BudgetRespected`. `BudgetInv` splits the count of each request
  into what its reservation covers and the excess of a settlement, and bounds the sum of
  the first by the budget: only `Reserve` adds to it, under the condition it reads in the
  same transaction. The sums are sizes of sets, so the library's facts about
  finite sets apply and no induction is needed; `LedgerAssumption` makes the requests finite.
- `QueueImplementsFence`: `Spec => ImplementsFence`, the refinement. Each action either
  hands one lease out under the next token (claims) or leaves every token but a
  cancelled job's and makes no lease live that was not. The one delicate step is the
  renewal: its clock may be `Lag` ticks old, so a lease counts as live until it is over
  for every clock; `Lag < Lease` makes a fresh claim live in that sense. `FenceInv`
  supplies the types and that a cancellation names a job.
- `QueueImplementsLease`: with no operators, `Spec => ImplementsExclusiveLease`. A claim
  is `Acquire`, with the paid jobs it blocks on the way among those withdrawn; a
  completion is `Finish`; every other step gives no worker a lease it did not hold, so it
  is `Withdraw` of the jobs nobody holds afterwards. `OneHolder` makes the mapped holder
  of a job that is being finished a single worker. The hypothesis `Operators = {}` is
  needed: `jobs_cancel` shows that a cancellation can break the promise.

For every number of jobs, places, workers and direct runs (`PublicationAssumption`):

- `PublicationTypes`, `RecordedOnDisk`, `SucceededRecorded`, `PassLeavesNone` and `PublishedForEver`, from
  one inductive invariant, `PublicationInv`. `RecordedIsOnDisk` alone is not inductive,
  because a row is written from the content a publisher or the reconciliation holds in
  memory; `HeldIsOnDisk` says that what they hold from `checking` on is what the
  directory has (the move checks that the place is free, and nothing removes a directory).
  `PublishersInPlace` ties a publisher's place to its job's and gives a publisher that is
  about to finish a row, which `SucceededIsRecorded` needs. `BehindIsRecorded` says that a
  pass has recorded what is behind it, but for the directory it has in hand, and
  `PresentStays` that what it remembers as complete still is; together they give
  `PassLeavesNoOrphan`.

For every number of clients, questions, models and texts (`AssistanceAssumption`), of
`AssistanceSpec`, whose steps are those the `archive` run checks:

- `DraftsAlwaysAgree`: `AssistanceSpec => []DraftsAgree`. `DraftsAgree` is not inductive:
  a draft is stored from what a request holds, and read back later by a request that must
  find it. `AssistanceInv` adds the types, that what a request is about to store was said by
  its model to its question, and that a request past its INSERT, or refused by it, has a
  draft to read. Only `InsertDraft` changes the drafts, and only fills an empty place.

For every number of speakers, identities, decisions and reviewers (`IdentityAssumption`;
speakers and identities are finite):

- `IdentityTypes`, `MembershipProjected`, `NeverContradicted`, `ActiveGlobalsShared`,
  `AuditComplete` and `SupersededFinal`, from `IdentityInv`. Its heart is
  `GroupsAreComponents`: the members of a global identity are the connected component of
  the same-person decisions in force, for every speaker. The code never computes
  all components at once, so the proof follows what an edit does to them: a new same-person
  edge joins two components and leaves the others alone (`Merge` joins exactly
  those); without an edge, a component falls apart into components that lie inside it, so
  rebuilding that one group is enough (`Rebuild`). `Component` is an
  intersection of closed sets, which gives its facts (it is symmetric, and least) without
  induction. `ApartIsApart` is preserved because an edit that would join two speakers told
  apart is refused, and splitting only makes groups smaller. `IdsAreShared`
  says that identities in use are active and shared; `DecisionsOK` that a decision
  names two registered speakers and is revised at most once, which the audit needs.

For every number of dispatches, attempts, retries, crashes and runs
(`DispatchAssumption`: every run visits some dispatches, every dispatch is visited):

- `DispatchTypes`, `ProvenanceKept`, `OutcomeKept` and `ResultsKept`, from `DispatchInv`.
  A run writes its row, its job and its hypothesis in transactions of their own, from
  what it remembers; so `Fits` says what a run has behind it at each point: the answer and
  its audio when it publishes, a raw response when it records, a hypothesis when it
  is about to complete its job, an error in the row when it is about to fail it.
  `Grows` states what no step of another run takes away, and is proved for each action;
  with it every `Fits` survives the other runs, lost leases included.

For every number of reviewers, logs and saves (`ReviewsAssumption`), builders and searches
over finitely many artifacts (`VoiceAssumption`), and indexers, publishers and editions
(`IndexAssumption`: an artifact with its manifest is one edition, as both names are
digests of what they name), of the next-state relations `archive` checks side by side:

- `ReviewsKept`: `ReviewsSpec => []NoReviewIsLost`. `ReviewsInv` has the chain by size: the
  revisions of a log are 1 to the number of its rows, each on the one before it; and per
  step of a page what it relies on: what it shows was stored, a save that was
  sent is not stored yet, one that was answered is. A save number is never used again.
- `VoicesCoherent`: `VoiceSpec => []VoiceSearchIsCoherent`. `VoiceInv` says the aliases
  name one generation, whose two collections are whole; a builder that is about to
  switch has counted both; nobody removes a point or a collection, so what a
  search read from the aliases stays whole however often they move under it.
- `OneEditionFound`: `IndexSpec => []SearchIsOneEdition`. `IndexInv` is stated of the
  database and of the open write transaction alike: the rows of an episode are all the
  chunks of one recorded edition, each once, or none; within a transaction, the episode
  being rewritten alone may be incomplete. Who writes is who holds the write lock, and a
  rollback restores a database that had all of this.

For every input of the computations' domains (`ChunkingInput`, `StagesInput`,
`EvaluationInput`, `ExemplarsInput`, `IsConditionsInput`, `TranscriptionInput`, in which TLC
finds the instances it checks: `InputsAreDomains` of `MCArchive`):

- `SegmentationSound` and `BadCutsAreLast`: `ChunkingSpec => []SegmentationIsSound` and
  `=> []BadCutIsLastResort`, for every set of regions, turns, activity and boundaries and
  all limits a configuration accepts (`PolicyAssumption`). Both speak of the published
  chunks; the inductive invariant is `Segmented`, whose three parts speak of the chunks so
  far. `Shape`: they are in order, each lies in an opened region and touches the next
  unless it ends its region, and what is opened is covered up to `work.start`. `Judged`:
  each chunk was, when it was cut, short only as a tail without room before it, and bad only
  as the last resort; merging a tail keeps this, since a tail is merged into a chunk that did
  not end its region. The third part, the legacy policy's alone, says that a region it has
  begun has `PreferredMin` left, so that its last chunk is not short. The cuts need the
  candidates: `LeastKey` finds the least key of a finite set, `TimesKept` that the best
  candidate at a time survives, `PauseIsCandidate` and `NativeCandidatesAre` that every
  silence within reach is one. `AllCovered` then is `_validate_coverage`.
  The proof corrected both properties where the small instance had not reached: under
  `HardMax < 2 * PreferredMin` the legacy policy may leave a short chunk at the start of its
  region too, and a relaxed native cut looks for silences no further than the end of its
  region, not of the episode.

- `ReuseExact`: `StagesSpec => []ReuseIsExact`. `WalkInv` says of a walk under way that
  whatever is invalidated has a cause, and that a stage which is not pending any more has
  handed the change to all its dependants. No property of the graph is used.
- `GatesAlwaysAgree`: `EvaluationSpec => []GatesAgree`. `GateInv` keeps what each of the two
  gates decided equal to what its checks say of the input, and `GatesCompared` compares the
  checks. The two readers fill in other values only for fields whose absence one of them
  reports, and the defaults of a machine never pass for a review.
- `ExemplarsSound`: `ExemplarsSpec => []ExemplarsAreSound`, for every finite set of turns and
  all lengths, limits and transitions that are in order (`ExcerptAssumption`). Each entry the loop
  writes is `EntryOf` its speaker, so the work is in the operators, bottom up: `RunIs`,
  `RunAt` and `RunsApart` say what the maximal runs of a set of ticks are; `SegmentAt`,
  `OverlapAt` and `BlockedIs` that a tick is blocked iff two speakers are active within
  `Transition` of it; `CutsAre` and `PartsSound` that both ways to split a piece give
  consecutive parts of at most `MaxExcerpt` that fill it, one of them long enough (the even
  split needs the arithmetic of rounded quotients, `EvenSplit`); `RanksOrder` that the
  ranking is a total order, so the best candidate is always within the limit
  (`BestIsChosen`). Induction is avoided by taking least elements of sets of numbers
  (`LeastOf`), which follows from the library's well-founded order on Nat.
- `HeldOutApart`: `EvaluationSpec => []HeldOutIsApart`. `HeldInv` says that each entry of
  the report scores the words of its slice and that the first eight slices are the fixed
  ones, under names no speaker's slice can have; `NamedIs` finds them. The order of the
  catalogue is a count of smaller members, so which slice comes where needs no induction
  either. `BoundariesAre` has the arithmetic: every midpoint lies in exactly one of the
  fifths, whatever the duration leaves over, so the counts add up (`BlocksSum`).
- `ConditionsExact`: `ConditionsSpec => []ConditionsAreExact`, for every answer of the two
  services and all thresholds. Of the speakers, `SpeakersInv` has `SweepFits`: what the
  sweep has summed up so far (speech, overlap, the busiest moment, the overlap that is still
  open) is what the ticks before its edge have, and what it closed are maximal runs
  (`OverlapsGrow`, `OverlapIsRun`); at the last edge that is the whole chunk, so the seed is
  accepted (`SweepAccepted`). Of the sound, `SoundInv`: the sum of a class's scores is the
  size of a set, so a mean that reaches a threshold is witnessed by a window that does
  (`MeanIsBetween`, `MeanIsMonotone`). The proof showed that the property was too strong
  for thresholds of zero, which the code accepts: they ask for no evidence.
- `TranscriptSound`: `TranscriptionSpec => []TranscriptIsSound`, for every finite set of
  words, every hearing of the words a window cuts, and all lengths and limits
  (`WindowAssumption`). `WindowsInv`: the windows lie side by side up to `OwnedUpTo`, every
  midpoint before it is in one of them, and each answered whatever lies inside its audio.
  A word no longer than two contexts is heard whole by the owner of its midpoint
  (`OwnerHearsAll`), and what is left of it in another window keeps its midpoint outside
  that window (`OthersDoNotOwn`: the clip is on the far side of the border), so it is merged
  exactly once (`ShortOnce`). `Indexed`: of all merged words each is either left or in one
  place of one text; the texts are runs in order, each had to end where the next begins, and
  what is left comes later. `StartRun` and `ExtendRun` keep it when the next word goes to a
  new run or to the open one; `MustBreakIs` relates the test of the code, which looks at the
  latest end of the run, to the span that is promised.

The proofs are laid out as a lemma per operation, then a step lemma with one case per
action, then the temporal theorem.

Only model-checked: the liveness properties (temporal reasoning with fairness and
ENABLED is out of the prover's reach: `UnfinishedJobsComeFree`, `ResultsSurface` and
`DispatchesAreDecided`), and the scoring algorithms: that the
recurrences of `Alignment` and `TextScore` give the least number of errors
(`TextScoresAreExact`), and that the Hungarian algorithm and the canonical choice of
`DiarizationScore` give the best map (`SpeakerMapIsBest`). What these compute for every
input needs induction over data, which is out of reach too.
Where a definition could be given without recursion it was, so that it can be reasoned
about: `SumOf` is the size of a set, `Component` an intersection of closed sets.

## What is not modelled, and why

The work of a stage: models, audio and their results are nondeterministic answers.
HTML, formats, identifiers and hashes: identity is equality of values.
Failures of SQLite or of the disk itself: a statement that fails rolls back and raises, which
is the crash of the models. Model services are stateless servers. Statistics on
floats (bootstrap intervals, timing quantiles, signal measurements): TLC has no reals;
rates are compared as counts. Character errors are word errors on other symbols.
Corpus verification, the pilot and baseline pipelines, model locks and the validation
of a calibration batch compare JSON records with files: they keep no state, and a model
would restate each comparison. The acoustic corrections are append-only rows without
a revision. `PROJECT.json` gives the reason for each component.

Seen while modelling, and stated by no run:

- `docs/evaluation.md:93` and `evaluation_metrics.py:929` say that unmapped words are
  scored as insertions. They form a bucket of their own, which is aligned with the
  reference words that have no speaker: with such words they may be hits.
- `p1r_asr._aggregate_metric` reports `scored` although some chunks lack evidence, where
  the cpWER of the same chunks is `partial`. `AsrAggregate` and `CpAggregate` have both.
- A failed annotation export answers 503 but leaves the revision stored; the same form
  sent again meets its own revision and gets a conflict. So does a chunk review whose
  chunk cannot be read after the commit. `NoReviewIsLost` names these two as the
  answers that hide a stored row.
- `validate_reference` is content with any named model (`evaluation.py:169`), while the verdict
  asks for the hash of a fingerprint (`evaluation_metrics.py:1088`): a valid reference may
  still be turned down. `GatesAgree` is stated for documents that have one.
- A draft that was `unavailable` is stored for ever under its question and model, so
  asking again later never reaches the helper.
- The latest acoustic correction is the greatest stamp in seconds, taken before the write
  lock, then the greatest hash: of two in one second an arbitrary one is the latest.
- The mean of an AudioSet class is taken over the windows that report the class, and
  the windows need not cover the chunk.

## Roadmap

1. A generic worker beside the orchestrator on one jobs table; a second registration
   of an older diarization (`NewestStaysCurrent`).
2. Inference clients: request, error classes, retry.
3. A proof that `Costs` and `OrcBest` bound every alignment, once the provers can do
   induction over data; the parts of `DiarizationScore` that are not loops.
