--------------------------- MODULE ChunkDispatch ---------------------------
(***************************************************************************)
(* The multi-model chunk benchmark: ChunkInferenceOrchestrator of          *)
(* p1r_orchestration.py with the dispatch rows, hypotheses and jobs of     *)
(* storage.py.  A run walks the dispatches (chunk and model pairs) in      *)
(* order, claims the job of each, asks its model, publishes the raw        *)
(* response as an artifact, records the hypothesis with the dispatch row,  *)
(* and completes the job.  Runs may crash, be repeated and overlap.        *)
(*                                                                         *)
(* A dispatch transaction reads (the fence, the row) before its first      *)
(* write begins the SQLite transaction, so each is a check and a write.    *)
(* claim_job begins with BEGIN IMMEDIATE, complete_job and fail_job repeat *)
(* their condition in the UPDATE: one action each.                         *)
(*                                                                         *)
(* The jobs are those of JobQueue, reduced to what the orchestrator sees;  *)
(* `live' says that lease_expires_at lies ahead, for a lease and for a     *)
(* backoff.  The artifact is one step here; FencedPublication refines it.  *)
(***************************************************************************)
EXTENDS Naturals, Sequences, FiniteSetsExt

CONSTANTS
  Dispatches,     \* chunk and adapter pairs of the frozen manifest
  Order,          \* the selected dispatches of a process, chunk by chunk: a
                  \* manifest has chunks, an orchestrator has adapters
  ChunkOf,        \* the chunk of a dispatch
  Orchestrators,  \* processes that call run, again and again
  Audios,         \* what the audio loader may return
  Responses,      \* what a model may answer
  MaxAttempts,    \* max_attempts
  MaxRetries,     \* bound: manual retries of one dispatch
  MaxCrashes,     \* bound: crashes of orchestrators
  None

ASSUME DispatchAssumption ==
  /\ Order \in [Orchestrators -> Seq(Dispatches) \ {<<>>}]
  /\ \A d \in Dispatches : \E o \in Orchestrators : \E i \in DOMAIN Order[o] : Order[o][i] = d
  /\ MaxAttempts \in Nat \ {0}
  /\ MaxRetries \in Nat
  /\ MaxCrashes \in Nat
  /\ None \notin Audios \union Responses \union [response : Responses, audio : Audios]

VARIABLES
  job,       \* the job of each dispatch
  row,       \* chunk_inference_dispatches
  raw,       \* the raw response artifact of each dispatch
  hyp,       \* transcription_hypotheses, by chunk and model
  retries,   \* bounds the manual retries
  crashes,   \* bounds the crashes
  run        \* what each orchestrator holds in memory

vars == <<job, row, raw, hyp, retries, crashes, run>>

Job == [status : {"absent", "queued", "running", "retry_wait", "succeeded", "failed", "blocked"},
        attempts : Nat, token : Nat, live : BOOLEAN]

Hypothesis == [response : Responses, audio : Audios]

DispatchRow == [status : {"absent", "queued", "running", "succeeded", "failed"},
                audio : Audios \union {None},
                hyp : Hypothesis \union {None}, error : BOOLEAN]

Steps == {"idle", "ensure", "load", "visit", "reread", "consider", "claim",
          "start", "started",        \* start_chunk_inference_dispatch
          "ask", "publish", "move",  \* the adapter, and its raw response
          "record", "recorded",      \* publish_chunk_inference_success
          "complete",
          "note", "noted", "fail"}   \* record_chunk_inference_failure, fail_job

Run == [pc : Steps, at : Nat, seen : SUBSET Dispatches, audio : Audios \union {None},
        token : Nat, response : Responses \union {None}, retryable : BOOLEAN]

Resting == [pc |-> "idle", at |-> 1, seen |-> {}, audio |-> None,
            token |-> 0, response |-> None, retryable |-> FALSE]

TypeOK ==
  /\ job \in [Dispatches -> Job]
  /\ row \in [Dispatches -> DispatchRow]
  /\ raw \in [Dispatches -> Responses \union {None}]
  /\ hyp \in [Dispatches -> Hypothesis \union {None}]
  /\ retries \in [Dispatches -> Nat]
  /\ crashes \in Nat
  /\ run \in [Orchestrators -> Run]

Init ==
  /\ job = [d \in Dispatches |->
              [status |-> "absent", attempts |-> 0, token |-> 0, live |-> FALSE]]
  /\ row = [d \in Dispatches |->
              [status |-> "absent", audio |-> None, hyp |-> None, error |-> FALSE]]
  /\ raw = [d \in Dispatches |-> None]
  /\ hyp = [d \in Dispatches |-> None]
  /\ retries = [d \in Dispatches |-> 0]
  /\ crashes = 0
  /\ run = [o \in Orchestrators |-> Resting]

-----------------------------------------------------------------------------
At(o) == Order[o][run[o].at]

(* run[o] as r, moved on to the next dispatch or the end.                  *)
MovedOn(o, r) ==
  IF r.at = Len(Order[o]) THEN Resting
  ELSE LET same == ChunkOf[Order[o][r.at + 1]] = ChunkOf[Order[o][r.at]]
       IN  [r EXCEPT !.at = @ + 1, !.token = 0, !.response = None, !.retryable = FALSE,
                     !.pc = IF same THEN "visit" ELSE "load",
                     !.audio = IF same THEN @ ELSE None]

GoTo(o, pc) == run' = [run EXCEPT ![o].pc = pc]
MoveOn(o)   == run' = [run EXCEPT ![o] = MovedOn(o, @)]
(* A StorageConflictError or OrchestrationProvenanceError leaves run; the  *)
(* job and the row stay as they are.                                       *)
Abort(o)    == run' = [run EXCEPT ![o] = Resting]

(* _assert_job_fence.                                                      *)
Fenced(o) ==
  LET j == job[At(o)]
  IN  j.status = "running" /\ j.token = run[o].token /\ j.live

(* The audio check that start, success and failure share.                  *)
SameAudio(o) == row[At(o)].audio \in {None, run[o].audio}

-----------------------------------------------------------------------------
(*                     run, up to the first dispatch                       *)

Begin(o) ==
  /\ run[o].pc = "idle"
  /\ GoTo(o, "ensure")
  /\ UNCHANGED <<job, row, raw, hyp, retries, crashes>>

(* _ensure_dispatches: enqueue the job and register the row, or find both; *)
(* after the last one the rows are listed.                                 *)
Ensure(o) ==
  LET d == At(o)
      fresh == [row EXCEPT ![d].status = IF @ = "absent" THEN "queued" ELSE @]
  IN  /\ run[o].pc = "ensure"
      /\ job' = [job EXCEPT ![d].status = IF @ = "absent" THEN "queued" ELSE @]
      /\ row' = fresh
      /\ run' = [run EXCEPT ![o] =
           IF run[o].at < Len(Order[o]) THEN [run[o] EXCEPT !.at = @ + 1]
           ELSE [run[o] EXCEPT !.pc = "load", !.at = 1,
                   !.seen = {e \in Dispatches : fresh[e].status = "succeeded"}]]
      /\ UNCHANGED <<raw, hyp, retries, crashes>>

(* A chunk whose dispatches had all succeeded is skipped; for another one  *)
(* the loader is called once, and its failure is kept for every model.     *)
LoadAudio(o) ==
  LET own == {i \in DOMAIN Order[o] : ChunkOf[Order[o][i]] = ChunkOf[At(o)]}
  IN  /\ run[o].pc = "load"
      /\ IF \A i \in own : Order[o][i] \in run[o].seen
         THEN run' = [run EXCEPT ![o] = MovedOn(o, [run[o] EXCEPT !.at = Max(own)])]
         ELSE \E a \in Audios \union {None} :
                run' = [run EXCEPT ![o].pc = "visit", ![o].audio = a]
      /\ UNCHANGED <<job, row, raw, hyp, retries, crashes>>

-----------------------------------------------------------------------------
(*                            _run_dispatch                                *)

Succeeded(r, h) == [r EXCEPT !.status = "succeeded", !.hyp = h, !.audio = h.audio,
                             !.error = FALSE]

(* Mutant: a hypothesis that is there is not looked for.                   *)
VisitWithoutReconciling(o) ==
  /\ run[o].pc = "visit"
  /\ GoTo(o, "reread")
  /\ UNCHANGED <<job, row, raw, hyp, retries, crashes>>

(* _reconcile_existing_hypothesis: a recorded result is put into the row,  *)
(* unless the listing showed the dispatch as succeeded.                    *)
Visit(o) ==
  LET d == At(o)
      reconcile == d \notin run[o].seen /\ hyp[d] # None
  IN  /\ run[o].pc = "visit"
      /\ IF reconcile
         THEN IF row[d].hyp \in {None, hyp[d]} /\ row[d].audio \in {None, hyp[d].audio}
              THEN row' = [row EXCEPT ![d] = Succeeded(@, hyp[d])] /\ GoTo(o, "reread")
              ELSE Abort(o) /\ UNCHANGED row
         ELSE GoTo(o, "reread") /\ UNCHANGED row
      /\ UNCHANGED <<job, raw, hyp, retries, crashes>>

(* The row is read again; another run may have written it meanwhile.       *)
Reread(o) ==
  /\ run[o].pc = "reread"
  /\ IF row[At(o)].status = "succeeded" THEN MoveOn(o) ELSE GoTo(o, "consider")
  /\ UNCHANGED <<job, row, raw, hyp, retries, crashes>>

(* The job is read again: a failed one is retried when the caller asked    *)
(* for it, a closed one is left alone.                                     *)
Consider(o) ==
  LET d == At(o)
  IN  /\ run[o].pc = "consider"
      /\ \/ /\ job[d].status = "succeeded"
            /\ Abort(o)
            /\ UNCHANGED <<job, retries>>
         \/ /\ job[d].status \in {"failed", "blocked"}
            /\ MoveOn(o)
            /\ UNCHANGED <<job, retries>>
         \/ /\ job[d].status = "failed"
            /\ retries[d] < MaxRetries
            /\ job' = [job EXCEPT ![d].status = "queued", ![d].attempts = 0, ![d].live = FALSE]
            /\ retries' = [retries EXCEPT ![d] = @ + 1]
            /\ GoTo(o, "claim")
         \/ /\ job[d].status \in {"queued", "running", "retry_wait"}
            /\ GoTo(o, "claim")
            /\ UNCHANGED <<job, retries>>
      /\ UNCHANGED <<row, raw, hyp, crashes>>

(* Mutant: a job is claimed only when it is new or waits for its retry.    *)
ClaimWithoutReclaim(o) ==
  LET d == At(o)
  IN  /\ run[o].pc = "claim"
      /\ IF /\ job[d].status \in {"queued", "retry_wait"}
            /\ ~job[d].live
            /\ job[d].attempts < MaxAttempts
         THEN /\ job' = [job EXCEPT ![d] =
                   [status |-> "running", attempts |-> @.attempts + 1,
                    token |-> @.token + 1, live |-> TRUE]]
              /\ run' = [run EXCEPT ![o].pc = "start", ![o].token = job[d].token + 1]
         ELSE MoveOn(o) /\ UNCHANGED job
      /\ UNCHANGED <<row, raw, hyp, retries, crashes>>

Claim(o) ==
  LET d == At(o)
  IN  /\ run[o].pc = "claim"
      /\ IF /\ job[d].status \in {"queued", "running", "retry_wait"}
            /\ ~job[d].live
            /\ job[d].attempts < MaxAttempts
         THEN /\ job' = [job EXCEPT ![d] =
                   [status |-> "running", attempts |-> @.attempts + 1,
                    token |-> @.token + 1, live |-> TRUE]]
              /\ run' = [run EXCEPT ![o].pc = "start", ![o].token = job[d].token + 1]
         ELSE MoveOn(o) /\ UNCHANGED job
      /\ UNCHANGED <<row, raw, hyp, retries, crashes>>

(* start_chunk_inference_dispatch: outside the try, so a conflict ends run.*)
Start(o) ==
  /\ run[o].pc = "start"
  /\ IF Fenced(o) /\ SameAudio(o) THEN GoTo(o, "started") ELSE Abort(o)
  /\ UNCHANGED <<job, row, raw, hyp, retries, crashes>>

Started(o) ==
  /\ run[o].pc = "started"
  /\ row' = [row EXCEPT ![At(o)].status = "running", ![At(o)].audio = run[o].audio]
  /\ GoTo(o, "ask")
  /\ UNCHANGED <<job, raw, hyp, retries, crashes>>

(* _transcribe_with_heartbeat: the model answers or fails, unless the      *)
(* heartbeat was refused; without audio the loader's error is the answer.  *)
Ask(o) ==
  /\ run[o].pc = "ask"
  /\ \/ /\ run[o].audio # None
        /\ \E r \in Responses : run' = [run EXCEPT ![o].pc = "publish", ![o].response = r]
     \/ \E retryable \in BOOLEAN :
          run' = [run EXCEPT ![o].pc = "note", ![o].retryable = retryable]
     \/ run[o].audio # None /\ ~Fenced(o) /\ Abort(o)
  /\ UNCHANGED <<job, row, raw, hyp, retries, crashes>>

(* ArtifactPublisher.publish: an artifact that is there is kept, whatever  *)
(* response this attempt holds.                                            *)
Publish(o) ==
  /\ run[o].pc = "publish"
  /\ IF ~Fenced(o) THEN Abort(o)
     ELSE GoTo(o, IF raw[At(o)] = None THEN "move" ELSE "record")
  /\ UNCHANGED <<job, row, raw, hyp, retries, crashes>>

(* The staged files are checked against the fence once more, then         *)
(* os.replace; a directory that has appeared is an                         *)
(* ArtifactPublicationError, which counts as a retryable failure.          *)
Move(o) ==
  LET d == At(o)
  IN  /\ run[o].pc = "move"
      /\ \/ /\ raw[d] = None
            /\ raw' = [raw EXCEPT ![d] = run[o].response]
            /\ GoTo(o, "record")
         \/ /\ raw[d] # None
            /\ run' = [run EXCEPT ![o].pc = "note", ![o].retryable = TRUE]
            /\ UNCHANGED raw
         \/ ~Fenced(o) /\ Abort(o) /\ UNCHANGED raw
      /\ UNCHANGED <<job, row, hyp, retries, crashes>>

(* publish_chunk_inference_success.                                        *)
Record(o) ==
  /\ run[o].pc = "record"
  /\ IF Fenced(o) /\ SameAudio(o) THEN GoTo(o, "recorded") ELSE Abort(o)
  /\ UNCHANGED <<job, row, raw, hyp, retries, crashes>>

(* Mutant: the hypothesis is upserted.                                     *)
RecordedOver(o) ==
  LET d == At(o)
      h == [response |-> run[o].response, audio |-> run[o].audio]
  IN  /\ run[o].pc = "recorded"
      /\ hyp' = [hyp EXCEPT ![d] = h]
      /\ row' = [row EXCEPT ![d] = Succeeded(@, h)]
      /\ GoTo(o, "complete")
      /\ UNCHANGED <<job, raw, retries, crashes>>

(* Mutant: the row is marked before the hypothesis is written, in a        *)
(* transaction of its own.                                                 *)
RecordedWithoutHypothesis(o) ==
  LET d == At(o)
      h == [response |-> run[o].response, audio |-> run[o].audio]
  IN  /\ run[o].pc = "recorded"
      /\ row' = [row EXCEPT ![d] = Succeeded(@, h)]
      /\ GoTo(o, "complete")
      /\ UNCHANGED <<job, raw, hyp, retries, crashes>>

(* Its SELECTs of the chunk and of an earlier hypothesis come just before  *)
(* the transaction and are one step with it here: a hypothesis is never    *)
(* changed, and one that appears in between is met by the INSERT.          *)
Recorded(o) ==
  LET d == At(o)
      h == [response |-> run[o].response, audio |-> run[o].audio]
  IN  /\ run[o].pc = "recorded"
      /\ IF hyp[d] \in {None, h}
         THEN /\ hyp' = [hyp EXCEPT ![d] = h]
              /\ row' = [row EXCEPT ![d] = Succeeded(@, h)]
              /\ GoTo(o, "complete")
         ELSE Abort(o) /\ UNCHANGED <<row, hyp>>
      /\ UNCHANGED <<job, raw, retries, crashes>>

Complete(o) ==
  /\ run[o].pc = "complete"
  /\ IF Fenced(o)
     THEN /\ job' = [job EXCEPT ![At(o)].status = "succeeded", ![At(o)].live = FALSE]
          /\ MoveOn(o)
     ELSE Abort(o) /\ UNCHANGED job
  /\ UNCHANGED <<row, raw, hyp, retries, crashes>>

(* record_chunk_inference_failure ...                                      *)
Note(o) ==
  /\ run[o].pc = "note"
  /\ IF Fenced(o) /\ SameAudio(o) THEN GoTo(o, "noted") ELSE Abort(o)
  /\ UNCHANGED <<job, row, raw, hyp, retries, crashes>>

(* Mutant: the error is not stored with the failed dispatch.               *)
NotedWithoutError(o) ==
  /\ run[o].pc = "noted"
  /\ row' = [row EXCEPT ![At(o)].status = "failed", ![At(o)].audio = run[o].audio]
  /\ GoTo(o, "fail")
  /\ UNCHANGED <<job, raw, hyp, retries, crashes>>

(* Mutant: the row takes the status of the job.                            *)
NotedAsBlocked(o) ==
  /\ run[o].pc = "noted"
  /\ row' = [row EXCEPT ![At(o)].status = "blocked", ![At(o)].error = TRUE]
  /\ GoTo(o, "fail")
  /\ UNCHANGED <<job, raw, hyp, retries, crashes>>

Noted(o) ==
  LET d == At(o)
  IN  /\ run[o].pc = "noted"
      /\ row' = [row EXCEPT ![d].status = "failed", ![d].audio = run[o].audio,
                            ![d].error = TRUE]
      /\ GoTo(o, "fail")
      /\ UNCHANGED <<job, raw, hyp, retries, crashes>>

(* ... and fail_job, which does not ask for a live lease.                  *)
FailJob(o) ==
  LET d == At(o)
      status == IF ~run[o].retryable THEN "blocked"
                ELSE IF job[d].attempts >= MaxAttempts THEN "failed" ELSE "retry_wait"
  IN  /\ run[o].pc = "fail"
      /\ IF job[d].status = "running" /\ job[d].token = run[o].token
         THEN /\ job' = [job EXCEPT ![d].status = status, ![d].live = (status = "retry_wait")]
              /\ MoveOn(o)
         ELSE Abort(o) /\ UNCHANGED job
      /\ UNCHANGED <<row, raw, hyp, retries, crashes>>

(* The process dies, or a model answers for another chunk or model, which  *)
(* is an OrchestrationProvenanceError.                                     *)
Crash(o) ==
  /\ run[o].pc # "idle"
  /\ crashes < MaxCrashes
  /\ crashes' = crashes + 1
  /\ Abort(o)
  /\ UNCHANGED <<job, row, raw, hyp, retries>>

(* A lease that is not renewed in time runs out; so does a backoff.        *)
Expire(d) ==
  /\ job[d].live
  /\ job' = [job EXCEPT ![d].live = FALSE]
  /\ UNCHANGED <<row, raw, hyp, retries, crashes, run>>

-----------------------------------------------------------------------------
Proceed(o) ==
  \/ Begin(o) \/ Ensure(o) \/ LoadAudio(o) \/ Visit(o) \/ Reread(o) \/ Consider(o) \/ Claim(o)
  \/ Start(o) \/ Started(o) \/ Ask(o) \/ Publish(o) \/ Move(o)
  \/ Record(o) \/ Recorded(o) \/ Complete(o) \/ Note(o) \/ Noted(o) \/ FailJob(o)

Next ==
  \/ \E o \in Orchestrators : Proceed(o) \/ Crash(o)
  \/ \E d \in Dispatches : Expire(d)

Spec == Init /\ [][Next]_vars

(* The benchmark is run until it is complete: every run goes on until it   *)
(* ends or crashes, is started again, and leases and backoffs end.  The    *)
(* model asks nothing of the loader or of the models: they may always fail.*)
Fairness ==
  /\ \A o \in Orchestrators : WF_vars(Proceed(o))
  /\ \A d \in Dispatches : WF_vars(Expire(d))

FairSpec == Spec /\ Fairness

-----------------------------------------------------------------------------
(* A dispatch that is shown as succeeded has a hypothesis, the recorded    *)
(* one, made from the audio of its row, and a raw response behind it,      *)
(* although stale runs write rows they no longer hold                      *)
(* (publish_chunk_inference_success, reconcile_chunk_inference_success).   *)
SuccessHasProvenance ==
  \A d \in Dispatches :
    row[d].status = "succeeded" =>
      hyp[d] # None /\ row[d].hyp = hyp[d] /\ row[d].audio = hyp[d].audio /\ raw[d] # None

(* A job that is closed has something to show for it: a completed one its  *)
(* hypothesis, a failed or blocked one the error in its row, unless an     *)
(* overlapping run got a result (docs/p1r-orchestration.md: "A             *)
(* deterministic or exhausted model failure remains visible in its         *)
(* dispatch row").                                                         *)
OutcomeIsVisible ==
  \A d \in Dispatches :
    /\ job[d].status = "succeeded" => hyp[d] # None
    /\ job[d].status \in {"failed", "blocked"} => row[d].error \/ hyp[d] # None

(* No rerun, retry or stale run replaces a raw response or a hypothesis    *)
(* that was published, or points a row at another one.                     *)
ResultsAreImmutable ==
  [][\A d \in Dispatches :
       /\ raw[d] # None => raw'[d] = raw[d]
       /\ hyp[d] # None => hyp'[d] = hyp[d]
       /\ row[d].hyp # None => row'[d].hyp = row[d].hyp]_vars

(* A recorded hypothesis ends up in its row for good, whatever a crash or  *)
(* a stale run has made of the row meanwhile (Reruns reconcile an          *)
(* already-persisted hypothesis).                                          *)
ResultsSurface ==
  \A d \in Dispatches : hyp[d] # None ~> [](row[d].status = "succeeded")

(* Every dispatch of a benchmark that is rerun is decided, although runs   *)
(* overlap, lose leases and give up on conflicts: it succeeds, its job is  *)
(* closed, or its attempts are spent (run, _run_dispatch).                 *)
Decided(d) ==
  \/ row[d].status = "succeeded"
  \/ job[d].status \in {"succeeded", "failed", "blocked"}
  \/ job[d].attempts >= MaxAttempts /\ ~job[d].live

DispatchesAreDecided == \A d \in Dispatches : <>Decided(d)

(* The raw response kept for a dispatch is the one its hypothesis was read *)
(* from (docs/p1r-orchestration.md: "publishes its raw JSON response as an *)
(* immutable artifact, then records the immutable hypothesis").  The code  *)
(* breaks it.                                                              *)
HypothesisMatchesRaw ==
  \A d \in Dispatches : hyp[d] # None => raw[d] = hyp[d].response
=============================================================================
