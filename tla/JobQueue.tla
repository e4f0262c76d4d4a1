------------------------------ MODULE JobQueue ------------------------------
(***************************************************************************)
(* The durable job queue of the archive: the jobs table of storage.py, the *)
(* worker of jobs.py and the operator's `zanzara jobs` commands of cli.py. *)
(*                                                                         *)
(* Several worker processes share one SQLite database.  claim_job and      *)
(* claim_next_job open their transaction with BEGIN IMMEDIATE, so each is  *)
(* one action.  transaction() does not: Python's sqlite3 begins at the     *)
(* first INSERT, UPDATE or DELETE, so a SELECT before it is a read of its  *)
(* own and other processes may write in between.  cancel_job and           *)
(* recover_expired_leases check rows that way and then UPDATE by job_id    *)
(* alone: they are two actions each.  The worker's own writes repeat their *)
(* condition in the WHERE clause and are one action.                       *)
(*                                                                         *)
(* Time is counted in ticks and a lease_expires_at is kept as the ticks    *)
(* that remain, `ttl'.  Every call computes its timestamp before it waits  *)
(* for the write lock, so it compares with a clock up to Lag ticks old.    *)
(***************************************************************************)
EXTENDS CostLedger, Sequences

CONSTANTS
  Jobs,         \* job ids, ordered as claim_next_job orders them
  Workers,      \* worker processes, one `worker run' after the other
  Operators,    \* processes running `jobs cancel', `jobs recover', ...
  Owners,       \* owner names
  OwnerOf,      \* the name a worker runs under; two may share one
  Paid,         \* the jobs enqueued with paid=True
  RequestOf,    \* the request_id of a job, or NoRequest
  MaxAttempts,  \* max_attempts
  Lease,        \* LEASE_SECONDS, in ticks
  Backoff,      \* RETRY_BACKOFF_SECONDS, in ticks
  Lag,          \* how old a call's timestamp may be
  MaxRetries,   \* bound: manual retries of one job
  NoJob, NoOwner, NoRequest, NoLease

ASSUME QueueAssumption ==
  /\ Jobs \subseteq Nat
  /\ IsFiniteSet(Jobs)
  /\ Paid \subseteq Jobs
  /\ OwnerOf \in [Workers -> Owners]
  /\ RequestOf \in [Jobs -> Requests \union {NoRequest}]
  /\ MaxAttempts \in Nat \ {0}
  /\ Lease \in Nat \ {0}
  /\ Lag \in Nat
  /\ Lag < Lease
  /\ MaxRetries \in Nat
  /\ Backoff \in Seq(Nat)
  /\ Len(Backoff) > 0
  /\ NoJob \notin Jobs
  /\ NoOwner \notin Owners
  /\ NoRequest \notin Requests
  /\ NoLease \notin Int

VARIABLES
  job,          \* the jobs table
  second,       \* counts the seconds in which jobs were created
  retries,      \* bounds the manual retries
  worker,       \* what each worker process holds in memory
  operator,     \* what an operator process has read and not yet written
  dispatched    \* history: how often a paid request was handed to a runner

vars == <<ledger, job, second, retries, worker, operator, dispatched>>

-----------------------------------------------------------------------------
(*                          The jobs table                                 *)

Statuses == {"absent", "queued", "running", "retry_wait", "succeeded",
             "failed", "cancelled", "blocked"}

Terminal == {"succeeded", "failed", "blocked", "cancelled"}

Actions == {"none", "reclaimed_expired_lease", "requeued_after_expired_lease",
            "manual_retry", "retry_after", "retry_exhausted",
            "fix_deterministic_failure", "reconcile_paid_request",
            "reserve_paid_attempt", "cancelled_by_operator"}

Row == [status : Statuses, attempts : Nat, token : Nat,
        owner : Owners \union {NoOwner},
        ttl : Int \union {NoLease},
        action : Actions, created : Nat]

Stamps == 0 .. Lag   \* the age of the timestamp a call compares with

LeaseOver(row, age) == row.ttl # NoLease /\ row.ttl <= -age
LeaseLive(row, age) == row.ttl # NoLease /\ row.ttl > -age

(* The row without an owner and a lease, in a new status.                  *)
Settle(row, status, action) ==
  [row EXCEPT !.status = status, !.action = action,
              !.owner = NoOwner, !.ttl = NoLease]

(* ORDER BY created_at, job_id                                             *)
Precedes(i, j) ==
  \/ job[i].created < job[j].created
  \/ job[i].created = job[j].created /\ i < j

-----------------------------------------------------------------------------
(*                            Paid jobs                                    *)

(* Mutant: trusts the reservation alone, not what jobs did with it.        *)
DispatchableIfReserved(j) ==
  RequestOf[j] # NoRequest /\ ledger[RequestOf[j]].status = "reserved"

Dispatchable(j) ==
  /\ job[j].status = "queued"
  /\ job[j].attempts = 0
  /\ job[j].action = "none"
  /\ RequestOf[j] # NoRequest
  /\ ledger[RequestOf[j]].status = "reserved"
  /\ \A k \in Jobs \ {j} : RequestOf[k] = RequestOf[j] => job[k].attempts = 0

ChargeUnknown(row) == row.status = "running" \/ row.attempts > 0

(* _block_paid_attempt on a row that was read, written over the row that   *)
(* is there: the two differ when another process wrote in between.         *)
BlockedRow(row, unknown) ==
  Settle(row, "blocked",
         IF unknown THEN "reconcile_paid_request" ELSE "reserve_paid_attempt")

RequestsOf(S) == {RequestOf[j] : j \in S} \ {NoRequest}

-----------------------------------------------------------------------------
(*                     What a worker process holds                         *)

NoAttempt == [pc |-> "idle", job |-> NoJob, token |-> 0, lost |-> FALSE,
              class |-> "none", tries |-> 0]

Attempt == [pc : {"idle", "running", "completing", "failing"},
            job : Jobs \union {NoJob}, token : Nat, lost : BOOLEAN,
            class : {"none", "transient", "deterministic", "ambiguous"},
            tries : Nat]

Idle == [pc |-> "idle", job |-> NoJob, expired |-> {}, exhausted |-> {}]

Command == [pc : {"idle", "cancelling", "recovering"},
            job : Jobs \union {NoJob},
            expired : SUBSET Jobs, exhausted : SUBSET Jobs]

TypeOK ==
  /\ LedgerTypeOK
  /\ job \in [Jobs -> Row]
  /\ second \in Nat
  /\ retries \in [Jobs -> Nat]
  /\ worker \in [Workers -> Attempt]
  /\ operator \in [Operators -> Command]
  /\ dispatched \in [Requests -> Nat]

NewRow == [status |-> "absent", attempts |-> 0, token |-> 0, owner |-> NoOwner,
           ttl |-> NoLease, action |-> "none", created |-> 0]

Init ==
  /\ LedgerInit
  /\ job = [j \in Jobs |-> NewRow]
  /\ second = 0
  /\ retries = [j \in Jobs |-> 0]
  /\ worker = [w \in Workers |-> NoAttempt]
  /\ operator = [o \in Operators |-> Idle]
  /\ dispatched = [r \in Requests |-> 0]

-----------------------------------------------------------------------------
(*                           Time passes                                   *)

Tick ==
  /\ job' = [j \in Jobs |->
       IF job[j].ttl # NoLease /\ job[j].ttl > -Lag
       THEN [job[j] EXCEPT !.ttl = @ - 1] ELSE job[j]]
  /\ second' = IF \E j \in Jobs : job[j].status # "absent" /\ job[j].created = second
               THEN second + 1 ELSE second
  /\ UNCHANGED <<ledger, retries, worker, operator, dispatched>>

(* enqueue_job: a second call with the same id finds the row and returns   *)
(* it, or reports a conflict; neither changes anything.                    *)
Enqueue(j) ==
  /\ job[j].status = "absent"
  /\ job' = [job EXCEPT ![j].status = "queued", ![j].created = second]
  /\ UNCHANGED <<ledger, second, retries, worker, operator, dispatched>>

-----------------------------------------------------------------------------
(*                             Claiming                                    *)

(* Mutant: a claim gives the attempt no lease.                             *)
ClaimedForEver(w, row, action, age) ==
  [row EXCEPT !.status = "running", !.attempts = @ + 1, !.token = @ + 1,
              !.owner = OwnerOf[w], !.ttl = NoLease, !.action = action]

(* The row a successful claim leaves behind.                               *)
ClaimedRow(w, row, action, age) ==
  [row EXCEPT !.status = "running", !.attempts = @ + 1, !.token = @ + 1,
              !.owner = OwnerOf[w], !.ttl = Lease - age, !.action = action]

StartAttempt(w, j) ==
  /\ worker' = [worker EXCEPT ![w] =
                  [NoAttempt EXCEPT !.pc = "running", !.job = j,
                                    !.token = job[j].token + 1]]
  /\ dispatched' = IF j \in Paid
                   THEN [dispatched EXCEPT ![RequestOf[j]] = @ + 1]
                   ELSE dispatched

(* The WHERE clause of claim_next_job.                                     *)
Eligible(age) ==
  {j \in Jobs :
     /\ job[j].attempts < MaxAttempts
     /\ \/ job[j].status = "queued"
        \/ job[j].status = "retry_wait" /\ (job[j].ttl = NoLease \/ LeaseOver(job[j], age))
        \/ job[j].status = "running" /\ LeaseOver(job[j], age)}

Undispatchable(S) == {j \in S : j \in Paid /\ ~Dispatchable(j)}

(* The rows after the loop of claim_next_job has blocked the paid jobs S.  *)
BlockAll(S) == [j \in Jobs |-> IF j \in S THEN BlockedRow(job[j], ChargeUnknown(job[j]))
                                          ELSE job[j]]

(* Mutant: the job is blocked and its reservation forgotten.               *)
FlagNothing(S) == ledger

FlagAll(S) == Flagged(RequestsOf({j \in S : ChargeUnknown(job[j])}))

(* claim_next_job: walk the eligible jobs in order, block each paid one    *)
(* that must not be sent, and claim the first that may run.                *)
ClaimNext(w, age) ==
  LET candidates == Eligible(age) \ Undispatchable(Eligible(age))
  IN  /\ worker[w].pc = "idle"
      /\ \E j \in candidates :
           /\ \A k \in candidates \ {j} : Precedes(j, k)
           /\ LET passed == {k \in Undispatchable(Eligible(age)) : Precedes(k, j)}
                  action == IF job[j].status = "running"
                            THEN "reclaimed_expired_lease" ELSE "none"
              IN  /\ job' = [BlockAll(passed) EXCEPT ![j] = ClaimedRow(w, job[j], action, age)]
                  /\ ledger' = FlagAll(passed)
           /\ StartAttempt(w, j)
  /\ UNCHANGED <<second, retries, operator>>

(* claim_next_job returns None: everything eligible was paid and blocked.  *)
FindNothing(w, age) ==
  /\ worker[w].pc = "idle"
  /\ Eligible(age) # {}
  /\ Eligible(age) = Undispatchable(Eligible(age))
  /\ job' = BlockAll(Eligible(age))
  /\ ledger' = FlagAll(Eligible(age))
  /\ UNCHANGED <<second, retries, worker, operator, dispatched>>

(* The checks of claim_job before it looks at the payment.                 *)
Claimable(j, age) ==
  /\ \/ job[j].status = "queued"
     \/ job[j].status = "retry_wait" /\ ~LeaseLive(job[j], age)
     \/ job[j].status = "running" /\ ~LeaseLive(job[j], age)
  /\ job[j].attempts < MaxAttempts

ClaimJob(w, j, age) ==
  /\ worker[w].pc = "idle"
  /\ Claimable(j, age)
  /\ j \in Paid => Dispatchable(j)
  /\ LET action == IF job[j].status = "running"
                   THEN "reclaimed_expired_lease" ELSE job[j].action
     IN  job' = [job EXCEPT ![j] = ClaimedRow(w, job[j], action, age)]
  /\ StartAttempt(w, j)
  /\ UNCHANGED <<ledger, second, retries, operator>>

(* claim_job commits the block and raises.                                 *)
RefusePaid(w, j, age) ==
  /\ worker[w].pc = "idle"
  /\ Claimable(j, age)
  /\ j \in Paid
  /\ ~Dispatchable(j)
  /\ job' = BlockAll({j})
  /\ ledger' = FlagAll({j})
  /\ UNCHANGED <<second, retries, worker, operator, dispatched>>

-----------------------------------------------------------------------------
(*                      DurableWorker.run_once                             *)

(* Mutant: the owner's name is taken for the attempt.                      *)
FencedByOwner(w, j) == job[j].status = "running" /\ job[j].owner = OwnerOf[w]

(* The WHERE clause of the worker's updates: running, its owner, its token.*)
Fenced(w, j) ==
  /\ job[j].status = "running"
  /\ job[j].owner = OwnerOf[w]
  /\ job[j].token = worker[w].token

(* Mutant: a renewal does not ask whether the lease has run out.           *)
HeartbeatRevives(w, age) ==
  LET j == worker[w].job
  IN  /\ worker[w].pc = "running"
      /\ Fenced(w, j)
      /\ job' = [job EXCEPT ![j].ttl = Lease - age]
      /\ UNCHANGED <<ledger, second, retries, worker, operator, dispatched>>

(* The heartbeat thread renews the lease ...                               *)
Heartbeat(w, age) ==
  LET j == worker[w].job
  IN  /\ worker[w].pc = "running"
      /\ ~worker[w].lost
      /\ Fenced(w, j)
      /\ LeaseLive(job[j], age)
      /\ job' = [job EXCEPT ![j].ttl = Lease - age]
      /\ UNCHANGED <<ledger, second, retries, worker, operator, dispatched>>

(* ... or is refused, remembers it and ends.                               *)
HeartbeatRejected(w, age) ==
  LET j == worker[w].job
  IN  /\ worker[w].pc = "running"
      /\ ~worker[w].lost
      /\ ~(Fenced(w, j) /\ LeaseLive(job[j], age))
      /\ worker' = [worker EXCEPT ![w].lost = TRUE]
      /\ UNCHANGED <<ledger, job, second, retries, operator, dispatched>>

(* The stage callback returns; the heartbeat thread is joined.  A worker   *)
(* that lost its lease reports that and writes nothing.                    *)
RunnerReturns(w) ==
  /\ worker[w].pc = "running"
  /\ worker' = [worker EXCEPT ![w] =
                  IF worker[w].lost THEN NoAttempt ELSE [@ EXCEPT !.pc = "completing"]]
  /\ UNCHANGED <<ledger, job, second, retries, operator, dispatched>>

FailureClass(j, retryable) ==
  IF ~retryable THEN "deterministic"
  ELSE IF j \in Paid THEN "ambiguous" ELSE "transient"

(* The callback raises.  fail_job reads the attempts of the row before its *)
(* transaction begins.                                                     *)
RunnerRaises(w, retryable) ==
  LET j == worker[w].job
  IN  /\ worker[w].pc = "running"
      /\ worker' = [worker EXCEPT ![w] =
           IF worker[w].lost THEN NoAttempt
           ELSE [@ EXCEPT !.pc = "failing", !.class = FailureClass(j, retryable),
                          !.tries = job[j].attempts]]
      /\ UNCHANGED <<ledger, job, second, retries, operator, dispatched>>

(* complete_job, or its conflict: either way the attempt is over.          *)
Complete(w, age) ==
  LET j == worker[w].job
  IN  /\ worker[w].pc = "completing"
      /\ job' = IF Fenced(w, j) /\ LeaseLive(job[j], age)
                THEN [job EXCEPT ![j] = Settle(@, "succeeded", "none")]
                ELSE job
      /\ worker' = [worker EXCEPT ![w] = NoAttempt]
      /\ UNCHANGED <<ledger, second, retries, operator, dispatched>>

RetryDelay(tries) ==
  Backoff[IF tries <= 1 THEN 1 ELSE IF tries < Len(Backoff) THEN tries ELSE Len(Backoff)]

(* Mutant: the failure class is stored as the next action.                 *)
FailedRowSwapped(row, class, tries, age) ==
  Settle(row, IF class = "transient" THEN "failed" ELSE "blocked", class)

(* The row fail_job writes, from the failure class and the attempts it read.*)
FailedRow(row, class, tries, age) ==
  CASE class = "deterministic" -> Settle(row, "blocked", "fix_deterministic_failure")
    [] class = "ambiguous"     -> Settle(row, "blocked", "reconcile_paid_request")
    [] class = "transient" /\ tries >= MaxAttempts ->
         Settle(row, "failed", "retry_exhausted")
    [] OTHER ->
         [Settle(row, "retry_wait", "retry_after") EXCEPT !.ttl = RetryDelay(tries) - age]

(* The transaction of fail_job.  Its WHERE clause does not ask for a live  *)
(* lease.                                                                  *)
Fail(w, age) ==
  LET j == worker[w].job
      a == worker[w]
  IN  /\ a.pc = "failing"
      /\ IF Fenced(w, j)
         THEN /\ job' = [job EXCEPT ![j] = FailedRow(@, a.class, a.tries, age)]
              /\ ledger' = IF a.class = "ambiguous" THEN Flagged(RequestsOf({j})) ELSE ledger
         ELSE UNCHANGED <<job, ledger>>
      /\ worker' = [worker EXCEPT ![w] = NoAttempt]
      /\ UNCHANGED <<second, retries, operator, dispatched>>

(* The process dies, or is killed: only its memory is lost.                *)
Crash(w) ==
  /\ worker[w].pc # "idle"
  /\ worker' = [worker EXCEPT ![w] = NoAttempt]
  /\ UNCHANGED <<ledger, job, second, retries, operator, dispatched>>

-----------------------------------------------------------------------------
(*                      The operator's commands                            *)

(* cancel_job: the SELECT and its check ...                                *)
CancelCheck(o, j) ==
  /\ operator[o].pc = "idle"
  /\ job[j].status \notin Terminal \union {"absent"}
  /\ operator' = [operator EXCEPT ![o] = [Idle EXCEPT !.pc = "cancelling", !.job = j]]
  /\ UNCHANGED <<ledger, job, second, retries, worker, dispatched>>

(* ... and the UPDATE, by job_id alone.                                    *)
CancelWrite(o) ==
  LET j == operator[o].job
  IN  /\ operator[o].pc = "cancelling"
      /\ job' = [job EXCEPT ![j] =
                   [Settle(job[j], "cancelled", "cancelled_by_operator")
                      EXCEPT !.token = job[j].token + 1]]
      /\ operator' = [operator EXCEPT ![o] = Idle]
      /\ UNCHANGED <<ledger, second, retries, worker, dispatched>>

(* recover_expired_leases: the SELECT of the expired rows ...              *)
RecoverRead(o, age) ==
  LET rows == {j \in Jobs : job[j].status = "running" /\ LeaseOver(job[j], age)}
  IN  /\ operator[o].pc = "idle"
      /\ rows # {}
      /\ operator' = [operator EXCEPT ![o] =
           [Idle EXCEPT !.pc = "recovering", !.expired = rows,
                        !.exhausted = {j \in rows : job[j].attempts >= MaxAttempts}]]
      /\ UNCHANGED <<ledger, job, second, retries, worker, dispatched>>

(* ... and one UPDATE for each row read, by job_id alone.                  *)
RecoverWrite(o) ==
  LET read == operator[o]
  IN  /\ read.pc = "recovering"
      /\ job' = [j \in Jobs |->
           IF j \notin read.expired THEN job[j]
           ELSE IF j \in Paid THEN BlockedRow(job[j], TRUE)
           ELSE IF j \in read.exhausted THEN Settle(job[j], "failed", "retry_exhausted")
           ELSE Settle(job[j], "queued", "requeued_after_expired_lease")]
      /\ ledger' = Flagged(RequestsOf(read.expired \intersect Paid))
      /\ operator' = [operator EXCEPT ![o] = Idle]
      /\ UNCHANGED <<second, retries, worker, dispatched>>

(* Mutant: a manual retry starts the job over, token included.             *)
RetryAfresh(j) ==
  /\ job[j].status = "failed"
  /\ retries[j] < MaxRetries
  /\ job' = [job EXCEPT ![j] = [NewRow EXCEPT !.status = "queued"]]
  /\ retries' = [retries EXCEPT ![j] = @ + 1]
  /\ UNCHANGED <<ledger, second, worker, operator, dispatched>>

(* retry_job is one guarded UPDATE.                                        *)
Retry(j) ==
  /\ job[j].status = "failed"
  /\ retries[j] < MaxRetries
  /\ job' = [job EXCEPT ![j] = [Settle(@, "queued", "manual_retry") EXCEPT !.attempts = 0]]
  /\ retries' = [retries EXCEPT ![j] = @ + 1]
  /\ UNCHANGED <<ledger, second, worker, operator, dispatched>>

LedgerStep == LedgerNext /\ UNCHANGED <<job, second, retries, worker, operator, dispatched>>

-----------------------------------------------------------------------------
WorkerStep(w) ==
  \/ \E age \in Stamps :
       \/ ClaimNext(w, age)
       \/ FindNothing(w, age)
       \/ Heartbeat(w, age)
       \/ HeartbeatRejected(w, age)
       \/ Complete(w, age)
       \/ Fail(w, age)
       \/ \E j \in Jobs : ClaimJob(w, j, age) \/ RefusePaid(w, j, age)
  \/ RunnerReturns(w)
  \/ \E retryable \in BOOLEAN : RunnerRaises(w, retryable)
  \/ Crash(w)

OperatorStep(o) ==
  \/ \E j \in Jobs : CancelCheck(o, j)
  \/ CancelWrite(o)
  \/ \E age \in Stamps : RecoverRead(o, age)
  \/ RecoverWrite(o)

Next ==
  \/ Tick
  \/ \E j \in Jobs : Enqueue(j) \/ Retry(j)
  \/ LedgerStep
  \/ \E w \in Workers : WorkerStep(w)
  \/ \E o \in Operators : OperatorStep(o)

Spec == Init /\ [][Next]_vars
-----------------------------------------------------------------------------
(* w runs, or is about to finish or fail, the current attempt at j.        *)
Holds(w, j) ==
  /\ worker[w].pc # "idle"
  /\ worker[w].job = j
  /\ worker[w].token = job[j].token
  /\ job[j].status = "running"

(* At most one worker process can write the outcome of a job, whatever     *)
(* owner names they run under: an attempt that was reclaimed, requeued or  *)
(* cancelled never gets its fence back (the fencing token of claim_job and *)
(* claim_next_job, checked by complete_job, fail_job and heartbeat).       *)
OneHolder ==
  \A j \in Jobs : \A v, w \in Workers : Holds(v, j) /\ Holds(w, j) => v = w

(* A paid request is handed to a stage runner at most once, over every     *)
(* job that names it and every crash, retry, reclaim and recovery: its     *)
(* charge is never incurred twice (_paid_attempt_is_dispatchable).         *)
PaidAtMostOnce == \A r \in Requests : dispatched[r] <= 1

(* A paid request that was sent and whose job was then blocked for         *)
(* reconciliation is never left as a plain reservation that a caller could *)
(* dispatch from or overlook (_block_paid_attempt, fail_job).              *)
UnknownChargeFlagged ==
  \A j \in Paid :
    job[j].action = "reconcile_paid_request" /\ RequestOf[j] # NoRequest
      => ledger[RequestOf[j]].status # "reserved"

(* A job is marked succeeded only in a step of the worker that holds its   *)
(* current attempt: no stale worker, and no operator's write, finishes it  *)
(* (the WHERE clause of complete_job).                                     *)
SucceedsByHolder ==
  [][\A j \in Jobs :
       job[j].status # "succeeded" /\ job'[j].status = "succeeded"
         => \E w \in Workers : Holds(w, j) /\ worker'[w].pc = "idle"]_vars

(* A cancelled job was not already finished when it was cancelled          *)
(* (cancel_job: "terminal jobs cannot be cancelled").  The code breaks it. *)
CancelSparesTerminal ==
  [][\A o \in Operators :
       operator[o].pc = "cancelling" /\ operator'[o].pc = "idle"
         => job[operator[o].job].status \notin Terminal]_vars

(* A queued job has an attempt left, so a worker will take it              *)
(* (recover_expired_leases: "Requeue expired jobs, or persist retry        *)
(* exhaustion, in one short transaction").  The code breaks it.            *)
QueuedCanBeClaimed ==
  \A j \in Jobs : job[j].status = "queued" => job[j].attempts < MaxAttempts

-----------------------------------------------------------------------------
(*                            Liveness                                     *)

(* What goes on by itself: time, a stage callback that returns or raises,  *)
(* and the write of the same `worker run' that follows.  No worker is ever *)
(* started again and nothing is recovered unless somebody does it, and a   *)
(* run may die at any point, so that no claim, renewal, crash or operator's*)
(* command is required.                                                    *)
Fairness ==
  /\ WF_vars(Tick)
  /\ \A w \in Workers :
       /\ WF_vars(RunnerReturns(w) \/ \E retryable \in BOOLEAN : RunnerRaises(w, retryable))
       /\ WF_vars(\E age \in Stamps : Complete(w, age) \/ Fail(w, age))

FairSpec == Spec /\ Fairness

(* The attempts are spent and the last lease has run out: `jobs recover'   *)
(* moves the job to failed.                                                *)
OutOfAttempts(j) ==
  job[j].status = "running" /\ job[j].attempts >= MaxAttempts /\ LeaseOver(job[j], Lag)

(* The next `worker run' claims the job or blocks it, whatever its clock.  *)
Takeable(j) == \A age \in Stamps : j \in Eligible(age)

(* No job is stuck behind a worker that died, lost its lease or failed:    *)
(* without anybody's doing, each that is not finished comes to an end or   *)
(* back to where the next `worker run', or once its attempts are spent     *)
(* `jobs recover', takes it up (claim_next_job, heartbeat, fail_job).      *)
UnfinishedJobsComeFree ==
  \A j \in Jobs :
    job[j].status \in {"queued", "running", "retry_wait"}
      ~> (job[j].status \in Terminal \/ Takeable(j) \/ OutOfAttempts(j))

-----------------------------------------------------------------------------
(* The queue implements the lease a worker relies on.                      *)
Lease_ == INSTANCE ExclusiveLease WITH
  holder <- [j \in Jobs |-> {w \in Workers : Holds(w, j)}],
  done <- {j \in Jobs : job[j].status = "succeeded"}

(* Without operator commands, the queue implements ExclusiveLease: one     *)
(* holder, finished only by it, once and for ever.                         *)
ImplementsExclusiveLease == Lease_!Spec

(* The fence a publication checks.  A lease counts as live until it is     *)
(* over for every clock a call may still compare with.                     *)
Fence_ == INSTANCE Fence WITH
  token <- [j \in Jobs |-> job[j].token],
  live <- {j \in Jobs : job[j].status = "running" /\ LeaseLive(job[j], Lag)}

(* Operator commands, races and stale clocks included, a token is never    *)
(* given out twice and an ended lease is never renewed under it            *)
(* (claim_job, claim_next_job, heartbeat, cancel_job, retry_job).          *)
ImplementsFence == Fence_!FenceSpec
=============================================================================
