--------------------------- MODULE JobQueueProofs ---------------------------
(***************************************************************************)
(* Theorems about JobQueue, for every set of jobs, workers, operators and  *)
(* requests and every value of the limits: the tables keep their types,    *)
(* and at most one worker holds a job, the operator's unguarded writes     *)
(* included; and the queue implements Fence and ExclusiveLease.            *)
(***************************************************************************)
EXTENDS JobQueue, FiniteSetTheorems, TLAPS

(* A row keeps its type when it is settled ...                             *)
LEMMA SettleType ==
  ASSUME NEW row \in Row, NEW status \in Statuses, NEW action \in Actions
  PROVE  Settle(row, status, action) \in Row
BY DEF Row, Settle

(* ... blocked, by the worker's or the operator's transaction ...          *)
LEMMA BlockedRowType ==
  ASSUME NEW row \in Row, NEW unknown \in BOOLEAN
  PROVE  BlockedRow(row, unknown) \in Row
BY SettleType DEF BlockedRow, Statuses, Actions

(* ... claimed ...                                                         *)
LEMMA ClaimedRowType ==
  ASSUME NEW w \in Workers, NEW row \in Row, NEW action \in Actions,
         NEW age \in Stamps
  PROVE  /\ ClaimedRow(w, row, action, age) \in Row
         /\ ClaimedRow(w, row, action, age).token = row.token + 1
         /\ ClaimedRow(w, row, action, age).status = "running"
         /\ ClaimedRow(w, row, action, age).attempts = row.attempts + 1
<1>1. Lease - age \in Int /\ OwnerOf[w] \in Owners /\ "running" \in Statuses
  BY QueueAssumption DEF Stamps, Statuses
<1>2. row.attempts + 1 \in Nat /\ row.token + 1 \in Nat
  BY DEF Row
<1> HIDE DEF Statuses
<1> QED
  BY <1>1, <1>2 DEF Row, ClaimedRow

(* ... or failed.                                                          *)
LEMMA FailedRowType ==
  ASSUME NEW row \in Row, NEW class, NEW tries \in Nat, NEW age \in Stamps
  PROVE  FailedRow(row, class, tries, age) \in Row
<1>1. RetryDelay(tries) \in Nat
  BY QueueAssumption DEF RetryDelay
<1>2. RetryDelay(tries) - age \in Int
  BY <1>1 DEF Stamps
<1>3. \A s \in {"blocked", "failed", "retry_wait"},
         a \in {"fix_deterministic_failure", "reconcile_paid_request",
                "retry_exhausted", "retry_after"} : Settle(row, s, a) \in Row
  BY SettleType DEF Statuses, Actions
<1>4. [Settle(row, "retry_wait", "retry_after") EXCEPT !.ttl = RetryDelay(tries) - age] \in Row
  BY <1>2, <1>3 DEF Row
<1> QED
  BY <1>3, <1>4 DEF FailedRow

(* Flagging reservations keeps the ledger's type.                          *)
LEMMA FlaggedType ==
  ASSUME LedgerTypeOK, NEW R
  PROVE  Flagged(R) \in [Requests -> Reservation]
BY DEF LedgerTypeOK, Flagged, Reservation, ReservationStates

(* So does every operation of the ledger itself.                           *)
LEMMA LedgerNextType ==
  ASSUME LedgerTypeOK, LedgerNext
  PROVE  LedgerTypeOK'
BY LedgerAssumption
   DEF LedgerTypeOK, LedgerNext, Reserve, MarkCostAmbiguous, SettleCost, ReleaseCost,
       UpdateReservation, Reservation, ReservationStates

-----------------------------------------------------------------------------
(*                     How the actions write rows                          *)

(* Blocking rows touches neither their types nor their tokens.             *)
LEMMA BlockAllType ==
  ASSUME job \in [Jobs -> Row], NEW S
  PROVE  /\ BlockAll(S) \in [Jobs -> Row]
         /\ \A j \in Jobs : BlockAll(S)[j].token = job[j].token
<1>1. \A j \in Jobs : BlockedRow(job[j], ChargeUnknown(job[j])) \in Row
  BY BlockedRowType DEF ChargeUnknown
<1>2. \A j \in Jobs : BlockedRow(job[j], ChargeUnknown(job[j])).token = job[j].token
  BY DEF BlockedRow, Settle, Row
<1> QED
  BY <1>1, <1>2 DEF BlockAll

(* Every worker that is not idle works at a job, an attempt that has been  *)
(* handed out has a token no greater than the row's, and no two workers    *)
(* were ever given the same token of the same job.                         *)
FencesDistinct ==
  /\ \A w \in Workers : worker[w].pc # "idle" =>
       worker[w].job \in Jobs /\ worker[w].token <= job[worker[w].job].token
  /\ \A v, w \in Workers :
       /\ worker[v].pc # "idle"
       /\ worker[w].pc # "idle"
       /\ worker[v].job = worker[w].job
       /\ worker[v].token = worker[w].token
       => v = w

(* An operator that is about to cancel names a job.                        *)
OperatorNamesJob ==
  \A o \in Operators : operator[o].pc = "cancelling" => operator[o].job \in Jobs

FenceInv == TypeOK /\ FencesDistinct /\ OperatorNamesJob

(* The initial tables are typed, and nobody holds anything.                *)
LEMMA FenceInit == Init => FenceInv
BY DEF Init, LedgerInit, FenceInv, TypeOK, LedgerTypeOK, FencesDistinct, OperatorNamesJob,
       NewRow, NoAttempt, Idle, Row, Reservation, ReservationStates, Attempt, Command,
       Statuses, Actions

(* A step in which no token shrinks and every worker keeps its attempt or  *)
(* drops it preserves the distinctness of the fences.                      *)
LEMMA AttemptsKept ==
  ASSUME FenceInv, job' \in [Jobs -> Row],
         \A j \in Jobs : job'[j].token >= job[j].token,
         \A w \in Workers :
           \/ worker'[w].pc = "idle"
           \/ /\ worker[w].pc # "idle"
              /\ worker'[w].job = worker[w].job
              /\ worker'[w].token = worker[w].token
  PROVE  FencesDistinct'
<1>1. \A w \in Workers : worker'[w].pc # "idle" =>
        worker'[w].job \in Jobs /\ worker'[w].token <= job'[worker'[w].job].token
  <2> SUFFICES ASSUME NEW w \in Workers, worker'[w].pc # "idle"
               PROVE  worker'[w].job \in Jobs /\ worker'[w].token <= job'[worker'[w].job].token
    OBVIOUS
  <2>1. worker[w].job \in Jobs /\ worker[w].token <= job[worker[w].job].token
    BY DEF FenceInv, FencesDistinct
  <2>2. worker[w].token \in Nat /\ job[worker[w].job].token \in Nat
        /\ job'[worker[w].job].token \in Nat
    BY <2>1 DEF FenceInv, TypeOK, Attempt, Row
  <2> QED
    BY <2>1, <2>2
<1>2. \A v, w \in Workers :
        /\ worker'[v].pc # "idle"
        /\ worker'[w].pc # "idle"
        /\ worker'[v].job = worker'[w].job
        /\ worker'[v].token = worker'[w].token
        => v = w
  BY DEF FenceInv, FencesDistinct
<1> QED
  BY <1>1, <1>2 DEF FencesDistinct

(* A worker that starts an attempt with the next token of a job cannot     *)
(* meet anyone else's fence.                                               *)
LEMMA AttemptStarted ==
  ASSUME FenceInv, NEW w \in Workers, NEW j \in Jobs,
         worker[w].pc = "idle",
         StartAttempt(w, j),
         job' \in [Jobs -> Row],
         job'[j].token = job[j].token + 1,
         \A k \in Jobs : job'[k].token >= job[k].token
  PROVE  FencesDistinct' /\ worker' \in [Workers -> Attempt]
<1>1. /\ worker'[w].pc = "running"
      /\ worker'[w].job = j
      /\ worker'[w].token = job[j].token + 1
      /\ \A v \in Workers \ {w} : worker'[v] = worker[v]
      /\ worker' \in [Workers -> Attempt]
  BY DEF StartAttempt, NoAttempt, FenceInv, TypeOK, Attempt, Row
<1>2. \A k \in Jobs : job[k].token \in Nat /\ job'[k].token \in Nat
  BY DEF FenceInv, TypeOK, Row
<1>3. \A v \in Workers : worker[v].token \in Nat
  BY DEF FenceInv, TypeOK, Attempt
<1>4. \A v \in Workers : worker'[v].pc # "idle" =>
        worker'[v].job \in Jobs /\ worker'[v].token <= job'[worker'[v].job].token
  <2> SUFFICES ASSUME NEW v \in Workers, worker'[v].pc # "idle"
               PROVE  worker'[v].job \in Jobs /\ worker'[v].token <= job'[worker'[v].job].token
    OBVIOUS
  <2>1. CASE v = w
    BY <1>1, <1>2, <2>1
  <2>2. CASE v # w
    <3>1. worker[v].job \in Jobs /\ worker[v].token <= job[worker[v].job].token
      BY <1>1, <2>2 DEF FenceInv, FencesDistinct
    <3> QED
      BY <1>1, <1>2, <1>3, <2>2, <3>1
  <2> QED
    BY <2>1, <2>2
<1>5. \A v \in Workers \ {w} : worker[v].pc # "idle" /\ worker[v].job = j
                                  => worker[v].token # job[j].token + 1
  BY <1>2, <1>3 DEF FenceInv, FencesDistinct
<1>6. \A u, v \in Workers :
        /\ worker'[u].pc # "idle"
        /\ worker'[v].pc # "idle"
        /\ worker'[u].job = worker'[v].job
        /\ worker'[u].token = worker'[v].token
        => u = v
  BY <1>1, <1>5 DEF FenceInv, FencesDistinct
<1> QED
  BY <1>1, <1>4, <1>6 DEF FencesDistinct

-----------------------------------------------------------------------------
(*                        One lemma per action                             *)

(* Time moves leases, never tokens.                                        *)
LEMMA TickFence == FenceInv /\ Tick => FenceInv'
<1> SUFFICES ASSUME FenceInv, Tick PROVE FenceInv'
  OBVIOUS
<1>1. /\ job' \in [Jobs -> Row]
      /\ \A j \in Jobs : job'[j].token = job[j].token
      /\ second' \in Nat
  BY DEF FenceInv, TypeOK, Tick, Row
<1>2. TypeOK'
  BY <1>1 DEF FenceInv, TypeOK, LedgerTypeOK, Tick
<1>3. \A j \in Jobs : job'[j].token >= job[j].token
  BY <1>1 DEF FenceInv, TypeOK, Row
<1>4. FencesDistinct' /\ OperatorNamesJob'
  BY <1>1, <1>3, AttemptsKept DEF Tick, FenceInv, OperatorNamesJob
<1> QED
  BY <1>2, <1>4 DEF FenceInv

(* A job that is enqueued is held by nobody yet.                           *)
LEMMA EnqueueFence ==
  ASSUME NEW j \in Jobs PROVE FenceInv /\ Enqueue(j) => FenceInv'
<1> SUFFICES ASSUME FenceInv, Enqueue(j) PROVE FenceInv'
  OBVIOUS
<1>0. [job[j] EXCEPT !.status = "queued", !.created = second] \in Row
  BY DEF FenceInv, TypeOK, Row, Statuses
<1>1. /\ job' \in [Jobs -> Row]
      /\ \A k \in Jobs : job'[k].token = job[k].token
  <2>1. job' = [job EXCEPT ![j] = [job[j] EXCEPT !.status = "queued", !.created = second]]
    BY DEF Enqueue, FenceInv, TypeOK
  <2>2. [job[j] EXCEPT !.status = "queued", !.created = second].token = job[j].token
    BY DEF FenceInv, TypeOK, Row
  <2> QED
    BY <1>0, <2>1, <2>2 DEF FenceInv, TypeOK
<1>2. TypeOK'
  BY <1>1 DEF FenceInv, TypeOK, LedgerTypeOK, Enqueue
<1>3. \A k \in Jobs : job'[k].token >= job[k].token
  BY <1>1 DEF FenceInv, TypeOK, Row
<1>4. FencesDistinct' /\ OperatorNamesJob'
  BY <1>1, <1>3, AttemptsKept DEF Enqueue, FenceInv, OperatorNamesJob
<1> QED
  BY <1>2, <1>4 DEF FenceInv

(* A manual retry forgets the attempts and keeps the token.                *)
LEMMA RetryFence ==
  ASSUME NEW j \in Jobs PROVE FenceInv /\ Retry(j) => FenceInv'
<1> SUFFICES ASSUME FenceInv, Retry(j) PROVE FenceInv'
  OBVIOUS
<1>1. Settle(job[j], "queued", "manual_retry") \in Row
  BY SettleType DEF FenceInv, TypeOK, Statuses, Actions
<1>2. /\ job' \in [Jobs -> Row]
      /\ \A k \in Jobs : job'[k].token = job[k].token
  BY <1>1 DEF FenceInv, TypeOK, Retry, Row, Settle
<1>3. TypeOK'
  BY <1>2 DEF FenceInv, TypeOK, LedgerTypeOK, Retry
<1>4. \A k \in Jobs : job'[k].token >= job[k].token
  BY <1>2 DEF FenceInv, TypeOK, Row
<1>5. FencesDistinct' /\ OperatorNamesJob'
  BY <1>2, <1>4, AttemptsKept DEF Retry, FenceInv, OperatorNamesJob
<1> QED
  BY <1>3, <1>5 DEF FenceInv

(* The ledger holds no fence.                                              *)
LEMMA LedgerFence == FenceInv /\ LedgerStep => FenceInv'
<1> SUFFICES ASSUME FenceInv, LedgerStep PROVE FenceInv'
  OBVIOUS
<1>1. LedgerTypeOK'
  BY LedgerNextType DEF FenceInv, TypeOK, LedgerStep
<1> QED
  BY <1>1 DEF FenceInv, TypeOK, FencesDistinct, OperatorNamesJob, LedgerStep

(* A claim hands out the next token of the job it claims, whatever paid    *)
(* jobs it blocks on the way.                                              *)
LEMMA ClaimNextFence ==
  ASSUME NEW w \in Workers, NEW age \in Stamps
  PROVE  FenceInv /\ ClaimNext(w, age) => FenceInv'
<1> SUFFICES ASSUME FenceInv, ClaimNext(w, age) PROVE FenceInv'
  OBVIOUS
<1>1. PICK j \in Jobs, S \in SUBSET Jobs, action \in Actions :
        /\ job' = [BlockAll(S) EXCEPT ![j] = ClaimedRow(w, job[j], action, age)]
        /\ ledger' = FlagAll(S)
        /\ StartAttempt(w, j)
        /\ j \in Paid => Dispatchable(j)
  BY DEF ClaimNext, Eligible, Undispatchable, Actions
<1>2. /\ job' \in [Jobs -> Row]
      /\ job'[j].token = job[j].token + 1
      /\ \A k \in Jobs : job'[k].token >= job[k].token
  <2>1. /\ BlockAll(S) \in [Jobs -> Row]
        /\ \A k \in Jobs : BlockAll(S)[k].token = job[k].token
    BY BlockAllType DEF FenceInv, TypeOK
  <2>2. /\ ClaimedRow(w, job[j], action, age) \in Row
        /\ ClaimedRow(w, job[j], action, age).token = job[j].token + 1
    BY ClaimedRowType DEF FenceInv, TypeOK
  <2>3. \A k \in Jobs : job[k].token \in Nat
    BY DEF FenceInv, TypeOK, Row
  <2> QED
    BY <1>1, <2>1, <2>2, <2>3
<1>3. LedgerTypeOK'
  BY <1>1, FlaggedType DEF FlagAll, FenceInv, TypeOK, LedgerTypeOK
<1>4. FencesDistinct' /\ worker' \in [Workers -> Attempt]
  BY <1>1, <1>2, AttemptStarted DEF ClaimNext
<1>5. j \in Paid => RequestOf[j] \in Requests
  BY <1>1, QueueAssumption DEF Dispatchable
<1>6. dispatched' \in [Requests -> Nat]
  BY <1>1, <1>5 DEF StartAttempt, FenceInv, TypeOK
<1> QED
  BY <1>2, <1>3, <1>4, <1>6 DEF FenceInv, TypeOK, OperatorNamesJob, ClaimNext

(* A claim by id does the same and blocks nothing.                         *)
LEMMA ClaimJobFence ==
  ASSUME NEW w \in Workers, NEW j \in Jobs, NEW age \in Stamps
  PROVE  FenceInv /\ ClaimJob(w, j, age) => FenceInv'
<1> SUFFICES ASSUME FenceInv, ClaimJob(w, j, age) PROVE FenceInv'
  OBVIOUS
<1>1. PICK action \in Actions : job' = [job EXCEPT ![j] = ClaimedRow(w, job[j], action, age)]
  BY DEF ClaimJob, FenceInv, TypeOK, Row, Actions
<1>2. /\ job' \in [Jobs -> Row]
      /\ job'[j].token = job[j].token + 1
      /\ \A k \in Jobs : job'[k].token >= job[k].token
  <2>1. /\ ClaimedRow(w, job[j], action, age) \in Row
        /\ ClaimedRow(w, job[j], action, age).token = job[j].token + 1
    BY ClaimedRowType DEF FenceInv, TypeOK
  <2>2. \A k \in Jobs : job[k].token \in Nat
    BY DEF FenceInv, TypeOK, Row
  <2> QED
    BY <1>1, <2>1, <2>2 DEF FenceInv, TypeOK
<1>3. FencesDistinct' /\ worker' \in [Workers -> Attempt]
  BY <1>2, AttemptStarted DEF ClaimJob
<1>4. j \in Paid => RequestOf[j] \in Requests
  BY QueueAssumption DEF ClaimJob, Dispatchable
<1>5. dispatched' \in [Requests -> Nat]
  BY <1>4 DEF ClaimJob, StartAttempt, FenceInv, TypeOK
<1> QED
  BY <1>2, <1>3, <1>5 DEF FenceInv, TypeOK, LedgerTypeOK, OperatorNamesJob, ClaimJob

(* Both refusals only block rows.                                          *)
LEMMA RefusalFence ==
  ASSUME FenceInv, NEW S, job' = BlockAll(S), ledger' = FlagAll(S),
         UNCHANGED <<second, retries, worker, operator, dispatched>>
  PROVE  FenceInv'
<1>1. /\ job' \in [Jobs -> Row]
      /\ \A k \in Jobs : job'[k].token = job[k].token
  BY BlockAllType DEF FenceInv, TypeOK
<1>2. LedgerTypeOK'
  BY FlaggedType DEF FlagAll, FenceInv, TypeOK, LedgerTypeOK
<1>3. \A k \in Jobs : job'[k].token >= job[k].token
  BY <1>1 DEF FenceInv, TypeOK, Row
<1>4. FencesDistinct'
  BY <1>1, <1>3, AttemptsKept
<1> QED
  BY <1>1, <1>2, <1>4 DEF FenceInv, TypeOK, OperatorNamesJob

(* A renewal moves a lease, never a token.                                 *)
LEMMA HeartbeatFence ==
  ASSUME NEW w \in Workers, NEW age \in Stamps
  PROVE  FenceInv /\ Heartbeat(w, age) => FenceInv'
<1> SUFFICES ASSUME FenceInv, Heartbeat(w, age) PROVE FenceInv'
  OBVIOUS
<1> DEFINE j == worker[w].job
<1>1. Lease - age \in Int
  BY QueueAssumption DEF Stamps
<1>2. /\ job' \in [Jobs -> Row]
      /\ \A k \in Jobs : job'[k].token = job[k].token
  <2>1. job[j] \in Row /\ job' = [job EXCEPT ![j] = [job[j] EXCEPT !.ttl = Lease - age]]
    BY DEF FenceInv, FencesDistinct, TypeOK, Heartbeat
  <2>2. \A row \in Row : /\ [row EXCEPT !.ttl = Lease - age] \in Row
                         /\ [row EXCEPT !.ttl = Lease - age].token = row.token
    BY <1>1 DEF Row
  <2> QED
    BY <2>1, <2>2 DEF FenceInv, TypeOK
<1>3. \A k \in Jobs : job'[k].token >= job[k].token
  BY <1>2 DEF FenceInv, TypeOK, Row
<1>4. FencesDistinct'
  BY <1>2, <1>3, AttemptsKept DEF Heartbeat
<1> QED
  BY <1>2, <1>4 DEF FenceInv, TypeOK, LedgerTypeOK, OperatorNamesJob, Heartbeat

(* A worker's attempt ends, or moves on, without a write to the jobs.      *)
LEMMA MemoryFence ==
  ASSUME FenceInv, worker' \in [Workers -> Attempt],
         \A w \in Workers :
           \/ worker'[w].pc = "idle"
           \/ /\ worker[w].pc # "idle"
              /\ worker'[w].job = worker[w].job
              /\ worker'[w].token = worker[w].token,
         UNCHANGED <<ledger, job, second, retries, operator, dispatched>>
  PROVE  FenceInv'
<1>1. \A j \in Jobs : job'[j].token >= job[j].token
  BY DEF FenceInv, TypeOK, Row
<1>2. FencesDistinct'
  BY <1>1, AttemptsKept DEF FenceInv, TypeOK
<1> QED
  BY <1>2 DEF FenceInv, TypeOK, LedgerTypeOK, OperatorNamesJob

(* A worker that is refused a renewal remembers it.                        *)
LEMMA HeartbeatRejectedFence ==
  ASSUME NEW w \in Workers, NEW age \in Stamps
  PROVE  FenceInv /\ HeartbeatRejected(w, age) => FenceInv'
<1> SUFFICES ASSUME FenceInv, HeartbeatRejected(w, age) PROVE FenceInv'
  OBVIOUS
<1> DEFINE told == [worker[w] EXCEPT !.lost = TRUE]
<1>0. /\ worker' = [worker EXCEPT ![w] = told]
      /\ told \in Attempt
      /\ told.pc = worker[w].pc /\ told.job = worker[w].job /\ told.token = worker[w].token
  BY DEF FenceInv, TypeOK, HeartbeatRejected, Attempt
<1>3. worker[w].pc # "idle"
  BY DEF HeartbeatRejected
<1> HIDE DEF told
<1>1. worker' \in [Workers -> Attempt]
  BY <1>0 DEF FenceInv, TypeOK
<1>2. \A v \in Workers :
        \/ worker'[v].pc = "idle"
        \/ /\ worker[v].pc # "idle"
           /\ worker'[v].job = worker[v].job
           /\ worker'[v].token = worker[v].token
  BY <1>0, <1>3 DEF FenceInv, TypeOK
<1> QED
  BY <1>1, <1>2, MemoryFence DEF HeartbeatRejected

(* The stage callback returns: the attempt moves on or is dropped.         *)
LEMMA RunnerReturnsFence ==
  ASSUME NEW w \in Workers
  PROVE  FenceInv /\ RunnerReturns(w) => FenceInv'
<1> SUFFICES ASSUME FenceInv, RunnerReturns(w) PROVE FenceInv'
  OBVIOUS
<1>1. worker' \in [Workers -> Attempt]
  BY DEF FenceInv, TypeOK, RunnerReturns, Attempt, NoAttempt
<1> QED
  BY <1>1, MemoryFence DEF FenceInv, TypeOK, RunnerReturns, NoAttempt, Attempt

(* The stage callback raises: likewise, with the attempts that were read.  *)
LEMMA RunnerRaisesFence ==
  ASSUME NEW w \in Workers, NEW retryable \in BOOLEAN
  PROVE  FenceInv /\ RunnerRaises(w, retryable) => FenceInv'
<1> SUFFICES ASSUME FenceInv, RunnerRaises(w, retryable) PROVE FenceInv'
  OBVIOUS
<1>1. worker[w].job \in Jobs
  BY DEF FenceInv, FencesDistinct, RunnerRaises
<1>2. job[worker[w].job].attempts \in Nat
  BY <1>1 DEF FenceInv, TypeOK, Row
<1>3. FailureClass(worker[w].job, retryable) \in {"transient", "deterministic", "ambiguous"}
  BY DEF FailureClass
<1>4. worker[w] \in Attempt /\ NoAttempt \in Attempt
  BY DEF FenceInv, TypeOK, Attempt, NoAttempt
<1> DEFINE failing == [worker[w] EXCEPT !.pc = "failing",
                                        !.class = FailureClass(worker[w].job, retryable),
                                        !.tries = job[worker[w].job].attempts]
<1>5. failing \in Attempt /\ failing.job = worker[w].job /\ failing.token = worker[w].token
  BY <1>2, <1>3, <1>4 DEF Attempt
<1>6. worker' = [worker EXCEPT ![w] = IF worker[w].lost THEN NoAttempt ELSE failing]
  BY DEF RunnerRaises
<1> HIDE DEF failing
<1>7. worker' \in [Workers -> Attempt]
  BY <1>4, <1>5, <1>6 DEF FenceInv, TypeOK
<1> QED
  BY <1>5, <1>6, <1>7, MemoryFence DEF FenceInv, TypeOK, RunnerRaises, NoAttempt

(* A crash forgets the attempt.                                            *)
LEMMA CrashFence ==
  ASSUME NEW w \in Workers
  PROVE  FenceInv /\ Crash(w) => FenceInv'
BY MemoryFence DEF FenceInv, TypeOK, Crash, Attempt, NoAttempt

(* The last write of an attempt: complete_job or fail_job, or its conflict.*)
LEMMA LastWriteFence ==
  ASSUME FenceInv, NEW w \in Workers,
         job' \in [Jobs -> Row],
         \A j \in Jobs : job'[j].token = job[j].token,
         LedgerTypeOK',
         worker' = [worker EXCEPT ![w] = NoAttempt],
         UNCHANGED <<second, retries, operator, dispatched>>
  PROVE  FenceInv'
<1>1. \A j \in Jobs : job'[j].token >= job[j].token
  BY DEF FenceInv, TypeOK, Row
<1>2. worker' \in [Workers -> Attempt]
  BY DEF FenceInv, TypeOK, Attempt, NoAttempt
<1>3. FencesDistinct'
  <2>1. \A v \in Workers : worker'[v].pc = "idle" \/ worker'[v] = worker[v]
    BY DEF FenceInv, TypeOK, NoAttempt
  <2> QED
    BY <1>1, <2>1, AttemptsKept
<1> QED
  BY <1>2, <1>3 DEF FenceInv, TypeOK, OperatorNamesJob

(* complete_job settles the row under its token ...                        *)
LEMMA CompleteFence ==
  ASSUME NEW w \in Workers, NEW age \in Stamps
  PROVE  FenceInv /\ Complete(w, age) => FenceInv'
<1> SUFFICES ASSUME FenceInv, Complete(w, age) PROVE FenceInv'
  OBVIOUS
<1>1. worker[w].job \in Jobs
  BY DEF FenceInv, FencesDistinct, Complete
<1>2. /\ Settle(job[worker[w].job], "succeeded", "none") \in Row
      /\ Settle(job[worker[w].job], "succeeded", "none").token = job[worker[w].job].token
  <2>1. job[worker[w].job] \in Row
    BY <1>1 DEF FenceInv, TypeOK
  <2>2. "succeeded" \in Statuses /\ "none" \in Actions
    BY DEF Statuses, Actions
  <2>3. Settle(job[worker[w].job], "succeeded", "none").token = job[worker[w].job].token
    BY <2>1 DEF Settle, Row
  <2> QED
    BY <2>1, <2>2, <2>3, SettleType
<1>3. /\ job' \in [Jobs -> Row]
      /\ \A k \in Jobs : job'[k].token = job[k].token
  BY <1>1, <1>2 DEF FenceInv, TypeOK, Complete
<1>4. LedgerTypeOK'
  BY DEF FenceInv, TypeOK, LedgerTypeOK, Complete
<1> QED
  BY <1>3, <1>4, LastWriteFence DEF Complete

(* ... and so does fail_job, whatever the failure was.                     *)
LEMMA FailFence ==
  ASSUME NEW w \in Workers, NEW age \in Stamps
  PROVE  FenceInv /\ Fail(w, age) => FenceInv'
<1> SUFFICES ASSUME FenceInv, Fail(w, age) PROVE FenceInv'
  OBVIOUS
<1> DEFINE j == worker[w].job
           a == worker[w]
           row == FailedRow(job[j], a.class, a.tries, age)
<1>1. j \in Jobs /\ job[j] \in Row /\ a.tries \in Nat
  BY DEF FenceInv, FencesDistinct, Fail, TypeOK, Attempt
<1>2. row \in Row
  BY <1>1, FailedRowType
<1>3. row.token = job[j].token
  BY <1>1 DEF FailedRow, Settle, Row
<1>4. /\ job' \in [Jobs -> Row]
      /\ \A k \in Jobs : job'[k].token = job[k].token
  <2>1. job' = job \/ job' = [job EXCEPT ![j] = row]
    BY DEF Fail
  <2> HIDE DEF row
  <2> QED
    BY <1>1, <1>2, <1>3, <2>1 DEF FenceInv, TypeOK
<1>5. LedgerTypeOK'
  BY FlaggedType DEF FenceInv, TypeOK, LedgerTypeOK, Fail
<1> QED
  BY <1>4, <1>5, LastWriteFence DEF Fail

(* A cancellation moves the token up, though it checked the row earlier.   *)
LEMMA CancelFence ==
  ASSUME NEW o \in Operators
  PROVE  /\ FenceInv /\ (\E j \in Jobs : CancelCheck(o, j)) => FenceInv'
         /\ FenceInv /\ CancelWrite(o) => FenceInv'
<1>1. ASSUME FenceInv, NEW j \in Jobs, CancelCheck(o, j) PROVE FenceInv'
  <2>1. operator' \in [Operators -> Command]
    BY <1>1 DEF FenceInv, TypeOK, CancelCheck, Command, Idle
  <2>2. OperatorNamesJob'
    BY <1>1 DEF FenceInv, TypeOK, OperatorNamesJob, CancelCheck, Command, Idle
  <2> QED
    BY <1>1, <2>1, <2>2 DEF FenceInv, TypeOK, LedgerTypeOK, FencesDistinct, CancelCheck
<1>2. ASSUME FenceInv, CancelWrite(o) PROVE FenceInv'
  <2> DEFINE j == operator[o].job
             row == [Settle(job[j], "cancelled", "cancelled_by_operator")
                       EXCEPT !.token = job[j].token + 1]
  <2>1. j \in Jobs /\ job[j] \in Row
    BY <1>2 DEF FenceInv, TypeOK, OperatorNamesJob, CancelWrite
  <2>2. Settle(job[j], "cancelled", "cancelled_by_operator") \in Row
    BY <2>1, SettleType DEF Statuses, Actions
  <2>3. job[j].token \in Nat /\ Settle(job[j], "cancelled", "cancelled_by_operator").token = job[j].token
    BY <2>1 DEF Row, Settle
  <2>4. row \in Row /\ row.token = job[j].token + 1
    BY <2>2, <2>3 DEF Row
  <2>5. job' = [job EXCEPT ![j] = row]
    BY <1>2 DEF CancelWrite
  <2> HIDE DEF row
  <2>6. /\ job' \in [Jobs -> Row]
        /\ \A k \in Jobs : job'[k].token >= job[k].token
    <3>1. \A k \in Jobs : job[k].token \in Nat
      BY <1>2 DEF FenceInv, TypeOK, Row
    <3> QED
      BY <1>2, <2>1, <2>4, <2>5, <3>1 DEF FenceInv, TypeOK
  <2>7. FencesDistinct'
    BY <1>2, <2>6, AttemptsKept DEF CancelWrite
  <2>8. operator' \in [Operators -> Command] /\ OperatorNamesJob'
    BY <1>2 DEF FenceInv, TypeOK, OperatorNamesJob, CancelWrite, Command, Idle
  <2> QED
    BY <1>2, <2>6, <2>7, <2>8 DEF FenceInv, TypeOK, LedgerTypeOK, CancelWrite
<1> QED
  BY <1>1, <1>2

(* Recovery writes over rows it did not lock: even so no fence is shared,  *)
(* because it leaves every token as it found it.                           *)
LEMMA RecoverFence ==
  ASSUME NEW o \in Operators
  PROVE  /\ \A age \in Stamps : FenceInv /\ RecoverRead(o, age) => FenceInv'
         /\ FenceInv /\ RecoverWrite(o) => FenceInv'
<1>1. ASSUME FenceInv, NEW age \in Stamps, RecoverRead(o, age) PROVE FenceInv'
  <2>1. operator' \in [Operators -> Command]
    BY <1>1 DEF FenceInv, TypeOK, RecoverRead, Command, Idle
  <2>2. OperatorNamesJob'
    BY <1>1 DEF FenceInv, TypeOK, OperatorNamesJob, RecoverRead, Command, Idle
  <2> QED
    BY <1>1, <2>1, <2>2 DEF FenceInv, TypeOK, LedgerTypeOK, FencesDistinct, RecoverRead
<1>2. ASSUME FenceInv, RecoverWrite(o) PROVE FenceInv'
  <2>1. \A j \in Jobs : /\ BlockedRow(job[j], TRUE) \in Row
                        /\ BlockedRow(job[j], TRUE).token = job[j].token
    BY <1>2, BlockedRowType DEF BlockedRow, Settle, FenceInv, TypeOK, Row
  <2>2. \A j \in Jobs : /\ Settle(job[j], "failed", "retry_exhausted") \in Row
                        /\ Settle(job[j], "failed", "retry_exhausted").token = job[j].token
    <3>1. "failed" \in Statuses /\ "retry_exhausted" \in Actions
      BY DEF Statuses, Actions
    <3>2. \A j \in Jobs : Settle(job[j], "failed", "retry_exhausted").token = job[j].token
      BY <1>2 DEF Settle, FenceInv, TypeOK, Row
    <3> QED
      BY <1>2, <3>1, <3>2, SettleType DEF FenceInv, TypeOK
  <2>3. \A j \in Jobs : /\ Settle(job[j], "queued", "requeued_after_expired_lease") \in Row
                        /\ Settle(job[j], "queued", "requeued_after_expired_lease").token
                             = job[j].token
    <3>1. "queued" \in Statuses /\ "requeued_after_expired_lease" \in Actions
      BY DEF Statuses, Actions
    <3>2. \A j \in Jobs : Settle(job[j], "queued", "requeued_after_expired_lease").token
                            = job[j].token
      BY <1>2 DEF Settle, FenceInv, TypeOK, Row
    <3> QED
      BY <1>2, <3>1, <3>2, SettleType DEF FenceInv, TypeOK
  <2>4. /\ job' \in [Jobs -> Row]
        /\ \A j \in Jobs : job'[j].token = job[j].token
    BY <1>2, <2>1, <2>2, <2>3 DEF RecoverWrite, FenceInv, TypeOK
  <2>5. \A j \in Jobs : job'[j].token >= job[j].token
    BY <1>2, <2>4 DEF FenceInv, TypeOK, Row
  <2>6. FencesDistinct'
    BY <1>2, <2>4, <2>5, AttemptsKept DEF RecoverWrite
  <2>7. LedgerTypeOK'
    BY <1>2, FlaggedType DEF FenceInv, TypeOK, LedgerTypeOK, RecoverWrite
  <2>8. operator' \in [Operators -> Command] /\ OperatorNamesJob'
    BY <1>2 DEF FenceInv, TypeOK, OperatorNamesJob, RecoverWrite, Command, Idle
  <2> QED
    BY <1>2, <2>4, <2>6, <2>7, <2>8 DEF FenceInv, TypeOK, RecoverWrite
<1> QED
  BY <1>1, <1>2

-----------------------------------------------------------------------------
(*                             The theorems                                *)

(* Every step of the queue preserves the inductive invariant.              *)
LEMMA FenceStep == FenceInv /\ [Next]_vars => FenceInv'
<1> SUFFICES ASSUME FenceInv, [Next]_vars PROVE FenceInv'
  OBVIOUS
<1>1. CASE Tick
  BY <1>1, TickFence
<1>2. CASE \E j \in Jobs : Enqueue(j) \/ Retry(j)
  BY <1>2, EnqueueFence, RetryFence
<1>3. CASE LedgerStep
  BY <1>3, LedgerFence
<1>4. ASSUME NEW w \in Workers, WorkerStep(w) PROVE FenceInv'
  <2>1. ASSUME NEW age \in Stamps, FindNothing(w, age) PROVE FenceInv'
    BY <2>1, RefusalFence DEF FindNothing
  <2>2. ASSUME NEW age \in Stamps, NEW j \in Jobs, RefusePaid(w, j, age) PROVE FenceInv'
    BY <2>2, RefusalFence DEF RefusePaid
  <2> QED
    BY <1>4, <2>1, <2>2, ClaimNextFence, ClaimJobFence, HeartbeatFence,
       HeartbeatRejectedFence, CompleteFence, FailFence, RunnerReturnsFence,
       RunnerRaisesFence, CrashFence DEF WorkerStep
<1>5. ASSUME NEW o \in Operators, OperatorStep(o) PROVE FenceInv'
  BY <1>5, CancelFence, RecoverFence DEF OperatorStep
<1>6. CASE UNCHANGED vars
  BY <1>6 DEF vars, FenceInv, TypeOK, LedgerTypeOK, FencesDistinct, OperatorNamesJob
<1> QED
  BY <1>1, <1>2, <1>3, <1>4, <1>5, <1>6 DEF Next

(* The tables, the workers' memory and the ledger keep their types in      *)
(* every behaviour of the queue.                                           *)
THEOREM TypeCorrect == Spec => []TypeOK
<1>1. FenceInv => TypeOK
  BY DEF FenceInv
<1> QED
  BY FenceInit, FenceStep, <1>1, PTL DEF Spec

(* At most one worker can write the outcome of a job, for any number of    *)
(* workers, owner names and operators, and although cancel_job and         *)
(* recover_expired_leases write rows they did not lock.                    *)
THEOREM HolderUnique == Spec => []OneHolder
<1>1. FenceInv => OneHolder
  BY DEF FenceInv, FencesDistinct, OneHolder, Holds
<1> QED
  BY FenceInit, FenceStep, <1>1, PTL DEF Spec

(* Only the current attempt succeeds.                                      *)
THEOREM OnlyHolderSucceeds == Spec => SucceedsByHolder
<1>1. FenceInv /\ [Next]_vars =>
        [\A j \in Jobs :
           job[j].status # "succeeded" /\ job'[j].status = "succeeded"
             => \E w \in Workers : Holds(w, j) /\ worker'[w].pc = "idle"]_vars
  <2> SUFFICES ASSUME FenceInv, Next, NEW j \in Jobs,
                      job[j].status # "succeeded", job'[j].status = "succeeded"
               PROVE  \E w \in Workers : Holds(w, j) /\ worker'[w].pc = "idle"
    BY DEF vars
  <2>1. job \in [Jobs -> Row]
    BY DEF FenceInv, TypeOK
  <2>0. \A k \in Jobs : \A status, action : Settle(job[k], status, action).status = status
    BY <2>1 DEF Settle, Row
  <2>2. ~Tick /\ ~LedgerStep
    BY <2>1 DEF Tick, LedgerStep, Row
  <2>3. \A k \in Jobs : ~Enqueue(k) /\ ~Retry(k)
    <3>1. \A k \in Jobs : ~Enqueue(k)
      BY <2>1 DEF Enqueue, Row
    <3>2. \A k \in Jobs : ~Retry(k)
      <4> SUFFICES ASSUME NEW k \in Jobs, Retry(k) PROVE FALSE
        OBVIOUS
      <4> DEFINE row == Settle(job[k], "queued", "manual_retry")
      <4>1. row \in Row /\ row.status = "queued"
        BY <2>0, <2>1, SettleType DEF Statuses, Actions
      <4>2. job' = [job EXCEPT ![k] = [row EXCEPT !.attempts = 0]]
        BY <2>1 DEF Retry
      <4> HIDE DEF row
      <4>3. [row EXCEPT !.attempts = 0].status = "queued"
        BY <4>1 DEF Row
      <4> QED
        BY <2>1, <4>2, <4>3
    <3> QED
      BY <3>1, <3>2
  <2>4. \A o \in Operators : ~OperatorStep(o)
    <3> SUFFICES ASSUME NEW o \in Operators, OperatorStep(o) PROVE FALSE
      OBVIOUS
    <3>1. \A k \in Jobs : ~CancelCheck(o, k)
      BY DEF CancelCheck
    <3>2. ~CancelWrite(o)
      <4> SUFFICES ASSUME CancelWrite(o) PROVE FALSE
        OBVIOUS
      <4> DEFINE k == operator[o].job
                 row == Settle(job[k], "cancelled", "cancelled_by_operator")
      <4>1. k \in Jobs
        BY DEF FenceInv, OperatorNamesJob, CancelWrite
      <4>2. row \in Row /\ row.status = "cancelled"
        BY <2>0, <2>1, <4>1, SettleType DEF Statuses, Actions
      <4>3. job' = [job EXCEPT ![k] = [row EXCEPT !.token = job[k].token + 1]]
        BY DEF CancelWrite
      <4> HIDE DEF row
      <4>4. [row EXCEPT !.token = job[k].token + 1].status = "cancelled"
        BY <4>2 DEF Row
      <4> QED
        BY <2>1, <4>1, <4>3, <4>4
    <3>3. \A age \in Stamps : ~RecoverRead(o, age)
      BY DEF RecoverRead
    <3>4. ~RecoverWrite(o)
      BY <2>0 DEF RecoverWrite, BlockedRow
    <3> QED
      BY <3>1, <3>2, <3>3, <3>4 DEF OperatorStep
  <2>5. PICK w \in Workers : WorkerStep(w)
    BY <2>2, <2>3, <2>4 DEF Next
  <2>6. \A S : BlockAll(S)[j].status # "succeeded"
    BY <2>1 DEF BlockAll, BlockedRow, Settle, Row
  <2>7. \A age \in Stamps : ~ClaimNext(w, age)
    <3> SUFFICES ASSUME NEW age \in Stamps, ClaimNext(w, age) PROVE FALSE
      OBVIOUS
    <3>1. PICK k \in Jobs, S \in SUBSET Jobs, action \in Actions :
            job' = [BlockAll(S) EXCEPT ![k] = ClaimedRow(w, job[k], action, age)]
      BY DEF ClaimNext, Eligible, Undispatchable, Actions
    <3>2. ClaimedRow(w, job[k], action, age).status = "running"
      BY <2>1, ClaimedRowType
    <3> QED
      BY <2>6, <3>1, <3>2 DEF BlockAll
  <2>8. \A age \in Stamps, k \in Jobs : ~ClaimJob(w, k, age)
    <3> SUFFICES ASSUME NEW age \in Stamps, NEW k \in Jobs, ClaimJob(w, k, age) PROVE FALSE
      OBVIOUS
    <3>1. PICK action : job' = [job EXCEPT ![k] = ClaimedRow(w, job[k], action, age)]
      BY DEF ClaimJob
    <3>2. ClaimedRow(w, job[k], action, age).status = "running"
      BY <2>1 DEF ClaimedRow, Row
    <3> QED
      BY <2>1, <3>1, <3>2
  <2>9. \A age \in Stamps : ~FindNothing(w, age) /\ \A k \in Jobs : ~RefusePaid(w, k, age)
    BY <2>6 DEF FindNothing, RefusePaid
  <2>10. \A age \in Stamps : ~Heartbeat(w, age) /\ ~HeartbeatRejected(w, age)
    BY <2>1 DEF Heartbeat, HeartbeatRejected, Row
  <2>11. \A age \in Stamps : ~Fail(w, age)
    <3> SUFFICES ASSUME NEW age \in Stamps, Fail(w, age) PROVE FALSE
      OBVIOUS
    <3>1. \A k \in Jobs : \A class, tries :
            FailedRow(job[k], class, tries, age).status \in {"blocked", "failed", "retry_wait"}
      <4> SUFFICES ASSUME NEW k \in Jobs, NEW class, NEW tries
                   PROVE  FailedRow(job[k], class, tries, age).status
                            \in {"blocked", "failed", "retry_wait"}
        OBVIOUS
      <4>1. Settle(job[k], "retry_wait", "retry_after") \in Row
        BY <2>1, SettleType DEF Statuses, Actions
      <4>2. \A row \in Row : \A t : [row EXCEPT !.ttl = t].status = row.status
        BY DEF Row
      <4> QED
        BY <2>0, <4>1, <4>2 DEF FailedRow
    <3> QED
      BY <2>1, <3>1 DEF Fail
  <2>12. PICK age \in Stamps : Complete(w, age)
    BY <2>5, <2>7, <2>8, <2>9, <2>10, <2>11
       DEF WorkerStep, RunnerReturns, RunnerRaises, Crash
  <2>13. worker[w].job = j /\ Fenced(w, j)
    BY <2>1, <2>12 DEF Complete, Settle, Row
  <2>14. Holds(w, j) /\ worker'[w].pc = "idle"
    BY <2>12, <2>13 DEF Complete, Holds, Fenced, FenceInv, TypeOK, NoAttempt
  <2> QED
    BY <2>14
<1> QED
  BY FenceInit, FenceStep, <1>1, PTL DEF Spec, SucceedsByHolder

-----------------------------------------------------------------------------
(*                       What the queue implements                         *)
(*                                                                         *)
(* Fence, for any number of jobs, workers and operators and any clock lag  *)
(* below the lease: every step hands a lease out under a new token,        *)
(* withdraws leases, or changes neither.  ExclusiveLease, for any number   *)
(* of jobs and workers and no operators: every step hands jobs to one      *)
(* worker, takes jobs from their holders, or is a holder finishing its     *)
(* job.                                                                    *)

(* The row counts as live for every clock a call may compare with.         *)
LiveRow(row) == row.status = "running" /\ LeaseLive(row, Lag)

-----------------------------------------------------------------------------
(*                    What a step is to the fence                          *)

(* No token moves and no lease begins: leases were withdrawn, or nothing   *)
(* happened.                                                               *)
LEMMA OnlyWithdrawn ==
  ASSUME job \in [Jobs -> Row], job' \in [Jobs -> Row],
         \A k \in Jobs : /\ job'[k].token = job[k].token
                         /\ LiveRow(job'[k]) => LiveRow(job[k])
  PROVE  Fence_!FenceNext
<1> DEFINE ended == {j \in Jobs : LiveRow(job[j]) /\ ~LiveRow(job'[j])}
<1>1. [j \in Jobs |-> job'[j].token] = [j \in Jobs |-> job[j].token]
  OBVIOUS
<1>2. {j \in Jobs : LiveRow(job'[j])} = {j \in Jobs : LiveRow(job[j])} \ ended
  OBVIOUS
<1>3. Fence_!Withdraw(ended, {})
  BY <1>1, <1>2 DEF Fence_!Withdraw, LiveRow
<1>4. ended \in SUBSET Jobs /\ {} \in SUBSET ended
  OBVIOUS
<1> QED
  BY <1>3, <1>4 DEF Fence_!FenceNext

(* One row is handed out under the next token.                             *)
LEMMA OneGranted ==
  ASSUME job \in [Jobs -> Row], job' \in [Jobs -> Row], NEW j \in Jobs,
         job'[j].token = job[j].token + 1,
         LiveRow(job'[j]),
         \A k \in Jobs \ {j} : /\ job'[k].token = job[k].token
                               /\ LiveRow(job'[k]) => LiveRow(job[k])
  PROVE  Fence_!FenceNext
<1> PICK ended \in SUBSET Jobs : ended = {k \in Jobs : LiveRow(job[k]) /\ ~LiveRow(job'[k])}
  OBVIOUS
<1>1. [k \in Jobs |-> job'[k].token]
        = [[k \in Jobs |-> job[k].token] EXCEPT ![j] = @ + 1]
  OBVIOUS
<1>2. {k \in Jobs : LiveRow(job'[k])} = ({k \in Jobs : LiveRow(job[k])} \ ended) \union {j}
  OBVIOUS
<1>3. Fence_!Grant(j, ended)
  BY <1>1, <1>2 DEF Fence_!Grant, LiveRow
<1> QED
  BY <1>3 DEF Fence_!FenceNext

(* One row is revoked, and its token with it.                              *)
LEMMA OneCancelled ==
  ASSUME job \in [Jobs -> Row], job' \in [Jobs -> Row], NEW j \in Jobs,
         job'[j].token = job[j].token + 1,
         ~LiveRow(job'[j]),
         \A k \in Jobs \ {j} : job'[k] = job[k]
  PROVE  Fence_!FenceNext
<1>1. [k \in Jobs |-> job'[k].token]
        = [k \in Jobs |-> IF k \in {j} THEN job[k].token + 1 ELSE job[k].token]
  OBVIOUS
<1>2. {k \in Jobs : LiveRow(job'[k])} = {k \in Jobs : LiveRow(job[k])} \ {j}
  OBVIOUS
<1>3. Fence_!Withdraw({j}, {j})
  BY <1>1, <1>2 DEF Fence_!Withdraw, LiveRow
<1> QED
  BY <1>3 DEF Fence_!FenceNext

-----------------------------------------------------------------------------
(*                          The rows of a step                             *)

(* A settled row keeps its token and is live in no status but running.     *)
LEMMA SettledRow ==
  ASSUME NEW row \in Row, NEW status, status # "running", NEW action
  PROVE  /\ Settle(row, status, action).token = row.token
         /\ ~LiveRow(Settle(row, status, action))
BY DEF Settle, Row, LiveRow

(* So do the rows of a failed attempt, whatever failed.                    *)
LEMMA FailedRowEnded ==
  ASSUME NEW row \in Row, NEW class, NEW tries, NEW age \in Stamps
  PROVE  /\ FailedRow(row, class, tries, age).token = row.token
         /\ ~LiveRow(FailedRow(row, class, tries, age))
<1> DEFINE waiting == Settle(row, "retry_wait", "retry_after")
<1>1. waiting \in Row /\ waiting.token = row.token /\ waiting.status = "retry_wait"
  BY DEF Settle, Row, Statuses, Actions
<1>2. \A t : /\ [waiting EXCEPT !.ttl = t].token = waiting.token
             /\ [waiting EXCEPT !.ttl = t].status = waiting.status
  BY <1>1 DEF Row
<1> HIDE DEF waiting
<1>3. \A t : ~LiveRow([waiting EXCEPT !.ttl = t])
  BY <1>1, <1>2 DEF LiveRow
<1> USE DEF waiting
<1> QED
  BY <1>1, <1>2, <1>3, SettledRow DEF FailedRow

(* A claimed row is live for every clock: the lag is below the lease.      *)
LEMMA ClaimedRowLive ==
  ASSUME NEW w \in Workers, NEW row \in Row, NEW action, NEW age \in Stamps
  PROVE  LiveRow(ClaimedRow(w, row, action, age))
<1>1. /\ ClaimedRow(w, row, action, age).status = "running"
      /\ ClaimedRow(w, row, action, age).ttl = Lease - age
  BY DEF ClaimedRow, Row
<1>2. Lease - age \in Int /\ Lease - age > -Lag
  BY QueueAssumption DEF Stamps
<1> QED
  BY <1>1, <1>2, QueueAssumption DEF LiveRow, LeaseLive

(* Its token is the next one.                                              *)
LEMMA ClaimedRowToken ==
  ASSUME NEW w, NEW row \in Row, NEW action, NEW age
  PROVE  ClaimedRow(w, row, action, age).token = row.token + 1
BY DEF ClaimedRow, Row

(* Blocked rows keep their tokens and are no longer live.                  *)
LEMMA BlockedRows ==
  ASSUME job \in [Jobs -> Row], NEW S, NEW k \in Jobs
  PROVE  /\ BlockAll(S)[k].token = job[k].token
         /\ LiveRow(BlockAll(S)[k]) => LiveRow(job[k])
BY SettledRow DEF BlockAll, BlockedRow

-----------------------------------------------------------------------------
(*                        What each action does                            *)

(* A step that does not touch the table, or only the data beside it.       *)
LEMMA SameRows ==
  ASSUME FenceInv, FenceInv', job' = job
  PROVE  Fence_!FenceNext
<1> QED
  BY OnlyWithdrawn DEF FenceInv, TypeOK

(* Time only takes leases away: a row that is live after a tick was live   *)
(* before it.                                                              *)
LEMMA TickWithdraws ==
  ASSUME FenceInv, FenceInv', Tick
  PROVE  Fence_!FenceNext
<1>1. job \in [Jobs -> Row] /\ job' \in [Jobs -> Row]
  BY DEF FenceInv, TypeOK
<1>2. ASSUME NEW k \in Jobs
      PROVE  /\ job'[k].token = job[k].token
             /\ LiveRow(job'[k]) => LiveRow(job[k])
  <2>1. CASE job[k].ttl # NoLease /\ job[k].ttl > -Lag
    BY <1>1, <1>2, <2>1, QueueAssumption DEF Tick, Row, LiveRow, LeaseLive
  <2>2. CASE ~(job[k].ttl # NoLease /\ job[k].ttl > -Lag)
    BY <1>1, <1>2, <2>2 DEF Tick
  <2> QED
    BY <2>1, <2>2
<1> QED
  BY <1>1, <1>2, OnlyWithdrawn

(* A new job waits under the token it was inserted with.                   *)
LEMMA EnqueueWithdraws ==
  ASSUME FenceInv, FenceInv', NEW j \in Jobs, Enqueue(j)
  PROVE  Fence_!FenceNext
<1>1. job \in [Jobs -> Row] /\ job' \in [Jobs -> Row]
  BY DEF FenceInv, TypeOK
<1>2. \A k \in Jobs : /\ job'[k].token = job[k].token
                      /\ LiveRow(job'[k]) => LiveRow(job[k])
  BY <1>1 DEF Enqueue, Row, LiveRow
<1> QED
  BY <1>1, <1>2, OnlyWithdrawn

(* A retried job keeps its token: the next claim will move it.             *)
LEMMA RetryWithdraws ==
  ASSUME FenceInv, FenceInv', NEW j \in Jobs, Retry(j)
  PROVE  Fence_!FenceNext
<1>1. job \in [Jobs -> Row] /\ job' \in [Jobs -> Row]
  BY DEF FenceInv, TypeOK
<1>2. job[j] \in Row
  BY <1>1
<1>3. /\ job'[j].token = job[j].token
      /\ ~LiveRow(job'[j])
  BY <1>1, <1>2 DEF Retry, Settle, Row, LiveRow
<1>4. \A k \in Jobs : /\ job'[k].token = job[k].token
                      /\ LiveRow(job'[k]) => LiveRow(job[k])
  BY <1>1, <1>3 DEF Retry
<1> QED
  BY <1>1, <1>4, OnlyWithdrawn

(* A claim hands one lease out and may block other jobs on its way.        *)
LEMMA ClaimNextGrants ==
  ASSUME FenceInv, FenceInv', NEW w \in Workers, NEW age \in Stamps, ClaimNext(w, age)
  PROVE  Fence_!FenceNext
<1>1. job \in [Jobs -> Row] /\ job' \in [Jobs -> Row]
  BY DEF FenceInv, TypeOK
<1>2. PICK j \in Jobs, S \in SUBSET Jobs, action \in Actions :
        job' = [BlockAll(S) EXCEPT ![j] = ClaimedRow(w, job[j], action, age)]
  BY DEF ClaimNext, Eligible, Undispatchable, Actions
<1>3. /\ DOMAIN BlockAll(S) = Jobs
      /\ job'[j] = ClaimedRow(w, job[j], action, age)
      /\ \A k \in Jobs \ {j} : job'[k] = BlockAll(S)[k]
  BY <1>2 DEF BlockAll
<1>4. job'[j].token = job[j].token + 1 /\ LiveRow(job'[j])
  <2>1. job[j] \in Row
    BY <1>1
  <2> QED
    BY <1>3, <2>1, ClaimedRowLive, ClaimedRowToken
<1>5. \A k \in Jobs \ {j} : /\ job'[k].token = job[k].token
                            /\ LiveRow(job'[k]) => LiveRow(job[k])
  BY <1>1, <1>3, BlockedRows
<1> QED
  BY <1>1, <1>4, <1>5, OneGranted

(* claim_job hands out the job it was asked for.                           *)
LEMMA ClaimJobGrants ==
  ASSUME FenceInv, FenceInv', NEW w \in Workers, NEW j \in Jobs, NEW age \in Stamps,
         ClaimJob(w, j, age)
  PROVE  Fence_!FenceNext
<1>1. job \in [Jobs -> Row] /\ job' \in [Jobs -> Row]
  BY DEF FenceInv, TypeOK
<1>2. PICK action : job' = [job EXCEPT ![j] = ClaimedRow(w, job[j], action, age)]
  BY DEF ClaimJob
<1>3. job'[j].token = job[j].token + 1 /\ LiveRow(job'[j])
  <2>1. job[j] \in Row /\ job'[j] = ClaimedRow(w, job[j], action, age)
    BY <1>1, <1>2
  <2> QED
    BY <2>1, ClaimedRowLive, ClaimedRowToken
<1>4. \A k \in Jobs \ {j} : job'[k] = job[k]
  BY <1>1, <1>2
<1> QED
  BY <1>1, <1>3, <1>4, OneGranted

(* A claim that only blocks paid jobs hands out nothing.                   *)
LEMMA RefusalWithdraws ==
  ASSUME FenceInv, FenceInv', NEW S, job' = BlockAll(S)
  PROVE  Fence_!FenceNext
<1>1. job \in [Jobs -> Row] /\ job' \in [Jobs -> Row]
  BY DEF FenceInv, TypeOK
<1> QED
  BY <1>1, BlockedRows, OnlyWithdrawn

(* A renewal was granted to a lease that was live by the caller's own      *)
(* clock, hence not over for every clock.                                  *)
LEMMA HeartbeatRenews ==
  ASSUME FenceInv, FenceInv', NEW w \in Workers, NEW age \in Stamps, Heartbeat(w, age)
  PROVE  Fence_!FenceNext
<1> DEFINE j == worker[w].job
<1>1. job \in [Jobs -> Row] /\ job' \in [Jobs -> Row]
  BY DEF FenceInv, TypeOK
<1>2. /\ job' = [job EXCEPT ![j].ttl = Lease - age]
      /\ job[j].status = "running"
      /\ LeaseLive(job[j], age)
  BY DEF Heartbeat, Fenced
<1>3. ASSUME j \in Jobs PROVE LiveRow(job[j])
  <2>1. job[j].ttl \in Int
    BY <1>1, <1>2, <1>3 DEF Row, LeaseLive
  <2>2. -age >= -Lag
    BY QueueAssumption DEF Stamps
  <2> QED
    BY <1>2, <2>1, <2>2, QueueAssumption DEF LiveRow, LeaseLive, Stamps
<1>4. \A k \in Jobs : /\ job'[k].token = job[k].token
                      /\ LiveRow(job'[k]) => LiveRow(job[k])
  BY <1>1, <1>2, <1>3 DEF Row
<1> QED
  BY <1>1, <1>4, OnlyWithdrawn

(* The job of a finished attempt is settled, or left as it is.             *)
LEMMA CompleteWithdraws ==
  ASSUME FenceInv, FenceInv', NEW w \in Workers, NEW age \in Stamps, Complete(w, age)
  PROVE  Fence_!FenceNext
<1> DEFINE j == worker[w].job
<1>1. job \in [Jobs -> Row] /\ job' \in [Jobs -> Row]
  BY DEF FenceInv, TypeOK
<1>2. \/ job' = job
      \/ job' = [job EXCEPT ![j] = Settle(job[j], "succeeded", "none")]
  BY DEF Complete
<1>3. \A k \in Jobs : /\ job'[k].token = job[k].token
                      /\ LiveRow(job'[k]) => LiveRow(job[k])
  BY <1>1, <1>2, SettledRow
<1> QED
  BY <1>1, <1>3, OnlyWithdrawn

(* So is the job of a failed one.                                          *)
LEMMA FailWithdraws ==
  ASSUME FenceInv, FenceInv', NEW w \in Workers, NEW age \in Stamps, Fail(w, age)
  PROVE  Fence_!FenceNext
<1> DEFINE j == worker[w].job
           a == worker[w]
<1>1. job \in [Jobs -> Row] /\ job' \in [Jobs -> Row]
  BY DEF FenceInv, TypeOK
<1>2. \/ job' = job
      \/ job' = [job EXCEPT ![j] = FailedRow(job[j], a.class, a.tries, age)]
  BY DEF Fail
<1>3. \A k \in Jobs : /\ job'[k].token = job[k].token
                      /\ LiveRow(job'[k]) => LiveRow(job[k])
  BY <1>1, <1>2, FailedRowEnded
<1> QED
  BY <1>1, <1>3, OnlyWithdrawn

(* A cancellation revokes the lease and its token.                         *)
LEMMA CancelRevokes ==
  ASSUME FenceInv, FenceInv', NEW o \in Operators, CancelWrite(o)
  PROVE  Fence_!FenceNext
<1> DEFINE j == operator[o].job
           row == Settle(job[j], "cancelled", "cancelled_by_operator")
<1>1. job \in [Jobs -> Row] /\ job' \in [Jobs -> Row]
  BY DEF FenceInv, TypeOK
<1>2. j \in Jobs
  BY DEF CancelWrite, FenceInv, OperatorNamesJob
<1>3. row \in Row /\ row.status = "cancelled"
  <2>1. job[j] \in Row
    BY <1>1, <1>2
  <2>2. row \in Row
    BY <2>1, SettleType DEF Statuses, Actions
  <2> QED
    BY <2>1, <2>2 DEF Settle, Row
<1>4. job' = [job EXCEPT ![j] = [row EXCEPT !.token = job[j].token + 1]]
  BY DEF CancelWrite
<1> HIDE DEF j, row
<1>5. /\ job'[j].token = job[j].token + 1
      /\ job'[j].status = "cancelled"
      /\ \A k \in Jobs \ {j} : job'[k] = job[k]
  BY <1>1, <1>2, <1>3, <1>4 DEF Row
<1> QED
  BY <1>1, <1>2, <1>5, OneCancelled DEF LiveRow

(* A recovery ends the leases it read, whatever they have become.          *)
LEMMA RecoverWithdraws ==
  ASSUME FenceInv, FenceInv', NEW o \in Operators, RecoverWrite(o)
  PROVE  Fence_!FenceNext
<1>1. job \in [Jobs -> Row] /\ job' \in [Jobs -> Row]
  BY DEF FenceInv, TypeOK
<1>2. \A k \in Jobs :
        \/ job'[k] = job[k]
        \/ job'[k] = BlockedRow(job[k], TRUE)
        \/ job'[k] = Settle(job[k], "failed", "retry_exhausted")
        \/ job'[k] = Settle(job[k], "queued", "requeued_after_expired_lease")
  BY DEF RecoverWrite
<1>3. \A k \in Jobs : /\ job'[k].token = job[k].token
                      /\ LiveRow(job'[k]) => LiveRow(job[k])
  BY <1>1, <1>2, SettledRow DEF BlockedRow
<1> QED
  BY <1>1, <1>3, OnlyWithdrawn

-----------------------------------------------------------------------------
(* Every step is a step of the fence, or none.                             *)
LEMMA QueueStepIsFenceStep ==
  ASSUME FenceInv, FenceInv', [Next]_vars
  PROVE  [Fence_!FenceNext]_Fence_!fence
<1>1. CASE Tick
  BY <1>1, TickWithdraws
<1>2. CASE \E j \in Jobs : Enqueue(j) \/ Retry(j)
  BY <1>2, EnqueueWithdraws, RetryWithdraws
<1>3. CASE LedgerStep
  BY <1>3, SameRows DEF LedgerStep
<1>4. CASE \E w \in Workers : WorkerStep(w)
  <2>1. PICK w \in Workers : WorkerStep(w)
    BY <1>4
  <2>2. ASSUME NEW age \in Stamps, ClaimNext(w, age) PROVE Fence_!FenceNext
    BY <2>2, ClaimNextGrants
  <2>3. ASSUME NEW age \in Stamps, FindNothing(w, age) PROVE Fence_!FenceNext
    BY <2>3, RefusalWithdraws DEF FindNothing
  <2>4. ASSUME NEW age \in Stamps, Heartbeat(w, age) PROVE Fence_!FenceNext
    BY <2>4, HeartbeatRenews
  <2>5. ASSUME NEW age \in Stamps, HeartbeatRejected(w, age) PROVE Fence_!FenceNext
    BY <2>5, SameRows DEF HeartbeatRejected
  <2>6. ASSUME NEW age \in Stamps, Complete(w, age) PROVE Fence_!FenceNext
    BY <2>6, CompleteWithdraws
  <2>7. ASSUME NEW age \in Stamps, Fail(w, age) PROVE Fence_!FenceNext
    BY <2>7, FailWithdraws
  <2>8. ASSUME NEW age \in Stamps, NEW j \in Jobs, ClaimJob(w, j, age)
        PROVE  Fence_!FenceNext
    BY <2>8, ClaimJobGrants
  <2>9. ASSUME NEW age \in Stamps, NEW j \in Jobs, RefusePaid(w, j, age)
        PROVE  Fence_!FenceNext
    BY <2>9, RefusalWithdraws DEF RefusePaid
  <2>10. CASE RunnerReturns(w)
    BY <2>10, SameRows DEF RunnerReturns
  <2>11. CASE \E retryable \in BOOLEAN : RunnerRaises(w, retryable)
    BY <2>11, SameRows DEF RunnerRaises
  <2>12. CASE Crash(w)
    BY <2>12, SameRows DEF Crash
  <2> QED
    BY <2>1, <2>2, <2>3, <2>4, <2>5, <2>6, <2>7, <2>8, <2>9, <2>10, <2>11, <2>12
       DEF WorkerStep
<1>5. CASE \E o \in Operators : OperatorStep(o)
  <2>1. PICK o \in Operators : OperatorStep(o)
    BY <1>5
  <2>2. CASE \E j \in Jobs : CancelCheck(o, j)
    BY <2>2, SameRows DEF CancelCheck
  <2>3. CASE CancelWrite(o)
    BY <2>3, CancelRevokes
  <2>4. CASE \E age \in Stamps : RecoverRead(o, age)
    BY <2>4, SameRows DEF RecoverRead
  <2>5. CASE RecoverWrite(o)
    BY <2>5, RecoverWithdraws
  <2> QED
    BY <2>1, <2>2, <2>3, <2>4, <2>5 DEF OperatorStep
<1>6. CASE UNCHANGED vars
  BY <1>6, SameRows DEF vars
<1> QED
  BY <1>1, <1>2, <1>3, <1>4, <1>5, <1>6 DEF Next

(* The archive starts with no token given and no lease out.                *)
LEMMA QueueInitIsFenceInit == Init => Fence_!FenceInit
<1> SUFFICES ASSUME Init PROVE Fence_!FenceInit
  OBVIOUS
<1>1. \A j \in Jobs : job[j].token = 0 /\ job[j].status = "absent"
  BY DEF Init, NewRow
<1> QED
  BY <1>1 DEF Fence_!FenceInit

-----------------------------------------------------------------------------
(* Operator commands, races and stale clocks included, a token is never    *)
(* given out twice and a lease that ended is never renewed under it:       *)
(* claim_job, claim_next_job, heartbeat, complete_job, fail_job,           *)
(* recover_expired_leases, cancel_job and retry_job implement Fence.       *)
THEOREM QueueImplementsFence == Spec => ImplementsFence
<1>1. Spec => []FenceInv
  BY FenceInit, FenceStep, PTL DEF Spec
<1>2. FenceInv /\ FenceInv' /\ [Next]_vars => [Fence_!FenceNext]_Fence_!fence
  BY QueueStepIsFenceStep
<1> QED
  BY <1>1, <1>2, QueueInitIsFenceInit, PTL DEF Spec, ImplementsFence, Fence_!FenceSpec

-----------------------------------------------------------------------------
(*                  What a step is to the exclusive lease                  *)

(* The row stays with its token, and is neither taken up nor finished.     *)
RowKept(k) ==
  /\ job'[k].token = job[k].token
  /\ job'[k].status = "running" => job[k].status = "running"
  /\ job'[k].status = "succeeded" <=> job[k].status = "succeeded"

(* The worker goes on with its attempt, or drops it.                       *)
AttemptKept(w) ==
  \/ worker'[w].pc = "idle"
  \/ /\ worker[w].pc # "idle"
     /\ worker'[w].job = worker[w].job
     /\ worker'[w].token = worker[w].token

LEMMA OneHolds == FenceInv => OneHolder
BY DEF FenceInv, FencesDistinct, OneHolder, Holds

(* Jobs were taken from their holders, or nothing happened.                *)
LEMMA OnlyReleased ==
  ASSUME FenceInv,
         \A k \in Jobs : \A v \in Workers : Holds(v, k)' => Holds(v, k),
         \A k \in Jobs : job'[k].status = "succeeded" <=> job[k].status = "succeeded"
  PROVE  Lease_!Next
<1> PICK S \in SUBSET Jobs : S = {k \in Jobs : \A v \in Workers : ~Holds(v, k)'}
  OBVIOUS
<1>1. ASSUME NEW k \in Jobs \ S
      PROVE  {v \in Workers : Holds(v, k)'} = {v \in Workers : Holds(v, k)}
  <2>1. PICK v \in Workers : Holds(v, k)'
    BY <1>1
  <2>2. \A u \in Workers : Holds(u, k) => u = v
    BY <2>1, OneHolds DEF OneHolder
  <2> QED  BY <2>1, <2>2
<1>2. \A k \in S : {v \in Workers : Holds(v, k)'} = {}
  OBVIOUS
<1>3. [k \in Jobs |-> {v \in Workers : Holds(v, k)'}]
        = [k \in Jobs |-> IF k \in S THEN {} ELSE {v \in Workers : Holds(v, k)}]
  BY <1>1, <1>2
<1>4. Lease_!Withdraw(S)
  <2>1. {k \in Jobs : job'[k].status = "succeeded"} = {k \in Jobs : job[k].status = "succeeded"}
    OBVIOUS
  <2> QED  BY <1>3, <2>1 DEF Lease_!Withdraw
<1> QED  BY <1>4 DEF Lease_!Next

LEMMA AttemptsAndRows ==
  ASSUME FenceInv, \A k \in Jobs : RowKept(k), \A v \in Workers : AttemptKept(v)
  PROVE  Lease_!Next
<1>1. \A k \in Jobs : \A v \in Workers : Holds(v, k)' => Holds(v, k)
  BY DEF RowKept, AttemptKept, Holds
<1> QED  BY <1>1, OnlyReleased DEF RowKept

(* An idle worker is given a job under its next token, and the jobs of S   *)
(* are blocked on the way.                                                 *)
LEMMA OneAcquired ==
  ASSUME FenceInv, NEW w \in Workers, NEW j \in Jobs, worker[w].pc = "idle",
         StartAttempt(w, j), job[j].status # "succeeded",
         job'[j].token = job[j].token + 1, job'[j].status = "running",
         \A k \in Jobs \ {j} :
           \/ job'[k] = job[k]
           \/ /\ job'[k].status \notin {"running", "succeeded"}
              /\ job[k].status # "succeeded"
  PROVE  Lease_!Next
<1>1. /\ worker'[w].pc = "running" /\ worker'[w].job = j
      /\ worker'[w].token = job[j].token + 1
      /\ \A v \in Workers \ {w} : worker'[v] = worker[v]
  BY DEF StartAttempt, NoAttempt, FenceInv, TypeOK, Attempt, Row
<1>2. {v \in Workers : Holds(v, j)'} = {w}
  <2>1. Holds(w, j)'
    BY <1>1 DEF Holds
  <2>2. ASSUME NEW v \in Workers \ {w}, Holds(v, j)' PROVE FALSE
    <3>1. worker[v].pc # "idle" /\ worker[v].job = j /\ worker[v].token = job[j].token + 1
      BY <1>1, <2>2 DEF Holds
    <3>2. worker[v].token <= job[j].token /\ job[j].token \in Nat
      BY <3>1 DEF FenceInv, FencesDistinct, TypeOK, Row
    <3> QED  BY <3>1, <3>2
  <2> QED  BY <2>1, <2>2
<1> PICK S \in SUBSET Jobs : S = {k \in Jobs \ {j} : job'[k] # job[k]}
  OBVIOUS
<1>3. \A k \in S : {v \in Workers : Holds(v, k)'} = {}
  BY DEF Holds
<1>4. ASSUME NEW k \in Jobs \ {j}, k \notin S
      PROVE  {v \in Workers : Holds(v, k)'} = {v \in Workers : Holds(v, k)}
  <2>1. job'[k] = job[k]
    BY <1>4
  <2>2. ASSUME NEW v \in Workers PROVE Holds(v, k)' <=> Holds(v, k)
    <3>1. CASE v = w
      BY <1>1, <1>4, <3>1 DEF Holds
    <3>2. CASE v # w
      BY <1>1, <2>1, <3>2 DEF Holds
    <3> QED  BY <3>1, <3>2
  <2> QED  BY <2>2
<1>5. [k \in Jobs |-> {v \in Workers : Holds(v, k)'}]
        = [k \in Jobs |-> IF k = j THEN {w} ELSE IF k \in S THEN {}
                          ELSE {v \in Workers : Holds(v, k)}]
  BY <1>2, <1>3, <1>4
<1>6. \A k \in Jobs : job'[k].status = "succeeded" <=> job[k].status = "succeeded"
  OBVIOUS
<1>7. Lease_!Acquire(w, j, S)
  <2>1. {k \in Jobs : job'[k].status = "succeeded"} = {k \in Jobs : job[k].status = "succeeded"}
    BY <1>6
  <2>2. j \notin {k \in Jobs : job[k].status = "succeeded"}
    OBVIOUS
  <2> QED  BY <1>5, <2>1, <2>2 DEF Lease_!Acquire
<1> QED  BY <1>7 DEF Lease_!Next

(* The holder of a job finishes it.                                        *)
LEMMA OneFinished ==
  ASSUME FenceInv, NEW w \in Workers, NEW j \in Jobs, Holds(w, j), worker'[w].pc = "idle",
         \A v \in Workers \ {w} : worker'[v] = worker[v],
         job'[j].status = "succeeded", \A k \in Jobs \ {j} : job'[k] = job[k]
  PROVE  Lease_!Next
<1>1. {v \in Workers : Holds(v, j)} = {w} /\ {v \in Workers : Holds(v, j)'} = {}
  BY OneHolds DEF OneHolder, Holds
<1>2. ASSUME NEW k \in Jobs \ {j}
      PROVE  {v \in Workers : Holds(v, k)'} = {v \in Workers : Holds(v, k)}
  BY DEF Holds
<1>3. [k \in Jobs |-> {v \in Workers : Holds(v, k)'}]
        = [[k \in Jobs |-> {v \in Workers : Holds(v, k)}] EXCEPT ![j] = {}]
  BY <1>1, <1>2
<1>4. {k \in Jobs : job'[k].status = "succeeded"}
        = {k \in Jobs : job[k].status = "succeeded"} \union {j}
  OBVIOUS
<1>5. Lease_!Finish(w, j)
  BY <1>1, <1>3, <1>4 DEF Lease_!Finish
<1> QED  BY <1>5 DEF Lease_!Next

-----------------------------------------------------------------------------
(*                     The actions, without operators                      *)

LEMMA SettledStatus ==
  ASSUME NEW row \in Row, NEW status, NEW action
  PROVE  Settle(row, status, action).status = status
BY DEF Settle, Row

LEMMA FailedStatus ==
  ASSUME NEW row \in Row, NEW class, NEW tries, NEW age
  PROVE  FailedRow(row, class, tries, age).status \in {"blocked", "failed", "retry_wait"}
<1> DEFINE waiting == Settle(row, "retry_wait", "retry_after")
<1>1. waiting \in Row /\ waiting.status = "retry_wait"
  BY DEF Settle, Row, Statuses, Actions
<1>2. \A t : [waiting EXCEPT !.ttl = t].status = waiting.status
  BY <1>1 DEF Row
<1> QED  BY <1>1, <1>2, SettledStatus DEF FailedRow

LEMMA BlockedStatus ==
  ASSUME job \in [Jobs -> Row], NEW S, NEW k \in Jobs
  PROVE  BlockAll(S)[k] = job[k] \/ (k \in S /\ BlockAll(S)[k].status = "blocked")
BY SettledStatus DEF BlockAll, BlockedRow

(* A step that leaves the jobs alone and starts no attempt.                *)
LEMMA SameJobs ==
  ASSUME FenceInv, job' = job, \A v \in Workers : AttemptKept(v)
  PROVE  Lease_!Next
BY AttemptsAndRows DEF RowKept

LEMMA SameWorkers ==
  ASSUME worker' = worker
  PROVE  \A v \in Workers : AttemptKept(v)
BY DEF AttemptKept

LEMMA TickLeases ==
  ASSUME FenceInv, Tick
  PROVE  Lease_!Next
<1>1. \A k \in Jobs : RowKept(k)
  BY DEF FenceInv, TypeOK, Tick, Row, RowKept
<1> QED  BY <1>1, SameWorkers, AttemptsAndRows DEF Tick

LEMMA EnqueueLeases ==
  ASSUME FenceInv, NEW j \in Jobs, Enqueue(j)
  PROVE  Lease_!Next
<1>1. \A k \in Jobs : RowKept(k)
  BY DEF FenceInv, TypeOK, Enqueue, Row, RowKept
<1> QED  BY <1>1, SameWorkers, AttemptsAndRows DEF Enqueue

LEMMA RetryLeases ==
  ASSUME FenceInv, NEW j \in Jobs, Retry(j)
  PROVE  Lease_!Next
<1>1. job[j] \in Row /\ job \in [Jobs -> Row]
  BY DEF FenceInv, TypeOK
<1>2. job'[j].token = job[j].token /\ job'[j].status = "queued" /\ job[j].status = "failed"
  BY <1>1 DEF Retry, Settle, Row
<1>3. \A k \in Jobs \ {j} : job'[k] = job[k]
  BY <1>1 DEF Retry
<1>4. \A k \in Jobs : RowKept(k)
  BY <1>2, <1>3 DEF RowKept
<1> QED  BY <1>4, SameWorkers, AttemptsAndRows DEF Retry

LEMMA ClaimNextLeases ==
  ASSUME FenceInv, NEW w \in Workers, NEW age \in Stamps, ClaimNext(w, age)
  PROVE  Lease_!Next
<1>1. job \in [Jobs -> Row]
  BY DEF FenceInv, TypeOK
<1>2. Eligible(age) \subseteq Jobs /\ \A k \in Eligible(age) : job[k].status # "succeeded"
  BY DEF Eligible
<1>3. PICK j \in Jobs, S \in SUBSET Jobs, action \in Actions :
        /\ job' = [BlockAll(S) EXCEPT ![j] = ClaimedRow(w, job[j], action, age)]
        /\ StartAttempt(w, j)
        /\ job[j].status # "succeeded"
        /\ \A k \in S : job[k].status # "succeeded"
  <2>1. PICK j \in Eligible(age) :
          /\ StartAttempt(w, j)
          /\ \E S \in SUBSET Eligible(age), action \in Actions :
               job' = [BlockAll(S) EXCEPT ![j] = ClaimedRow(w, job[j], action, age)]
    BY DEF ClaimNext, Undispatchable, Actions
  <2>2. PICK S \in SUBSET Eligible(age), action \in Actions :
          job' = [BlockAll(S) EXCEPT ![j] = ClaimedRow(w, job[j], action, age)]
    BY <2>1
  <2> QED  BY <1>2, <2>1, <2>2
<1>4. /\ DOMAIN BlockAll(S) = Jobs
      /\ job'[j] = ClaimedRow(w, job[j], action, age)
      /\ \A k \in Jobs \ {j} : job'[k] = BlockAll(S)[k]
  BY <1>3 DEF BlockAll
<1>5. job'[j].token = job[j].token + 1 /\ job'[j].status = "running"
  BY <1>1, <1>4, ClaimedRowType
<1>6. \A k \in Jobs \ {j} :
        \/ job'[k] = job[k]
        \/ /\ job'[k].status \notin {"running", "succeeded"}
           /\ job[k].status # "succeeded"
  BY <1>1, <1>3, <1>4, BlockedStatus
<1> QED  BY <1>3, <1>5, <1>6, OneAcquired DEF ClaimNext

LEMMA ClaimJobLeases ==
  ASSUME FenceInv, NEW w \in Workers, NEW j \in Jobs, NEW age \in Stamps, ClaimJob(w, j, age)
  PROVE  Lease_!Next
<1>1. job \in [Jobs -> Row] /\ job[j] \in Row
  BY DEF FenceInv, TypeOK
<1>2. PICK action \in Actions : job' = [job EXCEPT ![j] = ClaimedRow(w, job[j], action, age)]
  BY <1>1 DEF ClaimJob, Row, Actions
<1>3. job'[j] = ClaimedRow(w, job[j], action, age) /\ \A k \in Jobs \ {j} : job'[k] = job[k]
  BY <1>1, <1>2
<1>4. job'[j].token = job[j].token + 1 /\ job'[j].status = "running"
  BY <1>1, <1>3, ClaimedRowType
<1>5. job[j].status # "succeeded"
  BY DEF ClaimJob, Claimable
<1> QED  BY <1>3, <1>4, <1>5, OneAcquired DEF ClaimJob

(* Blocking paid jobs takes them from their holders.                       *)
LEMMA RefusalLeases ==
  ASSUME FenceInv, NEW S, job' = BlockAll(S), \A k \in S : job[k].status # "succeeded",
         worker' = worker
  PROVE  Lease_!Next
<1>1. job \in [Jobs -> Row]
  BY DEF FenceInv, TypeOK
<1>2. \A k \in Jobs : job'[k].token = job[k].token
  BY <1>1, BlockedRows
<1>3. \A k \in Jobs : RowKept(k)
  BY <1>1, <1>2, BlockedStatus DEF RowKept
<1> QED  BY <1>3, SameWorkers, AttemptsAndRows

LEMMA HeartbeatLeases ==
  ASSUME FenceInv, NEW w \in Workers, NEW age \in Stamps, Heartbeat(w, age)
  PROVE  Lease_!Next
<1>1. \A k \in Jobs : RowKept(k)
  BY DEF FenceInv, TypeOK, Heartbeat, Row, RowKept
<1> QED  BY <1>1, SameWorkers, AttemptsAndRows DEF Heartbeat

(* One worker's memory changes: it goes on with its attempt or drops it.   *)
LEMMA MemoryLeases ==
  ASSUME FenceInv, NEW w \in Workers, job' = job, worker[w].pc # "idle",
         NEW m, worker' = [worker EXCEPT ![w] = m],
         m.pc = "idle" \/ (m.job = worker[w].job /\ m.token = worker[w].token)
  PROVE  Lease_!Next
<1>1. \A v \in Workers : AttemptKept(v)
  <2>1. worker \in [Workers -> Attempt]
    BY DEF FenceInv, TypeOK
  <2> QED  BY <2>1 DEF AttemptKept
<1> QED  BY <1>1, SameJobs

LEMMA HeartbeatRejectedLeases ==
  ASSUME FenceInv, NEW w \in Workers, NEW age \in Stamps, HeartbeatRejected(w, age)
  PROVE  Lease_!Next
<1>1. PICK m : m = [worker[w] EXCEPT !.lost = TRUE]
  OBVIOUS
<1>2. worker[w] \in Attempt /\ worker' = [worker EXCEPT ![w] = m]
  BY <1>1 DEF HeartbeatRejected, FenceInv, TypeOK
<1>3. m.job = worker[w].job /\ m.token = worker[w].token
  BY <1>1, <1>2 DEF Attempt
<1> QED  BY <1>2, <1>3, MemoryLeases DEF HeartbeatRejected

LEMMA RunnerReturnsLeases ==
  ASSUME FenceInv, NEW w \in Workers, RunnerReturns(w)
  PROVE  Lease_!Next
<1>1. PICK m : m = IF worker[w].lost THEN NoAttempt ELSE [worker[w] EXCEPT !.pc = "completing"]
  OBVIOUS
<1>2. worker[w] \in Attempt /\ worker' = [worker EXCEPT ![w] = m]
  BY <1>1 DEF RunnerReturns, FenceInv, TypeOK
<1>3. m.pc = "idle" \/ (m.job = worker[w].job /\ m.token = worker[w].token)
  BY <1>1, <1>2 DEF Attempt, NoAttempt
<1> QED  BY <1>2, <1>3, MemoryLeases DEF RunnerReturns

LEMMA RunnerRaisesLeases ==
  ASSUME FenceInv, NEW w \in Workers, NEW retryable, RunnerRaises(w, retryable)
  PROVE  Lease_!Next
<1>1. PICK c, t :
        worker' = [worker EXCEPT ![w] =
                     IF worker[w].lost THEN NoAttempt
                     ELSE [worker[w] EXCEPT !.pc = "failing", !.class = c, !.tries = t]]
  BY DEF RunnerRaises
<1>2. PICK m : m = IF worker[w].lost THEN NoAttempt
                   ELSE [worker[w] EXCEPT !.pc = "failing", !.class = c, !.tries = t]
  OBVIOUS
<1>3. worker[w] \in Attempt /\ worker' = [worker EXCEPT ![w] = m]
  BY <1>1, <1>2 DEF FenceInv, TypeOK
<1>4. m.pc = "idle" \/ (m.job = worker[w].job /\ m.token = worker[w].token)
  BY <1>2, <1>3 DEF Attempt, NoAttempt
<1> QED  BY <1>3, <1>4, MemoryLeases DEF RunnerRaises

LEMMA CrashLeases ==
  ASSUME FenceInv, NEW w \in Workers, Crash(w)
  PROVE  Lease_!Next
BY MemoryLeases DEF Crash, NoAttempt

(* The one step that finishes a job is its holder's.                       *)
LEMMA CompleteLeases ==
  ASSUME FenceInv, NEW w \in Workers, NEW age \in Stamps, Complete(w, age)
  PROVE  Lease_!Next
<1>1. /\ job \in [Jobs -> Row] /\ worker \in [Workers -> Attempt]
      /\ worker[w].pc = "completing" /\ worker' = [worker EXCEPT ![w] = NoAttempt]
  BY DEF FenceInv, TypeOK, Complete
<1>2. PICK j \in Jobs : j = worker[w].job
  BY <1>1 DEF FenceInv, FencesDistinct
<1>3. CASE Fenced(w, j) /\ LeaseLive(job[j], age)
  <2>1. job' = [job EXCEPT ![j] = Settle(job[j], "succeeded", "none")]
    BY <1>1, <1>2, <1>3 DEF Complete
  <2>2. job'[j].status = "succeeded" /\ \A k \in Jobs \ {j} : job'[k] = job[k]
    BY <1>1, <2>1, SettledStatus
  <2>3. Holds(w, j)
    BY <1>1, <1>2, <1>3 DEF Holds, Fenced
  <2>4. worker'[w].pc = "idle" /\ \A v \in Workers \ {w} : worker'[v] = worker[v]
    BY <1>1 DEF NoAttempt
  <2> QED  BY <2>2, <2>3, <2>4, OneFinished
<1>4. CASE ~(Fenced(w, j) /\ LeaseLive(job[j], age))
  <2>1. job' = job
    BY <1>2, <1>4 DEF Complete
  <2> QED  BY <1>1, <2>1, MemoryLeases DEF NoAttempt
<1> QED  BY <1>3, <1>4

LEMMA FailLeases ==
  ASSUME FenceInv, NEW w \in Workers, NEW age \in Stamps, Fail(w, age)
  PROVE  Lease_!Next
<1>1. /\ job \in [Jobs -> Row] /\ worker \in [Workers -> Attempt]
      /\ worker[w].pc = "failing" /\ worker' = [worker EXCEPT ![w] = NoAttempt]
  BY DEF FenceInv, TypeOK, Fail
<1>2. PICK j \in Jobs : j = worker[w].job
  BY <1>1 DEF FenceInv, FencesDistinct
<1>3. CASE Fenced(w, j)
  <2>1. PICK row : row = FailedRow(job[j], worker[w].class, worker[w].tries, age)
    OBVIOUS
  <2>2. job' = [job EXCEPT ![j] = row]
    BY <1>2, <1>3, <2>1 DEF Fail
  <2>3. row.token = job[j].token /\ row.status \in {"blocked", "failed", "retry_wait"}
    BY <1>1, <2>1, FailedRowEnded, FailedStatus
  <2>4. \A k \in Jobs : RowKept(k)
    BY <1>1, <1>3, <2>2, <2>3 DEF RowKept, Fenced
  <2>5. \A v \in Workers : AttemptKept(v)
    BY <1>1 DEF AttemptKept, NoAttempt
  <2> QED  BY <2>4, <2>5, AttemptsAndRows
<1>4. CASE ~Fenced(w, j)
  <2>1. job' = job
    BY <1>2, <1>4 DEF Fail
  <2> QED  BY <1>1, <2>1, MemoryLeases DEF NoAttempt
<1> QED  BY <1>3, <1>4

-----------------------------------------------------------------------------
LEMMA QueueStepIsLeaseStep ==
  ASSUME Operators = {}, FenceInv, [Next]_vars
  PROVE  [Lease_!Next]_Lease_!vars
<1>1. CASE Tick
  BY <1>1, TickLeases
<1>2. CASE \E j \in Jobs : Enqueue(j) \/ Retry(j)
  BY <1>2, EnqueueLeases, RetryLeases
<1>3. CASE LedgerStep
  BY <1>3, SameJobs, SameWorkers DEF LedgerStep
<1>4. CASE \E w \in Workers : WorkerStep(w)
  <2>1. PICK w \in Workers : WorkerStep(w)
    BY <1>4
  <2>2. ASSUME NEW age \in Stamps, ClaimNext(w, age) PROVE Lease_!Next
    BY <2>2, ClaimNextLeases
  <2>3. ASSUME NEW age \in Stamps, FindNothing(w, age) PROVE Lease_!Next
    BY <2>3, RefusalLeases DEF FindNothing, Eligible
  <2>4. ASSUME NEW age \in Stamps, Heartbeat(w, age) PROVE Lease_!Next
    BY <2>4, HeartbeatLeases
  <2>5. ASSUME NEW age \in Stamps, HeartbeatRejected(w, age) PROVE Lease_!Next
    BY <2>5, HeartbeatRejectedLeases
  <2>6. ASSUME NEW age \in Stamps, Complete(w, age) PROVE Lease_!Next
    BY <2>6, CompleteLeases
  <2>7. ASSUME NEW age \in Stamps, Fail(w, age) PROVE Lease_!Next
    BY <2>7, FailLeases
  <2>8. ASSUME NEW age \in Stamps, NEW j \in Jobs, ClaimJob(w, j, age) PROVE Lease_!Next
    BY <2>8, ClaimJobLeases
  <2>9. ASSUME NEW age \in Stamps, NEW j \in Jobs, RefusePaid(w, j, age) PROVE Lease_!Next
    BY <2>9, RefusalLeases DEF RefusePaid, Claimable
  <2>10. CASE RunnerReturns(w)
    BY <2>10, RunnerReturnsLeases
  <2>11. CASE \E retryable \in BOOLEAN : RunnerRaises(w, retryable)
    BY <2>11, RunnerRaisesLeases
  <2>12. CASE Crash(w)
    BY <2>12, CrashLeases
  <2> QED
    BY <2>1, <2>2, <2>3, <2>4, <2>5, <2>6, <2>7, <2>8, <2>9, <2>10, <2>11, <2>12
       DEF WorkerStep
<1>5. CASE UNCHANGED vars
  BY <1>5, SameJobs, SameWorkers DEF vars
<1> QED  BY <1>1, <1>2, <1>3, <1>4, <1>5 DEF Next

LEMMA QueueInitIsLeaseInit == Init => Lease_!Init
<1> SUFFICES ASSUME Init PROVE Lease_!Init
  OBVIOUS
<1>1. \A j \in Jobs : job[j].status = "absent"
  BY DEF Init, NewRow
<1>2. \A j \in Jobs : {w \in Workers : Holds(w, j)} = {}
  BY <1>1 DEF Holds
<1>3. {j \in Jobs : job[j].status = "succeeded"} = {}
  BY <1>1
<1> QED  BY <1>2, <1>3 DEF Lease_!Init

(* The workers alone implement ExclusiveLease: a job is in the hands of at *)
(* most one worker that may finish it, only that worker finishes it, and a *)
(* finished job is never handed out again (claim_job, claim_next_job,      *)
(* complete_job, fail_job, retry_job).  An operator's cancellation can     *)
(* break it, see CancelSparesTerminal.                                     *)
THEOREM QueueImplementsLease ==
  ASSUME Operators = {}
  PROVE  Spec => ImplementsExclusiveLease
<1>1. Spec => []FenceInv
  BY FenceInit, FenceStep, PTL DEF Spec
<1>2. FenceInv /\ [Next]_vars => [Lease_!Next]_Lease_!vars
  BY QueueStepIsLeaseStep
<1> QED
  BY <1>1, <1>2, QueueInitIsLeaseInit, PTL DEF Spec, ImplementsExclusiveLease, Lease_!Spec

-----------------------------------------------------------------------------
(***************************************************************************)
(* A paid request is dispatched at most once: proved for any number of     *)
(* jobs naming it, although a recovery may write over a row that changed   *)
(* since it was read.  The argument: a request that was dispatched has a   *)
(* paid job with attempts behind it, only retry_job resets attempts, it    *)
(* does so from `failed' alone, and a paid job never fails.                *)
(*                                                                         *)
(* What is paid stays within the budget, second part: BudgetRespected is   *)
(* not inductive, since a charge that passed its own reservation leaves    *)
(* less than nothing of the budget; what reservations cover of what is     *)
(* counted never passes the budget (BudgetInv).                            *)
(*                                                                         *)
(* A paid job that waits for reconciliation never leaves its reservation   *)
(* unflagged, third part: UnknownChargeFlagged is not inductive, since a   *)
(* request without a row could still be reserved after its job was         *)
(* blocked, and a recovery blocks jobs by what it read.  FlagInv adds that *)
(* a paid job with attempts behind it has a row in the ledger, and that a  *)
(* running job, or one a recovery is about to write, has such attempts.    *)
(***************************************************************************)


PaidInv ==
  /\ \A r \in Requests : dispatched[r] \in {0, 1}
  /\ \A r \in Requests : dispatched[r] # 0 =>
       \E j \in Paid : RequestOf[j] = r /\ job[j].attempts > 0
  /\ \A j \in Paid : job[j].status # "failed"
  /\ \A w \in Workers : worker[w].pc = "failing" /\ worker[w].job \in Paid
       => worker[w].class \in {"deterministic", "ambiguous"}

(* What settling a row keeps, and what it sets.                            *)
LEMMA SettleFields ==
  ASSUME NEW row \in Row, NEW status, NEW action
  PROVE  /\ Settle(row, status, action).status = status
         /\ Settle(row, status, action).attempts = row.attempts
BY DEF Settle, Row

(* Blocking rows keeps their attempts and queues none of them.             *)
LEMMA BlockAllFields ==
  ASSUME job \in [Jobs -> Row], NEW S, NEW j \in Jobs
  PROVE  /\ BlockAll(S)[j].attempts = job[j].attempts
         /\ BlockAll(S)[j].status \in {job[j].status, "blocked"}
BY SettleFields DEF BlockAll, BlockedRow

(* A step that keeps the attempts of the paid jobs, fails none of them and *)
(* dispatches nothing preserves the invariant.                             *)
LEMMA PaidKept ==
  ASSUME FenceInv, PaidInv,
         \A j \in Paid : job'[j].attempts = job[j].attempts,
         \A j \in Paid : job'[j].status # "failed",
         \A w \in Workers : worker'[w].pc = "failing" /\ worker'[w].job \in Paid
           => worker'[w].class \in {"deterministic", "ambiguous"},
         dispatched' = dispatched
  PROVE  PaidInv'
BY DEF PaidInv

(* A step of a worker that starts an attempt: nobody had dispatched the    *)
(* request of a dispatchable job.                                          *)
LEMMA PaidStarted ==
  ASSUME FenceInv, PaidInv, NEW w \in Workers, NEW j \in Jobs,
         j \in Paid => Dispatchable(j),
         StartAttempt(w, j),
         \A k \in Paid \ {j} : job'[k].attempts = job[k].attempts,
         j \in Paid => job'[j].attempts = job[j].attempts + 1,
         \A k \in Paid : job'[k].status # "failed"
  PROVE  PaidInv'
<1>1. \A v \in Workers : worker'[v].pc = "failing" /\ worker'[v].job \in Paid
        => worker'[v].class \in {"deterministic", "ambiguous"}
  BY DEF StartAttempt, PaidInv, NoAttempt, FenceInv, TypeOK
<1>2. CASE j \notin Paid
  BY <1>1, <1>2, PaidKept DEF StartAttempt
<1>3. CASE j \in Paid
  <2>1. RequestOf[j] \in Requests /\ job[j].attempts \in Nat
    BY <1>3, QueueAssumption DEF Dispatchable, FenceInv, TypeOK, Row
  <2>2. dispatched[RequestOf[j]] = 0
    BY <1>3, <2>1, QueueAssumption DEF Dispatchable, PaidInv
  <2>3. dispatched' = [dispatched EXCEPT ![RequestOf[j]] = 1]
    BY <1>3, <2>1, <2>2 DEF StartAttempt, FenceInv, TypeOK
  <2>4. \A r \in Requests : dispatched'[r] # 0 =>
          \E k \in Paid : RequestOf[k] = r /\ job'[k].attempts > 0
    <3> SUFFICES ASSUME NEW r \in Requests, dispatched'[r] # 0
                 PROVE  \E k \in Paid : RequestOf[k] = r /\ job'[k].attempts > 0
      OBVIOUS
    <3>1. CASE r = RequestOf[j]
      BY <1>3, <2>1, <3>1
    <3>2. CASE r # RequestOf[j]
      <4>1. PICK k \in Paid : RequestOf[k] = r /\ job[k].attempts > 0
        BY <2>1, <2>3, <3>2 DEF PaidInv, FenceInv, TypeOK
      <4> QED
        BY <3>2, <4>1
    <3> QED
      BY <3>1, <3>2
  <2> QED
    BY <1>1, <2>1, <2>3, <2>4 DEF PaidInv, FenceInv, TypeOK
<1> QED
  BY <1>2, <1>3

(* Every step preserves the invariant, one case for each action.           *)
LEMMA PaidStep ==
  ASSUME FenceInv, PaidInv, [Next]_vars
  PROVE  PaidInv'
<1>1. Paid \subseteq Jobs /\ job \in [Jobs -> Row]
  BY QueueAssumption DEF FenceInv, TypeOK
<1>2. \A v \in Workers : worker' = worker =>
        (worker'[v].pc = "failing" /\ worker'[v].job \in Paid
           => worker'[v].class \in {"deterministic", "ambiguous"})
  BY DEF PaidInv
<1>3. CASE Tick
  <2>1. \A j \in Jobs : job'[j].attempts = job[j].attempts /\ job'[j].status = job[j].status
    BY <1>1, <1>3 DEF Tick, Row
  <2> QED
    BY <1>1, <1>2, <1>3, <2>1, PaidKept DEF Tick, PaidInv
<1>4. ASSUME NEW j \in Jobs, Enqueue(j) \/ Retry(j) PROVE PaidInv'
  <2>1. CASE Enqueue(j)
    <3>1. \A k \in Jobs : /\ job'[k].attempts = job[k].attempts
                          /\ job'[k].status \in {job[k].status, "queued"}
      BY <1>1, <2>1 DEF Enqueue, Row
    <3> QED
      BY <1>1, <1>2, <2>1, <3>1, PaidKept DEF Enqueue, PaidInv
  <2>2. CASE Retry(j)
    <3>1. j \notin Paid
      BY <2>2 DEF Retry, PaidInv
    <3>2. \A k \in Jobs \ {j} : job'[k] = job[k]
      BY <1>1, <2>2 DEF Retry
    <3> QED
      BY <1>1, <1>2, <2>2, <3>1, <3>2, PaidKept DEF Retry, PaidInv
  <2> QED
    BY <1>4, <2>1, <2>2
<1>5. CASE LedgerStep
  BY <1>1, <1>2, <1>5, PaidKept DEF LedgerStep, PaidInv
<1>6. ASSUME NEW w \in Workers, WorkerStep(w) PROVE PaidInv'
  <2>1. ASSUME NEW age \in Stamps, ClaimNext(w, age) PROVE PaidInv'
    <3>1. PICK j \in Jobs, S \in SUBSET Jobs, action \in Actions :
            /\ job' = [BlockAll(S) EXCEPT ![j] = ClaimedRow(w, job[j], action, age)]
            /\ StartAttempt(w, j)
            /\ j \in Paid => Dispatchable(j)
      BY <2>1 DEF ClaimNext, Eligible, Undispatchable, Actions
    <3>2. /\ ClaimedRow(w, job[j], action, age).attempts = job[j].attempts + 1
          /\ ClaimedRow(w, job[j], action, age).status = "running"
      BY <1>1, <2>1, ClaimedRowType
    <3>3. DOMAIN BlockAll(S) = Jobs
      BY DEF BlockAll
    <3>4. \A k \in Paid \ {j} : job'[k].attempts = job[k].attempts
      BY <1>1, <3>1, <3>3, BlockAllFields
    <3>5. job'[j].attempts = job[j].attempts + 1 /\ job'[j].status = "running"
      BY <3>1, <3>2, <3>3
    <3>6. \A k \in Paid : job'[k].status # "failed"
      BY <1>1, <3>1, <3>3, <3>5, BlockAllFields DEF PaidInv
    <3> QED
      BY <3>1, <3>4, <3>5, <3>6, PaidStarted
  <2>2. ASSUME NEW age \in Stamps, NEW j \in Jobs, ClaimJob(w, j, age) PROVE PaidInv'
    <3>1. PICK action \in Actions : job' = [job EXCEPT ![j] = ClaimedRow(w, job[j], action, age)]
      BY <1>1, <2>2 DEF ClaimJob, Row, Actions
    <3>2. /\ ClaimedRow(w, job[j], action, age).attempts = job[j].attempts + 1
          /\ ClaimedRow(w, job[j], action, age).status = "running"
      BY <1>1, <2>2, ClaimedRowType
    <3>3. /\ \A k \in Jobs \ {j} : job'[k] = job[k]
          /\ job'[j].attempts = job[j].attempts + 1
          /\ job'[j].status = "running"
      BY <1>1, <3>1, <3>2
    <3>4. \A k \in Paid : job'[k].status # "failed"
      BY <1>1, <3>3 DEF PaidInv
    <3> QED
      BY <1>1, <2>2, <3>3, <3>4, PaidStarted DEF ClaimJob
  <2>3. ASSUME NEW S, job' = BlockAll(S), worker' = worker, dispatched' = dispatched
        PROVE  PaidInv'
    BY <1>1, <1>2, <2>3, BlockAllFields, PaidKept DEF PaidInv
  <2>4. ASSUME NEW age \in Stamps, FindNothing(w, age) \/ \E j \in Jobs : RefusePaid(w, j, age)
        PROVE  PaidInv'
    BY <2>3, <2>4 DEF FindNothing, RefusePaid
  <2>5. ASSUME NEW age \in Stamps, Heartbeat(w, age) PROVE PaidInv'
    <3>1. \A k \in Jobs : job'[k].attempts = job[k].attempts /\ job'[k].status = job[k].status
      BY <1>1, <2>5 DEF Heartbeat, Row
    <3> QED
      BY <1>1, <1>2, <2>5, <3>1, PaidKept DEF Heartbeat, PaidInv
  <2>6. ASSUME job' = job, dispatched' = dispatched,
               \A v \in Workers : worker'[v].pc = "failing" /\ worker'[v].job \in Paid
                 => worker'[v].class \in {"deterministic", "ambiguous"}
        PROVE  PaidInv'
    BY <1>1, <2>6, PaidKept DEF PaidInv
  <2>7. ASSUME NEW age \in Stamps, HeartbeatRejected(w, age) PROVE PaidInv'
    <3>1. \A v \in Workers : /\ worker'[v].pc = worker[v].pc
                             /\ worker'[v].job = worker[v].job
                             /\ worker'[v].class = worker[v].class
      BY <2>7 DEF HeartbeatRejected, FenceInv, TypeOK, Attempt
    <3> QED
      BY <2>6, <2>7, <3>1 DEF HeartbeatRejected, PaidInv
  <2>8. CASE RunnerReturns(w)
    <3>1. \A v \in Workers : worker'[v] = worker[v] \/ worker'[v].pc # "failing"
      BY <2>8 DEF RunnerReturns, FenceInv, TypeOK, Attempt, NoAttempt
    <3> QED
      BY <2>6, <2>8, <3>1 DEF RunnerReturns, PaidInv
  <2>9. ASSUME NEW retryable \in BOOLEAN, RunnerRaises(w, retryable) PROVE PaidInv'
    <3>1. worker[w].job \in Paid
            => FailureClass(worker[w].job, retryable) \in {"deterministic", "ambiguous"}
      BY DEF FailureClass
    <3>2. \A v \in Workers \ {w} : worker'[v] = worker[v]
      BY <2>9 DEF RunnerRaises, FenceInv, TypeOK
    <3>3. \/ worker'[w].pc = "idle"
          \/ /\ worker'[w].job = worker[w].job
             /\ worker'[w].class = FailureClass(worker[w].job, retryable)
      BY <2>9 DEF RunnerRaises, FenceInv, TypeOK, Attempt, NoAttempt
    <3> QED
      BY <2>6, <2>9, <3>1, <3>2, <3>3 DEF RunnerRaises, PaidInv
  <2>10. ASSUME worker' = [worker EXCEPT ![w] = NoAttempt]
         PROVE  \A v \in Workers : worker'[v].pc = "failing" /\ worker'[v].job \in Paid
                  => worker'[v].class \in {"deterministic", "ambiguous"}
    BY <2>10 DEF NoAttempt, PaidInv, FenceInv, TypeOK
  <2>11. ASSUME NEW age \in Stamps, Complete(w, age) PROVE PaidInv'
    <3>1. \A k \in Jobs : /\ job'[k].attempts = job[k].attempts
                          /\ job'[k].status \in {job[k].status, "succeeded"}
      BY <1>1, <2>11, SettleFields DEF Complete
    <3> QED
      BY <1>1, <2>10, <2>11, <3>1, PaidKept DEF Complete, PaidInv
  <2>12. ASSUME NEW age \in Stamps, Fail(w, age) PROVE PaidInv'
    <3> DEFINE j == worker[w].job
               row == FailedRow(job[j], worker[w].class, worker[w].tries, age)
    <3>1. j \in Jobs /\ job[j] \in Row
      BY <2>12 DEF Fail, FenceInv, FencesDistinct, TypeOK
    <3>2. row.attempts = job[j].attempts
      BY <3>1 DEF FailedRow, Settle, Row
    <3>3. j \in Paid => row.status = "blocked"
      BY <2>12, <3>1, SettleFields DEF FailedRow, Fail, PaidInv
    <3>4. job' = job \/ job' = [job EXCEPT ![j] = row]
      BY <2>12 DEF Fail
    <3> HIDE DEF row
    <3>5. \A k \in Paid : job'[k].attempts = job[k].attempts /\ job'[k].status # "failed"
      BY <1>1, <3>1, <3>2, <3>3, <3>4 DEF PaidInv
    <3> QED
      BY <2>10, <2>12, <3>5, PaidKept DEF Fail
  <2>13. CASE Crash(w)
    BY <2>6, <2>10, <2>13 DEF Crash
  <2> QED
    BY <1>6, <2>1, <2>2, <2>4, <2>5, <2>7, <2>8, <2>9, <2>11, <2>12, <2>13 DEF WorkerStep
<1>7. ASSUME NEW o \in Operators, OperatorStep(o) PROVE PaidInv'
  <2>1. ASSUME NEW j \in Jobs, CancelCheck(o, j) PROVE PaidInv'
    BY <1>1, <1>2, <2>1, PaidKept DEF CancelCheck, PaidInv
  <2>2. CASE CancelWrite(o)
    <3> DEFINE j == operator[o].job
               row == Settle(job[j], "cancelled", "cancelled_by_operator")
    <3>1. j \in Jobs /\ row \in Row /\ row.attempts = job[j].attempts /\ row.status = "cancelled"
      <4>1. j \in Jobs /\ job[j] \in Row
        BY <1>1, <2>2 DEF CancelWrite, FenceInv, OperatorNamesJob
      <4> QED
        BY <4>1, SettleFields, SettleType DEF Statuses, Actions
    <3>2. job' = [job EXCEPT ![j] = [row EXCEPT !.token = job[j].token + 1]]
      BY <2>2 DEF CancelWrite
    <3> HIDE DEF row
    <3>3. /\ [row EXCEPT !.token = job[j].token + 1].attempts = job[j].attempts
          /\ [row EXCEPT !.token = job[j].token + 1].status = "cancelled"
      BY <3>1 DEF Row
    <3>4. \A k \in Paid : job'[k].attempts = job[k].attempts /\ job'[k].status # "failed"
      BY <1>1, <3>1, <3>2, <3>3 DEF PaidInv
    <3> QED
      BY <1>2, <2>2, <3>4, PaidKept DEF CancelWrite
  <2>3. ASSUME NEW age \in Stamps, RecoverRead(o, age) PROVE PaidInv'
    BY <1>1, <1>2, <2>3, PaidKept DEF RecoverRead, PaidInv
  <2>4. CASE RecoverWrite(o)
    <3>1. \A k \in Paid : job'[k] = job[k] \/ job'[k] = BlockedRow(job[k], TRUE)
      BY <1>1, <2>4 DEF RecoverWrite
    <3>2. \A k \in Paid : job'[k].attempts = job[k].attempts /\ job'[k].status # "failed"
      BY <1>1, <3>1, SettleFields DEF PaidInv, BlockedRow
    <3> QED
      BY <1>2, <2>4, <3>2, PaidKept DEF RecoverWrite
  <2> QED
    BY <1>7, <2>1, <2>2, <2>3, <2>4 DEF OperatorStep
<1>8. CASE UNCHANGED vars
  BY <1>1, <1>2, <1>8, PaidKept DEF vars, PaidInv
<1> QED
  BY <1>3, <1>4, <1>5, <1>6, <1>7, <1>8 DEF Next

(* No request is dispatched before its job is first claimed.               *)
LEMMA PaidInit == Init => PaidInv
BY QueueAssumption DEF Init, PaidInv, NewRow, NoAttempt

(* A paid request is handed to a runner at most once.                      *)
THEOREM PaidDispatchedOnce == Spec => []PaidAtMostOnce
<1>1. PaidInv => PaidAtMostOnce
  BY DEF PaidInv, PaidAtMostOnce
<1>2. FenceInv /\ PaidInv /\ [Next]_vars => FenceInv' /\ PaidInv'
  BY FenceStep, PaidStep
<1> QED
  BY FenceInit, PaidInit, <1>1, <1>2, PTL DEF Spec

-----------------------------------------------------------------------------
(* An amount for each request, and its micro-dollars one by one: the sum   *)
(* of the amounts is the size of this set.                                 *)
Tally == [Requests -> Nat]
Micros(f) == UNION {{r} \X (1 .. f[r]) : r \in Requests}

LEMMA MicrosMember ==
  ASSUME NEW f \in Tally, NEW u
  PROVE  u \in Micros(f) <=> \E r \in Requests : \E k \in 1 .. f[r] : u = <<r, k>>
<1> DEFINE rows == {{r} \X (1 .. f[r]) : r \in Requests}
<1>1. \A r \in Requests : u \in {r} \X (1 .. f[r]) <=> \E k \in 1 .. f[r] : u = <<r, k>>
  OBVIOUS
<1>2. u \in UNION rows <=> \E T \in rows : u \in T
  BY Zenon
<1>3. (\E T \in rows : u \in T) <=> \E r \in Requests : u \in {r} \X (1 .. f[r])
  BY Zenon
<1>4. Micros(f) = UNION rows
  BY DEF Micros
<1> QED  BY <1>1, <1>2, <1>3, <1>4, Zenon

LEMMA MicrosFinite ==
  ASSUME NEW f \in Tally
  PROVE  IsFiniteSet(Micros(f)) /\ SumOf(f) = Cardinality(Micros(f)) /\ SumOf(f) \in Nat
<1> DEFINE rowOf == [r \in Requests |-> {r} \X (1 .. f[r])]
           rows == {{r} \X (1 .. f[r]) : r \in Requests}
<1>1. rowOf \in Surjection(Requests, rows)
  BY Zenon DEF Surjection
<1>2. IsFiniteSet(Requests)
  BY LedgerAssumption
<1>3. IsFiniteSet(rows)
  <2> HIDE DEF rowOf, rows
  <2> QED  BY <1>1, <1>2, FS_Surjection
<1>4. ASSUME NEW r \in Requests
      PROVE  IsFiniteSet({r} \X (1 .. f[r]))
  <2>1. 1 \in Int /\ f[r] \in Int
    BY DEF Tally
  <2>2. IsFiniteSet({r}) /\ IsFiniteSet(1 .. f[r])
    BY <2>1, FS_Singleton, FS_Interval, Zenon
  <2> QED  BY <2>2, FS_Product
<1>5. \A T \in rows : IsFiniteSet(T)
  BY <1>4
<1>6. IsFiniteSet(UNION rows)
  <2> HIDE DEF rows
  <2> QED  BY <1>3, <1>5, FS_UNION
<1> QED  BY <1>6, FS_CardinalityType, Zenon DEF Micros, SumOf

LEMMA SumMonotone ==
  ASSUME NEW f \in Tally, NEW g \in Tally, \A r \in Requests : f[r] <= g[r]
  PROVE  SumOf(f) <= SumOf(g)
<1>1. Micros(f) \in SUBSET Micros(g)
  <2>1. ASSUME NEW u \in Micros(f) PROVE u \in Micros(g)
    <3>0. PICK r \in Requests : \E k \in 1 .. f[r] : u = <<r, k>>
      BY MicrosMember
    <3>1. PICK k \in 1 .. f[r] : u = <<r, k>>
      BY <3>0
    <3>2. k \in 1 .. g[r]
      BY <3>1 DEF Tally
    <3> QED  BY <3>1, <3>2, MicrosMember
  <2> QED  BY <2>1
<1> QED  BY <1>1, MicrosFinite, FS_Subset

(* What f has beyond g fits into h, moved down.                            *)
LEMMA SumSubadditive ==
  ASSUME NEW f \in Tally, NEW g \in Tally, NEW h \in Tally,
         \A r \in Requests : f[r] <= g[r] + h[r]
  PROVE  SumOf(f) <= SumOf(g) + SumOf(h)
<1> DEFINE F == Micros(f)
           G == Micros(g)
           H == Micros(h)
           D == F \ G
           down == [u \in D |-> <<u[1], u[2] - g[u[1]]>>]
<1>1. /\ IsFiniteSet(F) /\ IsFiniteSet(G) /\ IsFiniteSet(H)
      /\ SumOf(f) = Cardinality(F) /\ SumOf(g) = Cardinality(G) /\ SumOf(h) = Cardinality(H)
  BY MicrosFinite
<1>2. ASSUME NEW u \in D
      PROVE  /\ u = <<u[1], u[2]>> /\ u[1] \in Requests /\ u[2] \in Nat
             /\ g[u[1]] \in Nat /\ u[2] > g[u[1]]
             /\ u[2] - g[u[1]] \in 1 .. h[u[1]]
  <2>0. PICK r \in Requests : \E k \in 1 .. f[r] : u = <<r, k>>
    BY MicrosMember
  <2>1. PICK k \in 1 .. f[r] : u = <<r, k>>
    BY <2>0
  <2>2. k \notin 1 .. g[r]
    BY <2>1, MicrosMember
  <2>3. f[r] \in Nat /\ g[r] \in Nat /\ h[r] \in Nat /\ k \in Nat
    BY DEF Tally
  <2>4. k > g[r] /\ k - g[r] \in 1 .. h[r]
    BY <2>2, <2>3
  <2> QED  BY <2>1, <2>3, <2>4
<1>3. down \in Injection(D, H)
  <2>1. ASSUME NEW u \in D PROVE down[u] \in H
    <3>1. down[u] = <<u[1], u[2] - g[u[1]]>>
      OBVIOUS
    <3> HIDE DEF down, D
    <3> QED  BY <1>2, <3>1, MicrosMember
  <2>2. ASSUME NEW u \in D, NEW v \in D, down[u] = down[v] PROVE u = v
    <3>1. <<u[1], u[2] - g[u[1]]>> = <<v[1], v[2] - g[v[1]]>>
      BY <2>2
    <3>2. u[1] = v[1] /\ u[2] - g[u[1]] = v[2] - g[v[1]]
      BY <3>1
    <3> HIDE DEF down, D
    <3>3. u[2] = v[2]
      BY <1>2, <3>2
    <3> QED  BY <1>2, <3>2, <3>3
  <2>3. down \in [D -> H]
    BY <2>1
  <2> HIDE DEF down, D, H
  <2> QED  BY <2>2, <2>3 DEF Injection, IsInjective
<1>4. Cardinality(D) <= Cardinality(H)
  <2> HIDE DEF down, D, H
  <2> QED  BY <1>1, <1>3, FS_Injection
<1>5. Cardinality(D) = Cardinality(F) - Cardinality(F \cap G)
  <2> HIDE DEF F, G
  <2> QED  BY <1>1, FS_Difference
<1>6. Cardinality(F \cap G) <= Cardinality(G)
  <2> HIDE DEF F, G
  <2> QED  BY <1>1, FS_Intersection
<1>7. /\ Cardinality(F) \in Nat /\ Cardinality(G) \in Nat /\ Cardinality(H) \in Nat
      /\ Cardinality(F \cap G) \in Nat
  <2> HIDE DEF F, G, H
  <2> QED  BY <1>1, FS_CardinalityType, FS_Intersection
<1> HIDE DEF D, F, G, H
<1> QED  BY <1>1, <1>4, <1>5, <1>6, <1>7

LEMMA SumOfOne ==
  ASSUME NEW r \in Requests, NEW n \in Nat
  PROVE  SumOf([q \in Requests |-> IF q = r THEN n ELSE 0]) = n
<1> DEFINE f == [q \in Requests |-> IF q = r THEN n ELSE 0]
<1>1. f \in Tally
  BY DEF Tally
<1>2. Micros(f) = {r} \X (1 .. n)
  <2>1. ASSUME NEW u PROVE u \in Micros(f) <=> u \in {r} \X (1 .. n)
    <3>1. u \in Micros(f) <=> \E q \in Requests : \E k \in 1 .. f[q] : u = <<q, k>>
      BY <1>1, MicrosMember
    <3>2. \A q \in Requests : f[q] = IF q = r THEN n ELSE 0
      OBVIOUS
    <3> HIDE DEF f
    <3> QED  BY <3>1, <3>2
  <2> QED  BY <2>1
<1>3. IsFiniteSet({r}) /\ Cardinality({r}) = 1 /\ IsFiniteSet(1 .. n) /\ Cardinality(1 .. n) = n
  <2>1. 1 \in Int /\ n \in Int
    OBVIOUS
  <2>2. IsFiniteSet(1 .. n) /\ Cardinality(1 .. n) = IF 1 > n THEN 0 ELSE n - 1 + 1
    BY <2>1, FS_Interval, Zenon
  <2>3. (IF 1 > n THEN 0 ELSE n - 1 + 1) = n
    OBVIOUS
  <2> QED  BY <2>2, <2>3, FS_Singleton, Zenon
<1>4. Cardinality({r} \X (1 .. n)) = 1 * n
  BY <1>3, FS_Product
<1> HIDE DEF f
<1>5. SumOf(f) = n
  BY <1>1, <1>2, <1>4, MicrosFinite
<1> QED  BY <1>5 DEF f

-----------------------------------------------------------------------------
(* Of what is counted for each request, the part its reservation covers.   *)
Covered == [r \in Requests |-> Counted(ledger[r]) - Excess(ledger[r])]

BudgetInv == SumOf(Covered) <= Budget

LEMMA RowCounts ==
  ASSUME NEW row \in Reservation
  PROVE  /\ Counted(row) \in Nat /\ Excess(row) \in Nat
         /\ Counted(row) - Excess(row) \in Nat
         /\ row.status = "none" => Counted(row) = 0 /\ Excess(row) = 0
BY DEF Reservation, ReservationStates, Counted, Excess

LEMMA LedgerCounts ==
  ASSUME LedgerTypeOK
  PROVE  /\ [r \in Requests |-> Counted(ledger[r])] \in Tally
         /\ [r \in Requests |-> Excess(ledger[r])] \in Tally
         /\ Covered \in Tally
BY RowCounts DEF LedgerTypeOK, Tally, Covered

(* The covered part within the budget is all BudgetRespected asks for.     *)
LEMMA CoveredSuffices ==
  ASSUME LedgerTypeOK, BudgetInv
  PROVE  BudgetRespected
<1> DEFINE counted == [r \in Requests |-> Counted(ledger[r])]
           excess == [r \in Requests |-> Excess(ledger[r])]
<1>1. counted \in Tally /\ excess \in Tally /\ Covered \in Tally
  BY LedgerCounts
<1>2. \A r \in Requests : counted[r] <= Covered[r] + excess[r]
  <2>1. ASSUME NEW r \in Requests
        PROVE  /\ Covered[r] = counted[r] - excess[r]
               /\ counted[r] \in Nat /\ excess[r] \in Nat
    BY <1>1 DEF Covered, Tally
  <2> HIDE DEF counted, excess
  <2> QED  BY <2>1
<1>3. SumOf(counted) <= SumOf(Covered) + SumOf(excess)
  <2> HIDE DEF counted, excess
  <2> QED  BY <1>1, <1>2, SumSubadditive
<1>4. Exposure = SumOf(counted) /\ Overrun = SumOf(excess)
  BY DEF Exposure, Overrun
<1>5. SumOf(counted) \in Nat /\ SumOf(excess) \in Nat /\ SumOf(Covered) \in Nat
  <2> HIDE DEF counted, excess
  <2> QED  BY <1>1, MicrosFinite
<1> HIDE DEF counted, excess
<1> QED  BY <1>3, <1>4, <1>5, LedgerAssumption DEF BudgetRespected, BudgetInv

(* A step that raises the covered part of no request.                      *)
LEMMA NothingRaised ==
  ASSUME LedgerTypeOK, LedgerTypeOK', BudgetInv,
         \A r \in Requests : Covered'[r] <= Covered[r]
  PROVE  BudgetInv'
<1>1. PICK f \in Tally : f = Covered
  BY LedgerCounts
<1>2. PICK g \in Tally : g = Covered'
  <2>1. Covered' \in Tally
    BY RowCounts DEF LedgerTypeOK, Tally, Covered
  <2> QED  BY <2>1
<1>3. SumOf(g) <= SumOf(f)
  BY <1>1, <1>2, SumMonotone
<1>4. SumOf(f) \in Nat /\ SumOf(g) \in Nat
  BY MicrosFinite
<1>5. SumOf(Covered)' = SumOf(g)
  BY <1>2 DEF SumOf
<1> QED  BY <1>1, <1>3, <1>4, <1>5, LedgerAssumption DEF BudgetInv

LEMMA UpdateCovers ==
  ASSUME LedgerTypeOK, LedgerTypeOK', BudgetInv, NEW r \in Requests,
         NEW status \in {"ambiguous", "settled", "released"}, NEW spent \in Nat,
         UpdateReservation(r, status, spent)
  PROVE  BudgetInv'
<1> DEFINE row == [ledger[r] EXCEPT !.status = status, !.spent = spent]
<1>1. ledger[r] \in Reservation /\ ledger[r].status \in {"reserved", "ambiguous"}
  BY DEF LedgerTypeOK, UpdateReservation, Unsettled
<1>2. /\ row.status = status /\ row.spent = spent /\ row.reserved = ledger[r].reserved
      /\ ledger[r].reserved \in Nat
  BY <1>1 DEF Reservation
<1>3. ledger' = [ledger EXCEPT ![r] = row]
  BY DEF UpdateReservation
<1>4. Counted(row) - Excess(row) <= Counted(ledger[r]) - Excess(ledger[r])
  <2> HIDE DEF row
  <2>1. Counted(ledger[r]) = ledger[r].reserved /\ Excess(ledger[r]) = 0
    BY <1>1 DEF Counted, Excess
  <2>2. Counted(row) - Excess(row) <= ledger[r].reserved
    BY <1>2 DEF Counted, Excess
  <2> QED  BY <1>2, <2>1, <2>2
<1> HIDE DEF row
<1>5. \A q \in Requests : Covered'[q] <= Covered[q]
  <2>1. ASSUME NEW q \in Requests PROVE Covered'[q] <= Covered[q]
    <3>1. Covered[q] = Counted(ledger[q]) - Excess(ledger[q]) /\ Covered[q] \in Nat
      BY LedgerCounts DEF Covered, Tally
    <3>2. Covered'[q] = Counted(ledger'[q]) - Excess(ledger'[q])
      BY DEF Covered
    <3>3. ledger'[q] = IF q = r THEN row ELSE ledger[q]
      BY <1>3 DEF LedgerTypeOK
    <3> QED  BY <1>4, <3>1, <3>2, <3>3
  <2> QED  BY <2>1
<1> QED  BY <1>5, NothingRaised

LEMMA ReserveCovers ==
  ASSUME LedgerTypeOK, LedgerTypeOK', BudgetInv, NEW r \in Requests, NEW amount \in Nat,
         Reserve(r, amount)
  PROVE  BudgetInv'
<1> DEFINE one == [q \in Requests |-> IF q = r THEN amount ELSE 0]
           counted == [q \in Requests |-> Counted(ledger[q])]
<1>1. PICK f \in Tally : f = Covered
  BY LedgerCounts
<1>2. PICK g \in Tally : g = Covered'
  <2>1. Covered' \in Tally
    BY RowCounts DEF LedgerTypeOK, Tally, Covered
  <2> QED  BY <2>1
<1>3. one \in Tally /\ SumOf(one) = amount
  BY SumOfOne DEF Tally
<1>4. ASSUME NEW q \in Requests PROVE g[q] <= f[q] + one[q]
  <2>1. g[q] = Counted(ledger'[q]) - Excess(ledger'[q])
    BY <1>2 DEF Covered
  <2>2. f[q] = Counted(ledger[q]) - Excess(ledger[q]) /\ f[q] \in Nat
    BY <1>1 DEF Covered, Tally
  <2>3. CASE q = r
    <3>1. ledger'[q] = [status |-> "reserved", reserved |-> amount, spent |-> 0]
      BY <2>3 DEF Reserve, LedgerTypeOK
    <3>2. g[q] = amount
      BY <2>1, <3>1 DEF Counted, Excess
    <3> QED  BY <2>2, <2>3, <3>2
  <2>4. CASE q # r
    <3>1. ledger'[q] = ledger[q]
      BY <2>4 DEF Reserve, LedgerTypeOK
    <3> QED  BY <2>1, <2>2, <2>4, <3>1
  <2> QED  BY <2>3, <2>4
<1>5. counted \in Tally /\ SumOf(counted) + amount <= Budget
  BY LedgerCounts DEF Reserve, Exposure
<1>6. \A q \in Requests : f[q] <= counted[q]
  <2>1. ASSUME NEW q \in Requests PROVE f[q] <= counted[q]
    <3>1. f[q] = Counted(ledger[q]) - Excess(ledger[q]) /\ counted[q] = Counted(ledger[q])
      BY <1>1 DEF Covered
    <3>2. Counted(ledger[q]) \in Nat /\ Excess(ledger[q]) \in Nat
      BY RowCounts DEF LedgerTypeOK
    <3> QED  BY <3>1, <3>2
  <2> QED  BY <2>1
<1> HIDE DEF one, counted
<1>7. SumOf(g) <= SumOf(f) + amount
  BY <1>3, <1>4, SumSubadditive
<1>8. SumOf(f) <= SumOf(counted)
  BY <1>5, <1>6, SumMonotone
<1>9. SumOf(f) \in Nat /\ SumOf(g) \in Nat /\ SumOf(counted) \in Nat
  BY <1>5, MicrosFinite
<1>10. SumOf(Covered)' = SumOf(g)
  BY <1>2 DEF SumOf
<1> QED  BY <1>5, <1>7, <1>8, <1>9, <1>10, LedgerAssumption DEF BudgetInv

LEMMA LedgerNextCovers ==
  ASSUME LedgerTypeOK, BudgetInv, LedgerNext
  PROVE  BudgetInv'
<1>1. LedgerTypeOK'
  BY LedgerNextType
<1>2. PICK r \in Requests :
        \/ \E amount \in Amounts : Reserve(r, amount)
        \/ MarkCostAmbiguous(r)
        \/ \E spent \in Charges : SettleCost(r, spent)
        \/ ReleaseCost(r)
  BY DEF LedgerNext
<1>3. ledger[r].spent \in Nat /\ Amounts \subseteq Nat /\ Charges \subseteq Nat
  BY LedgerAssumption DEF LedgerTypeOK, Reservation
<1> QED
  BY <1>1, <1>2, <1>3, ReserveCovers, UpdateCovers
     DEF MarkCostAmbiguous, SettleCost, ReleaseCost

(* A flagged reservation still counts in full.                             *)
LEMMA FlaggedCovers ==
  ASSUME LedgerTypeOK, BudgetInv, NEW R, ledger' = Flagged(R)
  PROVE  BudgetInv'
<1>1. LedgerTypeOK'
  BY FlaggedType DEF LedgerTypeOK
<1>2. ASSUME NEW r \in Requests PROVE Covered'[r] <= Covered[r]
  <2>1. ledger[r] \in Reservation
    BY DEF LedgerTypeOK
  <2>2. /\ ledger'[r].reserved = ledger[r].reserved /\ ledger'[r].spent = ledger[r].spent
        /\ \/ ledger'[r].status = ledger[r].status
           \/ ledger[r].status = "reserved" /\ ledger'[r].status = "ambiguous"
    BY <2>1 DEF Flagged, Reservation
  <2>3. Counted(ledger'[r]) = Counted(ledger[r]) /\ Excess(ledger'[r]) = Excess(ledger[r])
    BY <2>2 DEF Counted, Excess
  <2>4. Counted(ledger[r]) - Excess(ledger[r]) \in Nat
    BY <2>1, RowCounts
  <2> QED  BY <2>3, <2>4 DEF Covered
<1> QED  BY <1>1, <1>2, NothingRaised

-----------------------------------------------------------------------------
(* Every step of the queue leaves the ledger alone, is an operation of the *)
(* ledger, or flags the requests of some jobs.                             *)
LEMMA StepOfLedger ==
  ASSUME [Next]_vars
  PROVE  ledger' = ledger \/ LedgerNext \/ \E R : ledger' = Flagged(R)
<1>1. ASSUME NEW S, ledger' = FlagAll(S) PROVE \E R : ledger' = Flagged(R)
  BY <1>1 DEF FlagAll
<1>2. ASSUME NEW w \in Workers, WorkerStep(w) PROVE ledger' = ledger \/ \E R : ledger' = Flagged(R)
  <2>1. ASSUME NEW age \in Stamps, ClaimNext(w, age) PROVE \E S : ledger' = FlagAll(S)
    BY <2>1, Zenon DEF ClaimNext
  <2>2. ASSUME NEW age \in Stamps, Fail(w, age)
        PROVE  ledger' = ledger \/ \E R : ledger' = Flagged(R)
    BY <2>2, Zenon DEF Fail
  <2>3. ASSUME NEW age \in Stamps,
               FindNothing(w, age) \/ \E j \in Jobs : RefusePaid(w, j, age)
        PROVE  \E S : ledger' = FlagAll(S)
    BY <2>3, Zenon DEF FindNothing, RefusePaid
  <2>4. ASSUME NEW age \in Stamps,
               \/ Heartbeat(w, age) \/ HeartbeatRejected(w, age) \/ Complete(w, age)
               \/ \E j \in Jobs : ClaimJob(w, j, age)
        PROVE  ledger' = ledger
    BY <2>4 DEF Heartbeat, HeartbeatRejected, Complete, ClaimJob
  <2>5. ASSUME RunnerReturns(w) \/ Crash(w) \/ \E retryable \in BOOLEAN : RunnerRaises(w, retryable)
        PROVE  ledger' = ledger
    BY <2>5 DEF RunnerReturns, RunnerRaises, Crash
  <2> QED  BY <1>1, <1>2, <2>1, <2>2, <2>3, <2>4, <2>5 DEF WorkerStep
<1>3. ASSUME NEW o \in Operators, OperatorStep(o) PROVE ledger' = ledger \/ \E R : ledger' = Flagged(R)
  BY <1>3, Zenon DEF OperatorStep, CancelCheck, CancelWrite, RecoverRead, RecoverWrite
<1>4. ASSUME Tick \/ \E j \in Jobs : Enqueue(j) \/ Retry(j) PROVE ledger' = ledger
  BY <1>4 DEF Tick, Enqueue, Retry
<1>5. CASE UNCHANGED vars
  BY <1>5 DEF vars
<1> QED  BY <1>2, <1>3, <1>4, <1>5 DEF Next, LedgerStep

LEMMA BudgetStep == FenceInv /\ BudgetInv /\ [Next]_vars => BudgetInv'
<1> SUFFICES ASSUME FenceInv, BudgetInv, [Next]_vars PROVE BudgetInv'
  OBVIOUS
<1>1. LedgerTypeOK
  BY DEF FenceInv, TypeOK
<1>2. ASSUME ledger' = ledger PROVE BudgetInv'
  <2>1. Covered' = Covered
    BY <1>2 DEF Covered
  <2> QED  BY <2>1 DEF BudgetInv, SumOf
<1> QED  BY <1>1, <1>2, StepOfLedger, LedgerNextCovers, FlaggedCovers

LEMMA BudgetInit == Init => BudgetInv
<1> SUFFICES ASSUME Init PROVE BudgetInv
  OBVIOUS
<1>1. LedgerTypeOK /\ \A r \in Requests : Covered[r] = 0
  BY DEF Init, LedgerInit, LedgerTypeOK, Reservation, ReservationStates, Covered, Counted, Excess
<1>2. Covered \in Tally
  BY <1>1, LedgerCounts
<1>3. Micros(Covered) = {}
  <2>1. ASSUME NEW u PROVE u \notin Micros(Covered)
    BY <1>1, <1>2, MicrosMember
  <2> QED  BY <2>1
<1>4. SumOf(Covered) = 0
  BY <1>2, <1>3, MicrosFinite, FS_EmptySet
<1> QED  BY <1>4, LedgerAssumption DEF BudgetInv

(* However reservations, settlements, releases and the flags of failing,   *)
(* refused and recovered jobs interleave, the exposure passes the budget   *)
(* by no more than what charges exceeded their own reservations            *)
(* (reserve_cost).                                                         *)
THEOREM BudgetKept == Spec => []BudgetRespected
<1>1. FenceInv /\ BudgetInv => BudgetRespected
  BY CoveredSuffices DEF FenceInv, TypeOK
<1> QED  BY FenceInit, FenceStep, BudgetInit, BudgetStep, <1>1, PTL DEF Spec

-----------------------------------------------------------------------------
IsClosed(r) == ledger[r].status \notin {"none", "reserved"}

FlagInv ==
  /\ \A j \in Paid : job[j].action = "reconcile_paid_request" /\ RequestOf[j] # NoRequest
       => IsClosed(RequestOf[j])
  /\ \A j \in Paid : job[j].attempts > 0
       => RequestOf[j] \in Requests /\ ledger[RequestOf[j]].status # "none"
  /\ \A j \in Paid : job[j].status = "running" => job[j].attempts > 0
  /\ \A o \in Operators : operator[o].pc = "recovering"
       => \A j \in operator[o].expired \intersect Paid : job[j].attempts > 0

(* A row of the ledger never disappears, and once closed or flagged it     *)
(* never is a plain reservation again.                                     *)
LedgerAdvances ==
  \A r \in Requests :
    /\ ledger[r].status # "none" => ledger'[r].status # "none"
    /\ IsClosed(r) => IsClosed(r)'

LEMMA SameLedgerAdvances == ledger' = ledger => LedgerAdvances
BY DEF LedgerAdvances, IsClosed

(* One row that moves on from "none", or to a state past "reserved".       *)
LEMMA StatusChangeAdvances ==
  ASSUME NEW r \in Requests, NEW status, status # "none",
         ledger[r].status = "none" \/ status # "reserved",
         \A q \in Requests :
           ledger'[q].status = IF q = r THEN status ELSE ledger[q].status
  PROVE  LedgerAdvances
BY DEF LedgerAdvances, IsClosed

LEMMA UpdateAdvances ==
  ASSUME LedgerTypeOK, NEW r \in Requests,
         NEW status \in {"ambiguous", "settled", "released"}, NEW spent,
         UpdateReservation(r, status, spent)
  PROVE  LedgerAdvances
<1> DEFINE row == [ledger[r] EXCEPT !.status = status, !.spent = spent]
<1>1. ledger' = [ledger EXCEPT ![r] = row] /\ row.status = status
  BY DEF UpdateReservation, LedgerTypeOK, Reservation
<1> HIDE DEF row
<1>2. \A q \in Requests :
        ledger'[q].status = IF q = r THEN status ELSE ledger[q].status
  BY <1>1 DEF LedgerTypeOK
<1> QED
  BY <1>2, StatusChangeAdvances

(* The operations of the ledger only advance it.                           *)
LEMMA LedgerNextAdvances ==
  ASSUME LedgerTypeOK, LedgerNext
  PROVE  LedgerAdvances
<1>1. PICK r \in Requests :
        \/ \E amount \in Amounts : Reserve(r, amount)
        \/ MarkCostAmbiguous(r)
        \/ \E spent \in Charges : SettleCost(r, spent)
        \/ ReleaseCost(r)
  BY DEF LedgerNext
<1>2. CASE \E amount \in Amounts : Reserve(r, amount)
  <2>1. /\ ledger[r].status = "none"
        /\ \A q \in Requests :
             ledger'[q].status = IF q = r THEN "reserved" ELSE ledger[q].status
    BY <1>2 DEF Reserve, LedgerTypeOK
  <2> QED
    BY <2>1, StatusChangeAdvances
<1>3. CASE MarkCostAmbiguous(r)
  BY <1>3, UpdateAdvances DEF MarkCostAmbiguous
<1>4. CASE \E spent \in Charges : SettleCost(r, spent)
  BY <1>4, UpdateAdvances DEF SettleCost
<1>5. CASE ReleaseCost(r)
  BY <1>5, UpdateAdvances DEF ReleaseCost
<1> QED
  BY <1>1, <1>2, <1>3, <1>4, <1>5

(* Flagging closes every row of R that is there.                           *)
LEMMA FlaggedAdvances ==
  ASSUME LedgerTypeOK, NEW R, ledger' = Flagged(R)
  PROVE  /\ LedgerAdvances
         /\ \A r \in Requests \intersect R : ledger[r].status # "none" => IsClosed(r)'
<1>1. \A r \in Requests :
        ledger'[r].status = IF r \in R /\ ledger[r].status = "reserved"
                            THEN "ambiguous" ELSE ledger[r].status
  BY DEF Flagged, LedgerTypeOK, Reservation
<1> QED
  BY <1>1 DEF LedgerAdvances, IsClosed

(* What a step has to show of the paid jobs and of the operators.          *)
LEMMA FlagKept ==
  ASSUME FlagInv, LedgerAdvances,
         \A j \in Paid :
           /\ job'[j].action = "reconcile_paid_request" /\ RequestOf[j] # NoRequest
                => job[j].action = "reconcile_paid_request" \/ IsClosed(RequestOf[j])'
           /\ job'[j].status = "running" => job[j].status = "running" \/ job'[j].attempts > 0
           /\ job'[j].attempts > 0
                => \/ job[j].attempts > 0
                   \/ RequestOf[j] \in Requests /\ ledger[RequestOf[j]].status # "none"
           /\ job[j].attempts > 0 => job'[j].attempts > 0,
         \A o \in Operators : operator'[o].pc = "recovering"
           => \A j \in operator'[o].expired \intersect Paid : job[j].attempts > 0
  PROVE  FlagInv'
<1>1. \A j \in Paid : RequestOf[j] # NoRequest => RequestOf[j] \in Requests
  BY QueueAssumption
<1>2. ASSUME NEW j \in Paid, job'[j].action = "reconcile_paid_request", RequestOf[j] # NoRequest
      PROVE  IsClosed(RequestOf[j])'
  BY <1>1, <1>2 DEF FlagInv, LedgerAdvances
<1>3. ASSUME NEW j \in Paid, job'[j].attempts > 0
      PROVE  RequestOf[j] \in Requests /\ ledger'[RequestOf[j]].status # "none"
  BY <1>3 DEF FlagInv, LedgerAdvances
<1>4. ASSUME NEW j \in Paid, job'[j].status = "running"
      PROVE  job'[j].attempts > 0
  BY <1>4 DEF FlagInv
<1>5. ASSUME NEW o \in Operators, operator'[o].pc = "recovering",
             NEW j \in operator'[o].expired \intersect Paid
      PROVE  job'[j].attempts > 0
  BY <1>5
<1> QED
  BY <1>2, <1>3, <1>4, <1>5 DEF FlagInv

(* Operators who are not touched keep their part of the invariant.         *)
LEMMA OperatorsKept ==
  ASSUME FlagInv, operator' = operator
  PROVE  \A o \in Operators : operator'[o].pc = "recovering"
           => \A j \in operator'[o].expired \intersect Paid : job[j].attempts > 0
BY DEF FlagInv

(* A step that leaves the paid jobs as they are, but for a status or an    *)
(* action that asks for nothing, and advances the ledger.                  *)
LEMMA QuietStep ==
  ASSUME FlagInv, LedgerAdvances, operator' = operator,
         \A j \in Paid : /\ job'[j].attempts = job[j].attempts
                         /\ job'[j].action \in {job[j].action} \union (Actions \ {"reconcile_paid_request"})
                         /\ job'[j].status = "running" => job[j].status = "running"
  PROVE  FlagInv'
BY OperatorsKept, FlagKept DEF FlagInv

(* The rows BlockAll blocks for reconciliation are those FlagAll flags.    *)
LEMMA BlockAllFlags ==
  ASSUME FenceInv, FlagInv, NEW S \in SUBSET Jobs, ledger' = FlagAll(S)
  PROVE  /\ LedgerAdvances
         /\ \A j \in Paid :
              /\ BlockAll(S)[j].attempts = job[j].attempts
              /\ BlockAll(S)[j].status = "running" => job[j].status = "running"
              /\ BlockAll(S)[j].action = "reconcile_paid_request" /\ RequestOf[j] # NoRequest
                   => job[j].action = "reconcile_paid_request" \/ IsClosed(RequestOf[j])'
<1> DEFINE R == RequestsOf({j \in S : ChargeUnknown(job[j])})
<1>1. LedgerTypeOK /\ job \in [Jobs -> Row] /\ Paid \subseteq Jobs
  BY QueueAssumption DEF FenceInv, TypeOK
<1>2. /\ LedgerAdvances
      /\ \A r \in Requests \intersect R : ledger[r].status # "none" => IsClosed(r)'
  BY <1>1, FlaggedAdvances DEF FlagAll
<1>3. ASSUME NEW j \in Paid
      PROVE  /\ BlockAll(S)[j].attempts = job[j].attempts
             /\ BlockAll(S)[j].status = "running" => job[j].status = "running"
  BY <1>1, BlockAllFields
<1>4. ASSUME NEW j \in Paid, BlockAll(S)[j].action = "reconcile_paid_request",
             RequestOf[j] # NoRequest
      PROVE  job[j].action = "reconcile_paid_request" \/ IsClosed(RequestOf[j])'
  <2>1. CASE j \notin S
    BY <1>1, <1>4, <2>1 DEF BlockAll
  <2>2. CASE j \in S
    <3>1. BlockAll(S)[j] = BlockedRow(job[j], ChargeUnknown(job[j]))
      BY <1>1, <2>2 DEF BlockAll
    <3>2. ChargeUnknown(job[j])
      BY <1>1, <1>4, <3>1 DEF BlockedRow, Settle, Row
    <3>3. job[j].attempts > 0
      BY <3>2 DEF ChargeUnknown, FlagInv
    <3>4. RequestOf[j] \in R
      BY <1>4, <2>2, <3>2 DEF RequestsOf
    <3>5. RequestOf[j] \in Requests /\ ledger[RequestOf[j]].status # "none"
      BY <3>3 DEF FlagInv
    <3> QED
      BY <1>2, <3>4, <3>5
  <2> QED
    BY <2>1, <2>2
<1> QED
  BY <1>2, <1>3, <1>4

-----------------------------------------------------------------------------
LEMMA ClaimNextFlags ==
  ASSUME FenceInv, FlagInv, NEW w \in Workers, NEW age \in Stamps, ClaimNext(w, age)
  PROVE  FlagInv'
<1>1. PICK j \in Jobs, S \in SUBSET Jobs, action \in {"reclaimed_expired_lease", "none"} :
        /\ job' = [BlockAll(S) EXCEPT ![j] = ClaimedRow(w, job[j], action, age)]
        /\ ledger' = FlagAll(S)
        /\ j \in Paid => Dispatchable(j)
  BY DEF ClaimNext, Eligible, Undispatchable
<1>2. job \in [Jobs -> Row] /\ Paid \subseteq Jobs
  BY QueueAssumption DEF FenceInv, TypeOK
<1>3. DOMAIN BlockAll(S) = Jobs
  BY DEF BlockAll
<1>4. /\ ClaimedRow(w, job[j], action, age).attempts = job[j].attempts + 1
      /\ ClaimedRow(w, job[j], action, age).action = action
  BY <1>2 DEF ClaimedRow, Row
<1>5. job'[j].attempts = job[j].attempts + 1 /\ job'[j].action = action /\ job[j].attempts \in Nat
  BY <1>1, <1>2, <1>3, <1>4 DEF Row
<1>6. \A k \in Paid \ {j} : job'[k] = BlockAll(S)[k]
  BY <1>1, <1>2, <1>3
<1>7. j \in Paid => RequestOf[j] \in Requests /\ ledger[RequestOf[j]].status # "none"
  BY <1>1, QueueAssumption DEF Dispatchable
<1>8. ASSUME NEW k \in Paid
      PROVE  /\ job'[k].action = "reconcile_paid_request" /\ RequestOf[k] # NoRequest
                  => job[k].action = "reconcile_paid_request" \/ IsClosed(RequestOf[k])'
             /\ job'[k].status = "running" => job[k].status = "running" \/ job'[k].attempts > 0
             /\ job'[k].attempts > 0
                  => \/ job[k].attempts > 0
                     \/ RequestOf[k] \in Requests /\ ledger[RequestOf[k]].status # "none"
             /\ job[k].attempts > 0 => job'[k].attempts > 0
  <2>1. CASE k = j
    BY <1>1, <1>5, <1>7, <2>1
  <2>2. CASE k # j
    BY <1>1, <1>6, <2>2, BlockAllFlags
  <2> QED
    BY <2>1, <2>2
<1>9. operator' = operator /\ LedgerAdvances
  BY <1>1, BlockAllFlags DEF ClaimNext
<1> QED
  BY <1>8, <1>9, OperatorsKept, FlagKept

LEMMA ClaimJobFlags ==
  ASSUME FenceInv, FlagInv, NEW w \in Workers, NEW j \in Jobs, NEW age \in Stamps,
         ClaimJob(w, j, age)
  PROVE  FlagInv'
<1>1. PICK action \in {"reclaimed_expired_lease", job[j].action} :
        job' = [job EXCEPT ![j] = ClaimedRow(w, job[j], action, age)]
  BY DEF ClaimJob
<1>2. job \in [Jobs -> Row] /\ Paid \subseteq Jobs
  BY QueueAssumption DEF FenceInv, TypeOK
<1>3. /\ ClaimedRow(w, job[j], action, age).attempts = job[j].attempts + 1
      /\ ClaimedRow(w, job[j], action, age).action = action
  BY <1>2 DEF ClaimedRow, Row
<1>4. job'[j].attempts = job[j].attempts + 1 /\ job'[j].action = action /\ job[j].attempts \in Nat
  BY <1>1, <1>2, <1>3 DEF Row
<1>5. \A k \in Paid \ {j} : job'[k] = job[k]
  BY <1>1, <1>2
<1>6. j \in Paid => RequestOf[j] \in Requests /\ ledger[RequestOf[j]].status # "none"
  BY QueueAssumption DEF Dispatchable, ClaimJob
<1>7. operator' = operator /\ LedgerAdvances
  BY SameLedgerAdvances DEF ClaimJob
<1>8. \A k \in Paid :
        /\ job'[k].action = "reconcile_paid_request" => job[k].action = "reconcile_paid_request"
        /\ job'[k].status = "running" => job[k].status = "running" \/ job'[k].attempts > 0
        /\ job'[k].attempts > 0
             => \/ job[k].attempts > 0
                \/ RequestOf[k] \in Requests /\ ledger[RequestOf[k]].status # "none"
        /\ job[k].attempts > 0 => job'[k].attempts > 0
  BY <1>1, <1>4, <1>5, <1>6
<1> QED
  BY <1>7, <1>8, OperatorsKept, FlagKept

(* Nothing claimable: every eligible paid job is blocked and flagged.      *)
LEMMA RefusalFlags ==
  ASSUME FenceInv, FlagInv, NEW S \in SUBSET Jobs,
         job' = BlockAll(S), ledger' = FlagAll(S), operator' = operator
  PROVE  FlagInv'
BY BlockAllFlags, OperatorsKept, FlagKept

LEMMA FailFlags ==
  ASSUME FenceInv, FlagInv, NEW w \in Workers, NEW age \in Stamps, Fail(w, age)
  PROVE  FlagInv'
<1> DEFINE j == worker[w].job
           row == FailedRow(job[j], worker[w].class, worker[w].tries, age)
<1>1. job \in [Jobs -> Row] /\ Paid \subseteq Jobs /\ LedgerTypeOK /\ operator' = operator
  BY QueueAssumption DEF FenceInv, TypeOK, Fail
<1>2. j \in Jobs /\ job[j] \in Row
  BY DEF Fail, FenceInv, FencesDistinct, TypeOK
<1>3. CASE ~Fenced(w, j)
  BY <1>1, <1>3, QuietStep, SameLedgerAdvances DEF Fail
<1>4. CASE Fenced(w, j)
  <2>1. /\ job' = [job EXCEPT ![j] = row]
        /\ ledger' = IF worker[w].class = "ambiguous" THEN Flagged(RequestsOf({j})) ELSE ledger
    BY <1>4 DEF Fail
  <2>2. /\ row.attempts = job[j].attempts
        /\ row.status # "running"
        /\ row.action = "reconcile_paid_request" => worker[w].class = "ambiguous"
    BY <1>2 DEF FailedRow, Settle, Row
  <2>3. /\ LedgerAdvances
        /\ worker[w].class = "ambiguous" =>
             \A r \in Requests \intersect RequestsOf({j}) :
               ledger[r].status # "none" => IsClosed(r)'
    BY <1>1, <2>1, FlaggedAdvances, SameLedgerAdvances
  <2>4. job[j].status = "running"
    BY <1>4 DEF Fenced
  <2> HIDE DEF row
  <2>5. job'[j] = row /\ \A k \in Paid \ {j} : job'[k] = job[k]
    BY <1>1, <1>2, <2>1
  <2>6. ASSUME NEW k \in Paid, k = j,
               row.action = "reconcile_paid_request", RequestOf[k] # NoRequest
        PROVE  IsClosed(RequestOf[k])'
    <3>1. RequestOf[k] \in Requests /\ ledger[RequestOf[k]].status # "none"
      BY <2>4, <2>6 DEF FlagInv
    <3>2. RequestOf[k] \in RequestsOf({j})
      BY <2>6 DEF RequestsOf
    <3> QED
      BY <2>2, <2>3, <2>6, <3>1, <3>2
  <2>7. \A k \in Paid :
          /\ job'[k].action = "reconcile_paid_request" /\ RequestOf[k] # NoRequest
               => job[k].action = "reconcile_paid_request" \/ IsClosed(RequestOf[k])'
          /\ job'[k].status = "running" => job[k].status = "running"
          /\ job'[k].attempts = job[k].attempts
    <3>1. \A k \in Paid \ {j} : job'[k] = job[k]
      BY <2>5
    <3>2. CASE j \in Paid
      BY <1>2, <2>2, <2>5, <2>6, <3>1, <3>2
    <3>3. CASE j \notin Paid
      BY <3>1, <3>3
    <3> QED
      BY <3>2, <3>3
  <2> QED
    BY <1>1, <2>3, <2>7, OperatorsKept, FlagKept
<1> QED
  BY <1>3, <1>4

LEMMA RecoverWriteFlags ==
  ASSUME FenceInv, FlagInv, NEW o \in Operators, RecoverWrite(o)
  PROVE  FlagInv'
<1> DEFINE read == operator[o].expired
<1>1. /\ job \in [Jobs -> Row] /\ Paid \subseteq Jobs /\ LedgerTypeOK
      /\ operator \in [Operators -> Command]
  BY QueueAssumption DEF FenceInv, TypeOK
<1>2. ledger' = Flagged(RequestsOf(read \intersect Paid))
  BY DEF RecoverWrite
<1>3. /\ LedgerAdvances
      /\ \A r \in Requests \intersect RequestsOf(read \intersect Paid) :
           ledger[r].status # "none" => IsClosed(r)'
  BY <1>1, <1>2, FlaggedAdvances
<1>4. \A k \in Paid : job'[k] = IF k \in read THEN BlockedRow(job[k], TRUE) ELSE job[k]
  BY <1>1 DEF RecoverWrite
<1>5. \A k \in Paid : job'[k].attempts = job[k].attempts
                      /\ (job'[k].status = "running" => job[k].status = "running")
  BY <1>1, <1>4, SettleFields DEF BlockedRow
<1>6. ASSUME NEW k \in Paid, job'[k].action = "reconcile_paid_request", RequestOf[k] # NoRequest
      PROVE  job[k].action = "reconcile_paid_request" \/ IsClosed(RequestOf[k])'
  <2>1. CASE k \notin read
    BY <1>4, <1>6, <2>1
  <2>2. CASE k \in read
    <3>1. job[k].attempts > 0
      BY <2>2 DEF FlagInv, RecoverWrite
    <3>2. RequestOf[k] \in Requests /\ ledger[RequestOf[k]].status # "none"
      BY <3>1 DEF FlagInv
    <3>3. RequestOf[k] \in RequestsOf(read \intersect Paid)
      BY <1>6, <2>2 DEF RequestsOf
    <3> QED
      BY <1>3, <3>2, <3>3
  <2> QED
    BY <2>1, <2>2
<1>7. \A p \in Operators : operator'[p].pc = "recovering"
        => \A k \in operator'[p].expired \intersect Paid : job[k].attempts > 0
  BY <1>1 DEF RecoverWrite, Idle, FlagInv
<1> QED
  BY <1>3, <1>5, <1>6, <1>7, FlagKept

(* A recovery reads running jobs, which have been claimed.                 *)
LEMMA RecoverReadFlags ==
  ASSUME FenceInv, FlagInv, NEW o \in Operators, NEW age \in Stamps, RecoverRead(o, age)
  PROVE  FlagInv'
<1>1. operator \in [Operators -> Command] /\ job' = job /\ ledger' = ledger
  BY DEF FenceInv, TypeOK, RecoverRead
<1>2. \A p \in Operators : operator'[p].pc = "recovering"
        => \A k \in operator'[p].expired \intersect Paid : job[k].attempts > 0
  BY <1>1 DEF RecoverRead, Idle, FlagInv
<1> QED
  BY <1>1, <1>2, SameLedgerAdvances, FlagKept

LEMMA CancelFlags ==
  ASSUME FenceInv, FlagInv, NEW o \in Operators,
         (\E j \in Jobs : CancelCheck(o, j)) \/ CancelWrite(o)
  PROVE  FlagInv'
<1>1. /\ operator \in [Operators -> Command] /\ job \in [Jobs -> Row] /\ Paid \subseteq Jobs
      /\ ledger' = ledger
  BY QueueAssumption DEF FenceInv, TypeOK, CancelCheck, CancelWrite
<1>2. \A p \in Operators : operator'[p].pc = "recovering"
        => \A k \in operator'[p].expired \intersect Paid : job[k].attempts > 0
  <2>1. \A p \in Operators :
          operator'[p].pc = "recovering" => operator'[p] = operator[p]
    <3>1. CASE \E j \in Jobs : CancelCheck(o, j)
      BY <1>1, <3>1 DEF CancelCheck, Idle
    <3>2. CASE CancelWrite(o)
      BY <1>1, <3>2 DEF CancelWrite, Idle
    <3> QED
      BY <3>1, <3>2
  <2> QED
    BY <2>1 DEF FlagInv
<1>3. CASE \E j \in Jobs : CancelCheck(o, j)
  BY <1>1, <1>2, <1>3, SameLedgerAdvances, FlagKept DEF CancelCheck
<1>4. CASE CancelWrite(o)
  <2> DEFINE j == operator[o].job
             row == [Settle(job[j], "cancelled", "cancelled_by_operator")
                       EXCEPT !.token = job[j].token + 1]
  <2>1. j \in Jobs
    BY <1>4 DEF CancelWrite, FenceInv, OperatorNamesJob
  <2>2. /\ row.attempts = job[j].attempts /\ row.status = "cancelled"
        /\ row.action = "cancelled_by_operator"
    BY <1>1, <2>1 DEF Settle, Row
  <2>3. job' = [job EXCEPT ![j] = row]
    BY <1>4 DEF CancelWrite
  <2> HIDE DEF row
  <2>4. \A k \in Paid : job'[k] = IF k = j THEN row ELSE job[k]
    BY <1>1, <2>1, <2>3
  <2> QED
    BY <1>1, <1>2, <2>2, <2>4, SameLedgerAdvances, FlagKept
<1> QED
  BY <1>3, <1>4

(* The steps of a worker that write neither a claim nor a failure.         *)
LEMMA WorkerQuietFlags ==
  ASSUME FenceInv, FlagInv, NEW w \in Workers,
         \/ \E age \in Stamps :
              Heartbeat(w, age) \/ HeartbeatRejected(w, age) \/ Complete(w, age)
         \/ RunnerReturns(w)
         \/ \E retryable \in BOOLEAN : RunnerRaises(w, retryable)
         \/ Crash(w)
  PROVE  FlagInv'
<1>1. job \in [Jobs -> Row] /\ Paid \subseteq Jobs
  BY QueueAssumption DEF FenceInv, TypeOK
<1>2. ledger' = ledger /\ operator' = operator
  BY DEF Heartbeat, HeartbeatRejected, Complete, RunnerReturns, RunnerRaises, Crash
<1>3. LedgerAdvances
  BY <1>2, SameLedgerAdvances
<1>4. CASE job' = job
  BY <1>2, <1>3, <1>4, QuietStep
<1>5. ASSUME NEW age \in Stamps, Heartbeat(w, age) PROVE FlagInv'
  <2>1. \A k \in Jobs : /\ job'[k].attempts = job[k].attempts
                        /\ job'[k].status = job[k].status
                        /\ job'[k].action = job[k].action
    BY <1>1, <1>5 DEF Heartbeat, Row
  <2> QED
    BY <1>1, <1>2, <1>3, <2>1, QuietStep
<1>6. ASSUME NEW age \in Stamps, Complete(w, age) PROVE FlagInv'
  <2>1. \A k \in Jobs : \/ job'[k] = job[k]
                        \/ /\ job'[k].attempts = job[k].attempts
                           /\ job'[k].status = "succeeded" /\ job'[k].action = "none"
    BY <1>1, <1>6 DEF Complete, Settle, Row
  <2> QED
    BY <1>1, <1>2, <1>3, <2>1, QuietStep DEF Actions
<1> QED
  BY <1>4, <1>5, <1>6 DEF HeartbeatRejected, RunnerReturns, RunnerRaises, Crash

LEMMA FlagStep ==
  ASSUME FenceInv, PaidInv, FlagInv, [Next]_vars
  PROVE  FlagInv'
<1>1. job \in [Jobs -> Row] /\ Paid \subseteq Jobs /\ LedgerTypeOK
  BY QueueAssumption DEF FenceInv, TypeOK
<1>2. CASE Tick
  <2>1. \A k \in Jobs : /\ job'[k].attempts = job[k].attempts
                        /\ job'[k].status = job[k].status
                        /\ job'[k].action = job[k].action
    BY <1>1, <1>2 DEF Tick, Row
  <2> QED
    BY <1>1, <1>2, <2>1, SameLedgerAdvances, QuietStep DEF Tick
<1>3. ASSUME NEW j \in Jobs, Enqueue(j) \/ Retry(j) PROVE FlagInv'
  <2>1. CASE Enqueue(j)
    <3>1. \A k \in Jobs : /\ job'[k].attempts = job[k].attempts
                          /\ job'[k].status \in {job[k].status, "queued"}
                          /\ job'[k].action = job[k].action
      BY <1>1, <2>1 DEF Enqueue, Row
    <3> QED
      BY <1>1, <2>1, <3>1, SameLedgerAdvances, QuietStep DEF Enqueue
  <2>2. CASE Retry(j)
    <3>1. \A k \in Paid : job'[k] = job[k]
      BY <1>1, <2>2 DEF Retry, PaidInv
    <3> QED
      BY <2>2, <3>1, SameLedgerAdvances, QuietStep DEF Retry
  <2> QED
    BY <1>3, <2>1, <2>2
<1>4. CASE LedgerStep
  BY <1>1, <1>4, LedgerNextAdvances, QuietStep DEF LedgerStep
<1>5. ASSUME NEW w \in Workers, WorkerStep(w) PROVE FlagInv'
  <2>1. ASSUME NEW age \in Stamps, FindNothing(w, age) PROVE FlagInv'
    BY <2>1, RefusalFlags DEF FindNothing, Eligible
  <2>2. ASSUME NEW age \in Stamps, NEW j \in Jobs, RefusePaid(w, j, age) PROVE FlagInv'
    BY <2>2, RefusalFlags DEF RefusePaid
  <2> QED
    BY <1>5, <2>1, <2>2, ClaimNextFlags, ClaimJobFlags, FailFlags, WorkerQuietFlags
       DEF WorkerStep
<1>6. ASSUME NEW o \in Operators, OperatorStep(o) PROVE FlagInv'
  BY <1>6, CancelFlags, RecoverReadFlags, RecoverWriteFlags DEF OperatorStep
<1>7. CASE UNCHANGED vars
  BY <1>7, SameLedgerAdvances, QuietStep DEF vars
<1> QED
  BY <1>2, <1>3, <1>4, <1>5, <1>6, <1>7 DEF Next

(* Nothing is blocked before it is claimed.                                *)
LEMMA FlagInit == Init => FlagInv
BY QueueAssumption DEF Init, FlagInv, NewRow, Idle

(* A paid request that was sent and whose job was blocked for              *)
(* reconciliation is never left as a plain reservation                     *)
(* (_block_paid_attempt, fail_job, recover_expired_leases).                *)
THEOREM UnknownChargesFlagged == Spec => []UnknownChargeFlagged
<1>1. FlagInv => UnknownChargeFlagged
  BY DEF FlagInv, UnknownChargeFlagged, IsClosed
<1>2. FenceInv /\ PaidInv /\ FlagInv /\ [Next]_vars => FenceInv' /\ PaidInv' /\ FlagInv'
  BY FenceStep, PaidStep, FlagStep
<1> QED
  BY FenceInit, PaidInit, FlagInit, <1>1, <1>2, PTL DEF Spec
===============================================================================
