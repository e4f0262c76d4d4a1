------------------------ MODULE ChunkDispatchProofs ------------------------
(***************************************************************************)
(* What ChunkDispatch promises of every set of dispatches and every number *)
(* of overlapping runs.                                                    *)
(*                                                                         *)
(* The invariant relates what a run has behind it, by its position in      *)
(* _run_dispatch, to what is stored for the dispatch it works on.  It      *)
(* survives the steps of the other runs because nothing that a run relies  *)
(* on is ever taken back (Grows), whoever holds the lease.                 *)
(***************************************************************************)
EXTENDS ChunkDispatch, WellFoundedInduction, TLAPS

(* The record q fits the process o: it stands in its list, holds what its  *)
(* next write needs, and has the earlier writes of its attempt behind it.  *)
Fits(o, q) ==
  /\ q.at \in DOMAIN Order[o]
  /\ q.pc \in {"publish", "move", "record", "recorded"} =>
       q.response # None /\ q.audio # None
  /\ q.pc \in {"record", "recorded", "complete"} => raw[Order[o][q.at]] # None
  /\ q.pc = "complete" => hyp[Order[o][q.at]] # None
  /\ q.pc = "fail" => row[Order[o][q.at]].error \/ hyp[Order[o][q.at]] # None

(* What is stored for a dispatch agrees with itself.                       *)
RowAgrees(d) ==
  /\ hyp[d] # None => raw[d] # None
  /\ row[d].hyp # None => row[d].hyp = hyp[d]
  /\ row[d].status = "succeeded" =>
       hyp[d] # None /\ row[d].hyp = hyp[d] /\ row[d].audio = hyp[d].audio

JobShows(d) ==
  /\ job[d].status = "succeeded" => hyp[d] # None
  /\ job[d].status \in {"failed", "blocked"} => row[d].error \/ hyp[d] # None

DispatchInv ==
  /\ TypeOK
  /\ \A o \in Orchestrators : Fits(o, run[o])
  /\ \A d \in Dispatches : RowAgrees(d) /\ JobShows(d)

(* What a run may rely on after a step of another one.                     *)
Grows ==
  \A d \in Dispatches :
    /\ raw[d] # None => raw'[d] # None
    /\ hyp[d] # None => hyp'[d] # None
    /\ row[d].error \/ hyp[d] # None => row'[d].error \/ hyp'[d] # None

Kept ==
  \A d \in Dispatches :
    /\ raw[d] # None => raw'[d] = raw[d]
    /\ hyp[d] # None => hyp'[d] = hyp[d]
    /\ row[d].hyp # None => row'[d].hyp = row[d].hyp

-----------------------------------------------------------------------------
(* A set of indices of a sequence has a greatest one.                      *)
LEMMA MaxIsMember ==
  ASSUME NEW n \in Nat, NEW S, S \subseteq 1 .. n, S # {}
  PROVE  Max(S) \in S
<1> DEFINE T == {n - i : i \in S}
<1>1. T \subseteq Nat /\ T # {}
  <2>1. \A i \in S : i \in 1 .. n /\ n - i \in Nat
    OBVIOUS
  <2>2. PICK i \in S : TRUE
    OBVIOUS
  <2>3. n - i \in T
    OBVIOUS
  <2>4. T \subseteq Nat
    BY <2>1
  <2> QED  BY <2>3, <2>4
<1>2. IsWellFoundedOn(OpToRel(<, Nat), Nat)
  BY NatLessThanWellFounded
<1>3. PICK t \in T : \A u \in T : <<u, t>> \notin OpToRel(<, Nat)
  <2> HIDE DEF T
  <2> QED  BY <1>1, <1>2, WFMin
<1>4. \A u \in T : ~(u < t)
  BY <1>1, <1>3 DEF OpToRel
<1>5. PICK i \in S : t = n - i
  OBVIOUS
<1>6. \A j \in S : i >= j
  <2> TAKE j \in S
  <2>1. n - j \in T
    OBVIOUS
  <2> HIDE DEF T
  <2> QED  BY <1>4, <1>5, <2>1
<1> HIDE DEF T
<1> QED  BY <1>6 DEF Max

(* A process in its list moves on to a place in its list, or rests.        *)
LEMMA MovedOnFits ==
  ASSUME NEW o \in Orchestrators, NEW r \in Run, r.at \in DOMAIN Order[o]
  PROVE  /\ MovedOn(o, r) \in Run
         /\ Fits(o, MovedOn(o, r))
         /\ MovedOn(o, r).pc \in {"idle", "visit", "load"}
<1> DEFINE same == ChunkOf[Order[o][r.at + 1]] = ChunkOf[Order[o][r.at]]
           moved == [pc |-> IF same THEN "visit" ELSE "load", at |-> r.at + 1,
                     seen |-> r.seen, audio |-> IF same THEN r.audio ELSE None,
                     token |-> 0, response |-> None, retryable |-> FALSE]
<1>1. Order[o] \in Seq(Dispatches) /\ Len(Order[o]) \in Nat \ {0}
  BY DispatchAssumption
<1>2. Resting \in Run /\ Fits(o, Resting) /\ Resting.pc = "idle"
  BY <1>1 DEF Resting, Run, Steps, Fits
<1>3. CASE r.at = Len(Order[o])
  BY <1>2, <1>3 DEF MovedOn
<1>4. CASE r.at # Len(Order[o])
  <2>1. r.at + 1 \in DOMAIN Order[o]
    BY <1>1, <1>4
  <2>2. MovedOn(o, r) = moved
    BY <1>4 DEF MovedOn, Run
  <2>3. moved \in Run
    BY <1>1, <2>1 DEF Run, Steps
  <2> QED  BY <2>1, <2>2, <2>3 DEF Fits
<1> QED  BY <1>3, <1>4

LEMMA RestingFits ==
  ASSUME NEW o \in Orchestrators
  PROVE  Resting \in Run /\ Fits(o, Resting)
<1>1. Order[o] \in Seq(Dispatches) /\ Len(Order[o]) \in Nat \ {0}
  BY DispatchAssumption
<1> QED  BY <1>1 DEF Resting, Run, Steps, Fits

(* A process works on a dispatch.                                          *)
LEMMA AtDispatch ==
  ASSUME NEW o \in Orchestrators, NEW i \in DOMAIN Order[o]
  PROVE  Order[o][i] \in Dispatches
BY DispatchAssumption

-----------------------------------------------------------------------------
(* A step of the process o that takes nothing back: what the others rely   *)
(* on stays.                                                               *)
LEMMA ProcessStep ==
  ASSUME DispatchInv, NEW o \in Orchestrators, NEW q \in Run,
         run' = [run EXCEPT ![o] = q], Fits(o, q)', Grows,
         job' \in [Dispatches -> Job], row' \in [Dispatches -> DispatchRow],
         raw' \in [Dispatches -> Responses \union {None}],
         hyp' \in [Dispatches -> Hypothesis \union {None}],
         retries' \in [Dispatches -> Nat], crashes' \in Nat,
         \A d \in Dispatches : RowAgrees(d)' /\ JobShows(d)'
  PROVE  DispatchInv'
<1>1. TypeOK'
  BY DEF DispatchInv, TypeOK
<1>2. ASSUME NEW p \in Orchestrators
      PROVE  Fits(p, run[p])'
  <2>1. CASE p = o
    <3>1. run'[p] = q
      BY <2>1 DEF DispatchInv, TypeOK
    <3> QED  BY <2>1, <3>1 DEF Fits
  <2>2. CASE p # o
    <3>1. run'[p] = run[p]
      BY <2>2 DEF DispatchInv, TypeOK
    <3>2. Fits(p, run[p]) /\ Order[p][run[p].at] \in Dispatches
      BY AtDispatch DEF DispatchInv, Fits
    <3> QED  BY <3>1, <3>2 DEF Fits, Grows
  <2> QED  BY <2>1, <2>2
<1> QED  BY <1>1, <1>2 DEF DispatchInv

(* The same for a step that stores nothing.                                *)
LEMMA QuietStep ==
  ASSUME DispatchInv, NEW o \in Orchestrators, NEW q \in Run,
         run' = [run EXCEPT ![o] = q], Fits(o, q),
         UNCHANGED <<row, raw, hyp>>,
         job' \in [Dispatches -> Job], retries' \in [Dispatches -> Nat], crashes' \in Nat,
         \A d \in Dispatches : JobShows(d)'
  PROVE  DispatchInv'
<1>1. Fits(o, q)' /\ Grows
  BY DEF Fits, Grows
<1>2. \A d \in Dispatches : RowAgrees(d)'
  BY DEF DispatchInv, RowAgrees
<1> QED  BY <1>1, <1>2, ProcessStep DEF DispatchInv, TypeOK

(* The same when the jobs stay as they are, too.                           *)
LEMMA MemoryStep ==
  ASSUME DispatchInv, NEW o \in Orchestrators, NEW q \in Run,
         run' = [run EXCEPT ![o] = q], Fits(o, q),
         UNCHANGED <<job, row, raw, hyp, retries>>, crashes' \in Nat
  PROVE  DispatchInv'
<1>1. \A d \in Dispatches : JobShows(d)'
  BY DEF DispatchInv, JobShows
<1> QED  BY <1>1, QuietStep DEF DispatchInv, TypeOK

LEMMA AbortStep ==
  ASSUME DispatchInv, NEW o \in Orchestrators, Abort(o),
         UNCHANGED <<job, row, raw, hyp, retries>>, crashes' \in Nat
  PROVE  DispatchInv'
BY RestingFits, MemoryStep DEF Abort

LEMMA MoveOnStep ==
  ASSUME DispatchInv, NEW o \in Orchestrators, MoveOn(o),
         UNCHANGED <<job, row, raw, hyp, retries>>, crashes' \in Nat
  PROVE  DispatchInv'
<1>1. PICK q : q = MovedOn(o, run[o])
  OBVIOUS
<1>2. q \in Run /\ Fits(o, q)
  BY <1>1, MovedOnFits DEF DispatchInv, TypeOK, Fits
<1>3. run' = [run EXCEPT ![o] = q]
  BY <1>1 DEF MoveOn
<1> QED  BY <1>2, <1>3, MemoryStep

(* GoTo(o, pc) when the record fits at pc.                                 *)
LEMMA GoToStep ==
  ASSUME DispatchInv, NEW o \in Orchestrators, NEW pc \in Steps, GoTo(o, pc),
         Fits(o, [run[o] EXCEPT !.pc = pc]),
         UNCHANGED <<job, row, raw, hyp, retries>>, crashes' \in Nat
  PROVE  DispatchInv'
<1>1. PICK q : q = [run[o] EXCEPT !.pc = pc]
  OBVIOUS
<1>2. q \in Run /\ Fits(o, q)
  BY <1>1 DEF DispatchInv, TypeOK, Run
<1>3. run' = [run EXCEPT ![o] = q]
  BY <1>1 DEF GoTo
<1> QED  BY <1>2, <1>3, MemoryStep

-----------------------------------------------------------------------------
LEMMA InitInv == Init => DispatchInv
<1> SUFFICES ASSUME Init PROVE DispatchInv
  OBVIOUS
<1>1. TypeOK
  BY RestingFits DEF Init, TypeOK, Job, DispatchRow
<1>2. \A o \in Orchestrators : Fits(o, run[o])
  BY RestingFits DEF Init
<1>3. \A d \in Dispatches : RowAgrees(d) /\ JobShows(d)
  BY DEF Init, RowAgrees, JobShows
<1> QED  BY <1>1, <1>2, <1>3 DEF DispatchInv

(* The type of the parts of the invariant that the actions below cite.     *)
LEMMA Standing ==
  ASSUME DispatchInv, NEW o \in Orchestrators
  PROVE  /\ run[o] \in Run
         /\ Fits(o, run[o])
         /\ run[o].at \in DOMAIN Order[o]
         /\ At(o) \in Dispatches
         /\ crashes \in Nat
BY AtDispatch DEF DispatchInv, TypeOK, Fits, At

-----------------------------------------------------------------------------
LEMMA BeginInv ==
  ASSUME DispatchInv, NEW o \in Orchestrators, Begin(o)
  PROVE  DispatchInv'
<1>1. Fits(o, [run[o] EXCEPT !.pc = "ensure"])
  BY Standing DEF Fits, Run
<1> QED  BY <1>1, Standing, GoToStep DEF Begin, Steps

LEMMA EnsureInv ==
  ASSUME DispatchInv, NEW o \in Orchestrators, Ensure(o)
  PROVE  DispatchInv'
<1> DEFINE d == At(o)
           fresh == [row EXCEPT ![d].status = IF @ = "absent" THEN "queued" ELSE @]
           listed == {e \in Dispatches : fresh[e].status = "succeeded"}
<1>1. /\ row' = fresh
      /\ job' = [job EXCEPT ![d].status = IF @ = "absent" THEN "queued" ELSE @]
      /\ UNCHANGED <<raw, hyp, retries, crashes>>
  BY DEF Ensure
<1>2. run[o] \in Run /\ run[o].at \in DOMAIN Order[o] /\ run[o].pc = "ensure" /\ d \in Dispatches
  BY Standing DEF Ensure
<1>3. Order[o] \in Seq(Dispatches) /\ Len(Order[o]) \in Nat \ {0}
  BY DispatchAssumption
<1>4. PICK q \in Run : /\ run' = [run EXCEPT ![o] = q]
                       /\ q.at \in DOMAIN Order[o]
                       /\ q.pc \in {"ensure", "load"}
  <2>0. run' = [run EXCEPT ![o] =
                  IF run[o].at < Len(Order[o]) THEN [run[o] EXCEPT !.at = run[o].at + 1]
                  ELSE [run[o] EXCEPT !.pc = "load", !.at = 1, !.seen = listed]]
    BY DEF Ensure
  <2> HIDE DEF listed
  <2>1. CASE run[o].at < Len(Order[o])
    <3>1. PICK q : q = [run[o] EXCEPT !.at = run[o].at + 1]
      OBVIOUS
    <3>2. q \in Run /\ q.at \in DOMAIN Order[o] /\ q.pc = "ensure"
      BY <1>2, <1>3, <2>1, <3>1 DEF Run
    <3>3. run' = [run EXCEPT ![o] = q]
      BY <2>0, <2>1, <3>1
    <3> QED  BY <3>2, <3>3
  <2>2. CASE ~(run[o].at < Len(Order[o]))
    <3>1. PICK q : q = [run[o] EXCEPT !.pc = "load", !.at = 1, !.seen = listed]
      OBVIOUS
    <3>2. listed \in SUBSET Dispatches
      BY DEF listed
    <3>3. run' = [run EXCEPT ![o] = q]
      BY <2>0, <2>2, <3>1
    <3>4. q \in Run /\ q.at \in DOMAIN Order[o] /\ q.pc = "load"
      <4>1. q = [pc |-> "load", at |-> 1, seen |-> listed, audio |-> run[o].audio,
                 token |-> run[o].token, response |-> run[o].response,
                 retryable |-> run[o].retryable]
        BY <1>2, <3>1 DEF Run
      <4>2. 1 \in DOMAIN Order[o]
        BY <1>3
      <4> QED  BY <1>2, <3>2, <4>1, <4>2 DEF Run, Steps
    <3> QED  BY <3>3, <3>4
  <2> QED  BY <2>1, <2>2
<1>5. Fits(o, q)'
  BY <1>4 DEF Fits
<1>6. \A e \in Dispatches :
        /\ row'[e].error = row[e].error /\ row'[e].hyp = row[e].hyp
        /\ row'[e].audio = row[e].audio
        /\ row'[e].status = "succeeded" => row[e].status = "succeeded"
        /\ job'[e].status \in {"succeeded", "failed", "blocked"} => job'[e].status = job[e].status
  BY <1>1 DEF DispatchInv, TypeOK, DispatchRow, Job
<1>7. row' \in [Dispatches -> DispatchRow]
  BY <1>1, <1>2 DEF DispatchInv, TypeOK, DispatchRow
<1>8. job' \in [Dispatches -> Job]
  BY <1>1, <1>2 DEF DispatchInv, TypeOK, Job
<1>9. Grows
  BY <1>1, <1>6 DEF Grows
<1>10. \A e \in Dispatches : RowAgrees(e)' /\ JobShows(e)'
  BY <1>1, <1>6 DEF DispatchInv, RowAgrees, JobShows
<1> HIDE DEF d, fresh, listed
<1> QED  BY <1>1, <1>4, <1>5, <1>7, <1>8, <1>9, <1>10, ProcessStep DEF DispatchInv, TypeOK

LEMMA LoadAudioInv ==
  ASSUME DispatchInv, NEW o \in Orchestrators, LoadAudio(o)
  PROVE  DispatchInv'
<1> DEFINE own == {i \in DOMAIN Order[o] : ChunkOf[Order[o][i]] = ChunkOf[At(o)]}
           ahead == [run[o] EXCEPT !.at = Max(own)]
<1>1. Max(own) \in DOMAIN Order[o]
  <2>1. Order[o] \in Seq(Dispatches) /\ Len(Order[o]) \in Nat
    BY DispatchAssumption
  <2>2. own \subseteq 1 .. Len(Order[o]) /\ own # {}
    BY <2>1, Standing DEF At
  <2> HIDE DEF own
  <2> QED  BY <2>1, <2>2, MaxIsMember
<1>2. CASE \A i \in own : Order[o][i] \in run[o].seen
  <2>1. PICK r : r = ahead
    OBVIOUS
  <2>2. PICK q : q = MovedOn(o, r)
    OBVIOUS
  <2>3. r \in Run /\ r.at \in DOMAIN Order[o]
    <3>1. DOMAIN Order[o] \subseteq Nat
      BY DispatchAssumption
    <3> HIDE DEF own
    <3> QED  BY <2>1, <1>1, <3>1, Standing DEF Run
  <2>4. q \in Run /\ Fits(o, q)
    BY <2>2, <2>3, MovedOnFits
  <2>5. run' = [run EXCEPT ![o] = q] /\ UNCHANGED <<job, row, raw, hyp, retries, crashes>>
    BY <1>2, <2>1, <2>2 DEF LoadAudio
  <2> QED  BY <2>4, <2>5, Standing, MemoryStep
<1>3. CASE ~ \A i \in own : Order[o][i] \in run[o].seen
  <2>1. PICK a \in Audios \union {None} :
          run' = [run EXCEPT ![o].pc = "visit", ![o].audio = a]
    BY <1>3 DEF LoadAudio
  <2>2. PICK q : q = [run[o] EXCEPT !.pc = "visit", !.audio = a]
    OBVIOUS
  <2>3. q \in Run /\ Fits(o, q)
    BY <2>2, Standing DEF Run, Steps, Fits
  <2>4. run' = [run EXCEPT ![o] = q] /\ UNCHANGED <<job, row, raw, hyp, retries, crashes>>
    BY <2>1, <2>2 DEF LoadAudio
  <2> QED  BY <2>3, <2>4, Standing, MemoryStep
<1> QED  BY <1>2, <1>3

LEMMA VisitInv ==
  ASSUME DispatchInv, NEW o \in Orchestrators, Visit(o)
  PROVE  DispatchInv'
<1> DEFINE d == At(o)
<1>0. d \in Dispatches /\ run[o] \in Run /\ Fits(o, run[o]) /\ crashes \in Nat
  BY Standing
<1>1. CASE /\ d \notin run[o].seen /\ hyp[d] # None
           /\ row[d].hyp \in {None, hyp[d]} /\ row[d].audio \in {None, hyp[d].audio}
  <2>1. /\ row' = [row EXCEPT ![d] = Succeeded(@, hyp[d])]
        /\ GoTo(o, "reread")
        /\ UNCHANGED <<job, raw, hyp, retries, crashes>>
    BY <1>1 DEF Visit
  <2>2. hyp[d] \in Hypothesis
    BY <1>0, <1>1 DEF DispatchInv, TypeOK
  <2>3. PICK w : w = Succeeded(row[d], hyp[d])
    OBVIOUS
  <2>4. /\ w \in DispatchRow /\ w.status = "succeeded" /\ w.hyp = hyp[d]
        /\ w.audio = hyp[d].audio
    BY <1>0, <2>2, <2>3 DEF Succeeded, DispatchInv, TypeOK, DispatchRow, Hypothesis
  <2>5. row' \in [Dispatches -> DispatchRow] /\ row'[d] = w
        /\ \A e \in Dispatches \ {d} : row'[e] = row[e]
    BY <1>0, <2>1, <2>3, <2>4 DEF DispatchInv, TypeOK
  <2>6. \A e \in Dispatches : RowAgrees(e)' /\ JobShows(e)'
    BY <1>0, <1>1, <2>1, <2>4, <2>5 DEF DispatchInv, RowAgrees, JobShows
  <2>7. Grows
    BY <1>0, <1>1, <2>1, <2>5 DEF Grows
  <2>8. PICK q : q = [run[o] EXCEPT !.pc = "reread"]
    OBVIOUS
  <2>9. q \in Run /\ Fits(o, q) /\ q.pc = "reread"
    BY <1>0, <2>8 DEF Run, Steps, Fits
  <2>10. run' = [run EXCEPT ![o] = q]
    BY <2>1, <2>8 DEF GoTo
  <2>11. Fits(o, q)'
    BY <2>9 DEF Fits
  <2> QED
    BY <2>1, <2>5, <2>6, <2>7, <2>9, <2>10, <2>11, ProcessStep DEF DispatchInv, TypeOK
<1>2. CASE /\ d \notin run[o].seen /\ hyp[d] # None
           /\ ~(row[d].hyp \in {None, hyp[d]} /\ row[d].audio \in {None, hyp[d].audio})
  <2>1. Abort(o) /\ UNCHANGED <<job, row, raw, hyp, retries, crashes>>
    BY <1>2 DEF Visit
  <2> QED  BY <1>0, <2>1, AbortStep
<1>3. CASE ~(d \notin run[o].seen /\ hyp[d] # None)
  <2>1. /\ GoTo(o, "reread")
        /\ UNCHANGED <<job, row, raw, hyp, retries, crashes>>
    BY <1>3 DEF Visit
  <2>2. Fits(o, [run[o] EXCEPT !.pc = "reread"])
    BY <1>0 DEF Fits, Run
  <2> QED  BY <1>0, <2>1, <2>2, GoToStep DEF Steps
<1> QED  BY <1>1, <1>2, <1>3

LEMMA RereadInv ==
  ASSUME DispatchInv, NEW o \in Orchestrators, Reread(o)
  PROVE  DispatchInv'
<1>1. /\ MoveOn(o) \/ GoTo(o, "consider")
      /\ UNCHANGED <<job, row, raw, hyp, retries, crashes>>
  BY DEF Reread
<1>2. Fits(o, [run[o] EXCEPT !.pc = "consider"])
  BY Standing DEF Fits, Run
<1> QED  BY <1>1, <1>2, Standing, MoveOnStep, GoToStep DEF Steps

-----------------------------------------------------------------------------
LEMMA ConsiderInv ==
  ASSUME DispatchInv, NEW o \in Orchestrators, Consider(o)
  PROVE  DispatchInv'
<1> DEFINE d == At(o)
<1>0. d \in Dispatches /\ run[o] \in Run /\ Fits(o, run[o]) /\ crashes \in Nat
  BY Standing
<1>1. Fits(o, [run[o] EXCEPT !.pc = "claim"])
  BY <1>0 DEF Fits, Run
<1>2. CASE UNCHANGED <<job, retries>>
  <2>1. (Abort(o) \/ MoveOn(o) \/ GoTo(o, "claim")) /\ UNCHANGED <<job, row, raw, hyp, retries, crashes>>
    BY <1>2 DEF Consider
  <2> QED  BY <1>0, <1>1, <2>1, AbortStep, MoveOnStep, GoToStep DEF Steps
<1>3. CASE /\ job[d].status = "failed"
           /\ job' = [job EXCEPT ![d].status = "queued", ![d].attempts = 0, ![d].live = FALSE]
           /\ retries' = [retries EXCEPT ![d] = @ + 1]
           /\ GoTo(o, "claim")
           /\ UNCHANGED <<row, raw, hyp, crashes>>
  <2>1. PICK q : q = [run[o] EXCEPT !.pc = "claim"]
    OBVIOUS
  <2>2. q \in Run /\ Fits(o, q)
    BY <1>0, <1>1, <2>1 DEF Run, Steps
  <2>3. run' = [run EXCEPT ![o] = q]
    BY <1>3, <2>1 DEF GoTo
  <2>4. retries' \in [Dispatches -> Nat]
    <3>1. PICK n \in Nat : n = retries[d] + 1
      BY <1>0 DEF DispatchInv, TypeOK
    <3> QED  BY <1>3, <3>1 DEF DispatchInv, TypeOK
  <2>5. job' \in [Dispatches -> Job] /\ job'[d].status = "queued"
        /\ \A e \in Dispatches \ {d} : job'[e] = job[e]
    BY <1>0, <1>3 DEF DispatchInv, TypeOK, Job
  <2>6. \A e \in Dispatches : JobShows(e)'
    BY <1>3, <2>5 DEF DispatchInv, JobShows
  <2> QED  BY <1>0, <1>3, <2>2, <2>3, <2>4, <2>5, <2>6, QuietStep
<1> QED  BY <1>2, <1>3 DEF Consider

LEMMA ClaimInv ==
  ASSUME DispatchInv, NEW o \in Orchestrators, Claim(o)
  PROVE  DispatchInv'
<1> DEFINE d == At(o)
<1>0. d \in Dispatches /\ run[o] \in Run /\ Fits(o, run[o]) /\ crashes \in Nat
  BY Standing
<1>1. CASE /\ job' = [job EXCEPT ![d] =
                        [status |-> "running", attempts |-> @.attempts + 1,
                         token |-> @.token + 1, live |-> TRUE]]
           /\ run' = [run EXCEPT ![o].pc = "start", ![o].token = job[d].token + 1]
           /\ UNCHANGED <<row, raw, hyp, retries, crashes>>
  <2>1. PICK q : q = [run[o] EXCEPT !.pc = "start", !.token = job[d].token + 1]
    OBVIOUS
  <2>2. job[d] \in Job
    BY <1>0 DEF DispatchInv, TypeOK
  <2>3. q \in Run /\ Fits(o, q)
    <3>1. PICK n \in Nat : n = job[d].token + 1
      BY <2>2 DEF Job
    <3>2. q = [run[o] EXCEPT !.pc = "start", !.token = n]
      BY <2>1, <3>1
    <3> QED  BY <1>0, <3>2 DEF Run, Steps, Fits
  <2>4. run' = [run EXCEPT ![o] = q]
    BY <1>1, <2>1
  <2>5. job' \in [Dispatches -> Job] /\ job'[d].status = "running"
        /\ \A e \in Dispatches \ {d} : job'[e] = job[e]
    BY <1>0, <1>1, <2>2 DEF DispatchInv, TypeOK, Job
  <2>6. \A e \in Dispatches : JobShows(e)'
    BY <1>1, <2>5 DEF DispatchInv, JobShows
  <2> QED  BY <1>0, <1>1, <2>3, <2>4, <2>5, <2>6, QuietStep DEF DispatchInv, TypeOK
<1>2. CASE MoveOn(o) /\ UNCHANGED <<job, row, raw, hyp, retries, crashes>>
  BY <1>0, <1>2, MoveOnStep
<1> QED  BY <1>1, <1>2 DEF Claim

(* A check that lets the run go on or sends it back.                       *)
LEMMA StartInv ==
  ASSUME DispatchInv, NEW o \in Orchestrators, Start(o)
  PROVE  DispatchInv'
<1>1. Fits(o, [run[o] EXCEPT !.pc = "started"])
  BY Standing DEF Fits, Run
<1> QED  BY <1>1, Standing, AbortStep, GoToStep DEF Start, Steps

LEMMA StartedInv ==
  ASSUME DispatchInv, NEW o \in Orchestrators, Started(o)
  PROVE  DispatchInv'
<1> DEFINE d == At(o)
<1>0. d \in Dispatches /\ run[o] \in Run /\ Fits(o, run[o]) /\ crashes \in Nat
  BY Standing
<1>1. /\ row' = [row EXCEPT ![d].status = "running", ![d].audio = run[o].audio]
      /\ UNCHANGED <<job, raw, hyp, retries, crashes>>
  BY DEF Started
<1>2. PICK q : q = [run[o] EXCEPT !.pc = "ask"]
  OBVIOUS
<1>3. q \in Run /\ q.at \in DOMAIN Order[o] /\ q.pc = "ask"
  BY <1>0, <1>2 DEF Run, Steps, Fits
<1>4. run' = [run EXCEPT ![o] = q] /\ Fits(o, q)'
  BY <1>2, <1>3 DEF Started, GoTo, Fits
<1>5. row' \in [Dispatches -> DispatchRow]
  <2>1. PICK w : w = [row[d] EXCEPT !.status = "running", !.audio = run[o].audio]
    OBVIOUS
  <2>2. row[d] \in DispatchRow /\ run[o].audio \in Audios \union {None}
    BY <1>0 DEF DispatchInv, TypeOK, Run
  <2>3. w = [status |-> "running", audio |-> run[o].audio,
             hyp |-> row[d].hyp, error |-> row[d].error]
    BY <2>1, <2>2 DEF DispatchRow
  <2>4. w \in DispatchRow
    BY <2>2, <2>3 DEF DispatchRow
  <2> QED  BY <1>1, <2>1, <2>4 DEF DispatchInv, TypeOK
<1>6. \A e \in Dispatches :
        /\ row'[e].error = row[e].error /\ row'[e].hyp = row[e].hyp
        /\ row'[e].status = "succeeded" => row'[e] = row[e]
  BY <1>1 DEF DispatchInv, TypeOK, DispatchRow
<1>7. Grows /\ \A e \in Dispatches : RowAgrees(e)' /\ JobShows(e)'
  BY <1>1, <1>6 DEF Grows, DispatchInv, RowAgrees, JobShows
<1> QED  BY <1>1, <1>3, <1>4, <1>5, <1>7, ProcessStep DEF DispatchInv, TypeOK

LEMMA AskInv ==
  ASSUME DispatchInv, NEW o \in Orchestrators, Ask(o)
  PROVE  DispatchInv'
<1>0. run[o] \in Run /\ Fits(o, run[o]) /\ crashes \in Nat
  BY Standing
<1>1. ASSUME run[o].audio # None, NEW r \in Responses,
             run' = [run EXCEPT ![o].pc = "publish", ![o].response = r],
             UNCHANGED <<job, row, raw, hyp, retries, crashes>>
      PROVE  DispatchInv'
  <2>1. PICK q : q = [run[o] EXCEPT !.pc = "publish", !.response = r]
    OBVIOUS
  <2>2. q \in Run /\ Fits(o, q)
    BY <1>0, <1>1, <2>1, DispatchAssumption DEF Run, Steps, Fits
  <2>3. run' = [run EXCEPT ![o] = q]
    BY <1>1, <2>1
  <2> QED  BY <1>0, <1>1, <2>2, <2>3, MemoryStep
<1>2. ASSUME NEW retryable \in BOOLEAN,
             run' = [run EXCEPT ![o].pc = "note", ![o].retryable = retryable],
             UNCHANGED <<job, row, raw, hyp, retries, crashes>>
      PROVE  DispatchInv'
  <2>1. PICK q : q = [run[o] EXCEPT !.pc = "note", !.retryable = retryable]
    OBVIOUS
  <2>2. q \in Run /\ Fits(o, q)
    BY <1>0, <2>1 DEF Run, Steps, Fits
  <2>3. run' = [run EXCEPT ![o] = q]
    BY <1>2, <2>1
  <2> QED  BY <1>0, <1>2, <2>2, <2>3, MemoryStep
<1> QED  BY <1>0, <1>1, <1>2, AbortStep DEF Ask

LEMMA PublishInv ==
  ASSUME DispatchInv, NEW o \in Orchestrators, Publish(o)
  PROVE  DispatchInv'
<1>0. /\ run[o] \in Run /\ Fits(o, run[o]) /\ crashes \in Nat
      /\ run[o].pc = "publish" /\ UNCHANGED <<job, row, raw, hyp, retries, crashes>>
  BY Standing DEF Publish
<1>1. CASE Abort(o)
  BY <1>0, <1>1, AbortStep
<1>2. CASE raw[At(o)] = None /\ GoTo(o, "move")
  <2>1. Fits(o, [run[o] EXCEPT !.pc = "move"])
    BY <1>0 DEF Fits, Run
  <2> QED  BY <1>0, <1>2, <2>1, GoToStep DEF Steps
<1>3. CASE raw[At(o)] # None /\ GoTo(o, "record")
  <2>1. Fits(o, [run[o] EXCEPT !.pc = "record"])
    BY <1>0, <1>3 DEF Fits, Run, At
  <2> QED  BY <1>0, <1>3, <2>1, GoToStep DEF Steps
<1> QED  BY <1>1, <1>2, <1>3 DEF Publish

LEMMA MoveInv ==
  ASSUME DispatchInv, NEW o \in Orchestrators, Move(o)
  PROVE  DispatchInv'
<1> DEFINE d == At(o)
<1>0. /\ d \in Dispatches /\ run[o] \in Run /\ Fits(o, run[o]) /\ crashes \in Nat
      /\ run[o].pc = "move" /\ UNCHANGED <<job, row, hyp, retries, crashes>>
  BY Standing DEF Move
<1>1. CASE raw[d] = None /\ raw' = [raw EXCEPT ![d] = run[o].response] /\ GoTo(o, "record")
  <2>1. PICK q : q = [run[o] EXCEPT !.pc = "record"]
    OBVIOUS
  <2>2. /\ q \in Run /\ q.at = run[o].at /\ q.at \in DOMAIN Order[o] /\ q.pc = "record"
        /\ q.response # None /\ q.audio # None
    BY <1>0, <2>1 DEF Run, Steps, Fits
  <2>3. run' = [run EXCEPT ![o] = q]
    BY <1>1, <2>1 DEF GoTo
  <2>4. run[o].response \in Responses
    BY <1>0 DEF Run, Fits
  <2>5. /\ raw' \in [Dispatches -> Responses \union {None}]
        /\ \A e \in Dispatches : raw[e] # None => raw'[e] # None
        /\ raw'[d] # None
    BY <1>0, <1>1, <2>4, DispatchAssumption DEF DispatchInv, TypeOK
  <2>6. Fits(o, q)'
    BY <2>2, <2>5 DEF Fits, At
  <2>7. Grows /\ \A e \in Dispatches : RowAgrees(e)' /\ JobShows(e)'
    BY <1>0, <2>5 DEF Grows, DispatchInv, RowAgrees, JobShows
  <2> QED  BY <1>0, <2>2, <2>3, <2>5, <2>6, <2>7, ProcessStep DEF DispatchInv, TypeOK
<1>2. CASE /\ raw[d] # None
           /\ run' = [run EXCEPT ![o].pc = "note", ![o].retryable = TRUE]
           /\ UNCHANGED raw
  <2>1. PICK q : q = [run[o] EXCEPT !.pc = "note", !.retryable = TRUE]
    OBVIOUS
  <2>2. q \in Run /\ Fits(o, q)
    BY <1>0, <2>1 DEF Run, Steps, Fits
  <2>3. run' = [run EXCEPT ![o] = q]
    BY <1>2, <2>1
  <2> QED  BY <1>0, <1>2, <2>2, <2>3, MemoryStep
<1>3. CASE Abort(o) /\ UNCHANGED raw
  BY <1>0, <1>3, AbortStep
<1> QED  BY <1>1, <1>2, <1>3 DEF Move

LEMMA RecordInv ==
  ASSUME DispatchInv, NEW o \in Orchestrators, Record(o)
  PROVE  DispatchInv'
<1>1. Fits(o, [run[o] EXCEPT !.pc = "recorded"])
  BY Standing DEF Fits, Run, Record
<1> QED  BY <1>1, Standing, AbortStep, GoToStep DEF Record, Steps

-----------------------------------------------------------------------------
(* Succeeded(r, h) is a row.                                               *)
LEMMA SucceededRow ==
  ASSUME NEW r \in DispatchRow, NEW h \in Hypothesis
  PROVE  /\ Succeeded(r, h) \in DispatchRow
         /\ Succeeded(r, h).status = "succeeded"
         /\ Succeeded(r, h).hyp = h
         /\ Succeeded(r, h).audio = h.audio
BY DEF Succeeded, DispatchRow, Hypothesis

LEMMA RecordedInv ==
  ASSUME DispatchInv, NEW o \in Orchestrators, Recorded(o)
  PROVE  DispatchInv'
<1> DEFINE d == At(o)
           h == [response |-> run[o].response, audio |-> run[o].audio]
<1>0. /\ d \in Dispatches /\ run[o] \in Run /\ Fits(o, run[o]) /\ crashes \in Nat
      /\ run[o].pc = "recorded" /\ UNCHANGED <<job, raw, retries, crashes>>
  BY Standing DEF Recorded
<1>1. CASE /\ hyp[d] \in {None, h}
           /\ hyp' = [hyp EXCEPT ![d] = h]
           /\ row' = [row EXCEPT ![d] = Succeeded(@, h)]
           /\ GoTo(o, "complete")
  <2>1. PICK q : q = [run[o] EXCEPT !.pc = "complete"]
    OBVIOUS
  <2>2. /\ q \in Run /\ q.at = run[o].at /\ q.at \in DOMAIN Order[o] /\ q.pc = "complete"
    BY <1>0, <2>1 DEF Run, Steps, Fits
  <2>3. run' = [run EXCEPT ![o] = q]
    BY <1>1, <2>1 DEF GoTo
  <2>4. h \in Hypothesis /\ raw[d] # None
    BY <1>0 DEF Run, Fits, Hypothesis, At
  <2>5. h # None
    BY <2>4, DispatchAssumption DEF Hypothesis
  <2> HIDE DEF h
  <2>6. /\ hyp' \in [Dispatches -> Hypothesis \union {None}] /\ hyp'[d] = h
        /\ \A e \in Dispatches \ {d} : hyp'[e] = hyp[e]
    BY <1>0, <1>1, <2>4 DEF DispatchInv, TypeOK
  <2>7. PICK w : w = Succeeded(row[d], h)
    OBVIOUS
  <2>8. /\ w \in DispatchRow /\ w.status = "succeeded" /\ w.hyp = h /\ w.audio = h.audio
    BY <1>0, <2>4, <2>7, SucceededRow DEF DispatchInv, TypeOK
  <2>9. row' \in [Dispatches -> DispatchRow] /\ row'[d] = w
        /\ \A e \in Dispatches \ {d} : row'[e] = row[e]
    BY <1>0, <1>1, <2>7, <2>8 DEF DispatchInv, TypeOK
  <2> HIDE DEF d
  <2>10. Fits(o, q)'
    BY <1>0, <2>2, <2>4, <2>5, <2>6 DEF Fits, d, At
  <2>11. Grows
    BY <1>0, <2>5, <2>6, <2>9 DEF Grows
  <2>12. \A e \in Dispatches : RowAgrees(e)' /\ JobShows(e)'
    BY <1>0, <2>4, <2>5, <2>6, <2>8, <2>9 DEF DispatchInv, RowAgrees, JobShows
  <2> QED
    BY <1>0, <2>2, <2>3, <2>6, <2>9, <2>10, <2>11, <2>12, ProcessStep DEF DispatchInv, TypeOK
<1>2. CASE Abort(o) /\ UNCHANGED <<row, hyp>>
  BY <1>0, <1>2, AbortStep
<1> QED  BY <1>1, <1>2 DEF Recorded

LEMMA CompleteInv ==
  ASSUME DispatchInv, NEW o \in Orchestrators, Complete(o)
  PROVE  DispatchInv'
<1> DEFINE d == At(o)
<1>0. /\ d \in Dispatches /\ run[o] \in Run /\ Fits(o, run[o]) /\ crashes \in Nat
      /\ run[o].pc = "complete" /\ UNCHANGED <<row, raw, hyp, retries, crashes>>
  BY Standing DEF Complete
<1>1. CASE /\ job' = [job EXCEPT ![d].status = "succeeded", ![d].live = FALSE]
           /\ MoveOn(o)
  <2>1. PICK q : q = MovedOn(o, run[o])
    OBVIOUS
  <2>2. q \in Run /\ Fits(o, q)
    BY <1>0, <2>1, MovedOnFits DEF Fits
  <2>3. run' = [run EXCEPT ![o] = q]
    BY <1>1, <2>1 DEF MoveOn
  <2>4. hyp[d] # None
    BY <1>0 DEF Fits, At
  <2>5. job' \in [Dispatches -> Job] /\ job'[d].status = "succeeded"
        /\ \A e \in Dispatches \ {d} : job'[e] = job[e]
    BY <1>0, <1>1 DEF DispatchInv, TypeOK, Job
  <2>6. \A e \in Dispatches : JobShows(e)'
    BY <1>0, <2>4, <2>5 DEF DispatchInv, JobShows
  <2> QED  BY <1>0, <2>2, <2>3, <2>5, <2>6, QuietStep DEF DispatchInv, TypeOK
<1>2. CASE Abort(o) /\ UNCHANGED job
  BY <1>0, <1>2, AbortStep
<1> QED  BY <1>1, <1>2 DEF Complete

LEMMA NoteInv ==
  ASSUME DispatchInv, NEW o \in Orchestrators, Note(o)
  PROVE  DispatchInv'
<1>1. Fits(o, [run[o] EXCEPT !.pc = "noted"])
  BY Standing DEF Fits, Run
<1> QED  BY <1>1, Standing, AbortStep, GoToStep DEF Note, Steps

LEMMA NotedInv ==
  ASSUME DispatchInv, NEW o \in Orchestrators, Noted(o)
  PROVE  DispatchInv'
<1> DEFINE d == At(o)
<1>0. d \in Dispatches /\ run[o] \in Run /\ Fits(o, run[o]) /\ crashes \in Nat
  BY Standing
<1>1. /\ row' = [row EXCEPT ![d].status = "failed", ![d].audio = run[o].audio,
                            ![d].error = TRUE]
      /\ UNCHANGED <<job, raw, hyp, retries, crashes>>
  BY DEF Noted
<1>2. PICK q : q = [run[o] EXCEPT !.pc = "fail"]
  OBVIOUS
<1>3. q \in Run /\ q.at = run[o].at /\ q.at \in DOMAIN Order[o] /\ q.pc = "fail"
  BY <1>0, <1>2 DEF Run, Steps, Fits
<1>4. PICK w : w = [row[d] EXCEPT !.status = "failed", !.audio = run[o].audio, !.error = TRUE]
  OBVIOUS
<1>5. /\ w \in DispatchRow /\ w.status = "failed" /\ w.hyp = row[d].hyp /\ w.error
  <2>1. row[d] \in DispatchRow /\ run[o].audio \in Audios \union {None}
    BY <1>0 DEF DispatchInv, TypeOK, Run
  <2> QED  BY <1>4, <2>1 DEF DispatchRow
<1>6. row' = [row EXCEPT ![d] = w]
  BY <1>1, <1>4
<1>7. row' \in [Dispatches -> DispatchRow] /\ row'[d] = w
      /\ \A e \in Dispatches \ {d} : row'[e] = row[e]
  BY <1>0, <1>5, <1>6 DEF DispatchInv, TypeOK
<1>8. run' = [run EXCEPT ![o] = q]
  BY <1>2 DEF Noted, GoTo
<1>9. Fits(o, q)'
  BY <1>3, <1>5, <1>7 DEF Fits, At
<1>10. Grows /\ \A e \in Dispatches : RowAgrees(e)' /\ JobShows(e)'
  BY <1>0, <1>1, <1>5, <1>7 DEF Grows, DispatchInv, RowAgrees, JobShows
<1> QED  BY <1>1, <1>3, <1>7, <1>8, <1>9, <1>10, ProcessStep DEF DispatchInv, TypeOK

LEMMA FailJobInv ==
  ASSUME DispatchInv, NEW o \in Orchestrators, FailJob(o)
  PROVE  DispatchInv'
<1> DEFINE d == At(o)
           status == IF ~run[o].retryable THEN "blocked"
                     ELSE IF job[d].attempts >= MaxAttempts THEN "failed" ELSE "retry_wait"
<1>0. /\ d \in Dispatches /\ run[o] \in Run /\ Fits(o, run[o]) /\ crashes \in Nat
      /\ run[o].pc = "fail" /\ UNCHANGED <<row, raw, hyp, retries, crashes>>
  BY Standing DEF FailJob
<1>1. CASE /\ job' = [job EXCEPT ![d].status = status, ![d].live = (status = "retry_wait")]
           /\ MoveOn(o)
  <2>1. PICK q : q = MovedOn(o, run[o])
    OBVIOUS
  <2>2. q \in Run /\ Fits(o, q)
    BY <1>0, <2>1, MovedOnFits DEF Fits
  <2>3. run' = [run EXCEPT ![o] = q]
    BY <1>1, <2>1 DEF MoveOn
  <2>4. row[d].error \/ hyp[d] # None
    BY <1>0 DEF Fits, At
  <2>5. status \in {"blocked", "failed", "retry_wait"}
    OBVIOUS
  <2> HIDE DEF status
  <2>6. job' \in [Dispatches -> Job] /\ job'[d].status = status
        /\ \A e \in Dispatches \ {d} : job'[e] = job[e]
    BY <1>0, <1>1, <2>5 DEF DispatchInv, TypeOK, Job
  <2>7. \A e \in Dispatches : JobShows(e)'
    BY <1>0, <2>4, <2>5, <2>6 DEF DispatchInv, JobShows
  <2> QED  BY <1>0, <2>2, <2>3, <2>6, <2>7, QuietStep DEF DispatchInv, TypeOK
<1>2. CASE Abort(o) /\ UNCHANGED job
  BY <1>0, <1>2, AbortStep
<1> QED  BY <1>1, <1>2 DEF FailJob

LEMMA ExpireInv ==
  ASSUME DispatchInv, NEW d \in Dispatches, Expire(d)
  PROVE  DispatchInv'
<1>1. job' \in [Dispatches -> Job] /\ \A e \in Dispatches : job'[e].status = job[e].status
  BY DEF Expire, DispatchInv, TypeOK, Job
<1>2. TypeOK'
  BY <1>1 DEF Expire, DispatchInv, TypeOK
<1>3. \A o \in Orchestrators : Fits(o, run[o])'
  BY DEF Expire, DispatchInv, Fits
<1>4. \A e \in Dispatches : RowAgrees(e)' /\ JobShows(e)'
  BY <1>1 DEF Expire, DispatchInv, RowAgrees, JobShows
<1> QED  BY <1>2, <1>3, <1>4 DEF DispatchInv

-----------------------------------------------------------------------------
LEMMA NextInv == DispatchInv /\ [Next]_vars => DispatchInv'
<1> SUFFICES ASSUME DispatchInv, [Next]_vars PROVE DispatchInv'
  OBVIOUS
<1>1. ASSUME NEW o \in Orchestrators, Proceed(o) PROVE DispatchInv'
  BY <1>1, BeginInv, EnsureInv, LoadAudioInv, VisitInv, RereadInv, ConsiderInv, ClaimInv, StartInv,
     StartedInv, AskInv, PublishInv, MoveInv, RecordInv, RecordedInv, CompleteInv,
     NoteInv, NotedInv, FailJobInv
     DEF Proceed
<1>2. ASSUME NEW o \in Orchestrators, Crash(o) PROVE DispatchInv'
  <2>1. crashes' \in Nat
    BY <1>2, Standing DEF Crash
  <2> QED  BY <1>2, <2>1, AbortStep DEF Crash
<1>3. ASSUME NEW d \in Dispatches, Expire(d) PROVE DispatchInv'
  BY <1>3, ExpireInv
<1>4. CASE UNCHANGED vars
  BY <1>4 DEF vars, DispatchInv, TypeOK, Fits, RowAgrees, JobShows
<1> QED  BY <1>1, <1>2, <1>3, <1>4 DEF Next

LEMMA DispatchInvariant == Spec => []DispatchInv
<1> QED  BY InitInv, NextInv, PTL DEF Spec

(* The state keeps its type, for every number of runs and dispatches.      *)
THEOREM DispatchTypes == Spec => []TypeOK
<1>1. DispatchInv => TypeOK
  BY DEF DispatchInv
<1> QED  BY <1>1, DispatchInvariant, PTL

(* A dispatch that is shown as succeeded has the recorded hypothesis, the  *)
(* audio it was made from and a raw response behind it, however runs       *)
(* overlap, lose their leases, crash and are repeated                      *)
(* (publish_chunk_inference_success, reconcile_chunk_inference_success).   *)
THEOREM ProvenanceKept == Spec => []SuccessHasProvenance
<1>1. DispatchInv => SuccessHasProvenance
  BY DEF DispatchInv, RowAgrees, SuccessHasProvenance
<1> QED  BY <1>1, DispatchInvariant, PTL

(* A completed job has its hypothesis, a failed or blocked one its error,  *)
(* unless an overlapping run got a result (complete_job, fail_job after    *)
(* record_chunk_inference_failure).                                        *)
THEOREM OutcomeKept == Spec => []OutcomeIsVisible
<1>1. DispatchInv => OutcomeIsVisible
  BY DEF DispatchInv, JobShows, OutcomeIsVisible
<1> QED  BY <1>1, DispatchInvariant, PTL

-----------------------------------------------------------------------------
(* No step takes back a raw response, a hypothesis or what a row points at.*)
LEMMA NextKeeps == DispatchInv /\ [Next]_vars => Kept
<1> SUFFICES ASSUME DispatchInv, [Next]_vars PROVE Kept
  OBVIOUS
<1>1. ASSUME UNCHANGED <<row, raw, hyp>> PROVE Kept
  BY <1>1 DEF Kept
<1>2. ASSUME UNCHANGED <<raw, hyp>>, \A d \in Dispatches : row'[d].hyp = row[d].hyp
      PROVE  Kept
  BY <1>2 DEF Kept
<1>3. ASSUME NEW o \in Orchestrators, Proceed(o) PROVE Kept
  <2> DEFINE d == At(o)
  <2>0. d \in Dispatches /\ run[o] \in Run /\ Fits(o, run[o])
    BY Standing
  <2>1. CASE Ensure(o) \/ Started(o) \/ Noted(o)
    <3>1. \A e \in Dispatches : row'[e].hyp = row[e].hyp
      <4>1. CASE Ensure(o)
        BY <4>1 DEF Ensure, DispatchInv, TypeOK, DispatchRow
      <4>2. CASE Started(o)
        BY <4>2 DEF Started, DispatchInv, TypeOK, DispatchRow
      <4>3. CASE Noted(o)
        BY <4>3 DEF Noted, DispatchInv, TypeOK, DispatchRow
      <4> QED  BY <2>1, <4>1, <4>2, <4>3
    <3> QED  BY <1>2, <2>1, <3>1 DEF Ensure, Started, Noted
  <2>2. CASE Visit(o)
    <3>1. CASE UNCHANGED row
      BY <1>1, <2>2, <3>1 DEF Visit
    <3>2. CASE ~UNCHANGED row
      <4>1. /\ hyp[d] # None /\ row[d].hyp \in {None, hyp[d]}
            /\ row' = [row EXCEPT ![d] = Succeeded(@, hyp[d])]
            /\ UNCHANGED <<raw, hyp>>
        BY <2>2, <3>2 DEF Visit
      <4>2. row'[d].hyp = hyp[d] /\ \A e \in Dispatches \ {d} : row'[e] = row[e]
        <5>1. row[d] \in DispatchRow /\ hyp[d] \in Hypothesis
          BY <2>0, <4>1 DEF DispatchInv, TypeOK
        <5> QED  BY <2>0, <4>1, <5>1, SucceededRow DEF DispatchInv, TypeOK
      <4> QED  BY <4>1, <4>2 DEF Kept
    <3> QED  BY <3>1, <3>2
  <2>3. CASE Move(o)
    <3>1. raw' = raw \/ (raw[d] = None /\ raw' = [raw EXCEPT ![d] = run[o].response])
      BY <2>3 DEF Move
    <3>2. UNCHANGED <<row, hyp>>
      BY <2>3 DEF Move
    <3> QED  BY <2>0, <3>1, <3>2 DEF Kept, DispatchInv, TypeOK
  <2>4. CASE Recorded(o)
    <3> DEFINE h == [response |-> run[o].response, audio |-> run[o].audio]
    <3>1. CASE UNCHANGED <<row, hyp>>
      BY <1>1, <2>4, <3>1 DEF Recorded
    <3>2. CASE ~UNCHANGED <<row, hyp>>
      <4>1. /\ hyp[d] \in {None, h}
            /\ hyp' = [hyp EXCEPT ![d] = h]
            /\ row' = [row EXCEPT ![d] = Succeeded(@, h)]
            /\ UNCHANGED raw
        BY <2>4, <3>2 DEF Recorded
      <4>2. h \in Hypothesis
        BY <2>0, <2>4 DEF Recorded, Run, Fits, Hypothesis
      <4> HIDE DEF h
      <4>3. /\ row'[d].hyp = h /\ hyp'[d] = h
            /\ \A e \in Dispatches \ {d} : row'[e] = row[e] /\ hyp'[e] = hyp[e]
        BY <2>0, <4>1, <4>2, SucceededRow DEF DispatchInv, TypeOK
      <4>4. row[d].hyp # None => row[d].hyp = hyp[d]
        BY <2>0 DEF DispatchInv, RowAgrees
      <4> QED  BY <2>0, <4>1, <4>3, <4>4 DEF Kept
    <3> QED  BY <3>1, <3>2
  <2>5. CASE ~(Ensure(o) \/ Started(o) \/ Noted(o) \/ Visit(o) \/ Move(o) \/ Recorded(o))
    <3>1. UNCHANGED <<row, raw, hyp>>
      BY <1>3, <2>5 DEF Proceed, Begin, LoadAudio, Reread, Consider, Claim, Start, Ask, Publish,
         Record, Complete, Note, FailJob
    <3> QED  BY <1>1, <3>1
  <2> QED  BY <2>1, <2>2, <2>3, <2>4, <2>5
<1>4. ASSUME NEW o \in Orchestrators, Crash(o) PROVE Kept
  BY <1>1, <1>4 DEF Crash
<1>5. ASSUME NEW d \in Dispatches, Expire(d) PROVE Kept
  BY <1>1, <1>5 DEF Expire
<1>6. CASE UNCHANGED vars
  BY <1>1, <1>6 DEF vars
<1> QED  BY <1>3, <1>4, <1>5, <1>6 DEF Next

(* No rerun, retry or stale run replaces a raw response or a hypothesis,   *)
(* or points a row at another one (ArtifactPublisher.publish,              *)
(* publish_chunk_inference_success).                                       *)
THEOREM ResultsKept == Spec => ResultsAreImmutable
<1>1. DispatchInv /\ [Next]_vars =>
        [\A d \in Dispatches :
           /\ raw[d] # None => raw'[d] = raw[d]
           /\ hyp[d] # None => hyp'[d] = hyp[d]
           /\ row[d].hyp # None => row'[d].hyp = row[d].hyp]_vars
  BY NextKeeps DEF Kept
<1> QED  BY <1>1, DispatchInvariant, PTL DEF Spec, ResultsAreImmutable

=============================================================================
