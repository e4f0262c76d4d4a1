-------------------------- MODULE FencedPublication --------------------------
(***************************************************************************)
(* Publication of an immutable artifact: ArtifactPublisher.publish and     *)
(* reconcile of artifacts.py with record_artifact of storage.py.           *)
(*                                                                         *)
(* A publisher writes a temporary directory, moves it to the artifact's    *)
(* place with os.replace, and then inserts the manifest's row.  A worker   *)
(* checks the fence of its job on entry, before the move and with the row; *)
(* `zanzara process' publishes the same way without a job.  The fence      *)
(* check of record_artifact and its look at the existing row are SELECTs   *)
(* that run before SQLite begins the write transaction, so the INSERT is a *)
(* step of its own, and so is every effect on the file system.             *)
(*                                                                         *)
(* The jobs themselves are the abstract fence; one artifact place is       *)
(* identified by (source, stage, stage key), a manifest by the content it  *)
(* lists.                                                                  *)
(***************************************************************************)
EXTENDS Fence

CONSTANTS
  Workers,    \* processes that publish the output of a claimed job
  Direct,     \* processes that publish without a job
  Places,     \* artifact places
  PlaceOf,    \* the place a job publishes to
  Contents,   \* what a stage may produce
  MaxToken,   \* bound: claims of one job
  MaxDirect,  \* bound: starts of unfenced publications
  None

ASSUME PublicationAssumption ==
  /\ PlaceOf \in [Jobs -> Places]
  /\ MaxToken \in Nat
  /\ MaxDirect \in Nat
  /\ Workers \intersect Direct = {}
  /\ None \notin Contents
  /\ None \notin Jobs
  /\ None \notin Places

VARIABLES
  dir,         \* the completed directory at each place, or None
  row,         \* the artifacts row for each place: its manifest, or None
  publisher,   \* what each publishing process is doing
  scan,        \* the pass of reconcile: where it is, what is ahead of it
  starts,      \* bounds the unfenced publications
  succeeded    \* the jobs marked succeeded

vars == <<token, live, dir, row, publisher, scan, starts, succeeded>>
storage == <<dir, row>>

Publishers == Workers \union Direct

Resting == [pc |-> "idle", job |-> None, fence |-> 0, place |-> None, content |-> None]

Steps == {"idle",        \* nothing claimed
          "produced",    \* the stage has returned its output
          "writing",     \* the temporary directory is complete
          "replacing",   \* the second fence check has passed
          "checking",    \* the directory is in place; record_artifact begins
          "inserting",   \* its SELECTs have passed
          "published"}   \* publish has returned

Publication == [pc : Steps, job : Jobs \union {None}, fence : Nat,
                place : Places \union {None}, content : Contents \union {None}]

NoPass == [pc |-> "idle", present |-> {}, todo |-> {}, place |-> None, content |-> None]

Pass == [pc : {"idle",
               "scanning",     \* between two directories
               "found",        \* a manifest is read and reconcile_artifact found no row
               "inserting"},   \* nor did record_artifact
         present : SUBSET Places,   \* history: complete when the pass began
         todo : SUBSET Places, place : Places \union {None}, content : Contents \union {None}]

TypeOK ==
  /\ FenceTypeOK
  /\ dir \in [Places -> Contents \union {None}]
  /\ row \in [Places -> Contents \union {None}]
  /\ publisher \in [Publishers -> Publication]
  /\ scan \in Pass
  /\ starts \in Nat
  /\ succeeded \subseteq Jobs

Init ==
  /\ FenceInit
  /\ dir = [p \in Places |-> None]
  /\ row = [p \in Places |-> None]
  /\ publisher = [w \in Publishers |-> Resting]
  /\ scan = NoPass
  /\ starts = 0
  /\ succeeded = {}

-----------------------------------------------------------------------------
(*                       The queue, as the fence                           *)

(* A worker claims a job and its stage produces some content.              *)
Produce(w, j, c) ==
  /\ publisher[w].pc = "idle"
  /\ j \notin succeeded
  /\ token[j] < MaxToken
  /\ Grant(j, {})
  /\ publisher' = [publisher EXCEPT ![w] =
       [pc |-> "produced", job |-> j, fence |-> token[j] + 1,
        place |-> PlaceOf[j], content |-> c]]
  /\ UNCHANGED <<dir, row, scan, starts, succeeded>>

(* `zanzara process' produces content for a place without a job.           *)
ProduceDirect(d, p, c) ==
  /\ publisher[d].pc = "idle"
  /\ starts < MaxDirect
  /\ starts' = starts + 1
  /\ publisher' = [publisher EXCEPT ![d] =
       [Resting EXCEPT !.pc = "produced", !.place = p, !.content = c]]
  /\ UNCHANGED <<token, live, dir, row, scan, succeeded>>

(* A lease runs out, or an operator cancels or recovers the job.           *)
LoseLease(j, cancelled) ==
  /\ j \in live
  /\ token[j] < MaxToken
  /\ Withdraw({j}, cancelled)
  /\ UNCHANGED <<dir, row, publisher, scan, starts, succeeded>>

(* Mutant: the place is recorded as finished where the job is meant.       *)
FinishPlace(w) ==
  /\ publisher[w].pc = "published"
  /\ succeeded' = succeeded \union {publisher[w].place}
  /\ publisher' = [publisher EXCEPT ![w] = Resting]
  /\ UNCHANGED <<token, live, dir, row, scan, starts>>

(* complete_job or its conflict, after publish has returned.               *)
Finish(w) ==
  LET a == publisher[w]
  IN  /\ a.pc = "published"
      /\ IF a.job # None /\ a.job \in live /\ token[a.job] = a.fence
         THEN /\ Withdraw({a.job}, {})
              /\ succeeded' = succeeded \union {a.job}
         ELSE UNCHANGED <<token, live, succeeded>>
      /\ publisher' = [publisher EXCEPT ![w] = Resting]
      /\ UNCHANGED <<dir, row, scan, starts>>

-----------------------------------------------------------------------------
(*                            publish                                      *)

(* assert_job_fence; a publication without a job is not checked.           *)
Fenced(w) ==
  LET a == publisher[w]
  IN  a.job # None => a.job \in live /\ token[a.job] = a.fence

GoTo(w, pc) == publisher' = [publisher EXCEPT ![w].pc = pc]
GiveUp(w)   == publisher' = [publisher EXCEPT ![w] = Resting]

(* Mutant: an existing directory is accepted without reading its manifest. *)
BeginPublishUnread(w) ==
  LET a == publisher[w]
  IN  /\ a.pc = "produced"
      /\ IF ~Fenced(w) THEN GiveUp(w)
         ELSE IF dir[a.place] # None THEN GoTo(w, "checking") ELSE GoTo(w, "writing")
      /\ UNCHANGED <<token, live, dir, row, scan, starts, succeeded>>

(* The first check, and the look whether the directory exists.  If it does *)
(* its own manifest is read back, whatever this attempt produced;          *)
(* otherwise the temporary directory is written.                           *)
BeginPublish(w) ==
  LET a == publisher[w]
  IN  /\ a.pc = "produced"
      /\ IF ~Fenced(w) THEN GiveUp(w)
         ELSE IF dir[a.place] # None
         THEN publisher' = [publisher EXCEPT ![w].pc = "checking",
                                             ![w].content = dir[a.place]]
         ELSE GoTo(w, "writing")
      /\ UNCHANGED <<token, live, dir, row, scan, starts, succeeded>>

(* The second check, with the manifest written and synced.                 *)
CheckBeforeMove(w) ==
  /\ publisher[w].pc = "writing"
  /\ IF Fenced(w) THEN GoTo(w, "replacing") ELSE GiveUp(w)
  /\ UNCHANGED <<token, live, dir, row, scan, starts, succeeded>>

(* Mutant: what is at the place is replaced.                               *)
MoveOver(w) ==
  /\ publisher[w].pc = "replacing"
  /\ dir' = [dir EXCEPT ![publisher[w].place] = publisher[w].content]
  /\ GoTo(w, "checking")
  /\ UNCHANGED <<token, live, row, scan, starts, succeeded>>

(* Mutant: the move alone counts as publication.                           *)
MoveUnrecorded(w) ==
  LET a == publisher[w]
  IN  /\ a.pc = "replacing"
      /\ IF dir[a.place] = None
         THEN dir' = [dir EXCEPT ![a.place] = a.content] /\ GoTo(w, "published")
         ELSE GiveUp(w) /\ UNCHANGED dir
      /\ UNCHANGED <<token, live, row, scan, starts, succeeded>>

(* os.replace: fails on a directory that is there by now.                  *)
Move(w) ==
  LET a == publisher[w]
  IN  /\ a.pc = "replacing"
      /\ IF dir[a.place] = None
         THEN dir' = [dir EXCEPT ![a.place] = a.content] /\ GoTo(w, "checking")
         ELSE GiveUp(w) /\ UNCHANGED dir
      /\ UNCHANGED <<token, live, row, scan, starts, succeeded>>

(* The SELECTs of record_artifact: the fence, and the row that may be      *)
(* there.  The same manifest is success, another one a conflict.           *)
CheckRow(w) ==
  LET a == publisher[w]
  IN  /\ a.pc = "checking"
      /\ IF ~Fenced(w) THEN GiveUp(w)
         ELSE IF row[a.place] = None THEN GoTo(w, "inserting")
         ELSE IF row[a.place] = a.content THEN GoTo(w, "published")
         ELSE GiveUp(w)
      /\ UNCHANGED <<token, live, dir, row, scan, starts, succeeded>>

(* The INSERT: UNIQUE turns a row that has appeared into a conflict.       *)
InsertRow(w) ==
  LET a == publisher[w]
  IN  /\ a.pc = "inserting"
      /\ IF row[a.place] = None
         THEN row' = [row EXCEPT ![a.place] = a.content] /\ GoTo(w, "published")
         ELSE GiveUp(w) /\ UNCHANGED row
      /\ UNCHANGED <<token, live, dir, scan, starts, succeeded>>

(* The process dies, or the stage raises; a temporary directory is left    *)
(* behind or removed, and nobody looks at it.                              *)
Crash(w) ==
  /\ publisher[w].pc # "idle"
  /\ GiveUp(w)
  /\ UNCHANGED <<token, live, dir, row, scan, starts, succeeded>>

-----------------------------------------------------------------------------
(*             reconcile: a pass over the complete directories             *)

(* A step of the pass that leaves disk and table alone.                    *)
PassGoesTo(next) ==
  /\ scan' = next
  /\ UNCHANGED <<token, live, dir, row, publisher, starts, succeeded>>

PassOn == [scan EXCEPT !.pc = "scanning", !.place = None, !.content = None]

(* Somebody starts it.  It lists the directories on its way: of those that *)
(* appear only while it is under way, it meets some.                       *)
BeginReconcile(later) ==
  LET present == {p \in Places : dir[p] # None}
  IN  /\ scan.pc = "idle"
      /\ PassGoesTo([NoPass EXCEPT !.pc = "scanning", !.present = present,
                                   !.todo = present \union later])

(* _read_complete, and the SELECT of reconcile_artifact: a place that has  *)
(* its row, and one that was never listed, are passed by.                  *)
ScanOrphan(p) ==
  /\ scan.pc = "scanning"
  /\ p \in scan.todo
  /\ PassGoesTo(IF dir[p] = None \/ row[p] # None
                THEN [scan EXCEPT !.todo = @ \ {p}]
                ELSE [scan EXCEPT !.todo = @ \ {p}, !.pc = "found",
                                  !.place = p, !.content = dir[p]])

(* The SELECT of record_artifact.  The same manifest is recorded already;  *)
(* another one is a conflict, which reconcile does not catch: the pass is  *)
(* over.                                                                   *)
CheckOrphan ==
  /\ scan.pc = "found"
  /\ PassGoesTo(IF row[scan.place] = None THEN [scan EXCEPT !.pc = "inserting"]
                ELSE IF row[scan.place] = scan.content THEN PassOn
                ELSE NoPass)

(* Mutant: reconciliation reports what it finds and records nothing.       *)
RecordNothing == scan.pc = "inserting" /\ PassGoesTo(PassOn)

(* The INSERT.  A row that has appeared is a conflict and ends the pass.   *)
RecordOrphan ==
  /\ scan.pc = "inserting"
  /\ IF row[scan.place] = None
     THEN row' = [row EXCEPT ![scan.place] = scan.content] /\ scan' = PassOn
     ELSE scan' = NoPass /\ UNCHANGED row
  /\ UNCHANGED <<token, live, dir, publisher, starts, succeeded>>

EndReconcile ==
  /\ scan.pc = "scanning"
  /\ scan.todo = {}
  /\ PassGoesTo(NoPass)

(* The process that reconciles dies.                                       *)
PassDies ==
  /\ scan.pc # "idle"
  /\ PassGoesTo(NoPass)

Reconcile ==
  \/ \E later \in SUBSET Places : BeginReconcile(later)
  \/ \E p \in Places : ScanOrphan(p)
  \/ CheckOrphan \/ RecordOrphan \/ EndReconcile \/ PassDies

-----------------------------------------------------------------------------
PublishStep(w) ==
  BeginPublish(w) \/ CheckBeforeMove(w) \/ Move(w) \/ CheckRow(w) \/ InsertRow(w) \/ Finish(w)

Next ==
  \/ \E w \in Workers, j \in Jobs, c \in Contents : Produce(w, j, c)
  \/ \E d \in Direct, p \in Places, c \in Contents : ProduceDirect(d, p, c)
  \/ \E j \in Jobs : \E cancelled \in SUBSET {j} : LoseLease(j, cancelled)
  \/ \E w \in Publishers : PublishStep(w) \/ Crash(w)
  \/ Reconcile

Spec == Init /\ [][Next]_vars

-----------------------------------------------------------------------------
(* A recorded artifact is on disk, with the content its manifest lists:    *)
(* no crash, stale worker, unfenced run or reconciliation makes a row that *)
(* points at nothing or at another attempt's files (publish,               *)
(* record_artifact, reconcile).                                            *)
RecordedIsOnDisk == \A p \in Places : row[p] # None => dir[p] = row[p]

(* What is published stays: neither a directory nor its row is replaced or *)
(* removed by a later attempt with different output (os.replace of a       *)
(* non-empty directory fails, artifacts rows are UNIQUE).                  *)
PublishedIsImmutable ==
  [][\A p \in Places : /\ dir[p] # None => dir'[p] = dir[p]
                       /\ row[p] # None => row'[p] = row[p]]_vars

(* A job succeeds only when the artifact of its place is recorded, so what *)
(* depends on the job finds its input (run_once completes after the stage).*)
SucceededIsRecorded == \A j \in succeeded : row[PlaceOf[j]] # None

(* A pass of reconcile that nothing ended leaves no orphan behind: of the  *)
(* directories that were complete when it began, each it is past has its   *)
(* row, by its own INSERT or by a publisher it raced, although a refused   *)
(* INSERT ends it at once (reconcile, reconcile_artifact, record_artifact).*)
PassLeavesNoOrphan ==
  scan.pc = "scanning" => \A p \in scan.present \ scan.todo : row[p] # None

(* Only a worker that holds the current fence of its job makes a directory *)
(* or a row appear (docs/jobs.md: "A lost lease therefore cannot expose    *)
(* stale output").  The code breaks it.                                    *)
LostLeaseExposesNothing ==
  [][\A w \in Workers : (publisher[w].pc \in {"replacing", "inserting"} /\ storage' # storage
                           /\ publisher'[w] # publisher[w])
                          => Fenced(w)]_vars
=============================================================================
