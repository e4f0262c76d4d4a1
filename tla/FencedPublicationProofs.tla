---------------------- MODULE FencedPublicationProofs ----------------------
(***************************************************************************)
(* What publication guarantees for any number of workers, direct runs,     *)
(* jobs and places: a recorded artifact is on disk as recorded, nothing    *)
(* published is replaced, and a finished job has its artifact.             *)
(***************************************************************************)
EXTENDS FencedPublication, TLAPS

(* A publisher that is past the move, and a pass of reconcile that has     *)
(* read a directory, hold what is on disk.                                 *)
HeldIsOnDisk ==
  /\ \A w \in Publishers : publisher[w].pc \in {"checking", "inserting"} =>
       dir[publisher[w].place] = publisher[w].content
  /\ scan.pc \in {"found", "inserting"} =>
       /\ scan.place \in Places /\ scan.content \in Contents
       /\ dir[scan.place] = scan.content

(* Who publishes does so at a place, content in hand, and for a job at the *)
(* job's place; who has published finds a row there.                       *)
PublishersInPlace ==
  \A w \in Publishers : publisher[w].pc # "idle" =>
    /\ publisher[w].place \in Places
    /\ publisher[w].content \in Contents
    /\ publisher[w].job \in Jobs => publisher[w].place = PlaceOf[publisher[w].job]
    /\ publisher[w].pc = "published" => row[publisher[w].place] # None

(* What a pass has behind it, but for the directory in hand, is recorded.  *)
BehindPass(s) == (s.present \ s.todo) \ (IF s.pc \in {"found", "inserting"} THEN {s.place} ELSE {})

BehindIsRecorded == scan.pc # "idle" => \A p \in BehindPass(scan) : row[p] # None

(* What was complete when the pass began is complete.                      *)
PresentStays == \A p \in scan.present : dir[p] # None

PublicationInv ==
  /\ TypeOK /\ HeldIsOnDisk /\ PublishersInPlace /\ RecordedIsOnDisk /\ SucceededIsRecorded
  /\ BehindIsRecorded /\ PresentStays

-----------------------------------------------------------------------------
(* The empty archive.                                                      *)
LEMMA PublicationInit == Init => PublicationInv
BY PublicationAssumption
   DEF Init, FenceInit, PublicationInv, TypeOK, FenceTypeOK, HeldIsOnDisk, PublishersInPlace,
       RecordedIsOnDisk, SucceededIsRecorded, BehindIsRecorded, PresentStays, Publication, Resting, Steps,
       Pass, NoPass

(* Handing out a lease keeps the fence typed ...                           *)
LEMMA GrantType ==
  ASSUME FenceTypeOK, NEW j \in Jobs, NEW S, Grant(j, S) PROVE FenceTypeOK'
BY DEF FenceTypeOK, Grant

(* ... and withdrawing one.                                                *)
LEMMA WithdrawType ==
  ASSUME FenceTypeOK, NEW S, NEW C, Withdraw(S, C) PROVE FenceTypeOK'
BY DEF FenceTypeOK, Withdraw

(* A publisher that claims, produces, advances without touching the disk   *)
(* or the table, or gives up.                                              *)
LEMMA QuietStep ==
  ASSUME PublicationInv, NEW w \in Publishers, NEW p,
         publisher' = [publisher EXCEPT ![w] = p],
         p \in Publication,
         p.pc # "idle" =>
           /\ p.place \in Places
           /\ p.content \in Contents
           /\ p.job \in Jobs => p.place = PlaceOf[p.job]
           /\ p.pc = "published" => row[p.place] # None,
         p.pc \in {"checking", "inserting"} => dir[p.place] = p.content,
         FenceTypeOK', starts' \in Nat,
         UNCHANGED <<dir, row, scan, succeeded>>
  PROVE  PublicationInv'
BY DEF PublicationInv, TypeOK, HeldIsOnDisk, PublishersInPlace, RecordedIsOnDisk,
       SucceededIsRecorded, BehindIsRecorded, PresentStays

(* Claims and direct runs, and leases that are lost.                       *)
LEMMA ProduceStep ==
  ASSUME PublicationInv, NEW w \in Workers, NEW j \in Jobs, NEW c \in Contents, Produce(w, j, c)
  PROVE  PublicationInv'
<1> DEFINE p == [pc |-> "produced", job |-> j, fence |-> token[j] + 1,
                 place |-> PlaceOf[j], content |-> c]
<1>1. p \in Publication
  BY PublicationAssumption DEF Publication, Steps, PublicationInv, TypeOK, FenceTypeOK
<1>2. FenceTypeOK'
  BY GrantType DEF PublicationInv, TypeOK, Produce
<1>3. p.place \in Places
  BY PublicationAssumption
<1>4. starts' \in Nat /\ UNCHANGED <<dir, row, scan, succeeded>>
  BY DEF Produce, PublicationInv, TypeOK
<1>5. publisher' = [publisher EXCEPT ![w] = p]
  BY DEF Produce
<1>6. w \in Publishers
  BY DEF Publishers
<1> HIDE DEF p
<1>7. p.pc = "produced" /\ p.content = c /\ p.job = j /\ p.place = PlaceOf[j]
  BY DEF p
<1> QED
  BY <1>1, <1>2, <1>3, <1>4, <1>5, <1>6, <1>7, QuietStep

(* A direct run starts.                                                    *)
LEMMA ProduceDirectStep ==
  ASSUME PublicationInv, NEW d \in Direct, NEW q \in Places, NEW c \in Contents,
         ProduceDirect(d, q, c)
  PROVE  PublicationInv'
<1> DEFINE p == [Resting EXCEPT !.pc = "produced", !.place = q, !.content = c]
<1>1. p \in Publication
  BY DEF Publication, Steps, Resting
<1>2. p.pc = "produced" /\ p.content = c /\ p.job = None /\ p.place = q
  BY DEF Resting
<1>3. starts' \in Nat /\ FenceTypeOK' /\ UNCHANGED <<dir, row, scan, succeeded>>
  BY DEF ProduceDirect, PublicationInv, TypeOK, FenceTypeOK
<1>4. publisher' = [publisher EXCEPT ![d] = p] /\ d \in Publishers
  BY DEF ProduceDirect, Publishers
<1> HIDE DEF p
<1> QED
  BY <1>1, <1>2, <1>3, <1>4, QuietStep, PublicationAssumption

(* Losing a lease touches the fence alone.                                 *)
LEMMA LoseLeaseStep ==
  ASSUME PublicationInv, NEW j \in Jobs, NEW C \in SUBSET {j}, LoseLease(j, C)
  PROVE  PublicationInv'
<1>1. FenceTypeOK'
  BY WithdrawType DEF PublicationInv, TypeOK, LoseLease
<1> QED
  BY <1>1 DEF LoseLease, PublicationInv, TypeOK, HeldIsOnDisk, PublishersInPlace,
              RecordedIsOnDisk, SucceededIsRecorded, BehindIsRecorded, PresentStays

-----------------------------------------------------------------------------
(*                     The steps of a publisher                            *)

(* Giving up, whether by a refusal or by a crash.                          *)
LEMMA GiveUpStep ==
  ASSUME PublicationInv, NEW w \in Publishers, GiveUp(w), FenceTypeOK',
         UNCHANGED <<dir, row, scan, starts, succeeded>>
  PROVE  PublicationInv'
<1>1. Resting \in Publication /\ Resting.pc = "idle"
  BY DEF Resting, Publication, Steps
<1>2. starts' \in Nat /\ publisher' = [publisher EXCEPT ![w] = Resting]
  BY DEF PublicationInv, TypeOK, GiveUp
<1> QED
  BY <1>1, <1>2, QuietStep

(* Advancing to a step that asks for nothing new.                          *)
LEMMA AdvanceStep ==
  ASSUME PublicationInv, NEW w \in Publishers, NEW pc \in Steps, GoTo(w, pc),
         publisher[w].pc # "idle",
         pc \in {"checking", "inserting"} => dir[publisher[w].place] = publisher[w].content,
         pc = "published" => row[publisher[w].place] # None,
         UNCHANGED <<token, live, dir, row, scan, starts, succeeded>>
  PROVE  PublicationInv'
<1> DEFINE p == [publisher[w] EXCEPT !.pc = pc]
<1>1. publisher[w] \in Publication
  BY DEF PublicationInv, TypeOK
<1>2. /\ p \in Publication
      /\ p.pc = pc
      /\ p.place = publisher[w].place
      /\ p.content = publisher[w].content
      /\ p.job = publisher[w].job
  BY <1>1 DEF Publication
<1>3. publisher' = [publisher EXCEPT ![w] = p]
  BY DEF GoTo
<1>4. FenceTypeOK' /\ starts' \in Nat
  BY DEF PublicationInv, TypeOK, FenceTypeOK
<1> HIDE DEF p
<1>5. /\ publisher[w].place \in Places
      /\ publisher[w].content \in Contents
      /\ publisher[w].job \in Jobs => publisher[w].place = PlaceOf[publisher[w].job]
  BY DEF PublicationInv, PublishersInPlace
<1> QED
  BY <1>2, <1>3, <1>4, <1>5, QuietStep

(* The first look at the final directory.                                  *)
LEMMA BeginPublishStep ==
  ASSUME PublicationInv, NEW w \in Publishers, BeginPublish(w) PROVE PublicationInv'
<1> DEFINE a == publisher[w]
<1>1. a \in Publication /\ a.pc = "produced" /\ a.place \in Places
  BY DEF BeginPublish, PublicationInv, TypeOK, PublishersInPlace
<1>2. UNCHANGED <<token, live, dir, row, scan, starts, succeeded>>
  BY DEF BeginPublish
<1>3. FenceTypeOK' /\ starts' \in Nat
  BY <1>2 DEF PublicationInv, TypeOK, FenceTypeOK
<1>4. CASE ~Fenced(w)
  BY <1>2, <1>3, <1>4, GiveUpStep DEF BeginPublish
<1>5. CASE Fenced(w) /\ dir[a.place] = None
  BY <1>1, <1>2, <1>5, AdvanceStep DEF BeginPublish, Steps
<1>6. CASE Fenced(w) /\ dir[a.place] # None
  <2> DEFINE p == [a EXCEPT !.pc = "checking", !.content = dir[a.place]]
  <2>1. dir[a.place] \in Contents
    BY <1>1, <1>6 DEF PublicationInv, TypeOK
  <2>2. /\ p \in Publication
        /\ p.pc = "checking"
        /\ p.place = a.place
        /\ p.content = dir[a.place]
        /\ p.job = a.job
    BY <1>1, <2>1 DEF Publication, Steps
  <2>3. publisher' = [publisher EXCEPT ![w] = p]
    BY <1>1, <1>6 DEF BeginPublish, PublicationInv, TypeOK
  <2>4. a.job \in Jobs => a.place = PlaceOf[a.job]
    BY <1>1 DEF PublicationInv, PublishersInPlace
  <2> HIDE DEF p
  <2> QED
    BY <1>1, <1>2, <1>3, <2>1, <2>2, <2>3, <2>4, QuietStep
<1> QED
  BY <1>4, <1>5, <1>6

(* The second fence check.                                                 *)
LEMMA CheckBeforeMoveStep ==
  ASSUME PublicationInv, NEW w \in Publishers, CheckBeforeMove(w) PROVE PublicationInv'
<1>1. UNCHANGED <<token, live, dir, row, scan, starts, succeeded>> /\ FenceTypeOK'
  BY DEF CheckBeforeMove, PublicationInv, TypeOK, FenceTypeOK
<1> QED
  BY <1>1, GiveUpStep, AdvanceStep DEF CheckBeforeMove, Steps

(* The move: nobody could hold what was not there, so what others hold at  *)
(* this place does not change.                                             *)
LEMMA MoveStep ==
  ASSUME PublicationInv, NEW w \in Publishers, Move(w) PROVE PublicationInv'
<1> DEFINE a == publisher[w]
<1>1. /\ a \in Publication /\ a.pc = "replacing" /\ a.place \in Places /\ a.content \in Contents
      /\ a.job \in Jobs => a.place = PlaceOf[a.job]
  BY DEF Move, PublicationInv, TypeOK, PublishersInPlace
<1>2. UNCHANGED <<token, live, row, scan, starts, succeeded>> /\ FenceTypeOK'
  BY DEF Move, PublicationInv, TypeOK, FenceTypeOK
<1>3. CASE dir[a.place] # None
  BY <1>2, <1>3, GiveUpStep DEF Move
<1>4. CASE dir[a.place] = None
  <2>1. /\ dir' = [dir EXCEPT ![a.place] = a.content]
        /\ publisher' = [publisher EXCEPT ![w] = [a EXCEPT !.pc = "checking"]]
    BY <1>4 DEF Move, GoTo
  <2>2. [a EXCEPT !.pc = "checking"] \in Publication
    BY <1>1 DEF Publication, Steps
  <2>3. /\ publisher'[w].pc = "checking"
        /\ publisher'[w].place = a.place
        /\ publisher'[w].content = a.content
        /\ publisher'[w].job = a.job
        /\ \A v \in Publishers \ {w} : publisher'[v] = publisher[v]
    BY <1>1, <2>1 DEF PublicationInv, TypeOK, Publication
  <2>4. \A p \in Places : dir[p] # None => dir'[p] = dir[p]
    BY <1>4, <2>1 DEF PublicationInv, TypeOK
  <2>5. TypeOK'
    BY <1>1, <1>2, <2>1, <2>2 DEF PublicationInv, TypeOK
  <2>6. HeldIsOnDisk'
    <3>1. \A v \in Publishers : publisher'[v].pc \in {"checking", "inserting"} =>
            dir'[publisher'[v].place] = publisher'[v].content
      <4> SUFFICES ASSUME NEW v \in Publishers, publisher'[v].pc \in {"checking", "inserting"}
                   PROVE  dir'[publisher'[v].place] = publisher'[v].content
        OBVIOUS
      <4>1. CASE v = w
        BY <1>1, <2>1, <2>3, <4>1 DEF PublicationInv, TypeOK
      <4>2. CASE v # w
        <5>1. /\ publisher[v].place \in Places
              /\ publisher[v].content \in Contents
              /\ dir[publisher[v].place] = publisher[v].content
          BY <2>3, <4>2 DEF PublicationInv, HeldIsOnDisk, PublishersInPlace
        <5> QED
          BY <2>3, <2>4, <4>2, <5>1, PublicationAssumption
      <4> QED
        BY <4>1, <4>2
    <3> QED
      BY <1>2, <2>4, <3>1, PublicationAssumption DEF PublicationInv, HeldIsOnDisk
  <2>7. PublishersInPlace'
    BY <1>1, <1>2, <2>3 DEF PublicationInv, PublishersInPlace
  <2>8. RecordedIsOnDisk'
    BY <1>2, <2>4 DEF PublicationInv, RecordedIsOnDisk, TypeOK
  <2>9. SucceededIsRecorded' /\ BehindIsRecorded' /\ PresentStays'
    BY <1>2, <2>4 DEF PublicationInv, TypeOK, SucceededIsRecorded, BehindIsRecorded, PresentStays, Pass
  <2> QED
    BY <2>5, <2>6, <2>7, <2>8, <2>9 DEF PublicationInv
<1> QED
  BY <1>3, <1>4

(* The look for a row of the same place.                                   *)
LEMMA CheckRowStep ==
  ASSUME PublicationInv, NEW w \in Publishers, CheckRow(w) PROVE PublicationInv'
<1>1. UNCHANGED <<token, live, dir, row, scan, starts, succeeded>> /\ FenceTypeOK'
  BY DEF CheckRow, PublicationInv, TypeOK, FenceTypeOK
<1>2. /\ publisher[w].pc = "checking"
      /\ publisher[w].content # None
      /\ dir[publisher[w].place] = publisher[w].content
  BY PublicationAssumption DEF CheckRow, PublicationInv, PublishersInPlace, HeldIsOnDisk
<1> QED
  BY <1>1, <1>2, GiveUpStep, AdvanceStep DEF CheckRow, Steps

(* The row names what the inserter holds, which is what is on disk.        *)
LEMMA InsertRowStep ==
  ASSUME PublicationInv, NEW w \in Publishers, InsertRow(w) PROVE PublicationInv'
<1> DEFINE a == publisher[w]
<1>1. /\ a \in Publication /\ a.pc = "inserting" /\ a.place \in Places /\ a.content \in Contents
      /\ a.content # None
      /\ dir[a.place] = a.content
  BY PublicationAssumption
     DEF InsertRow, PublicationInv, TypeOK, PublishersInPlace, HeldIsOnDisk
<1>2. UNCHANGED <<token, live, dir, scan, starts, succeeded>> /\ FenceTypeOK'
  BY DEF InsertRow, PublicationInv, TypeOK, FenceTypeOK
<1>3. CASE row[a.place] # None
  BY <1>2, <1>3, GiveUpStep DEF InsertRow
<1>4. CASE row[a.place] = None
  <2>1. /\ row' = [row EXCEPT ![a.place] = a.content]
        /\ publisher' = [publisher EXCEPT ![w] = [a EXCEPT !.pc = "published"]]
    BY <1>4 DEF InsertRow, GoTo
  <2>2. [a EXCEPT !.pc = "published"] \in Publication
    BY <1>1 DEF Publication, Steps
  <2>3. /\ publisher'[w].pc = "published"
        /\ publisher'[w].place = a.place
        /\ publisher'[w].content = a.content
        /\ publisher'[w].job = a.job
        /\ \A v \in Publishers \ {w} : publisher'[v] = publisher[v]
    BY <1>1, <2>1 DEF PublicationInv, TypeOK, Publication
  <2>4. /\ \A p \in Places : row[p] # None => row'[p] # None
        /\ row'[a.place] = a.content
        /\ \A p \in Places \ {a.place} : row'[p] = row[p]
    BY <1>1, <2>1 DEF PublicationInv, TypeOK
  <2>5. TypeOK'
    BY <1>1, <1>2, <2>1, <2>2 DEF PublicationInv, TypeOK
  <2>6. HeldIsOnDisk'
    BY <1>2, <2>3 DEF PublicationInv, HeldIsOnDisk
  <2>7. PublishersInPlace'
    BY <1>1, <2>3, <2>4 DEF PublicationInv, PublishersInPlace
  <2>8. RecordedIsOnDisk'
    BY <1>1, <1>2, <2>4 DEF PublicationInv, RecordedIsOnDisk
  <2>9. SucceededIsRecorded'
    BY <1>2, <2>4, PublicationAssumption DEF PublicationInv, TypeOK, SucceededIsRecorded
  <2>10. BehindIsRecorded' /\ PresentStays'
    BY <1>2, <2>4 DEF PublicationInv, TypeOK, BehindIsRecorded, BehindPass, PresentStays, Pass
  <2> QED
    BY <2>5, <2>6, <2>7, <2>8, <2>9, <2>10 DEF PublicationInv
<1> QED
  BY <1>3, <1>4

(* A job that succeeds was published at its place.                         *)
LEMMA FinishStep ==
  ASSUME PublicationInv, NEW w \in Publishers, Finish(w) PROVE PublicationInv'
<1> DEFINE a == publisher[w]
<1>1. /\ a \in Publication /\ a.pc = "published"
      /\ a.place \in Places /\ row[a.place] # None
      /\ a.job \in Jobs => a.place = PlaceOf[a.job]
  BY DEF Finish, PublicationInv, TypeOK, PublishersInPlace
<1>2. UNCHANGED <<dir, row, scan, starts>> /\ GiveUp(w)
  BY DEF Finish, GiveUp
<1>3. CASE UNCHANGED <<token, live, succeeded>>
  <2>1. FenceTypeOK'
    BY <1>3 DEF PublicationInv, TypeOK, FenceTypeOK
  <2> QED
    BY <1>2, <1>3, <2>1, GiveUpStep
<1>4. CASE /\ a.job # None
           /\ Withdraw({a.job}, {})
           /\ succeeded' = succeeded \union {a.job}
  <2>1. a.job \in Jobs /\ FenceTypeOK'
    BY <1>1, <1>4, WithdrawType DEF Publication, PublicationInv, TypeOK
  <2>2. Resting \in Publication /\ Resting.pc = "idle"
    BY DEF Resting, Publication, Steps
  <2>3. publisher' = [publisher EXCEPT ![w] = Resting]
    BY <1>2 DEF GiveUp
  <2>4. TypeOK'
    BY <1>2, <1>4, <2>1, <2>2, <2>3 DEF PublicationInv, TypeOK
  <2>5. HeldIsOnDisk' /\ PublishersInPlace' /\ RecordedIsOnDisk' /\ BehindIsRecorded' /\ PresentStays'
    BY <1>2, <2>2, <2>3
       DEF PublicationInv, TypeOK, HeldIsOnDisk, PublishersInPlace, RecordedIsOnDisk,
           BehindIsRecorded, PresentStays
  <2>6. SucceededIsRecorded'
    BY <1>1, <1>2, <1>4, <2>1 DEF PublicationInv, SucceededIsRecorded
  <2> QED
    BY <2>4, <2>5, <2>6 DEF PublicationInv
<1> QED
  BY <1>3, <1>4 DEF Finish

-----------------------------------------------------------------------------
(*                           Reconciliation                                *)

(* A step of the pass that leaves disk and table alone keeps the invariant *)
(* when what the pass then has in hand and behind it is as it should be.   *)
LEMMA PassStep ==
  ASSUME PublicationInv, NEW next \in Pass, PassGoesTo(next),
         next.pc \in {"found", "inserting"} =>
           /\ next.place \in Places /\ next.content \in Contents
           /\ dir[next.place] = next.content,
         next.pc # "idle" => \A p \in BehindPass(next) : row[p] # None,
         next.present \subseteq {p \in Places : dir[p] # None}
  PROVE  PublicationInv'
BY DEF PassGoesTo, PublicationInv, TypeOK, FenceTypeOK, HeldIsOnDisk, PublishersInPlace,
       RecordedIsOnDisk, SucceededIsRecorded, BehindIsRecorded, PresentStays

(* The pass has the next directory ahead of it.                            *)
LEMMA PassGoesOn ==
  ASSUME scan \in Pass
  PROVE  /\ PassOn \in Pass /\ PassOn.pc = "scanning"
         /\ PassOn.present = scan.present /\ PassOn.todo = scan.todo
BY DEF Pass, PassOn

(* The pass stops, whether done, refused or dead.                          *)
LEMMA PassStops ==
  ASSUME PublicationInv, PassGoesTo(NoPass) PROVE PublicationInv'
<1>1. NoPass \in Pass /\ NoPass.pc = "idle" /\ NoPass.present = {}
  BY DEF NoPass, Pass
<1> QED
  BY <1>1, PassStep

(* A pass begins with all that is complete ahead of it.                    *)
LEMMA BeginReconcileStep ==
  ASSUME PublicationInv, NEW later \in SUBSET Places, BeginReconcile(later) PROVE PublicationInv'
<1> DEFINE present == {p \in Places : dir[p] # None}
           next == [NoPass EXCEPT !.pc = "scanning", !.present = present, !.todo = present \union later]
<1>1. next \in Pass
  BY DEF NoPass, Pass
<1>2. next.pc = "scanning" /\ next.present \subseteq next.todo /\ next.present = present
  BY DEF NoPass
<1>3. PassGoesTo(next)
  BY DEF BeginReconcile
<1> HIDE DEF next
<1> QED
  BY <1>1, <1>2, <1>3, PassStep DEF BehindPass

(* It reads a directory without a row, or goes past one that has its row.  *)
LEMMA ScanOrphanStep ==
  ASSUME PublicationInv, NEW p \in Places, ScanOrphan(p) PROVE PublicationInv'
<1>1. /\ scan \in Pass /\ scan.pc = "scanning"
      /\ \A q \in scan.present \ scan.todo : row[q] # None
      /\ scan.present \subseteq {q \in Places : dir[q] # None}
  BY DEF ScanOrphan, PublicationInv, TypeOK, BehindIsRecorded, BehindPass, PresentStays, Pass
<1>2. CASE dir[p] # None /\ row[p] = None
  <2> DEFINE next == [scan EXCEPT !.todo = @ \ {p}, !.pc = "found", !.place = p, !.content = dir[p]]
  <2>1. dir[p] \in Contents
    BY <1>2 DEF PublicationInv, TypeOK
  <2>2. /\ next \in Pass /\ next.pc = "found" /\ next.place = p /\ next.content = dir[p]
        /\ next.present = scan.present /\ next.todo = scan.todo \ {p}
    BY <1>1, <2>1 DEF Pass
  <2>3. PassGoesTo(next)
    BY <1>2 DEF ScanOrphan
  <2> HIDE DEF next
  <2>4. \A q \in BehindPass(next) : row[q] # None
    BY <1>1, <2>2 DEF BehindPass
  <2> QED
    BY <1>1, <2>1, <2>2, <2>3, <2>4, PassStep
<1>3. CASE row[p] # None \/ (dir[p] = None /\ row[p] = None)
  <2> DEFINE next == [scan EXCEPT !.todo = @ \ {p}]
  <2>1. /\ next \in Pass /\ next.pc = "scanning"
        /\ next.present = scan.present /\ next.todo = scan.todo \ {p}
    BY <1>1 DEF Pass
  <2>2. PassGoesTo(next)
    BY <1>3 DEF ScanOrphan
  <2>3. p \in scan.present => dir[p] # None
    BY <1>1
  <2> HIDE DEF next
  <2>4. \A q \in BehindPass(next) : row[q] # None
    BY <1>1, <1>3, <2>1, <2>3 DEF BehindPass
  <2> QED
    BY <1>1, <2>1, <2>2, <2>4, PassStep
<1> QED
  BY <1>2, <1>3

(* record_artifact finds no row, the same manifest, or a conflict ...      *)
LEMMA CheckOrphanStep ==
  ASSUME PublicationInv, CheckOrphan PROVE PublicationInv'
<1>1. /\ scan \in Pass /\ scan.pc = "found"
      /\ scan.place \in Places /\ scan.content \in Contents /\ dir[scan.place] = scan.content
      /\ \A q \in (scan.present \ scan.todo) \ {scan.place} : row[q] # None
      /\ scan.present \subseteq {q \in Places : dir[q] # None}
  BY DEF CheckOrphan, PublicationInv, TypeOK, HeldIsOnDisk, BehindIsRecorded, BehindPass,
         PresentStays, Pass
<1>2. CASE row[scan.place] = None
  <2> DEFINE next == [scan EXCEPT !.pc = "inserting"]
  <2>1. /\ next \in Pass /\ next.pc = "inserting" /\ next.place = scan.place
        /\ next.content = scan.content /\ next.present = scan.present /\ next.todo = scan.todo
    BY <1>1 DEF Pass
  <2>2. PassGoesTo(next)
    BY <1>2 DEF CheckOrphan
  <2> HIDE DEF next
  <2> QED
    BY <1>1, <2>1, <2>2, PassStep DEF BehindPass
<1>3. CASE row[scan.place] # None /\ row[scan.place] = scan.content
  <2>1. PassGoesTo(PassOn)
    BY <1>3 DEF CheckOrphan
  <2>2. \A q \in BehindPass(PassOn) : row[q] # None
    BY <1>1, <1>3, PassGoesOn DEF BehindPass
  <2> QED
    BY <1>1, <2>1, <2>2, PassGoesOn, PassStep
<1>4. CASE row[scan.place] # None /\ row[scan.place] # scan.content
  BY <1>4, PassStops DEF CheckOrphan
<1> QED
  BY <1>2, <1>3, <1>4

(* ... and the INSERT records the content that was read there.             *)
LEMMA RecordOrphanStep ==
  ASSUME PublicationInv, RecordOrphan PROVE PublicationInv'
<1>1. /\ scan \in Pass /\ scan.pc = "inserting"
      /\ scan.place \in Places /\ scan.content \in Contents /\ scan.content # None
      /\ dir[scan.place] = scan.content
      /\ \A q \in (scan.present \ scan.todo) \ {scan.place} : row[q] # None
  BY PublicationAssumption
     DEF RecordOrphan, PublicationInv, TypeOK, HeldIsOnDisk, BehindIsRecorded, BehindPass
<1>2. CASE row[scan.place] # None
  <2>1. PassGoesTo(NoPass)
    BY <1>2 DEF RecordOrphan, PassGoesTo
  <2> QED
    BY <2>1, PassStops
<1>3. CASE row[scan.place] = None
  <2>1. /\ row' = [row EXCEPT ![scan.place] = scan.content] /\ scan' = PassOn
        /\ UNCHANGED <<token, live, dir, publisher, starts, succeeded>>
    BY <1>3 DEF RecordOrphan
  <2>2. /\ row' \in [Places -> Contents \union {None}]
        /\ \A p \in Places : /\ row[p] # None => row'[p] # None
                             /\ row'[p] = row[p] \/ (p = scan.place /\ row'[p] = dir[p])
        /\ row'[scan.place] # None
    BY <1>1, <2>1 DEF PublicationInv, TypeOK
  <2>3. TypeOK' /\ HeldIsOnDisk'
    <3>1. scan' \in Pass /\ scan'.pc = "scanning"
      BY <1>1, <2>1, PassGoesOn
    <3>2. TypeOK'
      BY <2>1, <2>2, <3>1 DEF PublicationInv, TypeOK, FenceTypeOK
    <3>3. HeldIsOnDisk'
      BY <2>1, <3>1 DEF PublicationInv, HeldIsOnDisk
    <3> QED
      BY <3>2, <3>3
  <2>4. PublishersInPlace'
    BY <2>1, <2>2 DEF PublicationInv, PublishersInPlace
  <2>5. RecordedIsOnDisk'
    <3>1. dir' = dir /\ \A p \in Places : row[p] # None => dir[p] = row[p]
      BY <2>1 DEF PublicationInv, RecordedIsOnDisk
    <3> QED
      BY <2>2, <3>1 DEF RecordedIsOnDisk
  <2>6. SucceededIsRecorded'
    BY <2>1, <2>2, PublicationAssumption DEF PublicationInv, TypeOK, SucceededIsRecorded
  <2>7. BehindIsRecorded' /\ PresentStays'
    <3>1. BehindPass(PassOn) = scan.present \ scan.todo /\ BehindPass(PassOn) \subseteq Places
      BY <1>1, PassGoesOn DEF BehindPass, Pass
    <3>2. BehindIsRecorded'
      BY <1>1, <2>1, <2>2, <3>1 DEF BehindIsRecorded
    <3>3. PresentStays'
      BY <1>1, <2>1, PassGoesOn DEF PublicationInv, PresentStays
    <3> QED
      BY <3>2, <3>3
  <2> QED
    BY <2>3, <2>4, <2>5, <2>6, <2>7 DEF PublicationInv
<1> QED
  BY <1>2, <1>3

(* Every step of the pass.                                                 *)
LEMMA ReconcileStep ==
  ASSUME PublicationInv, Reconcile PROVE PublicationInv'
BY BeginReconcileStep, ScanOrphanStep, CheckOrphanStep, RecordOrphanStep, PassStops
   DEF Reconcile, EndReconcile, PassDies

-----------------------------------------------------------------------------
(* Every step preserves the invariant.                                     *)
LEMMA PublicationStep ==
  ASSUME PublicationInv, [Next]_vars PROVE PublicationInv'
<1>1. CASE \E w \in Workers, j \in Jobs, c \in Contents : Produce(w, j, c)
  BY <1>1, ProduceStep
<1>2. CASE \E d \in Direct, p \in Places, c \in Contents : ProduceDirect(d, p, c)
  BY <1>2, ProduceDirectStep
<1>3. CASE \E j \in Jobs : \E cancelled \in SUBSET {j} : LoseLease(j, cancelled)
  BY <1>3, LoseLeaseStep
<1>4. CASE \E w \in Publishers : PublishStep(w)
  BY <1>4, BeginPublishStep, CheckBeforeMoveStep, MoveStep, CheckRowStep, InsertRowStep,
     FinishStep DEF PublishStep
<1>5. CASE \E w \in Publishers : Crash(w)
  <2>1. PICK w \in Publishers : Crash(w)
    BY <1>5
  <2>2. FenceTypeOK'
    BY <2>1 DEF Crash, PublicationInv, TypeOK, FenceTypeOK
  <2> QED
    BY <2>1, <2>2, GiveUpStep DEF Crash
<1>6. CASE Reconcile
  BY <1>6, ReconcileStep
<1>7. CASE UNCHANGED vars
  BY <1>7 DEF vars, PublicationInv, TypeOK, FenceTypeOK, HeldIsOnDisk, PublishersInPlace,
     RecordedIsOnDisk, SucceededIsRecorded, BehindIsRecorded, PresentStays
<1> QED
  BY <1>1, <1>2, <1>3, <1>4, <1>5, <1>6, <1>7 DEF Next

(* Every variable keeps its type.                                          *)
THEOREM PublicationTypes == Spec => []TypeOK
<1>1. PublicationInv => TypeOK
  BY DEF PublicationInv
<1> QED
  BY PublicationInit, PublicationStep, <1>1, PTL DEF Spec

(* A recorded artifact is on disk, with the content its manifest lists.    *)
THEOREM RecordedOnDisk == Spec => []RecordedIsOnDisk
<1>1. PublicationInv => RecordedIsOnDisk
  BY DEF PublicationInv
<1> QED
  BY PublicationInit, PublicationStep, <1>1, PTL DEF Spec

(* A job that succeeded has its artifact recorded.                         *)
THEOREM SucceededRecorded == Spec => []SucceededIsRecorded
<1>1. PublicationInv => SucceededIsRecorded
  BY DEF PublicationInv
<1> QED
  BY PublicationInit, PublicationStep, <1>1, PTL DEF Spec

(* What a pass of reconcile is past has its row: the directory in hand     *)
(* aside, nothing complete at its beginning is behind it unrecorded.       *)
THEOREM PassLeavesNone == Spec => []PassLeavesNoOrphan
<1>1. PublicationInv => PassLeavesNoOrphan
  BY DEF PublicationInv, BehindIsRecorded, BehindPass, PassLeavesNoOrphan
<1> QED
  BY PublicationInit, PublicationStep, <1>1, PTL DEF Spec

(* Neither a directory nor its row is ever replaced or removed: only the   *)
(* move writes a directory and only the inserts write a row, each where    *)
(* there was none.                                                         *)
THEOREM PublishedForEver == Spec => PublishedIsImmutable
<1> DEFINE Kept == \A p \in Places : /\ dir[p] # None => dir'[p] = dir[p]
                                     /\ row[p] # None => row'[p] = row[p]
<1>1. PublicationInv /\ [Next]_vars => [Kept]_vars
  <2> SUFFICES ASSUME PublicationInv, Next PROVE Kept
    BY DEF vars
  <2>1. dir \in [Places -> Contents \union {None}] /\ row \in [Places -> Contents \union {None}]
    BY DEF PublicationInv, TypeOK
  <2>2. CASE \E w \in Publishers : Move(w)
    BY <2>1, <2>2 DEF Move
  <2>3. CASE \E w \in Publishers : InsertRow(w)
    BY <2>1, <2>3 DEF InsertRow
  <2>4. CASE RecordOrphan
    BY <2>1, <2>4 DEF RecordOrphan
  <2>5. CASE UNCHANGED <<dir, row>>
    BY <2>5
  <2> QED
    BY <2>2, <2>3, <2>4, <2>5
       DEF Next, Produce, ProduceDirect, LoseLease, PublishStep, BeginPublish, CheckBeforeMove,
           CheckRow, Finish, Crash, Reconcile, BeginReconcile, ScanOrphan, CheckOrphan,
           EndReconcile, PassDies, PassGoesTo
<1> QED
  BY PublicationInit, PublicationStep, <1>1, PTL DEF Spec, PublishedIsImmutable
=============================================================================
