------------------------------- MODULE Reviews -------------------------------
(***************************************************************************)
(* Append-only human reviews: the annotation of an episode, the music      *)
(* decision on a calibration clip, the P1R-03D decision on a queue item,   *)
(* and the reference of a chunk.  A page shows a revision, a save names it *)
(* and is refused when it is no longer the last.  All but the chunk review *)
(* read the last revision before SQLite opens their transaction: the       *)
(* SELECT runs in autocommit, the INSERT takes the write lock, and only    *)
(* the UNIQUE constraint stands between two saves that read the same.      *)
(***************************************************************************)
EXTENDS Integers, Sequences, FiniteSets, FiniteSetsExt

CONSTANTS
  Logs,       \* what is reviewed: episodes, clips, queue items and chunks
  KindOf,     \* "annotation", "decision" or "chunk"
  Reviewers,  \* the open pages, one for each reviewer
  MaxSaves    \* bound: submissions of one page

ASSUME ReviewsAssumption ==
  /\ KindOf \in [Logs -> {"annotation", "decision", "chunk"}]
  /\ MaxSaves \in Nat

VARIABLES
  rows,        \* the stored revisions of each log
  references,  \* the transcript_references of each chunk, in order
  exports,     \* the saves whose annotation export is published
  pages        \* what each reviewer's page shows and what its save is doing

reviews == <<rows, references, exports, pages>>

NoSave == <<"nobody", 0>>

Closed ==
  [log |-> "none", revision |-> 0, basis |-> NoSave, step |-> "closed", saves |-> 0]

ReviewsInit ==
  /\ rows = [l \in Logs |-> {}]
  /\ references = [l \in Logs |-> <<>>]
  /\ exports = {}
  /\ pages = [v \in Reviewers |-> Closed]

(* SELECT MAX(revision), 0 without a row.                                  *)
LastRevision(log) == Max({0} \union {r.revision : r \in rows[log]})

LastSave(log) ==
  IF rows[log] = {} THEN NoSave
  ELSE (CHOOSE r \in rows[log] : r.revision = LastRevision(log)).save

(* A submission: the reviewer and the number of the save.                  *)
SaveOf(v) == <<v, pages[v].saves>>

Step(v, step) == pages' = [pages EXCEPT ![v].step = step]

-----------------------------------------------------------------------------
(* The page reads the last revision and offers it for editing.             *)
OpenPage(v, log) ==
  /\ pages[v].step \in {"closed", "conflict", "error", "hidden", "lost", "saved"}
  /\ pages' = [pages EXCEPT ![v] =
                 [log |-> log, revision |-> LastRevision(log), basis |-> LastSave(log),
                  step |-> "editing", saves |-> pages[v].saves]]
  /\ UNCHANGED <<rows, references, exports>>

(* The form is sent, also once more after an answer that was not a success *)
(* or did not arrive: the page keeps the revision it shows.                *)
Submit(v) ==
  /\ pages[v].step \in {"editing", "conflict", "error", "hidden", "lost"}
  /\ pages[v].saves < MaxSaves
  /\ pages' = [pages EXCEPT ![v].step = "sent", ![v].saves = @ + 1]
  /\ UNCHANGED <<rows, references, exports>>

(* Validation refuses the payload before anything is read for the save.    *)
RefusePayload(v) ==
  /\ pages[v].step = "sent"
  /\ Step(v, "error")
  /\ UNCHANGED <<rows, references, exports>>

CheckRevision(v) ==
  /\ pages[v].step = "sent" /\ KindOf[pages[v].log] # "chunk"
  /\ Step(v, IF LastRevision(pages[v].log) = pages[v].revision THEN "checked" ELSE "conflict")
  /\ UNCHANGED <<rows, references, exports>>

Row(v, reference) ==
  [revision |-> pages[v].revision + 1, save |-> SaveOf(v), basis |-> pages[v].basis,
   reference |-> reference]

(* Mutant: the table has no UNIQUE constraint on the revision.             *)
AlwaysUnique(log, revision) == TRUE

IsUnique(log, revision) == \A r \in rows[log] : r.revision # revision

(* The INSERT, and the commit.  A page whose save succeeded shows the new  *)
(* revision; an annotation is published before it is answered.             *)
InsertRow(v) ==
  LET log == pages[v].log
  IN /\ pages[v].step = "checked"
     /\ IF IsUnique(log, pages[v].revision + 1)
        THEN /\ rows' = [rows EXCEPT ![log] = @ \union {Row(v, "none")}]
             /\ Step(v, IF KindOf[log] = "annotation" THEN "publishing" ELSE "stored")
        ELSE rows' = rows /\ Step(v, "conflict")
     /\ UNCHANGED <<references, exports>>

(* SQLite gives up waiting for the write lock of another connection.       *)
LockTimeout(v) ==
  /\ \/ pages[v].step = "checked"
     \/ pages[v].step = "sent" /\ KindOf[pages[v].log] = "chunk"
  /\ \E w \in Reviewers \ {v} : pages[w].step \in {"sent", "checked"}
  /\ Step(v, "error")
  /\ UNCHANGED <<rows, references, exports>>

(* publish_annotation_export: the row stays when it fails, hidden by an    *)
(* answer that is an error.                                                *)
PublishExport(v) ==
  /\ pages[v].step = "publishing"
  /\ exports' = exports \union {SaveOf(v)}
  /\ Step(v, "stored")
  /\ UNCHANGED <<rows, references>>

FailExport(v) ==
  /\ pages[v].step = "publishing"
  /\ Step(v, "hidden")
  /\ UNCHANGED <<rows, references, exports>>

(* The answer arrives: the page goes on from its own revision.             *)
Answer(v) ==
  /\ pages[v].step = "stored"
  /\ pages' = [pages EXCEPT ![v].step = "saved", ![v].revision = @ + 1, ![v].basis = SaveOf(v)]
  /\ UNCHANGED <<rows, references, exports>>

EditOn(v) ==
  /\ pages[v].step = "saved"
  /\ Step(v, "editing")
  /\ UNCHANGED <<rows, references, exports>>

(* The process or the connection is gone: nothing open is committed, and   *)
(* the page does not know what was.                                        *)
LoseAnswer(v) ==
  /\ pages[v].step \in {"sent", "checked", "publishing", "stored"}
  /\ Step(v, "lost")
  /\ UNCHANGED <<rows, references, exports>>

-----------------------------------------------------------------------------
(* The chunk review reads and appends under BEGIN IMMEDIATE.               *)

(* The reference the next revision belongs to: that of the last revision,  *)
(* or the last one registered, or a new one.                               *)
CurrentReference(log) ==
  IF rows[log] # {}
    THEN (CHOOSE r \in rows[log] : r.revision = Cardinality(rows[log])).reference
  ELSE IF references[log] # <<>> THEN references[log][Len(references[log])]
  ELSE "review"

SaveChunkReview(v) ==
  LET log == pages[v].log
      reference == CurrentReference(log)
      earlier == {r \in rows[log] : r.reference = reference}
      next == Row(v, reference)
  IN /\ pages[v].step = "sent" /\ KindOf[log] = "chunk"
     /\ IF pages[v].revision = Cardinality(rows[log])
        THEN /\ references' = IF rows[log] = {} /\ references[log] = <<>>
                                THEN [references EXCEPT ![log] = <<reference>>] ELSE references
             /\ rows' = [rows EXCEPT ![log] =
                           @ \union {[next EXCEPT !.revision = Cardinality(earlier) + 1]}]
             /\ Step(v, "stored")
        ELSE UNCHANGED <<rows, references>> /\ Step(v, "conflict")
     /\ UNCHANGED exports

(* After the commit the answer reads the chunk once more, outside the      *)
(* transaction; when that fails it is an error too.                        *)
FailReread(v) ==
  /\ pages[v].step = "stored" /\ KindOf[pages[v].log] = "chunk"
  /\ Step(v, "hidden")
  /\ UNCHANGED <<rows, references, exports>>

(* record_chunk_benchmark_manifest registers the reference it brings.      *)
ImportReference(log) ==
  /\ KindOf[log] = "chunk"
  /\ \A i \in DOMAIN references[log] : references[log][i] # "imported"
  /\ references' = [references EXCEPT ![log] = Append(@, "imported")]
  /\ UNCHANGED <<rows, exports, pages>>

ReviewsNext ==
  \/ \E log \in Logs : ImportReference(log)
  \/ \E v \in Reviewers :
       \/ \E log \in Logs : OpenPage(v, log)
       \/ Submit(v)
       \/ RefusePayload(v)
       \/ CheckRevision(v)
       \/ InsertRow(v)
       \/ LockTimeout(v)
       \/ PublishExport(v)
       \/ FailExport(v)
       \/ Answer(v)
       \/ EditOn(v)
       \/ LoseAnswer(v)
       \/ SaveChunkReview(v)
       \/ FailReread(v)

ReviewsSpec == ReviewsInit /\ [][ReviewsNext]_reviews

-----------------------------------------------------------------------------
(* Properties *)

StoredSaves == UNION {{r.save : r \in rows[l]} : l \in Logs}

(* No review is ever written over or beside another: the revisions of a    *)
(* log are one chain, each made from a page that showed the one before it, *)
(* those of a chunk all in one reference, whatever saves race, repeat or   *)
(* lose their answer.  A save that was answered with a conflict or an      *)
(* error left nothing, one that was answered with success is stored, and   *)
(* an annotation with its export; the errors that hide a stored row are    *)
(* the failed export and the failed read after the commit of a chunk       *)
(* (storage.py:3396, annotations.py:459, chunk_review.py:202).             *)
NoReviewIsLost ==
  /\ \A l \in Logs :
       /\ {r.revision : r \in rows[l]} = 1..Cardinality(rows[l])
       /\ \A r \in rows[l] :
            IF r.revision = 1 THEN r.basis = NoSave
            ELSE \E p \in rows[l] : p.revision = r.revision - 1 /\ p.save = r.basis
       /\ KindOf[l] = "chunk" => \A r, s \in rows[l] : r.reference = s.reference
  /\ \A v \in Reviewers :
       /\ pages[v].step \in {"conflict", "error"} => SaveOf(v) \notin StoredSaves
       /\ pages[v].step \in {"stored", "saved", "hidden"} => SaveOf(v) \in StoredSaves
       /\ pages[v].step = "saved" /\ KindOf[pages[v].log] = "annotation" => SaveOf(v) \in exports
  /\ exports \subseteq StoredSaves
=============================================================================
