---------------------------- MODULE SearchIndex ----------------------------
(***************************************************************************)
(* The text index of storage.py: text_chunks and its full-text table,      *)
(* replaced as a whole when `process` indexes an attribution, and the      *)
(* index generations with their committed pointers.  FTS5 knows neither    *)
(* keys nor references, so only the transaction keeps the two tables       *)
(* together.  A transaction is a private copy of the database that its     *)
(* writer alone changes; a commit makes it the database, and a crash, an   *)
(* error or a rollback forgets it.                                         *)
(***************************************************************************)
EXTENDS Integers, FiniteSets

CONSTANTS
  Indexers,     \* processes running the text_index stage
  Publishers,   \* processes publishing an index generation
  Editions,     \* attribution artifacts as found: [artifact, manifest, episode]
  ChunkCount,     \* the number of chunks of an artifact
  Episodes,     \* the registered episodes
  Generations,  \* generations to publish: [id, key]
  MaxStarts     \* bound: operations started

(* A manifest is hashed with the source it is of (record_artifact).        *)
ASSUME IndexAssumption ==
  /\ \A e \in Editions : ChunkCount[e.artifact] \in Nat
  /\ \A e, f \in Editions : e.artifact = f.artifact /\ e.manifest = f.manifest => e = f
  /\ "nobody" \notin Indexers \union Publishers

VARIABLES
  db,       \* the committed database
  draft,    \* the open write transaction: its writer and its copy
  writers,  \* what each process is doing
  starts    \* how many operations were started

index == <<db, draft, writers, starts>>

Nobody == [by |-> "nobody", db |-> <<>>]
Waiting == [step |-> "idle", item |-> <<>>]

EmptyDatabase ==
  [artifacts |-> {}, chunks |-> {}, fts |-> [c \in {} |-> 0],
   generations |-> {}, pointer |-> "none"]

IndexInit ==
  /\ db = EmptyDatabase
  /\ draft = Nobody
  /\ writers = [w \in Indexers \union Publishers |-> Waiting]
  /\ starts = 0

(* The chunks of an attribution: their ids are hashes over the artifact.   *)
Chunks(e) == {[chunk |-> <<e.artifact, n>>, artifact |-> e.artifact, episode |-> e.episode] :
                n \in 1..ChunkCount[e.artifact]}

Writer(w, step) == writers' = [writers EXCEPT ![w].step = step]

StartOperation(w, step, item) ==
  /\ writers[w].step = "idle" /\ starts < MaxStarts
  /\ writers' = [writers EXCEPT ![w] = [step |-> step, item |-> item]]
  /\ starts' = starts + 1
  /\ UNCHANGED <<db, draft>>

Finish(w) == writers' = [writers EXCEPT ![w] = Waiting]

(* A write of one's own transaction, which the first of them opens: SQLite *)
(* takes the lock there and not at BEGIN.                                  *)
Write(w, from, to, changed) ==
  /\ writers[w].step = from
  /\ draft = Nobody \/ draft.by = w
  /\ draft' = [by |-> w, db |-> changed]
  /\ Writer(w, to)
  /\ UNCHANGED <<db, starts>>

Current(w) == IF draft.by = w THEN draft.db ELSE db

Commit(w, from, to) ==
  /\ writers[w].step = from /\ draft.by = w
  /\ db' = draft.db /\ draft' = Nobody
  /\ Writer(w, to)
  /\ UNCHANGED starts

-----------------------------------------------------------------------------
(* record_artifact: the SELECT sees an artifact of this identity, or the   *)
(* INSERT finds that another process was faster and the unique identity    *)
(* refuses it.                                                             *)

LookUpArtifact(w) ==
  LET e == writers[w].item
      known == {r \in db.artifacts : r.artifact = e.artifact}
  IN /\ writers[w].step = "look"
     /\ IF known = {} THEN Writer(w, "record")
        ELSE IF \E r \in known : r.manifest = e.manifest THEN Writer(w, "recorded")
        ELSE Finish(w)
     /\ UNCHANGED <<db, draft, starts>>

RecordArtifact(w) ==
  LET e == writers[w].item
  IN /\ writers[w].step = "record" /\ draft = Nobody
     /\ IF \E r \in db.artifacts : r.artifact = e.artifact
        THEN Finish(w) /\ db' = db
        ELSE /\ db' = [db EXCEPT !.artifacts =
                         @ \union {[artifact |-> e.artifact, manifest |-> e.manifest]}]
             /\ Writer(w, "recorded")
     /\ UNCHANGED <<draft, starts>>

-----------------------------------------------------------------------------
(* replace_text_chunks, after it recorded the artifact                     *)

(* The attribution is of a source no registered episode has.               *)
RefuseSource(w) ==
  /\ writers[w].step = "recorded" /\ writers[w].item.episode \notin Episodes
  /\ Finish(w)
  /\ UNCHANGED <<db, draft, starts>>

RowsOf(d, episode) == {c \in d.chunks : c.episode = episode}

(* DELETE the full-text rows of the chunks the episode has now.            *)
WithoutText(d, episode) ==
  LET gone == {c.chunk : c \in RowsOf(d, episode)}
  IN [d EXCEPT !.fts = [c \in DOMAIN d.fts \ gone |-> d.fts[c]]]

WithoutChunks(d, episode) == [d EXCEPT !.chunks = @ \ RowsOf(d, episode)]

(* Mutant: the chunks are deleted first, and the subquery finds none.      *)
ChunksFirst(d, episode) == WithoutText(WithoutChunks(d, episode), episode)

(* What the two DELETEs leave.                                             *)
Cleared(d, episode) == WithoutChunks(WithoutText(d, episode), episode)

DeleteRows(w) ==
  LET e == writers[w].item
  IN e.episode \in Episodes /\ Write(w, "recorded", "insert", Cleared(Current(w), e.episode))

(* INSERT a chunk, and its text beside any that is there under its id.     *)
WithChunk(d, c) ==
  LET n == IF c.chunk \in DOMAIN d.fts THEN d.fts[c.chunk] ELSE 0
  IN [d EXCEPT !.chunks = @ \union {c},
               !.fts = [x \in DOMAIN d.fts \union {c.chunk} |->
                          IF x = c.chunk THEN n + 1 ELSE d.fts[x]]]

InsertChunk(w) ==
  LET d == Current(w)
      missing == Chunks(writers[w].item) \ d.chunks
  IN /\ missing # {}
     /\ LET c == CHOOSE c \in missing : \A o \in missing : c.chunk[2] <= o.chunk[2]
        IN Write(w, "insert", "insert", WithChunk(d, c))

CommitChunks(w) ==
  /\ writers[w].step = "insert" /\ Chunks(writers[w].item) \subseteq draft.db.chunks
  /\ Commit(w, "insert", "idle")

-----------------------------------------------------------------------------
(* publish_generation: the fence of its job is read before the transaction *)
(* holds the lock, the generation and the pointer are written inside it.   *)

(* The job's fence no longer holds.                                        *)
RefuseFence(w) ==
  /\ writers[w].step = "fence"
  /\ Finish(w)
  /\ UNCHANGED <<db, draft, starts>>

InsertGeneration(w) ==
  LET g == writers[w].item
      taken == \E o \in db.generations : o.id = g.id \/ o.key = g.key
  IN IF taken
     THEN /\ writers[w].step = "fence" /\ draft = Nobody
          /\ Finish(w)
          /\ UNCHANGED <<db, draft, starts>>
     ELSE Write(w, "fence", "pointer",
                [Current(w) EXCEPT !.generations = @ \union {g}])

MovePointer(w) ==
  Write(w, "pointer", "publish", [Current(w) EXCEPT !.pointer = writers[w].item.id])

CommitGeneration(w) == Commit(w, "publish", "idle")

-----------------------------------------------------------------------------
(* The process ends, a statement fails, or the lock is not had in time.    *)
Abandon(w) ==
  /\ writers[w].step # "idle"
  /\ draft' = IF draft.by = w THEN Nobody ELSE draft
  /\ Finish(w)
  /\ UNCHANGED <<db, starts>>

IndexNext ==
  \/ \E w \in Indexers :
       \/ \E e \in Editions : StartOperation(w, "look", e)
       \/ LookUpArtifact(w)
       \/ RecordArtifact(w)
       \/ RefuseSource(w)
       \/ writers[w].step = "recorded" /\ DeleteRows(w)
       \/ writers[w].step = "insert" /\ InsertChunk(w)
       \/ CommitChunks(w)
       \/ Abandon(w)
  \/ \E w \in Publishers :
       \/ \E g \in Generations : StartOperation(w, "fence", g)
       \/ RefuseFence(w)
       \/ writers[w].step = "fence" /\ InsertGeneration(w)
       \/ writers[w].step = "pointer" /\ MovePointer(w)
       \/ CommitGeneration(w)
       \/ Abandon(w)

IndexSpec == IndexInit /\ [][IndexNext]_index

-----------------------------------------------------------------------------
(* Properties *)

(* search_text: the full-text rows joined with their chunks, as often as   *)
(* they are there.                                                         *)
Found(episode) == {c \in RowsOf(db, episode) : c.chunk \in DOMAIN db.fts}

(* However indexings of one episode race, repeat, fail or crash, a search  *)
(* of it finds every chunk of exactly one recorded attribution, each once, *)
(* or nothing at all; no full-text row outlives its chunk; and the pointer *)
(* names a generation that is there (storage.py:1151, 2981).               *)
SearchIsOneEdition ==
  /\ \A episode \in Episodes :
       \/ RowsOf(db, episode) = {}
       \/ \E e \in Editions :
            /\ \E r \in db.artifacts : r.artifact = e.artifact
            /\ e.episode = episode
            /\ RowsOf(db, episode) = Chunks(e)
            /\ Found(episode) = Chunks(e)
  /\ DOMAIN db.fts = {c.chunk : c \in db.chunks}
  /\ \A c \in DOMAIN db.fts : db.fts[c] = 1
  /\ db.pointer # "none" => \E g \in db.generations : g.id = db.pointer
=============================================================================
