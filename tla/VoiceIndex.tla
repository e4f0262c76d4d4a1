----------------------------- MODULE VoiceIndex -----------------------------
(***************************************************************************)
(* The generations of voice vectors (voice_index.py) and the search over   *)
(* the active one (voice_search.py).  A build fills one Qdrant collection  *)
(* of exemplars and one of centroids, named by a hash of what they are     *)
(* made from, and then moves the two aliases in one request.  Builds and   *)
(* searches are processes that talk to Qdrant call by call, may stop       *)
(* between two calls, and know nothing of each other.                      *)
(***************************************************************************)
EXTENDS Integers, Sequences, FiniteSets

CONSTANTS
  Artifacts,   \* complete speaker_embeddings_resnet293 artifacts
  EpisodeOf,   \* the episode of an artifact
  ModelOf,     \* the fingerprint an artifact declares
  Excerpts,    \* of each artifact, how many excerpts each speaker has
  Builders,
  Searchers,
  BatchSize,   \* the points of one upsert, 128
  HitLimit,    \* the centroids of one query, 50
  MaxBuilds    \* bound: builds started

ASSUME VoiceAssumption ==
  /\ IsFiniteSet(Artifacts)
  /\ \A a \in Artifacts : Excerpts[a] \in Seq(Nat)
  /\ {BatchSize, HitLimit, MaxBuilds} \subseteq Nat \ {0}

VARIABLES
  collections,  \* by generation and kind: the points of a collection that exists
  aliases,      \* the generation each alias names, {} for none
  builders, searchers,
  builds        \* how many builds were started

voice == <<collections, aliases, builders, searchers, builds>>

Kinds == {"exemplars", "centroids"}

SpeakersOf(g) == UNION {{<<a, i>> : i \in DOMAIN Excerpts[a]} : a \in g}
CountOf(s) == Excerpts[s[1]][s[2]]

(* A speaker without excerpts is not voice searchable and has no points.   *)
Searchable(g) == {s \in SpeakersOf(g) : CountOf(s) > 0}

(* build_points: what each collection of a generation holds.               *)
PointsOf(g, kind) ==
  IF kind = "centroids" THEN Searchable(g)
  ELSE UNION {{<<s, n>> : n \in 1..CountOf(s)} : s \in Searchable(g)}

(* What build_points accepts: one model, no episode twice, and something   *)
(* to index.                                                               *)
Buildable(g) ==
  /\ \A a, b \in g : ModelOf[a] = ModelOf[b]
  /\ \A a, b \in g : EpisodeOf[a] = EpisodeOf[b] => a = b
  /\ Searchable(g) # {}

Idle == [step |-> "idle", generation |-> {}, kind |-> "exemplars", existing |-> {},
         sent |-> {}, seen |-> [k \in Kinds |-> {}]]

Asking == [step |-> "idle", artifact |-> "none", speaker |-> 0,
           names |-> [k \in Kinds |-> {}], hits |-> {}, candidates |-> {}]

VoiceInit ==
  /\ collections = {}
  /\ aliases = [k \in Kinds |-> {}]
  /\ builders = [b \in Builders |-> Idle]
  /\ searchers = [q \in Searchers |-> Asking]
  /\ builds = 0

Collection(g, kind) == {c \in collections : c.generation = g /\ c.kind = kind}
Stored(g, kind) == UNION {c.points : c \in Collection(g, kind)}

-----------------------------------------------------------------------------
(* A build *)

Builder(b, changes) == builders' = [builders EXCEPT ![b] = changes]

(* The artifacts are validated before Qdrant is asked for its collections, *)
(* once for both kinds.                                                    *)
StartBuild(b, g) ==
  /\ builders[b].step = "idle" /\ builds < MaxBuilds /\ Buildable(g)
  /\ Builder(b, [Idle EXCEPT !.step = "create", !.generation = g,
                 !.existing = {<<c.generation, c.kind>> : c \in collections}])
  /\ builds' = builds + 1
  /\ UNCHANGED <<collections, aliases, searchers>>

(* A collection that was not listed is created; Qdrant refuses when        *)
(* another build created it meanwhile, and the build fails.                *)
CreateCollection(b) ==
  LET me == builders[b]
  IN /\ me.step = "create"
     /\ IF <<me.generation, me.kind>> \in me.existing
          THEN Builder(b, [me EXCEPT !.step = "upsert"]) /\ UNCHANGED collections
        ELSE IF Collection(me.generation, me.kind) # {}
          THEN Builder(b, Idle) /\ UNCHANGED collections
        ELSE /\ Builder(b, [me EXCEPT !.step = "upsert"])
             /\ collections' = collections \union
                  {[generation |-> me.generation, kind |-> me.kind, points |-> {}]}
     /\ UNCHANGED <<aliases, searchers, builds>>

(* One upsert: points have stable ids, so that a point sent again is the   *)
(* same point.                                                             *)
UpsertBatch(b) ==
  LET me == builders[b]
      left == PointsOf(me.generation, me.kind) \ me.sent
  IN /\ me.step = "upsert" /\ left # {}
     /\ \E batch \in SUBSET left :
          /\ Cardinality(batch) = IF Cardinality(left) < BatchSize THEN Cardinality(left)
                                  ELSE BatchSize
          /\ collections' =
               {IF c \in Collection(me.generation, me.kind)
                THEN [c EXCEPT !.points = @ \union batch] ELSE c : c \in collections}
          /\ Builder(b, [me EXCEPT !.sent = @ \union batch])
     /\ UNCHANGED <<aliases, searchers, builds>>

(* Mutant: the aliases move once the exemplars are complete.               *)
AfterExemplars(kind) == "alias"

(* What follows the count of a kind: the other kind, then the aliases.     *)
AfterKind(kind) == IF kind = "exemplars" THEN "create" ELSE "alias"

CheckCount(b) ==
  LET me == builders[b]
  IN /\ me.step = "upsert" /\ me.sent = PointsOf(me.generation, me.kind)
     /\ IF Stored(me.generation, me.kind) = me.sent
        THEN Builder(b, [me EXCEPT !.step = AfterKind(me.kind), !.kind = "centroids",
                                   !.sent = {}])
        ELSE Builder(b, Idle)
     /\ UNCHANGED <<collections, aliases, searchers, builds>>

ReadAliases(b) ==
  /\ builders[b].step = "alias"
  /\ Builder(b, [builders[b] EXCEPT !.step = "switch", !.seen = aliases])
  /\ UNCHANGED <<collections, aliases, searchers, builds>>

(* One request deletes and creates every alias that was read to be stale.  *)
(* Another build may have moved them since: the aliases it read as right   *)
(* are left, the others are replaced, or the request is refused as a whole *)
(* (StopBuild).                                                            *)
SwitchAliases(b) ==
  LET me == builders[b]
  IN /\ me.step = "switch"
     /\ aliases' = [k \in Kinds |->
                      IF me.seen[k] = me.generation THEN aliases[k] ELSE me.generation]
     /\ Builder(b, Idle)
     /\ UNCHANGED <<collections, searchers, builds>>

(* A request fails, with or without having been carried out, or the        *)
(* process ends.                                                           *)
StopBuild(b) ==
  /\ builders[b].step # "idle"
  /\ Builder(b, Idle)
  /\ UNCHANGED <<collections, aliases, searchers, builds>>

-----------------------------------------------------------------------------
(* A search *)

Searcher(q, changes) == searchers' = [searchers EXCEPT ![q] = changes]

(* The aliases are read once, and the collections they name are used for   *)
(* the rest of the search.  A speaker without excerpts has an empty answer.*)
StartSearch(q, a, i) ==
  LET me == [Asking EXCEPT !.artifact = a, !.speaker = i, !.names = aliases]
  IN /\ searchers[q].step \in {"idle", "answered", "refused", "inconsistent"}
     /\ Searcher(q, [me EXCEPT !.step =
          IF aliases["exemplars"] = {} \/ aliases["exemplars"] # aliases["centroids"]
            THEN IF aliases["centroids"] = {} THEN "refused" ELSE "inconsistent"
          ELSE IF Excerpts[a][i] = 0 THEN "answered"
          ELSE "query"])
     /\ UNCHANGED <<collections, aliases, builders, builds>>

(* The stored centroid must be the query's own; then the nearest centroids *)
(* of other episodes are asked for.  Which are nearest is left open.       *)
QueryCentroids(q) ==
  LET me == searchers[q]
      stored == Stored(me.names["centroids"], "centroids")
      others == {s \in stored : EpisodeOf[s[1]] # EpisodeOf[me.artifact]}
  IN /\ me.step = "query"
     /\ IF <<me.artifact, me.speaker>> \notin stored
        THEN Searcher(q, [me EXCEPT !.step = "refused"])
        ELSE \E hits \in SUBSET others :
               /\ Cardinality(hits) = IF Cardinality(others) < HitLimit
                                      THEN Cardinality(others) ELSE HitLimit
               /\ Searcher(q, [me EXCEPT !.step = "scroll", !.hits = hits])
     /\ UNCHANGED <<collections, aliases, builders, builds>>

(* Each hit's exemplars are read from the other collection and must be as  *)
(* many as its centroid says, of the model of the query.  A speaker has    *)
(* ten excerpts at most (exemplars.py), so the scroll limit of eleven      *)
(* never hides one.                                                        *)
ScrollExemplars(q) ==
  LET me == searchers[q]
  IN /\ me.step = "scroll" /\ me.hits # {}
     /\ \E s \in me.hits :
          LET points == {p \in Stored(me.names["exemplars"], "exemplars") : p[1] = s}
          IN IF Cardinality(points) = CountOf(s) /\ ModelOf[s[1]] = ModelOf[me.artifact]
             THEN Searcher(q, [me EXCEPT !.hits = @ \ {s}, !.candidates = @ \union {s}])
             ELSE Searcher(q, [me EXCEPT !.step = "inconsistent"])
     /\ UNCHANGED <<collections, aliases, builders, builds>>

AnswerSearch(q) ==
  /\ searchers[q].step = "scroll" /\ searchers[q].hits = {}
  /\ Searcher(q, [searchers[q] EXCEPT !.step = "answered"])
  /\ UNCHANGED <<collections, aliases, builders, builds>>

VoiceNext ==
  \/ \E b \in Builders :
       \/ \E g \in SUBSET Artifacts : StartBuild(b, g)
       \/ CreateCollection(b)
       \/ UpsertBatch(b)
       \/ CheckCount(b)
       \/ ReadAliases(b)
       \/ SwitchAliases(b)
       \/ StopBuild(b)
  \/ \E q \in Searchers :
       \/ \E a \in Artifacts : \E i \in DOMAIN Excerpts[a] : StartSearch(q, a, i)
       \/ QueryCentroids(q)
       \/ ScrollExemplars(q)
       \/ AnswerSearch(q)

VoiceSpec == VoiceInit /\ [][VoiceNext]_voice

-----------------------------------------------------------------------------
(* Properties *)

(* Whatever builds race, fail half-way or start again, and whenever the    *)
(* aliases move under a search: the two aliases name one generation whose  *)
(* two collections are complete, no search finds its collections at odds   *)
(* with each other, and an answer has the speakers of other episodes of    *)
(* the one generation the search began with, as many as the limit allows,  *)
(* and none twice through two artifacts of one episode (voice_index.py:229,*)
(* voice_search.py:89).                                                    *)
VoiceSearchIsCoherent ==
  /\ aliases["exemplars"] = aliases["centroids"]
  /\ \A kind \in Kinds :
       aliases[kind] # {} => Stored(aliases[kind], kind) = PointsOf(aliases[kind], kind)
  /\ \A q \in Searchers :
       LET me == searchers[q]
           others == {s \in Searchable(me.names["centroids"]) :
                        EpisodeOf[s[1]] # EpisodeOf[me.artifact]}
       IN /\ me.step # "inconsistent"
          /\ me.step = "answered" /\ Excerpts[me.artifact][me.speaker] > 0 =>
               /\ me.candidates \subseteq others
               /\ me.candidates = others \/ Cardinality(me.candidates) = HitLimit
               /\ \A s, t \in me.candidates :
                    EpisodeOf[s[1]] = EpisodeOf[t[1]] => s[1] = t[1]
=============================================================================
