-------------------------------- MODULE Stages --------------------------------
(***************************************************************************)
(* The dependency graph of the archive's stages and what a change          *)
(* invalidates (stages.py): a worklist for each changed stage.             *)
(***************************************************************************)
EXTENDS Computation

Dependencies ==
  [manifest |-> {}, decode |-> {"manifest"}, asr |-> {"decode"},
   diarization |-> {"decode"}, attribution |-> {"asr", "diarization"},
   exemplars |-> {"diarization"}, speaker_embeddings_resnet293 |-> {"exemplars"},
   speaker_embeddings_eres2net |-> {"exemplars"},
   speaker_embeddings_wavlm |-> {"exemplars"},
   voice_indexes |-> {"speaker_embeddings_resnet293", "speaker_embeddings_eres2net",
                      "speaker_embeddings_wavlm"},
   candidates |-> {"voice_indexes"}, identity_decisions |-> {"candidates"},
   chunks |-> {"attribution"}, text_index |-> {"chunks"}]

ArchiveStages == DOMAIN Dependencies

IsStages == input.kind = "stages"

StagesWork ==
  [phase |-> "given", todo |-> {}, pending |-> {}, discovered |-> {}, invalidated |-> {},
   reusable |-> {}]

(* Mutant: only the direct dependants of a change.  *)
DirectDependants(stage) ==
  IF stage \in input.changed THEN {s \in ArchiveStages : stage \in Dependencies[s]} ELSE {}

Dependants(stage) == {s \in ArchiveStages : stage \in Dependencies[s]}

(* dependencies_for refuses a stage the graph does not know.               *)
AcceptStages ==
  /\ IsStages /\ work.phase = "given"
  /\ work' = IF input.changed \subseteq ArchiveStages
               THEN [work EXCEPT !.phase = "walking", !.todo = input.changed]
               ELSE [work EXCEPT !.phase = "rejected"]
  /\ UNCHANGED input

StartWalk ==
  /\ IsStages /\ work.phase = "walking" /\ work.pending = {}
  /\ \E stage \in work.todo :
       work' = [work EXCEPT !.todo = @ \ {stage}, !.pending = {stage}, !.discovered = {},
                  !.invalidated = @ \union {stage}]
  /\ UNCHANGED input

(* The loop of downstream_stages; the order of its queue is not fixed here.*)
WalkDownstream ==
  /\ IsStages /\ work.phase = "walking"
  /\ \E current \in work.pending :
       LET new == Dependants(current) \ work.discovered
       IN work' = [work EXCEPT !.pending = (@ \ {current}) \union new,
                     !.discovered = @ \union new, !.invalidated = @ \union new]
  /\ UNCHANGED input

Reuse ==
  /\ IsStages /\ work.phase = "walking" /\ work.pending = {} /\ work.todo = {}
  /\ work' = [work EXCEPT !.phase = "done", !.reusable = input.available \ work.invalidated]
  /\ UNCHANGED input

StagesNext == AcceptStages \/ StartWalk \/ WalkDownstream \/ Reuse

(* Any names may be given as changed; what is available are results.       *)
StagesInput == [kind : {"stages"}, changed : SUBSET STRING, available : SUBSET ArchiveStages]

StagesSpec == input \in StagesInput /\ work = StagesWork /\ [][StagesNext]_computation

-----------------------------------------------------------------------------
(* Properties *)

(* A result is reused exactly when neither its stage nor anything it was   *)
(* computed from, however far upstream, has changed: what is invalidated   *)
(* is the changed stages and, closing the graph from them, every stage     *)
(* with an invalidated dependency; nothing else is thrown away             *)
(* (stages.py:125).                                                        *)
ReuseIsExact ==
  IsStages /\ work.phase = "done" =>
    /\ \A s \in ArchiveStages :
         s \in work.invalidated <=>
           s \in input.changed \/ Dependencies[s] \intersect work.invalidated # {}
    /\ \A s \in work.reusable :
         s \notin input.changed /\ Dependencies[s] \intersect work.invalidated = {}
=============================================================================
