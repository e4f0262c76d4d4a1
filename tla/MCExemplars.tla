----------------------------- MODULE MCExemplars -----------------------------
(* Exemplars and Stages on small inputs.                                   *)
EXTENDS Exemplars, Stages
CONSTANT ExemplarTicks
(* A turn of one speaker from the start, another that may touch or overlap *)
(* it, and a turn of a second speaker anywhere.                            *)
ExemplarTurn(speaker, start, end) == [speaker |-> speaker, start |-> start, end |-> end]
ExemplarsInputs ==
  {[kind |-> "exemplars", duration |-> ExemplarTicks,
    turns |-> {ExemplarTurn(1, 0, a), ExemplarTurn(1, b, ExemplarTicks - gap), ExemplarTurn(2, c, c + length)}] :
     a \in 1..ExemplarTicks, b \in {3, 5, 8}, gap \in 0..3, c \in 0..(ExemplarTicks - 4),
     length \in {1, 4}}
StagesInputs ==
  {[kind |-> "stages", changed |-> {a, b}, available |-> v] :
     a \in ArchiveStages \union {"unknown"}, b \in ArchiveStages,
     v \in {ArchiveStages, {"decode", "chunks", "voice_indexes"}}}
==============================================================================
