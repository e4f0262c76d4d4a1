-------------------------- MODULE MCChunkDispatch --------------------------
(* Two runs of the benchmark that overlap on one chunk and model.          *)
EXTENDS ChunkDispatch

CONSTANT d1

MCOrder == [o \in Orchestrators |-> <<d1>>]
MCChunkOf == [d \in Dispatches |-> d]
=============================================================================
