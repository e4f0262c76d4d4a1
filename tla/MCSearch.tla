------------------------------ MODULE MCSearch ------------------------------
(* SearchIndex: two attributions of one episode, one of an unknown source. *)
EXTENDS SearchIndex
MCEditions == {[artifact |-> "t1", manifest |-> 1, episode |-> "ep1"],
               [artifact |-> "t1", manifest |-> 2, episode |-> "ep1"],
               [artifact |-> "t2", manifest |-> 1, episode |-> "ep1"],
               [artifact |-> "t3", manifest |-> 1, episode |-> "unknown"]}
MCChunkCount == [t1 |-> 2, t2 |-> 1, t3 |-> 1]
MCGenerations == {[id |-> "g1", key |-> "k1"], [id |-> "g2", key |-> "k2"], [id |-> "g3", key |-> "k1"]}
==============================================================================
