------------------------------ MODULE MCVoice ------------------------------
(* VoiceIndex: two artifacts of one episode, one of another.               *)
EXTENDS VoiceIndex
MCEpisodeOf == [a |-> "ep1", b |-> "ep2", c |-> "ep1"]
MCModelOf == [a |-> "resnet293", b |-> "resnet293", c |-> "resnet293"]
MCExcerpts == [a |-> <<2, 0>>, b |-> <<1>>, c |-> <<1>>]
==============================================================================
