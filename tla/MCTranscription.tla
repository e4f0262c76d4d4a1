--------------------------- MODULE MCTranscription ---------------------------
(* Transcription on short episodes: two words anywhere, perhaps a third.   *)
EXTENDS Transcription
CONSTANTS EpisodeTicks, MaxWordTicks
Spans == {s \in [start : 0..EpisodeTicks, end : 0..EpisodeTicks] :
            s.start < s.end /\ s.end - s.start <= MaxWordTicks}
TrackTurn(s, a, b) == [speaker |-> s, start |-> a, end |-> b]
Tracks ==
  {[standard |-> {TrackTurn(1, 0, 5), TrackTurn(2, 4, 8)}, exclusive |-> {TrackTurn(1, 0, 4), TrackTurn(2, 4, 7)}],
   [standard |-> {TrackTurn(1, 0, 8)}, exclusive |-> {TrackTurn(1, 0, 8)}],
   [standard |-> {TrackTurn(1, 1, 2), TrackTurn(2, 3, 6), TrackTurn(1, 6, 8)},
    exclusive |-> {TrackTurn(1, 1, 2), TrackTurn(2, 3, 6), TrackTurn(1, 6, 8)}]}
TranscriptionInputs ==
  {[kind |-> "transcription", duration |-> EpisodeTicks, standard |-> track.standard,
    exclusive |-> track.exclusive,
    words |-> {[id |-> 1, start |-> a.start, end |-> a.end],
               [id |-> 2, start |-> b.start, end |-> b.end]} \union
              (IF c = 0 THEN {} ELSE {[id |-> 3, start |-> c, end |-> c + 2]})] :
     track \in Tracks, a \in Spans, b \in Spans, c \in {0, 3, 5}}
=============================================================================
