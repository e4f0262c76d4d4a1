---------------------------- MODULE MCConditions ----------------------------
(* Conditions of one chunk in a short episode.                             *)
EXTENDS Conditions
CONSTANT HalfTicks   \* the episode, in half ticks
VoiceTurn(s, a, b) == [speaker |-> s, start |-> a, end |-> b]
ServiceTurns(s) ==
  {t \in [speaker : {s}, start : 0..HalfTicks, end : 0..HalfTicks] : t.start < t.end}
Diarized(turns) == [status |-> "ok", turns |-> turns]
Thirds == {{}, {VoiceTurn(1, 3, 9)}, {VoiceTurn(3, 2, 6)}, {VoiceTurn(2, 8, HalfTicks)}}
Silent == [status |-> "timeout", windows |-> <<>>]
Chunk3 == [start |-> 1, end |-> 4]
OfSpeakers ==
  {[kind |-> "conditions", duration |-> HalfTicks \div 2, chunk |-> Chunk3,
    diarized |-> Diarized({a, b} \union c), heard |-> Silent] :
     a \in ServiceTurns(1), b \in ServiceTurns(2), c \in Thirds}
Percents == {20, 50, 90}
ScoreTables == UNION {[classes -> Percents] : classes \in {{"music"}, {"speech"},
  {"music", "speech"}, {"music", "singing"}, {}}}
Sounding(windows) == [status |-> "ok", windows |-> windows]
SoundIn(a, b, scores) == [start |-> a, end |-> b, scores |-> scores]
OfSound ==
  {[kind |-> "conditions", duration |-> HalfTicks \div 2, chunk |-> Chunk3,
    diarized |-> [status |-> "unavailable", turns |-> {}], heard |-> answer] :
     answer \in {Sounding(<<SoundIn(1, 3, f), SoundIn(3, 4, g)>>) :
                   f \in ScoreTables, g \in ScoreTables}
                \union {Sounding(<<>>), Sounding(<<SoundIn(0, 2, <<>>)>>)}}
ConditionsInputs == OfSpeakers \union OfSound
=============================================================================
