----------------------------- MODULE Conditions -----------------------------
(***************************************************************************)
(* The machine seed of a benchmark chunk's condition.  The diarization     *)
(* service answers for the whole episode (inference.py), its turns are     *)
(* clipped to the chunk and swept for speech and overlap                   *)
(* (speaker_conditions.py); the sound classifier answers for windows of    *)
(* the chunk, whose scores are averaged and compared with thresholds       *)
(* (acoustic_conditions.py).  Service times are half ticks, probabilities  *)
(* are percents; a service that fails or is refused leaves its half of the *)
(* seed unknown.                                                           *)
(***************************************************************************)
EXTENDS Computation, Timeline, FiniteSetsExt

CONSTANTS
  HeavyPercent,                    \* HEAVY_OVERLAP_FRACTION
  MusicPresence, MusicDominant,    \* AcousticThresholds
  SpeechPresence

ASSUME ThresholdAssumption ==
  /\ HeavyPercent \in 1..100
  /\ {MusicPresence, MusicDominant, SpeechPresence} \subseteq 0..100
  /\ MusicPresence < MusicDominant

IsConditions == input.kind = "conditions"

EmptySweep ==
  [cursor |-> 0, speech |-> 0, overlap |-> 0, maximum |-> 0, overlaps |-> <<>>]

ConditionsWork ==
  [phase |-> "diarizing", turns |-> {}, clipped |-> {}, sweep |-> EmptySweep,
   speakers |-> "unknown", music |-> "unknown", spoken |-> FALSE]

-----------------------------------------------------------------------------
(* The diarization answer. *)

(* _seconds_to_ms rounds half up.                                          *)
Rounded(t) ==
  [speaker |-> t.speaker, start |-> (t.start + 1) \div 2, end |-> (t.end + 1) \div 2]

(* One turn that is empty after rounding, or past the end, refuses all.    *)
IsParsed(turns) == \A t \in turns : t.start < t.end /\ t.end <= input.duration

(* diarize_bytes: a timeout and an unreachable endpoint raise.             *)
IsDiarized == input.diarized.status = "ok"

(* So do an error envelope, an answer of another model, an invalid turn.   *)
Diarize ==
  /\ IsConditions /\ work.phase = "diarizing"
  /\ LET turns == {Rounded(t) : t \in input.diarized.turns}
     IN work' = IF IsDiarized /\ IsParsed(turns)
                THEN [work EXCEPT !.phase = "clipping", !.turns = turns]
                ELSE [work EXCEPT !.phase = "listening"]
  /\ UNCHANGED input

-----------------------------------------------------------------------------
(* The speakers of the chunk. *)

Clip(t) == [t EXCEPT !.start = Later(@, input.chunk.start), !.end = Earlier(@, input.chunk.end)]

ClipTurns ==
  /\ IsConditions /\ work.phase = "clipping"
  /\ work' = [work EXCEPT !.phase = "sweeping",
                !.clipped = {c \in {Clip(t) : t \in work.turns} : c.start < c.end}]
  /\ UNCHANGED input

(* The ends of turns behind the cursor, the first of them opening the      *)
(* sweep.                                                                  *)
Ahead == {e \in UNION {{t.start, t.end} : t \in work.clipped} : e > work.sweep.cursor}

(* Mutant: neighbouring overlaps are joined whoever speaks.                *)
JoinedAnyway(overlaps, segment) ==
  IF overlaps # <<>> /\ overlaps[Len(overlaps)].end = segment.start
  THEN [overlaps EXCEPT ![Len(overlaps)].end = segment.end]
  ELSE Append(overlaps, segment)

(* A segment continues the last overlap when the same speakers go on.      *)
Joined(overlaps, segment) ==
  IF overlaps # <<>> /\ overlaps[Len(overlaps)].end = segment.start
       /\ overlaps[Len(overlaps)].speakers = segment.speakers
  THEN [overlaps EXCEPT ![Len(overlaps)].end = segment.end]
  ELSE Append(overlaps, segment)

(* One pass of the loop of _standard_segments, between neighbouring ends.  *)
SweepSegment ==
  /\ IsConditions /\ work.phase = "sweeping" /\ Ahead # {}
  /\ LET sweep  == work.sweep
         next   == Min(Ahead)
         length == next - sweep.cursor
         active == {t.speaker : t \in {u \in work.clipped :
                                        u.start < next /\ u.end > sweep.cursor}}
         segment == [start |-> sweep.cursor, end |-> next, speakers |-> active]
     IN work' = [work EXCEPT !.sweep =
          [cursor   |-> next,
           speech   |-> sweep.speech + IF active # {} THEN length ELSE 0,
           overlap  |-> sweep.overlap + IF Cardinality(active) >= 2 THEN length ELSE 0,
           maximum  |-> Later(sweep.maximum, Cardinality(active)),
           overlaps |-> IF Cardinality(active) >= 2
                        THEN Joined(sweep.overlaps, segment) ELSE sweep.overlaps]]
  /\ UNCHANGED input

SpeakerIds == {t.speaker : t \in work.clipped}

SpeakerCondition(sweep, ids) ==
  CASE ids = {} \/ sweep.speech = 0 -> "uncertain"
    [] sweep.overlap = 0 /\ Cardinality(ids) = 1 -> "single_speaker"
    [] sweep.overlap = 0 /\ Cardinality(ids) > 1 -> "multi_speaker_no_overlap"
    [] 100 * sweep.overlap >= HeavyPercent * sweep.speech -> "heavy_overlap"
    [] OTHER -> "partial_overlap"

(* _validate_speaker_metrics. *)
SeedIsAccepted(sweep, ids) ==
  /\ sweep.maximum <= Cardinality(ids)
  /\ ids # {} => sweep.maximum > 0
  /\ sweep.overlap <= sweep.speech

ClassifySpeakers ==
  /\ IsConditions /\ work.phase = "sweeping" /\ Ahead = {}
  /\ work' = IF SeedIsAccepted(work.sweep, SpeakerIds)
             THEN [work EXCEPT !.phase = "listening",
                               !.speakers = SpeakerCondition(work.sweep, SpeakerIds)]
             ELSE [work EXCEPT !.phase = "refused"]
  /\ UNCHANGED input

-----------------------------------------------------------------------------
(* The sound of the chunk. *)

MusicClasses == {"music", "singing"}

IsAnswered == input.heard.status = "ok"

(* A window lies in the chunk; whether the windows cover it is not asked.  *)
(* For a window outside derive_acoustic_condition raises, and              *)
(* parse_audioset_response answers with its failure: this half stays       *)
(* unknown.                                                                *)
IsHeard ==
  /\ IsAnswered /\ input.heard.windows # <<>>
  /\ \A i \in DOMAIN input.heard.windows :
       LET w == input.heard.windows[i]
       IN input.chunk.start <= w.start /\ w.start < w.end /\ w.end <= input.chunk.end

(* The windows that report a class: the service drops small scores.        *)
Reporting(class) ==
  {i \in DOMAIN input.heard.windows : class \in DOMAIN input.heard.windows[i].scores}

(* The sum of a class's scores, as the size of a set: in percents and      *)
(* exact, where the code adds floats.                                      *)
ScoreSum(class) ==
  Cardinality({p \in Reporting(class) \X (1..100) :
                 p[2] <= input.heard.windows[p[1]].scores[class]})

(* Mutant: the scores of a class are added up.                             *)
SumReaches(class, threshold) == threshold <= ScoreSum(class)

(* The mean over the windows that report the class, 0 when none does.      *)
MeanReaches(class, threshold) ==
  threshold * Later(1, Cardinality(Reporting(class))) <= ScoreSum(class)

MusicReaches(threshold) == \E class \in MusicClasses : MeanReaches(class, threshold)

(* _music_level. *)
MusicLevel ==
  CASE ~MusicReaches(MusicPresence) -> "none"
    [] MusicReaches(MusicDominant) -> "dominant"
    [] MusicReaches(MusicPresence) /\ ~MusicReaches(MusicDominant) ->
         IF MeanReaches("speech", SpeechPresence) THEN "background" ELSE "uncertain"

ClassifySound ==
  /\ IsConditions /\ work.phase = "listening"
  /\ work' = IF IsHeard
             THEN [work EXCEPT !.phase = "seeded", !.music = MusicLevel,
                               !.spoken = MeanReaches("speech", SpeechPresence)]
             ELSE [work EXCEPT !.phase = "seeded"]
  /\ UNCHANGED input

ConditionsNext ==
  \/ Diarize
  \/ ClipTurns
  \/ SweepSegment
  \/ ClassifySpeakers
  \/ ClassifySound

-----------------------------------------------------------------------------
(* What the computation may be given: a chunk of an episode, and what the  *)
(* services answered, in any order and quality.  Offsets of turns are not  *)
(* negative (inference.py:132), probabilities lie between 0 and 1.         *)

IsSoundWindow(w) ==
  /\ w.start \in Int /\ w.end \in Int
  /\ \A class \in DOMAIN w.scores : w.scores[class] \in 0..100

IsConditionsInput(i) ==
  /\ i.kind = "conditions"
  /\ i.chunk \in [start : Nat, end : Nat] /\ i.chunk.start < i.chunk.end
  /\ i.duration \in Nat /\ i.chunk.end <= i.duration
  /\ i.diarized.turns \subseteq [speaker : Nat, start : Nat, end : Nat]
  /\ IsFiniteSet(i.diarized.turns)
  /\ DOMAIN i.heard.windows = 1..Len(i.heard.windows) /\ Len(i.heard.windows) \in Nat
  /\ \A k \in DOMAIN i.heard.windows : IsSoundWindow(i.heard.windows[k])

ConditionsSpec ==
  IsConditionsInput(input) /\ work = ConditionsWork /\ [][ConditionsNext]_computation

-----------------------------------------------------------------------------
(* Properties *)

SpeakersAt(tick) == ActiveAt(work.turns, tick)

ChunkTicks == input.chunk.start..(input.chunk.end - 1)

TicksWith(n) == {tick \in ChunkTicks : Cardinality(SpeakersAt(tick)) >= n}

(* The sweep over the clipped turns finds what the episode's turns say of  *)
(* every moment of the chunk: the speech, the overlaps with exactly their  *)
(* speakers, the busiest moment, and who is heard at all; clipping and     *)
(* rounding leave no seed that the contract refuses                        *)
(* (speaker_conditions.py:161, contracts.py:656).                          *)
SpeakersAreExact ==
  IsConditions =>
    /\ work.phase # "refused"
    /\ work.phase = "seeded" /\ work.speakers # "unknown" =>
         /\ work.sweep.speech = Cardinality(TicksWith(1))
         /\ work.sweep.overlap = Cardinality(TicksWith(2))
         /\ work.sweep.maximum = Max({0} \union {Cardinality(SpeakersAt(t)) : t \in ChunkTicks})
         /\ {work.sweep.overlaps[i] : i \in DOMAIN work.sweep.overlaps} =
              UNION {{[start |-> r.start, end |-> r.end, speakers |-> together] :
                        r \in RunsOf({t \in ChunkTicks : SpeakersAt(t) = together})} :
                      together \in {SpeakersAt(t) : t \in TicksWith(2)}}
         /\ SpeakerIds = UNION {SpeakersAt(t) : t \in ChunkTicks}

(* No label is louder than its evidence: music that is dominant, or there  *)
(* at all, was so in at least one window, music that is none was not so in *)
(* every window that reports it, and speech likewise.  A threshold of zero *)
(* asks for no evidence: a class nobody reports scores zero                *)
(* (acoustic_conditions.py:226).                                           *)
SoundHasEvidence ==
  IsConditions /\ work.phase = "seeded" /\ work.music # "unknown" =>
    LET Loud(classes, threshold) ==
          threshold > 0 => \E class \in classes : \E i \in Reporting(class) :
            input.heard.windows[i].scores[class] >= threshold
        Always(class, threshold) ==
          /\ Reporting(class) # {}
          /\ \A i \in Reporting(class) : input.heard.windows[i].scores[class] >= threshold
    IN /\ work.music = "dominant" => Loud(MusicClasses, MusicDominant)
       /\ work.music # "none" => Loud(MusicClasses, MusicPresence)
       /\ \A class \in MusicClasses :
            /\ Always(class, MusicPresence) => work.music # "none"
            /\ Always(class, MusicDominant) => work.music = "dominant"
       /\ work.spoken => Loud({"speech"}, SpeechPresence)
       /\ Always("speech", SpeechPresence) => work.spoken

(* A chunk's seed says of its speakers and of its sound what the services  *)
(* answered (speaker_conditions.py:161, acoustic_conditions.py:226).       *)
ConditionsAreExact == SpeakersAreExact /\ SoundHasEvidence
=============================================================================
