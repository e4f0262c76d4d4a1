---------------------------- MODULE SpeechProofs ----------------------------
(***************************************************************************)
(* What the seeds of a chunk's condition promise, for every answer of the  *)
(* services and all thresholds; and what the index makes of the words of   *)
(* an episode, for every hearing of them.                                  *)
(***************************************************************************)
EXTENDS ComputationProofs, Conditions, Transcription

-----------------------------------------------------------------------------
(*                          The sound of a chunk                           *)
(*                                                                         *)
(* A sum of scores is the size of a set, so that it is compared with a     *)
(* number of windows times a threshold by inclusion.                       *)

Score(class, i) == input.heard.windows[i].scores[class]

LEMMA ReportsAreFinite ==
  ASSUME IsConditionsInput(input), NEW class
  PROVE  /\ IsFiniteSet(Reporting(class)) /\ Cardinality(Reporting(class)) \in Nat
         /\ \A i \in Reporting(class) : Score(class, i) \in 0..100
<1> DEFINE windows == input.heard.windows
<1>1. DOMAIN windows = 1..Len(windows) /\ Len(windows) \in Nat
      /\ \A k \in DOMAIN windows : IsSoundWindow(windows[k])
  BY DEF IsConditionsInput
<1>2. IsFiniteSet(1..Len(windows)) /\ Reporting(class) \in SUBSET (1..Len(windows))
  BY <1>1, FS_Interval DEF Reporting
<1>3. IsFiniteSet(Reporting(class)) /\ Cardinality(Reporting(class)) \in Nat
  BY <1>2, FS_Subset, FS_CardinalityType
<1>4. \A i \in Reporting(class) : Score(class, i) \in 0..100
  BY <1>1 DEF Reporting, IsSoundWindow, Score
<1> QED  BY <1>3, <1>4

(* A grid of windows and percents has the size one expects.                *)
LEMMA GridIs ==
  ASSUME NEW W, IsFiniteSet(W), NEW top \in Nat
  PROVE  IsFiniteSet(W \X (1..top)) /\ Cardinality(W \X (1..top)) = Cardinality(W) * top
<1>1. IsFiniteSet(1..top) /\ Cardinality(1..top) = top
  BY FS_Interval
<1> QED  BY <1>1, FS_Product

(* A mean that reaches a threshold has a window that does; windows that    *)
(* all reach it have a mean that does.                                     *)
LEMMA MeanIsBetween ==
  ASSUME IsConditionsInput(input), NEW class, NEW threshold \in 0..100
  PROVE  /\ MeanReaches(class, threshold) /\ threshold > 0 =>
              \E i \in Reporting(class) : Score(class, i) >= threshold
         /\ Reporting(class) # {} /\ (\A i \in Reporting(class) : Score(class, i) >= threshold)
              => MeanReaches(class, threshold)
<1> DEFINE W == Reporting(class)
           n == Cardinality(W)
           Q == {p \in W \X (1..100) : p[2] <= input.heard.windows[p[1]].scores[class]}
<1>1. /\ IsFiniteSet(W) /\ n \in Nat
      /\ \A i \in W : Score(class, i) \in 0..100
  BY ReportsAreFinite
<1>2. IsFiniteSet(Q) /\ Cardinality(Q) \in Nat
  <2>1. IsFiniteSet(W \X (1..100)) /\ Q \in SUBSET (W \X (1..100))
    BY <1>1, GridIs
  <2> QED  BY <2>1, FS_Subset, FS_CardinalityType
<1>3. MeanReaches(class, threshold) <=> threshold * (IF 1 < n THEN n ELSE 1) <= Cardinality(Q)
  BY DEF MeanReaches, ScoreSum, Later
<1>4. (n = 0) = (W = {})
  BY <1>1, FS_EmptySet
<1>5. ASSUME MeanReaches(class, threshold), threshold > 0
      PROVE  \E i \in W : Score(class, i) >= threshold
  <2>1. SUFFICES ASSUME \A i \in W : Score(class, i) < threshold
                 PROVE  FALSE
    BY <1>1
  <2>2. IsFiniteSet(W \X (1..(threshold - 1)))
        /\ Cardinality(W \X (1..(threshold - 1))) = n * (threshold - 1)
    <3>1. threshold - 1 \in Nat
      BY <1>5
    <3> QED  BY <3>1, <1>1, GridIs
  <2>3. Q \subseteq W \X (1..(threshold - 1))
    <3>1. ASSUME NEW p \in Q  PROVE p \in W \X (1..(threshold - 1))
      <4>1. /\ p = <<p[1], p[2]>> /\ p[1] \in W /\ p[2] \in 1..100
            /\ p[2] <= Score(class, p[1])
        BY <3>1 DEF Score
      <4>2. Score(class, p[1]) < threshold /\ Score(class, p[1]) \in 0..100
        BY <4>1, <1>1, <2>1
      <4>3. p[2] \in 1..(threshold - 1)
        BY <4>1, <4>2
      <4> QED  BY <4>1, <4>3
    <3> QED  BY <3>1
  <2>4. Cardinality(Q) <= n * (threshold - 1)
    BY <2>2, <2>3, FS_Subset
  <2>5. n * (threshold - 1) = threshold * n - n
    BY <1>1
  <2>6. threshold * n \in Int
    BY <1>1
  <2>7. CASE n = 0
    BY <2>4, <2>7, <1>3, <1>5, <1>2
  <2>8. CASE n = 1
    BY <2>4, <2>8, <1>3, <1>5, <1>2
  <2>9. CASE n > 1
    BY <2>4, <2>5, <2>6, <2>9, <1>3, <1>5, <1>2, <1>1
  <2> QED  BY <2>7, <2>8, <2>9, <1>1
<1>6. ASSUME W # {}, \A i \in W : Score(class, i) >= threshold
      PROVE  MeanReaches(class, threshold)
  <2>1. IsFiniteSet(W \X (1..threshold)) /\ Cardinality(W \X (1..threshold)) = n * threshold
    <3>1. threshold \in Nat
      OBVIOUS
    <3> QED  BY <3>1, <1>1, GridIs
  <2>2. W \X (1..threshold) \subseteq Q
    <3>1. ASSUME NEW p \in W \X (1..threshold)  PROVE p \in Q
      <4>1. p = <<p[1], p[2]>> /\ p[1] \in W /\ p[2] \in 1..threshold
        BY <3>1
      <4>2. Score(class, p[1]) >= threshold /\ Score(class, p[1]) \in 0..100
        BY <4>1, <1>1, <1>6
      <4>3. p[2] <= Score(class, p[1]) /\ p[2] \in 1..100
        BY <4>1, <4>2
      <4> QED  BY <4>1, <4>3 DEF Score
    <3> QED  BY <3>1
  <2>3. n * threshold <= Cardinality(Q)
    BY <1>2, <2>1, <2>2, FS_Subset
  <2>4. n >= 1 /\ n * threshold = threshold * n /\ (n = 1 => threshold * n = threshold * 1)
    BY <1>1, <1>4, <1>6
  <2> QED  BY <2>3, <2>4, <1>1, <1>3
<1> HIDE DEF W, n, Q
<1> QED  BY <1>5, <1>6 DEF W

(* A mean that reaches a threshold reaches a smaller one.                  *)
LEMMA MeanIsMonotone ==
  ASSUME IsConditionsInput(input), NEW class,
         NEW a \in 0..100, NEW b \in 0..100, a <= b, MeanReaches(class, b)
  PROVE  MeanReaches(class, a)
<1> DEFINE n == Later(1, Cardinality(Reporting(class)))
           total == ScoreSum(class)
<1>1. n \in Nat
  BY ReportsAreFinite DEF Later
<1>2. total \in Nat
  <2>1. IsFiniteSet(Reporting(class) \X (1..100))
    BY ReportsAreFinite, GridIs
  <2>2. {p \in Reporting(class) \X (1..100) :
           p[2] <= input.heard.windows[p[1]].scores[class]} \in SUBSET (Reporting(class) \X (1..100))
    OBVIOUS
  <2> QED  BY <2>1, <2>2, FS_Subset, FS_CardinalityType DEF ScoreSum
<1>3. b * n <= total
  BY DEF MeanReaches
<1> HIDE DEF n, total
<1>4. PICK d \in Nat : b = a + d
  <2>1. b - a \in Nat /\ b = a + (b - a)
    OBVIOUS
  <2> QED  BY <2>1
<1>5. b * n = a * n + d * n /\ d * n \in Nat /\ a * n \in Nat
  BY <1>1, <1>4
<1>6. a * n <= total
  BY <1>2, <1>3, <1>5
<1> QED  BY <1>6 DEF MeanReaches, n, total

LEMMA MusicLevelIs ==
  ASSUME IsConditionsInput(input)
  PROVE  /\ MusicLevel = "none" <=> ~MusicReaches(MusicPresence)
         /\ MusicLevel = "dominant" <=> MusicReaches(MusicDominant)
<1>1. MusicPresence \in 0..100 /\ MusicDominant \in 0..100 /\ MusicPresence <= MusicDominant
  BY ThresholdAssumption
<1>2. MusicReaches(MusicDominant) => MusicReaches(MusicPresence)
  BY <1>1, MeanIsMonotone DEF MusicReaches
<1>3. CASE ~MusicReaches(MusicPresence)
  BY <1>2, <1>3 DEF MusicLevel
<1>4. CASE MusicReaches(MusicDominant)
  BY <1>2, <1>4 DEF MusicLevel
<1>5. CASE MusicReaches(MusicPresence) /\ ~MusicReaches(MusicDominant)
  BY <1>5 DEF MusicLevel
<1> QED  BY <1>3, <1>4, <1>5

ServiceTurn == [speaker : Nat, start : Nat, end : Nat]

ConditionsTypes ==
  /\ IsConditionsInput(input)
  /\ work \in [phase : {"diarizing", "clipping", "sweeping", "listening", "seeded", "refused"},
               turns : SUBSET ServiceTurn, clipped : SUBSET ServiceTurn,
               sweep : [cursor : Nat, speech : Nat, overlap : Nat, maximum : Nat,
                        overlaps : Seq([start : Nat, end : Nat, speakers : SUBSET Nat])],
               speakers : {"unknown", "uncertain", "single_speaker",
                           "multi_speaker_no_overlap", "heavy_overlap", "partial_overlap"},
               music : {"unknown", "none", "dominant", "background", "uncertain"},
               spoken : BOOLEAN]

(* A chunk that was heard has the level and the flag its answer implies.   *)
SoundInv ==
  work.music # "unknown" =>
    work.music = MusicLevel /\ work.spoken = MeanReaches("speech", SpeechPresence)

LEMMA SoundEvidence ==
  ASSUME IsConditionsInput(input), SoundInv  PROVE SoundHasEvidence
<1> SUFFICES ASSUME work.music # "unknown"
             PROVE  SoundHasEvidence
  BY DEF SoundHasEvidence
<1>1. work.music = MusicLevel /\ work.spoken = MeanReaches("speech", SpeechPresence)
  BY DEF SoundInv
<1>2. /\ MusicPresence \in 0..100 /\ MusicDominant \in 0..100 /\ SpeechPresence \in 0..100
  BY ThresholdAssumption
<1>3. /\ work.music = "none" <=> ~MusicReaches(MusicPresence)
      /\ work.music = "dominant" <=> MusicReaches(MusicDominant)
  BY <1>1, MusicLevelIs
<1> DEFINE Loud(classes, threshold) ==
          threshold > 0 => \E class \in classes : \E i \in Reporting(class) :
            input.heard.windows[i].scores[class] >= threshold
        Always(class, threshold) ==
          /\ Reporting(class) # {}
          /\ \A i \in Reporting(class) : input.heard.windows[i].scores[class] >= threshold
<1>4. ASSUME NEW threshold \in 0..100, MusicReaches(threshold)
      PROVE  Loud(MusicClasses, threshold)
  BY <1>1, <1>4, MeanIsBetween DEF MusicReaches, Score
<1>5. ASSUME NEW threshold \in 0..100, NEW class \in MusicClasses, Always(class, threshold)
      PROVE  MusicReaches(threshold)
  BY <1>1, <1>5, MeanIsBetween DEF MusicReaches, Score
<1>6. work.spoken => Loud({"speech"}, SpeechPresence)
  BY <1>1, <1>2, MeanIsBetween DEF Score
<1>7. Always("speech", SpeechPresence) => work.spoken
  BY <1>1, <1>2, MeanIsBetween DEF Score
<1>8. /\ work.music = "dominant" => Loud(MusicClasses, MusicDominant)
      /\ work.music # "none" => Loud(MusicClasses, MusicPresence)
  BY <1>2, <1>3, <1>4
<1>9. \A class \in MusicClasses :
        /\ Always(class, MusicPresence) => work.music # "none"
        /\ Always(class, MusicDominant) => work.music = "dominant"
  BY <1>2, <1>3, <1>5
<1> QED  BY <1>6, <1>7, <1>8, <1>9 DEF SoundHasEvidence

LEMMA InputKept ==
  ASSUME [ConditionsNext]_computation
  PROVE  input' = input
BY DEF ConditionsNext, computation, Diarize, ClipTurns, SweepSegment, ClassifySpeakers,
       ClassifySound

LEMMA SoundKept ==
  ASSUME ConditionsTypes, SoundInv, [ConditionsNext]_computation  PROVE SoundInv'
<1>1. input' = input
  BY InputKept
<1>2. ASSUME NEW class  PROVE Reporting(class)' = Reporting(class)
  BY <1>1, Zenon DEF Reporting
<1>3. ASSUME NEW class  PROVE ScoreSum(class)' = ScoreSum(class)
  BY <1>1, <1>2, Zenon DEF ScoreSum
<1>4. ASSUME NEW class, NEW threshold
      PROVE  MeanReaches(class, threshold)' = MeanReaches(class, threshold)
  BY <1>2, <1>3, Zenon DEF MeanReaches
<1>5. ASSUME NEW threshold  PROVE MusicReaches(threshold)' = MusicReaches(threshold)
  BY <1>4, Zenon DEF MusicReaches
<1>6. MusicLevel' = MusicLevel
  BY <1>4, <1>5 DEF MusicLevel
<1>7. \/ work'.music = work.music /\ work'.spoken = work.spoken
      \/ work'.music = MusicLevel /\ work'.spoken = MeanReaches("speech", SpeechPresence)
  <2>1. CASE Diarize
    BY <2>1 DEF Diarize, ConditionsTypes
  <2>2. CASE ClipTurns
    BY <2>2 DEF ClipTurns, ConditionsTypes
  <2>3. CASE SweepSegment
    BY <2>3 DEF SweepSegment, ConditionsTypes
  <2>4. CASE ClassifySpeakers
    BY <2>4 DEF ClassifySpeakers, ConditionsTypes
  <2>5. CASE ClassifySound
    BY <2>5 DEF ClassifySound, ConditionsTypes
  <2>6. CASE UNCHANGED computation
    BY <2>6 DEF computation
  <2> QED  BY <2>1, <2>2, <2>3, <2>4, <2>5, <2>6 DEF ConditionsNext
<1> QED  BY <1>4, <1>6, <1>7 DEF SoundInv

-----------------------------------------------------------------------------
(*                        The speakers of a chunk                          *)
(*                                                                         *)
(* The sweep passes over the clipped turns from one end to the next.  Up   *)
(* to its cursor it has counted the ticks with one and with two speakers,  *)
(* knows the busiest one, and its overlaps are the maximal runs of ticks   *)
(* with the same two speakers or more.                                     *)

Overlap == [start : Nat, end : Nat, speakers : SUBSET Nat]

AreTurns(turns) ==
  /\ turns \in SUBSET ServiceTurn /\ IsFiniteSet(turns)
  /\ \A t \in turns : t.start < t.end

EndsAhead(turns, cursor) == {e \in UNION {{t.start, t.end} : t \in turns} : e > cursor}

Between(turns, cursor, next) ==
  {t.speaker : t \in {u \in turns : u.start < next /\ u.end > cursor}}

Busy(turns, n, cursor) ==
  {tick \in 0..(cursor - 1) : Cardinality(ActiveAt(turns, tick)) >= n}

LEMMA EndIsAhead ==
  ASSUME NEW turns, NEW cursor, NEW e
  PROVE  e \in EndsAhead(turns, cursor)
           <=> e > cursor /\ \E t \in turns : e = t.start \/ e = t.end
BY Zenon DEF EndsAhead

LEMMA ActiveSizes ==
  ASSUME NEW turns, AreTurns(turns), NEW tick
  PROVE  /\ IsFiniteSet(ActiveAt(turns, tick)) /\ ActiveAt(turns, tick) \in SUBSET Nat
         /\ Cardinality(ActiveAt(turns, tick)) \in Nat
         /\ Cardinality(ActiveAt(turns, tick)) = 0 <=> ActiveAt(turns, tick) = {}
<1>1. IsFiniteSet(ActiveAt(turns, tick))
  BY ActiveFinite DEF AreTurns
<1>2. ActiveAt(turns, tick) \in SUBSET Nat
  BY ActiveMember DEF AreTurns, ServiceTurn
<1> QED  BY <1>1, <1>2, FS_CardinalityType, FS_EmptySet

(* The next end is the least one ahead.                                    *)
LEMMA NextEnd ==
  ASSUME NEW turns, AreTurns(turns), NEW cursor \in Nat, EndsAhead(turns, cursor) # {}
  PROVE  /\ Min(EndsAhead(turns, cursor)) \in EndsAhead(turns, cursor)
         /\ Min(EndsAhead(turns, cursor)) \in Nat /\ cursor < Min(EndsAhead(turns, cursor))
         /\ \A e \in EndsAhead(turns, cursor) : Min(EndsAhead(turns, cursor)) <= e
<1> DEFINE ahead == EndsAhead(turns, cursor)
<1>1. ahead \in SUBSET Nat
  BY EndIsAhead DEF AreTurns, ServiceTurn
<1>2. \E n \in ahead : \A m \in ahead : n <= m
  <2> HIDE DEF ahead
  <2> QED  BY <1>1, LeastOf DEF ahead
<1>3. Min(ahead) \in ahead /\ \A e \in ahead : Min(ahead) <= e
  <2> HIDE DEF ahead
  <2> QED  BY <1>2 DEF Min
<1>4. Min(ahead) > cursor
  BY <1>3, EndIsAhead
<1> QED  BY <1>1, <1>3, <1>4

(* Until then the same speakers are active.                                *)
LEMMA SameUntilNextEnd ==
  ASSUME NEW turns, AreTurns(turns), NEW cursor \in Nat, NEW next \in Nat, cursor < next,
         \A e \in EndsAhead(turns, cursor) : next <= e,
         NEW tick \in cursor..(next - 1)
  PROVE  ActiveAt(turns, tick) = Between(turns, cursor, next)
<1>1. ASSUME NEW u \in turns
      PROVE  (u.start < next /\ u.end > cursor) <=> IsIn(tick, u)
  <2>1. u.start \in Nat /\ u.end \in Nat
    BY DEF AreTurns, ServiceTurn
  <2>2. u.start > cursor => next <= u.start
    BY EndIsAhead
  <2>3. u.end > cursor => next <= u.end
    BY EndIsAhead
  <2> QED  BY <2>1, <2>2, <2>3 DEF IsIn
<1>2. {u \in turns : u.start < next /\ u.end > cursor}
        = {u \in turns : u.start <= tick /\ tick < u.end}
  BY <1>1 DEF IsIn
<1> QED  BY <1>2, Zenon DEF ActiveAt, Between

(* Beyond the last end, and before time, nobody is.                        *)
LEMMA NobodyBeyond ==
  ASSUME NEW turns, AreTurns(turns), NEW cursor \in Nat, EndsAhead(turns, cursor) = {},
         NEW tick \in Int, ~(0 <= tick /\ tick < cursor)
  PROVE  ActiveAt(turns, tick) = {}
<1> SUFFICES ASSUME NEW u \in turns, IsIn(tick, u)  PROVE FALSE
  BY ActiveMember
<1>1. u.start \in Nat /\ u.end \in Nat
  BY DEF AreTurns, ServiceTurn
<1>2. ~(u.end > cursor)
  BY EndIsAhead
<1> QED  BY <1>1, <1>2 DEF IsIn

LEMMA BusyGrows ==
  ASSUME NEW turns, AreTurns(turns), NEW cursor \in Nat, NEW next \in Nat, cursor < next,
         NEW active, \A tick \in cursor..(next - 1) : ActiveAt(turns, tick) = active,
         NEW n \in Nat
  PROVE  /\ IsFiniteSet(Busy(turns, n, cursor)) /\ Cardinality(Busy(turns, n, cursor)) \in Nat
         /\ Cardinality(Busy(turns, n, next)) = Cardinality(Busy(turns, n, cursor))
              + (IF Cardinality(active) >= n THEN next - cursor ELSE 0)
<1> DEFINE new == IF Cardinality(active) >= n THEN cursor..(next - 1) ELSE {}
           old == Busy(turns, n, cursor)
<1>1. IsFiniteSet(old) /\ Cardinality(old) \in Nat
  <2>1. IsFiniteSet(0..(cursor - 1)) /\ old \in SUBSET (0..(cursor - 1))
    BY FS_Interval DEF Busy
  <2> QED  BY <2>1, FS_Subset, FS_CardinalityType
<1>2. IsFiniteSet(new)
      /\ Cardinality(new) = IF Cardinality(active) >= n THEN next - cursor ELSE 0
  BY FS_Interval, FS_EmptySet
<1>3. old \intersect new = {}
  BY DEF Busy
<1>4. Busy(turns, n, next) = old \union new
  <2>1. \A tick \in 0..(next - 1) : tick \in 0..(cursor - 1) \/ tick \in cursor..(next - 1)
    OBVIOUS
  <2> QED  BY <2>1 DEF Busy
<1> HIDE DEF new, old
<1>5. Cardinality(old \union new) = Cardinality(old) + Cardinality(new)
  BY <1>1, <1>2, <1>3, DisjointSum
<1> QED  BY <1>1, <1>2, <1>4, <1>5 DEF old

-----------------------------------------------------------------------------
(* The overlaps found up to the cursor: each has the same two speakers or  *)
(* more throughout, one that touches the next has others, and no moment    *)
(* with two speakers is missed.                                            *)

Within(overlaps, i, tick) == overlaps[i].start <= tick /\ tick < overlaps[i].end

OverlapsFit(turns, overlaps, cursor) ==
  /\ \A i \in 1..Len(overlaps) :
       /\ overlaps[i].start < overlaps[i].end /\ overlaps[i].end <= cursor
       /\ Cardinality(overlaps[i].speakers) >= 2
       /\ \A tick \in Nat : Within(overlaps, i, tick)
            => ActiveAt(turns, tick) = overlaps[i].speakers
  /\ \A i, j \in 1..Len(overlaps) : i < j =>
       /\ overlaps[i].end <= overlaps[j].start
       /\ overlaps[i].end = overlaps[j].start => overlaps[i].speakers # overlaps[j].speakers
  /\ \A tick \in Busy(turns, 2, cursor) : \E i \in 1..Len(overlaps) : Within(overlaps, i, tick)

(* A segment lengthens the last overlap or becomes the next one.           *)
LEMMA JoinedIs ==
  ASSUME NEW overlaps \in Seq(Overlap), NEW segment \in Overlap
  PROVE  LET joined == Joined(overlaps, segment)
             n      == Len(overlaps)
         IN /\ joined \in Seq(Overlap)
            /\ \/ /\ n > 0 /\ Len(joined) = n
                  /\ overlaps[n].end = segment.start /\ overlaps[n].speakers = segment.speakers
                  /\ \A i \in 1..(n - 1) : joined[i] = overlaps[i]
                  /\ joined[n].start = overlaps[n].start /\ joined[n].end = segment.end
                  /\ joined[n].speakers = overlaps[n].speakers
               \/ /\ Len(joined) = n + 1
                  /\ n > 0 => ~(/\ overlaps[n].end = segment.start
                                /\ overlaps[n].speakers = segment.speakers)
                  /\ \A i \in 1..n : joined[i] = overlaps[i]
                  /\ joined[n + 1] = segment
<1> DEFINE n == Len(overlaps)
           continues == overlaps # <<>> /\ overlaps[n].end = segment.start
                          /\ overlaps[n].speakers = segment.speakers
<1>1. n \in Nat /\ DOMAIN overlaps = 1..n /\ (overlaps # <<>> <=> n > 0)
      /\ \A i \in 1..n : overlaps[i] \in Overlap
  OBVIOUS
<1>2. CASE continues
  <2>1. overlaps # <<>> /\ n > 0 /\ overlaps[n] \in Overlap
        /\ overlaps[n].end = segment.start /\ overlaps[n].speakers = segment.speakers
    BY <1>1, <1>2
  <2>2. PICK longer : longer = [overlaps[n] EXCEPT !.end = segment.end]
    OBVIOUS
  <2>3. longer \in Overlap /\ longer.start = overlaps[n].start /\ longer.end = segment.end
        /\ longer.speakers = overlaps[n].speakers
    BY <2>1, <2>2 DEF Overlap
  <2>4. Joined(overlaps, segment) = [overlaps EXCEPT ![n] = longer]
    BY <1>2, <2>2 DEF Joined
  <2>5. /\ [overlaps EXCEPT ![n] = longer] \in Seq(Overlap)
        /\ Len([overlaps EXCEPT ![n] = longer]) = n
        /\ \A i \in 1..(n - 1) : [overlaps EXCEPT ![n] = longer][i] = overlaps[i]
        /\ [overlaps EXCEPT ![n] = longer][n] = longer
    <3>1. n \in 1..n /\ n \in DOMAIN overlaps
      BY <1>1, <2>1
    <3>2. PICK changed : changed = [overlaps EXCEPT ![n] = longer]
      OBVIOUS
    <3>3. changed \in [1..n -> Overlap]
      BY <1>1, <2>3, <3>2
    <3>4. DOMAIN changed = 1..n /\ changed[n] = longer
          /\ \A i \in 1..(n - 1) : changed[i] = overlaps[i]
      <4>1. DOMAIN changed = 1..n /\ \A i \in 1..n : changed[i] = IF i = n THEN longer ELSE overlaps[i]
        <5> HIDE DEF n
        <5> QED  BY <1>1, <3>2
      <4> HIDE DEF n
      <4> QED  BY <1>1, <3>1, <4>1
    <3>5. changed \in Seq(Overlap) /\ Len(changed) = n
      <4> HIDE DEF n
      <4> QED  BY <1>1, <3>3, <3>4
    <3> QED  BY <3>2, <3>4, <3>5
  <2> QED  BY <2>1, <2>3, <2>4, <2>5
<1>3. CASE ~continues
  <2>1. Joined(overlaps, segment) = Append(overlaps, segment)
    BY <1>3 DEF Joined
  <2>2. /\ Append(overlaps, segment) \in Seq(Overlap)
        /\ Len(Append(overlaps, segment)) = n + 1
        /\ \A i \in 1..n : Append(overlaps, segment)[i] = overlaps[i]
        /\ Append(overlaps, segment)[n + 1] = segment
    BY <1>1
  <2>3. n > 0 => ~(overlaps[n].end = segment.start /\ overlaps[n].speakers = segment.speakers)
    BY <1>1, <1>3
  <2> QED  BY <2>1, <2>2, <2>3
<1> QED  BY <1>2, <1>3

LEMMA OverlapsGrow ==
  ASSUME NEW turns, AreTurns(turns), NEW overlaps \in Seq(Overlap),
         NEW cursor \in Nat, OverlapsFit(turns, overlaps, cursor),
         NEW next \in Nat, cursor < next,
         NEW active \in SUBSET Nat, IsFiniteSet(active), Cardinality(active) >= 2,
         \A tick \in cursor..(next - 1) : ActiveAt(turns, tick) = active
  PROVE  OverlapsFit(turns,
           Joined(overlaps, [start |-> cursor, end |-> next, speakers |-> active]), next)
<1> DEFINE segment == [start |-> cursor, end |-> next, speakers |-> active]
           n == Len(overlaps)
<1>1. PICK o : o = Joined(overlaps, segment)
  OBVIOUS
<1>2. segment \in Overlap /\ segment.start = cursor /\ segment.end = next
      /\ segment.speakers = active
  BY DEF Overlap
<1>3. n \in Nat /\ \A i \in 1..n : overlaps[i] \in Overlap
  OBVIOUS
<1>4. \A i \in 1..n : overlaps[i].start \in Nat /\ overlaps[i].end \in Nat
  BY <1>3 DEF Overlap
<1>5. \/ /\ n > 0 /\ Len(o) = n
         /\ overlaps[n].end = cursor /\ overlaps[n].speakers = active
         /\ \A i \in 1..(n - 1) : o[i] = overlaps[i]
         /\ o[n].start = overlaps[n].start /\ o[n].end = next
         /\ o[n].speakers = overlaps[n].speakers
      \/ /\ Len(o) = n + 1
         /\ n > 0 => ~(overlaps[n].end = cursor /\ overlaps[n].speakers = active)
         /\ \A i \in 1..n : o[i] = overlaps[i]
         /\ o[n + 1] = segment
  <2> HIDE DEF segment
  <2> QED  BY <1>1, <1>2, JoinedIs
<1>6. /\ \A i \in 1..n :
           /\ overlaps[i].start < overlaps[i].end /\ overlaps[i].end <= cursor
           /\ Cardinality(overlaps[i].speakers) >= 2
           /\ \A tick \in Nat : Within(overlaps, i, tick)
                => ActiveAt(turns, tick) = overlaps[i].speakers
      /\ \A i, j \in 1..n : i < j =>
           /\ overlaps[i].end <= overlaps[j].start
           /\ overlaps[i].end = overlaps[j].start => overlaps[i].speakers # overlaps[j].speakers
      /\ \A tick \in Busy(turns, 2, cursor) : \E i \in 1..n : Within(overlaps, i, tick)
  BY DEF OverlapsFit
<1>7. \A tick \in Busy(turns, 2, next) : tick \in Busy(turns, 2, cursor) \/ tick \in cursor..(next - 1)
  BY DEF Busy
<1> HIDE DEF n
<1>8. CASE /\ n > 0 /\ Len(o) = n
           /\ overlaps[n].end = cursor /\ overlaps[n].speakers = active
           /\ \A i \in 1..(n - 1) : o[i] = overlaps[i]
           /\ o[n].start = overlaps[n].start /\ o[n].end = next
           /\ o[n].speakers = overlaps[n].speakers
  <2>1. \A i \in 1..n : i \in 1..(n - 1) \/ i = n
    BY <1>3
  <2>2. ASSUME NEW i \in 1..n
        PROVE  /\ o[i].start = overlaps[i].start /\ o[i].speakers = overlaps[i].speakers
               /\ i < n => o[i].end = overlaps[i].end
               /\ i = n => o[i].end = next
    BY <1>3, <1>8, <2>1
  <2>3. ASSUME NEW i \in 1..n
        PROVE  /\ o[i].start < o[i].end /\ o[i].end <= next /\ Cardinality(o[i].speakers) >= 2
               /\ \A tick \in Nat : Within(o, i, tick) => ActiveAt(turns, tick) = o[i].speakers
    <3>1. CASE i < n
      BY <3>1, <2>2, <1>4, <1>6 DEF Within
    <3>2. CASE i = n
      <4>1. o[i].start < o[i].end /\ o[i].end <= next /\ Cardinality(o[i].speakers) >= 2
        BY <3>2, <2>2, <1>4, <1>6
      <4>2. ASSUME NEW tick \in Nat, Within(o, i, tick)
            PROVE  ActiveAt(turns, tick) = o[i].speakers
        <5>1. o[i].start <= tick /\ tick < next
          BY <4>2, <3>2, <2>2 DEF Within
        <5>2. CASE tick < cursor
          BY <5>1, <5>2, <3>2, <2>2, <1>6, <1>8 DEF Within
        <5>3. CASE tick >= cursor
          BY <5>1, <5>3, <3>2, <2>2, <1>8
        <5> QED  BY <5>2, <5>3
      <4> QED  BY <4>1, <4>2
    <3> QED  BY <3>1, <3>2, <1>3
  <2>4. \A i, j \in 1..n : i < j =>
          o[i].end <= o[j].start /\ (o[i].end = o[j].start => o[i].speakers # o[j].speakers)
    BY <2>2, <1>3, <1>6
  <2>5. ASSUME NEW tick \in Busy(turns, 2, next)
        PROVE  \E i \in 1..n : Within(o, i, tick)
    <3>1. CASE tick \in Busy(turns, 2, cursor)
      <4>1. PICK i \in 1..n : Within(overlaps, i, tick)
        BY <3>1, <1>6
      <4>2. tick \in Int
        BY <3>1 DEF Busy
      <4>3. Within(o, i, tick)
        BY <4>1, <4>2, <2>2, <1>3, <1>4, <1>8 DEF Within
      <4> QED  BY <4>3
    <3>2. CASE tick \in cursor..(next - 1)
      <4>1. n \in 1..n
        BY <1>3, <1>8
      <4>2. Within(o, n, tick)
        BY <3>2, <4>1, <2>2, <1>4, <1>6, <1>8 DEF Within
      <4> QED  BY <4>1, <4>2
    <3> QED  BY <1>7, <3>1, <3>2
  <2>6. OverlapsFit(turns, o, next)
    BY <2>3, <2>4, <2>5, <1>8 DEF OverlapsFit
  <2> QED  BY <2>6, <1>1
<1>9. CASE /\ Len(o) = n + 1
           /\ n > 0 => ~(overlaps[n].end = cursor /\ overlaps[n].speakers = active)
           /\ \A i \in 1..n : o[i] = overlaps[i]
           /\ o[n + 1] = segment
  <2>1. \A i \in 1..(n + 1) : i \in 1..n \/ i = n + 1
    BY <1>3
  <2>2. o[n + 1].start = cursor /\ o[n + 1].end = next /\ o[n + 1].speakers = active
    BY <1>2, <1>9
  <2>3. ASSUME NEW i \in 1..(n + 1)
        PROVE  /\ o[i].start < o[i].end /\ o[i].end <= next /\ Cardinality(o[i].speakers) >= 2
               /\ \A tick \in Nat : Within(o, i, tick) => ActiveAt(turns, tick) = o[i].speakers
    <3>1. CASE i \in 1..n
      BY <3>1, <1>9, <1>4, <1>6 DEF Within
    <3>2. CASE i = n + 1
      BY <3>2, <2>2 DEF Within
    <3> QED  BY <3>1, <3>2, <2>1
  <2>4. ASSUME NEW i \in 1..(n + 1), NEW j \in 1..(n + 1), i < j
        PROVE  o[i].end <= o[j].start /\ (o[i].end = o[j].start => o[i].speakers # o[j].speakers)
    <3>1. i \in 1..n /\ o[i] = overlaps[i]
      BY <2>4, <1>3, <1>9
    <3>2. CASE j \in 1..n
      BY <2>4, <3>1, <3>2, <1>6, <1>9
    <3>3. CASE j = n + 1
      <4>1. overlaps[i].end <= cursor
        BY <3>1, <1>6
      <4>2. overlaps[i].end = cursor => i = n
        <5>1. SUFFICES ASSUME i < n  PROVE overlaps[i].end < cursor
          BY <3>1, <1>3, <1>4
        <5>2. n \in 1..n
          BY <3>1, <1>3
        <5>3. overlaps[i].end <= overlaps[n].start
          BY <5>1, <5>2, <3>1, <1>6
        <5>4. overlaps[n].start < overlaps[n].end /\ overlaps[n].end <= cursor
          BY <5>2, <1>6
        <5> QED  BY <5>2, <5>3, <5>4, <3>1, <1>4
      <4> QED  BY <3>1, <3>3, <4>1, <4>2, <2>2, <1>3, <1>9
    <3> QED  BY <3>2, <3>3, <2>1
  <2>5. ASSUME NEW tick \in Busy(turns, 2, next)
        PROVE  \E i \in 1..(n + 1) : Within(o, i, tick)
    <3>1. CASE tick \in Busy(turns, 2, cursor)
      <4>1. PICK i \in 1..n : Within(overlaps, i, tick)
        BY <3>1, <1>6
      <4>2. i \in 1..(n + 1) /\ Within(o, i, tick)
        BY <4>1, <1>3, <1>9 DEF Within
      <4> QED  BY <4>2
    <3>2. CASE tick \in cursor..(next - 1)
      BY <3>2, <2>2, <1>3 DEF Within
    <3> QED  BY <1>7, <3>1, <3>2
  <2>6. OverlapsFit(turns, o, next)
    BY <2>3, <2>4, <2>5, <1>9 DEF OverlapsFit
  <2> QED  BY <2>6, <1>1
<1> QED  BY <1>5, <1>8, <1>9

(* A quiet stretch leaves them as they are.                                *)
LEMMA OverlapsWait ==
  ASSUME NEW turns, AreTurns(turns), NEW overlaps \in Seq(Overlap),
         NEW cursor \in Nat, OverlapsFit(turns, overlaps, cursor),
         NEW next \in Nat, cursor < next,
         NEW active, Cardinality(active) \in Nat, ~(Cardinality(active) >= 2),
         \A tick \in cursor..(next - 1) : ActiveAt(turns, tick) = active
  PROVE  OverlapsFit(turns, overlaps, next)
<1>1. \A tick \in Busy(turns, 2, next) : tick \in Busy(turns, 2, cursor)
  BY DEF Busy
<1>2. \A i \in 1..Len(overlaps) : overlaps[i] \in Overlap
  OBVIOUS
<1>3. \A i \in 1..Len(overlaps) : overlaps[i].end \in Nat
  BY <1>2 DEF Overlap
<1> QED  BY <1>1, <1>3 DEF OverlapsFit

-----------------------------------------------------------------------------

SweepFits(turns, sweep) ==
  /\ sweep.speech = Cardinality(Busy(turns, 1, sweep.cursor))
  /\ sweep.overlap = Cardinality(Busy(turns, 2, sweep.cursor))
  /\ \A tick \in 0..(sweep.cursor - 1) : Cardinality(ActiveAt(turns, tick)) <= sweep.maximum
  /\ sweep.maximum # 0 =>
       \E tick \in 0..(sweep.cursor - 1) : Cardinality(ActiveAt(turns, tick)) = sweep.maximum
  /\ OverlapsFit(turns, sweep.overlaps, sweep.cursor)

ChunkTurns == {c \in {Clip(t) : t \in work.turns} : c.start < c.end}

LEMMA ChunkTurnsKept ==
  ASSUME input' = input, work'.turns = work.turns
  PROVE  ChunkTurns' = ChunkTurns
BY Zenon DEF ChunkTurns, Clip

(* The sweep fits the turns of the chunk in every phase; the label is      *)
(* given when it has passed the last of them.                              *)
SpeakersInv ==
  /\ AreTurns(work.turns) /\ AreTurns(work.clipped)
  /\ \A c \in work.clipped : input.chunk.start <= c.start /\ c.end <= input.chunk.end
  /\ work.phase # "clipping" => work.clipped = ChunkTurns
  /\ work.phase \in {"diarizing", "clipping"} => work.sweep = EmptySweep /\ work.clipped = {}
  /\ work.phase \in {"diarizing", "clipping", "sweeping"} => work.speakers = "unknown"
  /\ work.phase # "refused"
  /\ work.speakers # "unknown" => Ahead = {}
  /\ SweepFits(work.clipped, work.sweep)

LEMMA EmptyFits ==
  ASSUME NEW turns, AreTurns(turns)
  PROVE  SweepFits(turns, EmptySweep)
<1>1. \A n \in Nat : Busy(turns, n, 0) = {}
  BY DEF Busy
<1>2. Cardinality({}) = 0
  BY FS_EmptySet
<1>3. OverlapsFit(turns, <<>>, 0)
  BY <1>1 DEF OverlapsFit
<1>4. /\ EmptySweep.cursor = 0 /\ EmptySweep.speech = 0 /\ EmptySweep.overlap = 0
      /\ EmptySweep.maximum = 0 /\ EmptySweep.overlaps = <<>>
  BY DEF EmptySweep
<1>5. Busy(turns, 1, 0) = {} /\ Busy(turns, 2, 0) = {}
  BY <1>1
<1>6. 0..(0 - 1) = {}
  OBVIOUS
<1> QED  BY <1>2, <1>3, <1>4, <1>5, <1>6 DEF SweepFits

(* The image of a finite set of turns is finite.                           *)
LEMMA RoundedFinite ==
  ASSUME NEW turns, IsFiniteSet(turns)
  PROVE  IsFiniteSet({Rounded(t) : t \in turns})
<1> DEFINE image == {Rounded(t) : t \in turns}
           rounding == [t \in turns |-> Rounded(t)]
<1>1. rounding \in [turns -> image] /\ \A x \in image : \E t \in turns : rounding[t] = x
  OBVIOUS
<1>2. rounding \in Surjection(turns, image)
  <2> HIDE DEF rounding, image
  <2> QED  BY <1>1, Zenon DEF Surjection
<1> HIDE DEF rounding, image
<1>3. IsFiniteSet(image)
  BY <1>2, FS_Surjection
<1> QED  BY <1>3 DEF image

LEMMA ClippedFinite ==
  ASSUME NEW turns, IsFiniteSet(turns)
  PROVE  IsFiniteSet({Clip(t) : t \in turns})
<1> DEFINE image == {Clip(t) : t \in turns}
           clipping == [t \in turns |-> Clip(t)]
<1>1. clipping \in [turns -> image] /\ \A x \in image : \E t \in turns : clipping[t] = x
  OBVIOUS
<1>2. clipping \in Surjection(turns, image)
  <2> HIDE DEF clipping, image
  <2> QED  BY <1>1, Zenon DEF Surjection
<1> HIDE DEF clipping, image
<1>3. IsFiniteSet(image)
  BY <1>2, FS_Surjection
<1> QED  BY <1>3 DEF image

LEMMA RoundedTurns ==
  ASSUME IsConditionsInput(input),
         IsParsed({Rounded(t) : t \in input.diarized.turns})
  PROVE  AreTurns({Rounded(t) : t \in input.diarized.turns})
<1> DEFINE turns == {Rounded(t) : t \in input.diarized.turns}
<1>1. IsFiniteSet(turns)
  BY RoundedFinite DEF IsConditionsInput
<1>2. ASSUME NEW t \in input.diarized.turns  PROVE Rounded(t) \in ServiceTurn
  <2>1. t \in ServiceTurn
    BY DEF IsConditionsInput, ServiceTurn
  <2> QED  BY <2>1 DEF Rounded, ServiceTurn
<1>3. turns \in SUBSET ServiceTurn
  BY <1>2
<1>4. \A t \in turns : t.start < t.end
  BY DEF IsParsed
<1> QED  BY <1>1, <1>3, <1>4 DEF AreTurns

LEMMA ClipIs ==
  ASSUME IsConditionsInput(input), NEW t \in ServiceTurn
  PROVE  /\ Clip(t) \in ServiceTurn /\ Clip(t).speaker = t.speaker
         /\ input.chunk.start <= Clip(t).start /\ Clip(t).end <= input.chunk.end
         /\ \A tick \in Int : IsIn(tick, Clip(t)) <=> IsIn(tick, t) /\ tick \in ChunkTicks
<1>1. input.chunk.start \in Nat /\ input.chunk.end \in Nat
  BY DEF IsConditionsInput
<1>2. t.speaker \in Nat /\ t.start \in Nat /\ t.end \in Nat
  BY DEF ServiceTurn
<1>3. PICK a, b : a = Later(t.start, input.chunk.start) /\ b = Earlier(t.end, input.chunk.end)
  OBVIOUS
<1>4. /\ a \in Nat /\ b \in Nat /\ input.chunk.start <= a /\ b <= input.chunk.end
      /\ \A tick \in Int : a <= tick /\ tick < b
                              <=> t.start <= tick /\ tick < t.end /\ tick \in ChunkTicks
  BY <1>1, <1>2, <1>3 DEF Later, Earlier, ChunkTicks
<1>5. Clip(t) = [t EXCEPT !.start = a, !.end = b]
  BY <1>3 DEF Clip, ServiceTurn
<1>6. Clip(t) \in ServiceTurn /\ Clip(t).speaker = t.speaker /\ Clip(t).start = a /\ Clip(t).end = b
  BY <1>4, <1>5 DEF ServiceTurn
<1> QED  BY <1>4, <1>6 DEF IsIn

LEMMA ClippedTurns ==
  ASSUME IsConditionsInput(input), NEW turns, AreTurns(turns),
         NEW clipped, clipped = {c \in {Clip(t) : t \in turns} : c.start < c.end}
  PROVE  /\ AreTurns(clipped)
         /\ \A c \in clipped : input.chunk.start <= c.start /\ c.end <= input.chunk.end
         /\ \A tick \in Int : ActiveAt(clipped, tick) =
              IF tick \in ChunkTicks THEN ActiveAt(turns, tick) ELSE {}
<1>1. IsFiniteSet(clipped)
  BY ClippedFinite, FS_Subset DEF AreTurns
<1>2. \A t \in turns : t \in ServiceTurn
  BY DEF AreTurns
<1>3. \A c \in clipped : c \in ServiceTurn /\ c.start < c.end
        /\ input.chunk.start <= c.start /\ c.end <= input.chunk.end
  BY <1>2, ClipIs
<1>4. ASSUME NEW tick \in Int, NEW s
      PROVE  s \in ActiveAt(clipped, tick) <=> s \in ActiveAt(turns, tick) /\ tick \in ChunkTicks
  <2>1. ASSUME NEW c \in clipped, c.speaker = s, IsIn(tick, c)
        PROVE  s \in ActiveAt(turns, tick) /\ tick \in ChunkTicks
    <3>1. PICK t \in turns : c = Clip(t)
      OBVIOUS
    <3>2. t.speaker = s /\ IsIn(tick, t) /\ tick \in ChunkTicks
      BY <3>1, <2>1, <1>2, ClipIs
    <3> QED  BY <3>2, ActiveMember
  <2>2. ASSUME NEW t \in turns, t.speaker = s, IsIn(tick, t), tick \in ChunkTicks
        PROVE  s \in ActiveAt(clipped, tick)
    <3>1. Clip(t).speaker = s /\ IsIn(tick, Clip(t)) /\ Clip(t) \in ServiceTurn
      BY <2>2, <1>2, ClipIs
    <3>2. Clip(t).start < Clip(t).end
      BY <3>1 DEF IsIn, ServiceTurn
    <3>3. Clip(t) \in clipped
      BY <3>2
    <3> QED  BY <3>1, <3>3, ActiveMember
  <2> QED  BY <2>1, <2>2, ActiveMember
<1>5. ASSUME NEW tick \in Int
      PROVE  ActiveAt(clipped, tick) = IF tick \in ChunkTicks THEN ActiveAt(turns, tick) ELSE {}
  BY <1>4
<1> QED  BY <1>1, <1>3, <1>5 DEF AreTurns

-----------------------------------------------------------------------------
(*                       What each step keeps                              *)

Extended(turns, sweep, next, active) ==
  [cursor   |-> next,
   speech   |-> sweep.speech + IF active # {} THEN next - sweep.cursor ELSE 0,
   overlap  |-> sweep.overlap + IF Cardinality(active) >= 2 THEN next - sweep.cursor ELSE 0,
   maximum  |-> Later(sweep.maximum, Cardinality(active)),
   overlaps |-> IF Cardinality(active) >= 2
                THEN Joined(sweep.overlaps,
                       [start |-> sweep.cursor, end |-> next, speakers |-> active])
                ELSE sweep.overlaps]

SweepType == [cursor : Nat, speech : Nat, overlap : Nat, maximum : Nat, overlaps : Seq(Overlap)]

LEMMA SweepExtends ==
  ASSUME NEW turns, AreTurns(turns), NEW sweep \in SweepType, SweepFits(turns, sweep),
         NEW next \in Nat, sweep.cursor < next, NEW active,
         \A tick \in sweep.cursor..(next - 1) : ActiveAt(turns, tick) = active
  PROVE  /\ Extended(turns, sweep, next, active) \in SweepType
         /\ SweepFits(turns, Extended(turns, sweep, next, active))
<1>1. PICK c : c = sweep.cursor
  OBVIOUS
<1>2. PICK o : o = sweep.overlaps
  OBVIOUS
<1>3. PICK m : m = sweep.maximum
  OBVIOUS
<1>4. c \in Nat /\ o \in Seq(Overlap) /\ m \in Nat /\ sweep.speech \in Nat /\ sweep.overlap \in Nat
      /\ c < next
  BY <1>1, <1>2, <1>3 DEF SweepType
<1>5. /\ sweep.speech = Cardinality(Busy(turns, 1, c))
      /\ sweep.overlap = Cardinality(Busy(turns, 2, c))
      /\ \A tick \in 0..(c - 1) : Cardinality(ActiveAt(turns, tick)) <= m
      /\ m # 0 => \E tick \in 0..(c - 1) : Cardinality(ActiveAt(turns, tick)) = m
      /\ OverlapsFit(turns, o, c)
  BY <1>1, <1>2, <1>3 DEF SweepFits
<1>6. \A tick \in c..(next - 1) : ActiveAt(turns, tick) = active
  BY <1>1
<1>7. /\ IsFiniteSet(active) /\ active \in SUBSET Nat /\ Cardinality(active) \in Nat
      /\ Cardinality(active) = 0 <=> active = {}
  <2>1. c \in c..(next - 1)
    BY <1>4
  <2>2. ActiveAt(turns, c) = active
    BY <1>6, <2>1
  <2> QED  BY <2>2, ActiveSizes
<1>8. PICK k \in Nat : k = Cardinality(active)
  BY <1>7
<1>9. PICK segment : segment = [start |-> c, end |-> next, speakers |-> active]
  OBVIOUS
<1>10. PICK s : s = Extended(turns, sweep, next, active)
  OBVIOUS
<1>11. /\ s.cursor = next
       /\ s.speech = sweep.speech + IF k >= 1 THEN next - c ELSE 0
       /\ s.overlap = sweep.overlap + IF k >= 2 THEN next - c ELSE 0
       /\ s.maximum = Later(m, k)
       /\ s.overlaps = IF k >= 2 THEN Joined(o, segment) ELSE o
       /\ s \in [cursor : {s.cursor}, speech : {s.speech}, overlap : {s.overlap},
                maximum : {s.maximum}, overlaps : {s.overlaps}]
  <2>1. s = [cursor   |-> next,
             speech   |-> sweep.speech + IF active # {} THEN next - c ELSE 0,
             overlap  |-> sweep.overlap + IF k >= 2 THEN next - c ELSE 0,
             maximum  |-> Later(m, k),
             overlaps |-> IF k >= 2 THEN Joined(o, segment) ELSE o]
    BY <1>1, <1>2, <1>3, <1>8, <1>9, <1>10, Zenon DEF Extended
  <2>2. active # {} <=> k >= 1
    <3>1. active = {} <=> k = 0
      BY <1>7, <1>8, Zenon
    <3>2. k = 0 <=> ~(k >= 1)
      OBVIOUS
    <3> QED  BY <3>1, <3>2, Zenon
  <2>3. /\ s.cursor = next
        /\ s.speech = sweep.speech + IF active # {} THEN next - c ELSE 0
        /\ s.overlap = sweep.overlap + IF k >= 2 THEN next - c ELSE 0
        /\ s.maximum = Later(m, k)
        /\ s.overlaps = IF k >= 2 THEN Joined(o, segment) ELSE o
    BY <2>1
  <2>4. s \in [cursor : {s.cursor}, speech : {s.speech}, overlap : {s.overlap},
               maximum : {s.maximum}, overlaps : {s.overlaps}]
    BY <2>1
  <2> QED  BY <2>2, <2>3, <2>4
<1>12. s.speech = Cardinality(Busy(turns, 1, next)) /\ s.overlap = Cardinality(Busy(turns, 2, next))
  <2>1. \A n \in Nat : Cardinality(Busy(turns, n, next))
           = Cardinality(Busy(turns, n, c)) + (IF k >= n THEN next - c ELSE 0)
    BY <1>4, <1>6, <1>8, BusyGrows
  <2> QED  BY <2>1, <1>5, <1>11
<1>13. /\ \A tick \in 0..(next - 1) : Cardinality(ActiveAt(turns, tick)) <= s.maximum
       /\ s.maximum # 0 =>
            \E tick \in 0..(next - 1) : Cardinality(ActiveAt(turns, tick)) = s.maximum
  <2>1. ASSUME NEW tick \in 0..(next - 1)
        PROVE  Cardinality(ActiveAt(turns, tick)) <= s.maximum
    <3>1. Cardinality(ActiveAt(turns, tick)) \in Nat
      BY ActiveSizes
    <3>2. tick \in 0..(c - 1) \/ tick \in c..(next - 1)
      BY <1>4
    <3>3. Cardinality(ActiveAt(turns, tick)) <= m \/ Cardinality(ActiveAt(turns, tick)) = k
      BY <3>2, <1>5, <1>6, <1>8
    <3> QED  BY <3>1, <3>3, <1>4, <1>8, <1>11 DEF Later
  <2>2. ASSUME s.maximum # 0
        PROVE  \E tick \in 0..(next - 1) : Cardinality(ActiveAt(turns, tick)) = s.maximum
    <3>1. CASE m < k
      <4>1. c \in 0..(next - 1) /\ c \in c..(next - 1)
        BY <1>4
      <4>2. Cardinality(ActiveAt(turns, c)) = s.maximum
        BY <4>1, <3>1, <1>6, <1>8, <1>11 DEF Later
      <4> QED  BY <4>1, <4>2
    <3>2. CASE ~(m < k)
      <4>1. s.maximum = m
        BY <3>2, <1>11 DEF Later
      <4>2. PICK tick \in 0..(c - 1) : Cardinality(ActiveAt(turns, tick)) = m
        BY <4>1, <2>2, <1>5
      <4>3. tick \in 0..(next - 1)
        BY <1>4
      <4> QED  BY <4>1, <4>2, <4>3
    <3> QED  BY <3>1, <3>2
  <2> QED  BY <2>1, <2>2
<1>14. s.overlaps \in Seq(Overlap) /\ OverlapsFit(turns, s.overlaps, next)
  <2>1. CASE k >= 2
    <3>1. segment \in Overlap
      BY <1>4, <1>7, <1>9 DEF Overlap
    <3>2. Joined(o, segment) \in Seq(Overlap)
      BY <3>1, <1>4, JoinedIs
    <3>3. OverlapsFit(turns, Joined(o, segment), next)
      BY <2>1, <1>4, <1>5, <1>6, <1>7, <1>8, <1>9, OverlapsGrow
    <3> QED  BY <2>1, <3>2, <3>3, <1>11
  <2>2. CASE ~(k >= 2)
    <3>1. OverlapsFit(turns, o, next)
      BY <2>2, <1>4, <1>5, <1>6, <1>7, <1>8, OverlapsWait
    <3> QED  BY <2>2, <3>1, <1>4, <1>11
  <2> QED  BY <2>1, <2>2
<1>15. s.speech \in Nat /\ s.overlap \in Nat /\ s.maximum \in Nat /\ s.cursor \in Nat
  BY <1>4, <1>11 DEF Later
<1>16. s \in SweepType
  BY <1>11, <1>14, <1>15 DEF SweepType
<1>17. SweepFits(turns, s)
  BY <1>11, <1>12, <1>13, <1>14 DEF SweepFits
<1> QED  BY <1>10, <1>16, <1>17

LEMMA AheadIs ==
  /\ Ahead = EndsAhead(work.clipped, work.sweep.cursor)
  /\ Ahead' = EndsAhead(work'.clipped, work'.sweep.cursor)
BY DEF Ahead, EndsAhead

LEMMA ConditionsBegin ==
  ASSUME IsConditionsInput(input), work = ConditionsWork
  PROVE  ConditionsTypes /\ SoundInv /\ SpeakersInv
<1>1. /\ work.phase = "diarizing" /\ work.turns = {} /\ work.clipped = {}
      /\ work.sweep = EmptySweep /\ work.speakers = "unknown" /\ work.music = "unknown"
  BY DEF ConditionsWork
<1>2. EmptySweep \in SweepType
  BY DEF EmptySweep, SweepType
<1>3. ConditionsTypes
  <2>1. {} \in SUBSET ServiceTurn
    OBVIOUS
  <2> QED  BY <1>2, <2>1 DEF ConditionsTypes, ConditionsWork, SweepType, Overlap
<1>4. AreTurns({})
  BY FS_EmptySet DEF AreTurns
<1>5. SpeakersInv
  <2>1. SweepFits({}, EmptySweep)
    BY <1>4, EmptyFits
  <2>2. ChunkTurns = {}
    BY <1>1 DEF ChunkTurns
  <2> QED  BY <1>1, <1>4, <2>1, <2>2 DEF SpeakersInv
<1> QED  BY <1>1, <1>3, <1>5 DEF SoundInv

LEMMA DiarizeKeeps ==
  ASSUME ConditionsTypes, SpeakersInv, Diarize
  PROVE  ConditionsTypes' /\ SpeakersInv'
<1>1. input' = input
  BY DEF Diarize
<1> DEFINE turns == {Rounded(t) : t \in input.diarized.turns}
<1>2. /\ work.phase = "diarizing" /\ work.sweep = EmptySweep /\ work.clipped = {}
      /\ work.speakers = "unknown"
  BY DEF Diarize, SpeakersInv
<1>3. CASE IsDiarized /\ IsParsed(turns)
  <2>1. work' = [work EXCEPT !.phase = "clipping", !.turns = turns]
    BY <1>3, Zenon DEF Diarize
  <2>2. AreTurns(turns)
    BY <1>3, RoundedTurns DEF ConditionsTypes
  <2> HIDE DEF turns
  <2>3. /\ work'.phase = "clipping" /\ work'.turns = turns /\ work'.sweep = work.sweep
        /\ work'.clipped = work.clipped /\ work'.speakers = work.speakers
    BY <2>1 DEF ConditionsTypes
  <2>4. ConditionsTypes'
    BY <1>1, <2>1, <2>2 DEF ConditionsTypes, AreTurns, IsConditionsInput, IsSoundWindow
  <2>5. SpeakersInv'
    BY <1>1, <1>2, <2>2, <2>3 DEF SpeakersInv
  <2> QED  BY <2>4, <2>5
<1>4. CASE ~(IsDiarized /\ IsParsed(turns))
  <2>1. work' = [work EXCEPT !.phase = "listening"]
    BY <1>4, Zenon DEF Diarize
  <2>2. /\ work'.phase = "listening" /\ work'.turns = work.turns /\ work'.sweep = work.sweep
        /\ work'.clipped = work.clipped /\ work'.speakers = work.speakers
    BY <2>1 DEF ConditionsTypes
  <2>3. ConditionsTypes'
    BY <1>1, <2>1 DEF ConditionsTypes, IsConditionsInput, IsSoundWindow
  <2>4. work'.clipped = ChunkTurns'
    BY <1>1, <1>2, <2>2, ChunkTurnsKept DEF SpeakersInv
  <2>5. SpeakersInv'
    BY <1>1, <1>2, <2>2, <2>4 DEF SpeakersInv
  <2> QED  BY <2>3, <2>5
<1> QED  BY <1>3, <1>4

LEMMA ClipTurnsKeeps ==
  ASSUME ConditionsTypes, SpeakersInv, ClipTurns
  PROVE  ConditionsTypes' /\ SpeakersInv'
<1> DEFINE clipped == ChunkTurns
<1>1. /\ input' = input /\ work.phase = "clipping" /\ IsConditionsInput(input)
      /\ work' = [work EXCEPT !.phase = "sweeping", !.clipped = clipped]
  BY DEF ClipTurns, ConditionsTypes, ChunkTurns
<1>2. work.sweep = EmptySweep /\ work.speakers = "unknown" /\ AreTurns(work.turns)
  BY <1>1 DEF SpeakersInv
<1>3. /\ AreTurns(clipped)
      /\ \A c \in clipped : input.chunk.start <= c.start /\ c.end <= input.chunk.end
  BY <1>1, <1>2, ClippedTurns DEF ChunkTurns
<1>5. SweepFits(clipped, EmptySweep)
  BY <1>3, EmptyFits
<1>6. /\ work'.phase = "sweeping" /\ work'.turns = work.turns /\ work'.sweep = work.sweep
      /\ work'.clipped = clipped /\ work'.speakers = work.speakers
  BY <1>1 DEF ConditionsTypes
<1>7. work'.clipped = ChunkTurns'
  BY <1>1, <1>6, ChunkTurnsKept
<1> HIDE DEF clipped
<1>8. ConditionsTypes'
  BY <1>1, <1>3 DEF ConditionsTypes, AreTurns, IsConditionsInput, IsSoundWindow
<1>9. SpeakersInv'
  BY <1>1, <1>2, <1>3, <1>5, <1>6, <1>7 DEF SpeakersInv
<1> QED  BY <1>8, <1>9

LEMMA SweepSegmentKeeps ==
  ASSUME ConditionsTypes, SpeakersInv, SweepSegment
  PROVE  ConditionsTypes' /\ SpeakersInv'
<1>1. PICK turns : turns = work.clipped
  OBVIOUS
<1>2. PICK sweep : sweep = work.sweep
  OBVIOUS
<1>3. /\ AreTurns(turns) /\ SweepFits(turns, sweep) /\ work.speakers = "unknown"
      /\ work.phase = "sweeping" /\ input' = input /\ Ahead # {}
  BY <1>1, <1>2 DEF SpeakersInv, SweepSegment
<1>4. sweep \in SweepType
  BY <1>2 DEF ConditionsTypes, SweepType, Overlap
<1>5. sweep.cursor \in Nat /\ Ahead = EndsAhead(turns, sweep.cursor)
  BY <1>1, <1>2, <1>4, AheadIs DEF SweepType
<1>6. PICK next : next = Min(Ahead)
  OBVIOUS
<1>7. /\ next \in Nat /\ sweep.cursor < next
      /\ \A e \in EndsAhead(turns, sweep.cursor) : next <= e
  BY <1>3, <1>5, <1>6, NextEnd
<1>8. PICK active : active = Between(turns, sweep.cursor, next)
  OBVIOUS
<1>9. \A tick \in sweep.cursor..(next - 1) : ActiveAt(turns, tick) = active
  BY <1>3, <1>5, <1>7, <1>8, SameUntilNextEnd
<1>10. PICK s : s = Extended(turns, sweep, next, active)
  OBVIOUS
<1>11. s \in SweepType /\ SweepFits(turns, s)
  BY <1>3, <1>4, <1>7, <1>9, <1>10, SweepExtends
<1>12. work' = [work EXCEPT !.sweep = s]
  BY <1>1, <1>2, <1>6, <1>8, <1>10, Zenon DEF SweepSegment, Extended, Between
<1>13. /\ work'.phase = work.phase /\ work'.turns = work.turns /\ work'.sweep = s
       /\ work'.clipped = turns /\ work'.speakers = "unknown"
  BY <1>1, <1>3, <1>12 DEF ConditionsTypes
<1>14. ConditionsTypes'
  BY <1>3, <1>11, <1>12 DEF ConditionsTypes, IsConditionsInput, IsSoundWindow, SweepType, Overlap
<1>15. work'.clipped = ChunkTurns'
  BY <1>1, <1>3, <1>13, ChunkTurnsKept DEF SpeakersInv
<1>16. SpeakersInv'
  BY <1>1, <1>3, <1>11, <1>13, <1>15 DEF SpeakersInv
<1> QED  BY <1>14, <1>16

(* What the sweep found is what the contract accepts.                      *)
LEMMA SweepAccepted ==
  ASSUME ConditionsTypes, SpeakersInv, Ahead = {}
  PROVE  SeedIsAccepted(work.sweep, SpeakerIds)
<1>1. PICK turns : turns = work.clipped
  OBVIOUS
<1>2. PICK cursor : cursor = work.sweep.cursor
  OBVIOUS
<1>3. PICK maximum : maximum = work.sweep.maximum
  OBVIOUS
<1>4. /\ AreTurns(turns) /\ cursor \in Nat /\ maximum \in Nat
      /\ EndsAhead(turns, cursor) = {}
      /\ work.sweep.speech = Cardinality(Busy(turns, 1, cursor))
      /\ work.sweep.overlap = Cardinality(Busy(turns, 2, cursor))
      /\ \A tick \in 0..(cursor - 1) : Cardinality(ActiveAt(turns, tick)) <= maximum
      /\ maximum # 0 => \E tick \in 0..(cursor - 1) : Cardinality(ActiveAt(turns, tick)) = maximum
  BY <1>1, <1>2, <1>3, AheadIs DEF SpeakersInv, SweepFits, ConditionsTypes
<1>5. IsFiniteSet(SpeakerIds) /\ Cardinality(SpeakerIds) \in Nat
  <2> DEFINE name == [t \in turns |-> t.speaker]
  <2>1. name \in [turns -> SpeakerIds] /\ \A x \in SpeakerIds : \E t \in turns : name[t] = x
    BY <1>1 DEF SpeakerIds
  <2>2. name \in Surjection(turns, SpeakerIds)
    <3> HIDE DEF name
    <3> QED  BY <2>1, Zenon DEF Surjection
  <2> HIDE DEF name
  <2> QED  BY <1>4, <2>2, FS_Surjection, FS_CardinalityType DEF AreTurns
<1>6. ASSUME NEW tick
      PROVE  Cardinality(ActiveAt(turns, tick)) <= Cardinality(SpeakerIds)
  <2>1. ActiveAt(turns, tick) \in SUBSET SpeakerIds
    BY <1>1, ActiveMember DEF SpeakerIds
  <2> QED  BY <2>1, <1>5, FS_Subset
<1>7. maximum <= Cardinality(SpeakerIds)
  <2>1. CASE maximum = 0
    BY <2>1, <1>5
  <2>2. CASE maximum # 0
    BY <2>2, <1>4, <1>6
  <2> QED  BY <2>1, <2>2
<1>8. ASSUME SpeakerIds # {}
      PROVE  maximum > 0
  <2>1. PICK u \in turns : TRUE
    BY <1>1, <1>8 DEF SpeakerIds
  <2>2. u.start \in Nat /\ u.end \in Nat /\ u.start < u.end
    BY <1>4 DEF AreTurns, ServiceTurn
  <2>3. ~(u.end > cursor)
    BY <1>4, EndIsAhead
  <2>4. u.start \in 0..(cursor - 1)
    BY <2>2, <2>3, <1>4
  <2>5. u.speaker \in ActiveAt(turns, u.start)
    BY <2>2, ActiveMember DEF IsIn
  <2>6. Cardinality(ActiveAt(turns, u.start)) \in Nat /\ Cardinality(ActiveAt(turns, u.start)) # 0
    BY <1>4, <2>5, ActiveSizes
  <2> QED  BY <2>4, <2>6, <1>4
<1>9. Cardinality(Busy(turns, 2, cursor)) <= Cardinality(Busy(turns, 1, cursor))
  <2>1. IsFiniteSet(0..(cursor - 1))
    BY <1>4, FS_Interval
  <2>2. Busy(turns, 1, cursor) \in SUBSET (0..(cursor - 1))
    BY DEF Busy
  <2>3. \A tick : Cardinality(ActiveAt(turns, tick)) \in Nat
    BY <1>4, ActiveSizes
  <2>4. Busy(turns, 2, cursor) \in SUBSET Busy(turns, 1, cursor)
    BY <2>3 DEF Busy
  <2> QED  BY <2>1, <2>2, <2>4, FS_Subset
<1> QED  BY <1>3, <1>4, <1>7, <1>8, <1>9 DEF SeedIsAccepted

LEMMA ClassifySpeakersKeeps ==
  ASSUME ConditionsTypes, SpeakersInv, ClassifySpeakers
  PROVE  ConditionsTypes' /\ SpeakersInv'
<1>1. input' = input /\ Ahead = {} /\ work.phase = "sweeping"
  BY DEF ClassifySpeakers
<1>2. SeedIsAccepted(work.sweep, SpeakerIds)
  BY <1>1, SweepAccepted
<1>3. PICK label : label = SpeakerCondition(work.sweep, SpeakerIds)
  OBVIOUS
<1>4. work' = [work EXCEPT !.phase = "listening", !.speakers = label]
  BY <1>2, <1>3, Zenon DEF ClassifySpeakers
<1>5. label \in {"uncertain", "single_speaker", "multi_speaker_no_overlap", "heavy_overlap",
                 "partial_overlap"}
  BY <1>3 DEF SpeakerCondition
<1>6. /\ work'.phase = "listening" /\ work'.turns = work.turns /\ work'.sweep = work.sweep
      /\ work'.clipped = work.clipped
  BY <1>4 DEF ConditionsTypes
<1>7. ConditionsTypes'
  BY <1>1, <1>4, <1>5 DEF ConditionsTypes, IsConditionsInput, IsSoundWindow
<1>8. work'.clipped = ChunkTurns'
  BY <1>1, <1>6, ChunkTurnsKept DEF SpeakersInv
<1>9. Ahead' = {}
  BY <1>1, <1>6, AheadIs
<1>10. SpeakersInv'
  BY <1>1, <1>6, <1>8, <1>9 DEF SpeakersInv
<1> QED  BY <1>7, <1>10

LEMMA ClassifySoundKeeps ==
  ASSUME ConditionsTypes, SpeakersInv, ClassifySound
  PROVE  ConditionsTypes' /\ SpeakersInv'
<1>1. input' = input /\ work.phase = "listening"
  BY DEF ClassifySound
<1>2. MusicLevel \in {"none", "dominant", "background", "uncertain"}
  <2>1. MusicLevel = "none" \/ MusicLevel = "dominant"
        \/ (MusicReaches(MusicPresence) /\ ~MusicReaches(MusicDominant))
    <3>1. IsConditionsInput(input)
      BY DEF ConditionsTypes
    <3>2. MusicLevel = "none" <=> ~MusicReaches(MusicPresence)
      BY <3>1, MusicLevelIs
    <3>3. MusicLevel = "dominant" <=> MusicReaches(MusicDominant)
      BY <3>1, MusicLevelIs
    <3> QED  BY <3>2, <3>3
  <2>2. MusicReaches(MusicPresence) /\ ~MusicReaches(MusicDominant)
          => MusicLevel \in {"background", "uncertain"}
    BY DEF MusicLevel
  <2> QED  BY <2>1, <2>2
<1>3. MeanReaches("speech", SpeechPresence) \in BOOLEAN
  BY DEF MeanReaches
<1>4. \/ work' = [work EXCEPT !.phase = "seeded", !.music = MusicLevel,
                             !.spoken = MeanReaches("speech", SpeechPresence)]
      \/ work' = [work EXCEPT !.phase = "seeded"]
  BY DEF ClassifySound
<1>5. /\ work'.phase = "seeded" /\ work'.turns = work.turns /\ work'.sweep = work.sweep
      /\ work'.clipped = work.clipped /\ work'.speakers = work.speakers
  BY <1>4 DEF ConditionsTypes
<1>6. ConditionsTypes'
  BY <1>1, <1>2, <1>3, <1>4 DEF ConditionsTypes, IsConditionsInput, IsSoundWindow
<1>7. work'.clipped = ChunkTurns'
  BY <1>1, <1>5, ChunkTurnsKept DEF SpeakersInv
<1>8. Ahead' = Ahead
  BY <1>5, AheadIs
<1>9. SpeakersInv'
  BY <1>1, <1>5, <1>7, <1>8 DEF SpeakersInv
<1> QED  BY <1>6, <1>9

LEMMA ConditionsKept ==
  ASSUME ConditionsTypes, SpeakersInv, [ConditionsNext]_computation
  PROVE  ConditionsTypes' /\ SpeakersInv'
<1>1. CASE Diarize
  BY <1>1, DiarizeKeeps
<1>2. CASE ClipTurns
  BY <1>2, ClipTurnsKeeps
<1>3. CASE SweepSegment
  BY <1>3, SweepSegmentKeeps
<1>4. CASE ClassifySpeakers
  BY <1>4, ClassifySpeakersKeeps
<1>5. CASE ClassifySound
  BY <1>5, ClassifySoundKeeps
<1>6. CASE UNCHANGED computation
  <2>1. input' = input /\ work' = work
    BY <1>6 DEF computation
  <2>2. ConditionsTypes'
    BY <2>1 DEF ConditionsTypes, IsConditionsInput, IsSoundWindow
  <2>3. ChunkTurns' = ChunkTurns
    BY <2>1, ChunkTurnsKept
  <2>4. Ahead' = Ahead
    BY <2>1, AheadIs
  <2>5. SpeakersInv'
    BY <2>1, <2>3, <2>4 DEF SpeakersInv
  <2> QED  BY <2>2, <2>5
<1> QED  BY <1>1, <1>2, <1>3, <1>4, <1>5, <1>6 DEF ConditionsNext

-----------------------------------------------------------------------------
(*                 What the sweep has found in the end                     *)

LEMMA MaxIs ==
  ASSUME NEW S \in SUBSET Nat, NEW m \in S, \A x \in S : x <= m
  PROVE  Max(S) = m
<1>1. \A x \in S : m >= x
  OBVIOUS
<1>2. Max(S) \in S /\ \A y \in S : Max(S) >= y
  BY <1>1 DEF Max
<1>3. Max(S) >= m /\ Max(S) <= m /\ Max(S) \in Nat
  BY <1>2
<1> QED  BY <1>3

(* Neighbouring ticks of an overlap have other speakers.                   *)
LEMMA OverlapIsRun ==
  ASSUME NEW turns, AreTurns(turns), NEW overlaps \in Seq(Overlap), NEW cursor \in Nat,
         EndsAhead(turns, cursor) = {}, OverlapsFit(turns, overlaps, cursor),
         NEW i \in 1..Len(overlaps)
  PROVE  /\ \A tick \in Int : Within(overlaps, i, tick)
                              => ActiveAt(turns, tick) = overlaps[i].speakers
         /\ ActiveAt(turns, overlaps[i].start - 1) # overlaps[i].speakers
         /\ ActiveAt(turns, overlaps[i].end) # overlaps[i].speakers
<1>1. \A k \in 1..Len(overlaps) : overlaps[k] \in Overlap
  OBVIOUS
<1>2. \A k \in 1..Len(overlaps) : overlaps[k].start \in Nat /\ overlaps[k].end \in Nat
  BY <1>1 DEF Overlap
<1>3. /\ overlaps[i].start < overlaps[i].end /\ overlaps[i].end <= cursor
      /\ Cardinality(overlaps[i].speakers) >= 2
      /\ \A tick \in Nat : Within(overlaps, i, tick) => ActiveAt(turns, tick) = overlaps[i].speakers
  BY DEF OverlapsFit
<1>4. \A k, j \in 1..Len(overlaps) : k < j =>
        /\ overlaps[k].end <= overlaps[j].start
        /\ overlaps[k].end = overlaps[j].start => overlaps[k].speakers # overlaps[j].speakers
  BY DEF OverlapsFit
<1>5. overlaps[i].speakers # {}
  <2>1. Cardinality({}) = 0
    BY FS_EmptySet
  <2>2. Cardinality(overlaps[i].speakers) # 0
    BY <1>3
  <2> QED  BY <2>1, <2>2, Zenon
(* A tick with the same speakers outside lies in another overlap.          *)
<1>6. ASSUME NEW tick \in Int, ActiveAt(turns, tick) = overlaps[i].speakers
      PROVE  \E k \in 1..Len(overlaps) :
               Within(overlaps, k, tick) /\ overlaps[k].speakers = overlaps[i].speakers
  <2>1. 0 <= tick /\ tick < cursor
    BY <1>5, <1>6, NobodyBeyond
  <2>2. tick \in Busy(turns, 2, cursor)
    BY <2>1, <1>3, <1>6 DEF Busy
  <2>3. PICK k \in 1..Len(overlaps) : Within(overlaps, k, tick)
    BY <2>2 DEF OverlapsFit
  <2>4. ActiveAt(turns, tick) = overlaps[k].speakers
    BY <2>1, <2>3 DEF OverlapsFit
  <2> QED  BY <2>3, <2>4, <1>6
<1>7. ASSUME ActiveAt(turns, overlaps[i].start - 1) = overlaps[i].speakers
      PROVE  FALSE
  <2>1. PICK k \in 1..Len(overlaps) :
          Within(overlaps, k, overlaps[i].start - 1) /\ overlaps[k].speakers = overlaps[i].speakers
    <3>1. overlaps[i].start - 1 \in Int
      BY <1>2
    <3> QED  BY <3>1, <1>6, <1>7
  <2>2. overlaps[k].start < overlaps[i].start /\ overlaps[i].start <= overlaps[k].end
    BY <2>1, <1>2 DEF Within
  <2>3. k < i
    <3>1. k # i
      BY <2>2, <1>2
    <3>2. ~(i < k)
      BY <2>2, <1>2, <1>3, <1>4
    <3> QED  BY <3>1, <3>2
  <2> QED  BY <2>1, <2>2, <2>3, <1>2, <1>4
<1>8. ASSUME ActiveAt(turns, overlaps[i].end) = overlaps[i].speakers
      PROVE  FALSE
  <2>1. PICK k \in 1..Len(overlaps) :
          Within(overlaps, k, overlaps[i].end) /\ overlaps[k].speakers = overlaps[i].speakers
    <3>1. overlaps[i].end \in Int
      BY <1>2
    <3> QED  BY <3>1, <1>6, <1>8
  <2>2. overlaps[k].start <= overlaps[i].end /\ overlaps[i].end < overlaps[k].end
    BY <2>1, <1>2 DEF Within
  <2>3. i < k
    <3>1. k # i
      BY <2>2, <1>2
    <3>2. ~(k < i)
      BY <2>2, <1>2, <1>3, <1>4
    <3> QED  BY <3>1, <3>2
  <2> QED  BY <2>1, <2>2, <2>3, <1>2, <1>4
<1>9. ASSUME NEW tick \in Int, Within(overlaps, i, tick)
      PROVE  ActiveAt(turns, tick) = overlaps[i].speakers
  <2>1. tick \in Nat
    BY <1>2, <1>9 DEF Within
  <2> QED  BY <2>1, <1>3, <1>9
<1> QED  BY <1>7, <1>8, <1>9

(* The overlaps are the runs of ticks with the same two speakers or more.  *)
LEMMA OverlapsAreRuns ==
  ASSUME NEW turns, AreTurns(turns), NEW overlaps \in Seq(Overlap), NEW cursor \in Nat,
         EndsAhead(turns, cursor) = {}, OverlapsFit(turns, overlaps, cursor),
         ChunkTicks \in SUBSET Nat,
         \A tick \in Int : ActiveAt(turns, tick) = IF tick \in ChunkTicks THEN SpeakersAt(tick) ELSE {}
  PROVE  {overlaps[i] : i \in DOMAIN overlaps} =
           UNION {{[start |-> r.start, end |-> r.end, speakers |-> together] :
                     r \in RunsOf({t \in ChunkTicks : SpeakersAt(t) = together})} :
                   together \in {SpeakersAt(t) : t \in {tick \in ChunkTicks : Cardinality(SpeakersAt(tick)) >= 2}}}
<1> DEFINE Ticks(together) == {t \in ChunkTicks : SpeakersAt(t) = together}
           Entry(r, together) == [start |-> r.start, end |-> r.end, speakers |-> together]
           groups == {SpeakersAt(t) : t \in {tick \in ChunkTicks : Cardinality(SpeakersAt(tick)) >= 2}}
           found == {overlaps[i] : i \in DOMAIN overlaps}
           runs == UNION {{Entry(r, together) : r \in RunsOf(Ticks(together))} : together \in groups}
<1>1. \A i \in 1..Len(overlaps) : overlaps[i] \in Overlap
  OBVIOUS
<1>2. ASSUME NEW i \in 1..Len(overlaps)
      PROVE  /\ overlaps[i].start \in Nat /\ overlaps[i].end \in Nat
             /\ overlaps[i].start < overlaps[i].end
             /\ Cardinality(overlaps[i].speakers) >= 2 /\ overlaps[i].speakers # {}
             /\ \A tick \in Int : Within(overlaps, i, tick)
                                  => ActiveAt(turns, tick) = overlaps[i].speakers
             /\ ActiveAt(turns, overlaps[i].start - 1) # overlaps[i].speakers
             /\ ActiveAt(turns, overlaps[i].end) # overlaps[i].speakers
  <2>1. overlaps[i].start \in Nat /\ overlaps[i].end \in Nat
    BY <1>1 DEF Overlap
  <2>2. overlaps[i].start < overlaps[i].end /\ Cardinality(overlaps[i].speakers) >= 2
    BY DEF OverlapsFit
  <2>3. overlaps[i].speakers # {}
    <3>1. Cardinality({}) = 0
      BY FS_EmptySet
    <3>2. Cardinality(overlaps[i].speakers) # 0
      BY <2>2
    <3> QED  BY <3>1, <3>2, Zenon
  <2>4. /\ \A tick \in Int : Within(overlaps, i, tick)
                                  => ActiveAt(turns, tick) = overlaps[i].speakers
        /\ ActiveAt(turns, overlaps[i].start - 1) # overlaps[i].speakers
        /\ ActiveAt(turns, overlaps[i].end) # overlaps[i].speakers
    BY OverlapIsRun
  <2> QED  BY <2>1, <2>2, <2>3, <2>4
<1>3. ASSUME NEW tick \in Int, ActiveAt(turns, tick) # {}
      PROVE  tick \in ChunkTicks /\ SpeakersAt(tick) = ActiveAt(turns, tick)
  BY <1>3
<1>4. \A tick \in ChunkTicks : tick \in Int /\ ActiveAt(turns, tick) = SpeakersAt(tick)
  OBVIOUS
(* An overlap is a run ...                                                 *)
<1>5. ASSUME NEW i \in 1..Len(overlaps)
      PROVE  /\ overlaps[i].speakers \in groups
             /\ \E r \in RunsOf(Ticks(overlaps[i].speakers)) :
                  r.start = overlaps[i].start /\ r.end = overlaps[i].end
  <2>1. PICK a \in Nat, b \in Nat : a = overlaps[i].start /\ b = overlaps[i].end
    BY <1>2
  <2>2. PICK together : together = overlaps[i].speakers
    OBVIOUS
  <2>3. a < b /\ together # {} /\ Cardinality(together) >= 2
        /\ ActiveAt(turns, a - 1) # together /\ ActiveAt(turns, b) # together
    BY <1>2, <2>1, <2>2
  <2>4. \A tick \in a..(b - 1) : ActiveAt(turns, tick) = together
    <3>1. ASSUME NEW tick \in a..(b - 1)  PROVE ActiveAt(turns, tick) = together
      <4>1. tick \in Int /\ a <= tick /\ tick < b
        OBVIOUS
      <4>2. Within(overlaps, i, tick)
        BY <4>1, <2>1 DEF Within
      <4> QED  BY <4>1, <4>2, <1>2, <2>2
    <3> QED  BY <3>1
  <2>5. \A tick \in a..(b - 1) : tick \in ChunkTicks /\ SpeakersAt(tick) = together
    BY <1>3, <2>3, <2>4
  <2>6. a \in a..(b - 1) /\ (b - 1) \in a..(b - 1) /\ a - 1 \in Int /\ b \in Int /\ b - 1 \in Int
    BY <2>3
  <2>7. together \in groups
    BY <2>3, <2>5, <2>6
  <2>8. a - 1 \notin Ticks(together) /\ b \notin Ticks(together)
    BY <1>4, <2>3
  <2>9. \A tick \in a..(b - 1) : tick \in Ticks(together)
    BY <2>5
  <2> DEFINE r == [start |-> a, end |-> b]
  <2>10. r \in RunsOf(Ticks(together))
    <3> HIDE DEF Ticks
    <3>1. a \in Ticks(together) /\ b \in {t + 1 : t \in Ticks(together)}
      <4>1. (b - 1) + 1 = b
        OBVIOUS
      <4> QED  BY <2>6, <2>9, <4>1
    <3>2. a..(b - 1) \subseteq Ticks(together)
      BY <2>9
    <3> QED  BY <3>1, <3>2, <2>3, <2>8 DEF RunsOf
  <2>11. r.start = a /\ r.end = b
    OBVIOUS
  <2> HIDE DEF r, Ticks, groups
  <2> QED  BY <2>1, <2>2, <2>7, <2>10, <2>11
(* ... and every run is one.                                               *)
<1>6. ASSUME NEW together \in groups, NEW r \in RunsOf(Ticks(together))
      PROVE  \E i \in 1..Len(overlaps) :
               /\ overlaps[i].speakers = together
               /\ r.start = overlaps[i].start /\ r.end = overlaps[i].end
  <2>1. Ticks(together) \in SUBSET Int
    OBVIOUS
  <2>2. /\ r.start \in Int /\ r.end \in Int /\ r.start < r.end /\ r.start \in Ticks(together)
    <3> HIDE DEF Ticks
    <3> QED  BY <2>1, RunIs DEF Spans
  <2>3. Cardinality(together) >= 2
    OBVIOUS
  <2>4. r.start \in Nat /\ ActiveAt(turns, r.start) = together
    BY <1>4, <2>2
  <2>5. together # {}
    <3>1. Cardinality({}) = 0
      BY FS_EmptySet
    <3>2. Cardinality(together) # 0
      BY <2>3
    <3> QED  BY <3>1, <3>2, Zenon
  <2>6. r.start < cursor
    BY <2>4, <2>5, NobodyBeyond
  <2>7. r.start \in Busy(turns, 2, cursor)
    BY <2>3, <2>4, <2>6 DEF Busy
  <2>8. PICK i \in 1..Len(overlaps) : Within(overlaps, i, r.start)
    BY <2>7 DEF OverlapsFit
  <2>9. overlaps[i].speakers = together
    BY <2>2, <2>4, <2>8, <1>2
  <2>10. PICK q \in RunsOf(Ticks(together)) : q.start = overlaps[i].start /\ q.end = overlaps[i].end
    BY <1>5, <2>9
  <2>11. IsIn(r.start, q) /\ IsIn(r.start, r)
    BY <2>2, <2>8, <2>10 DEF IsIn, Within
  <2>12. r = q
    <3> HIDE DEF Ticks
    <3> QED  BY <2>1, <2>2, <2>11, RunsApart
  <2> QED  BY <2>9, <2>10, <2>12
<1>7. DOMAIN overlaps = 1..Len(overlaps)
  OBVIOUS
<1> HIDE DEF Ticks, groups
<1>8. ASSUME NEW i \in 1..Len(overlaps)
      PROVE  overlaps[i] \in runs
  <2>1. PICK r \in RunsOf(Ticks(overlaps[i].speakers)) :
          r.start = overlaps[i].start /\ r.end = overlaps[i].end
    BY <1>5
  <2>2. overlaps[i] = Entry(r, overlaps[i].speakers)
    BY <2>1, <1>1 DEF Overlap
  <2>3. overlaps[i].speakers \in groups
    BY <1>5
  <2> QED  BY <2>1, <2>2, <2>3
<1>9. ASSUME NEW e \in runs
      PROVE  e \in found
  <2>1. PICK together \in groups : \E r \in RunsOf(Ticks(together)) : e = Entry(r, together)
    OBVIOUS
  <2>2. PICK r \in RunsOf(Ticks(together)) : e = Entry(r, together)
    BY <2>1
  <2>3. PICK i \in 1..Len(overlaps) :
          overlaps[i].speakers = together /\ r.start = overlaps[i].start /\ r.end = overlaps[i].end
    BY <1>6
  <2>4. e = overlaps[i]
    BY <2>2, <2>3, <1>1 DEF Overlap
  <2> QED  BY <2>4, <1>7
<1>10. found = runs
  BY <1>7, <1>8, <1>9
<1> QED  BY <1>10 DEF groups, Ticks

LEMMA SpeakersExact ==
  ASSUME ConditionsTypes, SpeakersInv  PROVE SpeakersAreExact
<1> SUFFICES ASSUME work.phase = "seeded", work.speakers # "unknown"
             PROVE  /\ work.sweep.speech = Cardinality(TicksWith(1))
                    /\ work.sweep.overlap = Cardinality(TicksWith(2))
                    /\ work.sweep.maximum
                         = Max({0} \union {Cardinality(SpeakersAt(t)) : t \in ChunkTicks})
                    /\ {work.sweep.overlaps[i] : i \in DOMAIN work.sweep.overlaps} =
                         UNION {{[start |-> r.start, end |-> r.end, speakers |-> together] :
                                   r \in RunsOf({t \in ChunkTicks : SpeakersAt(t) = together})} :
                                 together \in {SpeakersAt(t) : t \in TicksWith(2)}}
                    /\ SpeakerIds = UNION {SpeakersAt(t) : t \in ChunkTicks}
  BY DEF SpeakersAreExact, SpeakersInv
<1>1. PICK turns : turns = work.clipped
  OBVIOUS
<1>2. PICK cursor : cursor = work.sweep.cursor
  OBVIOUS
<1>3. PICK maximum : maximum = work.sweep.maximum
  OBVIOUS
<1>4. PICK overlaps : overlaps = work.sweep.overlaps
  OBVIOUS
<1>5. /\ AreTurns(turns) /\ cursor \in Nat /\ maximum \in Nat /\ overlaps \in Seq(Overlap)
      /\ EndsAhead(turns, cursor) = {}
      /\ work.sweep.speech = Cardinality(Busy(turns, 1, cursor))
      /\ work.sweep.overlap = Cardinality(Busy(turns, 2, cursor))
      /\ \A tick \in 0..(cursor - 1) : Cardinality(ActiveAt(turns, tick)) <= maximum
      /\ maximum # 0 => \E tick \in 0..(cursor - 1) : Cardinality(ActiveAt(turns, tick)) = maximum
      /\ OverlapsFit(turns, overlaps, cursor)
  BY <1>1, <1>2, <1>3, <1>4, AheadIs DEF SpeakersInv, SweepFits, ConditionsTypes, Overlap
<1>6. ChunkTicks \in SUBSET Nat
  BY DEF ConditionsTypes, IsConditionsInput, ChunkTicks
<1>7. \A tick \in Int : ActiveAt(turns, tick) = IF tick \in ChunkTicks THEN SpeakersAt(tick) ELSE {}
  <2>1. turns = ChunkTurns /\ AreTurns(work.turns) /\ IsConditionsInput(input)
    BY <1>1 DEF SpeakersInv, ConditionsTypes
  <2> QED  BY <2>1, ClippedTurns DEF ChunkTurns, SpeakersAt
<1>8. \A tick : /\ Cardinality(ActiveAt(turns, tick)) \in Nat
               /\ Cardinality(ActiveAt(turns, tick)) = 0 <=> ActiveAt(turns, tick) = {}
  BY <1>5, ActiveSizes
<1>9. \A tick \in Int : ActiveAt(turns, tick) # {} => tick \in 0..(cursor - 1)
  BY <1>5, NobodyBeyond
<1>10. ASSUME NEW n \in Nat, n > 0
       PROVE  Busy(turns, n, cursor) = TicksWith(n)
  <2>1. ASSUME NEW tick \in Busy(turns, n, cursor)  PROVE tick \in TicksWith(n)
    <3>1. tick \in Int /\ Cardinality(ActiveAt(turns, tick)) >= n
      BY <2>1 DEF Busy
    <3>2. ActiveAt(turns, tick) # {}
      BY <3>1, <1>8, <1>10
    <3>3. tick \in ChunkTicks /\ ActiveAt(turns, tick) = SpeakersAt(tick)
      BY <3>1, <3>2, <1>7
    <3> QED  BY <3>1, <3>3 DEF TicksWith
  <2>2. ASSUME NEW tick \in TicksWith(n)  PROVE tick \in Busy(turns, n, cursor)
    <3>1. tick \in ChunkTicks /\ tick \in Int /\ Cardinality(SpeakersAt(tick)) >= n
      BY <2>2, <1>6 DEF TicksWith
    <3>2. ActiveAt(turns, tick) = SpeakersAt(tick)
      BY <3>1, <1>7
    <3>3. ActiveAt(turns, tick) # {}
      BY <3>1, <3>2, <1>8, <1>10
    <3>4. tick \in 0..(cursor - 1)
      BY <3>1, <3>3, <1>9
    <3> QED  BY <3>1, <3>2, <3>4 DEF Busy
  <2> QED  BY <2>1, <2>2
<1>11. work.sweep.speech = Cardinality(TicksWith(1)) /\ work.sweep.overlap = Cardinality(TicksWith(2))
  BY <1>5, <1>10
<1>12. maximum = Max({0} \union {Cardinality(SpeakersAt(t)) : t \in ChunkTicks})
  <2> DEFINE sizes == {0} \union {Cardinality(SpeakersAt(t)) : t \in ChunkTicks}
  <2>1. \A t \in ChunkTicks : t \in Int /\ SpeakersAt(t) = ActiveAt(turns, t)
    BY <1>6, <1>7
  <2>2. sizes \in SUBSET Nat
    <3>1. \A t \in ChunkTicks : Cardinality(SpeakersAt(t)) \in Nat
      <4> SUFFICES ASSUME NEW t \in ChunkTicks  PROVE Cardinality(SpeakersAt(t)) \in Nat
        OBVIOUS
      <4>1. SpeakersAt(t) = ActiveAt(turns, t)
        BY <2>1
      <4>2. Cardinality(ActiveAt(turns, t)) \in Nat
        BY <1>5, ActiveSizes
      <4> QED  BY <4>1, <4>2
    <3> QED  BY <3>1
  <2>3. maximum \in sizes
    <3>1. SUFFICES ASSUME maximum # 0  PROVE maximum \in sizes
      OBVIOUS
    <3>2. PICK tick \in 0..(cursor - 1) : Cardinality(ActiveAt(turns, tick)) = maximum
      BY <3>1, <1>5
    <3>3. tick \in ChunkTicks
      BY <3>1, <3>2, <1>7, <1>8
    <3> QED  BY <3>2, <3>3, <2>1
  <2>4. ASSUME NEW t \in ChunkTicks  PROVE Cardinality(SpeakersAt(t)) <= maximum
    <3>1. CASE ActiveAt(turns, t) = {}
      BY <3>1, <2>1, <1>5, <1>8
    <3>2. CASE ActiveAt(turns, t) # {}
      BY <3>2, <2>1, <1>5, <1>9
    <3> QED  BY <3>1, <3>2
  <2>5. \A x \in sizes : x <= maximum
    BY <2>4, <1>5
  <2> HIDE DEF sizes
  <2>6. Max(sizes) = maximum
    BY <2>2, <2>3, <2>5, MaxIs
  <2> QED  BY <2>6 DEF sizes
<1>13. {overlaps[i] : i \in DOMAIN overlaps} =
         UNION {{[start |-> r.start, end |-> r.end, speakers |-> together] :
                   r \in RunsOf({t \in ChunkTicks : SpeakersAt(t) = together})} :
                 together \in {SpeakersAt(t) : t \in {tick \in ChunkTicks :
                                                     Cardinality(SpeakersAt(tick)) >= 2}}}
  BY <1>5, <1>6, <1>7, OverlapsAreRuns
<1>14. SpeakerIds = UNION {SpeakersAt(t) : t \in ChunkTicks}
  <2>1. ASSUME NEW s \in SpeakerIds  PROVE s \in UNION {SpeakersAt(t) : t \in ChunkTicks}
    <3>1. PICK u \in turns : u.speaker = s
      BY <1>1, <2>1 DEF SpeakerIds
    <3>2. u.start \in Int /\ IsIn(u.start, u)
      BY <1>5 DEF AreTurns, ServiceTurn, IsIn
    <3>3. s \in ActiveAt(turns, u.start)
      BY <3>1, <3>2, ActiveMember
    <3>4. u.start \in ChunkTicks /\ s \in SpeakersAt(u.start)
      BY <3>2, <3>3, <1>7
    <3> QED  BY <3>4
  <2>2. ASSUME NEW t \in ChunkTicks, NEW s \in SpeakersAt(t)  PROVE s \in SpeakerIds
    <3>1. s \in ActiveAt(turns, t)
      BY <1>6, <1>7
    <3>2. \E u \in turns : u.speaker = s
      BY <3>1, ActiveMember
    <3> QED  BY <3>2, <1>1 DEF SpeakerIds
  <2> QED  BY <2>1, <2>2
<1> QED  BY <1>3, <1>4, <1>11, <1>12, <1>13, <1>14 DEF TicksWith

(* Whatever the services answer, a chunk's seed says what they said: the   *)
(* speech, the overlaps and the busiest moment of its ticks, and no sound  *)
(* without its evidence (speaker_conditions.py:161,                        *)
(* acoustic_conditions.py:226).                                            *)
THEOREM ConditionsExact == ConditionsSpec => []ConditionsAreExact
<1> DEFINE Inv == ConditionsTypes /\ SoundInv /\ SpeakersInv
<1>1. IsConditionsInput(input) /\ work = ConditionsWork => Inv
  BY ConditionsBegin
<1>2. Inv /\ [ConditionsNext]_computation => Inv'
  BY SoundKept, ConditionsKept
<1>3. Inv => ConditionsAreExact
  BY SoundEvidence, SpeakersExact DEF ConditionsAreExact, ConditionsTypes
<1> HIDE DEF Inv
<1> QED  BY <1>1, <1>2, <1>3, PTL DEF ConditionsSpec

-----------------------------------------------------------------------------
(*                     Windows and the words they own                      *)

DecodeEnd(w) == Earlier(input.duration, w.end + ContextTicks)

(* What a window answers of a word, and where that word then lies.         *)
HeardIn(w, x) ==
  [id |-> x.id, start |-> Later(x.start, w.decodeStart) - w.decodeStart,
   end |-> Earlier(x.end, DecodeEnd(w)) - w.decodeStart]

IsWindow(w) ==
  /\ w.start \in Nat /\ w.end \in Nat /\ w.start < w.end /\ w.end <= input.duration
  /\ w.decodeStart = Later(0, w.start - ContextTicks)
  /\ \A y \in w.answer : \E x \in input.words : y = HeardIn(w, x)
  /\ \A x \in input.words : w.decodeStart <= x.start /\ x.end <= DecodeEnd(w)
                              => HeardIn(w, x) \in w.answer

(* The windows lie side by side from 0 to OwnedUpTo.                       *)
WindowsInv ==
  /\ \E C : work.windows \in Seq(C)
  /\ OwnedUpTo \in Nat /\ OwnedUpTo <= input.duration
  /\ \A k \in 1..Len(work.windows) : IsWindow(work.windows[k]) /\ work.windows[k].end <= OwnedUpTo
  /\ \A j, k \in 1..Len(work.windows) : j < k => work.windows[j].end <= work.windows[k].start
  /\ \A m \in Nat : m < 2 * OwnedUpTo =>
       \E k \in 1..Len(work.windows) :
         2 * work.windows[k].start <= m /\ m < 2 * work.windows[k].end

LEMMA InputWords ==
  ASSUME input \in TranscriptionInput
  PROVE  /\ input.duration \in Nat /\ input.duration > 0 /\ IsFiniteSet(input.words)
         /\ \A x \in input.words :
              /\ x.id \in Nat /\ x.start \in Nat /\ x.end \in Nat
              /\ x.start < x.end /\ x.end <= input.duration
         /\ \A x, y \in input.words : x.id = y.id => x = y
BY DEF TranscriptionInput

(* The midpoint of a short word says which window hears all of it, and     *)
(* that what the others hear of it lies on their far side of the border.   *)
LEMMA OwnerHearsAll ==
  ASSUME input \in TranscriptionInput, NEW w, IsWindow(w), NEW x \in input.words,
         x.end - x.start <= 2 * ContextTicks, Owns(w, x)
  PROVE  w.decodeStart <= x.start /\ x.end <= DecodeEnd(w)
<1>1. /\ x.start \in Nat /\ x.end \in Nat /\ x.start < x.end /\ x.end <= input.duration
      /\ input.duration \in Nat /\ ContextTicks \in Nat
  BY InputWords, WindowAssumption
<1>2. w.start \in Nat /\ w.end \in Nat /\ w.decodeStart = Later(0, w.start - ContextTicks)
  BY DEF IsWindow
<1>3. 2 * w.start <= x.start + x.end /\ x.start + x.end < 2 * w.end
  BY DEF Owns
<1>4. w.start - ContextTicks <= x.start /\ x.end <= w.end + ContextTicks
  BY <1>1, <1>2, <1>3
<1> QED  BY <1>1, <1>2, <1>4 DEF Later, Earlier, DecodeEnd

LEMMA OthersDoNotOwn ==
  ASSUME input \in TranscriptionInput, NEW w, IsWindow(w), NEW x \in input.words,
         x.end - x.start <= 2 * ContextTicks, ~Owns(w, x),
         NEW z, z.start = Later(x.start, w.decodeStart), z.end = Earlier(x.end, DecodeEnd(w))
  PROVE  ~Owns(w, z)
<1>1. /\ x.start \in Nat /\ x.end \in Nat /\ x.start < x.end /\ x.end <= input.duration
      /\ input.duration \in Nat /\ ContextTicks \in Nat
  BY InputWords, WindowAssumption
<1>2. w.start \in Nat /\ w.end \in Nat /\ w.decodeStart = Later(0, w.start - ContextTicks)
  BY DEF IsWindow
<1>3. PICK a, b : a = z.start /\ b = z.end
  OBVIOUS
<1>4. /\ a = IF x.start < w.decodeStart THEN w.decodeStart ELSE x.start
      /\ b = IF x.end < DecodeEnd(w) THEN x.end ELSE DecodeEnd(w)
  BY <1>3 DEF Later, Earlier
<1>5. /\ w.decodeStart = IF 0 < w.start - ContextTicks THEN w.start - ContextTicks ELSE 0
      /\ DecodeEnd(w) = IF input.duration < w.end + ContextTicks THEN input.duration
                                                               ELSE w.end + ContextTicks
  BY <1>2 DEF Later, Earlier, DecodeEnd
<1>6. CASE x.start + x.end < 2 * w.start
  <2>1. b <= x.end
    BY <1>1, <1>2, <1>4, <1>5
  <2>2. a = x.start \/ a = w.start - ContextTicks
    BY <1>1, <1>2, <1>4, <1>5
  <2>3. x.end < w.start + ContextTicks
    BY <1>1, <1>2, <1>6
  <2>4. b \in Int
    BY <1>1, <1>2, <1>4, <1>5
  <2>5. a + b < 2 * w.start
    BY <2>1, <2>2, <2>3, <2>4, <1>1, <1>2, <1>6
  <2> QED  BY <2>2, <2>4, <2>5, <1>1, <1>2, <1>3 DEF Owns
<1>7. CASE 2 * w.end <= x.start + x.end
  <2>1. a >= x.start
    BY <1>1, <1>2, <1>4, <1>5
  <2>2. b = x.end \/ b = w.end + ContextTicks
    BY <1>1, <1>2, <1>4, <1>5
  <2>3. x.start >= w.end - ContextTicks
    BY <1>1, <1>2, <1>7
  <2>4. a \in Int
    BY <1>1, <1>2, <1>4, <1>5
  <2>5. a + b >= 2 * w.end
    BY <2>1, <2>2, <2>3, <2>4, <1>1, <1>2, <1>7
  <2> QED  BY <2>2, <2>4, <2>5, <1>1, <1>2, <1>3 DEF Owns
<1> QED  BY <1>1, <1>2, <1>6, <1>7 DEF Owns

(* A short word has one owner.                                             *)
LEMMA OneOwner ==
  ASSUME input \in TranscriptionInput, WindowsInv, OwnedUpTo = input.duration,
         NEW x \in input.words
  PROVE  \E k \in 1..Len(work.windows) :
           /\ Owns(work.windows[k], x)
           /\ \A j \in 1..Len(work.windows) : Owns(work.windows[j], x) => j = k
<1>1. x.start \in Nat /\ x.end \in Nat /\ x.start + x.end < 2 * OwnedUpTo
  BY InputWords
<1>2. PICK m \in Nat : m = x.start + x.end /\ m < 2 * OwnedUpTo
  BY <1>1
<1>4. PICK k \in 1..Len(work.windows) :
        2 * work.windows[k].start <= m /\ m < 2 * work.windows[k].end
  BY <1>2 DEF WindowsInv
<1>3. ASSUME NEW j \in 1..Len(work.windows), Owns(work.windows[j], x)
      PROVE  j = k
  <2>1. /\ work.windows[j].start \in Nat /\ work.windows[j].end \in Nat
        /\ work.windows[k].start \in Nat /\ work.windows[k].end \in Nat
    BY DEF WindowsInv, IsWindow
  <2>2. /\ j < k => work.windows[j].end <= work.windows[k].start
        /\ k < j => work.windows[k].end <= work.windows[j].start
    BY DEF WindowsInv
  <2>3. ~(j < k) /\ ~(k < j)
    <3>1. 2 * work.windows[j].start <= m /\ m < 2 * work.windows[j].end
      BY <1>2, <1>3, Zenon DEF Owns
    <3> QED  BY <2>1, <2>2, <1>2, <1>4, <3>1
  <2>4. \E C : work.windows \in Seq(C)
    BY DEF WindowsInv
  <2>5. j \in Int /\ k \in Int
    BY <2>4
  <2> QED  BY <2>3, <2>5
<1>5. Owns(work.windows[k], x)
  BY <1>2, <1>4, Zenon DEF Owns
<1> QED  BY <1>3, <1>5

-----------------------------------------------------------------------------

LEMMA WindowsAtFirst ==
  ASSUME input \in TranscriptionInput, work.windows = <<>>  PROVE WindowsInv
<1>1. OwnedUpTo = 0
  BY DEF OwnedUpTo
<1>2. work.windows \in Seq({}) /\ Len(work.windows) = 0
  OBVIOUS
<1>3. input.duration \in Nat
  BY InputWords
<1> QED  BY <1>1, <1>2, <1>3 DEF WindowsInv

(* The next window continues where the last one ended.                     *)
LEMMA NextWindow ==
  ASSUME input \in TranscriptionInput, WindowsInv, OwnedUpTo < input.duration,
         NEW record, NEW w, w = Window(OwnedUpTo),
         record.start = w.start, record.end = w.end, record.decodeStart = w.decodeStart,
         NEW cut \in SUBSET {x \in input.words : IsCut(w, x)},
         record.answer = {Heard(w, x) : x \in {y \in input.words : Inside(w, y)} \union cut},
         input' = input, work'.windows = Append(work.windows, record)
  PROVE  WindowsInv'
<1>1. PICK u \in Nat : u = OwnedUpTo
  BY DEF WindowsInv
<1>2. /\ input.duration \in Nat /\ ContextTicks \in Nat /\ WindowTicks \in Nat /\ WindowTicks > 0
      /\ u < input.duration
  BY <1>1, InputWords, WindowAssumption
<1>3. /\ w.start = u /\ w.end = Earlier(u + WindowTicks, input.duration)
      /\ w.decodeStart = Later(0, u - ContextTicks)
      /\ w.decodeEnd = Earlier(input.duration, w.end + ContextTicks)
  BY <1>1 DEF Window
<1>4. w.end \in Nat /\ u < w.end /\ w.end <= input.duration
  BY <1>2, <1>3 DEF Earlier
<1>5. \A x : Heard(w, x) = HeardIn(record, x)
  BY <1>3 DEF Heard, HeardIn, DecodeEnd
<1>6. IsWindow(record)
  <2>1. ASSUME NEW y \in record.answer  PROVE \E x \in input.words : y = HeardIn(record, x)
    BY <1>5
  <2>2. ASSUME NEW x \in input.words, record.decodeStart <= x.start, x.end <= DecodeEnd(record)
        PROVE  HeardIn(record, x) \in record.answer
    <3>1. Inside(w, x)
      BY <2>2, <1>3 DEF Inside, DecodeEnd
    <3> QED  BY <3>1, <1>5
  <2> QED  BY <2>1, <2>2, <1>1, <1>3, <1>4 DEF IsWindow
<1>7. PICK n \in Nat : n = Len(work.windows)
  BY DEF WindowsInv
<1>8. PICK W : W = Append(work.windows, record)
  OBVIOUS
<1>9. /\ \E C : W \in Seq(C)
      /\ Len(W) = n + 1 /\ W[n + 1] = record
      /\ \A i \in 1..n : W[i] = work.windows[i]
  <2>1. \E C : work.windows \in Seq(C)
    BY DEF WindowsInv
  <2>2. PICK old : old = work.windows
    OBVIOUS
  <2>4. \E C : old \in Seq(C)
    BY <2>1, <2>2
  <2>3. /\ \E C : Append(old, record) \in Seq(C)
        /\ Len(old) \in Nat /\ Len(Append(old, record)) = Len(old) + 1
        /\ \A i \in 1..Len(old) : Append(old, record)[i] = old[i]
        /\ Append(old, record)[Len(old) + 1] = record
    BY <2>4, ExtendedBy
  <2> QED  BY <2>2, <2>3, <1>7, <1>8, Zenon
<1>10. work'.windows = W /\ OwnedUpTo' = w.end
  BY <1>7, <1>8, <1>9 DEF OwnedUpTo
<1>11. \A k \in 1..n : IsWindow(W[k]) /\ W[k].end <= u /\ W[k].start \in Nat /\ W[k].end \in Nat
  BY <1>1, <1>7, <1>9 DEF WindowsInv, IsWindow
<1>12. \A k \in 1..(n + 1) : k \in 1..n \/ k = n + 1
  BY <1>7
<1>13. \A k \in 1..(n + 1) : IsWindow(W[k]) /\ W[k].end <= w.end
  BY <1>4, <1>6, <1>9, <1>11, <1>12
<1>14. \A j, k \in 1..(n + 1) : j < k => W[j].end <= W[k].start
  <2>1. SUFFICES ASSUME NEW j \in 1..(n + 1), NEW k \in 1..(n + 1), j < k
                 PROVE  W[j].end <= W[k].start
    OBVIOUS
  <2>2. j \in 1..n
    BY <2>1, <1>7
  <2>3. CASE k \in 1..n
    BY <2>1, <2>2, <2>3, <1>7, <1>9 DEF WindowsInv
  <2>4. CASE k = n + 1
    BY <2>2, <2>4, <1>3, <1>9, <1>11
  <2> QED  BY <2>3, <2>4, <1>12
<1>15. ASSUME NEW m \in Nat, m < 2 * w.end
       PROVE  \E k \in 1..(n + 1) : 2 * W[k].start <= m /\ m < 2 * W[k].end
  <2>1. CASE m < 2 * u
    <3>1. PICK k \in 1..n : 2 * work.windows[k].start <= m /\ m < 2 * work.windows[k].end
      BY <2>1, <1>1, <1>7 DEF WindowsInv
    <3> QED  BY <3>1, <1>7, <1>9
  <2>2. CASE ~(m < 2 * u)
    BY <2>2, <1>3, <1>4, <1>7, <1>9, <1>15
  <2> QED  BY <2>1, <2>2
<1>16. \A v : IsWindow(v)' <=> IsWindow(v)
  BY Zenon DEF IsWindow, DecodeEnd, HeardIn
<1> QED  BY <1>4, <1>9, <1>10, <1>13, <1>14, <1>15, <1>16 DEF WindowsInv

-----------------------------------------------------------------------------
(*                         Runs of attributed words                        *)
(*                                                                         *)
(* Indexed says what texts, the chunks so far with the open run as the     *)
(* last of them, and the words that are left make of all words: each is in *)
(* one place, the texts are runs in order, and each had to end.            *)

AreWords(all) ==
  /\ IsFiniteSet(all)
  /\ \A z \in all : z.start \in Nat /\ z.end \in Nat /\ z.window \in Nat /\ z.id \in Nat

Before(x, y) == LexLeq(WordKey(x), WordKey(y))

IsRun(run) ==
  /\ Len(run) <= MaxRunWords
  /\ \A i \in 1..Len(run) :
       run[i].speaker = run[1].speaker /\ run[i].end - run[1].start <= MaxRunTicks
  /\ \A i, k \in 1..Len(run) : i < k => Before(run[i], run[k])

(* The run before had to end where the next one begins.                    *)
HadToEnd(run, x) ==
  \/ x.speaker # run[1].speaker
  \/ Len(run) = MaxRunWords
  \/ x.end - run[1].start > MaxRunTicks

Distinct(texts) ==
  \A c, d \in 1..Len(texts) : \A i \in 1..Len(texts[c]), j \in 1..Len(texts[d]) :
    texts[c][i] = texts[d][j] => c = d /\ i = j

Placed(all, texts, words) ==
  /\ \A z \in all \ words : \E c \in 1..Len(texts) : \E i \in 1..Len(texts[c]) : texts[c][i] = z
  /\ \A c \in 1..Len(texts) : \A i \in 1..Len(texts[c]) :
       texts[c][i] \in all /\ texts[c][i] \notin words
  /\ Distinct(texts)

Indexed(all, texts, words) ==
  /\ texts \in Seq(Seq(all)) /\ words \subseteq all
  /\ Placed(all, texts, words)
  /\ \A c \in 1..Len(texts) : IsRun(texts[c])
  /\ \A c \in 1..(Len(texts) - 1) :
       /\ Len(texts[c]) > 0
       /\ Len(texts[c + 1]) > 0
       /\ Before(texts[c][Len(texts[c])], texts[c + 1][1])
       /\ HadToEnd(texts[c], texts[c + 1][1])
  /\ \A i \in 1..Len(texts[Len(texts)]) : \A y \in words : Before(texts[Len(texts)][i], y)

LEMMA KeyIs ==
  ASSUME NEW all, AreWords(all), NEW x \in all
  PROVE  WordKey(x) \in [1..4 -> Int]
BY DEF AreWords, WordKey

LEMMA BeforeIsOrder ==
  ASSUME NEW all, AreWords(all), NEW x \in all, NEW y \in all, NEW z \in all
  PROVE  Before(x, y) /\ Before(y, z) => Before(x, z)
<1>1. WordKey(x) \in [1..4 -> Int] /\ WordKey(y) \in [1..4 -> Int] /\ WordKey(z) \in [1..4 -> Int]
  BY KeyIs
<1>2. PICK a \in [1..4 -> Int], b \in [1..4 -> Int], c \in [1..4 -> Int] :
        a = WordKey(x) /\ b = WordKey(y) /\ c = WordKey(z)
  BY <1>1
<1>3. LexLeq(a, b) /\ LexLeq(b, c) => LexLeq(a, c)
  <2>1. 4 \in Nat
    OBVIOUS
  <2> QED  BY <2>1, LexTransitive
<1> QED  BY <1>2, <1>3, Zenon DEF Before

(* What comes later in order begins no earlier.                            *)
LEMMA BeforeStarts ==
  ASSUME NEW all, AreWords(all), NEW x \in all, NEW y \in all, Before(x, y)
  PROVE  x.start <= y.start
<1>1. /\ x.start \in Nat /\ y.start \in Nat
      /\ WordKey(x)[1] = x.start /\ WordKey(y)[1] = y.start /\ DOMAIN WordKey(x) = 1..4
  BY DEF AreWords, WordKey
<1>2. CASE WordKey(x) = WordKey(y)
  BY <1>1, <1>2
<1>3. CASE WordKey(x) # WordKey(y)
  <2>1. PICK i \in 1..4 : /\ WordKey(x)[i] < WordKey(y)[i]
                          /\ \A k \in 1..(i - 1) : WordKey(x)[k] = WordKey(y)[k]
    BY <1>1, <1>3 DEF Before, LexLeq
  <2>2. CASE i = 1
    BY <1>1, <2>1, <2>2
  <2>3. CASE i # 1
    <3>1. 1 \in 1..(i - 1)
      BY <2>3
    <3> QED  BY <1>1, <2>1, <3>1
  <2> QED  BY <2>2, <2>3
<1> QED  BY <1>2, <1>3

LEMMA FirstWord ==
  ASSUME NEW all, AreWords(all), NEW words \in SUBSET all, words # {}
  PROVE  /\ LeastBy(words, WordKey) \in words
         /\ \A y \in words : Before(LeastBy(words, WordKey), y)
<1> DEFINE key == [x \in words |-> WordKey(x)]
<1>1. IsFiniteSet(words)
  BY FS_Subset DEF AreWords
<1>2. key \in [words -> [1..4 -> Int]]
  BY KeyIs
<1>3. PICK x \in words : \A y \in words : LexLeq(key[x], key[y])
  <2> HIDE DEF key
  <2>1. 4 \in Nat
    OBVIOUS
  <2> QED  BY <1>1, <1>2, <2>1, LeastKey
<1>4. \A y \in words : LexLeq(WordKey(x), WordKey(y))
  BY <1>3
<1>5. /\ LeastBy(words, WordKey) \in words
      /\ \A y \in words : LexLeq(WordKey(LeastBy(words, WordKey)), WordKey(y))
  BY <1>4, Zenon DEF LeastBy
<1> QED  BY <1>5, Zenon DEF Before

(* A run ends where its last word to end does.                             *)
LEMMA RunEndIs ==
  ASSUME NEW all, AreWords(all), NEW run \in Seq(all), Len(run) > 0, IsRun(run)
  PROVE  /\ RunEnd(run) \in Nat /\ RunEnd(run) - run[1].start <= MaxRunTicks
         /\ \A i \in 1..Len(run) : run[i].end <= RunEnd(run)
<1>1. \A i \in 1..Len(run) : run[i] \in all /\ run[i].end \in Nat /\ run[i].start \in Nat
  BY DEF AreWords
<1>2. 1 \in 1..Len(run) /\ DOMAIN run = 1..Len(run) /\ run # <<>>
  OBVIOUS
<1>3. PICK bound \in Nat : bound = run[1].start + MaxRunTicks
  BY <1>1, <1>2, WindowAssumption
<1>4. \A i \in 1..Len(run) : run[i].end <= bound
  BY <1>1, <1>2, <1>3, WindowAssumption DEF IsRun
<1> DEFINE room == {m \in Nat : \E i \in 1..Len(run) : run[i].end = bound - m}
<1>5. room # {}
  <2>1. bound - run[1].end \in Nat /\ run[1].end = bound - (bound - run[1].end)
    BY <1>1, <1>2, <1>4
  <2> QED  BY <1>2, <2>1
<1>6. PICK least \in room : \A m \in room : least <= m
  <2>1. room \in SUBSET Nat
    OBVIOUS
  <2> HIDE DEF room
  <2> QED  BY <1>5, <2>1, LeastOf
<1>7. PICK k \in 1..Len(run) : run[k].end = bound - least
  OBVIOUS
<1>8. \A i \in 1..Len(run) : run[i].end <= run[k].end
  <2>1. ASSUME NEW i \in 1..Len(run)  PROVE run[i].end <= run[k].end
    <3>1. bound - run[i].end \in Nat /\ run[i].end = bound - (bound - run[i].end)
      BY <1>1, <1>4
    <3>2. bound - run[i].end \in room
      BY <3>1
    <3>3. least <= bound - run[i].end /\ least \in Nat
      BY <1>6, <3>2
    <3> QED  BY <1>1, <1>7, <3>3
  <2> QED  BY <2>1
<1> HIDE DEF room
<1>9. RunEnd(run) = CHOOSE e \in {run[i].end : i \in DOMAIN run} : \A i \in DOMAIN run : run[i].end <= e
  BY <1>2 DEF RunEnd
<1>10. \E e \in {run[i].end : i \in DOMAIN run} : \A i \in DOMAIN run : run[i].end <= e
  BY <1>2, <1>8
<1>11. /\ RunEnd(run) \in {run[i].end : i \in DOMAIN run}
       /\ \A i \in DOMAIN run : run[i].end <= RunEnd(run)
  BY <1>9, <1>10, Zenon
<1>12. PICK j \in 1..Len(run) : RunEnd(run) = run[j].end
  BY <1>2, <1>11
<1> QED  BY <1>1, <1>2, <1>11, <1>12 DEF IsRun

(* The condition to break is the one that is promised.                     *)
LEMMA MustBreakIs ==
  ASSUME NEW all, AreWords(all), NEW run \in Seq(all), IsRun(run), NEW x \in all
  PROVE  MustBreak(run, x) <=> run # <<>> /\ HadToEnd(run, x)
<1>1. CASE run = <<>>
  BY <1>1 DEF MustBreak
<1>2. CASE run # <<>>
  <2>1. Len(run) > 0
    BY <1>2
  <2>2. PICK e \in Nat : e = RunEnd(run) /\ e - run[1].start <= MaxRunTicks
    BY <2>1, RunEndIs
  <2>3. /\ x.end \in Nat /\ run[1].start \in Nat /\ MaxRunTicks \in Nat
        /\ Later(x.end, e) = IF x.end < e THEN e ELSE x.end
    BY <2>1, WindowAssumption DEF AreWords, Later
  <2>4. Later(x.end, e) - run[1].start > MaxRunTicks <=> x.end - run[1].start > MaxRunTicks
    BY <2>2, <2>3
  <2> QED  BY <1>2, <2>2, <2>4, Zenon DEF MustBreak, HadToEnd
<1> QED  BY <1>1, <1>2

LEMMA NoTexts ==
  ASSUME NEW all  PROVE Indexed(all, <<<<>>>>, all)
<1>1. PICK T : T = <<<<>>>>
  OBVIOUS
<1>2. T \in Seq(Seq(all)) /\ Len(T) = 1 /\ T[1] = <<>> /\ Len(T[1]) = 0
  BY <1>1
<1>3. \A c \in 1..Len(T) : Len(T[c]) = 0
  BY <1>2
<1>4. Placed(all, T, all)
  BY <1>3 DEF Placed, Distinct
<1>5. \A c \in 1..Len(T) : IsRun(T[c])
  BY <1>3, WindowAssumption DEF IsRun
<1>6. 1..(Len(T) - 1) = {} /\ 1..Len(T[Len(T)]) = {}
  BY <1>2
<1>7. all \subseteq all
  OBVIOUS
<1> QED  BY <1>1, <1>2, <1>4, <1>5, <1>6, <1>7, Zenon DEF Indexed

(* The first of the words that are left goes to the end of the open run or *)
(* begins the next one, and is then in that place only.                    *)
LEMMA StartRun ==
  ASSUME NEW all, AreWords(all), NEW texts, NEW words, Indexed(all, texts, words),
         Len(texts) > 0, Len(texts[Len(texts)]) > 0,
         NEW x \in words, \A y \in words : Before(x, y),
         x.end - x.start <= MaxRunTicks, HadToEnd(texts[Len(texts)], x)
  PROVE  Indexed(all, Append(texts, <<x>>), words \ {x})
<1>1. PICK n \in Nat : n = Len(texts)
  BY DEF Indexed
<1>2. PICK T : T = Append(texts, <<x>>)
  OBVIOUS
<1>3. /\ T \in Seq(Seq(all)) /\ Len(T) = n + 1
      /\ \A c \in 1..n : T[c] = texts[c]
      /\ Len(T[n + 1]) = 1 /\ T[n + 1][1] = x
  BY <1>1, <1>2 DEF Indexed
<1>4. \A c \in 1..(n + 1) : c \in 1..n \/ c = n + 1
  OBVIOUS
<1>5. x \in all /\ x \notin words \ {x}
  BY DEF Indexed
<1>6. Placed(all, T, words \ {x})
  <2>1. ASSUME NEW z \in all, z \notin words \ {x}
        PROVE  \E c \in 1..Len(T) : \E i \in 1..Len(T[c]) : T[c][i] = z
    <3>1. CASE z = x
      BY <3>1, <1>3
    <3>2. CASE z # x
      <4>1. PICK c \in 1..n : \E i \in 1..Len(texts[c]) : texts[c][i] = z
        BY <2>1, <3>2, <1>1 DEF Indexed, Placed
      <4>2. c \in 1..Len(T) /\ T[c] = texts[c]
        BY <1>3
      <4> QED  BY <4>1, <4>2
    <3> QED  BY <3>1, <3>2
  <2>2. ASSUME NEW c \in 1..Len(T), NEW i \in 1..Len(T[c])
        PROVE  T[c][i] \in all /\ T[c][i] \notin words \ {x}
    <3>1. CASE c = n + 1
      BY <2>2, <3>1, <1>3, <1>5
    <3>2. CASE c \in 1..n
      BY <2>2, <3>2, <1>1, <1>3 DEF Indexed, Placed
    <3> QED  BY <3>1, <3>2, <1>3, <1>4
  <2>3. ASSUME NEW c \in 1..Len(T), NEW d \in 1..Len(T), NEW i \in 1..Len(T[c]),
               NEW j \in 1..Len(T[d]), T[c][i] = T[d][j]
        PROVE  c = d /\ i = j
    <3>1. \A e \in 1..n : T[e] = texts[e] /\ \A k \in 1..Len(T[e]) : T[e][k] # x
      BY <1>1, <1>3 DEF Indexed, Placed
    <3>2. CASE c = n + 1 /\ d = n + 1
      BY <2>3, <3>2, <1>3
    <3>3. CASE c \in 1..n /\ d \in 1..n
      BY <2>3, <3>1, <3>3, <1>1 DEF Indexed, Placed, Distinct
    <3>4. CASE c \in 1..n /\ d = n + 1
      BY <2>3, <3>1, <3>4, <1>3
    <3>5. CASE c = n + 1 /\ d \in 1..n
      BY <2>3, <3>1, <3>5, <1>3
    <3> QED  BY <3>2, <3>3, <3>4, <3>5, <1>3, <1>4
  <2> QED  BY <2>1, <2>2, <2>3 DEF Placed, Distinct
<1>7. IsRun(T[n + 1])
  <2>1. 1 <= MaxRunWords /\ MaxRunWords \in Nat
    BY WindowAssumption
  <2> QED  BY <1>3, <2>1 DEF IsRun
<1>8. \A c \in 1..Len(T) : IsRun(T[c])
  BY <1>1, <1>3, <1>4, <1>7 DEF Indexed
<1>9. ASSUME NEW c \in 1..n
      PROVE  /\ Len(T[c]) > 0 /\ Len(T[c + 1]) > 0
             /\ Before(T[c][Len(T[c])], T[c + 1][1])
             /\ HadToEnd(T[c], T[c + 1][1])
  <2>1. CASE c = n
    <3>1. Len(texts[n]) \in 1..Len(texts[n]) /\ T[c] = texts[n] /\ T[c + 1][1] = x
      BY <2>1, <1>1, <1>3 DEF Indexed
    <3>2. Before(texts[n][Len(texts[n])], x) /\ HadToEnd(texts[n], x) /\ Len(texts[n]) > 0
      BY <3>1, <1>1 DEF Indexed
    <3>3. Len(T[c + 1]) = 1
      BY <2>1, <1>3
    <3> QED  BY <3>1, <3>2, <3>3
  <2>2. CASE c # n
    <3>1. c \in 1..(n - 1) /\ T[c] = texts[c] /\ T[c + 1] = texts[c + 1]
      BY <2>2, <1>1, <1>3
    <3> QED  BY <3>1, <1>1 DEF Indexed
  <2> QED  BY <2>1, <2>2
<1>10. \A i \in 1..Len(T[Len(T)]) : \A y \in words : Before(T[Len(T)][i], y)
  BY <1>3
<1>11. words \ {x} \subseteq all
  BY DEF Indexed
<1>12. Len(T) - 1 = n
  BY <1>3
<1>13. \A i \in 1..Len(T[Len(T)]) : \A y \in words \ {x} : Before(T[Len(T)][i], y)
  BY <1>10
<1>14. T \in Seq(Seq(all))
  BY <1>3
<1> QED  BY <1>2, <1>6, <1>8, <1>9, <1>11, <1>12, <1>13, <1>14, Zenon DEF Indexed

LEMMA ExtendRun ==
  ASSUME NEW all, AreWords(all), NEW chunks \in Seq(Seq(all)), NEW run \in Seq(all),
         NEW words, Indexed(all, Append(chunks, run), words),
         NEW x \in words, \A y \in words : Before(x, y),
         x.end - x.start <= MaxRunTicks, run = <<>> => chunks = <<>>,
         run # <<>> => ~HadToEnd(run, x)
  PROVE  Indexed(all, Append(chunks, Append(run, x)), words \ {x})
<1>1. PICK n \in Nat, m \in Nat : n = Len(chunks) /\ m = Len(run)
  OBVIOUS
<1>2. x \in all /\ x \notin words \ {x} /\ words \ {x} \subseteq all
  BY DEF Indexed
<1>3. PICK T, U, r : T = Append(chunks, run) /\ r = Append(run, x) /\ U = Append(chunks, r)
  OBVIOUS
<1>4. /\ Len(T) = n + 1 /\ T[n + 1] = run
      /\ \A c \in 1..n : T[c] = chunks[c]
  BY <1>1, <1>3
<1>5. /\ r \in Seq(all) /\ Len(r) = m + 1 /\ r[m + 1] = x
      /\ \A i \in 1..m : r[i] = run[i]
  BY <1>1, <1>2, <1>3
<1>6. /\ U \in Seq(Seq(all)) /\ Len(U) = n + 1 /\ U[n + 1] = r
      /\ \A c \in 1..n : U[c] = T[c]
  BY <1>1, <1>3, <1>4, <1>5
<1>7. Indexed(all, T, words)
  BY <1>3
<1>8. \A c \in 1..(n + 1) : c \in 1..n \/ c = n + 1
  OBVIOUS
<1>9. \A i \in 1..(m + 1) : i \in 1..m \/ i = m + 1
  OBVIOUS
<1>10. \A c \in 1..(n + 1) : \A i \in 1..Len(U[c]) :
         \/ i \in 1..Len(T[c]) /\ U[c][i] = T[c][i]
         \/ c = n + 1 /\ i = m + 1 /\ U[c][i] = x
  <2> SUFFICES ASSUME NEW c \in 1..(n + 1), NEW i \in 1..Len(U[c])
               PROVE  \/ i \in 1..Len(T[c]) /\ U[c][i] = T[c][i]
                      \/ c = n + 1 /\ i = m + 1 /\ U[c][i] = x
    OBVIOUS
  <2>1. CASE c \in 1..n
    BY <2>1, <1>6
  <2>2. CASE c = n + 1
    <3>1. i \in 1..(m + 1) /\ U[c] = r /\ T[c] = run
      BY <2>2, <1>4, <1>5, <1>6
    <3> QED  BY <2>2, <3>1, <1>1, <1>5, <1>9
  <2> QED  BY <2>1, <2>2, <1>8
<1>11. \A c \in 1..(n + 1) : \A i \in 1..Len(T[c]) : i \in 1..Len(U[c]) /\ U[c][i] = T[c][i]
  <2> SUFFICES ASSUME NEW c \in 1..(n + 1), NEW i \in 1..Len(T[c])
               PROVE  i \in 1..Len(U[c]) /\ U[c][i] = T[c][i]
    OBVIOUS
  <2>1. CASE c \in 1..n
    BY <2>1, <1>6
  <2>2. CASE c = n + 1
    <3>1. i \in 1..m /\ U[c] = r /\ T[c] = run
      BY <2>2, <1>1, <1>4, <1>6
    <3> QED  BY <3>1, <1>5
  <2> QED  BY <2>1, <2>2, <1>8
<1>12. \A c \in 1..(n + 1) : \A i \in 1..Len(T[c]) : T[c][i] \in all /\ T[c][i] # x
  BY <1>4, <1>7 DEF Indexed, Placed
<1>13. Placed(all, U, words \ {x})
  <2>1. ASSUME NEW z \in all, z \notin words \ {x}
        PROVE  \E c \in 1..Len(U) : \E i \in 1..Len(U[c]) : U[c][i] = z
    <3>1. CASE z = x
      BY <3>1, <1>5, <1>6
    <3>2. CASE z # x
      <4>1. PICK c \in 1..(n + 1) : \E i \in 1..Len(T[c]) : T[c][i] = z
        BY <2>1, <3>2, <1>4, <1>7 DEF Indexed, Placed
      <4> QED  BY <4>1, <1>6, <1>11
    <3> QED  BY <3>1, <3>2
  <2>2. ASSUME NEW c \in 1..Len(U), NEW i \in 1..Len(U[c])
        PROVE  U[c][i] \in all /\ U[c][i] \notin words \ {x}
    <3>1. c \in 1..(n + 1)
      BY <1>6
    <3>2. CASE U[c][i] = x
      BY <3>2, <1>2
    <3>3. CASE i \in 1..Len(T[c]) /\ U[c][i] = T[c][i]
      BY <3>1, <3>3, <1>4, <1>7 DEF Indexed, Placed
    <3> QED  BY <3>1, <3>2, <3>3, <1>10
  <2>3. ASSUME NEW c \in 1..Len(U), NEW d \in 1..Len(U), NEW i \in 1..Len(U[c]),
               NEW j \in 1..Len(U[d]), U[c][i] = U[d][j]
        PROVE  c = d /\ i = j
    <3>1. c \in 1..(n + 1) /\ d \in 1..(n + 1)
      BY <1>6
    <3>2. CASE U[c][i] = x
      <4>1. c = n + 1 /\ i = m + 1
        BY <3>1, <3>2, <1>10, <1>12
      <4>2. d = n + 1 /\ j = m + 1
        BY <2>3, <3>1, <3>2, <1>10, <1>12
      <4> QED  BY <4>1, <4>2
    <3>3. CASE U[c][i] # x
      <4>1. i \in 1..Len(T[c]) /\ j \in 1..Len(T[d]) /\ T[c][i] = T[d][j]
        BY <2>3, <3>1, <3>3, <1>10
      <4> QED  BY <3>1, <4>1, <1>4, <1>7 DEF Indexed, Placed, Distinct
    <3> QED  BY <3>2, <3>3
  <2> QED  BY <2>1, <2>2, <2>3 DEF Placed, Distinct
<1>14. \A i \in 1..m : run[i] \in all /\ \A y \in words : Before(run[i], y)
  BY <1>1, <1>4, <1>7 DEF Indexed
<1>15. IsRun(r)
  <2>1. MaxRunWords \in Nat /\ MaxRunWords >= 1
    BY WindowAssumption
  <2>2. CASE m = 0
    BY <2>1, <2>2, <1>5, <1>9 DEF IsRun
  <2>3. CASE m > 0
    <3>1. IsRun(run) /\ run # <<>> /\ r[1] = run[1]
      BY <2>3, <1>1, <1>4, <1>5, <1>7 DEF Indexed
    <3>2. /\ x.speaker = run[1].speaker /\ m # MaxRunWords
          /\ ~(x.end - run[1].start > MaxRunTicks)
      BY <3>1, <1>1 DEF HadToEnd
    <3>3. x.end \in Nat /\ run[1].start \in Nat /\ MaxRunTicks \in Nat
      BY <2>3, <1>2, <1>14, WindowAssumption DEF AreWords
    <3>4. m + 1 <= MaxRunWords
      BY <2>1, <3>1, <3>2, <1>1 DEF IsRun
    <3>5. ASSUME NEW i \in 1..(m + 1)
          PROVE  r[i].speaker = r[1].speaker /\ r[i].end - r[1].start <= MaxRunTicks
      <4>1. CASE i \in 1..m
        BY <4>1, <3>1, <1>1, <1>5 DEF IsRun
      <4>2. CASE i = m + 1
        BY <4>2, <3>1, <3>2, <3>3, <1>5
      <4> QED  BY <4>1, <4>2, <1>9
    <3>6. ASSUME NEW i \in 1..(m + 1), NEW k \in 1..(m + 1), i < k  PROVE Before(r[i], r[k])
      <4>1. i \in 1..m /\ r[i] = run[i]
        BY <3>6, <1>5
      <4>2. CASE k \in 1..m
        BY <3>6, <4>1, <4>2, <3>1, <1>1, <1>5 DEF IsRun
      <4>3. CASE k = m + 1
        BY <4>1, <4>3, <1>5, <1>14
      <4> QED  BY <4>2, <4>3, <1>9
    <3> QED  BY <3>4, <3>5, <3>6, <1>5 DEF IsRun
  <2> QED  BY <2>2, <2>3
<1>16. \A c \in 1..Len(U) : IsRun(U[c])
  BY <1>4, <1>6, <1>7, <1>8, <1>15 DEF Indexed
<1>17. ASSUME NEW c \in 1..n
       PROVE  /\ Len(U[c]) > 0 /\ Len(U[c + 1]) > 0
              /\ Before(U[c][Len(U[c])], U[c + 1][1])
              /\ HadToEnd(U[c], U[c + 1][1])
  <2>1. /\ Len(T[c]) > 0 /\ Len(T[c + 1]) > 0
        /\ Before(T[c][Len(T[c])], T[c + 1][1])
        /\ HadToEnd(T[c], T[c + 1][1])
    BY <1>4, <1>7 DEF Indexed
  <2>2. 1 \in 1..Len(T[c + 1]) /\ c + 1 \in 1..(n + 1)
    <3>1. Len(T[c + 1]) \in Nat
      BY <1>7, <1>4 DEF Indexed
    <3> QED  BY <2>1, <3>1
  <2>3. U[c] = T[c] /\ U[c + 1][1] = T[c + 1][1] /\ 1 \in 1..Len(U[c + 1])
    BY <2>2, <1>6, <1>11
  <2>4. Len(U[c + 1]) > 0
    BY <2>3, <2>2
  <2> QED  BY <2>1, <2>3, <2>4
<1>18. \A i \in 1..Len(U[Len(U)]) : \A y \in words \ {x} : Before(U[Len(U)][i], y)
  BY <1>5, <1>6, <1>9, <1>14
<1>19. Len(U) - 1 = n /\ U \in Seq(Seq(all))
  BY <1>6
<1> QED  BY <1>2, <1>3, <1>13, <1>16, <1>17, <1>18, <1>19, Zenon DEF Indexed

-----------------------------------------------------------------------------
(*                       The merged, attributed words                      *)

AllWords == {Attributed(z) : z \in Merged}

(* The words that are merged from one window.                              *)
MergedFrom(i, z) ==
  \E y \in work.windows[i].answer :
    z = Shifted(work.windows[i], i, y) /\ Owns(work.windows[i], z)

LEMMA MergedAre ==
  ASSUME WindowsInv
  PROVE  /\ \A z \in Merged : \E i \in 1..Len(work.windows) : MergedFrom(i, z)
         /\ \A i \in 1..Len(work.windows) : \A y \in work.windows[i].answer :
              Owns(work.windows[i], Shifted(work.windows[i], i, y))
                => Shifted(work.windows[i], i, y) \in Merged
<1>1. DOMAIN work.windows = 1..Len(work.windows)
  BY DEF WindowsInv
<1>2. ASSUME NEW z \in Merged
      PROVE  \E i \in 1..Len(work.windows) : MergedFrom(i, z)
  <2>1. PICK i \in 1..Len(work.windows) : z \in Owned(work.windows[i], i)
    BY <1>1 DEF Merged
  <2> QED  BY <2>1 DEF Owned, MergedFrom
<1>3. ASSUME NEW i \in 1..Len(work.windows), NEW y \in work.windows[i].answer,
             Owns(work.windows[i], Shifted(work.windows[i], i, y))
      PROVE  Shifted(work.windows[i], i, y) \in Merged
  <2>1. Shifted(work.windows[i], i, y) \in Owned(work.windows[i], i)
    BY <1>3, Zenon DEF Owned
  <2> QED  BY <1>1, <2>1, Zenon DEF Merged
<1> QED  BY <1>2, <1>3

(* Where a word lies that was heard in a window.                           *)
LEMMA HeardAt ==
  ASSUME input \in TranscriptionInput, NEW w, IsWindow(w), NEW i, NEW x \in input.words,
         NEW z, z = Shifted(w, i, HeardIn(w, x))
  PROVE  /\ z.window = i /\ z.id = x.id
         /\ z.start = Later(x.start, w.decodeStart) /\ z.end = Earlier(x.end, DecodeEnd(w))
         /\ z.start \in Nat /\ z.end \in Nat
<1>1. /\ x.start \in Nat /\ x.end \in Nat /\ input.duration \in Nat /\ ContextTicks \in Nat
      /\ w.start \in Nat /\ w.end \in Nat /\ w.decodeStart = Later(0, w.start - ContextTicks)
  BY InputWords, WindowAssumption DEF IsWindow
<1>2. w.decodeStart \in Nat /\ DecodeEnd(w) \in Nat
  BY <1>1 DEF Later, Earlier, DecodeEnd
<1>3. PICK a \in Nat, b \in Nat :
        a = Later(x.start, w.decodeStart) /\ b = Earlier(x.end, DecodeEnd(w))
  BY <1>1, <1>2 DEF Later, Earlier
<1>4. HeardIn(w, x) = [id |-> x.id, start |-> a - w.decodeStart, end |-> b - w.decodeStart]
  BY <1>3, Zenon DEF HeardIn
<1>5. z = [window |-> i, id |-> x.id, start |-> (a - w.decodeStart) + w.decodeStart,
           end |-> (b - w.decodeStart) + w.decodeStart]
  BY <1>4 DEF Shifted
<1>6. (a - w.decodeStart) + w.decodeStart = a /\ (b - w.decodeStart) + w.decodeStart = b
  BY <1>2, <1>3
<1>7. z = [window |-> i, id |-> x.id, start |-> a, end |-> b]
  BY <1>5, <1>6, Zenon
<1> QED  BY <1>3, <1>7

LEMMA AttributedIs ==
  ASSUME NEW z
  PROVE  /\ Attributed(z).window = z.window /\ Attributed(z).id = z.id
         /\ Attributed(z).start = z.start /\ Attributed(z).end = z.end
BY DEF Attributed

LEMMA AllAreWords ==
  ASSUME input \in TranscriptionInput, WindowsInv
  PROVE  AreWords(AllWords)
<1> DEFINE Place(p) == Attributed(Shifted(work.windows[p[1]], p[1],
                                          HeardIn(work.windows[p[1]], p[2])))
           places == (1..Len(work.windows)) \X input.words
           image == {Place(p) : p \in places}
           placing == [p \in places |-> Place(p)]
<1>1. Len(work.windows) \in Nat /\ \A i \in 1..Len(work.windows) : IsWindow(work.windows[i])
  BY DEF WindowsInv
<1>2. ASSUME NEW a \in AllWords
      PROVE  \E i \in 1..Len(work.windows), x \in input.words :
               a = Attributed(Shifted(work.windows[i], i, HeardIn(work.windows[i], x)))
  <2>1. PICK z \in Merged : a = Attributed(z)
    BY DEF AllWords
  <2>2. PICK i \in 1..Len(work.windows) : MergedFrom(i, z)
    BY <2>1, MergedAre
  <2>3. PICK y \in work.windows[i].answer : z = Shifted(work.windows[i], i, y)
    BY <2>2 DEF MergedFrom
  <2>4. PICK x \in input.words : y = HeardIn(work.windows[i], x)
    BY <1>1 DEF IsWindow
  <2> QED  BY <2>1, <2>3, <2>4
<1>3. IsFiniteSet(places)
  <2>1. IsFiniteSet(1..Len(work.windows)) /\ IsFiniteSet(input.words)
    BY <1>1, FS_Interval, InputWords
  <2> QED  BY <2>1, FS_Product
<1>4. IsFiniteSet(image)
  <2>1. placing \in [places -> image] /\ \A a \in image : \E p \in places : placing[p] = a
    <3> HIDE DEF Place, places
    <3> QED  OBVIOUS
  <2> HIDE DEF placing, image, places
  <2>2. placing \in Surjection(places, image)
    BY <2>1, Zenon DEF Surjection
  <2> QED  BY <1>3, <2>2, FS_Surjection
<1>5. AllWords \subseteq image
  <2>1. ASSUME NEW a \in AllWords PROVE a \in image
    <3>1. PICK i \in 1..Len(work.windows), x \in input.words :
            a = Attributed(Shifted(work.windows[i], i, HeardIn(work.windows[i], x)))
      BY <1>2
    <3>2. <<i, x>> \in places /\ Place(<<i, x>>) = a
      BY <3>1
    <3> HIDE DEF Place, places
    <3> QED  BY <3>2
  <2> HIDE DEF image
  <2> QED  BY <2>1
<1>6. IsFiniteSet(AllWords)
  <2> HIDE DEF image
  <2> QED  BY <1>4, <1>5, FS_Subset
<1>7. ASSUME NEW a \in AllWords
      PROVE  a.start \in Nat /\ a.end \in Nat /\ a.window \in Nat /\ a.id \in Nat
  <2>1. PICK i \in 1..Len(work.windows), x \in input.words :
          a = Attributed(Shifted(work.windows[i], i, HeardIn(work.windows[i], x)))
    BY <1>2
  <2>2. PICK z : z = Shifted(work.windows[i], i, HeardIn(work.windows[i], x))
    OBVIOUS
  <2>3. z.window = i /\ z.id = x.id /\ z.start \in Nat /\ z.end \in Nat
    BY <1>1, <2>2, HeardAt
  <2>4. x.id \in Nat /\ i \in Nat
    BY <1>1, InputWords
  <2>5. a.window = z.window /\ a.id = z.id /\ a.start = z.start /\ a.end = z.end
    BY <2>1, <2>2, AttributedIs
  <2> QED  BY <2>3, <2>4, <2>5
<1> QED  BY <1>6, <1>7 DEF AreWords

(* A short word is merged exactly once, and as it was said.                *)
LEMMA ShortOnce ==
  ASSUME input \in TranscriptionInput, WindowsInv, OwnedUpTo = input.duration,
         NEW x \in input.words, x.end - x.start <= 2 * ContextTicks
  PROVE  \E a \in AllWords :
           /\ a.id = x.id /\ a.start = x.start /\ a.end = x.end
           /\ \A b \in AllWords : b.id = x.id => b = a
<1>1. PICK k \in 1..Len(work.windows) :
        /\ Owns(work.windows[k], x)
        /\ \A j \in 1..Len(work.windows) : Owns(work.windows[j], x) => j = k
  BY OneOwner
<1>2. \A j \in 1..Len(work.windows) : IsWindow(work.windows[j])
  BY DEF WindowsInv
<1>3. PICK w : w = work.windows[k]
  OBVIOUS
<1>4. IsWindow(w) /\ Owns(w, x)
  BY <1>1, <1>2, <1>3
<1>5. w.decodeStart <= x.start /\ x.end <= DecodeEnd(w)
  BY <1>4, OwnerHearsAll
<1>6. HeardIn(w, x) \in w.answer
  BY <1>4, <1>5 DEF IsWindow
<1>7. PICK z : z = Shifted(w, k, HeardIn(w, x))
  OBVIOUS
<1>8. /\ z.id = x.id
      /\ z.start = Later(x.start, w.decodeStart) /\ z.end = Earlier(x.end, DecodeEnd(w))
  BY <1>4, <1>7, HeardAt
<1>9. z.start = x.start /\ z.end = x.end
  <2>1. /\ x.start \in Nat /\ x.end \in Nat /\ input.duration \in Nat /\ ContextTicks \in Nat
        /\ w.start \in Nat /\ w.end \in Nat /\ w.decodeStart = Later(0, w.start - ContextTicks)
    BY <1>4, InputWords, WindowAssumption DEF IsWindow
  <2>2. w.decodeStart \in Nat /\ DecodeEnd(w) \in Nat
    BY <2>1 DEF Later, Earlier, DecodeEnd
  <2> QED  BY <2>1, <2>2, <1>5, <1>8 DEF Later, Earlier
<1>10. Owns(w, z)
  BY <1>4, <1>9, Zenon DEF Owns
<1>11. z \in Merged
  <2>1. Owns(work.windows[k], Shifted(work.windows[k], k, HeardIn(w, x)))
    BY <1>3, <1>7, <1>10
  <2> QED  BY <1>3, <1>6, <1>7, <2>1, MergedAre
<1>12. PICK a : a = Attributed(z)
  OBVIOUS
<1>13. a \in AllWords /\ a.id = x.id /\ a.start = x.start /\ a.end = x.end
  BY <1>8, <1>9, <1>11, <1>12, AttributedIs DEF AllWords
<1>14. ASSUME NEW b \in AllWords, b.id = x.id PROVE b = a
  <2>1. PICK v \in Merged : b = Attributed(v)
    BY DEF AllWords
  <2>2. PICK j \in 1..Len(work.windows) : MergedFrom(j, v)
    BY <2>1, MergedAre
  <2>3. PICK y \in work.windows[j].answer :
          v = Shifted(work.windows[j], j, y) /\ Owns(work.windows[j], v)
    BY <2>2 DEF MergedFrom
  <2>4. PICK u : u = work.windows[j] /\ IsWindow(u)
    BY <1>2
  <2>5. PICK o \in input.words : y = HeardIn(u, o)
    BY <2>3, <2>4 DEF IsWindow
  <2>6. /\ v.id = o.id
        /\ v.start = Later(o.start, u.decodeStart) /\ v.end = Earlier(o.end, DecodeEnd(u))
    BY <2>3, <2>4, <2>5, HeardAt
  <2>7. o = x
    <3>1. o.id = x.id
      BY <1>14, <2>1, <2>6, AttributedIs
    <3> QED  BY <3>1, InputWords
  <2>8. Owns(u, v)
    BY <2>3, <2>4
  <2>9. Owns(u, x)
    BY <2>4, <2>6, <2>7, <2>8, OthersDoNotOwn
  <2>10. j = k
    BY <1>1, <2>4, <2>9
  <2>11. v = z
    BY <1>3, <1>7, <2>3, <2>4, <2>5, <2>7, <2>10
  <2> QED  BY <1>12, <2>1, <2>11
<1> QED  BY <1>13, <1>14

-----------------------------------------------------------------------------
(*                          From audio to the index                        *)
(*                                                                         *)
(* TranscriptIsSound speaks of the end.  Until the windows are all there,  *)
(* what counts is where they lie and what they heard; from then on, which  *)
(* of the merged words stand where in the runs.                            *)

NoEmptyText(texts) == \A c \in 1..Len(texts) : Len(texts[c]) > 0

TranscriptInv ==
  /\ input \in TranscriptionInput
  /\ {"phase", "windows", "words", "run", "chunks"} \subseteq DOMAIN work
  /\ work.phase \in {"decoding", "indexing", "indexed", "refused"}
  /\ WindowsInv
  /\ work.phase = "decoding" => work.run = <<>> /\ work.chunks = <<>>
  /\ work.phase # "decoding" => OwnedUpTo = input.duration
  /\ work.phase = "indexing" =>
       /\ work.chunks \in Seq(Seq(AllWords)) /\ work.run \in Seq(AllWords)
       /\ Indexed(AllWords, Append(work.chunks, work.run), work.words)
       /\ work.run = <<>> => work.chunks = <<>>
  /\ work.phase = "indexed" =>
       \/ AllWords = {} /\ work.chunks = <<>>
       \/ Indexed(AllWords, work.chunks, {}) /\ NoEmptyText(work.chunks)

LEMMA TranscriptBegins ==
  ASSUME input \in TranscriptionInput, work = TranscriptionWork
  PROVE  TranscriptInv
<1>1. work.windows = <<>> /\ work.phase = "decoding" /\ work.run = <<>> /\ work.chunks = <<>>
  BY DEF TranscriptionWork
<1>2. {"phase", "windows", "words", "run", "chunks"} \subseteq DOMAIN work
  BY DEF TranscriptionWork
<1>3. WindowsInv
  BY <1>1, WindowsAtFirst
<1> QED  BY <1>1, <1>2, <1>3 DEF TranscriptInv

LEMMA TranscribeWindowKeeps ==
  ASSUME TranscriptInv, TranscribeWindow
  PROVE  TranscriptInv'
<1>1. PICK w : w = Window(OwnedUpTo)
  OBVIOUS
<1>2. PICK cut \in SUBSET {x \in input.words : IsCut(w, x)} :
        work' = [work EXCEPT !.windows = Append(@, Result(w, cut))]
  BY <1>1 DEF TranscribeWindow
<1>3. PICK record : record = Result(w, cut)
  OBVIOUS
<1>4. work' = [work EXCEPT !.windows = Append(work.windows, record)]
  BY <1>2, <1>3, Zenon
<1>5. /\ input' = input /\ work.phase = "decoding" /\ OwnedUpTo < input.duration
      /\ input \in TranscriptionInput /\ WindowsInv
      /\ {"phase", "windows", "words", "run", "chunks"} \subseteq DOMAIN work
      /\ work.run = <<>> /\ work.chunks = <<>>
  BY DEF TranscribeWindow, TranscriptInv
<1>6. /\ DOMAIN work' = DOMAIN work /\ work'.windows = Append(work.windows, record)
      /\ work'.phase = work.phase /\ work'.run = work.run /\ work'.chunks = work.chunks
  BY <1>4, <1>5
<1>7. /\ record.start = w.start /\ record.end = w.end /\ record.decodeStart = w.decodeStart
      /\ record.answer = {Heard(w, x) : x \in {y \in input.words : Inside(w, y)} \union cut}
  BY <1>3 DEF Result
<1>8. WindowsInv'
  BY <1>1, <1>5, <1>6, <1>7, NextWindow
<1> QED  BY <1>5, <1>6, <1>8 DEF TranscriptInv

(* Once the windows are there, they and what they heard stay.              *)
LEMMA WindowsStay ==
  ASSUME input' = input, work'.windows = work.windows
  PROVE  /\ AllWords' = AllWords /\ OwnedUpTo' = OwnedUpTo /\ (WindowsInv => WindowsInv')
<1>1. OwnedUpTo' = OwnedUpTo
  BY Zenon DEF OwnedUpTo
<1>2. \A z : z \in Merged' <=> z \in Merged
  BY DEF Merged, Owned, Shifted, Owns
<1>3. ASSUME NEW z PROVE Attributed(z)' = Attributed(z)
  BY DEF Attributed
<1>5. \A a : a \in AllWords' <=> a \in AllWords
  BY <1>2, <1>3 DEF AllWords
<1>6. \A v : IsWindow(v)' <=> IsWindow(v)
  BY Zenon DEF IsWindow, DecodeEnd, HeardIn
<1>4. WindowsInv => WindowsInv'
  BY <1>1, <1>6 DEF WindowsInv
<1> QED  BY <1>1, <1>4, <1>5

LEMMA MergeAndAttributeKeeps ==
  ASSUME TranscriptInv, MergeAndAttribute
  PROVE  TranscriptInv'
<1>1. /\ input' = input /\ work.phase = "decoding" /\ OwnedUpTo = input.duration
      /\ input \in TranscriptionInput /\ WindowsInv
      /\ {"phase", "windows", "words", "run", "chunks"} \subseteq DOMAIN work
      /\ work.run = <<>> /\ work.chunks = <<>>
  BY DEF MergeAndAttribute, TranscriptInv
<1>2. work' = [work EXCEPT !.phase = "indexing", !.words = AllWords]
  BY Zenon DEF MergeAndAttribute, AllWords
<1>3. /\ DOMAIN work' = DOMAIN work /\ work'.phase = "indexing" /\ work'.words = AllWords
      /\ work'.windows = work.windows /\ work'.run = <<>> /\ work'.chunks = <<>>
  BY <1>1, <1>2
<1>4. AllWords' = AllWords /\ OwnedUpTo' = OwnedUpTo /\ WindowsInv'
  BY <1>1, <1>3, WindowsStay
<1>5. Append(work'.chunks, work'.run) = <<<<>>>>
  BY <1>3
<1>6. Indexed(AllWords, <<<<>>>>, AllWords)
  BY NoTexts
<1>7. work'.chunks \in Seq(Seq(AllWords)) /\ work'.run \in Seq(AllWords)
  BY <1>3
<1> QED  BY <1>1, <1>3, <1>4, <1>5, <1>6, <1>7 DEF TranscriptInv

LEMMA IndexWordKeeps ==
  ASSUME TranscriptInv, IndexWord
  PROVE  TranscriptInv'
<1>1. PICK x : x = LeastBy(work.words, WordKey)
  OBVIOUS
<1>2. /\ input' = input /\ work.phase = "indexing" /\ work.words # {} /\ OwnedUpTo = input.duration
      /\ input \in TranscriptionInput /\ WindowsInv
      /\ {"phase", "windows", "words", "run", "chunks"} \subseteq DOMAIN work
      /\ work.chunks \in Seq(Seq(AllWords)) /\ work.run \in Seq(AllWords)
      /\ Indexed(AllWords, Append(work.chunks, work.run), work.words)
      /\ work.run = <<>> => work.chunks = <<>>
  BY DEF IndexWord, TranscriptInv
<1>3. work' = IF x.end - x.start > MaxRunTicks
              THEN [work EXCEPT !.phase = "refused"]
              ELSE IF MustBreak(work.run, x)
              THEN [work EXCEPT !.words = @ \ {x}, !.run = <<x>>,
                                !.chunks = Append(@, work.run)]
              ELSE [work EXCEPT !.words = @ \ {x}, !.run = Append(@, x)]
  BY <1>1, Zenon DEF IndexWord
<1>4. PICK all, texts : all = AllWords /\ texts = Append(work.chunks, work.run)
  OBVIOUS
<1>5. AreWords(all) /\ work.words \subseteq all
  BY <1>2, <1>4, AllAreWords DEF Indexed
<1>6. x \in work.words /\ x \in all /\ \A y \in work.words : Before(x, y)
  BY <1>1, <1>2, <1>5, FirstWord
<1>7. ASSUME work'.windows = work.windows
      PROVE  AllWords' = all /\ OwnedUpTo' = input'.duration /\ WindowsInv'
  BY <1>2, <1>4, <1>7, WindowsStay
<1>8. /\ Indexed(all, texts, work.words) /\ Len(texts) = Len(work.chunks) + 1
      /\ texts[Len(texts)] = work.run /\ Len(texts) > 0 /\ texts \in Seq(Seq(all))
      /\ work.run \in Seq(all) /\ work.chunks \in Seq(Seq(all))
  BY <1>2, <1>4
<1>9. IsRun(work.run)
  BY <1>8 DEF Indexed
<1>10. MustBreak(work.run, x) <=> work.run # <<>> /\ HadToEnd(work.run, x)
  BY <1>5, <1>6, <1>8, <1>9, MustBreakIs
<1>11. CASE x.end - x.start > MaxRunTicks
  <2>1. work' = [work EXCEPT !.phase = "refused"]
    BY <1>3, <1>11, Zenon
  <2>2. work'.windows = work.windows /\ work'.phase = "refused" /\ DOMAIN work' = DOMAIN work
    BY <1>2, <2>1
  <2> QED  BY <1>2, <1>7, <2>2 DEF TranscriptInv
<1>12. ASSUME ~(x.end - x.start > MaxRunTicks)
       PROVE  x.end - x.start <= MaxRunTicks
  BY <1>5, <1>6, <1>12, WindowAssumption DEF AreWords
<1>13. CASE ~(x.end - x.start > MaxRunTicks) /\ MustBreak(work.run, x)
  <2>1. work' = [work EXCEPT !.words = work.words \ {x}, !.run = <<x>>,
                             !.chunks = texts]
    BY <1>3, <1>4, <1>13, Zenon
  <2>2. /\ work'.windows = work.windows /\ work'.phase = work.phase /\ DOMAIN work' = DOMAIN work
        /\ work'.words = work.words \ {x} /\ work'.run = <<x>> /\ work'.chunks = texts
    BY <1>2, <2>1
  <2>3. Len(texts[Len(texts)]) > 0 /\ HadToEnd(texts[Len(texts)], x)
    BY <1>8, <1>10, <1>13
  <2>4. Indexed(all, Append(texts, <<x>>), work.words \ {x})
    BY <1>5, <1>6, <1>8, <1>12, <1>13, <2>3, StartRun
  <2>5. /\ work'.chunks \in Seq(Seq(all)) /\ work'.run \in Seq(all) /\ work'.run # <<>>
        /\ Indexed(all, Append(work'.chunks, work'.run), work'.words)
    BY <1>6, <1>8, <2>2, <2>4
  <2> QED  BY <1>2, <1>7, <2>2, <2>5 DEF TranscriptInv
<1>14. CASE ~(x.end - x.start > MaxRunTicks) /\ ~MustBreak(work.run, x)
  <2>1. work' = [work EXCEPT !.words = work.words \ {x}, !.run = Append(work.run, x)]
    BY <1>3, <1>14, Zenon
  <2>2. /\ work'.windows = work.windows /\ work'.phase = work.phase /\ DOMAIN work' = DOMAIN work
        /\ work'.words = work.words \ {x} /\ work'.run = Append(work.run, x)
        /\ work'.chunks = work.chunks
    BY <1>2, <2>1
  <2>3. work.run # <<>> => ~HadToEnd(work.run, x)
    BY <1>10, <1>14
  <2>4. Indexed(all, Append(work.chunks, Append(work.run, x)), work.words \ {x})
    <3>1. x.end - x.start <= MaxRunTicks
      BY <1>12, <1>14
    <3>2. PICK chunks, run, words :
            chunks = work.chunks /\ run = work.run /\ words = work.words
      OBVIOUS
    <3>3. Indexed(all, Append(chunks, run), words)
      BY <1>4, <1>8, <3>2
    <3>4. chunks \in Seq(Seq(all)) /\ run \in Seq(all) /\ x \in words
          /\ (\A y \in words : Before(x, y)) /\ (run = <<>> => chunks = <<>>)
          /\ (run # <<>> => ~HadToEnd(run, x))
      BY <1>2, <1>6, <1>8, <2>3, <3>2
    <3>5. Indexed(all, Append(chunks, Append(run, x)), words \ {x})
      BY <1>5, <3>1, <3>3, <3>4, ExtendRun
    <3> QED  BY <3>2, <3>5
  <2>5. /\ work'.chunks \in Seq(Seq(all)) /\ work'.run \in Seq(all) /\ work'.run # <<>>
        /\ Indexed(all, Append(work'.chunks, work'.run), work'.words)
    BY <1>6, <1>8, <2>2, <2>4
  <2> QED  BY <1>2, <1>7, <2>2, <2>5 DEF TranscriptInv
<1> QED  BY <1>11, <1>13, <1>14

LEMMA FlushLastRunKeeps ==
  ASSUME TranscriptInv, FlushLastRun
  PROVE  TranscriptInv'
<1>1. /\ input' = input /\ work.phase = "indexing" /\ work.words = {} /\ OwnedUpTo = input.duration
      /\ input \in TranscriptionInput /\ WindowsInv
      /\ {"phase", "windows", "words", "run", "chunks"} \subseteq DOMAIN work
      /\ work.chunks \in Seq(Seq(AllWords)) /\ work.run \in Seq(AllWords)
      /\ Indexed(AllWords, Append(work.chunks, work.run), work.words)
      /\ work.run = <<>> => work.chunks = <<>>
  BY DEF FlushLastRun, TranscriptInv
<1>2. work' = [work EXCEPT !.phase = "indexed", !.run = <<>>,
                 !.chunks = IF work.run = <<>> THEN @ ELSE Append(@, work.run)]
  BY DEF FlushLastRun
<1>3. /\ DOMAIN work' = DOMAIN work /\ work'.phase = "indexed" /\ work'.windows = work.windows
      /\ work'.chunks = IF work.run = <<>> THEN work.chunks ELSE Append(work.chunks, work.run)
  BY <1>1, <1>2
<1>4. AllWords' = AllWords /\ OwnedUpTo' = OwnedUpTo /\ WindowsInv'
  BY <1>1, <1>3, WindowsStay
<1>5. PICK n \in Nat : n = Len(work.chunks)
  BY <1>1
<1>9. PICK texts : texts = Append(work.chunks, work.run)
  OBVIOUS
<1>6. /\ Indexed(AllWords, texts, {}) /\ Len(texts) = n + 1 /\ texts[n + 1] = work.run
      /\ \A c \in 1..n : texts[c] = work.chunks[c]
  BY <1>1, <1>5, <1>9
<1>7. CASE work.run = <<>>
  <2>1. work'.chunks = <<>> /\ n = 0
    BY <1>1, <1>3, <1>5, <1>7
  <2>2. ASSUME NEW z \in AllWords PROVE FALSE
    <3>1. PICK c \in 1..1 : \E i \in 1..Len(texts[c]) : texts[c][i] = z
      BY <1>6, <2>1 DEF Indexed, Placed
    <3>2. Len(texts[c]) = 0
      BY <1>6, <1>7, <2>1
    <3> QED  BY <3>1, <3>2
  <2> QED  BY <1>1, <1>3, <1>4, <2>1, <2>2 DEF TranscriptInv
<1>8. CASE work.run # <<>>
  <2>1. work'.chunks = texts
    BY <1>3, <1>8, <1>9
  <2>2. ASSUME NEW c \in 1..(n + 1) PROVE Len(texts[c]) > 0
    <3>1. CASE c \in 1..n
      BY <3>1, <1>6 DEF Indexed
    <3>2. CASE c = n + 1
      BY <3>2, <1>1, <1>6, <1>8
    <3> QED  BY <3>1, <3>2
  <2>3. NoEmptyText(texts)
    BY <1>6, <2>2 DEF NoEmptyText
  <2>4. Indexed(AllWords', work'.chunks, {}) /\ NoEmptyText(work'.chunks)
    BY <1>4, <1>6, <2>1, <2>3
  <2> QED  BY <1>1, <1>3, <1>4, <2>4 DEF TranscriptInv, NoEmptyText
<1> QED  BY <1>7, <1>8

LEMMA TranscriptStep == TranscriptInv /\ [TranscriptionNext]_computation => TranscriptInv'
<1>1. ASSUME TranscriptInv, UNCHANGED computation PROVE TranscriptInv'
  <2>1. work' = work /\ input' = input
    BY <1>1 DEF computation
  <2>2. AllWords' = AllWords /\ OwnedUpTo' = OwnedUpTo /\ WindowsInv'
    BY <1>1, <2>1, WindowsStay DEF TranscriptInv
  <2> QED  BY <1>1, <2>1, <2>2 DEF TranscriptInv
<1> QED  BY <1>1, TranscribeWindowKeeps, MergeAndAttributeKeeps, IndexWordKeeps,
            FlushLastRunKeeps DEF TranscriptionNext

LEMMA WordsIndexedOnce ==
  ASSUME TranscriptInv
  PROVE  WordsAreIndexedOnce
<1> SUFFICES ASSUME work.phase = "indexed", NEW x \in input.words,
                    x.end - x.start <= 2 * ContextTicks
             PROVE  \E place \in Occurrences(x.id) :
                      /\ Occurrences(x.id) = {place}
                      /\ work.chunks[place[1]][place[2]].start = x.start
                      /\ work.chunks[place[1]][place[2]].end = x.end
  BY DEF WordsAreIndexedOnce
<1>1. PICK a \in AllWords :
        /\ a.id = x.id /\ a.start = x.start /\ a.end = x.end
        /\ \A b \in AllWords : b.id = x.id => b = a
  <2>1. input \in TranscriptionInput /\ WindowsInv /\ OwnedUpTo = input.duration
    BY DEF TranscriptInv
  <2> QED  BY <2>1, ShortOnce
<1>2. PICK texts : texts = work.chunks
  OBVIOUS
<1>3. Indexed(AllWords, texts, {})
  BY <1>1, <1>2 DEF TranscriptInv
<1>4. PICK c \in 1..Len(texts) : \E i \in 1..Len(texts[c]) : texts[c][i] = a
  BY <1>3 DEF Indexed, Placed
<1>5. PICK i \in 1..Len(texts[c]) : texts[c][i] = a
  BY <1>4
<1>6. DOMAIN texts = 1..Len(texts) /\ \A d \in 1..Len(texts) : Len(texts[d]) \in Nat
  BY <1>3 DEF Indexed
<1>7. Len(texts[c]) <= MaxRunWords /\ MaxRunWords \in Nat
  BY <1>3, WindowAssumption DEF Indexed, IsRun
<1>8. i \in 1..MaxRunWords
  BY <1>6, <1>7
<1>9. PICK place : place = <<c, i>>
  OBVIOUS
<1>10. place \in Occurrences(x.id)
  <2>1. place \in (DOMAIN work.chunks) \X (1..MaxRunWords)
    BY <1>2, <1>6, <1>8, <1>9
  <2>2. place[1] = c /\ place[2] = i /\ i <= Len(texts[c])
    BY <1>6, <1>9
  <2> QED  BY <1>1, <1>2, <1>5, <2>1, <2>2 DEF Occurrences
<1>11. ASSUME NEW other \in Occurrences(x.id) PROVE other = place
  <2>1. PICK d, j : other = <<d, j>> /\ d \in 1..Len(texts) /\ j \in 1..MaxRunWords
    BY <1>2, <1>6 DEF Occurrences
  <2>2. j <= Len(texts[d]) /\ texts[d][j].id = x.id
    BY <1>2, <2>1 DEF Occurrences
  <2>3. j \in 1..Len(texts[d])
    BY <1>6, <2>1, <2>2
  <2>4. texts[d][j] = a
    BY <1>1, <1>3, <2>1, <2>2, <2>3 DEF Indexed, Placed
  <2>5. d = c /\ j = i
    <3>1. Distinct(texts)
      BY <1>3 DEF Indexed, Placed
    <3>2. texts[d][j] = texts[c][i] /\ d \in 1..Len(texts) /\ c \in 1..Len(texts)
      BY <1>5, <2>1, <2>4
    <3> QED  BY <2>3, <3>1, <3>2 DEF Distinct
  <2> QED  BY <1>9, <2>1, <2>5
<1>12. work.chunks[place[1]][place[2]] = a
  BY <1>2, <1>5, <1>9
<1> QED  BY <1>1, <1>10, <1>11, <1>12

LEMMA TextChunksMaximal ==
  ASSUME TranscriptInv
  PROVE  TextChunksAreMaximalRuns
<1> SUFFICES ASSUME work.phase = "indexed" PROVE TextChunksAreMaximalRuns!2
  BY DEF TextChunksAreMaximalRuns
<1>1. CASE work.chunks = <<>>
  BY <1>1
<1>2. CASE work.chunks # <<>>
  <2>1. PICK texts : texts = work.chunks
    OBVIOUS
  <2>2. PICK all : all = AllWords
    OBVIOUS
  <2>3. Indexed(all, texts, {}) /\ NoEmptyText(texts) /\ AreWords(all)
    BY <1>2, <2>1, <2>2, AllAreWords DEF TranscriptInv
  <2>4. texts \in Seq(Seq(all)) /\ \A c \in 1..Len(texts) : IsRun(texts[c]) /\ Len(texts[c]) > 0
    BY <2>3 DEF Indexed, NoEmptyText
  <2>5. ASSUME NEW c \in 1..Len(texts)
        PROVE  /\ Len(texts[c]) \in 1..MaxRunWords
               /\ \A i, k \in DOMAIN texts[c] :
                    /\ texts[c][i].speaker = texts[c][k].speaker
                    /\ texts[c][i].end - texts[c][k].start <= MaxRunTicks
                    /\ i < k => LexLeq(WordKey(texts[c][i]), WordKey(texts[c][k]))
    <3>1. PICK run \in Seq(all) : run = texts[c] /\ IsRun(run) /\ Len(run) > 0
      BY <2>4
    <3>2. Len(run) \in 1..MaxRunWords /\ DOMAIN run = 1..Len(run)
      BY <3>1, WindowAssumption DEF IsRun
    <3>3. ASSUME NEW i \in 1..Len(run), NEW k \in 1..Len(run)
          PROVE  /\ run[i].speaker = run[k].speaker
                 /\ run[i].end - run[k].start <= MaxRunTicks
                 /\ i < k => LexLeq(WordKey(run[i]), WordKey(run[k]))
      <4>1. /\ run[i].speaker = run[1].speaker /\ run[k].speaker = run[1].speaker
            /\ run[i].end - run[1].start <= MaxRunTicks
            /\ i < k => Before(run[i], run[k])
        BY <3>1 DEF IsRun
      <4>2. 1 \in 1..Len(run) /\ run[1] \in all /\ run[i] \in all /\ run[k] \in all
        BY <3>1
      <4>3. run[1].start <= run[k].start
        <5>1. CASE k = 1
          BY <5>1, <2>3, <4>2 DEF AreWords
        <5>2. CASE k # 1
          <6>1. Before(run[1], run[k])
            BY <3>1, <4>2, <5>2 DEF IsRun
          <6> QED  BY <6>1, <2>3, <4>2, BeforeStarts
        <5> QED  BY <5>1, <5>2
      <4>4. run[i].end \in Nat /\ run[1].start \in Nat /\ run[k].start \in Nat /\ MaxRunTicks \in Nat
        BY <2>3, <4>2, WindowAssumption DEF AreWords
      <4> QED  BY <4>1, <4>3, <4>4 DEF Before
    <3> QED  BY <3>1, <3>2, <3>3
  <2>6. ASSUME NEW c \in 2..Len(texts)
        PROVE  /\ LexLeq(WordKey(texts[c - 1][Len(texts[c - 1])]), WordKey(texts[c][1]))
               /\ \/ texts[c][1].speaker # texts[c - 1][1].speaker
                  \/ Len(texts[c - 1]) = MaxRunWords
                  \/ texts[c][1].end - texts[c - 1][1].start > MaxRunTicks
    <3>1. PICK d \in 1..(Len(texts) - 1) : c = d + 1 /\ c - 1 = d
      BY <2>4
    <3>2. Before(texts[d][Len(texts[d])], texts[d + 1][1]) /\ HadToEnd(texts[d], texts[d + 1][1])
      BY <2>3, <3>1 DEF Indexed
    <3> QED  BY <3>1, <3>2, Zenon DEF Before, HadToEnd
  <2>7. DOMAIN texts = 1..Len(texts)
    BY <2>4
  <2> QED  BY <2>1, <2>5, <2>6, <2>7
<1> QED  BY <1>1, <1>2

(* Whatever the recognizer hears of a word that its window cuts, a word no *)
(* longer than twice the context is indexed once and with its own offsets, *)
(* and the chunks of the index are the maximal runs of one speaker, in     *)
(* order (_owned, merge_window_results, build_text_chunks).                *)
THEOREM TranscriptSound == TranscriptionSpec => []TranscriptIsSound
<1>1. ASSUME TranscriptInv PROVE TranscriptIsSound
  BY <1>1, WordsIndexedOnce, TextChunksMaximal DEF TranscriptIsSound
<1> QED  BY <1>1, TranscriptBegins, TranscriptStep, PTL DEF TranscriptionSpec
=============================================================================
