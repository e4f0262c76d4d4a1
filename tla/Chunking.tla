------------------------------ MODULE Chunking ------------------------------
(***************************************************************************)
(* Segmentation of an episode into audio chunks (chunking.py): the choice  *)
(* of the policy, the preparation of its input, the cut candidates of the  *)
(* three policies (legacy, community, native), the loop that cuts each     *)
(* selected region from left to right, and _validate_coverage at its end.  *)
(* Times are ticks; the scores of the native policy are counted in         *)
(* quarters of a second, of which a tick has QuartersPerTick.              *)
(***************************************************************************)
EXTENDS Computation, Timeline

CONSTANTS
  PreferredMin, Target, PreferredMax, HardMax,        \* every policy
  StrongGap, ShortGap, ChangeTolerance,               \* community
  OverlapMargin, MinimumChunk,                        \* community and native
  RelaxationStart, RelaxedCleanMax, QuartersPerTick   \* native

(* What the configurations refuse in __post_init__.  The thresholds of the *)
(* pauses and of the gaps carry one name here.                             *)
ASSUME PolicyAssumption ==
  /\ {PreferredMin, Target, PreferredMax, HardMax, StrongGap, ShortGap,
      ChangeTolerance, OverlapMargin, MinimumChunk, RelaxationStart,
      RelaxedCleanMax, QuartersPerTick} \subseteq Nat \ {0}
  /\ PreferredMin <= Target /\ Target <= PreferredMax
  /\ PreferredMax <= RelaxationStart /\ RelaxationStart <= RelaxedCleanMax
  /\ RelaxedCleanMax <= HardMax
  /\ ShortGap < StrongGap
  /\ MinimumChunk <= PreferredMin

Chunk(start, end, startReason, endReason, phase, conflict) ==
  [start |-> start, end |-> end, startReason |-> startReason,
   endReason |-> endReason, phase |-> phase, conflict |-> conflict]

Elements(seq) == {seq[i] : i \in DOMAIN seq}

-----------------------------------------------------------------------------
(* Which policy runs, and what it refuses before it cuts.                  *)

IsChunking == input.kind = "chunking"

UsesNative == input.algorithm = "native" \/ input.native # "absent"

UsesCommunity ==
  ~UsesNative /\ (input.algorithm = "community" \/ input.role = "standard_turns")

Policy ==
  IF UsesNative THEN "native" ELSE IF UsesCommunity THEN "community" ELSE "legacy"

RegionsAreValid ==
  /\ input.regions # {}
  /\ \A a, b \in input.regions : a # b => ~Intersect(a, b)

TurnsAreOrdered ==
  \A i \in 2..Len(input.turns) :
    LexLeq(<<input.turns[i - 1].start, input.turns[i - 1].end>>,
           <<input.turns[i].start, input.turns[i].end>>)

InputIsValid ==
  /\ RegionsAreValid
  /\ UsesNative =>
       /\ input.native = "snapshot"           \* not "obsolete" or "absent"
       /\ input.source = "same"
       /\ input.role = "standard_turns"
       /\ input.exclusive # <<>>
  /\ UsesCommunity =>
       /\ input.role = "standard_turns" \/ input.turns # <<>>
       /\ input.source = "same"
       /\ TurnsAreOrdered

-----------------------------------------------------------------------------
(* Candidates of the legacy policy: given boundaries and turn edges.       *)

LegacyBoundaries ==
  input.boundaries \union
  {[time |-> time, rank |-> 1, confidence |-> 0] :
     time \in UNION {{t.start, t.end} : t \in Elements(input.turns)}}

(* Candidates of the community policy.                                     *)

Conflicted(time, overlaps) ==
  \E o \in overlaps : time \in (o.start - OverlapMargin)..(o.end + OverlapMargin)

(* The speaker who ends (starts) at the edge of a gap; 0 when nobody does. *)
LastSpeaker(turns, time) ==
  LET ending == {t \in turns : t.end = time}
      Key(t) == <<-t.start, -t.speaker>>
  IN IF ending = {} THEN 0 ELSE LeastBy(ending, Key).speaker

FirstSpeaker(turns, time) ==
  LET starting == {t \in turns : t.start = time}
      Key(t) == <<t.end, t.speaker>>
  IN IF starting = {} THEN 0 ELSE LeastBy(starting, Key).speaker

SpeakersChange(turns, gap) ==
  LET before == LastSpeaker(turns, gap.start)
      after  == FirstSpeaker(turns, gap.end)
  IN before # 0 /\ after # 0 /\ before # after

GapReason(strong, change) ==
  CASE strong /\ change   -> "strong_gap_and_speaker_change"
    [] strong /\ ~change  -> "strong_gap"
    [] ~strong /\ change  -> "short_gap_and_speaker_change"
    [] ~strong /\ ~change -> "short_gap"

Priority ==
  [strong_gap_and_speaker_change |-> 1, strong_gap |-> 2, speaker_change |-> 3,
   short_gap_and_speaker_change |-> 4, short_gap |-> 5]

GapCandidates(turns, overlaps) ==
  {[time |-> Midpoint(g), conflict |-> Conflicted(Midpoint(g), overlaps),
    reason |-> GapReason(g.end - g.start >= StrongGap, SpeakersChange(turns, g))] :
     g \in {s \in Gaps(turns, input.duration) : s.end - s.start >= ShortGap}}

CleanChange(turns, overlaps, time) ==
  LET before == {t.speaker : t \in {u \in turns : u.start < time /\ time <= u.end}}
      after  == ActiveAt(turns, time)
  IN /\ Cardinality(before) = 1 /\ Cardinality(after) = 1 /\ before # after
     /\ ~Conflicted(time, overlaps)

ChangeCandidates(turns, overlaps) ==
  {[time |-> time, conflict |-> FALSE, reason |-> "speaker_change"] :
     time \in {t \in {(p[1].end + p[2].start) \div 2 :
                        p \in {q \in turns \X turns :
                                 /\ q[1].speaker # q[2].speaker
                                 /\ Distance(q[1].end, q[2].start) <= ChangeTolerance}} :
                CleanChange(turns, overlaps, t)}}

(* One candidate for each time, the one of the strongest class.            *)
CommunityBoundaries ==
  LET turns    == Elements(input.turns)
      overlaps == Overlaps(turns, input.duration)
      all      == GapCandidates(turns, overlaps) \union ChangeCandidates(turns, overlaps)
  IN {c \in all : \A d \in all : d.time = c.time => Priority[c.reason] <= Priority[d.reason]}

(* Candidates of the native policy.                                        *)

TurnKey(t) == <<t.start, t.end, t.speaker>>

(* The starts of exclusive turns whose predecessor is another speaker.     *)
Transitions(turns) ==
  {t.start : t \in {after \in turns :
     \E before \in turns :
       /\ before.speaker # after.speaker
       /\ LexLeq(TurnKey(before), TurnKey(after))
       /\ ~\E between \in turns \ {before, after} :
            /\ LexLeq(TurnKey(before), TurnKey(between))
            /\ LexLeq(TurnKey(between), TurnKey(after))}}

(* Adjustments of the score, in quarters of a second, and the order in     *)
(* which candidates at one time are preferred.                             *)
TypeAdjustment ==
  [strong_pause |-> -8, short_pause |-> -4, speaker_change |-> -6,
   strong_pause_and_speaker_change |-> -10, short_pause_and_speaker_change |-> -7]

TypePriority ==
  [strong_pause_and_speaker_change |-> 0, strong_pause |-> 1,
   short_pause_and_speaker_change |-> 2, speaker_change |-> 3, short_pause |-> 4]

PauseType(strong, change) ==
  CASE strong /\ change   -> "strong_pause_and_speaker_change"
    [] strong /\ ~change  -> "strong_pause"
    [] ~strong /\ change  -> "short_pause_and_speaker_change"
    [] ~strong /\ ~change -> "short_pause"

OverlapAdjustment(time) ==
  LET overlapped == {i \in Elements(input.activity) : i.count >= 2}
  IN CASE \E i \in overlapped : i.start <= time /\ time < i.end -> 6
       [] \E i \in overlapped : i.end > time - OverlapMargin
                             /\ i.start < time + OverlapMargin
                             /\ ~(\E k \in overlapped : k.start <= time /\ time < k.end) -> 3
       [] OTHER -> 0

NativeCandidates(start, regionEnd) ==
  LET reach == (start + PreferredMin)..Earlier(start + HardMax, regionEnd)
      changes == Transitions(Elements(input.exclusive))
      Near(times, time) == \E t \in times : Distance(t, time) <= OverlapMargin
      pauses == {i \in Elements(input.activity) :
                   i.count = 0 /\ i.end - i.start >= ShortGap /\ Midpoint(i) \in reach}
      pauseTimes == {Midpoint(i) : i \in pauses}
  IN IF start + Target >= regionEnd THEN {}
     ELSE {[time |-> Midpoint(i),
            type |-> PauseType(i.end - i.start >= StrongGap, Near(changes, Midpoint(i)))] :
             i \in pauses}
          \union {[time |-> t, type |-> "speaker_change"] :
                    t \in {c \in changes \intersect reach : ~Near(pauseTimes, c)}}

-----------------------------------------------------------------------------
(* The loop: work.todo are the regions not yet opened, work.region the one *)
(* being cut, work.start the end of what is cut of it.                     *)

ChunkingWork ==
  [phase |-> "given", todo |-> {}, region |-> [start |-> 0, end |-> 0],
   start |-> 0, candidates |-> {}, chunks |-> <<>>]

Prepare ==
  /\ IsChunking /\ work.phase = "given"
  /\ work' = IF InputIsValid
               THEN [work EXCEPT !.phase = "cutting", !.todo = input.regions,
                       !.candidates = CASE UsesNative    -> {}
                                        [] UsesCommunity -> CommunityBoundaries
                                        [] OTHER         -> LegacyBoundaries]
               ELSE [work EXCEPT !.phase = "rejected"]
  /\ UNCHANGED input

RegionIsDone == work.start = work.region.end

OpenRegion ==
  /\ IsChunking /\ work.phase = "cutting" /\ RegionIsDone
  /\ \E r \in work.todo :
       /\ \A other \in work.todo : r.start <= other.start
       /\ work' = [work EXCEPT !.todo = @ \ {r}, !.region = r, !.start = r.start]
  /\ UNCHANGED input

Cutting(policy) ==
  IsChunking /\ work.phase = "cutting" /\ ~RegionIsDone /\ Policy = policy

Remaining == work.region.end - work.start

(* A region has a chunk as soon as something of it is cut.                 *)
RegionHasChunk == work.start > work.region.start

StartReason ==
  IF RegionHasChunk THEN work.chunks[Len(work.chunks)].endReason ELSE "episode_start"

Cut(end, reason, phase, conflict) ==
  /\ work' = [work EXCEPT !.start = end,
                !.chunks = Append(@, Chunk(work.start, end, StartReason, reason,
                                           phase, conflict))]
  /\ UNCHANGED input

(* Mutants: a remainder merged whatever its chunk   *)
(* becomes, and one that may not fill the last chunk exactly.              *)
MergeableAnyway(minimum) == Remaining < minimum /\ RegionHasChunk

MergeableBelowMax(minimum) ==
  /\ Remaining < minimum
  /\ RegionHasChunk
  /\ work.region.end - work.chunks[Len(work.chunks)].start < HardMax

(* The remainder is too short for a chunk and fits into the last one.      *)
Mergeable(minimum) ==
  /\ Remaining < minimum
  /\ RegionHasChunk
  /\ work.region.end - work.chunks[Len(work.chunks)].start <= HardMax

MergeTail ==
  LET last == work.chunks[Len(work.chunks)]
  IN /\ work' = [work EXCEPT !.start = work.region.end,
                   !.chunks[Len(work.chunks)] =
                     Chunk(last.start, work.region.end, last.startReason,
                           "episode_end", last.phase, FALSE)]
     /\ UNCHANGED input

-----------------------------------------------------------------------------
(* _choose_boundary: the legacy policy records neither reason nor phase.   *)

LegacyEnd ==
  LET Viable(upper) ==
        {c \in work.candidates :
           /\ c.time \in (work.start + PreferredMin)..upper
           /\ c.time < work.region.end
           /\ work.region.end - c.time >= PreferredMin}
      Key(c) == <<c.rank, Distance(c.time, work.start + Target), -c.confidence, c.time>>
      preferred == Viable(work.start + PreferredMax)
      available == IF preferred # {} THEN preferred
                   ELSE Viable(Earlier(work.region.end, work.start + HardMax))
  IN IF available # {} THEN LeastBy(available, Key).time
     ELSE Earlier(work.start + HardMax, work.region.end - PreferredMin)

LegacyLast ==
  /\ Cutting("legacy") /\ Remaining <= HardMax
  /\ Cut(work.region.end, "none", "none", FALSE)

LegacyCut ==
  /\ Cutting("legacy") /\ Remaining > HardMax
  /\ Cut(LegacyEnd, "none", "none", FALSE)

-----------------------------------------------------------------------------
(* _select_community_boundary: clean candidates before conflicted ones,    *)
(* the preferred range before its extension up to the hard maximum.        *)

(* Mutant: conflicted candidates pass for clean.    *)
WithinAny(conflict, lower, upper) ==
  {c \in work.candidates : c.time \in lower..upper /\ c.time < work.region.end}

Within(conflict, lower, upper) ==
  {c \in work.candidates :
     c.conflict = conflict /\ c.time \in lower..upper /\ c.time < work.region.end}

Preferred(conflict) ==
  Within(conflict, work.start + PreferredMin, work.start + PreferredMax)

Extension(conflict) ==
  Within(conflict, work.start + PreferredMax + 1,
         Earlier(work.region.end, work.start + HardMax))

CutAt(c) == Cut(c.time, c.reason, "none", c.conflict)

CutPreferred(conflict) ==
  LET Key(c) == <<Priority[c.reason], Distance(c.time, work.start + Target), c.time>>
  IN Preferred(conflict) # {} /\ CutAt(LeastBy(Preferred(conflict), Key))

CutExtension(conflict) ==
  LET Key(c) == <<Priority[c.reason], c.time>>
  IN Extension(conflict) # {} /\ CutAt(LeastBy(Extension(conflict), Key))

CommunityMerge == Cutting("community") /\ Mergeable(PreferredMin) /\ MergeTail

CommunityLast ==
  /\ Cutting("community") /\ ~Mergeable(PreferredMin) /\ Remaining <= HardMax
  /\ Cut(work.region.end, "episode_end", "none", FALSE)

CommunityCut ==
  /\ Cutting("community") /\ Remaining > HardMax
  /\ IF Preferred(FALSE) # {} THEN CutPreferred(FALSE)
     ELSE IF Extension(FALSE) # {} THEN CutExtension(FALSE)
     ELSE IF Preferred(TRUE) # {} THEN CutPreferred(TRUE)
     ELSE IF Extension(TRUE) # {} THEN CutExtension(TRUE)
     ELSE Cut(work.start + HardMax, "hard_maximum", "none", FALSE)

-----------------------------------------------------------------------------
(* _select_native_candidate: the best score up to RelaxationStart, then    *)
(* the earliest candidate outside of overlaps, then the earliest.          *)

NativeCut(c, phase) == Cut(c.time, c.type, phase, OverlapAdjustment(c.time) > 0)

ScoreKey(c) ==
  LET distance == Distance(c.time, work.start + Target)
      overlap  == OverlapAdjustment(c.time)
      adjusted == TypeAdjustment[c.type] + overlap
  IN <<distance * QuartersPerTick + adjusted, distance, TypeAdjustment[c.type],
       overlap, c.time>>

EarliestKey(c) == <<c.time, TypePriority[c.type]>>

NativeMerge == Cutting("native") /\ Mergeable(MinimumChunk) /\ MergeTail

NativeLast ==
  /\ Cutting("native") /\ ~Mergeable(MinimumChunk) /\ Remaining <= Target
  /\ Cut(work.region.end, "episode_end", "preferred", FALSE)

NativeSelect ==
  /\ Cutting("native") /\ ~Mergeable(MinimumChunk) /\ Remaining > Target
  /\ LET candidates == NativeCandidates(work.start, work.region.end)
         preferred  == {c \in candidates : c.time <= work.start + RelaxationStart}
         clean      == {c \in candidates : c.time <= work.start + RelaxedCleanMax
                                           /\ OverlapAdjustment(c.time) <= 3}
     IN \/ preferred # {} /\ NativeCut(LeastBy(preferred, ScoreKey), "preferred")
        \/ /\ preferred = {} /\ clean # {}
           /\ NativeCut(LeastBy(clean, EarliestKey), "relaxed_clean")
        \/ /\ preferred = {} /\ clean = {} /\ candidates # {}
           /\ NativeCut(LeastBy(candidates, EarliestKey), "relaxed_any")
        \/ /\ candidates = {} /\ Remaining <= HardMax
           /\ Cut(work.region.end, "episode_end", "relaxed_any", FALSE)
        \/ /\ candidates = {} /\ Remaining > HardMax
           /\ Cut(work.start + HardMax, "hard_maximum", "hard_maximum", FALSE)

-----------------------------------------------------------------------------
(* _validate_coverage, which looks only at the chunks and the regions.     *)

(* The positions of a region's chunks.                                     *)
ChunksOf(r) ==
  {i \in DOMAIN work.chunks : r.start <= work.chunks[i].start /\ work.chunks[i].end <= r.end}

CoversRegion(r) ==
  LET own == ChunksOf(r)
      Follows(i, j) == i < j /\ \A k \in own : k <= i \/ j <= k
  IN /\ own # {}
     /\ \A i \in own :
          /\ (\A k \in own : i <= k) => work.chunks[i].start = r.start
          /\ (\A k \in own : k <= i) => work.chunks[i].end = r.end
          /\ \A j \in own : Follows(i, j) => work.chunks[j].start = work.chunks[i].end
          /\ work.chunks[i].start < work.chunks[i].end
          /\ work.chunks[i].end - work.chunks[i].start <= HardMax

CoverageIsComplete ==
  /\ \A r \in input.regions : CoversRegion(r)
  /\ \A i \in DOMAIN work.chunks :
       \E r \in input.regions :
         r.start <= work.chunks[i].start /\ work.chunks[i].end <= r.end

Validate ==
  /\ IsChunking /\ work.phase = "cutting" /\ RegionIsDone /\ work.todo = {}
  /\ work' = [work EXCEPT !.phase = IF CoverageIsComplete THEN "published" ELSE "refused"]
  /\ UNCHANGED input

ChunkingNext ==
  \/ Prepare
  \/ OpenRegion
  \/ LegacyLast
  \/ LegacyCut
  \/ CommunityMerge
  \/ CommunityLast
  \/ CommunityCut
  \/ NativeMerge
  \/ NativeLast
  \/ NativeSelect
  \/ Validate

(* What the checks of regions, boundaries, turns and activity let through: *)
(* intervals of the episode that are not empty, activity without overlap.  *)
ChunkingInput ==
  LET Turn == [speaker : Nat \ {0}, start : Nat, end : Nat]
  IN {i \in [kind : {"chunking"}, algorithm : STRING, role : STRING, native : STRING,
             source : STRING, duration : Nat, turns : Seq(Turn), exclusive : Seq(Turn),
             boundaries : SUBSET [time : Nat, rank : Nat, confidence : Nat],
             activity : Seq([start : Nat, end : Nat, count : Nat]),
             regions : SUBSET [start : Nat, end : Nat]] :
       /\ IsFiniteSet(i.boundaries)
       /\ \A x \in Elements(i.turns) \union Elements(i.exclusive) \union Elements(i.activity)
                \union i.regions : x.start < x.end /\ x.end <= i.duration
       /\ \A a, b \in Elements(i.activity) : a # b => ~Intersect(a, b)}

ChunkingSpec == input \in ChunkingInput /\ work = ChunkingWork /\ [][ChunkingNext]_computation

-----------------------------------------------------------------------------
(* Properties *)

(* Whatever the turns and the regions are, the loop of every policy cuts   *)
(* what its own validator accepts: the regions are covered without gap or  *)
(* overlap by chunks of at most HardMax, so segmentation of a valid input  *)
(* never fails at its end (chunking.py:1067).                              *)
SegmentationIsAccepted == IsChunking => work.phase # "refused"

(* A chunk below the policy's minimum is only ever the last of its region, *)
(* and then the first as well or one whose predecessor had no room left    *)
(* for it; the legacy policy has others only if HardMax < 2 * PreferredMin *)
(* (chunking.py:854, 1007, 1806).                                          *)
OnlyTailIsShort ==
  IsChunking /\ work.phase = "published" =>
    \A i \in DOMAIN work.chunks :
      LET c     == work.chunks[i]
          least == IF UsesNative THEN MinimumChunk ELSE PreferredMin
          isFirst == \E r \in input.regions : c.start = r.start
          isLast  == \E r \in input.regions : c.end = r.end
      IN c.end - c.start < least =>
           \/ isFirst /\ isLast
           \/ /\ Policy # "legacy" /\ isLast /\ ~isFirst
              /\ c.end - work.chunks[i - 1].start > HardMax
           \/ Policy = "legacy" /\ HardMax < 2 * PreferredMin

(* Every policy cuts all of a valid input into chunks of legal length, the *)
(* short ones only where there was no other way (chunking.py:1067, 1007).  *)
SegmentationIsSound == SegmentationIsAccepted /\ OnlyTailIsShort

(* The silences a cut could use, and whether it would be near an overlap.  *)
Pauses ==
  IF UsesNative
  THEN {Midpoint(i) : i \in {k \in Elements(input.activity) :
                                k.count = 0 /\ k.end - k.start >= ShortGap}}
  ELSE {Midpoint(g) : g \in {k \in Gaps(Elements(input.turns), input.duration) :
                                k.end - k.start >= ShortGap}}

CleanPauses ==
  {p \in Pauses : ~Conflicted(p, Overlaps(Elements(input.turns), input.duration))}

(* A bad cut is the last resort: a cut at the hard maximum only when no    *)
(* silence lies between PreferredMin and HardMax, a community cut near an  *)
(* overlap only when no clean silence does, a native cut in an overlap     *)
(* beyond the preferred range only when its region has none up to          *)
(* RelaxedCleanMax (chunking.py:863, 1625).                                *)
BadCutIsLastResort ==
  IsChunking /\ work.phase = "published" /\ Policy # "legacy" =>
    \A i \in DOMAIN work.chunks :
      LET c == work.chunks[i]
          None(pauses, limit) ==
            \A p \in pauses : p \notin (c.start + PreferredMin)..(c.start + limit)
      IN /\ c.endReason = "hard_maximum" => None(Pauses, HardMax)
         /\ Policy = "community" /\ c.conflict => None(CleanPauses, HardMax)
         /\ c.phase = "relaxed_any" /\ c.endReason # "episode_end" =>
              \A r \in {q \in input.regions : q.start <= c.start /\ c.end <= q.end} :
                None({p \in Pauses : p <= r.end}, RelaxedCleanMax)

(* What the documentation says of the community policy: a change of        *)
(* speaker across a silence of up to ChangeTolerance is a place to cut.    *)
(* (docs/p1r-chunk-segmentation.md:22, chunking.py:743)                    *)
NearContiguousChangeIsCandidate ==
  IsChunking /\ work.phase = "cutting" /\ Policy = "community" =>
    \A g \in Gaps(Elements(input.turns), input.duration) :
      LET turns == Elements(input.turns)
      IN /\ g.end - g.start <= ChangeTolerance
         /\ SpeakersChange(turns, g)
         /\ ~Conflicted(Midpoint(g), Overlaps(turns, input.duration))
         => \E c \in work.candidates : c.time \in g.start..g.end
=============================================================================
