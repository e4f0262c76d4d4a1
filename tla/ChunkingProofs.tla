--------------------------- MODULE ChunkingProofs ---------------------------
(***************************************************************************)
(* What segmentation promises for every input and all limits in order: the *)
(* loop of every policy cuts what its own validator accepts, a chunk below *)
(* the minimum is a tail, and a bad cut is the last resort.                *)
(*                                                                         *)
(* The properties speak of the published chunks.  Segmented is what every  *)
(* step keeps: the regions opened so far are covered up to work.start      *)
(* (Shape), each chunk is judged when it is cut (Judged), and the legacy   *)
(* policy leaves enough of a region for one more chunk (SoFar).  Judging a *)
(* cut needs the candidates of its policy: the least key of a finite set   *)
(* exists (LeastKey), and every usable silence is a candidate.             *)
(***************************************************************************)
EXTENDS Chunking, ComputationProofs

-----------------------------------------------------------------------------
(*                  There are finitely many candidates                     *)

LEMMA FiveFinite ==
  ASSUME NEW a, NEW b, NEW c, NEW d, NEW e
  PROVE  IsFiniteSet({a, b, c, d, e})
<1>1. IsFiniteSet({a}) /\ IsFiniteSet({b}) /\ IsFiniteSet({c}) /\ IsFiniteSet({d})
      /\ IsFiniteSet({e})
  BY FS_Singleton
<1>2. IsFiniteSet({a} \cup {b}) /\ IsFiniteSet({c} \cup {d})
  BY <1>1, FS_Union
<1>3. IsFiniteSet(({a} \cup {b}) \cup ({c} \cup {d}))
  BY <1>2, FS_Union
<1>4. IsFiniteSet((({a} \cup {b}) \cup ({c} \cup {d})) \cup {e})
  BY <1>1, <1>3, FS_Union
<1>5. {a, b, c, d, e} = (({a} \cup {b}) \cup ({c} \cup {d})) \cup {e}
  OBVIOUS
<1> QED  BY <1>4, <1>5

LEMMA PairsFinite ==
  ASSUME NEW S, NEW A, NEW B, IsFiniteSet(A), IsFiniteSet(B),
         NEW f \in [S -> A \X B], \A x, y \in S : f[x] = f[y] => x = y
  PROVE  IsFiniteSet(S)
<1>1. IsFiniteSet(A \X B)
  BY FS_Product
<1>2. f \in Injection(S, A \X B)
  BY Zenon DEF Injection, IsInjective
<1> QED  BY <1>1, <1>2, FS_Injection, Zenon

CommunityCandidate == [time : Int, conflict : BOOLEAN, reason : DOMAIN Priority]

LEMMA CommunityFinite ==
  ASSUME NEW S \in SUBSET CommunityCandidate, NEW low \in Int, NEW high \in Int,
         \A c \in S : c.time \in low..high
  PROVE  IsFiniteSet(S)
<1> DEFINE times == low..high
           reasons == DOMAIN Priority
           f == [c \in S |-> <<c.time, <<c.conflict, c.reason>>>>]
<1>1. IsFiniteSet(times)
  BY FS_Interval
<1>2. reasons = {"strong_gap_and_speaker_change", "strong_gap", "speaker_change",
                 "short_gap_and_speaker_change", "short_gap"}
  BY DEF Priority
<1>3. IsFiniteSet(reasons)
  <2> HIDE DEF reasons
  <2> QED  BY <1>2, FiveFinite
<1>4. IsFiniteSet(BOOLEAN)
  <2>1. IsFiniteSet({TRUE}) /\ IsFiniteSet({FALSE})
    BY FS_Singleton
  <2>2. IsFiniteSet({TRUE} \cup {FALSE}) /\ BOOLEAN = {TRUE} \cup {FALSE}
    BY <2>1, FS_Union
  <2> QED  BY <2>2
<1>5. IsFiniteSet(BOOLEAN \X reasons)
  <2> HIDE DEF reasons
  <2> QED  BY <1>3, <1>4, FS_Product
<1>6. \A c \in S : c.time \in times /\ c.conflict \in BOOLEAN /\ c.reason \in reasons
  BY DEF CommunityCandidate
<1>7. f \in [S -> times \X (BOOLEAN \X reasons)]
  <2> HIDE DEF times, reasons
  <2> QED  BY <1>6
<1>8. \A x, y \in S : f[x] = f[y] => x = y
  BY DEF CommunityCandidate
<1> HIDE DEF f, times, reasons
<1> QED  BY <1>1, <1>5, <1>7, <1>8, PairsFinite

NativeCandidate == [time : Int, type : DOMAIN TypePriority]

LEMMA NativeFinite ==
  ASSUME NEW S \in SUBSET NativeCandidate, NEW low \in Int, NEW high \in Int,
         \A c \in S : c.time \in low..high
  PROVE  IsFiniteSet(S)
<1> DEFINE times == low..high
           types == DOMAIN TypePriority
           f == [c \in S |-> <<c.time, c.type>>]
<1>1. IsFiniteSet(times)
  BY FS_Interval
<1>2. types = {"strong_pause_and_speaker_change", "strong_pause",
               "short_pause_and_speaker_change", "speaker_change", "short_pause"}
  BY DEF TypePriority
<1>3. IsFiniteSet(types)
  <2> HIDE DEF types
  <2> QED  BY <1>2, FiveFinite
<1>4. \A c \in S : c.time \in times /\ c.type \in types
  BY DEF NativeCandidate
<1>5. f \in [S -> times \X types]
  <2> HIDE DEF times, types
  <2> QED  BY <1>4
<1>6. \A x, y \in S : f[x] = f[y] => x = y
  BY DEF NativeCandidate
<1> HIDE DEF f, times, types
<1> QED  BY <1>1, <1>3, <1>5, <1>6, PairsFinite

LegacyCandidate == [time : Int, rank : Int, confidence : Int]

LEMMA LegacyFinite ==
  ASSUME NEW B, IsFiniteSet(B), NEW S \in SUBSET LegacyCandidate,
         NEW low \in Int, NEW high \in Int,
         \A c \in S : c.time \in low..high,
         \A c \in S : c \in B \/ (c.rank = 1 /\ c.confidence = 0)
  PROVE  IsFiniteSet(S)
<1> DEFINE times == low..high
           edges == {c \in S : c \notin B}
           given == {c \in S : c \in B}
           f == [c \in edges |-> <<c.time, 1>>]
<1>1. IsFiniteSet(times) /\ IsFiniteSet({1})
  BY FS_Interval, FS_Singleton
<1>2. f \in [edges -> times \X {1}]
  <2> HIDE DEF times
  <2> QED  BY DEF times
<1>3. \A x, y \in edges : f[x] = f[y] => x = y
  BY DEF LegacyCandidate
<1>4. IsFiniteSet(edges)
  <2> HIDE DEF f, times, edges
  <2> QED  BY <1>1, <1>2, <1>3, PairsFinite
<1>5. given \in SUBSET B
  OBVIOUS
<1>6. IsFiniteSet(given)
  <2> HIDE DEF given
  <2> QED  BY <1>5, FS_Subset
<1>7. S = given \cup edges
  OBVIOUS
<1> HIDE DEF edges, given
<1> QED  BY <1>4, <1>6, <1>7, FS_Union

LEMMA LimitsOrdered ==
  /\ {PreferredMin, Target, PreferredMax, HardMax, StrongGap, ShortGap,
      ChangeTolerance, OverlapMargin, MinimumChunk, RelaxationStart,
      RelaxedCleanMax, QuartersPerTick} \subseteq Nat \ {0}
  /\ PreferredMin <= Target /\ Target <= PreferredMax
  /\ PreferredMax <= RelaxationStart /\ RelaxationStart <= RelaxedCleanMax
  /\ RelaxedCleanMax <= HardMax
  /\ MinimumChunk <= PreferredMin
BY PolicyAssumption

LEMMA ChunkingInputIs ==
  ASSUME input \in ChunkingInput
  PROVE  /\ input.kind = "chunking" /\ input.duration \in Nat
         /\ \A r \in input.regions :
              /\ r.start \in Nat /\ r.end \in Nat /\ r.start < r.end
              /\ r = [start |-> r.start, end |-> r.end]
         /\ \A t \in Elements(input.turns) \union Elements(input.exclusive) :
              /\ t.start \in Nat /\ t.end \in Nat /\ t.start < t.end
              /\ t.speaker \in Nat /\ t.speaker # 0
         /\ \A i \in Elements(input.activity) :
              i.start \in Nat /\ i.end \in Nat /\ i.count \in Nat /\ i.start < i.end
         /\ \A a, b \in Elements(input.activity) : a # b => ~Intersect(a, b)
         /\ IsFiniteSet(input.boundaries)
         /\ \A b \in input.boundaries : b \in [time : Nat, rank : Nat, confidence : Nat]
<1>1. /\ input.kind = "chunking" /\ input.duration \in Nat
      /\ input.turns \in Seq([speaker : Nat \ {0}, start : Nat, end : Nat])
      /\ input.exclusive \in Seq([speaker : Nat \ {0}, start : Nat, end : Nat])
      /\ input.activity \in Seq([start : Nat, end : Nat, count : Nat])
      /\ input.boundaries \in SUBSET [time : Nat, rank : Nat, confidence : Nat]
      /\ input.regions \in SUBSET [start : Nat, end : Nat]
      /\ IsFiniteSet(input.boundaries)
      /\ \A x \in Elements(input.turns) \union Elements(input.exclusive)
                \union Elements(input.activity) \union input.regions :
           x.start < x.end /\ x.end <= input.duration
      /\ \A a, b \in Elements(input.activity) : a # b => ~Intersect(a, b)
  BY DEF ChunkingInput
<1>2. \A S : \A seq \in Seq(S) : Elements(seq) \subseteq S
  BY DEF Elements
<1>3. /\ Elements(input.turns) \subseteq [speaker : Nat \ {0}, start : Nat, end : Nat]
      /\ Elements(input.exclusive) \subseteq [speaker : Nat \ {0}, start : Nat, end : Nat]
      /\ Elements(input.activity) \subseteq [start : Nat, end : Nat, count : Nat]
  BY <1>1, <1>2, Zenon
<1> QED  BY <1>1, <1>3

-----------------------------------------------------------------------------
(*                         The legacy policy                               *)

LEMMA LegacyBoundaryIs ==
  ASSUME input \in ChunkingInput, NEW c \in LegacyBoundaries
  PROVE  c \in LegacyCandidate /\ (c \in input.boundaries \/ (c.rank = 1 /\ c.confidence = 0))
<1>1. CASE c \in input.boundaries
  BY <1>1, ChunkingInputIs DEF LegacyCandidate
<1>2. CASE c \notin input.boundaries
  <2> DEFINE edges == UNION {{t.start, t.end} : t \in Elements(input.turns)}
  <2>1. \A time \in edges : time \in Nat
    BY ChunkingInputIs
  <2>2. PICK time \in edges : c = [time |-> time, rank |-> 1, confidence |-> 0]
    BY <1>2 DEF LegacyBoundaries
  <2> HIDE DEF edges
  <2> QED  BY <2>1, <2>2 DEF LegacyCandidate
<1> QED  BY <1>1, <1>2

LEMMA LegacyEndIs ==
  ASSUME input \in ChunkingInput, work.candidates = LegacyBoundaries,
         work.start \in Int, work.region.end \in Int, Remaining > HardMax
  PROVE  /\ LegacyEnd \in Int /\ work.start < LegacyEnd /\ LegacyEnd - work.start <= HardMax
         /\ work.region.end - LegacyEnd >= PreferredMin
         /\ LegacyEnd - work.start >= PreferredMin \/ HardMax < 2 * PreferredMin
<1> DEFINE Viable(upper) ==
             {c \in work.candidates :
                /\ c.time \in (work.start + PreferredMin)..upper
                /\ c.time < work.region.end
                /\ work.region.end - c.time >= PreferredMin}
           Key(c) == <<c.rank, Distance(c.time, work.start + Target), -c.confidence, c.time>>
           preferred == Viable(work.start + PreferredMax)
           available == IF preferred # {} THEN preferred
                        ELSE Viable(Earlier(work.region.end, work.start + HardMax))
<1>1. LegacyEnd = IF available # {} THEN LeastBy(available, Key).time
                  ELSE Earlier(work.start + HardMax, work.region.end - PreferredMin)
  BY Zenon DEF LegacyEnd
<1>2. \A c \in available :
        /\ c \in LegacyBoundaries /\ c.time \in Int
        /\ work.start + PreferredMin <= c.time /\ c.time <= work.start + HardMax
        /\ work.region.end - c.time >= PreferredMin
  BY LegacyBoundaryIs, LimitsOrdered DEF Earlier, LegacyCandidate
<1>3. CASE available # {}
  <2>1. PICK low \in Int, high \in Int :
          low = work.start + PreferredMin /\ high = work.start + HardMax
    BY LimitsOrdered
  <2>2. \A c \in available : /\ c \in LegacyCandidate /\ c.time \in low..high
                             /\ c \in input.boundaries \/ (c.rank = 1 /\ c.confidence = 0)
    <3> HIDE DEF available
    <3> QED  BY <1>2, <2>1, LegacyBoundaryIs
  <2>3. IsFiniteSet(available)
    <3>1. available \in SUBSET LegacyCandidate
      <4> HIDE DEF available
      <4> QED  BY <2>2
    <3> HIDE DEF available
    <3> QED  BY <2>2, <3>1, ChunkingInputIs, LegacyFinite
  <2> DEFINE key == [c \in available |-> Key(c)]
  <2>4. \A c \in LegacyCandidate : Key(c) \in [1..4 -> Int]
    BY LimitsOrdered DEF LegacyCandidate, Distance
  <2>5. key \in [available -> [1..4 -> Int]]
    <3> HIDE DEF available, Key
    <3> QED  BY <2>2, <2>4
  <2>6. PICK x \in available : \A y \in available : LexLeq(key[x], key[y])
    <3> HIDE DEF available, key
    <3> QED  BY <1>3, <2>3, <2>5, LeastKey
  <2>7. LeastBy(available, Key) \in available
    <3> HIDE DEF available, Key
    <3>1. \A y \in available : LexLeq(Key(x), Key(y))
      BY <2>6
    <3> QED  BY <2>6, <3>1, Zenon DEF LeastBy
  <2> HIDE DEF available, Key, key
  <2>8. PICK c \in available : LegacyEnd = c.time
    BY <1>1, <1>3, <2>7
  <2> QED  BY <1>2, <2>8, LimitsOrdered
<1>4. CASE available = {}
  <2>1. LegacyEnd = Earlier(work.start + HardMax, work.region.end - PreferredMin)
    <3> HIDE DEF available
    <3> QED  BY <1>1, <1>4
  <2> QED  BY <2>1, LimitsOrdered DEF Remaining, Earlier
<1> QED  BY <1>3, <1>4

-----------------------------------------------------------------------------
(*                       The community policy                              *)

Reasons == DOMAIN Priority

LEMMA ReasonsAre ==
  Reasons = {"strong_gap_and_speaker_change", "strong_gap", "speaker_change",
             "short_gap_and_speaker_change", "short_gap"}
BY DEF Reasons, Priority

LEMMA GapIs ==
  ASSUME input \in ChunkingInput, NEW g \in Gaps(Elements(input.turns), input.duration)
  PROVE  g.start \in Int /\ g.end \in Int /\ g.start < g.end /\ Midpoint(g) \in Int
<1> DEFINE edges == Edges(Elements(input.turns), input.duration)
<1>1. edges \subseteq Int
  BY ChunkingInputIs DEF Edges
<1>2. g \in [start : edges, end : edges] /\ g.start < g.end
  BY DEF Gaps, Segments
<1>3. g.start \in Int /\ g.end \in Int
  <2> HIDE DEF edges
  <2> QED  BY <1>1, <1>2
<1>4. Midpoint(g) \in Int
  BY <1>3 DEF Midpoint
<1> QED  BY <1>2, <1>3, <1>4

LEMMA GapReasonIs ==
  ASSUME NEW strong \in BOOLEAN, NEW change \in BOOLEAN
  PROVE  GapReason(strong, change) \in Reasons
BY ReasonsAre DEF GapReason

LEMMA ChangeTimes ==
  ASSUME input \in ChunkingInput, NEW overlaps,
         NEW c \in ChangeCandidates(Elements(input.turns), overlaps)
  PROVE  c.time \in Int /\ c.conflict = FALSE /\ c.reason = "speaker_change"
         /\ c = [time |-> c.time, conflict |-> c.conflict, reason |-> c.reason]
<1> DEFINE turns == Elements(input.turns)
           pairs == {q \in turns \X turns :
                       /\ q[1].speaker # q[2].speaker
                       /\ Distance(q[1].end, q[2].start) <= ChangeTolerance}
           times == {(p[1].end + p[2].start) \div 2 : p \in pairs}
<1>1. \A p \in pairs : (p[1].end + p[2].start) \div 2 \in Int
  BY ChunkingInputIs
<1>2. times \subseteq Int
  <2> HIDE DEF pairs
  <2> QED  BY <1>1
<1>3. PICK time \in {t \in times : CleanChange(turns, overlaps, t)} :
        c = [time |-> time, conflict |-> FALSE, reason |-> "speaker_change"]
  BY Zenon DEF ChangeCandidates
<1> HIDE DEF times
<1> QED  BY <1>2, <1>3

(* All of the candidates before one is kept for each time.                 *)
AllCandidates ==
  LET turns    == Elements(input.turns)
      overlaps == Overlaps(turns, input.duration)
  IN GapCandidates(turns, overlaps) \union ChangeCandidates(turns, overlaps)

LEMMA CommunityAre ==
  CommunityBoundaries =
    {c \in AllCandidates : \A d \in AllCandidates :
       d.time = c.time => Priority[c.reason] <= Priority[d.reason]}
BY Zenon DEF CommunityBoundaries, AllCandidates

LEMMA CandidateTypes ==
  ASSUME input \in ChunkingInput, NEW c \in AllCandidates
  PROVE  c \in CommunityCandidate /\ c.reason \in Reasons /\ Priority[c.reason] \in Nat
<1> DEFINE turns == Elements(input.turns)
           overlaps == Overlaps(turns, input.duration)
<1>1. CASE c \in GapCandidates(turns, overlaps)
  <2>1. PICK g \in Gaps(turns, input.duration) :
          c = [time |-> Midpoint(g), conflict |-> Conflicted(Midpoint(g), overlaps),
               reason |-> GapReason(g.end - g.start >= StrongGap, SpeakersChange(turns, g))]
    BY <1>1, Zenon DEF GapCandidates
  <2>2. Midpoint(g) \in Int /\ Conflicted(Midpoint(g), overlaps) \in BOOLEAN
    BY GapIs DEF Conflicted
  <2>3. (g.end - g.start >= StrongGap) \in BOOLEAN /\ SpeakersChange(turns, g) \in BOOLEAN
    BY DEF SpeakersChange
  <2>4. GapReason(g.end - g.start >= StrongGap, SpeakersChange(turns, g)) \in Reasons
    BY <2>3, GapReasonIs
  <2> HIDE DEF turns, overlaps
  <2>5. c \in CommunityCandidate /\ c.reason \in Reasons
    BY <2>1, <2>2, <2>4 DEF CommunityCandidate, Reasons
  <2> QED  BY <2>5, ReasonsAre DEF Priority
<1>2. CASE c \in ChangeCandidates(turns, overlaps)
  <2>1. c.time \in Int /\ c.conflict = FALSE /\ c.reason = "speaker_change"
         /\ c = [time |-> c.time, conflict |-> c.conflict, reason |-> c.reason]
    BY <1>2, ChangeTimes
  <2>2. c.reason \in Reasons
    BY <2>1, ReasonsAre
  <2>3. c.conflict \in BOOLEAN
    BY <2>1
  <2>4. c \in CommunityCandidate
    BY <2>1, <2>2, <2>3 DEF CommunityCandidate, Reasons
  <2> QED  BY <2>1, <2>2, <2>4 DEF Priority
<1>3. c \in GapCandidates(turns, overlaps) \/ c \in ChangeCandidates(turns, overlaps)
  BY Zenon DEF AllCandidates
<1> QED  BY <1>1, <1>2, <1>3

(* Every time with a candidate keeps one.                                  *)
LEMMA TimesKept ==
  ASSUME input \in ChunkingInput, NEW c \in AllCandidates
  PROVE  \E k \in CommunityBoundaries : k.time = c.time
<1> DEFINE ranks == {Priority[d.reason] : d \in {e \in AllCandidates : e.time = c.time}}
<1>1. ranks \in SUBSET Nat /\ Priority[c.reason] \in ranks
  BY CandidateTypes
<1>2. PICK n \in ranks : \A m \in ranks : n <= m
  <2> HIDE DEF ranks
  <2> QED  BY <1>1, LeastOf
<1>3. PICK k \in AllCandidates : k.time = c.time /\ Priority[k.reason] = n
  OBVIOUS
<1>4. \A d \in AllCandidates : d.time = k.time => Priority[k.reason] <= Priority[d.reason]
  BY <1>2, <1>3
<1> QED  BY <1>3, <1>4, CommunityAre

LEMMA PolicyIs ==
  /\ Policy = "native" <=> UsesNative
  /\ Policy \in {"native", "community", "legacy"}
  /\ UsesNative \in BOOLEAN /\ UsesCommunity \in BOOLEAN
BY DEF Policy, UsesNative, UsesCommunity

(* No pause lies between PreferredMin and the limit after the start.       *)
NoneOf(pauses, limit) ==
  \A p \in pauses : p \notin (work.start + PreferredMin)..(work.start + limit)

(* A silence that is long enough is a candidate, and a clean one if it is. *)
LEMMA PauseIsCandidate ==
  ASSUME input \in ChunkingInput, ~UsesNative, NEW p \in Pauses
  PROVE  /\ \E c \in CommunityBoundaries : c.time = p
         /\ p \in CleanPauses => \E c \in CommunityBoundaries : c.time = p /\ c.conflict = FALSE
<1> DEFINE turns == Elements(input.turns)
           overlaps == Overlaps(turns, input.duration)
<1>1. PICK g \in Gaps(turns, input.duration) : g.end - g.start >= ShortGap /\ p = Midpoint(g)
  BY DEF Pauses
<1>2. PICK c : c = [time |-> Midpoint(g), conflict |-> Conflicted(Midpoint(g), overlaps),
                    reason |-> GapReason(g.end - g.start >= StrongGap, SpeakersChange(turns, g))]
  OBVIOUS
<1>3. c \in GapCandidates(turns, overlaps)
  BY <1>1, <1>2, Zenon DEF GapCandidates
<1>4. c \in AllCandidates /\ c.time = p
  BY <1>1, <1>2, <1>3, Zenon DEF AllCandidates
<1>5. PICK k \in CommunityBoundaries : k.time = p
  BY <1>4, TimesKept
<1>6. ASSUME p \in CleanPauses PROVE k.conflict = FALSE
  <2>1. ~Conflicted(p, overlaps)
    BY <1>6 DEF CleanPauses
  <2>2. k \in AllCandidates
    BY CommunityAre
  <2>3. CASE k \in GapCandidates(turns, overlaps)
    <3>1. PICK h \in Gaps(turns, input.duration) :
            k = [time |-> Midpoint(h), conflict |-> Conflicted(Midpoint(h), overlaps),
                 reason |-> GapReason(h.end - h.start >= StrongGap, SpeakersChange(turns, h))]
      BY <2>3, Zenon DEF GapCandidates
    <3>2. Midpoint(h) = p /\ k.conflict = Conflicted(Midpoint(h), overlaps)
      BY <1>5, <3>1
    <3>3. Conflicted(Midpoint(h), overlaps) \in BOOLEAN
      BY DEF Conflicted
    <3> HIDE DEF turns, overlaps
    <3> QED  BY <2>1, <3>2, <3>3
  <2>4. CASE k \in ChangeCandidates(turns, overlaps)
    BY <2>4, ChangeTimes
  <2>5. k \in GapCandidates(turns, overlaps) \/ k \in ChangeCandidates(turns, overlaps)
    BY <2>2, Zenon DEF AllCandidates
  <2> QED  BY <2>3, <2>4, <2>5
<1> QED  BY <1>5, <1>6

LEMMA WithinTypes ==
  ASSUME input \in ChunkingInput, work.candidates = CommunityBoundaries, NEW conflict,
         work.start \in Int, work.region.end \in Int,
         NEW S, S = Preferred(conflict) \/ S = Extension(conflict)
  PROVE  /\ S \in SUBSET CommunityCandidate /\ IsFiniteSet(S)
         /\ \A c \in S : /\ c \in AllCandidates /\ c.conflict = conflict
                         /\ work.start + PreferredMin <= c.time /\ c.time <= work.start + HardMax
                         /\ c.time < work.region.end
<1>1. \A c \in CommunityBoundaries :
        c \in AllCandidates /\ c \in CommunityCandidate /\ c.time \in Int
  BY CommunityAre, CandidateTypes DEF CommunityCandidate
<1>2. PICK low \in Int, high \in Int :
        low = work.start + PreferredMin /\ high = work.start + HardMax
  BY LimitsOrdered
<1>3. \A c \in S : /\ c \in CommunityBoundaries /\ c.conflict = conflict
                   /\ low <= c.time /\ c.time <= high /\ c.time < work.region.end
  BY <1>1, <1>2, LimitsOrdered DEF Preferred, Extension, Within, Earlier
<1>4. S \in SUBSET CommunityCandidate /\ \A c \in S : c.time \in low..high
  BY <1>1, <1>3
<1>5. IsFiniteSet(S)
  BY <1>4, CommunityFinite
<1> QED  BY <1>1, <1>2, <1>3, <1>4, <1>5

LEMMA PreferredChoice ==
  ASSUME input \in ChunkingInput, work.candidates = CommunityBoundaries, NEW conflict,
         work.start \in Int, work.region.end \in Int, CutPreferred(conflict)
  PROVE  \E c \in Preferred(conflict) : CutAt(c)
<1> DEFINE Key(c) == <<Priority[c.reason], Distance(c.time, work.start + Target), c.time>>
           key == [c \in Preferred(conflict) |-> Key(c)]
<1>1. Preferred(conflict) # {} /\ CutAt(LeastBy(Preferred(conflict), Key))
  BY Zenon DEF CutPreferred
<1>2. IsFiniteSet(Preferred(conflict))
      /\ \A c \in Preferred(conflict) : c \in AllCandidates /\ c \in CommunityCandidate
  BY WithinTypes
<1>3. \A c \in Preferred(conflict) : Key(c) \in [1..3 -> Int]
  BY <1>2, CandidateTypes, LimitsOrdered DEF Distance, CommunityCandidate
<1> HIDE DEF Key
<1>4. PICK x \in Preferred(conflict) : \A y \in Preferred(conflict) : LexLeq(key[x], key[y])
  <2>1. key \in [Preferred(conflict) -> [1..3 -> Int]]
    BY <1>3
  <2> HIDE DEF key
  <2> QED  BY <1>1, <1>2, <2>1, LeastKey
<1>5. \A y \in Preferred(conflict) : LexLeq(Key(x), Key(y))
  BY <1>4
<1>6. LeastBy(Preferred(conflict), Key) \in Preferred(conflict)
  BY <1>4, <1>5, Zenon DEF LeastBy
<1> QED  BY <1>1, <1>6, Zenon

LEMMA ExtensionChoice ==
  ASSUME input \in ChunkingInput, work.candidates = CommunityBoundaries, NEW conflict,
         work.start \in Int, work.region.end \in Int, CutExtension(conflict)
  PROVE  \E c \in Extension(conflict) : CutAt(c)
<1> DEFINE Key(c) == <<Priority[c.reason], c.time>>
           key == [c \in Extension(conflict) |-> Key(c)]
<1>1. Extension(conflict) # {} /\ CutAt(LeastBy(Extension(conflict), Key))
  BY Zenon DEF CutExtension
<1>2. IsFiniteSet(Extension(conflict))
      /\ \A c \in Extension(conflict) : c \in AllCandidates /\ c \in CommunityCandidate
  BY WithinTypes
<1>3. \A c \in Extension(conflict) : Key(c) \in [1..2 -> Int]
  BY <1>2, CandidateTypes DEF CommunityCandidate
<1> HIDE DEF Key
<1>4. PICK x \in Extension(conflict) : \A y \in Extension(conflict) : LexLeq(key[x], key[y])
  <2>1. key \in [Extension(conflict) -> [1..2 -> Int]]
    BY <1>3
  <2> HIDE DEF key
  <2> QED  BY <1>1, <1>2, <2>1, LeastKey
<1>5. \A y \in Extension(conflict) : LexLeq(Key(x), Key(y))
  BY <1>4
<1>6. LeastBy(Extension(conflict), Key) \in Extension(conflict)
  BY <1>4, <1>5, Zenon DEF LeastBy
<1> QED  BY <1>1, <1>6, Zenon

(* What a cut of the community policy gives.                               *)
LEMMA CommunityCutIs ==
  ASSUME input \in ChunkingInput, ~UsesNative, work.candidates = CommunityBoundaries,
         work.start \in Int, work.region.end \in Int, CommunityCut
  PROVE  \E end \in Int, conflict \in BOOLEAN : \E reason :
           /\ Cut(end, reason, "none", conflict)
           /\ work.start + PreferredMin <= end /\ end <= work.start + HardMax
           /\ end <= work.region.end
           /\ reason = "hard_maximum" => NoneOf(Pauses, HardMax)
           /\ conflict => NoneOf(CleanPauses, HardMax)
<1>1. work.start + HardMax < work.region.end
  BY LimitsOrdered DEF CommunityCut, Remaining
<1>2. ASSUME NEW conflict \in BOOLEAN, Preferred(conflict) = {}, Extension(conflict) = {},
             NEW c \in CommunityBoundaries, c.conflict = conflict
      PROVE  c.time \notin (work.start + PreferredMin)..(work.start + HardMax)
  <2>1. c.time \in Int
    BY CommunityAre, CandidateTypes DEF CommunityCandidate
  <2> SUFFICES ASSUME c.time \in (work.start + PreferredMin)..(work.start + HardMax)
               PROVE  FALSE
    OBVIOUS
  <2>2. CASE c.time <= work.start + PreferredMax
    <3>1. c \in Preferred(conflict)
      BY <1>1, <1>2, <2>1, <2>2, LimitsOrdered DEF Preferred, Within
    <3> QED  BY <1>2, <3>1
  <2>3. CASE c.time > work.start + PreferredMax
    <3>1. c \in Extension(conflict)
      BY <1>1, <1>2, <2>1, <2>3, LimitsOrdered DEF Extension, Within, Earlier
    <3> QED  BY <1>2, <3>1
  <2> QED  BY <2>1, <2>2, <2>3, LimitsOrdered
<1>3. ASSUME Preferred(FALSE) = {}, Extension(FALSE) = {} PROVE NoneOf(CleanPauses, HardMax)
  <2> SUFFICES ASSUME NEW p \in CleanPauses
               PROVE  p \notin (work.start + PreferredMin)..(work.start + HardMax)
    BY DEF NoneOf
  <2>1. p \in Pauses
    BY DEF CleanPauses
  <2>2. PICK c \in CommunityBoundaries : c.time = p /\ c.conflict = FALSE
    BY <2>1, PauseIsCandidate
  <2> QED  BY <1>2, <1>3, <2>2
<1>4. ASSUME Preferred(FALSE) = {}, Extension(FALSE) = {},
             Preferred(TRUE) = {}, Extension(TRUE) = {}
      PROVE  NoneOf(Pauses, HardMax)
  <2> SUFFICES ASSUME NEW p \in Pauses
               PROVE  p \notin (work.start + PreferredMin)..(work.start + HardMax)
    BY DEF NoneOf
  <2>1. PICK c \in CommunityBoundaries : c.time = p
    BY PauseIsCandidate
  <2>2. c.conflict = TRUE \/ c.conflict = FALSE
    BY CommunityAre, CandidateTypes DEF CommunityCandidate
  <2> QED  BY <1>2, <1>4, <2>1, <2>2
<1>5. ASSUME NEW conflict \in BOOLEAN, NEW c,
             c \in Preferred(conflict) \/ c \in Extension(conflict),
             CutAt(c), conflict => Preferred(FALSE) = {} /\ Extension(FALSE) = {}
      PROVE  \E end \in Int, b \in BOOLEAN : \E reason :
               /\ Cut(end, reason, "none", b)
               /\ work.start + PreferredMin <= end /\ end <= work.start + HardMax
               /\ end <= work.region.end
               /\ reason = "hard_maximum" => NoneOf(Pauses, HardMax)
               /\ b => NoneOf(CleanPauses, HardMax)
  <2>1. /\ c \in AllCandidates /\ c.conflict = conflict
        /\ work.start + PreferredMin <= c.time /\ c.time <= work.start + HardMax
        /\ c.time < work.region.end
    BY <1>5, WithinTypes
  <2>2. c.time \in Int /\ c.conflict \in BOOLEAN /\ c.reason \in Reasons
    BY <2>1, CandidateTypes DEF CommunityCandidate
  <2>3. c.reason # "hard_maximum"
    <3>1. \A x \in Reasons : x # "hard_maximum"
      BY ReasonsAre
    <3> QED  BY <2>2, <3>1
  <2>4. Cut(c.time, c.reason, "none", c.conflict)
    BY <1>5 DEF CutAt
  <2>5. c.time <= work.region.end
    BY <2>1, <2>2
  <2>6. c.conflict => NoneOf(CleanPauses, HardMax)
    BY <1>3, <1>5, <2>1
  <2> QED  BY <2>1, <2>2, <2>3, <2>4, <2>5, <2>6
<1>6. CASE Preferred(FALSE) # {}
  <2>1. CutPreferred(FALSE)
    BY <1>6 DEF CommunityCut
  <2> QED  BY <2>1, <1>5, PreferredChoice
<1>7. CASE Preferred(FALSE) = {} /\ Extension(FALSE) # {}
  <2>1. CutExtension(FALSE)
    BY <1>7 DEF CommunityCut
  <2> QED  BY <2>1, <1>5, ExtensionChoice
<1>8. CASE Preferred(FALSE) = {} /\ Extension(FALSE) = {} /\ Preferred(TRUE) # {}
  <2>1. CutPreferred(TRUE)
    BY <1>8 DEF CommunityCut
  <2> QED  BY <2>1, <1>5, <1>8, PreferredChoice
<1>9. CASE /\ Preferred(FALSE) = {} /\ Extension(FALSE) = {} /\ Preferred(TRUE) = {}
           /\ Extension(TRUE) # {}
  <2>1. CutExtension(TRUE)
    BY <1>9 DEF CommunityCut
  <2> QED  BY <2>1, <1>5, <1>9, ExtensionChoice
<1>10. CASE /\ Preferred(FALSE) = {} /\ Extension(FALSE) = {} /\ Preferred(TRUE) = {}
            /\ Extension(TRUE) = {}
  <2>1. Cut(work.start + HardMax, "hard_maximum", "none", FALSE)
    BY <1>10 DEF CommunityCut
  <2>2. PICK end \in Int : end = work.start + HardMax
    BY LimitsOrdered
  <2>3. /\ work.start + PreferredMin <= end /\ end <= work.start + HardMax
        /\ end <= work.region.end
    BY <1>1, <2>2, LimitsOrdered
  <2>4. Cut(end, "hard_maximum", "none", FALSE)
    BY <2>1, <2>2
  <2> QED  BY <1>4, <1>10, <2>3, <2>4, Zenon
<1> QED  BY <1>6, <1>7, <1>8, <1>9, <1>10

-----------------------------------------------------------------------------
(*                         The native policy                               *)

LEMMA AdjustmentIs ==
  ASSUME input \in ChunkingInput, NEW time \in Int
  PROVE  /\ OverlapAdjustment(time) \in {0, 3, 6}
         /\ OverlapAdjustment(time) = 6 <=>
              \E i \in Elements(input.activity) : i.count >= 2 /\ i.start <= time /\ time < i.end
<1> DEFINE overlapped == {i \in Elements(input.activity) : i.count >= 2}
           inside == \E i \in overlapped : i.start <= time /\ time < i.end
           near == \E i \in overlapped : i.end > time - OverlapMargin
                                      /\ i.start < time + OverlapMargin
                                      /\ ~(\E k \in overlapped : k.start <= time /\ time < k.end)
<1>1. OverlapAdjustment(time) = CASE inside -> 6 [] near -> 3 [] OTHER -> 0
  BY Zenon DEF OverlapAdjustment
<1>2. near => ~inside
  OBVIOUS
<1>3. inside <=>
        \E i \in Elements(input.activity) : i.count >= 2 /\ i.start <= time /\ time < i.end
  OBVIOUS
<1> HIDE DEF inside, near
<1>4. CASE inside
  BY <1>1, <1>2, <1>3, <1>4
<1>5. CASE near
  BY <1>1, <1>2, <1>3, <1>5
<1>6. CASE ~inside /\ ~near
  BY <1>1, <1>3, <1>6
<1> QED  BY <1>4, <1>5, <1>6

LongPauses ==
  {i \in Elements(input.activity) : i.count = 0 /\ i.end - i.start >= ShortGap}

LEMMA PauseIs ==
  ASSUME input \in ChunkingInput, UsesNative
  PROVE  /\ Pauses = {Midpoint(i) : i \in LongPauses}
         /\ \A i \in LongPauses : /\ Midpoint(i) \in Int
                                  /\ i.start <= Midpoint(i) /\ Midpoint(i) < i.end
         /\ \A p \in Pauses : p \in Int /\ OverlapAdjustment(p) <= 3
<1>1. Pauses = {Midpoint(i) : i \in LongPauses}
  BY DEF Pauses, LongPauses
<1>2. ASSUME NEW i \in LongPauses
      PROVE  Midpoint(i) \in Int /\ i.start <= Midpoint(i) /\ Midpoint(i) < i.end
             /\ i \in Elements(input.activity) /\ i.count = 0
             /\ i.start \in Int /\ i.end \in Int
  BY ChunkingInputIs DEF LongPauses, Midpoint
<1>3. ASSUME NEW p \in Pauses PROVE p \in Int /\ OverlapAdjustment(p) <= 3
  <2>1. PICK i \in LongPauses : p = Midpoint(i)
    BY <1>1
  <2>2. p \in Int
    BY <1>2, <2>1
  <2>3. ASSUME NEW k \in Elements(input.activity), k.count >= 2, k.start <= p, p < k.end
        PROVE  FALSE
    <3>1. i # k
      BY <1>2, <2>3
    <3>2. ~Intersect(i, k)
      BY <1>2, <3>1, ChunkingInputIs
    <3> QED  BY <1>2, <2>1, <2>3, <3>2, ChunkingInputIs DEF Intersect
  <2> QED  BY <2>2, <2>3, AdjustmentIs
<1> QED  BY <1>1, <1>2, <1>3

NativeTypes == DOMAIN TypePriority

LEMMA NativeTypesAre ==
  NativeTypes = {"strong_pause_and_speaker_change", "strong_pause",
                 "short_pause_and_speaker_change", "speaker_change", "short_pause"}
BY DEF NativeTypes, TypePriority

LEMMA PauseTypeIs ==
  ASSUME NEW strong \in BOOLEAN, NEW change \in BOOLEAN
  PROVE  PauseType(strong, change) \in NativeTypes
BY NativeTypesAre DEF PauseType

Reach == (work.start + PreferredMin)..Earlier(work.start + HardMax, work.region.end)

LEMMA NativeCandidatesAre ==
  ASSUME input \in ChunkingInput, work.start \in Int, work.region.end \in Int
  PROVE  /\ NativeCandidates(work.start, work.region.end) \in SUBSET NativeCandidate
         /\ \A c \in NativeCandidates(work.start, work.region.end) :
              c.time \in Reach /\ c.type \in NativeTypes
         /\ work.start + Target < work.region.end =>
              \A i \in LongPauses : Midpoint(i) \in Reach =>
                \E c \in NativeCandidates(work.start, work.region.end) : c.time = Midpoint(i)
<1> DEFINE changes == Transitions(Elements(input.exclusive))
           Near(times, time) == \E t \in times : Distance(t, time) <= OverlapMargin
           pauses == {i \in Elements(input.activity) :
                        i.count = 0 /\ i.end - i.start >= ShortGap /\ Midpoint(i) \in Reach}
           pauseTimes == {Midpoint(i) : i \in pauses}
           kind(i) == PauseType(i.end - i.start >= StrongGap, Near(changes, Midpoint(i)))
           silent == {[time |-> Midpoint(i), type |-> kind(i)] : i \in pauses}
           turning == {[time |-> t, type |-> "speaker_change"] :
                         t \in {c \in changes \intersect Reach : ~Near(pauseTimes, c)}}
<1>1. NativeCandidates(work.start, work.region.end) =
        IF work.start + Target >= work.region.end THEN {} ELSE silent \union turning
  BY Zenon DEF NativeCandidates, Reach
<1>2. Reach \subseteq Int
  BY DEF Reach
<1>3. ASSUME NEW i \in pauses PROVE kind(i) \in NativeTypes
  <2>1. (i.end - i.start >= StrongGap) \in BOOLEAN /\ Near(changes, Midpoint(i)) \in BOOLEAN
    OBVIOUS
  <2> HIDE DEF Near, changes
  <2> QED  BY <2>1, PauseTypeIs
<1>4. ASSUME NEW c \in silent
      PROVE  c \in NativeCandidate /\ c.time \in Reach /\ c.type \in NativeTypes
  <2>1. PICK i \in pauses : c = [time |-> Midpoint(i), type |-> kind(i)]
    OBVIOUS
  <2>2. Midpoint(i) \in Reach
    OBVIOUS
  <2> HIDE DEF pauses, kind
  <2> QED  BY <1>2, <1>3, <2>1, <2>2 DEF NativeCandidate, NativeTypes
<1>5. ASSUME NEW c \in turning
      PROVE  c \in NativeCandidate /\ c.time \in Reach /\ c.type \in NativeTypes
  <2>1. PICK t \in Reach : c = [time |-> t, type |-> "speaker_change"]
    OBVIOUS
  <2>2. "speaker_change" \in NativeTypes
    BY NativeTypesAre
  <2> QED  BY <1>2, <2>1, <2>2 DEF NativeCandidate, NativeTypes
<1>6. ASSUME NEW i \in LongPauses, Midpoint(i) \in Reach
      PROVE  \E c \in silent : c.time = Midpoint(i)
  <2>1. i \in pauses
    BY <1>6 DEF LongPauses
  <2>2. [time |-> Midpoint(i), type |-> kind(i)] \in silent
    BY <2>1
  <2> QED  BY <2>2
<1> HIDE DEF silent, turning
<1>7. \A c \in NativeCandidates(work.start, work.region.end) :
        c \in NativeCandidate /\ c.time \in Reach /\ c.type \in NativeTypes
  BY <1>1, <1>4, <1>5
<1>8. ASSUME work.start + Target < work.region.end
      PROVE  NativeCandidates(work.start, work.region.end) = silent \union turning
  BY <1>1, <1>8, LimitsOrdered
<1> QED  BY <1>6, <1>7, <1>8

LEMMA BestScore ==
  ASSUME input \in ChunkingInput, work.start \in Int, NEW S \in SUBSET NativeCandidate,
         IsFiniteSet(S), S # {}
  PROVE  LeastBy(S, ScoreKey) \in S
<1> DEFINE key == [c \in S |-> ScoreKey(c)]
<1>1. ASSUME NEW c \in S PROVE ScoreKey(c) \in [1..5 -> Int]
  <2>1. c.time \in Int /\ c.type \in NativeTypes
    BY DEF NativeCandidate, NativeTypes
  <2>2. TypeAdjustment[c.type] \in Int
    BY <2>1, NativeTypesAre DEF TypeAdjustment
  <2>3. OverlapAdjustment(c.time) \in Int
    BY <2>1, AdjustmentIs
  <2>4. Distance(c.time, work.start + Target) \in Int
    BY <2>1, LimitsOrdered DEF Distance
  <2>5. QuartersPerTick \in Int
    BY LimitsOrdered
  <2> QED  BY <2>1, <2>2, <2>3, <2>4, <2>5 DEF ScoreKey
<1>2. key \in [S -> [1..5 -> Int]]
  BY <1>1
<1>3. PICK x \in S : \A y \in S : LexLeq(key[x], key[y])
  <2>1. PICK n \in Nat : n = 5
    OBVIOUS
  <2>2. key \in [S -> [1..n -> Int]]
    BY <1>2, <2>1
  <2> HIDE DEF key
  <2> QED  BY <2>2, LeastKey
<1>4. \A y \in S : LexLeq(ScoreKey(x), ScoreKey(y))
  BY <1>3
<1> QED  BY <1>3, <1>4, Zenon DEF LeastBy

LEMMA Earliest ==
  ASSUME NEW S \in SUBSET NativeCandidate, IsFiniteSet(S), S # {}
  PROVE  LeastBy(S, EarliestKey) \in S
<1> DEFINE key == [c \in S |-> EarliestKey(c)]
<1>1. ASSUME NEW c \in S PROVE EarliestKey(c) \in [1..2 -> Int]
  <2>1. c.time \in Int /\ c.type \in NativeTypes
    BY DEF NativeCandidate, NativeTypes
  <2>2. TypePriority[c.type] \in Int
    BY <2>1, NativeTypesAre DEF TypePriority
  <2> QED  BY <2>1, <2>2 DEF EarliestKey
<1>2. key \in [S -> [1..2 -> Int]]
  BY <1>1
<1>3. PICK x \in S : \A y \in S : LexLeq(key[x], key[y])
  <2> HIDE DEF key
  <2> QED  BY <1>2, LeastKey
<1>4. \A y \in S : LexLeq(EarliestKey(x), EarliestKey(y))
  BY <1>3
<1> QED  BY <1>3, <1>4, Zenon DEF LeastBy

(* What a selection of the native policy gives.                            *)
LEMMA NativeSelectIs ==
  ASSUME input \in ChunkingInput, UsesNative, work.start \in Int, work.region.end \in Int,
         NativeSelect
  PROVE  \E end \in Int, conflict \in BOOLEAN : \E reason, phase :
           /\ Cut(end, reason, phase, conflict)
           /\ work.start + PreferredMin <= end /\ end <= work.start + HardMax
           /\ end <= work.region.end
           /\ reason = "hard_maximum" => NoneOf(Pauses, HardMax)
           /\ phase = "relaxed_any" /\ reason # "episode_end" =>
                NoneOf({p \in Pauses : p <= work.region.end}, RelaxedCleanMax)
<1> DEFINE candidates == NativeCandidates(work.start, work.region.end)
           preferred  == {c \in candidates : c.time <= work.start + RelaxationStart}
           clean      == {c \in candidates : c.time <= work.start + RelaxedCleanMax
                                             /\ OverlapAdjustment(c.time) <= 3}
           Given == \E end \in Int, conflict \in BOOLEAN : \E reason, phase :
             /\ Cut(end, reason, phase, conflict)
             /\ work.start + PreferredMin <= end /\ end <= work.start + HardMax
             /\ end <= work.region.end
             /\ reason = "hard_maximum" => NoneOf(Pauses, HardMax)
             /\ phase = "relaxed_any" /\ reason # "episode_end" =>
                  NoneOf({p \in Pauses : p <= work.region.end}, RelaxedCleanMax)
<1> SUFFICES Given
  OBVIOUS
<1>1. Remaining > Target
  BY DEF NativeSelect
<1>2. work.start + Target < work.region.end
  BY <1>1, LimitsOrdered DEF Remaining
<1>3. /\ candidates \in SUBSET NativeCandidate
      /\ \A c \in candidates : c.time \in Int /\ c.time \in Reach /\ c.type \in NativeTypes
      /\ \A p \in Pauses : p \in Reach => \E c \in candidates : c.time = p
  <2> HIDE DEF candidates
  <2>1. \A c \in Reach : c \in Int
    BY DEF Reach
  <2> QED  BY <1>2, <2>1, NativeCandidatesAre, PauseIs DEF candidates
<1>4. IsFiniteSet(candidates)
  <2>1. PICK low \in Int, high \in Int :
          low = work.start + PreferredMin /\ high = Earlier(work.start + HardMax, work.region.end)
    BY LimitsOrdered DEF Earlier
  <2>2. \A c \in candidates : c.time \in low..high
    BY <1>3, <2>1 DEF Reach
  <2> HIDE DEF candidates
  <2> QED  BY <1>3, <2>2, NativeFinite
<1>5. /\ preferred \in SUBSET candidates /\ clean \in SUBSET candidates
      /\ preferred \in SUBSET NativeCandidate /\ clean \in SUBSET NativeCandidate
  BY <1>3
<1>6. IsFiniteSet(preferred) /\ IsFiniteSet(clean)
  <2> HIDE DEF candidates, preferred, clean
  <2> QED  BY <1>4, <1>5, FS_Subset
<1>7. \/ preferred # {} /\ NativeCut(LeastBy(preferred, ScoreKey), "preferred")
      \/ /\ preferred = {} /\ clean # {}
         /\ NativeCut(LeastBy(clean, EarliestKey), "relaxed_clean")
      \/ /\ preferred = {} /\ clean = {} /\ candidates # {}
         /\ NativeCut(LeastBy(candidates, EarliestKey), "relaxed_any")
      \/ /\ candidates = {} /\ Remaining <= HardMax
         /\ Cut(work.region.end, "episode_end", "relaxed_any", FALSE)
      \/ /\ candidates = {} /\ Remaining > HardMax
         /\ Cut(work.start + HardMax, "hard_maximum", "hard_maximum", FALSE)
  BY Zenon DEF NativeSelect
<1>8. ASSUME NEW c \in candidates, NEW phase, NativeCut(c, phase),
             phase = "relaxed_any" =>
               NoneOf({p \in Pauses : p <= work.region.end}, RelaxedCleanMax)
      PROVE  Given
  <2>1. Cut(c.time, c.type, phase, OverlapAdjustment(c.time) > 0)
    BY <1>8 DEF NativeCut
  <2>2. /\ c.time \in Int
        /\ work.start + PreferredMin <= c.time /\ c.time <= work.start + HardMax
        /\ c.time <= work.region.end
    BY <1>3, LimitsOrdered DEF Reach, Earlier
  <2>3. (OverlapAdjustment(c.time) > 0) \in BOOLEAN
    OBVIOUS
  <2>4. c.type # "hard_maximum"
    <3>1. \A x \in NativeTypes : x # "hard_maximum"
      BY NativeTypesAre
    <3> QED  BY <1>3, <3>1
  <2>5. PICK end, conflict, reason :
          /\ end \in Int /\ conflict \in BOOLEAN
          /\ end = c.time /\ conflict = (OverlapAdjustment(c.time) > 0) /\ reason = c.type
    BY <2>2, <2>3
  <2>6. /\ end \in Int /\ conflict \in BOOLEAN
        /\ Cut(end, reason, phase, conflict)
        /\ work.start + PreferredMin <= end /\ end <= work.start + HardMax
        /\ end <= work.region.end /\ reason # "hard_maximum"
    BY <2>1, <2>2, <2>4, <2>5
  <2>7. /\ reason = "hard_maximum" => NoneOf(Pauses, HardMax)
        /\ phase = "relaxed_any" /\ reason # "episode_end" =>
             NoneOf({p \in Pauses : p <= work.region.end}, RelaxedCleanMax)
    BY <1>8, <2>6
  <2> QED  BY <2>6, <2>7, Zenon
<1>9. ASSUME preferred = {}, clean = {}
      PROVE  NoneOf({p \in Pauses : p <= work.region.end}, RelaxedCleanMax)
  <2> SUFFICES ASSUME NEW p \in Pauses, p <= work.region.end,
                      p \in (work.start + PreferredMin)..(work.start + RelaxedCleanMax)
               PROVE  FALSE
    BY DEF NoneOf
  <2>1. p \in Int /\ OverlapAdjustment(p) <= 3
    BY PauseIs
  <2>2. p \in Reach
    BY <2>1, LimitsOrdered DEF Reach, Earlier
  <2>3. PICK c \in candidates : c.time = p
    BY <1>3, <2>2
  <2>4. c \in clean
    <3> HIDE DEF candidates
    <3> QED  BY <2>1, <2>3, LimitsOrdered
  <2> QED  BY <1>9, <2>4
<1>10. CASE preferred # {} /\ NativeCut(LeastBy(preferred, ScoreKey), "preferred")
  <2> HIDE DEF preferred, candidates, Given
  <2>1. LeastBy(preferred, ScoreKey) \in candidates
    BY <1>5, <1>6, <1>10, BestScore
  <2>2. "preferred" # "relaxed_any"
    OBVIOUS
  <2>3. PICK c \in candidates : NativeCut(c, "preferred")
    <3> WITNESS LeastBy(preferred, ScoreKey) \in candidates
    <3> QED  BY <1>10
  <2> QED  BY <1>8, <1>10, <2>3, <2>2
<1>11. CASE clean # {} /\ NativeCut(LeastBy(clean, EarliestKey), "relaxed_clean")
  <2> HIDE DEF clean, candidates, Given
  <2>1. LeastBy(clean, EarliestKey) \in candidates
    BY <1>5, <1>6, <1>11, Earliest
  <2>2. "relaxed_clean" # "relaxed_any"
    OBVIOUS
  <2>3. PICK c \in candidates : NativeCut(c, "relaxed_clean")
    <3> WITNESS LeastBy(clean, EarliestKey) \in candidates
    <3> QED  BY <1>11
  <2> QED  BY <1>8, <1>11, <2>3, <2>2
<1>12. CASE /\ preferred = {} /\ clean = {} /\ candidates # {}
            /\ NativeCut(LeastBy(candidates, EarliestKey), "relaxed_any")
  <2> HIDE DEF preferred, clean, candidates, Given
  <2>1. LeastBy(candidates, EarliestKey) \in candidates
    BY <1>3, <1>4, <1>12, Earliest
  <2>2. PICK c \in candidates : NativeCut(c, "relaxed_any")
    <3> WITNESS LeastBy(candidates, EarliestKey) \in candidates
    <3> QED  BY <1>12
  <2> QED  BY <1>8, <1>9, <1>12, <2>2
<1>13. CASE Remaining <= HardMax /\ Cut(work.region.end, "episode_end", "relaxed_any", FALSE)
  <2>1. /\ work.start + PreferredMin <= work.region.end
        /\ work.region.end <= work.start + HardMax /\ work.region.end <= work.region.end
    BY <1>2, <1>13, LimitsOrdered DEF Remaining
  <2>2. "episode_end" # "hard_maximum"
    OBVIOUS
  <2> QED  BY <1>13, <2>1, <2>2, Zenon
<1>14. CASE /\ candidates = {} /\ Remaining > HardMax
            /\ Cut(work.start + HardMax, "hard_maximum", "hard_maximum", FALSE)
  <2>1. work.start + HardMax \in Int /\ work.start + HardMax < work.region.end
    BY <1>14, LimitsOrdered DEF Remaining
  <2>2. NoneOf(Pauses, HardMax)
    <3> SUFFICES ASSUME NEW p \in Pauses, p \in (work.start + PreferredMin)..(work.start + HardMax)
                 PROVE  FALSE
      BY DEF NoneOf
    <3>1. p \in Reach
      BY <2>1, LimitsOrdered DEF Reach, Earlier
    <3> HIDE DEF candidates
    <3> QED  BY <1>3, <1>14, <3>1
  <2>3. /\ work.start + PreferredMin <= work.start + HardMax
        /\ work.start + HardMax <= work.start + HardMax
        /\ work.start + HardMax <= work.region.end
    BY <2>1, LimitsOrdered
  <2>4. "hard_maximum" # "relaxed_any"
    OBVIOUS
  <2> QED  BY <1>14, <2>1, <2>2, <2>3, <2>4, Zenon
<1> HIDE DEF Given, preferred, clean, candidates
<1> QED  BY <1>7, <1>10, <1>11, <1>12, <1>13, <1>14

-----------------------------------------------------------------------------
(*                     The chunks cut so far                               *)

LEMMA Appended ==
  ASSUME NEW s, \E C : s \in Seq(C), NEW e
  PROVE  /\ \E C : Append(s, e) \in Seq(C)
         /\ Len(s) \in Nat /\ Len(Append(s, e)) = Len(s) + 1
         /\ \A i \in 1..Len(s) : Append(s, e)[i] = s[i]
         /\ Append(s, e)[Len(s) + 1] = e
<1>1. PICK C : s \in Seq(C)
  OBVIOUS
<1>2. PICK D : D = C \union {e}
  OBVIOUS
<1>3. s \in Seq(D) /\ e \in D
  BY <1>1, <1>2
<1>4. Append(s, e) \in Seq(D)
  BY <1>3
<1> QED  BY <1>3, <1>4

LEMMA Replaced ==
  ASSUME NEW s, \E C : s \in Seq(C), Len(s) > 0, NEW e
  PROVE  LET t == [s EXCEPT ![Len(s)] = e]
         IN /\ \E C : t \in Seq(C)
            /\ Len(s) \in Nat /\ Len(t) = Len(s) /\ t[Len(s)] = e
            /\ \A i \in 1..Len(s) : i # Len(s) => t[i] = s[i]
<1>0. PICK t : t = [s EXCEPT ![Len(s)] = e]
  OBVIOUS
<1>1. PICK C : s \in Seq(C)
  OBVIOUS
<1>2. PICK D : D = C \union {e}
  OBVIOUS
<1>3. s \in Seq(D) /\ e \in D /\ Len(s) \in 1..Len(s)
  BY <1>1, <1>2
<1>4. PICK n \in Nat : n = Len(s)
  BY <1>3
<1>5. s \in [1..n -> D] /\ n \in 1..n
  BY <1>3, <1>4
<1>6. t = [s EXCEPT ![n] = e]
  BY <1>0, <1>4
<1>7. t \in [1..n -> D] /\ t[n] = e /\ \A i \in 1..n : i # n => t[i] = s[i]
  BY <1>3, <1>5, <1>6
<1>8. t \in Seq(D) /\ Len(t) = n
  BY <1>0, <1>3, <1>4
<1> QED  BY <1>0, <1>4, <1>7, <1>8

(* A chunk of an opened region, of legal length, in what is cut.           *)
IsCut(c, start, todo) ==
  /\ c.start \in Int /\ c.end \in Int
  /\ c.start < c.end /\ c.end - c.start <= HardMax /\ c.end <= start
  /\ \E r \in input.regions \ todo : r.start <= c.start /\ c.end <= r.end

EndsRegion(time) == \E r \in input.regions : time = r.end

Shape(chunks, region, start, todo) ==
  LET opened == input.regions \ todo
      positions == 1..Len(chunks)
  IN /\ \E C : chunks \in Seq(C)
     /\ todo \subseteq input.regions /\ start \in Int
     /\ \/ /\ region = [start |-> 0, end |-> 0] /\ start = 0
           /\ chunks = <<>> /\ todo = input.regions
        \/ region \in opened /\ region.start <= start /\ start <= region.end
     /\ \A r \in todo : region.end <= r.start
     /\ \A i \in positions : IsCut(chunks[i], start, todo)
     /\ \A i, j \in positions : i < j => chunks[i].end <= chunks[j].start
     /\ \A i, j \in positions :
          j = i + 1 => chunks[i].end = chunks[j].start \/ EndsRegion(chunks[i].end)
     /\ Len(chunks) > 0 => chunks[Len(chunks)].end = start \/ EndsRegion(chunks[Len(chunks)].end)
     /\ start > region.start =>
          /\ Len(chunks) > 0 /\ chunks[Len(chunks)].end = start
          /\ region.start <= chunks[Len(chunks)].start
     /\ \A r \in opened : (r = region => start > r.start) =>
          \E i \in positions : chunks[i].start = r.start
     /\ \A r \in opened : (r = region => start = r.end) =>
          \E i \in positions : chunks[i].end = r.end

LEMMA RegionIs ==
  ASSUME input \in ChunkingInput, NEW r \in input.regions
  PROVE  r.start \in Nat /\ r.end \in Nat /\ r.start < r.end
BY ChunkingInputIs

(* Two regions with a point inside of both are one.                        *)
LEMMA OneRegion ==
  ASSUME input \in ChunkingInput, RegionsAreValid,
         NEW a \in input.regions, NEW b \in input.regions, a.start < b.end, b.start < a.end
  PROVE  a = b
BY DEF RegionsAreValid, Intersect

LEMMA ShapeStart ==
  ASSUME input \in ChunkingInput
  PROVE  Shape(<<>>, [start |-> 0, end |-> 0], 0, input.regions)
<1>1. \A r \in input.regions : 0 <= r.start
  BY RegionIs
<1>2. /\ \E C : <<>> \in Seq(C)
      /\ Len(<<>>) = 0
  OBVIOUS
<1> QED  BY <1>1, <1>2 DEF Shape

(* Where a region is being cut.                                            *)
LEMMA Being ==
  ASSUME input \in ChunkingInput, NEW chunks, NEW region, NEW start, NEW todo,
         Shape(chunks, region, start, todo), start # region.end
  PROVE  /\ region \in input.regions /\ region \notin todo
         /\ start \in Int /\ region.start \in Int /\ region.end \in Int
         /\ region.start <= start /\ start < region.end
<1>1. /\ region \in input.regions \ todo /\ start \in Int
      /\ region.start <= start /\ start <= region.end
  <2>1. ~(region = [start |-> 0, end |-> 0] /\ start = 0)
    OBVIOUS
  <2> QED  BY <2>1 DEF Shape
<1> QED  BY <1>1, RegionIs

LEMMA ShapeCut ==
  ASSUME input \in ChunkingInput, NEW chunks, NEW region, NEW start, NEW todo,
         Shape(chunks, region, start, todo), start # region.end,
         NEW c, c.start = start, c.end \in Int, start < c.end, c.end <= region.end,
         c.end - start <= HardMax
  PROVE  Shape(Append(chunks, c), region, c.end, todo)
<1>1. PICK new : new = Append(chunks, c)
  OBVIOUS
<1>2. PICK n \in Nat : n = Len(chunks) /\ Len(new) = n + 1
  BY <1>1, Appended DEF Shape
<1>3. (\E C : new \in Seq(C)) /\ (\A i \in 1..n : new[i] = chunks[i]) /\ new[n + 1] = c
  BY <1>1, <1>2, Appended DEF Shape
<1>4. /\ region \in input.regions /\ region \notin todo
      /\ start \in Int /\ region.start \in Int /\ region.end \in Int
      /\ region.start <= start /\ start < region.end
  BY Being
<1>5. ASSUME NEW i \in 1..(n + 1) PROVE i \in 1..n \/ i = n + 1
  OBVIOUS
<1>6. ASSUME NEW i \in 1..(n + 1) PROVE IsCut(new[i], c.end, todo)
  <2>1. CASE i = n + 1
    <3>1. HardMax \in Int
      BY LimitsOrdered
    <3> QED  BY <1>3, <1>4, <2>1, <3>1 DEF IsCut
  <2>2. CASE i \in 1..n
    <3>1. IsCut(chunks[i], start, todo)
      BY <1>2, <2>2 DEF Shape
    <3>2. IsCut(chunks[i], c.end, todo)
      BY <1>4, <3>1 DEF IsCut
    <3> QED  BY <1>3, <2>2, <3>2
  <2> QED  BY <1>5, <2>1, <2>2
<1>7. ASSUME NEW i \in 1..(n + 1), NEW j \in 1..(n + 1), i < j
      PROVE  new[i].end <= new[j].start
  <2>1. i \in 1..n /\ IsCut(chunks[i], start, todo)
    BY <1>2, <1>7 DEF Shape
  <2>2. CASE j = n + 1
    BY <1>3, <2>1, <2>2 DEF IsCut
  <2>3. CASE j \in 1..n
    BY <1>2, <1>3, <1>7, <2>1, <2>3 DEF Shape
  <2> QED  BY <1>5, <2>2, <2>3
<1>8. n > 0 => chunks[n].end = start \/ EndsRegion(chunks[n].end)
  BY <1>2 DEF Shape
<1>9. ASSUME NEW i \in 1..(n + 1), NEW j \in 1..(n + 1), j = i + 1
      PROVE  new[i].end = new[j].start \/ EndsRegion(new[i].end)
  <2>1. i \in 1..n
    BY <1>9
  <2>2. CASE i = n
    BY <1>3, <1>8, <1>9, <2>1, <2>2
  <2>3. CASE i # n
    <3>1. j \in 1..n
      BY <1>9, <2>1, <2>3
    <3> QED  BY <1>2, <1>3, <1>9, <2>1, <3>1 DEF Shape
  <2> QED  BY <2>2, <2>3
<1>10. ASSUME NEW r \in input.regions \ todo
       PROVE  \E i \in 1..(n + 1) : new[i].start = r.start
  <2>1. CASE r = region /\ start = region.start
    BY <1>3, <2>1
  <2>2. CASE ~(r = region /\ start = region.start)
    <3>1. r = region => start > r.start
      BY <1>4, <2>2
    <3>2. PICK i \in 1..n : chunks[i].start = r.start
      BY <1>2, <3>1 DEF Shape
    <3> QED  BY <1>3, <3>2
  <2> QED  BY <2>1, <2>2
<1>11. ASSUME NEW r \in input.regions \ todo, r = region => c.end = r.end
       PROVE  \E i \in 1..(n + 1) : new[i].end = r.end
  <2>1. CASE r = region
    BY <1>3, <1>11, <2>1
  <2>2. CASE r # region
    <3>1. PICK i \in 1..n : chunks[i].end = r.end
      BY <1>2, <2>2 DEF Shape
    <3> QED  BY <1>3, <3>1
  <2> QED  BY <2>1, <2>2
<1>12. /\ todo \subseteq input.regions
       /\ \A r \in todo : region.end <= r.start
  BY DEF Shape
<1>13. /\ region \in input.regions \ todo /\ region.start <= c.end /\ c.end <= region.end
       /\ new[n + 1].end = c.end /\ region.start <= new[n + 1].start /\ n + 1 > 0
  BY <1>3, <1>4
<1>14. Shape(new, region, c.end, todo)
  BY <1>2, <1>3, <1>6, <1>7, <1>9, <1>10, <1>11, <1>12, <1>13 DEF Shape
<1> QED  BY <1>1, <1>14

LEMMA ShapeMerge ==
  ASSUME input \in ChunkingInput, RegionsAreValid,
         NEW chunks, NEW region, NEW start, NEW todo,
         Shape(chunks, region, start, todo), start # region.end, start > region.start,
         NEW c, c.start = chunks[Len(chunks)].start, c.end = region.end,
         c.end - c.start <= HardMax
  PROVE  Shape([chunks EXCEPT ![Len(chunks)] = c], region, region.end, todo)
<1>1. PICK new : new = [chunks EXCEPT ![Len(chunks)] = c]
  OBVIOUS
<1>2. (\E C : chunks \in Seq(C)) /\ Len(chunks) > 0
  BY DEF Shape
<1>3. PICK n \in Nat : /\ n = Len(chunks) /\ Len(new) = n /\ n > 0
                       /\ \E C : new \in Seq(C)
                       /\ \A i \in 1..n : i # n => new[i] = chunks[i]
                       /\ new[n] = c
  <2>1. /\ \E C : new \in Seq(C)
        /\ Len(chunks) \in Nat /\ Len(new) = Len(chunks) /\ new[Len(chunks)] = c
        /\ \A i \in 1..Len(chunks) : i # Len(chunks) => new[i] = chunks[i]
    BY <1>1, <1>2, Replaced
  <2> QED  BY <1>2, <2>1
<1>4. /\ region \in input.regions /\ region \notin todo
      /\ start \in Int /\ region.start \in Int /\ region.end \in Int
      /\ region.start <= start /\ start < region.end
  BY Being
<1>5. /\ n \in 1..n /\ chunks[n].end = start /\ region.start <= chunks[n].start
      /\ IsCut(chunks[n], start, todo)
  BY <1>3 DEF Shape
<1>6. \A i \in 1..n : new[i].start = chunks[i].start
  BY <1>3
<1>7. ASSUME NEW i \in 1..n PROVE IsCut(new[i], region.end, todo)
  <2>1. CASE i = n
    <3>1. c.start \in Int /\ c.start < c.end /\ region.start <= c.start
      BY <1>3, <1>4, <1>5 DEF IsCut
    <3> QED  BY <1>3, <1>4, <2>1, <3>1 DEF IsCut
  <2>2. CASE i # n
    <3>1. IsCut(chunks[i], start, todo)
      BY <1>3 DEF Shape
    <3>2. IsCut(chunks[i], region.end, todo)
      BY <1>4, <3>1 DEF IsCut
    <3> QED  BY <1>3, <2>2, <3>2
  <2> QED  BY <2>1, <2>2
<1>8. ASSUME NEW i \in 1..n, NEW j \in 1..n, i < j PROVE new[i].end <= new[j].start
  <2>1. new[i].end = chunks[i].end
    BY <1>3, <1>8
  <2>2. chunks[i].end <= chunks[j].start
    BY <1>3, <1>8 DEF Shape
  <2> QED  BY <1>6, <2>1, <2>2
<1>9. ASSUME NEW i \in 1..n, NEW j \in 1..n, j = i + 1
      PROVE  new[i].end = new[j].start \/ EndsRegion(new[i].end)
  <2>1. new[i].end = chunks[i].end
    BY <1>3, <1>9
  <2>2. chunks[i].end = chunks[j].start \/ EndsRegion(chunks[i].end)
    BY <1>3, <1>9 DEF Shape
  <2> QED  BY <1>6, <2>1, <2>2
<1>10. ASSUME NEW r \in input.regions \ todo PROVE \E i \in 1..n : new[i].start = r.start
  <2>1. PICK i \in 1..n : chunks[i].start = r.start
    BY <1>3 DEF Shape
  <2> QED  BY <1>6, <2>1
<1>11. ASSUME NEW r \in input.regions \ todo PROVE \E i \in 1..n : new[i].end = r.end
  <2>1. CASE r = region
    BY <1>3, <2>1
  <2>2. CASE r # region
    <3>1. PICK i \in 1..n : chunks[i].end = r.end
      BY <1>3, <2>2 DEF Shape
    <3>2. i # n
      <4> SUFFICES ASSUME r.end = start PROVE FALSE
        BY <1>5, <3>1
      <4>1. r.start < region.end /\ region.start < r.end
        BY <1>4, RegionIs
      <4> QED  BY <1>4, <2>2, <4>1, OneRegion
    <3> QED  BY <1>3, <3>1, <3>2
  <2> QED  BY <2>1, <2>2
<1>12. /\ todo \subseteq input.regions
       /\ \A r \in todo : region.end <= r.start
  BY DEF Shape
<1>13. /\ region \in input.regions \ todo /\ region.start <= region.end /\ region.end <= region.end
       /\ new[n].end = region.end /\ region.start <= new[n].start
  BY <1>3, <1>4, <1>5, <1>6
<1>14. Shape(new, region, region.end, todo)
  BY <1>3, <1>4, <1>7, <1>8, <1>9, <1>10, <1>11, <1>12, <1>13 DEF Shape
<1> QED  BY <1>1, <1>14

LEMMA ShapeOpen ==
  ASSUME input \in ChunkingInput, RegionsAreValid,
         NEW chunks, NEW region, NEW start, NEW todo,
         Shape(chunks, region, start, todo), start = region.end,
         NEW r \in todo, \A other \in todo : r.start <= other.start
  PROVE  Shape(chunks, r, r.start, todo \ {r})
<1>1. /\ r \in input.regions /\ r.start \in Int /\ r.end \in Int /\ r.start < r.end
      /\ start \in Int /\ start <= r.start /\ todo \subseteq input.regions
  <2>1. r \in input.regions /\ start \in Int /\ start <= r.start /\ todo \subseteq input.regions
    BY DEF Shape
  <2> QED  BY <2>1, RegionIs
<1>2. PICK left : left = todo \ {r}
  OBVIOUS
<1>3. left \subseteq input.regions /\ input.regions \ left = (input.regions \ todo) \union {r}
  BY <1>1, <1>2
<1>4. \A q \in left : r.end <= q.start
  <2> SUFFICES ASSUME NEW q \in left, ~(r.end <= q.start) PROVE FALSE
    OBVIOUS
  <2>1. q \in input.regions /\ q # r /\ r.start <= q.start
    BY <1>2, <1>3
  <2>2. q.start < r.end /\ r.start < q.end
    BY <1>1, <2>1, RegionIs
  <2> QED  BY <1>1, <2>1, <2>2, OneRegion
<1>5. PICK n \in Nat : n = Len(chunks)
  BY Appended DEF Shape
<1>6. ASSUME NEW i \in 1..n PROVE IsCut(chunks[i], r.start, left)
  <2>1. IsCut(chunks[i], start, todo)
    BY <1>5 DEF Shape
  <2> QED  BY <1>1, <1>3, <2>1 DEF IsCut
<1>7. n > 0 => EndsRegion(chunks[n].end)
  <2> SUFFICES ASSUME n > 0, ~EndsRegion(chunks[n].end) PROVE FALSE
    OBVIOUS
  <2>1. chunks[n].end = start
    BY <1>5 DEF Shape
  <2>2. region \in input.regions
    BY <1>5 DEF Shape
  <2> QED  BY <2>1, <2>2 DEF EndsRegion
<1>8. ASSUME NEW q \in input.regions \ todo
      PROVE  (\E i \in 1..n : chunks[i].start = q.start) /\ \E i \in 1..n : chunks[i].end = q.end
  <2>1. q = region => start > q.start
    BY RegionIs
  <2> QED  BY <1>5, <2>1 DEF Shape
<1>9. Shape(chunks, r, r.start, left)
  <2>1. ~(r.start > r.start) /\ r.start <= r.start /\ r.start # r.end
    BY <1>1
  <2>2. r \in input.regions \ left
    BY <1>3
  <2>3. \E C : chunks \in Seq(C)
    BY DEF Shape
  <2>4. /\ \A i, j \in 1..n : i < j => chunks[i].end <= chunks[j].start
        /\ \A i, j \in 1..n :
             j = i + 1 => chunks[i].end = chunks[j].start \/ EndsRegion(chunks[i].end)
    BY <1>5 DEF Shape
  <2>5. ASSUME NEW q \in input.regions \ left
        PROVE  /\ (q = r => r.start > q.start) => \E i \in 1..n : chunks[i].start = q.start
               /\ (q = r => r.start = q.end) => \E i \in 1..n : chunks[i].end = q.end
    BY <1>1, <1>3, <1>8
  <2> QED  BY <1>1, <1>3, <1>4, <1>5, <1>6, <1>7, <2>1, <2>2, <2>3, <2>4, <2>5 DEF Shape
<1> QED  BY <1>2, <1>9

(* When every region is opened and the last one is done, all are covered.  *)
LEMMA AllCovered ==
  ASSUME input \in ChunkingInput, RegionsAreValid,
         Shape(work.chunks, work.region, work.start, work.todo),
         RegionIsDone, work.todo = {}
  PROVE  CoverageIsComplete
<1> DEFINE chunks == work.chunks
<1>1. PICK n \in Nat : n = Len(chunks) /\ DOMAIN chunks = 1..n
  <2>1. PICK C : chunks \in Seq(C)
    BY DEF Shape
  <2> QED  BY <2>1
<1>2. \A i \in 1..n : IsCut(chunks[i], work.start, {})
  BY <1>1 DEF Shape
<1>3. ASSUME NEW i \in 1..n
      PROVE  /\ chunks[i].start \in Int /\ chunks[i].end \in Int
             /\ chunks[i].start < chunks[i].end /\ chunks[i].end - chunks[i].start <= HardMax
             /\ \E r \in input.regions : r.start <= chunks[i].start /\ chunks[i].end <= r.end
  BY <1>2 DEF IsCut
<1>4. ASSUME NEW r \in input.regions
      PROVE  (\E i \in 1..n : chunks[i].start = r.start) /\ \E i \in 1..n : chunks[i].end = r.end
  <2>1. r = work.region => work.start > r.start /\ work.start = r.end
    BY RegionIs DEF RegionIsDone
  <2> QED  BY <1>1, <2>1 DEF Shape
<1>5. ASSUME NEW r \in input.regions, NEW i \in 1..n,
             chunks[i].start < r.end, r.start < chunks[i].end
      PROVE  i \in ChunksOf(r)
  <2>1. PICK q \in input.regions : q.start <= chunks[i].start /\ chunks[i].end <= q.end
    BY <1>3
  <2>2. q.start < r.end /\ r.start < q.end
    BY <1>3, <1>5, <2>1, RegionIs
  <2>3. q = r
    BY <2>2, OneRegion
  <2> QED  BY <1>1, <2>1, <2>3 DEF ChunksOf
<1>6. \A i, j \in 1..n : i < j => chunks[i].end <= chunks[j].start
  BY <1>1 DEF Shape
<1>7. ASSUME NEW r \in input.regions PROVE CoversRegion(r)
  <2>1. r.start \in Int /\ r.end \in Int /\ r.start < r.end
    BY RegionIs
  <2>2. \A i \in ChunksOf(r) :
          i \in 1..n /\ r.start <= chunks[i].start /\ chunks[i].end <= r.end
    BY <1>1 DEF ChunksOf
  <2>3. PICK first \in 1..n : chunks[first].start = r.start
    BY <1>4
  <2>4. PICK last \in 1..n : chunks[last].end = r.end
    BY <1>4
  <2>5. first \in ChunksOf(r) /\ last \in ChunksOf(r)
    BY <1>3, <1>5, <2>1, <2>3, <2>4
  <2>6. ASSUME NEW i \in ChunksOf(r), \A k \in ChunksOf(r) : i <= k
        PROVE  chunks[i].start = r.start
    <3>1. i <= first
      BY <2>5, <2>6
    <3>2. CASE i = first
      BY <2>3, <3>2
    <3>3. CASE i < first
      <4>1. chunks[i].end <= r.start
        BY <1>6, <2>2, <2>3, <3>3
      <4> QED  BY <1>3, <2>1, <2>2, <4>1
    <3> QED  BY <2>2, <3>1, <3>2, <3>3
  <2>7. ASSUME NEW i \in ChunksOf(r), \A k \in ChunksOf(r) : k <= i
        PROVE  chunks[i].end = r.end
    <3>1. last <= i
      BY <2>5, <2>7
    <3>2. CASE i = last
      BY <2>4, <3>2
    <3>3. CASE last < i
      <4>1. r.end <= chunks[i].start
        BY <1>6, <2>2, <2>4, <3>3
      <4> QED  BY <1>3, <2>1, <2>2, <4>1
    <3> QED  BY <2>2, <3>1, <3>2, <3>3
  <2>8. ASSUME NEW i \in ChunksOf(r), NEW j \in ChunksOf(r), i < j,
               \A k \in ChunksOf(r) : k <= i \/ j <= k
        PROVE  chunks[j].start = chunks[i].end
    <3>1. i \in 1..n /\ j \in 1..n /\ i + 1 \in 1..n
      BY <2>2, <2>8
    <3>2. j = i + 1
      <4> SUFFICES ASSUME i + 1 < j PROVE FALSE
        BY <2>8, <3>1
      <4>1. chunks[i].end <= chunks[i + 1].start /\ chunks[i + 1].end <= chunks[j].start
        BY <1>6, <3>1
      <4>2. chunks[i + 1].start < r.end /\ r.start < chunks[i + 1].end
        BY <1>3, <2>1, <2>2, <3>1, <4>1
      <4>3. i + 1 \in ChunksOf(r)
        BY <1>5, <3>1, <4>2
      <4>4. ~(i + 1 <= i) /\ ~(j <= i + 1)
        BY <3>1
      <4> QED  BY <2>8, <4>3, <4>4
    <3>3. chunks[i].end = chunks[j].start \/ EndsRegion(chunks[i].end)
      BY <1>1, <3>1, <3>2 DEF Shape
    <3>4. ASSUME NEW q \in input.regions, chunks[i].end = q.end PROVE FALSE
      <4>1. chunks[i].end <= chunks[j].start /\ chunks[j].start < r.end
        BY <1>3, <1>6, <2>1, <2>2, <2>8, <3>1
      <4>2. r.start < q.end /\ q.start < r.end
        BY <1>3, <2>1, <2>2, <3>1, <3>4, <4>1, RegionIs
      <4>3. q = r
        BY <4>2, OneRegion
      <4> QED  BY <1>3, <2>1, <3>1, <3>4, <4>1, <4>3
    <3> QED  BY <3>3, <3>4 DEF EndsRegion
  <2>9. ASSUME NEW i \in ChunksOf(r)
        PROVE  chunks[i].start < chunks[i].end /\ chunks[i].end - chunks[i].start <= HardMax
    BY <1>3, <2>2
  <2> QED  BY <2>5, <2>6, <2>7, <2>8, <2>9, Zenon DEF CoversRegion
<1>8. \A i \in DOMAIN work.chunks :
        \E r \in input.regions :
          r.start <= work.chunks[i].start /\ work.chunks[i].end <= r.end
  BY <1>1, <1>3
<1>9. \A r \in input.regions : CoversRegion(r)
  BY <1>7
<1> QED  BY <1>8, <1>9, Zenon DEF CoverageIsComplete

-----------------------------------------------------------------------------
(*                  What the chunks cut so far satisfy                     *)

StartsRegion(time) == \E r \in input.regions : time = r.start

Least == IF UsesNative THEN MinimumChunk ELSE PreferredMin

ShortIsTail(chunks, i) ==
  chunks[i].end - chunks[i].start < Least =>
    \/ StartsRegion(chunks[i].start) /\ EndsRegion(chunks[i].end)
    \/ /\ Policy # "legacy" /\ i > 1
       /\ EndsRegion(chunks[i].end) /\ ~StartsRegion(chunks[i].start)
       /\ chunks[i].end - chunks[i - 1].start > HardMax
    \/ Policy = "legacy" /\ HardMax < 2 * PreferredMin

IsLastResort(c) ==
  LET None(pauses, limit) ==
        \A p \in pauses : p \notin (c.start + PreferredMin)..(c.start + limit)
  IN Policy # "legacy" =>
       /\ c.endReason = "hard_maximum" => None(Pauses, HardMax)
       /\ Policy = "community" /\ c.conflict => None(CleanPauses, HardMax)
       /\ c.phase = "relaxed_any" /\ c.endReason # "episode_end" =>
            \A r \in {q \in input.regions : q.start <= c.start /\ c.end <= q.end} :
              None({p \in Pauses : p <= r.end}, RelaxedCleanMax)

Judged(chunks) ==
  \A i \in 1..Len(chunks) : ShortIsTail(chunks, i) /\ IsLastResort(chunks[i])

(* The same of the chunk that a cut appends.                               *)
ShortNew(end) ==
  end - work.start < Least =>
    \/ StartsRegion(work.start) /\ EndsRegion(end)
    \/ /\ Policy # "legacy" /\ EndsRegion(end) /\ ~StartsRegion(work.start)
       /\ Len(work.chunks) > 0
       /\ end - work.chunks[Len(work.chunks)].start > HardMax
    \/ Policy = "legacy" /\ HardMax < 2 * PreferredMin

LastResortNew(reason, phase, conflict) ==
  Policy # "legacy" =>
    /\ reason = "hard_maximum" => NoneOf(Pauses, HardMax)
    /\ Policy = "community" /\ conflict => NoneOf(CleanPauses, HardMax)
    /\ phase = "relaxed_any" /\ reason # "episode_end" =>
         NoneOf({p \in Pauses : p <= work.region.end}, RelaxedCleanMax)

NewChunk(end, reason, phase, conflict) ==
  Chunk(work.start, end, StartReason, reason, phase, conflict)

LEMMA JudgedCut ==
  ASSUME input \in ChunkingInput, RegionsAreValid,
         Shape(work.chunks, work.region, work.start, work.todo), ~RegionIsDone,
         Judged(work.chunks),
         NEW end \in Int, NEW reason, NEW phase, NEW conflict,
         work.start < end, end <= work.region.end,
         ShortNew(end), LastResortNew(reason, phase, conflict)
  PROVE  Judged(Append(work.chunks, NewChunk(end, reason, phase, conflict)))
<1>1. PICK c, new : c = NewChunk(end, reason, phase, conflict) /\ new = Append(work.chunks, c)
  OBVIOUS
<1>2. \E C : work.chunks \in Seq(C)
  BY DEF Shape
<1>3. PICK n \in Nat : /\ n = Len(work.chunks) /\ Len(new) = n + 1
                       /\ \A i \in 1..n : new[i] = work.chunks[i]
                       /\ new[n + 1] = c
  BY <1>1, <1>2, Appended
<1>4. /\ c.start = work.start /\ c.end = end /\ c.endReason = reason /\ c.phase = phase
      /\ c.conflict = conflict
  BY <1>1 DEF NewChunk, Chunk
<1>5. ASSUME NEW i \in 1..n PROVE ShortIsTail(new, i) /\ IsLastResort(new[i])
  <2>1. ShortIsTail(work.chunks, i) /\ IsLastResort(work.chunks[i])
    BY <1>3 DEF Judged
  <2>2. new[i] = work.chunks[i] /\ (i > 1 => new[i - 1] = work.chunks[i - 1])
    BY <1>3
  <2>3. ShortIsTail(new, i)
    BY <2>1, <2>2 DEF ShortIsTail
  <2> QED  BY <2>1, <2>2, <2>3
<1>6. ShortIsTail(new, n + 1)
  <2>1. n > 0 => new[n + 1 - 1] = work.chunks[n] /\ n + 1 > 1
    BY <1>3
  <2> QED  BY <1>3, <1>4, <2>1 DEF ShortIsTail, ShortNew
<1>7. IsLastResort(c)
  <2>1. ASSUME NEW r \in input.regions, r.start <= c.start, c.end <= r.end
        PROVE  r = work.region
    <3>1. /\ work.region \in input.regions
          /\ work.start \in Int /\ work.region.start \in Int /\ work.region.end \in Int
          /\ work.region.start <= work.start /\ work.start < work.region.end
      BY Being DEF RegionIsDone
    <3>2. r.start < work.region.end /\ work.region.start < r.end
      BY <1>4, <2>1, <3>1, RegionIs
    <3> QED  BY <3>1, <3>2, OneRegion
  <2> QED  BY <1>4, <2>1 DEF IsLastResort, LastResortNew, NoneOf
<1>8. \A i \in 1..(n + 1) : i \in 1..n \/ i = n + 1
  OBVIOUS
<1>9. Judged(new)
  BY <1>3, <1>5, <1>6, <1>7, <1>8 DEF Judged
<1> QED  BY <1>1, <1>9

(* Nothing inside a region starts or ends another.                         *)
LEMMA InsideRegion ==
  ASSUME input \in ChunkingInput, RegionsAreValid,
         Shape(work.chunks, work.region, work.start, work.todo), ~RegionIsDone,
         work.start > work.region.start
  PROVE  ~StartsRegion(work.start) /\ ~EndsRegion(work.start)
<1>1. /\ work.region \in input.regions
      /\ work.start \in Int /\ work.region.start \in Int /\ work.region.end \in Int
      /\ work.region.start <= work.start /\ work.start < work.region.end
  BY Being DEF RegionIsDone
<1>2. ASSUME NEW r \in input.regions, work.start = r.start \/ work.start = r.end
      PROVE  FALSE
  <2>1. r.start < work.region.end /\ work.region.start < r.end
    BY <1>1, <1>2, RegionIs
  <2>2. r = work.region
    BY <1>1, <2>1, OneRegion
  <2> QED  BY <1>1, <1>2, <2>2
<1> QED  BY <1>2 DEF StartsRegion, EndsRegion

LEMMA JudgedMerge ==
  ASSUME input \in ChunkingInput, RegionsAreValid,
         Shape(work.chunks, work.region, work.start, work.todo), ~RegionIsDone,
         Judged(work.chunks), Policy # "legacy", work.start > work.region.start,
         NEW c, c.start = work.chunks[Len(work.chunks)].start, c.end = work.region.end,
         c.endReason = "episode_end", c.conflict = FALSE
  PROVE  Judged([work.chunks EXCEPT ![Len(work.chunks)] = c])
<1>1. PICK new : new = [work.chunks EXCEPT ![Len(work.chunks)] = c]
  OBVIOUS
<1>2. (\E C : work.chunks \in Seq(C)) /\ Len(work.chunks) > 0
  BY DEF Shape
<1>3. PICK n \in Nat : /\ n = Len(work.chunks) /\ Len(new) = n /\ n > 0
                       /\ \A i \in 1..n : i # n => new[i] = work.chunks[i]
                       /\ new[n] = c
  <2>1. /\ Len(work.chunks) \in Nat /\ Len(new) = Len(work.chunks) /\ new[Len(work.chunks)] = c
        /\ \A i \in 1..Len(work.chunks) : i # Len(work.chunks) => new[i] = work.chunks[i]
    BY <1>1, <1>2, Replaced
  <2> QED  BY <1>2, <2>1
<1>4. ASSUME NEW i \in 1..n, i # n PROVE ShortIsTail(new, i) /\ IsLastResort(new[i])
  <2>1. ShortIsTail(work.chunks, i) /\ IsLastResort(work.chunks[i])
    BY <1>3 DEF Judged
  <2>2. new[i] = work.chunks[i] /\ (i > 1 => new[i - 1] = work.chunks[i - 1])
    BY <1>3, <1>4
  <2>3. ShortIsTail(new, i)
    BY <2>1, <2>2 DEF ShortIsTail
  <2> QED  BY <2>1, <2>2, <2>3
<1>5. ShortIsTail(new, n)
  <2>1. /\ work.start \in Int /\ work.region.end \in Int /\ work.start < work.region.end
    BY Being DEF RegionIsDone
  <2>2. /\ work.chunks[n].end = work.start /\ work.chunks[n].start \in Int
    BY <1>3 DEF Shape, IsCut
  <2>3. ~EndsRegion(work.chunks[n].end)
    BY <2>2, InsideRegion
  <2>4. ShortIsTail(work.chunks, n)
    BY <1>3 DEF Judged
  <2>5. ~(work.chunks[n].end - work.chunks[n].start < Least)
    BY <2>3, <2>4 DEF ShortIsTail
  <2>6. Least \in Int
    BY LimitsOrdered, PolicyIs DEF Least
  <2>7. ~(new[n].end - new[n].start < Least)
    BY <1>3, <2>1, <2>2, <2>5, <2>6
  <2> QED  BY <2>7 DEF ShortIsTail
<1>6. IsLastResort(c)
  <2>1. "episode_end" # "hard_maximum"
    OBVIOUS
  <2> QED  BY <2>1 DEF IsLastResort
<1>7. Judged(new)
  BY <1>3, <1>4, <1>5, <1>6 DEF Judged
<1> QED  BY <1>1, <1>7

-----------------------------------------------------------------------------
(*                        The inductive invariant                          *)

SoFar ==
  /\ RegionsAreValid
  /\ Policy = "community" => work.candidates = CommunityBoundaries
  /\ Policy = "legacy" => work.candidates = LegacyBoundaries
  /\ Shape(work.chunks, work.region, work.start, work.todo)
  /\ Judged(work.chunks)
  /\ Policy = "legacy" /\ work.region.start < work.start /\ work.start < work.region.end =>
       work.region.end - work.start >= PreferredMin

Segmented ==
  /\ input \in ChunkingInput
  /\ {"phase", "todo", "region", "start", "candidates", "chunks"} \subseteq DOMAIN work
  /\ work.phase \in {"given", "cutting", "rejected", "published"}
  /\ work.phase = "given" => work = ChunkingWork
  /\ work.phase = "cutting" \/ work.phase = "published" => SoFar

(* A chunk that may be cut here.                                           *)
GoodCut ==
  \E end \in Int : \E reason, phase, conflict :
    /\ Cut(end, reason, phase, conflict)
    /\ work.start < end /\ end <= work.region.end /\ end - work.start <= HardMax
    /\ ShortNew(end) /\ LastResortNew(reason, phase, conflict)
    /\ Policy = "legacy" /\ end < work.region.end => work.region.end - end >= PreferredMin

LEMMA Here ==
  ASSUME Segmented, work.phase = "cutting", ~RegionIsDone
  PROVE  /\ input \in ChunkingInput /\ SoFar
         /\ work.region \in input.regions
         /\ work.start \in Int /\ work.region.start \in Int /\ work.region.end \in Int
         /\ work.region.start <= work.start /\ work.start < work.region.end
         /\ StartsRegion(work.region.start) /\ EndsRegion(work.region.end)
<1>1. input \in ChunkingInput /\ SoFar /\ Shape(work.chunks, work.region, work.start, work.todo)
  BY DEF Segmented, SoFar
<1>2. /\ work.region \in input.regions
      /\ work.start \in Int /\ work.region.start \in Int /\ work.region.end \in Int
      /\ work.region.start <= work.start /\ work.start < work.region.end
  BY <1>1, Being DEF RegionIsDone
<1> QED  BY <1>1, <1>2 DEF StartsRegion, EndsRegion

(* What is left when it cannot be merged is short only without alternative.*)
LEMMA LastIsShort ==
  ASSUME Segmented, work.phase = "cutting", ~RegionIsDone, Policy # "legacy", ~Mergeable(Least)
  PROVE  ShortNew(work.region.end)
<1>1. /\ SoFar /\ input \in ChunkingInput /\ work.region \in input.regions
      /\ work.start \in Int /\ work.region.start \in Int /\ work.region.end \in Int
      /\ work.region.start <= work.start
      /\ StartsRegion(work.region.start) /\ EndsRegion(work.region.end)
  BY Here
<1>2. CASE work.start = work.region.start
  BY <1>1, <1>2 DEF ShortNew
<1>3. CASE work.start > work.region.start
  <2>1. ~StartsRegion(work.start)
    BY <1>1, <1>3, InsideRegion DEF SoFar
  <2>2. PICK n \in Nat : n = Len(work.chunks)
    BY <1>1, Appended DEF SoFar, Shape
  <2>3. n > 0 /\ work.chunks[n].start \in Int
    BY <1>1, <1>3, <2>2 DEF SoFar, Shape, IsCut
  <2>4. HardMax \in Int
    BY LimitsOrdered
  <2>5. work.region.end - work.start < Least =>
          work.region.end - work.chunks[n].start > HardMax
    BY <1>1, <1>3, <2>2, <2>3, <2>4 DEF Mergeable, Remaining, RegionHasChunk
  <2> QED  BY <1>1, <2>1, <2>2, <2>3, <2>5 DEF ShortNew
<1> QED  BY <1>1, <1>2, <1>3

LEMMA LongIsFine ==
  ASSUME Segmented, work.phase = "cutting", ~RegionIsDone,
         NEW end \in Int, work.start + PreferredMin <= end
  PROVE  ShortNew(end) /\ work.start < end
<1>1. work.start \in Int
  BY Here
<1>2. Least \in Int /\ Least <= PreferredMin /\ PreferredMin \in Int /\ PreferredMin > 0
  BY LimitsOrdered, PolicyIs DEF Least
<1>3. ~(end - work.start < Least) /\ work.start < end
  BY <1>1, <1>2
<1> QED  BY <1>3 DEF ShortNew

LEMMA LegacyLastIsGood ==
  ASSUME Segmented, LegacyLast
  PROVE  GoodCut
<1>1. /\ work.phase = "cutting" /\ ~RegionIsDone /\ Policy = "legacy"
      /\ Remaining <= HardMax
      /\ Cut(work.region.end, "none", "none", FALSE)
  BY DEF LegacyLast, Cutting
<1>2. /\ SoFar /\ input \in ChunkingInput
      /\ work.start \in Int /\ work.region.start \in Int /\ work.region.end \in Int
      /\ work.region.start <= work.start /\ work.start < work.region.end
      /\ StartsRegion(work.region.start) /\ EndsRegion(work.region.end)
  BY <1>1, Here
<1>3. ShortNew(work.region.end)
  <2>1. CASE work.start = work.region.start
    BY <1>2, <2>1 DEF ShortNew
  <2>2. CASE work.start > work.region.start
    <3>1. work.region.end - work.start >= PreferredMin
      BY <1>1, <1>2, <2>2 DEF SoFar
    <3>2. Least = PreferredMin /\ PreferredMin \in Int
      BY <1>1, PolicyIs, LimitsOrdered DEF Least
    <3>3. ~(work.region.end - work.start < Least)
      BY <1>2, <3>1, <3>2
    <3> QED  BY <3>3 DEF ShortNew
  <2> QED  BY <1>2, <2>1, <2>2
<1>4. LastResortNew("none", "none", FALSE)
  BY <1>1 DEF LastResortNew
<1>5. PICK end \in Int : end = work.region.end
  BY <1>2
<1>6. /\ work.start < end /\ end <= work.region.end /\ end - work.start <= HardMax
      /\ ~(end < work.region.end)
  BY <1>1, <1>2, <1>5 DEF Remaining
<1>7. Cut(end, "none", "none", FALSE) /\ ShortNew(end)
  BY <1>1, <1>3, <1>5
<1> QED  BY <1>4, <1>6, <1>7, Zenon DEF GoodCut

LEMMA LegacyCutIsGood ==
  ASSUME Segmented, LegacyCut
  PROVE  GoodCut
<1>1. /\ work.phase = "cutting" /\ ~RegionIsDone /\ Policy = "legacy"
      /\ Remaining > HardMax
      /\ Cut(LegacyEnd, "none", "none", FALSE)
  BY DEF LegacyCut, Cutting
<1>2. /\ SoFar /\ input \in ChunkingInput
      /\ work.start \in Int /\ work.region.start \in Int /\ work.region.end \in Int
  BY <1>1, Here
<1>3. /\ LegacyEnd \in Int /\ work.start < LegacyEnd /\ LegacyEnd - work.start <= HardMax
      /\ work.region.end - LegacyEnd >= PreferredMin
      /\ LegacyEnd - work.start >= PreferredMin \/ HardMax < 2 * PreferredMin
  BY <1>1, <1>2, LegacyEndIs DEF SoFar
<1>4. Least = PreferredMin /\ PreferredMin \in Int /\ PreferredMin > 0
  BY <1>1, PolicyIs, LimitsOrdered DEF Least
<1>5. PICK end \in Int : end = LegacyEnd
  BY <1>3
<1>6. /\ work.start < end /\ end <= work.region.end /\ end - work.start <= HardMax
      /\ work.region.end - end >= PreferredMin
  BY <1>2, <1>3, <1>4, <1>5
<1>7. ShortNew(end)
  <2>1. end - work.start < Least => HardMax < 2 * PreferredMin
    BY <1>2, <1>3, <1>4, <1>5
  <2> QED  BY <1>1, <2>1 DEF ShortNew
<1>8. Cut(end, "none", "none", FALSE) /\ LastResortNew("none", "none", FALSE)
  BY <1>1, <1>5 DEF LastResortNew
<1> QED  BY <1>6, <1>7, <1>8, Zenon DEF GoodCut

LEMMA TailIsGood ==
  ASSUME Segmented, work.phase = "cutting", ~RegionIsDone, Policy # "legacy", ~Mergeable(Least),
         Remaining <= HardMax, NEW phase, Cut(work.region.end, "episode_end", phase, FALSE)
  PROVE  GoodCut
<1>1. ShortNew(work.region.end)
  BY LastIsShort
<1>2. work.start \in Int /\ work.region.end \in Int /\ work.start < work.region.end
  BY Here
<1>3. PICK end \in Int : end = work.region.end
  BY <1>2
<1>4. /\ work.start < end /\ end <= work.region.end /\ end - work.start <= HardMax
      /\ ~(end < work.region.end)
  BY <1>2, <1>3 DEF Remaining
<1>5. LastResortNew("episode_end", phase, FALSE)
  <2>1. "episode_end" # "hard_maximum"
    OBVIOUS
  <2> QED  BY <2>1 DEF LastResortNew
<1>6. Cut(end, "episode_end", phase, FALSE) /\ ShortNew(end)
  BY <1>1, <1>3
<1> QED  BY <1>4, <1>5, <1>6, Zenon DEF GoodCut

LEMMA CommunityLastIsGood ==
  ASSUME Segmented, CommunityLast
  PROVE  GoodCut
<1>1. /\ work.phase = "cutting" /\ ~RegionIsDone /\ Policy = "community"
      /\ ~Mergeable(PreferredMin) /\ Remaining <= HardMax
      /\ Cut(work.region.end, "episode_end", "none", FALSE)
  BY DEF CommunityLast, Cutting
<1>2. Policy # "legacy" /\ Least = PreferredMin
  BY <1>1, PolicyIs DEF Least
<1> QED  BY <1>1, <1>2, TailIsGood

LEMMA NativeLastIsGood ==
  ASSUME Segmented, NativeLast
  PROVE  GoodCut
<1>1. /\ work.phase = "cutting" /\ ~RegionIsDone /\ Policy = "native"
      /\ ~Mergeable(MinimumChunk) /\ Remaining <= Target
      /\ Cut(work.region.end, "episode_end", "preferred", FALSE)
  BY DEF NativeLast, Cutting
<1>2. Policy # "legacy" /\ Least = MinimumChunk
  BY <1>1, PolicyIs DEF Least
<1>3. Remaining <= HardMax
  <2>1. work.start \in Int /\ work.region.end \in Int
    BY <1>1, Here
  <2> QED  BY <1>1, <2>1, LimitsOrdered DEF Remaining
<1> QED  BY <1>1, <1>2, <1>3, TailIsGood

LEMMA CommunityCutIsGood ==
  ASSUME Segmented, CommunityCut
  PROVE  GoodCut
<1>1. work.phase = "cutting" /\ ~RegionIsDone /\ Policy = "community"
  BY DEF CommunityCut, Cutting
<1>2. /\ SoFar /\ input \in ChunkingInput /\ work.start \in Int /\ work.region.end \in Int
  BY <1>1, Here
<1>3. ~UsesNative
  BY <1>1, PolicyIs
<1>4. PICK end, conflict, reason :
        /\ end \in Int /\ conflict \in BOOLEAN
        /\ Cut(end, reason, "none", conflict)
        /\ work.start + PreferredMin <= end /\ end <= work.start + HardMax
        /\ end <= work.region.end
        /\ reason = "hard_maximum" => NoneOf(Pauses, HardMax)
        /\ conflict => NoneOf(CleanPauses, HardMax)
  BY <1>1, <1>2, <1>3, CommunityCutIs DEF SoFar
<1>5. ShortNew(end) /\ work.start < end /\ end - work.start <= HardMax
  BY <1>1, <1>2, <1>4, LongIsFine, LimitsOrdered
<1>6. LastResortNew(reason, "none", conflict)
  <2>1. "none" # "relaxed_any"
    OBVIOUS
  <2> QED  BY <1>4, <2>1 DEF LastResortNew
<1>7. Policy # "legacy"
  BY <1>1
<1> QED  BY <1>4, <1>5, <1>6, <1>7, Zenon DEF GoodCut

LEMMA NativeSelectIsGood ==
  ASSUME Segmented, NativeSelect
  PROVE  GoodCut
<1>1. work.phase = "cutting" /\ ~RegionIsDone /\ Policy = "native"
  BY DEF NativeSelect, Cutting
<1>2. /\ SoFar /\ input \in ChunkingInput /\ work.start \in Int /\ work.region.end \in Int
  BY <1>1, Here
<1>3. UsesNative
  BY <1>1, PolicyIs
<1>4. PICK end, conflict, reason, phase :
        /\ end \in Int /\ conflict \in BOOLEAN
        /\ Cut(end, reason, phase, conflict)
        /\ work.start + PreferredMin <= end /\ end <= work.start + HardMax
        /\ end <= work.region.end
        /\ reason = "hard_maximum" => NoneOf(Pauses, HardMax)
        /\ phase = "relaxed_any" /\ reason # "episode_end" =>
             NoneOf({p \in Pauses : p <= work.region.end}, RelaxedCleanMax)
  BY <1>2, <1>3, NativeSelectIs
<1>5. ShortNew(end) /\ work.start < end /\ end - work.start <= HardMax
  BY <1>1, <1>2, <1>4, LongIsFine, LimitsOrdered
<1>6. Policy # "legacy" /\ Policy # "community"
  BY <1>1
<1>7. LastResortNew(reason, phase, conflict)
  BY <1>4, <1>6 DEF LastResortNew
<1> QED  BY <1>4, <1>5, <1>6, <1>7, Zenon DEF GoodCut

-----------------------------------------------------------------------------
(*                     Every step keeps the invariant                      *)

LEMMA SameInput ==
  ASSUME UNCHANGED input
  PROVE  /\ UsesNative' <=> UsesNative
         /\ UsesCommunity' <=> UsesCommunity
         /\ Policy' = Policy /\ Least' = Least
         /\ Pauses' = Pauses /\ CleanPauses' = CleanPauses
         /\ RegionsAreValid' <=> RegionsAreValid
         /\ CommunityBoundaries' = CommunityBoundaries
         /\ LegacyBoundaries' = LegacyBoundaries
         /\ (input \in ChunkingInput)' <=> input \in ChunkingInput
<1>1. (UsesNative' <=> UsesNative) /\ (UsesCommunity' <=> UsesCommunity)
  BY DEF UsesNative, UsesCommunity
<1>2. Policy' = Policy /\ Least' = Least
  BY <1>1 DEF Policy, Least
<1>3. Pauses' = Pauses
  BY <1>1 DEF Pauses
<1>4. CleanPauses' = CleanPauses
  BY <1>3 DEF CleanPauses
<1>5. RegionsAreValid' <=> RegionsAreValid
  BY DEF RegionsAreValid
<1>6. CommunityBoundaries' = CommunityBoundaries
  BY DEF CommunityBoundaries, GapCandidates
<1>7. LegacyBoundaries' = LegacyBoundaries
  BY DEF LegacyBoundaries
<1>8. (input \in ChunkingInput)' <=> input \in ChunkingInput
  OBVIOUS
<1> QED  BY <1>1, <1>2, <1>3, <1>4, <1>5, <1>6, <1>7, <1>8

LEMMA ShapeNext ==
  ASSUME UNCHANGED input, NEW chunks, NEW region, NEW start, NEW todo,
         chunks = work'.chunks, region = work'.region, start = work'.start, todo = work'.todo,
         Shape(chunks, region, start, todo)
  PROVE  Shape(work.chunks, work.region, work.start, work.todo)'
BY DEF Shape, IsCut, EndsRegion

LEMMA JudgedNext ==
  ASSUME UNCHANGED input, NEW chunks, chunks = work'.chunks, Judged(chunks)
  PROVE  Judged(work.chunks)'
<1>1. Policy' = Policy /\ Least' = Least /\ Pauses' = Pauses /\ CleanPauses' = CleanPauses
  BY SameInput
<1> QED  BY <1>1 DEF Judged, ShortIsTail, IsLastResort, StartsRegion, EndsRegion

LEMMA CutKeeps ==
  ASSUME Segmented, work.phase = "cutting", ~RegionIsDone, GoodCut
  PROVE  Segmented'
<1>1. PICK end, reason, phase, conflict :
        /\ end \in Int
        /\ Cut(end, reason, phase, conflict)
        /\ work.start < end /\ end <= work.region.end /\ end - work.start <= HardMax
        /\ ShortNew(end) /\ LastResortNew(reason, phase, conflict)
        /\ Policy = "legacy" /\ end < work.region.end => work.region.end - end >= PreferredMin
  BY Zenon DEF GoodCut
<1>2. /\ input \in ChunkingInput /\ SoFar
      /\ {"phase", "todo", "region", "start", "candidates", "chunks"} \subseteq DOMAIN work
  BY DEF Segmented
<1>3. PICK c, chunks, region, start, todo :
        /\ c = NewChunk(end, reason, phase, conflict)
        /\ chunks = work.chunks /\ region = work.region /\ start = work.start /\ todo = work.todo
  OBVIOUS
<1>4. UNCHANGED input /\ work' = [work EXCEPT !.start = end, !.chunks = Append(@, c)]
  BY <1>1, <1>3 DEF Cut, NewChunk
<1>5. /\ work'.start = end /\ work'.chunks = Append(chunks, c) /\ work'.phase = work.phase
      /\ work'.region = region /\ work'.todo = todo /\ work'.candidates = work.candidates
      /\ DOMAIN work' = DOMAIN work
  BY <1>2, <1>3, <1>4
<1>6. Shape(Append(chunks, c), region, end, todo)
  <2>1. Shape(chunks, region, start, todo) /\ start # region.end
    BY <1>2, <1>3 DEF SoFar, RegionIsDone
  <2>2. c.start = start /\ c.end = end
    BY <1>3 DEF NewChunk, Chunk
  <2> QED  BY <1>1, <1>2, <1>3, <2>1, <2>2, ShapeCut
<1>7. Judged(Append(chunks, c))
  BY <1>1, <1>2, <1>3, JudgedCut DEF SoFar
<1>8. Shape(work.chunks, work.region, work.start, work.todo)'
  BY <1>4, <1>5, <1>6, ShapeNext
<1>9. Judged(work.chunks)'
  BY <1>4, <1>5, <1>7, JudgedNext
<1>10. SoFar'
  <2>1. (Policy = "community" => work.candidates = CommunityBoundaries)'
    BY <1>2, <1>4, <1>5, SameInput DEF SoFar
  <2>2. (Policy = "legacy" => work.candidates = LegacyBoundaries)'
    BY <1>2, <1>4, <1>5, SameInput DEF SoFar
  <2>3. RegionsAreValid'
    BY <1>2, <1>4, SameInput DEF SoFar
  <2>4. (Policy = "legacy" /\ work.region.start < work.start /\ work.start < work.region.end =>
           work.region.end - work.start >= PreferredMin)'
    BY <1>1, <1>3, <1>4, <1>5, SameInput
  <2> QED  BY <1>8, <1>9, <2>1, <2>2, <2>3, <2>4 DEF SoFar
<1> QED  BY <1>2, <1>4, <1>5, <1>10 DEF Segmented

LEMMA MergeKeeps ==
  ASSUME Segmented, work.phase = "cutting", ~RegionIsDone, Policy # "legacy",
         NEW minimum, Mergeable(minimum), MergeTail
  PROVE  Segmented'
<1>1. /\ input \in ChunkingInput /\ SoFar
      /\ {"phase", "todo", "region", "start", "candidates", "chunks"} \subseteq DOMAIN work
  BY DEF Segmented
<1>2. PICK last, c, chunks, region, start, todo :
        /\ last = work.chunks[Len(work.chunks)]
        /\ c = Chunk(last.start, work.region.end, last.startReason, "episode_end", last.phase,
                     FALSE)
        /\ chunks = work.chunks /\ region = work.region /\ start = work.start /\ todo = work.todo
  OBVIOUS
<1>3. /\ UNCHANGED input
      /\ work' = [work EXCEPT !.start = work.region.end, !.chunks[Len(work.chunks)] = c]
  BY <1>2 DEF MergeTail
<1>4. /\ work'.start = region.end /\ work'.chunks = [chunks EXCEPT ![Len(chunks)] = c]
      /\ work'.phase = work.phase
      /\ work'.region = region /\ work'.todo = todo /\ work'.candidates = work.candidates
      /\ DOMAIN work' = DOMAIN work
  BY <1>1, <1>2, <1>3
<1>5. start > region.start /\ region.end - chunks[Len(chunks)].start <= HardMax
  BY <1>2 DEF Mergeable, RegionHasChunk
<1>6. /\ c.start = chunks[Len(chunks)].start /\ c.end = region.end
      /\ c.endReason = "episode_end" /\ c.conflict = FALSE
  BY <1>2 DEF Chunk
<1>7. Shape([chunks EXCEPT ![Len(chunks)] = c], region, region.end, todo)
  <2>1. Shape(chunks, region, start, todo) /\ start # region.end /\ RegionsAreValid
    BY <1>1, <1>2 DEF SoFar, RegionIsDone
  <2> QED  BY <1>1, <1>5, <1>6, <2>1, ShapeMerge
<1>8. Judged([chunks EXCEPT ![Len(chunks)] = c])
  BY <1>1, <1>2, <1>5, <1>6, JudgedMerge DEF SoFar
<1>9. Shape(work.chunks, work.region, work.start, work.todo)'
  BY <1>3, <1>4, <1>7, ShapeNext
<1>10. Judged(work.chunks)'
  BY <1>3, <1>4, <1>8, JudgedNext
<1>11. SoFar'
  <2>1. (Policy = "community" => work.candidates = CommunityBoundaries)'
    BY <1>1, <1>3, <1>4, SameInput DEF SoFar
  <2>2. Policy' # "legacy"
    BY <1>3, SameInput
  <2>3. RegionsAreValid'
    BY <1>1, <1>3, SameInput DEF SoFar
  <2> QED  BY <1>9, <1>10, <2>1, <2>2, <2>3 DEF SoFar
<1> QED  BY <1>1, <1>3, <1>4, <1>11 DEF Segmented

LEMMA PrepareKeeps ==
  ASSUME Segmented, Prepare
  PROVE  Segmented'
<1>1. UNCHANGED input /\ input \in ChunkingInput /\ work = ChunkingWork
  BY DEF Prepare, Segmented
<1>2. {"phase", "todo", "region", "start", "candidates", "chunks"} \subseteq DOMAIN work
  BY DEF Segmented
<1>3. CASE InputIsValid
  <2>1. PICK candidates : candidates = CASE UsesNative    -> {}
                                         [] UsesCommunity -> CommunityBoundaries
                                         [] OTHER         -> LegacyBoundaries
    OBVIOUS
  <2>2. work' = [work EXCEPT !.phase = "cutting", !.todo = input.regions,
                   !.candidates = candidates]
    BY <1>3, <2>1 DEF Prepare
  <2>3. /\ work'.phase = "cutting" /\ work'.todo = input.regions
        /\ work'.candidates = candidates /\ DOMAIN work' = DOMAIN work
        /\ work'.region = [start |-> 0, end |-> 0] /\ work'.start = 0 /\ work'.chunks = <<>>
    BY <1>1, <1>2, <2>2 DEF ChunkingWork
  <2>4. Shape(work.chunks, work.region, work.start, work.todo)'
    BY <1>1, <2>3, ShapeStart, ShapeNext
  <2>5. Judged(work.chunks)'
    BY <2>3 DEF Judged
  <2>6. RegionsAreValid'
    BY <1>1, <1>3, SameInput DEF InputIsValid
  <2>7. /\ (Policy = "community" => work.candidates = CommunityBoundaries)'
        /\ (Policy = "legacy" => work.candidates = LegacyBoundaries)'
    <3>1. /\ Policy = "community" => ~UsesNative /\ UsesCommunity
          /\ Policy = "legacy" => ~UsesNative /\ ~UsesCommunity
      BY DEF Policy
    <3>2. /\ Policy = "community" => candidates = CommunityBoundaries
          /\ Policy = "legacy" => candidates = LegacyBoundaries
      BY <2>1, <3>1, PolicyIs
    <3> QED  BY <1>1, <2>3, <3>2, SameInput
  <2>8. SoFar'
    BY <2>3, <2>4, <2>5, <2>6, <2>7 DEF SoFar
  <2> QED  BY <1>1, <1>2, <2>3, <2>8 DEF Segmented
<1>4. CASE ~InputIsValid
  <2>1. work' = [work EXCEPT !.phase = "rejected"]
    BY <1>4 DEF Prepare
  <2>2. work'.phase = "rejected" /\ DOMAIN work' = DOMAIN work
    BY <1>2, <2>1
  <2> QED  BY <1>1, <1>2, <2>2 DEF Segmented
<1> QED  BY <1>3, <1>4

LEMMA OpenKeeps ==
  ASSUME Segmented, OpenRegion
  PROVE  Segmented'
<1>1. /\ input \in ChunkingInput /\ SoFar /\ UNCHANGED input /\ RegionIsDone
      /\ work.phase = "cutting"
      /\ {"phase", "todo", "region", "start", "candidates", "chunks"} \subseteq DOMAIN work
  BY DEF Segmented, OpenRegion
<1>2. PICK r \in work.todo :
        /\ \A other \in work.todo : r.start <= other.start
        /\ work' = [work EXCEPT !.todo = @ \ {r}, !.region = r, !.start = r.start]
  BY Zenon DEF OpenRegion
<1>3. PICK chunks, region, start, todo :
        chunks = work.chunks /\ region = work.region /\ start = work.start /\ todo = work.todo
  OBVIOUS
<1>4. /\ work'.start = r.start /\ work'.chunks = chunks /\ work'.phase = work.phase
      /\ work'.region = r /\ work'.todo = todo \ {r} /\ work'.candidates = work.candidates
      /\ DOMAIN work' = DOMAIN work
  BY <1>1, <1>2, <1>3
<1>5. Shape(chunks, r, r.start, todo \ {r})
  <2>1. Shape(chunks, region, start, todo) /\ start = region.end /\ RegionsAreValid
    BY <1>1, <1>3 DEF SoFar, RegionIsDone
  <2> QED  BY <1>1, <1>2, <1>3, <2>1, ShapeOpen
<1>6. Shape(work.chunks, work.region, work.start, work.todo)'
  BY <1>1, <1>4, <1>5, ShapeNext
<1>7. Judged(work.chunks)'
  BY <1>1, <1>3, <1>4, JudgedNext DEF SoFar
<1>8. r \in input.regions
  BY <1>1 DEF SoFar, Shape
<1>9. SoFar'
  <2>1. (Policy = "community" => work.candidates = CommunityBoundaries)'
    BY <1>1, <1>4, SameInput DEF SoFar
  <2>2. (Policy = "legacy" => work.candidates = LegacyBoundaries)'
    BY <1>1, <1>4, SameInput DEF SoFar
  <2>3. RegionsAreValid'
    BY <1>1, SameInput DEF SoFar
  <2>4. ~(work'.region.start < work'.start)
    BY <1>1, <1>4, <1>8, RegionIs
  <2> QED  BY <1>6, <1>7, <2>1, <2>2, <2>3, <2>4 DEF SoFar
<1> QED  BY <1>1, <1>4, <1>9 DEF Segmented

LEMMA SoFarStays ==
  ASSUME SoFar, UNCHANGED input, work'.todo = work.todo, work'.region = work.region,
         work'.start = work.start, work'.candidates = work.candidates,
         work'.chunks = work.chunks
  PROVE  SoFar'
<1>1. PICK chunks, region, start, todo :
        chunks = work.chunks /\ region = work.region /\ start = work.start /\ todo = work.todo
  OBVIOUS
<1>2. Shape(work.chunks, work.region, work.start, work.todo)'
  BY <1>1, ShapeNext DEF SoFar
<1>3. Judged(work.chunks)'
  BY <1>1, JudgedNext DEF SoFar
<1> QED  BY <1>2, <1>3, SameInput DEF SoFar

LEMMA ValidateKeeps ==
  ASSUME Segmented, Validate
  PROVE  Segmented'
<1>1. /\ input \in ChunkingInput /\ SoFar /\ UNCHANGED input /\ RegionIsDone /\ work.todo = {}
      /\ {"phase", "todo", "region", "start", "candidates", "chunks"} \subseteq DOMAIN work
  BY DEF Segmented, Validate
<1>2. CoverageIsComplete
  BY <1>1, AllCovered DEF SoFar
<1>3. work' = [work EXCEPT !.phase = "published"]
  BY <1>2 DEF Validate
<1>4. /\ work'.phase = "published" /\ DOMAIN work' = DOMAIN work
      /\ work'.todo = work.todo /\ work'.region = work.region
      /\ work'.start = work.start /\ work'.candidates = work.candidates
      /\ work'.chunks = work.chunks
  BY <1>1, <1>3
<1>5. SoFar'
  BY <1>1, <1>4, SoFarStays
<1> QED  BY <1>1, <1>4, <1>5 DEF Segmented

LEMMA SegmentedKept ==
  ASSUME Segmented, [ChunkingNext]_computation
  PROVE  Segmented'
<1>1. CASE Prepare
  BY <1>1, PrepareKeeps
<1>2. CASE OpenRegion
  BY <1>2, OpenKeeps
<1>3. CASE LegacyLast
  <2>1. work.phase = "cutting" /\ ~RegionIsDone
    BY <1>3 DEF LegacyLast, Cutting
  <2> QED  BY <1>3, <2>1, LegacyLastIsGood, CutKeeps
<1>4. CASE LegacyCut
  <2>1. work.phase = "cutting" /\ ~RegionIsDone
    BY <1>4 DEF LegacyCut, Cutting
  <2> QED  BY <1>4, <2>1, LegacyCutIsGood, CutKeeps
<1>5. CASE CommunityMerge
  <2>1. /\ work.phase = "cutting" /\ ~RegionIsDone /\ Policy # "legacy"
        /\ Mergeable(PreferredMin) /\ MergeTail
    BY <1>5 DEF CommunityMerge, Cutting
  <2> QED  BY <2>1, MergeKeeps
<1>6. CASE CommunityLast
  <2>1. work.phase = "cutting" /\ ~RegionIsDone
    BY <1>6 DEF CommunityLast, Cutting
  <2> QED  BY <1>6, <2>1, CommunityLastIsGood, CutKeeps
<1>7. CASE CommunityCut
  <2>1. work.phase = "cutting" /\ ~RegionIsDone
    BY <1>7 DEF CommunityCut, Cutting
  <2> QED  BY <1>7, <2>1, CommunityCutIsGood, CutKeeps
<1>8. CASE NativeMerge
  <2>1. /\ work.phase = "cutting" /\ ~RegionIsDone /\ Policy # "legacy"
        /\ Mergeable(MinimumChunk) /\ MergeTail
    BY <1>8 DEF NativeMerge, Cutting
  <2> QED  BY <2>1, MergeKeeps
<1>9. CASE NativeLast
  <2>1. work.phase = "cutting" /\ ~RegionIsDone
    BY <1>9 DEF NativeLast, Cutting
  <2> QED  BY <1>9, <2>1, NativeLastIsGood, CutKeeps
<1>10. CASE NativeSelect
  <2>1. work.phase = "cutting" /\ ~RegionIsDone
    BY <1>10 DEF NativeSelect, Cutting
  <2> QED  BY <1>10, <2>1, NativeSelectIsGood, CutKeeps
<1>11. CASE Validate
  BY <1>11, ValidateKeeps
<1>12. CASE UNCHANGED computation
  <2>1. UNCHANGED input /\ UNCHANGED work
    BY <1>12 DEF computation
  <2>2. SoFar => SoFar'
    BY <2>1, SoFarStays
  <2> QED  BY <2>1, <2>2, SameInput DEF Segmented
<1> QED  BY <1>1, <1>2, <1>3, <1>4, <1>5, <1>6, <1>7, <1>8, <1>9, <1>10, <1>11, <1>12
         DEF ChunkingNext

LEMMA SegmentedAlways == ChunkingSpec => []Segmented
<1>1. input \in ChunkingInput /\ work = ChunkingWork => Segmented
  BY DEF Segmented, ChunkingWork
<1>2. Segmented /\ [ChunkingNext]_computation => Segmented'
  BY SegmentedKept
<1> QED  BY <1>1, <1>2, PTL DEF ChunkingSpec

THEOREM SegmentationSound == ChunkingSpec => []SegmentationIsSound
<1>1. ASSUME Segmented PROVE SegmentationIsSound
  <2>1. SegmentationIsAccepted
    BY <1>1 DEF Segmented, SegmentationIsAccepted
  <2>2. OnlyTailIsShort
    <3> SUFFICES ASSUME work.phase = "published", NEW i \in DOMAIN work.chunks
                 PROVE  LET c == work.chunks[i]
                            least == IF UsesNative THEN MinimumChunk ELSE PreferredMin
                            isFirst == \E r \in input.regions : c.start = r.start
                            isLast  == \E r \in input.regions : c.end = r.end
                        IN c.end - c.start < least =>
                             \/ isFirst /\ isLast
                             \/ /\ Policy # "legacy" /\ isLast /\ ~isFirst
                                /\ c.end - work.chunks[i - 1].start > HardMax
                             \/ Policy = "legacy" /\ HardMax < 2 * PreferredMin
      BY DEF OnlyTailIsShort
    <3>1. DOMAIN work.chunks = 1..Len(work.chunks) /\ Judged(work.chunks)
      BY <1>1 DEF Segmented, SoFar, Shape
    <3>2. ShortIsTail(work.chunks, i)
      BY <3>1 DEF Judged
    <3> QED  BY <3>2 DEF ShortIsTail, Least, StartsRegion, EndsRegion
  <2> QED  BY <2>1, <2>2 DEF SegmentationIsSound
<1> QED  BY <1>1, SegmentedAlways, PTL

THEOREM BadCutsAreLast == ChunkingSpec => []BadCutIsLastResort
<1>1. ASSUME Segmented PROVE BadCutIsLastResort
  <2> SUFFICES ASSUME work.phase = "published", Policy # "legacy",
                      NEW i \in DOMAIN work.chunks
               PROVE  LET c == work.chunks[i]
                          None(pauses, limit) ==
                            \A p \in pauses : p \notin (c.start + PreferredMin)..(c.start + limit)
                      IN /\ c.endReason = "hard_maximum" => None(Pauses, HardMax)
                         /\ Policy = "community" /\ c.conflict => None(CleanPauses, HardMax)
                         /\ c.phase = "relaxed_any" /\ c.endReason # "episode_end" =>
                              \A r \in {q \in input.regions :
                                          q.start <= c.start /\ c.end <= q.end} :
                                None({p \in Pauses : p <= r.end}, RelaxedCleanMax)
    BY DEF BadCutIsLastResort
  <2>1. DOMAIN work.chunks = 1..Len(work.chunks) /\ Judged(work.chunks)
    BY <1>1 DEF Segmented, SoFar, Shape
  <2>2. IsLastResort(work.chunks[i])
    BY <2>1 DEF Judged
  <2> QED  BY <2>2 DEF IsLastResort
<1> QED  BY <1>1, SegmentedAlways, PTL
=============================================================================
