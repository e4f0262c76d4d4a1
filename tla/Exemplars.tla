------------------------------ MODULE Exemplars ------------------------------
(***************************************************************************)
(* Clean excerpts of each diarized speaker (exemplars.py): the speaker's   *)
(* merged turns without their edges and without the surroundings of        *)
(* overlaps, split into pieces the embedders accept, the best first.       *)
(***************************************************************************)
EXTENDS Computation, Timeline

CONSTANTS
  MinExcerpt, PreferredExcerpt, MaxExcerpt,   \* MIN_MS, PREFERRED_MIN_MS, MAX_MS
  Transition,                                 \* TRANSITION_MS
  ExcerptLimit                                \* ten

ASSUME ExcerptAssumption ==
  /\ {MinExcerpt, PreferredExcerpt, MaxExcerpt, Transition, ExcerptLimit} \subseteq Nat \ {0}
  /\ MinExcerpt <= PreferredExcerpt /\ PreferredExcerpt <= MaxExcerpt

IsExemplars == input.kind = "exemplars"

ExemplarsWork == [todo |-> {}, output |-> <<>>, phase |-> "given"]

Interval(start, end) == [start |-> start, end |-> end]

(* Mutant: the surroundings of an overlap are used. *)
BlockedBare == {Interval(o.start, o.end) : o \in Overlaps(input.turns, input.duration)}

(* Overlaps and what is too near to them.  The result of the service       *)
(* brings its overlaps along; here they are those of its turns.            *)
Blocked ==
  {Interval(Later(0, o.start - Transition), Earlier(input.duration, o.end + Transition)) :
     o \in Overlaps(input.turns, input.duration)}

MergedTurns(speaker) ==
  RunsOf(Covered({t \in input.turns : t.speaker = speaker}))

(* _subtract drops an empty or an inverted piece only when it has an       *)
(* overlap to subtract.                                                    *)
CleanPieces(turn) ==
  LET inner == Interval(turn.start + Transition, turn.end - Transition)
  IN IF Blocked = {} THEN {inner}
     ELSE RunsOf(Covered({inner}) \ Covered(Blocked))

(* A long piece is split evenly, unless that gives less than the preferred *)
(* length; then into pieces of the maximum and a remainder.                *)
Parts(piece) ==
  LET length == piece.end - piece.start
      count  == (length + MaxExcerpt - 1) \div MaxExcerpt
      bound  == [i \in 0..count |->
                   IF length >= count * PreferredExcerpt
                     THEN piece.start + (length * i) \div count
                     ELSE Earlier(piece.start + i * MaxExcerpt, piece.end)]
  IN {Interval(bound[i], bound[i + 1]) : i \in 0..(count - 1)}

LongEnough(i) == i.end - i.start >= MinExcerpt

Candidates(turn) ==
  {p \in UNION {Parts(c) : c \in {k \in CleanPieces(turn) : LongEnough(k)}} : LongEnough(p)}

(* Mutant: the remainder of a split is not reported.*)
ExclusionsOfPieces(turn) ==
  {Interval(turn.start, Earlier(turn.end, turn.start + Transition)),
   Interval(Later(turn.start, turn.end - Transition), turn.end)}
  \union {Interval(Later(turn.start, b.start), Earlier(turn.end, b.end)) :
            b \in {k \in Blocked : Intersect(k, turn)}}
  \union {c \in CleanPieces(turn) : ~LongEnough(c)}

ExclusionsOf(turn) ==
  {Interval(turn.start, Earlier(turn.end, turn.start + Transition)),
   Interval(Later(turn.start, turn.end - Transition), turn.end)}
  \union {Interval(Later(turn.start, b.start), Earlier(turn.end, b.end)) :
            b \in {k \in Blocked : Intersect(k, turn)}}
  \union {c \in CleanPieces(turn) : ~LongEnough(c)}
  \union {p \in UNION {Parts(c) : c \in {k \in CleanPieces(turn) : LongEnough(k)}} :
            ~LongEnough(p)}
  \union (IF CleanPieces(turn) = {} THEN {turn} ELSE {})

(* Preferred lengths first, then the longest, then the earliest.           *)
RankKey(c) ==
  <<IF c.end - c.start < PreferredExcerpt THEN 1 ELSE 0, c.start - c.end, c.start>>

Better(c, candidates) == {d \in candidates \ {c} : LexLeq(RankKey(d), RankKey(c))}

ListSpeakers ==
  /\ IsExemplars /\ work.phase = "given"
  /\ work' = [work EXCEPT !.phase = "selecting", !.todo = {t.speaker : t \in input.turns}]
  /\ UNCHANGED input

(* One pass of the loop over the speakers in order.                        *)
SelectSpeaker ==
  /\ IsExemplars /\ work.phase = "selecting"
  /\ \E s \in work.todo :
       /\ \A other \in work.todo : s <= other
       /\ LET turns == MergedTurns(s)
              candidates == UNION {Candidates(t) : t \in turns}
              chosen == {c \in candidates : Cardinality(Better(c, candidates)) < ExcerptLimit}
          IN work' = [work EXCEPT !.todo = @ \ {s},
                        !.output = Append(@,
                          [speaker |-> s, searchable |-> chosen # {}, excerpts |-> chosen,
                           limited |-> candidates \ chosen,
                           exclusions |-> UNION {ExclusionsOf(t) : t \in turns}])]
  /\ UNCHANGED input

ExemplarsNext == ListSpeakers \/ SelectSpeaker

ExemplarsInput ==
  {i \in [kind : {"exemplars"}, duration : Nat,
          turns : SUBSET [speaker : Nat, start : Nat, end : Nat]] :
     IsFiniteSet(i.turns) /\ \A t \in i.turns : t.start < t.end /\ t.end <= i.duration}

ExemplarsSpec == input \in ExemplarsInput /\ work = ExemplarsWork /\ [][ExemplarsNext]_computation

-----------------------------------------------------------------------------
(* Properties *)

(* What the embedders get of a speaker is the speaker alone: in every      *)
(* excerpt, and Transition around it, nobody else speaks and the speaker   *)
(* does not stop; excerpts have an accepted length and share no audio, so  *)
(* splitting at rounded bounds and clipping at the ends of the episode     *)
(* neither shortens nor overlaps them (exemplars.py:80).                   *)
ExemplarsAreClean ==
  IsExemplars =>
    \A i \in DOMAIN work.output :
      LET o == work.output[i]
      IN /\ \A e \in o.excerpts :
              /\ e.end - e.start \in MinExcerpt..MaxExcerpt
              /\ \A tick \in (e.start - Transition)..(e.end + Transition - 1) :
                   ActiveAt(input.turns, tick) = {o.speaker}
         /\ \A e, f \in o.excerpts : e # f => ~Intersect(e, f)

(* Nothing a speaker said is dropped silently: each tick is in an excerpt  *)
(* or in an exclusion that says why not, what the limit drops is not       *)
(* longer than what it keeps, and a speaker who once speaks alone for      *)
(* MinExcerpt inside its transitions is searchable (exemplars.py:89).      *)
SpeechIsAccounted ==
  IsExemplars =>
    \A i \in DOMAIN work.output :
      LET o == work.output[i]
          spoken == {tick \in 0..(input.duration - 1) : o.speaker \in ActiveAt(input.turns, tick)}
          alone == {tick \in spoken : ActiveAt(input.turns, tick) = {o.speaker}}
      IN /\ spoken \subseteq Covered(o.excerpts \union o.limited \union o.exclusions)
         /\ \A e \in o.excerpts, l \in o.limited : e.end - e.start >= l.end - l.start
         /\ (\E r \in RunsOf(alone) : r.end - r.start >= MinExcerpt + 2 * Transition)
              <=> o.searchable

(* The excerpts of a speaker are the speaker alone, and what is not among  *)
(* them is accounted for (exemplars.py:80, 89).                            *)
ExemplarsAreSound == ExemplarsAreClean /\ SpeechIsAccounted
=============================================================================
