----------------------------- MODULE MCChunking -----------------------------
(* Chunking on small timelines: every assignment of speakers to cells.     *)
EXTENDS Chunking, SequencesExt

CONSTANTS Cells, CellTicks, Speakers

Ticks == Cells * CellTicks
Timelines == [0..(Cells - 1) -> SUBSET Speakers]

(* The maximal runs of cells where Holds is TRUE, as intervals of ticks.   *)
Runs(Holds(_)) ==
  {[start |-> p[1] * CellTicks, end |-> (p[2] + 1) * CellTicks] :
     p \in {q \in (0..(Cells - 1)) \X (0..(Cells - 1)) :
              /\ q[1] <= q[2]
              /\ \A c \in q[1]..q[2] : Holds(c)
              /\ q[1] > 0 => ~Holds(q[1] - 1)
              /\ q[2] < Cells - 1 => ~Holds(q[2] + 1)}}

TurnsOf(speaker, Holds(_)) ==
  {[speaker |-> speaker, start |-> r.start, end |-> r.end] : r \in Runs(Holds)}

Ordered(turns) ==
  SetToSortSeq(turns, LAMBDA a, b : LexLeq(TurnKey(a), TurnKey(b)) /\ a # b)

StandardTurns(line) ==
  Ordered(UNION {TurnsOf(s, LAMBDA c : s \in line[c]) : s \in Speakers})

(* The exclusive track gives each active cell to its lowest speaker.       *)
ExclusiveTurns(line) ==
  Ordered(UNION {TurnsOf(s, LAMBDA c : s \in line[c] /\ \A o \in line[c] : s <= o) :
                   s \in Speakers})

Activity(line) ==
  SetToSortSeq(
    UNION {{[start |-> r.start, end |-> r.end, count |-> n] :
              r \in Runs(LAMBDA c : Cardinality(line[c]) = n)} : n \in 0..Cardinality(Speakers)},
    LAMBDA a, b : a.start < b.start)

Whole == {[start |-> 0, end |-> Ticks]}
Split == {[start |-> 0, end |-> 4], [start |-> 5, end |-> Ticks]}
Crossed == {[start |-> 0, end |-> 4], [start |-> 3, end |-> Ticks]}

Input(algorithm, role, turns, boundaries, native, source, exclusive, activity, regions) ==
  [kind |-> "chunking", algorithm |-> algorithm, duration |-> Ticks, role |-> role,
   turns |-> turns, boundaries |-> boundaries, native |-> native, source |-> source,
   exclusive |-> exclusive, activity |-> activity, regions |-> regions]

CommunityInput(line, regions) ==
  Input("any", "standard_turns", StandardTurns(line), {}, "absent", "same", <<>>, <<>>, regions)

NativeInput(line, regions) ==
  Input("native", "standard_turns", StandardTurns(line), {}, "snapshot", "same",
        ExclusiveTurns(line), Activity(line), regions)

(* The legacy policy: a silence of either confidence, a turn edge of one   *)
(* speaker or an acoustic boundary at some of the inner times.             *)
LegacyInputs ==
  LET Marks == {<<>>, <<0, 0>>, <<0, 1>>, <<2, 0>>}
      Boundaries(f) == {[time |-> t, rank |-> f[t][1], confidence |-> f[t][2]] :
                          t \in {k \in DOMAIN f : f[k] # <<>>}}
      turn == [speaker |-> 1, start |-> 4, end |-> 7]
  IN {Input("any", "speaker_turns", turns, Boundaries(f), "absent", "same", <<>>, <<>>, regions) :
        f \in [{2, 3, 5, 6, 8} -> Marks], turns \in {<<>>, <<turn>>}, regions \in {Whole, Split}}

(* One line with each thing a policy refuses.                              *)
BadInputs ==
  LET line   == [c \in 0..(Cells - 1) |-> {1 + (c % 2)}]
      good   == CommunityInput(line, Whole)
      native == NativeInput(line, Whole)
      turn   == good.turns[1]
  IN {[good EXCEPT !.regions = {}], [good EXCEPT !.regions = Crossed],
      [good EXCEPT !.source = "other"], [good EXCEPT !.turns = Reverse(@)],
      [good EXCEPT !.algorithm = "community", !.role = "speaker_turns", !.turns = <<>>],
      [good EXCEPT !.algorithm = "community", !.role = "speaker_turns"],
      [native EXCEPT !.native = "obsolete"], [native EXCEPT !.native = "absent"],
      [native EXCEPT !.source = "other"], [native EXCEPT !.role = "speaker_turns"],
      [native EXCEPT !.exclusive = <<>>], [native EXCEPT !.algorithm = "any"]}

ChunkingInputs ==
  {CommunityInput(line, Whole) : line \in Timelines}
  \union {NativeInput(line, Whole) : line \in Timelines}
  \union {CommunityInput(line, Split) : line \in Timelines}
  \union LegacyInputs \union BadInputs

ChunkingInit ==
  /\ input \in ChunkingInputs
  /\ work = ChunkingWork

MCChunkingSpec == ChunkingInit /\ [][ChunkingNext]_computation
=============================================================================
