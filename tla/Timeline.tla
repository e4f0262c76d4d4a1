------------------------------ MODULE Timeline ------------------------------
(***************************************************************************)
(* Speaker turns on the episode's timeline and what is derived from them:  *)
(* who is active, the maximal intervals with one set of active speakers,   *)
(* the gaps and the overlaps.  A turn is half-open; times are ticks.       *)
(***************************************************************************)
EXTENDS Integers, FiniteSets

(* _active_segments and derive_overlap_intervals ask who is active between *)
(* two neighbouring turn ends; ticks are at least as fine.                 *)
ActiveAt(turns, tick) ==
  {t.speaker : t \in {u \in turns : u.start <= tick /\ tick < u.end}}

Edges(turns, duration) ==
  {0, duration} \union {t.start : t \in turns} \union {t.end : t \in turns}

(* The intervals on which the set of active speakers does not change, each *)
(* merged with its neighbours as far as the set stays the same.            *)
Segments(turns, duration) ==
  {s \in [start : Edges(turns, duration), end : Edges(turns, duration)] :
     /\ s.start < s.end
     /\ \A tick \in s.start..(s.end - 1) :
          ActiveAt(turns, tick) = ActiveAt(turns, s.start)
     /\ s.start > 0 => ActiveAt(turns, s.start - 1) # ActiveAt(turns, s.start)
     /\ s.end < duration => ActiveAt(turns, s.end) # ActiveAt(turns, s.start)}

Gaps(turns, duration) ==
  {s \in Segments(turns, duration) : ActiveAt(turns, s.start) = {}}

(* An interval with two or more speakers, and who they are.                *)
Overlaps(turns, duration) ==
  {[start |-> s.start, end |-> s.end, speakers |-> ActiveAt(turns, s.start)] :
     s \in {g \in Segments(turns, duration) :
              Cardinality(ActiveAt(turns, g.start)) >= 2}}

(* The maximal runs of a set of ticks, as intervals.                       *)
RunsOf(ticks) ==
  {r \in [start : ticks, end : {t + 1 : t \in ticks}] :
     /\ r.start < r.end
     /\ r.start..(r.end - 1) \subseteq ticks
     /\ r.start - 1 \notin ticks /\ r.end \notin ticks}

(* The ticks of a set of intervals.                                        *)
Covered(intervals) == UNION {i.start..(i.end - 1) : i \in intervals}

Midpoint(s) == (s.start + s.end) \div 2

Intersect(a, b) == a.start < b.end /\ b.start < a.end
=============================================================================
