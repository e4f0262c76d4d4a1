------------------------------ MODULE Alignment ------------------------------
(***************************************************************************)
(* Word and character alignment: the edit-distance matrix and its backtrace*)
(* (_align of the benchmark, _full_edit_alignment of the evaluation), and  *)
(* _edit_alignment, which trims common ends and splits long sequences as   *)
(* Hirschberg does, so that no large matrix is held.                       *)
(***************************************************************************)
EXTENDS Computation, SequencesExt

CONSTANT DirectCells   \* a matrix of at most so many cells is not split; 4096

ASSUME DirectAssumption == DirectCells \in Nat \ {0}

(* The edits that turn the first i of a into the first j of b, at [i, j].  *)
Costs(a, b) ==
  LET d[i \in 0..Len(a), j \in 0..Len(b)] ==
        IF i = 0 THEN j ELSE IF j = 0 THEN i
        ELSE Min({d[i - 1, j - 1] + (IF a[i] = b[j] THEN 0 ELSE 1),
                  d[i - 1, j] + 1, d[i, j - 1] + 1})
  IN d

EditDistance(a, b) == Costs(a, b)[Len(a), Len(b)]

Op(name, i, j) == [op |-> name, reference |-> i, hypothesis |-> j]

(* The backtrace prefers a pair, then a deletion, then an insertion.       *)
Backtrace(a, b) ==
  LET costs == Costs(a, b)
      ops[i \in 0..Len(a), j \in 0..Len(b)] ==
        CASE i = 0 /\ j = 0 -> <<>>
          [] i > 0 /\ j > 0 /\ costs[i, j] = costs[i - 1, j - 1] + (IF a[i] = b[j] THEN 0 ELSE 1) ->
               Append(ops[i - 1, j - 1], Op(IF a[i] = b[j] THEN "equal" ELSE "substitute", i, j))
          [] i > 0 /\ (j = 0 \/ costs[i, j] # costs[i - 1, j - 1] + (IF a[i] = b[j] THEN 0 ELSE 1))
             /\ costs[i, j] = costs[i - 1, j] + 1 ->
               Append(ops[i - 1, j], Op("delete", i, 0))
          [] OTHER -> Append(ops[i, j - 1], Op("insert", 0, j))
  IN ops[Len(a), Len(b)]

CountOps(ops, name) == Cardinality({k \in DOMAIN ops : ops[k].op = name})

ErrorsIn(ops) == Len(ops) - CountOps(ops, "equal")

-----------------------------------------------------------------------------
(* _edit_alignment                                                         *)

IsAlignment == input.kind = "alignment"

(* A pending piece pairs reference[from + 1 .. to] with the hypothesis     *)
(* positions alike.                                                        *)
Piece(from, to, hFrom, hTo) == [from |-> from, to |-> to, hFrom |-> hFrom, hTo |-> hTo]

AlignmentWork == [phase |-> "given", todo |-> <<>>, prefix |-> 0, suffix |-> 0, ops |-> <<>>]

CommonPrefix(a, b) ==
  Max({n \in 0..Earlier(Len(a), Len(b)) : \A i \in 1..n : a[i] = b[i]})

(* Mutant: the common suffix may reach into the prefix.                   *)
CommonSuffixOverlapping(a, b, prefix) == CommonPrefix(Reverse(a), Reverse(b))

CommonSuffix(a, b, prefix) ==
  Max({n \in 0..Earlier(Len(a) - prefix, Len(b) - prefix) :
         \A i \in 1..n : a[Len(a) - i + 1] = b[Len(b) - i + 1]})

Equals(count, a, b) == [i \in 1..count |-> Op("equal", a + i, b + i)]

TrimEnds ==
  /\ IsAlignment /\ work.phase = "given"
  /\ LET a == input.reference
         b == input.hypothesis
         prefix == CommonPrefix(a, b)
         suffix == CommonSuffix(a, b, prefix)
     IN work' = [work EXCEPT !.phase = "splitting", !.prefix = prefix, !.suffix = suffix,
                   !.todo = <<Piece(prefix, Len(a) - suffix, prefix, Len(b) - suffix)>>,
                   !.ops = Equals(prefix, 0, 0)]
  /\ UNCHANGED input

IsDirect(p) ==
  LET rows    == p.to - p.from
      columns == p.hTo - p.hFrom
  IN rows <= 1 \/ columns <= 1 \/ rows * columns <= DirectCells

(* The first position of the hypothesis that both halves meet at for the   *)
(* least; the right half is costed from its end.                           *)
MeetingPoint(a, b, p, middle) ==
  LET left  == SubSeq(a, p.from + 1, middle)
      right == SubSeq(a, middle + 1, p.to)
      Key(h) == <<EditDistance(left, SubSeq(b, p.hFrom + 1, h))
                  + EditDistance(Reverse(right), Reverse(SubSeq(b, h + 1, p.hTo))),
                  h>>
  IN LeastBy(p.hFrom..p.hTo, Key)

Middle(p) == p.from + (p.to - p.from) \div 2

(* _full_edit_alignment of a piece, and the two cases with an empty side.  *)
PieceOps(a, b, p) ==
  LET ops == Backtrace(SubSeq(a, p.from + 1, p.to), SubSeq(b, p.hFrom + 1, p.hTo))
      shift(i, offset) == IF i = 0 THEN 0 ELSE i + offset
  IN [k \in DOMAIN ops |-> Op(ops[k].op, shift(ops[k].reference, p.from),
                                          shift(ops[k].hypothesis, p.hFrom))]

SplitInHalf ==
  /\ IsAlignment /\ work.phase = "splitting" /\ work.todo # <<>>
  /\ LET p == Head(work.todo)
         middle == Middle(p)
         meeting == MeetingPoint(input.reference, input.hypothesis, p, middle)
     IN /\ ~IsDirect(p)
        /\ work' = [work EXCEPT !.todo = <<Piece(p.from, middle, p.hFrom, meeting),
                                           Piece(middle, p.to, meeting, p.hTo)>> \o Tail(@)]
  /\ UNCHANGED input

AlignDirectly ==
  /\ IsAlignment /\ work.phase = "splitting" /\ work.todo # <<>>
  /\ IsDirect(Head(work.todo))
  /\ work' = [work EXCEPT !.todo = Tail(@),
                !.ops = @ \o PieceOps(input.reference, input.hypothesis, Head(work.todo))]
  /\ UNCHANGED input

AppendSuffix ==
  /\ IsAlignment /\ work.phase = "splitting" /\ work.todo = <<>>
  /\ work' = [work EXCEPT !.phase = "done",
                !.ops = @ \o Equals(work.suffix, Len(input.reference) - work.suffix,
                                    Len(input.hypothesis) - work.suffix)]
  /\ UNCHANGED input

(* The same as one function, as the metrics of the evaluation call it.     *)
EditAlignment(a, b) ==
  LET prefix == CommonPrefix(a, b)
      suffix == CommonSuffix(a, b, prefix)
      ops[p \in [from : 0..Len(a), to : 0..Len(a), hFrom : 0..Len(b), hTo : 0..Len(b)]] ==
        IF IsDirect(p) THEN PieceOps(a, b, p)
        ELSE LET meeting == MeetingPoint(a, b, p, Middle(p))
             IN ops[Piece(p.from, Middle(p), p.hFrom, meeting)]
                \o ops[Piece(Middle(p), p.to, meeting, p.hTo)]
  IN Equals(prefix, 0, 0)
     \o ops[Piece(prefix, Len(a) - suffix, prefix, Len(b) - suffix)]
     \o Equals(suffix, Len(a) - suffix, Len(b) - suffix)

AlignmentNext == TrimEnds \/ SplitInHalf \/ AlignDirectly \/ AppendSuffix

-----------------------------------------------------------------------------
(* Properties *)

(* Trimming and splitting change the memory an alignment takes, never its  *)
(* result: the operations pass over both sequences once and in order, pair *)
(* equal words only as equal, and make no more errors than the distance of *)
(* the whole sequences (evaluation_metrics.py:371, 431).                   *)
AlignmentIsExact ==
  IsAlignment /\ work.phase = "done" =>
    LET a == input.reference
        b == input.hypothesis
        passed(side) == SelectSeq([k \in DOMAIN work.ops |-> work.ops[k][side]],
                                  LAMBDA i : i # 0)
    IN /\ passed("reference") = [i \in 1..Len(a) |-> i]
       /\ passed("hypothesis") = [i \in 1..Len(b) |-> i]
       /\ \A k \in DOMAIN work.ops :
            LET o == work.ops[k]
            IN o.op \in {"equal", "substitute"} =>
                 (o.op = "equal" <=> a[o.reference] = b[o.hypothesis])
       /\ ErrorsIn(work.ops) = EditDistance(a, b)
=============================================================================
