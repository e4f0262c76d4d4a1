----------------------------- MODULE Computation -----------------------------
(***************************************************************************)
(* The pure computations of the archive share one frame: an input that is  *)
(* never changed and the work done on it so far.  A module of this family  *)
(* guards its actions by the kind of its input, so that the behaviours of  *)
(* several of them can be checked side by side in one run.                 *)
(***************************************************************************)
EXTENDS Integers, Sequences, FiniteSets

VARIABLES
  input,   \* what the computation was given; its field kind names the module
  work     \* what it has computed so far

computation == <<input, work>>

(* Python compares tuples of numbers lexicographically.                    *)
LexLeq(a, b) ==
  \/ a = b
  \/ \E i \in DOMAIN a : a[i] < b[i] /\ \A k \in 1..(i - 1) : a[k] = b[k]

(* min(S, key=Key): a member with the least key.                           *)
LeastBy(S, Key(_)) == CHOOSE x \in S : \A y \in S : LexLeq(Key(x), Key(y))

Distance(a, b) == IF a < b THEN b - a ELSE a - b

(* The members of a sequence at some of its positions, in their order.     *)
Part(sequence, positions) ==
  [n \in 1..Cardinality(positions) |->
     sequence[CHOOSE i \in positions : Cardinality({j \in positions : j <= i}) = n]]

(* The later and the earlier of two times.                                 *)
Later(a, b) == IF a < b THEN b ELSE a
Earlier(a, b) == IF a < b THEN a ELSE b
=============================================================================
