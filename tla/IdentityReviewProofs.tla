------------------------- MODULE IdentityReviewProofs -------------------------
(***************************************************************************)
(* The identity review keeps its projection of the human decisions right,  *)
(* whatever several reviewers merge, undo and split: proved for every      *)
(* number of speakers, global ids and reviewers.                           *)
(*                                                                         *)
(* The memberships are maintained group by group, so the heart of the      *)
(* proof is about connected components: what one more pair joins           *)
(* (PairJoins), and what taking pairs out of one component changes         *)
(* (InsideOut, OutsideStays).  A component is the least closed set around  *)
(* a speaker, so none of this needs induction over paths.                  *)
(***************************************************************************)
EXTENDS IdentityReview, FiniteSetTheorems, SequenceTheorems, TLAPS

-----------------------------------------------------------------------------
(*                       Connected components                              *)

Closed(C, S, E) == \A p \in E : p[1] \in C /\ p[2] \in S => p[2] \in C

WithPair(E, l, r) == E \union {<<l, r>>, <<r, l>>}

Symmetric(E) == \A p \in E : p = <<p[1], p[2]>> /\ <<p[2], p[1]>> \in E

LEMMA ComponentLeast ==
  ASSUME NEW S, NEW E, NEW s \in S, NEW C \in SUBSET S, s \in C, Closed(C, S, E)
  PROVE  Component(s, S, E) \subseteq C
BY DEF Component, Closed

LEMMA ComponentClosed ==
  ASSUME NEW S, NEW E, NEW s \in S
  PROVE  /\ s \in Component(s, S, E)
         /\ Component(s, S, E) \subseteq S
         /\ Closed(Component(s, S, E), S, E)
<1>1. s \in Component(s, S, E) /\ Component(s, S, E) \subseteq S
  BY DEF Component
<1>2. ASSUME NEW p \in E, p[1] \in Component(s, S, E), p[2] \in S
      PROVE  p[2] \in Component(s, S, E)
  BY <1>2 DEF Component
<1> QED
  BY <1>1, <1>2 DEF Closed

(* A closed set that lies in every closed set around s is the component.   *)
LEMMA ComponentIs ==
  ASSUME NEW S, NEW E, NEW s \in S, NEW X \in SUBSET S, s \in X, Closed(X, S, E),
         \A C \in SUBSET S : s \in C /\ Closed(C, S, E) => X \subseteq C
  PROVE  Component(s, S, E) = X
<1>1. Component(s, S, E) \subseteq X
  BY ComponentLeast
<1>2. X \subseteq Component(s, S, E)
  BY ComponentClosed
<1> QED
  BY <1>1, <1>2

(* Two members of a component have the same component.                     *)
LEMMA ComponentShared ==
  ASSUME NEW S, NEW E, Symmetric(E), NEW s \in S, NEW t \in Component(s, S, E)
  PROVE  Component(t, S, E) = Component(s, S, E)
<1> DEFINE mine == Component(s, S, E)
           its  == Component(t, S, E)
<1>1. /\ s \in mine /\ mine \subseteq S /\ Closed(mine, S, E)
      /\ t \in S /\ t \in its /\ its \subseteq S /\ Closed(its, S, E)
  BY ComponentClosed
<1>2. its \subseteq mine
  BY <1>1, ComponentLeast
<1>3. s \in its
  <2> SUFFICES ASSUME s \notin its PROVE FALSE
    OBVIOUS
  <2>1. Closed(mine \ its, S, E)
    <3> SUFFICES ASSUME NEW p \in E, p[1] \in mine \ its, p[2] \in S, p[2] \in its
                 PROVE  FALSE
      BY <1>1 DEF Closed
    <3>1. <<p[2], p[1]>> \in E /\ p[1] \in S
      BY <1>1 DEF Symmetric
    <3> QED
      BY <3>1, <1>1 DEF Closed
  <2>2. mine \subseteq mine \ its
    BY <1>1, <2>1, ComponentLeast
  <2> QED
    BY <1>1, <2>2
<1>4. mine \subseteq its
  BY <1>1, <1>3, ComponentLeast
<1> QED
  BY <1>2, <1>4

(* One more pair joins the two components it touches ...                   *)
LEMMA PairJoins ==
  ASSUME NEW S, NEW E, Symmetric(E), NEW l \in S, NEW r \in S, NEW s \in S,
         s \in Component(l, S, E) \union Component(r, S, E)
  PROVE  Component(s, S, WithPair(E, l, r))
           = Component(l, S, E) \union Component(r, S, E)
<1> DEFINE L == Component(l, S, E)
           R == Component(r, S, E)
           F == WithPair(E, l, r)
<1>1. /\ l \in L /\ L \subseteq S /\ Closed(L, S, E)
      /\ r \in R /\ R \subseteq S /\ Closed(R, S, E)
  BY ComponentClosed
<1>2. Closed(L \union R, S, F)
  BY <1>1 DEF Closed, WithPair
<1>3. ASSUME NEW C \in SUBSET S, s \in C, Closed(C, S, F) PROVE L \union R \subseteq C
  <2>1. Closed(C, S, E) /\ (l \in C <=> r \in C)
    <3>1. <<l, r>> \in F /\ <<l, r>>[1] = l /\ <<l, r>>[2] = r
      BY DEF WithPair
    <3>2. <<r, l>> \in F /\ <<r, l>>[1] = r /\ <<r, l>>[2] = l
      BY DEF WithPair
    <3>3. Closed(C, S, E)
      BY <1>3 DEF Closed, WithPair
    <3> HIDE DEF F
    <3> QED
      BY <1>3, <3>1, <3>2, <3>3 DEF Closed
  <2>2. Component(s, S, E) \subseteq C
    BY <1>3, <2>1, ComponentLeast
  <2>3. l \in C /\ r \in C
    BY <1>1, <2>1, <2>2, ComponentShared
  <2> QED
    BY <2>1, <2>3, ComponentLeast
<1> HIDE DEF L, R, F
<1>4. L \union R \in SUBSET S /\ s \in L \union R
  BY <1>1 DEF L, R
<1>5. Component(s, S, F) = L \union R
  BY <1>2, <1>3, <1>4, ComponentIs
<1> QED
  BY <1>5 DEF L, R, F

(* ... and leaves the others alone.                                        *)
LEMMA PairLeaves ==
  ASSUME NEW S, NEW E, Symmetric(E), NEW l \in S, NEW r \in S, NEW s \in S,
         s \notin Component(l, S, E) \union Component(r, S, E)
  PROVE  Component(s, S, WithPair(E, l, r)) = Component(s, S, E)
<1> DEFINE X == Component(s, S, E)
           F == WithPair(E, l, r)
<1>1. s \in X /\ X \subseteq S /\ Closed(X, S, E)
  BY ComponentClosed
<1>2. l \notin X /\ r \notin X
  BY ComponentClosed, ComponentShared
<1>3. Closed(X, S, F)
  BY <1>1, <1>2 DEF Closed, WithPair
<1>4. ASSUME NEW C \in SUBSET S, s \in C, Closed(C, S, F) PROVE X \subseteq C
  <2>1. Closed(C, S, E)
    BY <1>4 DEF Closed, WithPair
  <2> QED
    BY <1>4, <2>1, ComponentLeast
<1> HIDE DEF X, F
<1>5. Component(s, S, F) = X
  BY <1>1, <1>3, <1>4, ComponentIs
<1> QED
  BY <1>5 DEF X, F

(* Inside a set M that no pair leaves, components can be taken in M.       *)
LEMMA InsideOut ==
  ASSUME NEW S, NEW E, NEW M \in SUBSET S, Closed(M, S, E), NEW s \in M
  PROVE  Component(s, S, E) = Component(s, M, E)
<1> DEFINE X == Component(s, M, E)
<1>1. s \in X /\ X \subseteq M /\ Closed(X, M, E)
  BY ComponentClosed
<1>2. Closed(X, S, E)
  BY <1>1 DEF Closed
<1>3. ASSUME NEW C \in SUBSET S, s \in C, Closed(C, S, E) PROVE X \subseteq C
  <2>1. Closed(C \intersect M, M, E) /\ C \intersect M \in SUBSET M /\ s \in C \intersect M
    BY <1>3 DEF Closed
  <2>2. X \subseteq C \intersect M
    BY <2>1, ComponentLeast
  <2> QED
    BY <2>2
<1> HIDE DEF X
<1>4. Component(s, S, E) = X
  BY <1>1, <1>2, <1>3, ComponentIs
<1> QED
  BY <1>4 DEF X

(* Pairs that are taken out within M change no component outside.          *)
LEMMA OutsideStays ==
  ASSUME NEW S, NEW E, NEW F \in SUBSET E, NEW M \in SUBSET S, NEW s \in S,
         Component(s, S, E) \intersect M = {},
         \A p \in E \ F : p[1] \in M
  PROVE  Component(s, S, F) = Component(s, S, E)
<1> DEFINE X == Component(s, S, E)
<1>1. s \in X /\ X \subseteq S /\ Closed(X, S, E) /\ X \intersect M = {}
  BY ComponentClosed
<1>2. Closed(X, S, F)
  BY <1>1 DEF Closed
<1>3. ASSUME NEW C \in SUBSET S, s \in C, Closed(C, S, F) PROVE X \subseteq C
  <2>1. Closed(C \intersect X, S, E)
    <3> SUFFICES ASSUME NEW p \in E, p[1] \in C \intersect X, p[2] \in S
                 PROVE  p[2] \in C \intersect X
      BY DEF Closed
    <3>1. p \in F
      BY <1>1
    <3> QED
      BY <1>1, <1>3, <3>1 DEF Closed
  <2>2. X \subseteq C \intersect X
    BY <1>1, <1>3, <2>1, ComponentLeast
  <2> QED
    BY <2>2
<1> HIDE DEF X
<1>4. Component(s, S, F) = X
  BY <1>1, <1>2, <1>3, ComponentIs
<1> QED
  BY <1>4 DEF X

-----------------------------------------------------------------------------
(*                       The inductive invariant                           *)

(* A decision is about two speakers; it is revised once, when superseded.  *)
DecisionsOK ==
  \A d \in DOMAIN decisions :
    /\ decisions[d].left # decisions[d].right
    /\ decisions[d].revision = IF decisions[d].state = "active" THEN 1 ELSE 2

SamePairs == Pairs(Active("same_person"))
ApartPairs == Pairs(Active("different_person"))

(* Whoever has a global id shares it, and the ids in use are the active ones.*)
IdsAreShared ==
  /\ \A s \in Speakers : member[s] # NoGlobal =>
       global[member[s]] = "active" /\ \E t \in Speakers \ {s} : member[t] = member[s]
  /\ \A g \in Globals : global[g] = "active" => \E s \in Speakers : member[s] = g

GroupsAreComponents ==
  \A s \in Speakers : Component(s, Speakers, SamePairs) = Group(s)

(* NoContradiction in terms of groups.                                     *)
ApartIsApart == \A p \in ApartPairs : p[2] \notin Group(p[1])

HistoryInv == TypeOK /\ DecisionsOK /\ AuditIsComplete
GroupsInv == IdsAreShared /\ GroupsAreComponents /\ ApartIsApart

IdentityInv == HistoryInv /\ GroupsInv

-----------------------------------------------------------------------------
(*                     Decisions and their pairs                           *)

LEMMA PairsOf ==
  ASSUME TypeOK, NEW D \in SUBSET DOMAIN decisions
  PROVE  /\ Symmetric(Pairs(D))
         /\ \A p \in Pairs(D) : p[1] \in Speakers /\ p[2] \in Speakers
         /\ \A p \in Pairs(D) : \E d \in D :
              \/ p[1] = decisions[d].left /\ p[2] = decisions[d].right
              \/ p[1] = decisions[d].right /\ p[2] = decisions[d].left
         /\ \A d \in D : /\ <<decisions[d].left, decisions[d].right>> \in Pairs(D)
                         /\ <<decisions[d].right, decisions[d].left>> \in Pairs(D)
<1>1. \A d \in D : decisions[d] \in Decision
  BY DEF TypeOK
<1> QED
  BY <1>1 DEF Pairs, Symmetric, Decision

LEMMA ActiveAreDecisions ==
  ASSUME TypeOK, NEW kind
  PROVE  Active(kind) \subseteq DOMAIN decisions
BY DEF Active

(* What recording one decision adds.                                       *)
LEMMA RecordEffect ==
  ASSUME HistoryInv, NEW l \in Speakers, NEW r \in Speakers, l # r, NEW kind \in Kinds,
         Record(l, r, kind)
  PROVE  /\ decisions' \in Seq(Decision)
         /\ audit' \subseteq Nat \X Nat
         /\ DecisionsOK'
         /\ AuditIsComplete'
         /\ \A k \in Kinds \ {kind} : Pairs(Active(k))' = Pairs(Active(k))
         /\ Pairs(Active(kind))' = WithPair(Pairs(Active(kind)), l, r)
         /\ \A d \in DOMAIN decisions : d \in DOMAIN decisions' /\ decisions'[d] = decisions[d]
<1> DEFINE n == Len(decisions) + 1
           new == [left |-> l, right |-> r, kind |-> kind, state |-> "active", revision |-> 1]
<1>1. /\ decisions \in Seq(Decision) /\ Len(decisions) \in Nat
      /\ DOMAIN decisions = 1 .. Len(decisions) /\ new \in Decision
  BY DEF HistoryInv, TypeOK, Decision
<1>2. /\ decisions' \in Seq(Decision) /\ DOMAIN decisions' = 1 .. n
      /\ \A d \in 1 .. n : decisions'[d] = IF d = n THEN new ELSE decisions[d]
  BY <1>1 DEF Record
<1>3. DOMAIN decisions' = DOMAIN decisions \union {n} /\ n \notin DOMAIN decisions
  BY <1>1, <1>2
<1>4. /\ new.left = l /\ new.right = r /\ new.kind = kind /\ new.state = "active"
      /\ new.revision = 1
  OBVIOUS
<1> HIDE DEF new
<1>5. decisions'[n] = new /\ \A d \in DOMAIN decisions : decisions'[d] = decisions[d]
  BY <1>1, <1>2
<1>6. DecisionsOK'
  BY <1>3, <1>4, <1>5 DEF DecisionsOK, HistoryInv
<1>7. \A k : Active(k)' = Active(k) \union (IF k = kind THEN {n} ELSE {})
  BY <1>3, <1>4, <1>5 DEF Active
<1>8. \A k \in Kinds \ {kind} : Pairs(Active(k))' = Pairs(Active(k))
  <2> SUFFICES ASSUME NEW k \in Kinds \ {kind} PROVE Pairs(Active(k))' = Pairs(Active(k))
    OBVIOUS
  <2>1. Active(k)' = Active(k) /\ Active(k) \subseteq DOMAIN decisions
    BY <1>7 DEF Active
  <2> QED
    BY <1>5, <2>1 DEF Pairs
<1>9. Pairs(Active(kind))' = WithPair(Pairs(Active(kind)), l, r)
  <2>1. Active(kind)' = Active(kind) \union {n} /\ Active(kind) \subseteq DOMAIN decisions
    BY <1>7 DEF Active
  <2> QED
    BY <1>4, <1>5, <2>1 DEF Pairs, WithPair
<1>10. audit' = audit \union {<<n, 1>>} /\ audit' \subseteq Nat \X Nat
  BY <1>1 DEF Record, HistoryInv, TypeOK
<1>11. AuditIsComplete'
  <2>1. \A a : a \in (DOMAIN decisions') \X (1 .. 2) /\ a[2] <= decisions'[a[1]].revision
          <=> a \in audit \/ a = <<n, 1>>
    BY <1>1, <1>3, <1>4, <1>5 DEF HistoryInv, AuditIsComplete
  <2> QED
    BY <1>10, <2>1 DEF AuditIsComplete
<1> QED
  BY <1>2, <1>3, <1>5, <1>6, <1>8, <1>9, <1>10, <1>11

(* What superseding the active decisions D takes away.                     *)
LEMMA SupersedeEffect ==
  ASSUME HistoryInv, NEW D \in SUBSET DOMAIN decisions,
         \A d \in D : decisions[d].state = "active",
         Supersede(D)
  PROVE  /\ decisions' \in Seq(Decision)
         /\ audit' \subseteq Nat \X Nat
         /\ DecisionsOK'
         /\ AuditIsComplete'
         /\ \A k \in Kinds : Pairs(Active(k))' = Pairs(Active(k) \ D)
         /\ \A d \in DOMAIN decisions \ D :
              d \in DOMAIN decisions' /\ decisions'[d] = decisions[d]
<1>1. /\ decisions \in Seq(Decision) /\ Len(decisions) \in Nat
      /\ DOMAIN decisions = 1 .. Len(decisions)
      /\ \A d \in DOMAIN decisions : decisions[d] \in Decision
  BY DEF HistoryInv, TypeOK
<1>2. /\ DOMAIN decisions' = DOMAIN decisions
      /\ \A d \in DOMAIN decisions \ D : decisions'[d] = decisions[d]
      /\ \A d \in D : /\ decisions'[d] \in Decision
                      /\ decisions'[d].left = decisions[d].left
                      /\ decisions'[d].right = decisions[d].right
                      /\ decisions'[d].kind = decisions[d].kind
                      /\ decisions'[d].state = "superseded"
                      /\ decisions'[d].revision = decisions[d].revision + 1
  <2>1. DOMAIN decisions' = DOMAIN decisions
    BY DEF Supersede
  <2>2. \A d \in DOMAIN decisions \ D : decisions'[d] = decisions[d]
    BY DEF Supersede
  <2>3. ASSUME NEW d \in D
        PROVE  decisions'[d] = [decisions[d] EXCEPT !.state = "superseded",
                                                    !.revision = decisions[d].revision + 1]
    BY DEF Supersede
  <2>4. \A d \in D : decisions[d] \in Decision
    BY <1>1
  <2>5. ASSUME NEW d \in D
        PROVE  /\ decisions'[d] \in Decision
               /\ decisions'[d].left = decisions[d].left
               /\ decisions'[d].right = decisions[d].right
               /\ decisions'[d].kind = decisions[d].kind
               /\ decisions'[d].state = "superseded"
               /\ decisions'[d].revision = decisions[d].revision + 1
    <3>1. PICK row \in Decision : row = decisions[d]
      BY <2>4
    <3>2. PICK n \in Nat : n = row.revision + 1
      BY DEF Decision
    <3>3. decisions'[d] = [row EXCEPT !.state = "superseded", !.revision = n]
      BY <2>3, <3>1, <3>2
    <3>4. decisions'[d] = [left |-> row.left, right |-> row.right, kind |-> row.kind,
                           state |-> "superseded", revision |-> n]
      BY <3>3 DEF Decision
    <3>5. [left |-> row.left, right |-> row.right, kind |-> row.kind,
           state |-> "superseded", revision |-> n] \in Decision
      BY DEF Decision
    <3> QED
      BY <3>1, <3>2, <3>4, <3>5
  <2> QED
    BY <2>1, <2>2, <2>5
<1>3. decisions' \in Seq(Decision)
  <2>1. \A d \in 1 .. Len(decisions) : decisions'[d] \in Decision
    BY <1>1, <1>2
  <2>2. decisions' = [d \in 1 .. Len(decisions) |-> decisions'[d]]
    BY <1>1 DEF Supersede
  <2>3. decisions' \in [1 .. Len(decisions) -> Decision]
    BY <2>1, <2>2, Zenon
  <2> QED
    BY <1>1, <2>3, SeqDef
<1>4. \A d \in D : decisions[d].revision = 1 /\ decisions'[d].revision = 2
  BY <1>2 DEF HistoryInv, DecisionsOK
<1>5. DecisionsOK'
  BY <1>2, <1>4 DEF DecisionsOK, HistoryInv
<1>6. \A k : Active(k)' = Active(k) \ D
  BY <1>2 DEF Active
<1>7. ASSUME NEW k \in Kinds PROVE Pairs(Active(k))' = Pairs(Active(k) \ D)
  <2>1. Active(k)' = Active(k) \ D /\ Active(k) \subseteq DOMAIN decisions
    BY <1>6 DEF Active
  <2>2. \A d \in Active(k) \ D : decisions'[d] = decisions[d]
    BY <1>2, <2>1
  <2> QED
    BY <2>1, <2>2 DEF Pairs
<1>8. audit' = audit \union {<<d, 2>> : d \in D} /\ audit' \subseteq Nat \X Nat
  <2>1. audit' = audit \union {<<d, decisions[d].revision + 1>> : d \in D}
    BY DEF Supersede
  <2>2. {<<d, decisions[d].revision + 1>> : d \in D} = {<<d, 2>> : d \in D}
    BY <1>4
  <2>3. audit \subseteq Nat \X Nat /\ \A d \in D : d \in Nat
    BY <1>1 DEF HistoryInv, TypeOK
  <2> QED
    BY <2>1, <2>2, <2>3
<1>9. AuditIsComplete'
  <2>1. \A a : a \in (DOMAIN decisions') \X (1 .. 2) /\ a[2] <= decisions'[a[1]].revision
          <=> a \in audit \/ a \in {<<d, 2>> : d \in D}
    BY <1>1, <1>2, <1>4 DEF HistoryInv, AuditIsComplete
  <2> QED
    BY <1>8, <2>1 DEF AuditIsComplete
<1> QED
  BY <1>2, <1>3, <1>5, <1>7, <1>8, <1>9

-----------------------------------------------------------------------------
(*                    The groups under each edit                           *)

LEMMA GroupsPartition ==
  ASSUME NEW s \in Speakers
  PROVE  /\ s \in Group(s) /\ Group(s) \subseteq Speakers
         /\ \A t \in Group(s) : Group(t) = Group(s)
BY DEF Group

LEMMA SamePairsOf ==
  ASSUME TypeOK
  PROVE  /\ Symmetric(SamePairs) /\ Symmetric(ApartPairs)
         /\ \A p \in SamePairs \union ApartPairs : p[1] \in Speakers /\ p[2] \in Speakers
BY ActiveAreDecisions, PairsOf DEF SamePairs, ApartPairs

(* A new same-person decision makes one component of the two it touches.   *)
LEMMA ComponentsJoin ==
  ASSUME TypeOK, GroupsAreComponents, NEW l \in Speakers, NEW r \in Speakers,
         NEW s \in Speakers
  PROVE  Component(s, Speakers, WithPair(SamePairs, l, r))
           = IF s \in Group(l) \union Group(r) THEN Group(l) \union Group(r) ELSE Group(s)
<1>1. Symmetric(SamePairs)
  BY SamePairsOf
<1>2. /\ Component(l, Speakers, SamePairs) = Group(l)
      /\ Component(r, Speakers, SamePairs) = Group(r)
      /\ Component(s, Speakers, SamePairs) = Group(s)
  BY DEF GroupsAreComponents
<1>3. CASE s \in Group(l) \union Group(r)
  BY <1>1, <1>2, <1>3, PairJoins
<1>4. CASE s \notin Group(l) \union Group(r)
  BY <1>1, <1>2, <1>4, PairLeaves
<1> QED
  BY <1>3, <1>4

LEMMA MergeGroups ==
  ASSUME IdentityInv, NEW l \in Speakers, NEW r \in Speakers, NEW v, NEW keep \in Globals,
         Merge(v, l, r, keep),
         SamePairs' = WithPair(SamePairs, l, r),
         ApartPairs' = ApartPairs
  PROVE  GroupsInv'
<1> DEFINE both == Group(l) \union Group(r)
           old == {member[l], member[r]} \ {NoGlobal}
<1>1. /\ l # r /\ Group(l) # Group(r) /\ ~Contradicted(l, r)
      /\ keep \in Unused \/ keep \in old
      /\ member' = [s \in Speakers |-> IF s \in both THEN keep ELSE member[s]]
      /\ global' = [g \in Globals |->
           IF g = keep THEN "active"
           ELSE IF g \in old THEN "superseded" ELSE global[g]]
  BY DEF Merge, Recordable
<1>2. /\ TypeOK /\ IdsAreShared /\ GroupsAreComponents /\ ApartIsApart
      /\ member \in [Speakers -> Globals \union {NoGlobal}] /\ NoGlobal \notin Globals
  BY IdentityAssumption DEF IdentityInv, HistoryInv, GroupsInv, TypeOK
<1>3. both \subseteq Speakers /\ l \in both /\ r \in both
  BY GroupsPartition
<1>4. \A s \in Speakers : member[s] \in old => s \in both
  BY <1>2 DEF Group
<1>5. \A s \in Speakers \ both : member[s] # keep /\ member[s] \notin old
  BY <1>1, <1>2, <1>4 DEF IdsAreShared, Unused
<1>6. \A s \in both : member[s] = NoGlobal \/ member[s] \in old
  BY DEF Group
<1> HIDE DEF old
<1>7. ASSUME NEW s \in Speakers
      PROVE  Group(s)' = IF s \in both THEN both ELSE Group(s)
  <2>1. CASE s \in both
    BY <1>1, <1>2, <1>3, <1>5, <2>1 DEF Group
  <2>2. CASE s \notin both
    <3>1. \A t \in Group(s) : t \notin both
      BY <2>2, GroupsPartition
    <3> HIDE DEF both
    <3> QED
      BY <1>1, <1>2, <1>5, <2>2, <3>1 DEF Group
  <2> QED
    BY <2>1, <2>2
<1>8. GroupsAreComponents'
  <2>1. ASSUME NEW s \in Speakers
        PROVE  Component(s, Speakers, SamePairs') = IF s \in both THEN both ELSE Group(s)
    <3>1. TypeOK /\ GroupsAreComponents
      BY <1>2
    <3>2. Component(s, Speakers, SamePairs')
            = IF s \in Group(l) \union Group(r) THEN Group(l) \union Group(r) ELSE Group(s)
      BY <3>1, ComponentsJoin
    <3> QED
      BY <3>2
  <2> HIDE DEF both
  <2> QED
    BY <1>7, <2>1 DEF GroupsAreComponents
<1>9. IdsAreShared'
  <2>1. ASSUME NEW s \in Speakers, member'[s] # NoGlobal
        PROVE  global'[member'[s]] = "active" /\ \E t \in Speakers \ {s} : member'[t] = member'[s]
    <3>1. CASE s \in both
      BY <1>1, <1>3, <3>1
    <3>2. CASE s \notin both
      <4>1. PICK t \in Speakers \ {s} : member[t] = member[s]
        BY <1>1, <1>2, <2>1, <3>2 DEF IdsAreShared
      <4>2. t \notin both
        BY <1>1, <1>2, <1>5, <1>6, <2>1, <3>2, <4>1
      <4>3. member'[s] = member[s] /\ member'[t] = member[t] /\ member[s] \in Globals
        BY <1>1, <1>2, <2>1, <3>2, <4>2
      <4> QED
        BY <1>1, <1>2, <1>5, <3>2, <4>1, <4>3, <2>1 DEF IdsAreShared
    <3> QED
      BY <3>1, <3>2
  <2>2. ASSUME NEW g \in Globals, global'[g] = "active"
        PROVE  \E s \in Speakers : member'[s] = g
    <3>1. CASE g = keep
      BY <1>1, <1>3, <3>1
    <3>2. CASE g # keep
      <4>1. g \notin old /\ global[g] = "active"
        BY <1>1, <2>2, <3>2
      <4>2. PICK s \in Speakers : member[s] = g
        BY <1>2, <4>1 DEF IdsAreShared
      <4>3. s \notin both
        BY <1>2, <1>6, <4>1, <4>2
      <4> QED
        BY <1>1, <4>2, <4>3
    <3> QED
      BY <3>1, <3>2
  <2> QED
    BY <2>1, <2>2 DEF IdsAreShared
<1>10. ApartIsApart'
  <2> SUFFICES ASSUME NEW p \in ApartPairs, p[2] \in Group(p[1])' PROVE FALSE
    BY DEF ApartIsApart
  <2>1. p[1] \in Speakers /\ p[2] \in Speakers /\ p = <<p[1], p[2]>> /\ <<p[2], p[1]>> \in ApartPairs
    BY <1>2, SamePairsOf DEF Symmetric
  <2>2. p[2] \notin Group(p[1])
    BY <1>2 DEF ApartIsApart
  <2>3. p[1] \in both /\ p[2] \in both
    BY <1>7, <2>1, <2>2
  <2>4. \/ p[1] \in Group(l) /\ p[2] \in Group(r)
        \/ p[1] \in Group(r) /\ p[2] \in Group(l)
    BY <2>2, <2>3, GroupsPartition
  <2>5. ~(p[1] \in Group(l) /\ p[2] \in Group(r))
    BY <1>1 DEF Contradicted, ApartPairs
  <2>6. ~(p[1] \in Group(r) /\ p[2] \in Group(l))
    <3> DEFINE q == <<p[2], p[1]>>
    <3>1. q \in ApartPairs /\ q[1] = p[2] /\ q[2] = p[1]
      BY <2>1
    <3> HIDE DEF q
    <3> QED
      BY <1>1, <3>1 DEF Contradicted, ApartPairs
  <2> QED
    BY <2>4, <2>5, <2>6
<1> QED
  BY <1>8, <1>9, <1>10 DEF GroupsInv

(* More evidence within a group changes no component.                      *)
LEMMA ConfirmGroups ==
  ASSUME IdentityInv, NEW l \in Speakers, NEW r \in Speakers,
         Group(l) = Group(r), UNCHANGED <<member, global>>,
         SamePairs' = WithPair(SamePairs, l, r),
         ApartPairs' = ApartPairs
  PROVE  GroupsInv'
<1>1. \A s \in Speakers : Group(s)' = Group(s)
  BY DEF Group
<1>2. ASSUME NEW s \in Speakers PROVE Component(s, Speakers, SamePairs') = Group(s)
  <2>1. TypeOK /\ GroupsAreComponents
    BY DEF IdentityInv, HistoryInv, GroupsInv
  <2>2. Component(s, Speakers, WithPair(SamePairs, l, r))
          = IF s \in Group(l) \union Group(r) THEN Group(l) \union Group(r) ELSE Group(s)
    BY <2>1, ComponentsJoin
  <2> QED
    BY <2>2, GroupsPartition
<1>3. \A p \in ApartPairs : p[1] \in Speakers
  BY SamePairsOf DEF IdentityInv, HistoryInv
<1> QED
  BY <1>1, <1>2, <1>3 DEF IdentityInv, GroupsInv, IdsAreShared, GroupsAreComponents, ApartIsApart

(* A different-person decision between two groups, or none at all.         *)
LEMMA SeparateGroups ==
  ASSUME IdentityInv, NEW l \in Speakers, NEW r \in Speakers,
         UNCHANGED <<member, global>>, SamePairs' = SamePairs,
         \/ ApartPairs' \subseteq ApartPairs
         \/ /\ ApartPairs' = WithPair(ApartPairs, l, r)
            /\ Group(l) \intersect Group(r) = {}
  PROVE  GroupsInv'
<1>1. \A s \in Speakers : Group(s)' = Group(s)
  BY DEF Group
<1>2. \A p \in ApartPairs' : p[1] \in Speakers /\ p[2] \notin Group(p[1])
  <2>1. \A p \in ApartPairs : p[1] \in Speakers /\ p[2] \notin Group(p[1])
    BY SamePairsOf DEF IdentityInv, HistoryInv, GroupsInv, ApartIsApart
  <2>2. Group(l) \intersect Group(r) = {} => l \notin Group(r) /\ r \notin Group(l)
    BY GroupsPartition
  <2> QED
    BY <2>1, <2>2 DEF WithPair
<1> QED
  BY <1>1, <1>2 DEF IdentityInv, GroupsInv, IdsAreShared, GroupsAreComponents, ApartIsApart

LEMMA MoreThanOne ==
  ASSUME NEW S, IsFiniteSet(S), NEW s \in S
  PROVE  Cardinality(S) > 1 <=> \E t \in S : t # s
<1>1. Cardinality(S) \in Nat /\ Cardinality(S) # 0
  BY FS_CardinalityType, FS_EmptySet
<1>2. Cardinality(S) = 1 <=> \E x : S = {x}
  BY FS_Singleton
<1>3. (\A t \in S : t = s) => S = {s}
  OBVIOUS
<1>4. \A x : S = {x} => \A t \in S : t = s
  OBVIOUS
<1> QED
  BY <1>1, <1>2, <1>3, <1>4

(* Taking decisions out of one group leaves the others as they are and     *)
(* splits it into the components of what is left.                          *)
LEMMA ComponentsSplit ==
  ASSUME IdentityInv, NEW g \in Globals, NEW E \in SUBSET SamePairs, Symmetric(E),
         \A p \in SamePairs \ E : p[1] \in MembersOf(g), NEW s \in Speakers
  PROVE  Component(s, Speakers, E)
           = IF s \in MembersOf(g) THEN Component(s, MembersOf(g), E) ELSE Group(s)
<1> DEFINE M == MembersOf(g)
<1>1. \A t \in Speakers : Component(t, Speakers, SamePairs) = Group(t)
  BY DEF IdentityInv, GroupsInv, GroupsAreComponents
<1>2. M \in SUBSET Speakers /\ \A t \in M : Group(t) = M
  BY IdentityAssumption DEF MembersOf, Group
<1>3. CASE s \in M
  <2>1. M = Component(s, Speakers, SamePairs)
    BY <1>1, <1>2, <1>3
  <2>2. Closed(M, Speakers, SamePairs)
    BY <2>1, ComponentClosed
  <2>3. Closed(M, Speakers, E)
    BY <2>2 DEF Closed
  <2> QED
    BY <1>2, <1>3, <2>3, InsideOut
<1>4. CASE s \notin M
  <2>1. Component(s, Speakers, SamePairs) \intersect M = {}
    BY <1>1, <1>2, <1>4, GroupsPartition
  <2>2. \A p \in SamePairs \ E : p[1] \in M
    OBVIOUS
  <2> HIDE DEF M
  <2>3. Component(s, Speakers, E) = Component(s, Speakers, SamePairs)
    BY <1>2, <2>1, <2>2, OutsideStays
  <2> QED
    BY <1>1, <1>4, <2>3 DEF M
<1> QED
  BY <1>3, <1>4

Part(s, g, E) == Component(s, MembersOf(g), E)

(* What _rebuild_identity_group writes: a component of one speaker gets no *)
(* id, that of the retained speaker keeps g, every other one has a fresh   *)
(* id of its own.                                                          *)
LEMMA RebuildEffect ==
  ASSUME IdentityInv, NEW g \in Globals, NEW retained \in Speakers, NEW E, Symmetric(E),
         Rebuild(g, retained, E)
  PROVE  /\ member' \in [Speakers -> Globals \union {NoGlobal}]
         /\ global' \in [Globals -> {"unused", "active", "superseded"}]
         /\ \A s \in Speakers \ MembersOf(g) : member'[s] = member[s]
         /\ \A s \in MembersOf(g) :
              /\ member'[s] = NoGlobal => Part(s, g, E) = {s}
              /\ member'[s] # NoGlobal =>
                   /\ Part(s, g, E) # {s}
                   /\ global'[member'[s]] = "active"
                   /\ \A t \in Speakers : member'[t] = member'[s] <=> t \in Part(s, g, E)
         /\ \A h \in Globals : global'[h] = "active" =>
              \/ \E s \in MembersOf(g) : member'[s] = h
              \/ h # g /\ global[h] = "active"
         /\ \A h \in Globals \ {g} : global[h] = "active" => global'[h] = "active"
         /\ \A h \in Globals : global[h] = "superseded" => global'[h] = "superseded"
<1> DEFINE M == MembersOf(g)
           groups == {C \in {Part(s, g, E) : s \in M} : Cardinality(C) > 1}
           others == {C \in groups : retained \notin C}
<1>1. PICK id \in [others -> Unused] :
        /\ \A C, D \in others : id[C] = id[D] => C = D
        /\ member' = [s \in Speakers |->
             IF s \notin M THEN member[s]
             ELSE IF \E C \in groups : s \in C /\ retained \in C THEN g
             ELSE IF \E C \in others : s \in C
             THEN id[CHOOSE C \in others : s \in C] ELSE NoGlobal]
        /\ global' = [h \in Globals |->
             IF h = g
             THEN IF \E C \in groups : retained \in C THEN "active" ELSE "superseded"
             ELSE IF \E C \in others : id[C] = h THEN "active" ELSE global[h]]
  BY DEF Rebuild, Part
<1>2. /\ M \subseteq Speakers /\ retained \in M
      /\ member \in [Speakers -> Globals \union {NoGlobal}] /\ NoGlobal \notin Globals
      /\ global \in [Globals -> {"unused", "active", "superseded"}]
      /\ Unused \subseteq Globals /\ \A h \in Unused : global[h] = "unused"
      /\ \A s \in M : member[s] = g
      /\ \A s \in Speakers \ M : member[s] # g
  BY IdentityAssumption DEF Rebuild, MembersOf, IdentityInv, HistoryInv, TypeOK, Unused
<1>3. /\ g \notin Unused
      /\ \A s \in Speakers : member[s] \notin Unused
  BY <1>2 DEF IdentityInv, GroupsInv, IdsAreShared
<1>4. ASSUME NEW s \in M
      PROVE  /\ s \in Part(s, g, E) /\ Part(s, g, E) \subseteq M
             /\ \A t \in Part(s, g, E) : Part(t, g, E) = Part(s, g, E)
  BY ComponentClosed, ComponentShared DEF Part
<1>5. ASSUME NEW s \in M PROVE Cardinality(Part(s, g, E)) > 1 <=> Part(s, g, E) # {s}
  <2>1. IsFiniteSet(Part(s, g, E))
    BY <1>2, <1>4, FS_Subset, IdentityAssumption
  <2> QED
    BY <1>4, <2>1, MoreThanOne
<1>6. ASSUME NEW C, NEW s \in C PROVE C \in groups <=> s \in M /\ C = Part(s, g, E) /\ C # {s}
  BY <1>4, <1>5
<1> HIDE DEF groups, M
<1>7. ASSUME NEW s \in M
      PROVE  /\ Part(s, g, E) = {s} => member'[s] = NoGlobal
             /\ Part(s, g, E) # {s} /\ retained \in Part(s, g, E) => member'[s] = g
             /\ Part(s, g, E) # {s} /\ retained \notin Part(s, g, E) =>
                  Part(s, g, E) \in others /\ member'[s] = id[Part(s, g, E)]
  <2>1. \A C \in groups : s \in C => C = Part(s, g, E) /\ C # {s}
    BY <1>6
  <2>2. Part(s, g, E) # {s} => Part(s, g, E) \in groups
    BY <1>4, <1>6
  <2>3. CASE Part(s, g, E) = {s}
    BY <1>1, <1>2, <2>1, <2>3
  <2>4. CASE Part(s, g, E) # {s} /\ retained \in Part(s, g, E)
    BY <1>1, <1>2, <1>4, <2>2, <2>4
  <2>5. CASE Part(s, g, E) # {s} /\ retained \notin Part(s, g, E)
    <3>1. Part(s, g, E) \in others /\ s \in Part(s, g, E)
      BY <1>4, <2>2, <2>5
    <3>2. (CHOOSE C \in others : s \in C) = Part(s, g, E)
      BY <2>1, <3>1
    <3>3. ~ \E C \in groups : s \in C /\ retained \in C
      BY <2>1, <2>5
    <3> HIDE DEF others
    <3> QED
      BY <1>1, <1>2, <2>5, <3>1, <3>2, <3>3
  <2> QED
    BY <2>3, <2>4, <2>5
<1>8. ASSUME NEW s \in M
      PROVE  /\ member'[s] = NoGlobal <=> Part(s, g, E) = {s}
             /\ member'[s] \in Unused \union {g, NoGlobal}
             /\ member'[s] = g <=> Part(s, g, E) # {s} /\ retained \in Part(s, g, E)
  <2>1. NoGlobal \notin Unused /\ g # NoGlobal
    BY <1>2
  <2>2. Part(s, g, E) \in others => id[Part(s, g, E)] \in Unused
    OBVIOUS
  <2> HIDE DEF others
  <2> QED
    BY <1>3, <1>7, <2>1, <2>2
<1>9. \A s \in Speakers \ M : member'[s] = member[s] /\ member[s] # g
  BY <1>1, <1>2
<1>10. ASSUME NEW s \in M, member'[s] # NoGlobal PROVE global'[member'[s]] = "active"
  <2>1. CASE retained \in Part(s, g, E)
    <3>1. member'[s] = g /\ Part(s, g, E) \in groups
      BY <1>4, <1>6, <1>8, <1>10, <2>1
    <3> QED
      BY <1>1, <2>1, <3>1
  <2>2. CASE retained \notin Part(s, g, E)
    <3>1. Part(s, g, E) \in others /\ member'[s] = id[Part(s, g, E)]
      BY <1>7, <1>8, <1>10, <2>2
    <3>2. member'[s] \in Globals \ {g}
      BY <1>2, <1>3, <1>8, <1>10, <2>2, <3>1
    <3> HIDE DEF others
    <3> QED
      BY <1>1, <3>1, <3>2
  <2> QED
    BY <2>1, <2>2
<1>11. ASSUME NEW s \in M, member'[s] # NoGlobal, NEW t \in Speakers
       PROVE  member'[t] = member'[s] <=> t \in Part(s, g, E)
  <2>1. CASE t \notin M
    BY <1>3, <1>4, <1>8, <1>9, <1>11, <2>1
  <2>2. CASE t \in Part(s, g, E)
    <3>1. t \in M /\ Part(t, g, E) = Part(s, g, E)
      BY <1>4, <2>2
    <3>2. Part(s, g, E) # {s} /\ Part(t, g, E) # {t}
      BY <1>4, <1>8, <1>11, <3>1
    <3> HIDE DEF others
    <3> QED
      BY <1>7, <2>2, <3>1, <3>2
  <2>3. CASE t \in M \ Part(s, g, E)
    <3>1. Part(t, g, E) # Part(s, g, E) /\ Part(s, g, E) # {s}
      BY <1>4, <1>8, <1>11, <2>3
    <3>2. ~(retained \in Part(s, g, E) /\ retained \in Part(t, g, E))
      BY <1>2, <1>4, <2>3, <3>1
    <3>3. CASE member'[t] \in {g, NoGlobal} \/ member'[s] = g
      BY <1>8, <1>11, <2>3, <3>1, <3>2, <3>3
    <3>4. CASE member'[t] \notin {g, NoGlobal} /\ member'[s] # g
      <4>1. /\ Part(s, g, E) \in others /\ member'[s] = id[Part(s, g, E)]
            /\ Part(t, g, E) \in others /\ member'[t] = id[Part(t, g, E)]
        BY <1>7, <1>8, <1>11, <2>3, <3>4
      <4> HIDE DEF others
      <4> QED
        BY <1>1, <2>3, <3>1, <4>1
    <3> QED
      BY <3>3, <3>4
  <2> QED
    BY <2>1, <2>2, <2>3
<1>12. ASSUME NEW h \in Globals, global'[h] = "active"
       PROVE  \/ \E s \in M : member'[s] = h
              \/ h # g /\ global[h] = "active"
  <2>1. CASE h = g
    <3>1. PICK C \in groups : retained \in C
      BY <1>1, <1>12, <2>1
    <3>2. C = Part(retained, g, E) /\ C # {retained}
      BY <1>6, <3>1
    <3> QED
      BY <1>2, <1>8, <2>1, <3>1, <3>2
  <2>2. CASE h # g /\ \E C \in others : id[C] = h
    <3>1. PICK C \in others : id[C] = h
      BY <2>2
    <3>2. PICK s \in M : C = Part(s, g, E)
      BY <3>1 DEF groups
    <3>3. Part(s, g, E) # {s} /\ retained \notin Part(s, g, E)
      BY <1>4, <1>6, <3>1, <3>2
    <3> QED
      BY <1>7, <3>1, <3>2, <3>3
  <2>3. CASE h # g /\ ~ \E C \in others : id[C] = h
    BY <1>1, <1>12, <2>3
  <2> QED
    BY <2>1, <2>2, <2>3
<1>13. \A h \in Globals \ {g} : global[h] = "active" => global'[h] = "active"
  BY <1>1
<1>14. member' \in [Speakers -> Globals \union {NoGlobal}]
  <2>1. \A s \in Speakers : member'[s] \in Globals \union {NoGlobal}
    BY <1>2, <1>8, <1>9
  <2>2. member' = [s \in Speakers |-> member'[s]]
    BY <1>1
  <2> QED
    BY <2>1, <2>2, Zenon
<1>15. \A h \in Globals : global[h] = "superseded" => global'[h] = "superseded"
  <2>1. global[g] = "active"
    BY <1>2 DEF IdentityInv, GroupsInv, IdsAreShared
  <2>2. \A C \in others : global[id[C]] = "unused"
    BY <1>1, <1>2
  <2> HIDE DEF others
  <2> QED
    BY <1>1, <2>1, <2>2
<1>16. global' \in [Globals -> {"unused", "active", "superseded"}]
  BY <1>1, <1>2
<1> QED
  BY <1>8, <1>9, <1>10, <1>11, <1>12, <1>13, <1>14, <1>15, <1>16 DEF M

LEMMA RebuildGroups ==
  ASSUME IdentityInv, NEW g \in Globals, NEW retained \in Speakers,
         NEW D \in SUBSET Active("same_person"),
         \A d \in D : decisions[d].left \in MembersOf(g) /\ decisions[d].right \in MembersOf(g),
         Rebuild(g, retained, Pairs(Active("same_person") \ D)),
         SamePairs' = Pairs(Active("same_person") \ D),
         ApartPairs' = ApartPairs
  PROVE  GroupsInv' /\ member' \in [Speakers -> Globals \union {NoGlobal}]
                    /\ global' \in [Globals -> {"unused", "active", "superseded"}]
                    /\ \A h \in Globals : global[h] = "superseded" => global'[h] = "superseded"
<1> DEFINE E == Pairs(Active("same_person") \ D)
           M == MembersOf(g)
<1>1. TypeOK /\ IdsAreShared /\ GroupsAreComponents /\ ApartIsApart /\ NoGlobal \notin Globals
  BY IdentityAssumption DEF IdentityInv, HistoryInv, GroupsInv
<1>2. Symmetric(E) /\ E \subseteq SamePairs
  <2>1. Active("same_person") \ D \subseteq DOMAIN decisions
    BY DEF Active
  <2>2. Symmetric(E)
    BY <1>1, <2>1, PairsOf
  <2> QED
    BY <2>2 DEF SamePairs, Pairs
<1>3. \A p \in SamePairs \ E : p[1] \in M
  BY DEF SamePairs, Pairs
<1> HIDE DEF E
<1>4. Rebuild(g, retained, E) /\ SamePairs' = E
  BY DEF E
<1>5. /\ member' \in [Speakers -> Globals \union {NoGlobal}]
      /\ global' \in [Globals -> {"unused", "active", "superseded"}]
      /\ \A s \in Speakers \ M : member'[s] = member[s]
      /\ \A s \in M :
           /\ member'[s] = NoGlobal => Part(s, g, E) = {s}
           /\ member'[s] # NoGlobal =>
                /\ Part(s, g, E) # {s}
                /\ global'[member'[s]] = "active"
                /\ \A t \in Speakers : member'[t] = member'[s] <=> t \in Part(s, g, E)
      /\ \A h \in Globals : global'[h] = "active" =>
           \/ \E s \in M : member'[s] = h
           \/ h # g /\ global[h] = "active"
      /\ \A h \in Globals \ {g} : global[h] = "active" => global'[h] = "active"
      /\ \A h \in Globals : global[h] = "superseded" => global'[h] = "superseded"
  BY <1>2, <1>4, RebuildEffect
<1>6. /\ M \subseteq Speakers /\ \A s \in M : member[s] = g /\ Group(s) = M
      /\ \A s \in Speakers \ M : member[s] # g
      /\ \A s \in M : s \in Part(s, g, E) /\ Part(s, g, E) \subseteq M
  BY <1>1, ComponentClosed DEF MembersOf, Part, Group
<1> HIDE DEF M
<1>7. ASSUME NEW s \in Speakers
      PROVE  Group(s)' = IF s \in M THEN Part(s, g, E) ELSE Group(s)
  <2>1. CASE s \in M /\ member'[s] = NoGlobal
    BY <1>5, <2>1 DEF Group
  <2>2. CASE s \in M /\ member'[s] # NoGlobal
    BY <1>5, <1>6, <2>2 DEF Group
  <2>3. CASE s \notin M
    <3>1. \A t \in M : member'[s] # NoGlobal => member'[t] # member'[s] /\ member[t] # member[s]
      BY <1>5, <1>6, <2>3
    <3>2. \A t \in Speakers \ M : member'[t] = member[t]
      BY <1>5
    <3> QED
      BY <2>3, <3>1, <3>2 DEF Group
  <2> QED
    BY <2>1, <2>2, <2>3
<1>8. GroupsAreComponents'
  <2>1. ASSUME NEW s \in Speakers
        PROVE  Component(s, Speakers, E) = IF s \in M THEN Part(s, g, E) ELSE Group(s)
    BY <1>2, <1>3, ComponentsSplit DEF Part, M
  <2> QED
    BY <1>4, <1>7, <2>1 DEF GroupsAreComponents
<1>9. IdsAreShared'
  <2>1. ASSUME NEW s \in Speakers, member'[s] # NoGlobal
        PROVE  global'[member'[s]] = "active" /\ \E t \in Speakers \ {s} : member'[t] = member'[s]
    <3>1. CASE s \in M
      <4>1. PICK t \in Part(s, g, E) : t # s
        BY <1>5, <1>6, <2>1, <3>1
      <4> QED
        BY <1>5, <1>6, <2>1, <3>1, <4>1
    <3>2. CASE s \notin M
      <4>1. /\ member'[s] = member[s] /\ member[s] \in Globals \ {g}
            /\ global[member[s]] = "active"
        BY <1>1, <1>5, <1>6, <2>1, <3>2 DEF IdsAreShared
      <4>2. PICK t \in Speakers \ {s} : member[t] = member[s]
        BY <1>1, <2>1, <4>1 DEF IdsAreShared
      <4>3. member'[t] = member[t]
        BY <1>5, <1>6, <4>1, <4>2
      <4> QED
        BY <1>5, <4>1, <4>2, <4>3
    <3> QED
      BY <3>1, <3>2
  <2>2. ASSUME NEW h \in Globals, global'[h] = "active"
        PROVE  \E s \in Speakers : member'[s] = h
    BY <1>1, <1>5, <1>6, <2>2 DEF IdsAreShared
  <2> QED
    BY <2>1, <2>2 DEF IdsAreShared
<1>10. ApartIsApart'
  <2> SUFFICES ASSUME NEW p \in ApartPairs, p[2] \in Group(p[1])' PROVE FALSE
    BY DEF ApartIsApart
  <2>1. p[1] \in Speakers /\ p[2] \notin Group(p[1])
    BY <1>1, SamePairsOf DEF ApartIsApart
  <2> QED
    BY <1>6, <1>7, <2>1
<1> QED
  BY <1>5, <1>8, <1>9, <1>10 DEF GroupsInv

-----------------------------------------------------------------------------
(*                            The steps                                    *)

(* What is in force stays so, or ends; what has ended stays so.            *)
FinalStep ==
  /\ \A d \in DOMAIN decisions :
       decisions[d].state = "superseded" => decisions'[d] = decisions[d]
  /\ \A g \in Globals : global[g] = "superseded" => global'[g] = "superseded"

LEMMA ClaimKeeps ==
  ASSUME TypeOK, NEW v \in Reviewers, ClaimRevision(v)
  PROVE  /\ mapping' \in [Speakers -> {"unregistered", "current", "stale"}]
         /\ revision' \in Nat
         /\ page' \in [Reviewers -> Page]
BY DEF TypeOK, ClaimRevision, NoPage, Page

(* The edits that record a decision.                                       *)
LEMMA RecordingKeeps ==
  ASSUME IdentityInv, NEW v \in Reviewers, NEW l \in Speakers, NEW r \in Speakers,
         \/ \E keep \in Globals : Merge(v, l, r, keep)
         \/ Confirm(v, l, r) \/ Separate(v, l, r) \/ Doubt(v, l, r)
  PROVE  IdentityInv' /\ FinalStep
<1>1. TypeOK /\ HistoryInv
  BY DEF IdentityInv, HistoryInv
<1>2. ASSUME NEW kind \in Kinds, Record(l, r, kind), l # r, ClaimRevision(v),
             member' \in [Speakers -> Globals \union {NoGlobal}],
             global' \in [Globals -> {"unused", "active", "superseded"}]
      PROVE  /\ HistoryInv'
             /\ \A k \in Kinds \ {kind} : Pairs(Active(k))' = Pairs(Active(k))
             /\ Pairs(Active(kind))' = WithPair(Pairs(Active(kind)), l, r)
             /\ \A d \in DOMAIN decisions : decisions'[d] = decisions[d]
  <2>1. /\ decisions' \in Seq(Decision) /\ audit' \subseteq Nat \X Nat
        /\ DecisionsOK' /\ AuditIsComplete'
        /\ \A k \in Kinds \ {kind} : Pairs(Active(k))' = Pairs(Active(k))
        /\ Pairs(Active(kind))' = WithPair(Pairs(Active(kind)), l, r)
        /\ \A d \in DOMAIN decisions : d \in DOMAIN decisions' /\ decisions'[d] = decisions[d]
    BY <1>1, <1>2, RecordEffect
  <2>2. TypeOK'
    BY <1>1, <1>2, <2>1, ClaimKeeps DEF TypeOK
  <2> QED
    BY <2>1, <2>2 DEF HistoryInv
<1>3. "same_person" \in Kinds /\ "different_person" \in Kinds /\ "uncertain" \in Kinds
  BY DEF Kinds
<1>4. /\ member \in [Speakers -> Globals \union {NoGlobal}]
      /\ global \in [Globals -> {"unused", "active", "superseded"}]
  BY <1>1 DEF TypeOK
<1>5. ASSUME NEW keep \in Globals, Merge(v, l, r, keep) PROVE IdentityInv' /\ FinalStep
  <2>1. Record(l, r, "same_person") /\ l # r /\ ClaimRevision(v)
    BY <1>5 DEF Merge, Recordable
  <2>2. /\ member' \in [Speakers -> Globals \union {NoGlobal}]
        /\ global' \in [Globals -> {"unused", "active", "superseded"}]
    BY <1>4, <1>5 DEF Merge
  <2>3. HistoryInv' /\ SamePairs' = WithPair(SamePairs, l, r) /\ ApartPairs' = ApartPairs
        /\ \A d \in DOMAIN decisions : decisions'[d] = decisions[d]
    BY <1>2, <1>3, <2>1, <2>2 DEF SamePairs, ApartPairs
  <2>4. GroupsInv'
    BY <1>5, <2>3, MergeGroups
  <2>5. \A g \in Globals : global[g] = "superseded" => global'[g] = "superseded"
    <3>1. global[keep] # "superseded"
      BY <1>4, <1>5 DEF Merge, Unused, IdentityInv, GroupsInv, IdsAreShared
    <3> QED
      BY <1>4, <1>5, <3>1 DEF Merge
  <2> QED
    BY <2>3, <2>4, <2>5 DEF IdentityInv, FinalStep
<1>6. ASSUME Confirm(v, l, r) PROVE IdentityInv' /\ FinalStep
  <2>1. /\ Record(l, r, "same_person") /\ l # r /\ ClaimRevision(v)
        /\ Group(l) = Group(r) /\ UNCHANGED <<member, global>>
    BY <1>6 DEF Confirm, Recordable
  <2>2. HistoryInv' /\ SamePairs' = WithPair(SamePairs, l, r) /\ ApartPairs' = ApartPairs
        /\ \A d \in DOMAIN decisions : decisions'[d] = decisions[d]
    BY <1>2, <1>3, <1>4, <2>1 DEF SamePairs, ApartPairs
  <2>3. GroupsInv'
    BY <2>1, <2>2, ConfirmGroups
  <2> QED
    BY <2>1, <2>2, <2>3 DEF IdentityInv, FinalStep
<1>7. ASSUME Separate(v, l, r) PROVE IdentityInv' /\ FinalStep
  <2>1. /\ Record(l, r, "different_person") /\ l # r /\ ClaimRevision(v)
        /\ Group(l) \intersect Group(r) = {} /\ UNCHANGED <<member, global>>
    BY <1>7 DEF Separate, Recordable
  <2>2. HistoryInv' /\ SamePairs' = SamePairs /\ ApartPairs' = WithPair(ApartPairs, l, r)
        /\ \A d \in DOMAIN decisions : decisions'[d] = decisions[d]
    BY <1>2, <1>3, <1>4, <2>1 DEF SamePairs, ApartPairs
  <2>3. GroupsInv'
    BY <2>1, <2>2, SeparateGroups
  <2> QED
    BY <2>1, <2>2, <2>3 DEF IdentityInv, FinalStep
<1>8. ASSUME Doubt(v, l, r) PROVE IdentityInv' /\ FinalStep
  <2>1. /\ Record(l, r, "uncertain") /\ l # r /\ ClaimRevision(v)
        /\ UNCHANGED <<member, global>>
    BY <1>8 DEF Doubt, Recordable
  <2>2. HistoryInv' /\ SamePairs' = SamePairs /\ ApartPairs' = ApartPairs
        /\ \A d \in DOMAIN decisions : decisions'[d] = decisions[d]
    BY <1>2, <1>3, <1>4, <2>1 DEF SamePairs, ApartPairs
  <2>3. GroupsInv'
    BY <2>1, <2>2, SeparateGroups
  <2> QED
    BY <2>1, <2>2, <2>3 DEF IdentityInv, FinalStep
<1> QED
  BY <1>5, <1>6, <1>7, <1>8

(* The edits that supersede decisions and rebuild a group.                 *)
LEMMA RetractingKeeps ==
  ASSUME IdentityInv, NEW v \in Reviewers, NEW retained \in Speakers,
         \/ \E d \in DOMAIN decisions : Undo(v, d, retained)
         \/ \E g \in Globals, separated \in SUBSET Speakers : Split(v, g, separated, retained)
  PROVE  IdentityInv' /\ FinalStep
<1>1. TypeOK /\ HistoryInv /\ GroupsAreComponents /\ NoGlobal \notin Globals
  BY IdentityAssumption DEF IdentityInv, HistoryInv, GroupsInv
<1>2. /\ member \in [Speakers -> Globals \union {NoGlobal}]
      /\ global \in [Globals -> {"unused", "active", "superseded"}]
      /\ "same_person" \in Kinds /\ "different_person" \in Kinds
      /\ \A d \in DOMAIN decisions : decisions[d] \in Decision
  BY <1>1 DEF TypeOK, Kinds
<1>3. ASSUME NEW D \in SUBSET DOMAIN decisions, \A d \in D : decisions[d].state = "active",
             Supersede(D), ClaimRevision(v),
             member' \in [Speakers -> Globals \union {NoGlobal}],
             global' \in [Globals -> {"unused", "active", "superseded"}]
      PROVE  HistoryInv'
  <2>1. /\ decisions' \in Seq(Decision) /\ audit' \subseteq Nat \X Nat
        /\ DecisionsOK' /\ AuditIsComplete'
    BY <1>1, <1>3, SupersedeEffect
  <2>2. TypeOK'
    BY <1>1, <1>3, <2>1, ClaimKeeps DEF TypeOK
  <2> QED
    BY <2>1, <2>2 DEF HistoryInv
<1>4. ASSUME NEW D \in SUBSET DOMAIN decisions, \A d \in D : decisions[d].state = "active",
             Supersede(D)
      PROVE  /\ SamePairs' = Pairs(Active("same_person") \ D)
             /\ ApartPairs' = Pairs(Active("different_person") \ D)
             /\ \A d \in DOMAIN decisions :
                  decisions[d].state = "superseded" => decisions'[d] = decisions[d]
  BY <1>1, <1>2, <1>4, SupersedeEffect DEF SamePairs, ApartPairs
(* Superseding same-person decisions within the group g and rebuilding it. *)
<1>5. ASSUME NEW g \in Globals, NEW D \in SUBSET Active("same_person"),
             \A d \in D : decisions[d].left \in MembersOf(g) /\ decisions[d].right \in MembersOf(g),
             Rebuild(g, retained, Pairs(Active("same_person") \ D)),
             Supersede(D), ClaimRevision(v)
      PROVE  IdentityInv' /\ FinalStep
  <2>1. D \in SUBSET DOMAIN decisions /\ \A d \in D : decisions[d].state = "active"
    BY DEF Active
  <2>2. /\ SamePairs' = Pairs(Active("same_person") \ D)
        /\ \A d \in DOMAIN decisions :
             decisions[d].state = "superseded" => decisions'[d] = decisions[d]
    BY <1>4, <1>5, <2>1
  <2>3. ApartPairs' = ApartPairs
    <3>1. Active("different_person") \ D = Active("different_person")
      BY DEF Active
    <3> QED
      BY <1>4, <1>5, <2>1, <3>1 DEF ApartPairs
  <2>4. GroupsInv' /\ member' \in [Speakers -> Globals \union {NoGlobal}]
                   /\ global' \in [Globals -> {"unused", "active", "superseded"}]
                   /\ \A h \in Globals : global[h] = "superseded" => global'[h] = "superseded"
    BY <1>5, <2>2, <2>3, RebuildGroups
  <2> QED
    BY <1>3, <1>5, <2>1, <2>2, <2>4 DEF IdentityInv, FinalStep
<1>6. ASSUME NEW d \in DOMAIN decisions, Undo(v, d, retained) PROVE IdentityInv' /\ FinalStep
  <2> DEFINE g == member[decisions[d].left]
  <2>1. /\ decisions[d].state = "active" /\ ClaimRevision(v) /\ Supersede({d})
        /\ IF decisions[d].kind = "same_person" /\ g # NoGlobal
           THEN Rebuild(g, retained, Pairs(Active("same_person") \ {d}))
           ELSE UNCHANGED <<member, global>>
    BY <1>6 DEF Undo
  <2>2. CASE decisions[d].kind = "same_person"
    <3> DEFINE l == decisions[d].left
               r == decisions[d].right
    <3>1. l \in Speakers /\ r \in Speakers /\ l # r
      BY <1>1, <1>2 DEF HistoryInv, DecisionsOK, Decision
    <3>2. d \in Active("same_person") /\ Active("same_person") \subseteq DOMAIN decisions
      BY <2>1, <2>2 DEF Active
    <3>3. <<l, r>> \in SamePairs /\ <<l, r>>[1] = l /\ <<l, r>>[2] = r
      BY <1>1, <3>2, PairsOf DEF SamePairs
    <3> HIDE DEF l, r
    <3>4. r \in Group(l)
      BY <1>1, <3>1, <3>3, ComponentClosed DEF GroupsAreComponents, Closed
    <3>5. g \in Globals /\ l \in MembersOf(g) /\ r \in MembersOf(g)
      BY <1>2, <3>1, <3>4 DEF Group, MembersOf, l
    <3>6. Rebuild(g, retained, Pairs(Active("same_person") \ {d}))
      BY <1>1, <2>1, <2>2, <3>5
    <3> QED
      BY <1>5, <2>1, <3>2, <3>5, <3>6 DEF l, r
  <2>3. CASE decisions[d].kind # "same_person"
    <3>1. UNCHANGED <<member, global>>
      BY <2>1, <2>3
    <3>2. Active("same_person") \ {d} = Active("same_person")
      BY <2>3 DEF Active
    <3>3. /\ SamePairs' = Pairs(Active("same_person") \ {d})
          /\ ApartPairs' = Pairs(Active("different_person") \ {d})
          /\ \A e \in DOMAIN decisions :
               decisions[e].state = "superseded" => decisions'[e] = decisions[e]
      BY <1>4, <2>1
    <3>4. SamePairs' = SamePairs /\ ApartPairs' \subseteq ApartPairs
      BY <3>2, <3>3 DEF SamePairs, ApartPairs, Pairs
    <3>5. GroupsInv'
      BY <3>1, <3>4, SeparateGroups
    <3>6. HistoryInv'
      BY <1>2, <1>3, <2>1, <3>1
    <3> QED
      BY <3>1, <3>3, <3>5, <3>6 DEF IdentityInv, FinalStep
  <2> QED
    BY <2>2, <2>3
<1>7. ASSUME NEW g \in Globals, NEW separated \in SUBSET Speakers,
             Split(v, g, separated, retained)
      PROVE  IdentityInv' /\ FinalStep
  <2> DEFINE crossing == {d \in Active("same_person") :
                /\ {decisions[d].left, decisions[d].right} \subseteq MembersOf(g)
                /\ (decisions[d].left \in separated) # (decisions[d].right \in separated)}
  <2>1. /\ ClaimRevision(v) /\ Supersede(crossing)
        /\ Rebuild(g, retained, Pairs(Active("same_person") \ crossing))
    BY <1>7 DEF Split
  <2>2. /\ crossing \subseteq Active("same_person")
        /\ \A d \in crossing : decisions[d].left \in MembersOf(g) /\ decisions[d].right \in MembersOf(g)
    OBVIOUS
  <2> HIDE DEF crossing
  <2> QED
    BY <1>5, <2>1, <2>2
<1> QED
  BY <1>6, <1>7

(* Registration and the pages touch no decision; naming claims a revision. *)
LEMMA OtherKeeps ==
  ASSUME IdentityInv,
         \/ \E s \in Speakers : Register(s)
         \/ \E v \in Reviewers : \/ LoadRows(v) \/ LoadRevision(v) \/ Reload(v)
                                  \/ \E g \in Globals : Name(v, g)
         \/ UNCHANGED vars
  PROVE  IdentityInv' /\ FinalStep
<1>1. UNCHANGED <<decisions, audit, member, global>>
  BY DEF Register, LoadRows, LoadRevision, Reload, Name, vars
<1>2. TypeOK
  BY DEF IdentityInv, HistoryInv
<1>3. TypeOK'
  <2>1. CASE \E s \in Speakers : Register(s)
    BY <1>2, <2>1 DEF TypeOK, Register
  <2>2. ASSUME NEW v \in Reviewers, LoadRows(v) \/ LoadRevision(v) \/ Reload(v) PROVE TypeOK'
    <3>1. page \in [Reviewers -> Page] /\ revision \in Nat
      BY <1>2 DEF TypeOK
    <3>2. UNCHANGED <<mapping, revision>>
      BY <2>2 DEF LoadRows, LoadRevision, Reload
    <3>3. CASE LoadRows(v) \/ Reload(v)
      <4>1. [pc |-> "loading", rows |-> revision, revision |-> 0] \in Page /\ NoPage \in Page
        BY <3>1 DEF NoPage, Page
      <4>2. page' \in [Reviewers -> Page]
        BY <3>1, <3>3, <4>1 DEF LoadRows, Reload
      <4> QED
        BY <1>1, <1>2, <3>2, <4>2 DEF TypeOK
    <3>4. CASE LoadRevision(v)
      <4>1. page'[v] = [pc |-> "open", rows |-> page[v].rows, revision |-> revision]
        BY <3>1, <3>4 DEF LoadRevision, Page
      <4>2. page'[v] \in Page
        BY <3>1, <4>1 DEF Page
      <4>3. page' = [page EXCEPT ![v] = page'[v]]
        BY <3>1, <3>4 DEF LoadRevision
      <4>4. page' \in [Reviewers -> Page]
        BY <3>1, <4>2, <4>3
      <4> QED
        BY <1>1, <1>2, <3>2, <4>4 DEF TypeOK
    <3> QED
      BY <2>2, <3>3, <3>4
  <2>3. ASSUME NEW v \in Reviewers, \E g \in Globals : Name(v, g) PROVE TypeOK'
    BY <1>1, <1>2, <2>3, ClaimKeeps DEF TypeOK, Name
  <2>4. CASE UNCHANGED vars
    BY <1>2, <2>4 DEF TypeOK, vars
  <2> QED
    BY <2>1, <2>2, <2>3, <2>4
<1>4. DecisionsOK' /\ AuditIsComplete'
  BY <1>1 DEF IdentityInv, HistoryInv, DecisionsOK, AuditIsComplete
<1>5. SamePairs' = SamePairs /\ ApartPairs' = ApartPairs
  BY <1>1 DEF SamePairs, ApartPairs, Pairs, Active
<1>6. \A s \in Speakers : Group(s)' = Group(s)
  BY <1>1 DEF Group
<1>7. \A p \in ApartPairs : p[1] \in Speakers
  BY <1>2, SamePairsOf
<1>8. GroupsInv'
  BY <1>1, <1>5, <1>6, <1>7
     DEF IdentityInv, GroupsInv, IdsAreShared, GroupsAreComponents, ApartIsApart
<1> QED
  BY <1>1, <1>3, <1>4, <1>8 DEF IdentityInv, HistoryInv, FinalStep

LEMMA IdentityStep ==
  ASSUME IdentityInv, [Next]_vars
  PROVE  IdentityInv' /\ FinalStep
<1>1. ASSUME NEW v \in Reviewers, Edit(v) PROVE IdentityInv' /\ FinalStep
  BY <1>1, RecordingKeeps, RetractingKeeps, OtherKeeps DEF Edit
<1> QED
  BY <1>1, OtherKeeps DEF Next

(* Without decisions everybody is alone.                                   *)
LEMMA IdentityInit == Init => IdentityInv
<1> SUFFICES ASSUME Init PROVE IdentityInv
  OBVIOUS
<1>1. DOMAIN decisions = {} /\ decisions \in Seq(Decision)
  BY DEF Init
<1>2. TypeOK
  BY <1>1 DEF Init, TypeOK, NoPage, Page
<1>3. DecisionsOK /\ AuditIsComplete
  BY <1>1 DEF Init, DecisionsOK, AuditIsComplete
<1>4. SamePairs = {} /\ ApartPairs = {}
  BY <1>1 DEF SamePairs, ApartPairs, Pairs, Active
<1>5. \A s \in Speakers : Group(s) = {s} /\ member[s] = NoGlobal
  BY DEF Init, Group
<1>6. \A s \in Speakers : Component(s, Speakers, {}) = {s}
  BY DEF Component
<1>7. GroupsInv
  BY <1>4, <1>5, <1>6 DEF Init, GroupsInv, IdsAreShared, GroupsAreComponents, ApartIsApart
<1> QED
  BY <1>2, <1>3, <1>7 DEF IdentityInv, HistoryInv

LEMMA IdentityAlways == Spec => []IdentityInv
<1>1. IdentityInv /\ [Next]_vars => IdentityInv'
  BY IdentityStep
<1> QED
  BY IdentityInit, <1>1, PTL DEF Spec

-----------------------------------------------------------------------------
(*                            The theorems                                 *)

(* The identity tables and every page are well typed.                      *)
THEOREM IdentityTypes == Spec => []TypeOK
<1>1. IdentityInv => TypeOK
  BY DEF IdentityInv, HistoryInv
<1> QED
  BY IdentityAlways, <1>1, PTL

(* Memberships, merged and rebuilt one group at a time, are always the     *)
(* connected components of the active same-person decisions                *)
(* (append_identity_decision, _rebuild_identity_group).                    *)
THEOREM MembershipProjected == Spec => []MembershipIsProjection
<1>1. ASSUME IdentityInv PROVE MembershipIsProjection
  BY <1>1 DEF IdentityInv, GroupsInv, GroupsAreComponents, SamePairs, Group,
              MembershipIsProjection
<1> QED
  BY IdentityAlways, <1>1, PTL

(* No chain of merges, undos and splits puts two speakers together that a  *)
(* human has told apart (append_identity_decision).                        *)
THEOREM NeverContradicted == Spec => []NoContradiction
<1>1. ASSUME IdentityInv PROVE NoContradiction
  <2>1. \A p \in ApartPairs : p[1] \in Speakers /\ p[2] \in Speakers /\ p[2] \notin Group(p[1])
    BY <1>1, SamePairsOf DEF IdentityInv, HistoryInv, GroupsInv, ApartIsApart
  <2> QED
    BY <2>1 DEF ApartPairs, Group, NoContradiction
<1> QED
  BY IdentityAlways, <1>1, PTL

(* A global speaker is active exactly while two speakers or more share it. *)
THEOREM ActiveGlobalsShared == Spec => []ActiveGlobalsAreGroups
<1>1. ASSUME IdentityInv PROVE ActiveGlobalsAreGroups
  <2> SUFFICES ASSUME NEW g \in Globals
               PROVE  global[g] = "active" <=> Cardinality(MembersOf(g)) >= 2
    BY DEF ActiveGlobalsAreGroups
  <2>1. IsFiniteSet(MembersOf(g)) /\ Cardinality(MembersOf(g)) \in Nat
    BY IdentityAssumption, FS_Subset, FS_CardinalityType DEF MembersOf
  <2>2. \A s \in MembersOf(g) : Cardinality(MembersOf(g)) > 1 <=> \E t \in MembersOf(g) : t # s
    BY <2>1, MoreThanOne
  <2>3. MembersOf(g) = {} => Cardinality(MembersOf(g)) = 0
    BY FS_EmptySet
  <2>4. global[g] = "active" <=> \E s \in MembersOf(g) : \E t \in MembersOf(g) : t # s
    BY <1>1, IdentityAssumption DEF IdentityInv, GroupsInv, IdsAreShared, MembersOf
  <2> QED
    BY <2>1, <2>2, <2>3, <2>4
<1> QED
  BY IdentityAlways, <1>1, PTL

(* The audit has every revision of every decision and nothing else.        *)
THEOREM AuditComplete == Spec => []AuditIsComplete
<1>1. IdentityInv => AuditIsComplete
  BY DEF IdentityInv, HistoryInv
<1> QED
  BY IdentityAlways, <1>1, PTL

(* Neither a superseded decision nor a superseded global speaker comes     *)
(* into force again, by no sequence of edits.                              *)
THEOREM SupersededFinal == Spec => SupersededIsFinal
<1>1. IdentityInv /\ [Next]_vars =>
        [/\ \A d \in DOMAIN decisions :
              decisions[d].state = "superseded" => decisions'[d] = decisions[d]
         /\ \A g \in Globals : global[g] = "superseded" => global'[g] = "superseded"]_vars
  BY IdentityStep DEF FinalStep
<1> QED
  BY IdentityAlways, <1>1, PTL DEF Spec, SupersededIsFinal
===============================================================================
