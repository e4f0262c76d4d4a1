--------------------------- MODULE IdentityReview ---------------------------
(***************************************************************************)
(* Human identity decisions between episode speakers: the identity tables  *)
(* of storage.py and the speakers page and API of web.py.                  *)
(*                                                                         *)
(* Every edit first raises identity_state.revision with a guarded UPDATE,  *)
(* which takes SQLite's write lock before anything is read: an edit is one *)
(* action.  The speakers page is not: it reads the rows, the decisions and *)
(* the revision in statements of their own.                                *)
(*                                                                         *)
(* The memberships are kept incrementally: a same-person decision merges   *)
(* two groups, an undo or a split rebuilds one.  Display names and the     *)
(* per-row revision counters that nothing compares are left out.           *)
(***************************************************************************)
EXTENDS Naturals, FiniteSets, Sequences

CONSTANTS
  Speakers,      \* episode speakers
  EpisodeOf,     \* the episode of a speaker
  DiarizationOf, \* the diarization artifact that found it
  Globals,       \* ids for global speakers
  Reviewers,
  MaxDecisions,  \* bound: decisions ever recorded
  MaxEdits,      \* bound: accepted edits
  NoGlobal

ASSUME IdentityAssumption ==
  /\ IsFiniteSet(Speakers)
  /\ IsFiniteSet(Globals)
  /\ MaxDecisions \in Nat
  /\ MaxEdits \in Nat
  /\ NoGlobal \notin Globals

VARIABLES
  mapping,    \* episode_speakers.mapping_state, or "unregistered"
  revision,   \* identity_state.revision
  decisions,  \* identity_decisions, in the order they were recorded
  audit,      \* identity_audit: <<decision, its revision>>
  member,     \* identity_memberships, by episode speaker
  global,     \* global_speakers.state, or "unused"
  page        \* what each reviewer's speakers page shows

vars == <<mapping, revision, decisions, audit, member, global, page>>
review == <<revision, decisions, audit, member, global>>

Kinds == {"same_person", "different_person", "uncertain"}

Decision == [left : Speakers, right : Speakers, kind : Kinds,
             state : {"active", "superseded"}, revision : Nat]

(* rows: the revision whose rows the page shows; revision: the one it sends*)
NoPage == [pc |-> "closed", rows |-> 0, revision |-> 0]
Page == [pc : {"closed", "loading", "open"}, rows : Nat, revision : Nat]

TypeOK ==
  /\ mapping \in [Speakers -> {"unregistered", "current", "stale"}]
  /\ revision \in Nat
  /\ decisions \in Seq(Decision)
  /\ audit \subseteq Nat \X Nat
  /\ member \in [Speakers -> Globals \union {NoGlobal}]
  /\ global \in [Globals -> {"unused", "active", "superseded"}]
  /\ page \in [Reviewers -> Page]

Init ==
  /\ mapping = [s \in Speakers |-> "unregistered"]
  /\ revision = 0
  /\ decisions = << >>
  /\ audit = {}
  /\ member = [s \in Speakers |-> NoGlobal]
  /\ global = [g \in Globals |-> "unused"]
  /\ page = [v \in Reviewers |-> NoPage]

-----------------------------------------------------------------------------
Active(kind) ==
  {d \in DOMAIN decisions : decisions[d].kind = kind /\ decisions[d].state = "active"}

(* The pairs that the decisions of D join, in both directions.             *)
Pairs(D) ==
  {<<decisions[d].left, decisions[d].right>> : d \in D}
    \union {<<decisions[d].right, decisions[d].left>> : d \in D}

(* _identity_members: the global id of s, and everybody who shares it.     *)
Group(s) ==
  IF member[s] = NoGlobal THEN {s} ELSE {t \in Speakers : member[t] = member[s]}

MembersOf(g) == {s \in Speakers : member[s] = g}

(* The smallest part of S around s that no pair of E leaves: what the      *)
(* union-find of _rebuild_identity_group computes.                         *)
Component(s, S, E) ==
  {t \in S : \A C \in SUBSET S :
     (s \in C /\ \A p \in E : p[1] \in C /\ p[2] \in S => p[2] \in C) => t \in C}

(* Mutant: the id of a superseded global speaker is given out again.       *)
NotActive == {g \in Globals : global[g] # "active"}

Unused == {g \in Globals : global[g] = "unused"}

-----------------------------------------------------------------------------
(*                            Registration                                 *)

(* register_episode_speaker, which runs for every voice record each time   *)
(* the web application starts.                                             *)
Register(s) ==
  /\ mapping' = [t \in Speakers |->
       IF t = s /\ mapping[s] = "unregistered" THEN "current"
       ELSE IF /\ mapping[t] # "unregistered"
               /\ EpisodeOf[t] = EpisodeOf[s]
               /\ DiarizationOf[t] # DiarizationOf[s]
            THEN "stale" ELSE mapping[t]]
  /\ UNCHANGED <<revision, decisions, audit, member, global, page>>

-----------------------------------------------------------------------------
(*                          The speakers page                              *)

LoadRows(v) ==
  /\ page[v].pc = "closed"
  /\ page' = [page EXCEPT ![v] = [pc |-> "loading", rows |-> revision, revision |-> 0]]
  /\ UNCHANGED <<mapping, revision, decisions, audit, member, global>>

LoadRevision(v) ==
  /\ page[v].pc = "loading"
  /\ page' = [page EXCEPT ![v].pc = "open", ![v].revision = revision]
  /\ UNCHANGED <<mapping, revision, decisions, audit, member, global>>

(* An edit that is refused changes nothing; the reviewer reloads.          *)
Reload(v) ==
  /\ page[v].pc = "open"
  /\ page' = [page EXCEPT ![v] = NoPage]
  /\ UNCHANGED <<mapping, revision, decisions, audit, member, global>>

(* _claim_identity_revision for an edit sent from the page of v.           *)
ClaimRevision(v) ==
  /\ page[v].pc = "open"
  /\ page[v].revision = revision
  /\ revision < MaxEdits
  /\ revision' = revision + 1
  /\ page' = [page EXCEPT ![v] = NoPage]
  /\ UNCHANGED mapping

-----------------------------------------------------------------------------
(*                              The edits                                  *)

Record(l, r, kind) ==
  /\ Len(decisions) < MaxDecisions
  /\ decisions' = Append(decisions, [left |-> l, right |-> r, kind |-> kind,
                                     state |-> "active", revision |-> 1])
  /\ audit' = audit \union {<<Len(decisions) + 1, 1>>}

Recordable(l, r) == l # r /\ mapping[l] = "current" /\ mapping[r] = "current"

(* Mutant: a different-person decision is read in one direction only.      *)
ContradictedOneWay(l, r) ==
  \E d \in Active("different_person") :
    decisions[d].left \in Group(l) /\ decisions[d].right \in Group(r)

Contradicted(l, r) ==
  \E p \in Pairs(Active("different_person")) : p[1] \in Group(l) /\ p[2] \in Group(r)

(* Mutant: the global id that does not survive stays active.               *)
MergeKeepingBoth(v, l, r, keep) ==
  LET old == {member[l], member[r]} \ {NoGlobal}
      both == Group(l) \union Group(r)
  IN  /\ ClaimRevision(v)
      /\ Recordable(l, r)
      /\ ~Contradicted(l, r)
      /\ Group(l) # Group(r)
      /\ keep \in (IF old = {} THEN Unused ELSE old)
      /\ member' = [s \in Speakers |-> IF s \in both THEN keep ELSE member[s]]
      /\ global' = [global EXCEPT ![keep] = "active"]
      /\ Record(l, r, "same_person")

(* append_identity_decision of a same-person decision between two groups:  *)
(* `keep' is the global id that survives, one of theirs if they have any.  *)
Merge(v, l, r, keep) ==
  LET old == {member[l], member[r]} \ {NoGlobal}
      both == Group(l) \union Group(r)
  IN  /\ ClaimRevision(v)
      /\ Recordable(l, r)
      /\ ~Contradicted(l, r)
      /\ Group(l) # Group(r)
      /\ keep \in (IF old = {} THEN Unused ELSE old)
      /\ member' = [s \in Speakers |-> IF s \in both THEN keep ELSE member[s]]
      /\ global' = [g \in Globals |->
           IF g = keep THEN "active"
           ELSE IF g \in old THEN "superseded" ELSE global[g]]
      /\ Record(l, r, "same_person")

(* The same between two speakers of one group: one more piece of evidence. *)
Confirm(v, l, r) ==
  /\ ClaimRevision(v)
  /\ Recordable(l, r)
  /\ ~Contradicted(l, r)
  /\ Group(l) = Group(r)
  /\ Record(l, r, "same_person")
  /\ UNCHANGED <<member, global>>

Separate(v, l, r) ==
  /\ ClaimRevision(v)
  /\ Recordable(l, r)
  /\ Group(l) \intersect Group(r) = {}
  /\ Record(l, r, "different_person")
  /\ UNCHANGED <<member, global>>

Doubt(v, l, r) ==
  /\ ClaimRevision(v)
  /\ Recordable(l, r)
  /\ Record(l, r, "uncertain")
  /\ UNCHANGED <<member, global>>

(* _rebuild_identity_group: the groups that the remaining same-person      *)
(* pairs E make of the members of g.  The group of the retained speaker    *)
(* keeps g, every other one gets a fresh id, a group of one gets none.     *)
Rebuild(g, retained, E) ==
  LET members == MembersOf(g)
      groups  == {C \in {Component(s, members, E) : s \in members} : Cardinality(C) > 1}
      others  == {C \in groups : retained \notin C}
  IN  /\ retained \in members
      /\ \E id \in [others -> Unused] :
           /\ \A C, D \in others : id[C] = id[D] => C = D
           /\ member' = [s \in Speakers |->
                IF s \notin members THEN member[s]
                ELSE IF \E C \in groups : s \in C /\ retained \in C THEN g
                ELSE IF \E C \in others : s \in C
                THEN id[CHOOSE C \in others : s \in C] ELSE NoGlobal]
           /\ global' = [h \in Globals |->
                IF h = g
                THEN IF \E C \in groups : retained \in C THEN "active" ELSE "superseded"
                ELSE IF \E C \in others : id[C] = h THEN "active" ELSE global[h]]

(* Mutant: a state of its own for what was undone.                         *)
SupersedeAsUndone(D) ==
  /\ decisions' = [d \in DOMAIN decisions |->
       IF d \in D THEN [decisions[d] EXCEPT !.state = "undone", !.revision = @ + 1]
       ELSE decisions[d]]
  /\ audit' = audit \union {<<d, decisions[d].revision + 1>> : d \in D}

(* Mutant: no audit row for the new revision.                              *)
SupersedeSilently(D) ==
  /\ decisions' = [d \in DOMAIN decisions |->
       IF d \in D THEN [decisions[d] EXCEPT !.state = "superseded", !.revision = @ + 1]
       ELSE decisions[d]]
  /\ UNCHANGED audit

(* Supersede the decisions D: a new revision and an audit row for each.    *)
Supersede(D) ==
  /\ decisions' = [d \in DOMAIN decisions |->
       IF d \in D THEN [decisions[d] EXCEPT !.state = "superseded", !.revision = @ + 1]
       ELSE decisions[d]]
  /\ audit' = audit \union {<<d, decisions[d].revision + 1>> : d \in D}

(* Mutant: the group is rebuilt before the decision is superseded.         *)
UndoAfterRebuild(v, d, retained) ==
  LET g == member[decisions[d].left]
  IN  /\ ClaimRevision(v)
      /\ decisions[d].state = "active"
      /\ IF decisions[d].kind = "same_person" /\ g # NoGlobal
         THEN Rebuild(g, retained, Pairs(Active("same_person")))
         ELSE UNCHANGED <<member, global>>
      /\ Supersede({d})

(* undo_identity_decision.  The decision's own revision is part of the     *)
(* request; an active decision still has the revision the page showed.     *)
Undo(v, d, retained) ==
  LET g == member[decisions[d].left]
  IN  /\ ClaimRevision(v)
      /\ decisions[d].state = "active"
      /\ IF decisions[d].kind = "same_person" /\ g # NoGlobal
         THEN Rebuild(g, retained, Pairs(Active("same_person") \ {d}))
         ELSE UNCHANGED <<member, global>>
      /\ Supersede({d})

(* split_global_speaker: supersede every same-person decision between the  *)
(* separated speakers and the rest.                                        *)
Split(v, g, separated, retained) ==
  LET members == MembersOf(g)
      crossing == {d \in Active("same_person") :
                     /\ {decisions[d].left, decisions[d].right} \subseteq members
                     /\ (decisions[d].left \in separated) # (decisions[d].right \in separated)}
  IN  /\ ClaimRevision(v)
      /\ separated # {}
      /\ separated \subseteq members
      /\ separated # members
      /\ retained \in members \ separated
      /\ crossing # {}
      /\ Rebuild(g, retained, Pairs(Active("same_person") \ crossing))
      /\ Supersede(crossing)

(* name_global_speaker: the name itself is not modelled.                   *)
Name(v, g) ==
  /\ ClaimRevision(v)
  /\ global[g] = "active"
  /\ UNCHANGED <<decisions, audit, member, global>>

-----------------------------------------------------------------------------
Edit(v) ==
  \/ \E l, r \in Speakers :
       \/ \E keep \in Globals : Merge(v, l, r, keep)
       \/ Confirm(v, l, r)
       \/ Separate(v, l, r)
       \/ Doubt(v, l, r)
  \/ \E d \in DOMAIN decisions :
       \E retained \in Speakers : Undo(v, d, retained)
  \/ \E g \in Globals :
       \/ \E separated \in SUBSET Speakers, retained \in Speakers :
            Split(v, g, separated, retained)
       \/ Name(v, g)

Next ==
  \/ \E s \in Speakers : Register(s)
  \/ \E v \in Reviewers : LoadRows(v) \/ LoadRevision(v) \/ Reload(v) \/ Edit(v)

Spec == Init /\ [][Next]_vars

-----------------------------------------------------------------------------
(* Nobody is in one group with a speaker a human has told apart, not even  *)
(* through a chain of merges, undos and splits by several reviewers        *)
(* (append_identity_decision: "without contradictions").                   *)
NoContradiction ==
  \A p \in Pairs(Active("different_person")) :
    member[p[1]] = NoGlobal \/ member[p[1]] # member[p[2]]

(* The memberships, kept by merging and rebuilding single groups, are at   *)
(* every moment the connected components of the active same-person         *)
(* decisions: no speaker stays in a group that no decision puts it in, and *)
(* none is forgotten (append_identity_decision, _rebuild_identity_group).  *)
MembershipIsProjection ==
  \A s, t \in Speakers : s # t =>
    ((t \in Component(s, Speakers, Pairs(Active("same_person"))))
       <=> (member[s] # NoGlobal /\ member[s] = member[t]))

(* A global speaker is active exactly as long as two speakers or more      *)
(* share it, so names attach to and searches show only real groups.        *)
ActiveGlobalsAreGroups ==
  \A g \in Globals : global[g] = "active" <=> Cardinality(MembersOf(g)) >= 2

(* The audit holds every revision of every decision, and nothing else:     *)
(* undo and split lose no history (identity_audit).                        *)
AuditIsComplete ==
  audit = {a \in (DOMAIN decisions) \X (1 .. 2) : a[2] <= decisions[a[1]].revision}

(* Neither a superseded decision nor a superseded global speaker is ever   *)
(* in force again, so a link to either cannot change its meaning.          *)
SupersededIsFinal ==
  [][/\ \A d \in DOMAIN decisions :
          decisions[d].state = "superseded" => decisions'[d] = decisions[d]
     /\ \A g \in Globals : global[g] = "superseded" => global'[g] = "superseded"]_vars

(* An edit that is accepted was made on a page that showed the current     *)
(* rows (SYSTEM-DESIGN D7: "A stale revision returns conflict, never       *)
(* overwrites human work").  The code breaks it.                           *)
EditsSeeCurrentRows ==
  [][\A v \in Reviewers : page[v].pc = "open" /\ review' # review /\ page'[v] # page[v]
       => page[v].rows = revision]_vars
=============================================================================
