--------------------------- MODULE ServicesProofs ---------------------------
(***************************************************************************)
(* What the services of the web application and of `process' promise, for  *)
(* any number of reviewers, indexers, builders and searchers.              *)
(***************************************************************************)
EXTENDS Reviews, Assistance, VoiceIndex, SearchIndex, FiniteSetTheorems, SequenceTheorems,
        WellFoundedInduction, TLAPS

-----------------------------------------------------------------------------
(*                               Reviews                                   *)
(*                                                                         *)
(* NoReviewIsLost is not inductive: a save checks a revision and writes    *)
(* later, from what its page shows.  ReviewsInv adds that a page shows a   *)
(* stored revision and what it was made from, and that a save whose page   *)
(* has not been answered has not been stored yet, because the saves of a   *)
(* reviewer are numbered.                                                  *)

PageSteps == {"closed", "editing", "sent", "checked", "publishing", "stored", "saved",
              "hidden", "conflict", "error", "lost"}

Saves == (Reviewers \union {"nobody"}) \X Nat

Page == [log : Logs \union {"none"}, revision : Nat, basis : Saves, step : PageSteps,
         saves : Nat]

ReviewRow == [revision : Nat, save : Reviewers \X Nat, basis : Saves,
              reference : {"none", "review", "imported"}]

ReviewsTypeOK ==
  /\ rows \in [Logs -> SUBSET ReviewRow]
  /\ references \in [Logs -> Seq({"review", "imported"})]
  /\ pages \in [Reviewers -> Page]

IsStored(save) == \E l \in Logs : \E r \in rows[l] : r.save = save

(* R has the revision n, saved as s; there is no revision 0.               *)
Has(R, n, s) == IF n = 0 THEN s = NoSave ELSE \E p \in R : p.revision = n /\ p.save = s

IsChain(R) ==
  /\ IsFiniteSet(R)
  /\ \A r \in R : r.revision \in 1 .. Cardinality(R) /\ Has(R, r.revision - 1, r.basis)
  /\ \A n \in 1 .. Cardinality(R) : \E r \in R : r.revision = n

PageFits(v, q) ==
  /\ q.step # "closed" => q.log \in Logs /\ Has(rows[q.log], q.revision, q.basis)
  /\ q.step = "checked" => KindOf[q.log] # "chunk"
  /\ q.step \in {"sent", "checked", "conflict", "error"} => ~IsStored(<<v, q.saves>>)
  /\ q.step \in {"publishing", "stored", "hidden"} =>
       \E r \in rows[q.log] : r.save = <<v, q.saves>> /\ r.revision = q.revision + 1
  /\ q.step = "saved" => IsStored(<<v, q.saves>>)
  /\ q.step \in {"stored", "saved"} /\ KindOf[q.log] = "annotation" => <<v, q.saves>> \in exports

OneReference(l) == KindOf[l] = "chunk" => \A r, s \in rows[l] : r.reference = s.reference

ReviewsInv ==
  /\ ReviewsTypeOK
  /\ \A l \in Logs : IsChain(rows[l]) /\ OneReference(l)
  /\ \A v \in Reviewers : PageFits(v, pages[v])
  /\ \A l \in Logs : \A r \in rows[l] : r.save[2] <= pages[r.save[1]].saves
  /\ \A save \in exports : IsStored(save)

LEMMA StoredSavesAre ==
  ASSUME NEW save
  PROVE  save \in StoredSaves <=> IsStored(save)
<1> DEFINE saved(l) == {r.save : r \in rows[l]}
<1>1. \A l \in Logs : save \in saved(l) <=> \E r \in rows[l] : r.save = save
  BY Zenon
<1>2. save \in UNION {saved(l) : l \in Logs} <=> \E l \in Logs : save \in saved(l)
  BY Zenon
<1> QED  BY <1>1, <1>2, Zenon DEF StoredSaves, IsStored

(* The invariant is what the reviews promise.                              *)
LEMMA ReviewsSuffice == ReviewsInv => NoReviewIsLost
<1> SUFFICES ASSUME ReviewsInv PROVE NoReviewIsLost
  OBVIOUS
<1>1. ASSUME NEW l \in Logs
      PROVE  /\ {r.revision : r \in rows[l]} = 1 .. Cardinality(rows[l])
             /\ \A r \in rows[l] :
                  IF r.revision = 1 THEN r.basis = NoSave
                  ELSE \E p \in rows[l] : p.revision = r.revision - 1 /\ p.save = r.basis
             /\ KindOf[l] = "chunk" => \A r, s \in rows[l] : r.reference = s.reference
  <2>1. IsChain(rows[l]) /\ OneReference(l)
    BY DEF ReviewsInv
  <2>2. {r.revision : r \in rows[l]} = 1 .. Cardinality(rows[l])
    <3>1. \A n : n \in {r.revision : r \in rows[l]} <=> \E r \in rows[l] : r.revision = n
      BY Zenon
    <3> QED  BY <2>1, <3>1, Zenon DEF IsChain
  <2>3. \A r \in rows[l] :
          IF r.revision = 1 THEN r.basis = NoSave
          ELSE \E p \in rows[l] : p.revision = r.revision - 1 /\ p.save = r.basis
    <3>1. Cardinality(rows[l]) \in Nat
      BY <2>1, FS_CardinalityType DEF IsChain
    <3> QED  BY <2>1, <3>1 DEF IsChain, Has
  <2> QED  BY <2>1, <2>2, <2>3 DEF OneReference
<1>2. ASSUME NEW v \in Reviewers
      PROVE  /\ pages[v].step \in {"conflict", "error"} => SaveOf(v) \notin StoredSaves
             /\ pages[v].step \in {"stored", "saved", "hidden"} => SaveOf(v) \in StoredSaves
             /\ pages[v].step = "saved" /\ KindOf[pages[v].log] = "annotation"
                  => SaveOf(v) \in exports
  <2>1. SaveOf(v) \in StoredSaves <=> IsStored(SaveOf(v))
    BY StoredSavesAre
  <2>2. PageFits(v, pages[v])
    BY DEF ReviewsInv
  <2>3. pages[v].step \in {"stored", "hidden"} => IsStored(SaveOf(v))
    BY <2>2 DEF PageFits, IsStored, SaveOf
  <2> QED  BY <2>1, <2>2, <2>3 DEF PageFits, SaveOf
<1>3. exports \subseteq StoredSaves
  BY StoredSavesAre DEF ReviewsInv
<1> QED  BY <1>1, <1>2, <1>3 DEF NoReviewIsLost

(* A chain is lengthened by a row made from its last one.                  *)
LEMMA ChainGrows ==
  ASSUME NEW R \in SUBSET ReviewRow, IsChain(R), NEW x \in ReviewRow,
         x.revision = Cardinality(R) + 1, Has(R, Cardinality(R), x.basis)
  PROVE  IsChain(R \union {x})
<1>1. Cardinality(R) \in Nat
  BY FS_CardinalityType DEF IsChain
<1>2. x \notin R
  BY <1>1 DEF IsChain
<1>3. IsFiniteSet(R \union {x}) /\ Cardinality(R \union {x}) = Cardinality(R) + 1
  BY <1>2, FS_AddElement DEF IsChain
<1>4. \A n, s : Has(R, n, s) => Has(R \union {x}, n, s)
  BY DEF Has
<1>5. \A r \in R \union {x} :
        /\ r.revision \in 1 .. (Cardinality(R) + 1)
        /\ Has(R \union {x}, r.revision - 1, r.basis)
  <2>1. \A r \in R : r.revision \in 1 .. Cardinality(R) /\ Has(R, r.revision - 1, r.basis)
    BY DEF IsChain
  <2>2. x.revision \in 1 .. (Cardinality(R) + 1) /\ x.revision - 1 = Cardinality(R)
    BY <1>1
  <2>3. Has(R \union {x}, x.revision - 1, x.basis)
    BY <1>4, <2>2
  <2> QED  BY <1>1, <1>4, <2>1, <2>2, <2>3
<1>6. \A n \in 1 .. (Cardinality(R) + 1) : \E r \in R \union {x} : r.revision = n
  BY <1>1 DEF IsChain
<1> QED  BY <1>3, <1>5, <1>6 DEF IsChain

(* The last revision of a chain, and its save.                             *)
LEMMA LastOfChain ==
  ASSUME ReviewsInv, NEW l \in Logs
  PROVE  /\ LastRevision(l) = Cardinality(rows[l])
         /\ LastRevision(l) \in Nat
         /\ Has(rows[l], LastRevision(l), LastSave(l))
         /\ LastSave(l) \in Saves
<1> DEFINE n == Cardinality(rows[l])
           upTo == {0} \union {r.revision : r \in rows[l]}
<1>1. IsChain(rows[l]) /\ n \in Nat
  BY FS_CardinalityType DEF ReviewsInv, IsChain
<1>2. \A m : m \in upTo <=> m = 0 \/ \E r \in rows[l] : r.revision = m
  BY Zenon
<1>3. \A m : m \in upTo <=> m \in 0 .. n
  <2> HIDE DEF upTo
  <2> QED  BY <1>1, <1>2 DEF IsChain
<1>4. LastRevision(l) = n
  <2>1. upTo = 0 .. n
    <3> HIDE DEF upTo
    <3> QED  BY <1>3
  <2>2. LastRevision(l) = Max(0 .. n)
    BY <2>1 DEF LastRevision
  <2> QED  BY <1>1, <2>2 DEF Max
<1>5. CASE rows[l] = {}
  <2>1. n = 0 /\ LastSave(l) = NoSave
    BY <1>5, FS_EmptySet DEF LastSave
  <2> QED  BY <1>4, <2>1 DEF Has, NoSave, Saves
<1>6. CASE rows[l] # {}
  <2>1. n # 0
    BY <1>1, <1>6, FS_EmptySet DEF IsChain
  <2>2. \E r \in rows[l] : r.revision = LastRevision(l)
    BY <1>1, <1>4, <2>1 DEF IsChain
  <2>3. PICK r \in rows[l] : r.revision = LastRevision(l) /\ LastSave(l) = r.save
    BY <1>6, <2>2, Zenon DEF LastSave
  <2>4. r \in ReviewRow
    BY DEF ReviewsInv, ReviewsTypeOK
  <2> QED  BY <1>1, <1>4, <2>1, <2>3, <2>4 DEF Has, ReviewRow, Saves
<1> QED  BY <1>5, <1>6

-----------------------------------------------------------------------------
(* A save of another reviewer and a longer log take nothing from a page.   *)
LEMMA PageKept ==
  ASSUME NEW v \in Reviewers, NEW q, PageFits(v, q),
         \A l \in Logs : rows[l] \subseteq rows'[l],
         exports \subseteq exports',
         q.step \in {"sent", "checked", "conflict", "error"} =>
           (IsStored(<<v, q.saves>>)' => IsStored(<<v, q.saves>>))
  PROVE  PageFits(v, q)'
<1>1. ASSUME NEW l \in Logs, NEW n, NEW s, Has(rows[l], n, s)
      PROVE  Has(rows'[l], n, s)
  BY <1>1 DEF Has
<1>2. ASSUME IsStored(<<v, q.saves>>) PROVE IsStored(<<v, q.saves>>)'
  BY <1>2 DEF IsStored
<1>3. q.step # "closed" => q.log \in Logs /\ Has(rows'[q.log], q.revision, q.basis)
  BY <1>1 DEF PageFits
<1>4. q.step \in {"publishing", "stored", "hidden"} =>
        \E r \in rows'[q.log] : r.save = <<v, q.saves>> /\ r.revision = q.revision + 1
  BY DEF PageFits
<1> QED  BY <1>2, <1>3, <1>4 DEF PageFits

(* A step of one page that stores no row.                                  *)
LEMMA PageStep ==
  ASSUME ReviewsInv, NEW v \in Reviewers, NEW q \in Page,
         pages' = [pages EXCEPT ![v] = q], PageFits(v, q)', q.saves >= pages[v].saves,
         rows' = rows, references' = references,
         exports \subseteq exports', \A save \in exports' : IsStored(save)
  PROVE  ReviewsInv'
<1>1. ReviewsTypeOK'
  BY DEF ReviewsInv, ReviewsTypeOK
<1>2. \A l \in Logs : (IsChain(rows[l]) /\ OneReference(l))'
  BY DEF ReviewsInv, OneReference
<1>3. ASSUME NEW w \in Reviewers PROVE PageFits(w, pages[w])'
  <2>1. CASE w = v
    <3>1. pages'[w] = q
      BY <2>1 DEF ReviewsInv, ReviewsTypeOK
    <3> QED  BY <2>1, <3>1 DEF PageFits
  <2>2. CASE w # v
    <3>1. PICK p : p = pages[w]
      OBVIOUS
    <3>2. p = pages'[w]
      BY <2>2, <3>1 DEF ReviewsInv, ReviewsTypeOK
    <3>3. PageFits(w, p)
      BY <3>1 DEF ReviewsInv
    <3>4. PageFits(w, p)'
      BY <3>3, PageKept DEF IsStored
    <3> QED  BY <3>2, <3>4 DEF PageFits
  <2> QED  BY <2>1, <2>2
<1>4. ASSUME NEW l \in Logs, NEW r \in rows'[l]
      PROVE  r.save[2] <= pages'[r.save[1]].saves
  <2>1. r \in ReviewRow /\ r.save[2] <= pages[r.save[1]].saves /\ r.save[1] \in Reviewers
        /\ r.save[2] \in Nat
    BY DEF ReviewsInv, ReviewsTypeOK, ReviewRow
  <2>2. pages[r.save[1]].saves \in Nat /\ q.saves \in Nat
    BY <2>1 DEF ReviewsInv, ReviewsTypeOK, Page
  <2>3. pages'[r.save[1]] = IF r.save[1] = v THEN q ELSE pages[r.save[1]]
    BY <2>1 DEF ReviewsInv, ReviewsTypeOK
  <2> QED  BY <2>1, <2>2, <2>3
<1>5. \A save \in exports' : IsStored(save)'
  BY DEF IsStored
<1> QED  BY <1>1, <1>2, <1>3, <1>4, <1>5 DEF ReviewsInv

(* The same for a page that only takes another step.                       *)
LEMMA OnlyStep ==
  ASSUME ReviewsInv, NEW v \in Reviewers, NEW step \in PageSteps, Step(v, step),
         PageFits(v, [pages[v] EXCEPT !.step = step]),
         UNCHANGED <<rows, references, exports>>
  PROVE  ReviewsInv'
<1>1. PICK q : q = [pages[v] EXCEPT !.step = step]
  OBVIOUS
<1>2. q \in Page /\ q.saves = pages[v].saves /\ q.saves \in Nat
  BY <1>1 DEF ReviewsInv, ReviewsTypeOK, Page
<1>3. pages' = [pages EXCEPT ![v] = q]
  BY <1>1 DEF Step
<1>4. PageFits(v, q)'
  BY <1>1 DEF PageFits, IsStored
<1>5. q.saves >= pages[v].saves
  BY <1>2
<1>6. \A save \in exports' : IsStored(save)
  BY DEF ReviewsInv
<1> QED  BY <1>2, <1>3, <1>4, <1>5, <1>6, PageStep

(* What the parts of the invariant say of one page.                        *)
LEMMA PageIs ==
  ASSUME ReviewsInv, NEW v \in Reviewers
  PROVE  pages[v] \in Page /\ PageFits(v, pages[v])
BY DEF ReviewsInv, ReviewsTypeOK

LEMMA OpenPageInv ==
  ASSUME ReviewsInv, NEW v \in Reviewers, NEW log \in Logs, OpenPage(v, log)
  PROVE  ReviewsInv'
<1>1. PICK q : q = [log |-> log, revision |-> LastRevision(log), basis |-> LastSave(log),
                    step |-> "editing", saves |-> pages[v].saves]
  OBVIOUS
<1>2. q \in Page /\ q.saves >= pages[v].saves
  BY <1>1, PageIs, LastOfChain DEF Page, PageSteps
<1>3. PageFits(v, q)
  BY <1>1, LastOfChain DEF PageFits
<1>4. PageFits(v, q)'
  BY <1>3 DEF OpenPage, PageFits, IsStored
<1>5. \A save \in exports' : IsStored(save)
  BY DEF OpenPage, ReviewsInv
<1> QED  BY <1>1, <1>2, <1>4, <1>5, PageStep DEF OpenPage

LEMMA SubmitInv ==
  ASSUME ReviewsInv, NEW v \in Reviewers, Submit(v)
  PROVE  ReviewsInv'
<1>1. PICK n \in Nat : n = pages[v].saves + 1
  BY PageIs DEF Page
<1>2. PICK q : q = [pages[v] EXCEPT !.step = "sent", !.saves = n]
  OBVIOUS
<1>3. q \in Page /\ q.saves >= pages[v].saves
  <2>1. pages[v] \in Page
    BY PageIs
  <2>2. q \in Page /\ q.saves = n
    BY <1>2, <2>1 DEF Page, PageSteps
  <2>3. pages[v].saves \in Nat
    BY <2>1 DEF Page
  <2> QED  BY <1>1, <2>2, <2>3
<1>4. ~IsStored(<<v, n>>)
  <2>1. SUFFICES ASSUME NEW l \in Logs, NEW r \in rows[l], r.save = <<v, n>> PROVE FALSE
    BY DEF IsStored
  <2>2. n <= pages[v].saves
    BY <2>1 DEF ReviewsInv
  <2> QED  BY <1>1, <2>2, PageIs DEF Page
<1>5. PageFits(v, q)
  BY <1>2, <1>4, PageIs DEF PageFits, Page, Submit
<1>6. PageFits(v, q)'
  BY <1>5 DEF Submit, PageFits, IsStored
<1>7. pages' = [pages EXCEPT ![v] = q]
  BY <1>1, <1>2 DEF Submit
<1>8. \A save \in exports' : IsStored(save)
  BY DEF Submit, ReviewsInv
<1> QED  BY <1>3, <1>6, <1>7, <1>8, PageStep DEF Submit

(* The steps that neither store a row nor start a save.                    *)
LEMMA QuietPageInv ==
  ASSUME ReviewsInv, NEW v \in Reviewers,
         \/ RefusePayload(v) \/ CheckRevision(v) \/ LockTimeout(v) \/ FailExport(v)
         \/ EditOn(v) \/ LoseAnswer(v) \/ FailReread(v)
  PROVE  ReviewsInv'
<1>1. pages[v] \in Page /\ PageFits(v, pages[v])
  BY PageIs
<1>2. UNCHANGED <<rows, references, exports>>
  BY DEF RefusePayload, CheckRevision, LockTimeout, FailExport, EditOn, LoseAnswer,
     FailReread
<1>3. ASSUME NEW step \in {"error", "conflict"}, pages[v].step \in {"sent", "checked"},
             Step(v, step)
      PROVE  ReviewsInv'
  <2>1. PageFits(v, [pages[v] EXCEPT !.step = step])
    BY <1>1, <1>3 DEF PageFits, Page
  <2> QED  BY <1>2, <1>3, <2>1, OnlyStep DEF PageSteps
<1>4. ASSUME pages[v].step = "sent", KindOf[pages[v].log] # "chunk", Step(v, "checked")
      PROVE  ReviewsInv'
  <2>1. PageFits(v, [pages[v] EXCEPT !.step = "checked"])
    BY <1>1, <1>4 DEF PageFits, Page
  <2> QED  BY <1>2, <1>4, <2>1, OnlyStep DEF PageSteps
<1>5. ASSUME FailExport(v) \/ FailReread(v) PROVE ReviewsInv'
  <2>1. PageFits(v, [pages[v] EXCEPT !.step = "hidden"])
    BY <1>1, <1>5 DEF PageFits, Page, FailExport, FailReread
  <2> QED  BY <1>2, <1>5, <2>1, OnlyStep DEF PageSteps, FailExport, FailReread
<1>6. ASSUME NEW step \in {"editing", "lost"}, pages[v].step # "closed", Step(v, step)
      PROVE  ReviewsInv'
  <2>1. PageFits(v, [pages[v] EXCEPT !.step = step])
    BY <1>1, <1>6 DEF PageFits, Page
  <2> QED  BY <1>2, <1>6, <2>1, OnlyStep DEF PageSteps
<1> QED
  BY <1>3, <1>4, <1>5, <1>6
     DEF RefusePayload, CheckRevision, LockTimeout, EditOn, LoseAnswer

LEMMA PublishExportInv ==
  ASSUME ReviewsInv, NEW v \in Reviewers, PublishExport(v)
  PROVE  ReviewsInv'
<1>1. PICK q : q = [pages[v] EXCEPT !.step = "stored"]
  OBVIOUS
<1>2. pages[v] \in Page /\ PageFits(v, pages[v])
  BY PageIs
<1>3. q \in Page /\ q.saves >= pages[v].saves
  BY <1>1, <1>2 DEF Page, PageSteps
<1>4. pages' = [pages EXCEPT ![v] = q] /\ exports \subseteq exports'
  BY <1>1 DEF PublishExport, Step
<1>5. IsStored(SaveOf(v)) /\ q.saves = pages[v].saves /\ <<v, q.saves>> \in exports'
  BY <1>1, <1>2 DEF PageFits, PublishExport, IsStored, SaveOf, Page
<1>6. PageFits(v, q)'
  BY <1>1, <1>2, <1>5 DEF PageFits, PublishExport, Page
<1>7. \A save \in exports' : IsStored(save)
  BY <1>5 DEF PublishExport, ReviewsInv
<1> QED  BY <1>3, <1>4, <1>6, <1>7, PageStep DEF PublishExport

LEMMA AnswerInv ==
  ASSUME ReviewsInv, NEW v \in Reviewers, Answer(v)
  PROVE  ReviewsInv'
<1>1. pages[v] \in Page /\ PageFits(v, pages[v]) /\ pages[v].step = "stored"
  BY PageIs DEF Answer
<1>2. PICK n \in Nat : n = pages[v].revision + 1
  BY <1>1 DEF Page
<1>3. PICK q : q = [pages[v] EXCEPT !.step = "saved", !.revision = n, !.basis = SaveOf(v)]
  OBVIOUS
<1>4. /\ q \in Page /\ q.saves = pages[v].saves /\ q.log = pages[v].log /\ q.revision = n
      /\ q.basis = <<v, q.saves>> /\ q.step = "saved" /\ q.saves \in Nat
  BY <1>1, <1>2, <1>3 DEF Page, PageSteps, SaveOf, Saves
<1>5. \E r \in rows[q.log] : r.save = <<v, q.saves>> /\ r.revision = n
  BY <1>1, <1>2, <1>4 DEF PageFits
<1>6. PageFits(v, q)
  <2>1. q.log \in Logs /\ n # 0
    BY <1>1, <1>2, <1>4 DEF PageFits, Page
  <2>2. Has(rows[q.log], n, <<v, q.saves>>)
    BY <1>5, <2>1 DEF Has
  <2>3. IsStored(<<v, q.saves>>)
    BY <1>5, <2>1 DEF IsStored
  <2>4. KindOf[q.log] = "annotation" => <<v, q.saves>> \in exports
    BY <1>1, <1>4 DEF PageFits
  <2> QED  BY <1>4, <2>1, <2>2, <2>3, <2>4 DEF PageFits
<1>7. PageFits(v, q)'
  BY <1>6 DEF PageFits, Answer, IsStored
<1>8. pages' = [pages EXCEPT ![v] = q] /\ q.saves >= pages[v].saves
  <2>1. pages' = [pages EXCEPT ![v] = q]
    BY <1>2, <1>3 DEF Answer
  <2> QED  BY <1>4, <2>1
<1>9. \A save \in exports' : IsStored(save)
  BY DEF Answer, ReviewsInv
<1> QED  BY <1>4, <1>7, <1>8, <1>9, PageStep DEF Answer

LEMMA ImportReferenceInv ==
  ASSUME ReviewsInv, NEW log \in Logs, ImportReference(log)
  PROVE  ReviewsInv'
<1>1. UNCHANGED <<rows, exports, pages>>
  BY DEF ImportReference
<1>2. references' \in [Logs -> Seq({"review", "imported"})]
  <2>1. PICK s : s = Append(references[log], "imported")
    OBVIOUS
  <2>2. s \in Seq({"review", "imported"})
    BY <2>1, AppendProperties DEF ReviewsInv, ReviewsTypeOK
  <2> QED  BY <2>1, <2>2 DEF ImportReference, ReviewsInv, ReviewsTypeOK
<1>3. ReviewsTypeOK'
  BY <1>1, <1>2 DEF ReviewsInv, ReviewsTypeOK
<1>4. \A l \in Logs : (IsChain(rows[l]) /\ OneReference(l))'
  BY <1>1 DEF ReviewsInv, OneReference
<1>5. \A v \in Reviewers : PageFits(v, pages[v])'
  BY <1>1 DEF ReviewsInv, PageFits, IsStored
<1>6. /\ \A l \in Logs : \A r \in rows'[l] : r.save[2] <= pages'[r.save[1]].saves
      /\ \A save \in exports' : IsStored(save)'
  BY <1>1 DEF ReviewsInv, IsStored
<1> QED  BY <1>3, <1>4, <1>5, <1>6 DEF ReviewsInv

(* A save appends the revision that follows the one its page shows.        *)
LEMMA StoreRow ==
  ASSUME ReviewsInv, NEW v \in Reviewers, NEW l \in Logs, l = pages[v].log,
         NEW x \in ReviewRow, x.save = SaveOf(v), x.basis = pages[v].basis,
         x.revision = Cardinality(rows[l]) + 1, pages[v].revision = Cardinality(rows[l]),
         KindOf[l] = "chunk" => \A r \in rows[l] : r.reference = x.reference,
         ~IsStored(SaveOf(v)), pages[v].step # "closed",
         rows' = [rows EXCEPT ![l] = @ \union {x}],
         NEW step \in {"publishing", "stored"}, Step(v, step),
         step = "stored" => KindOf[l] # "annotation",
         references' \in [Logs -> Seq({"review", "imported"})], exports' = exports
  PROVE  ReviewsInv'
<1>1. pages[v] \in Page /\ PageFits(v, pages[v])
  BY PageIs
<1>2. PICK q : q = [pages[v] EXCEPT !.step = step]
  OBVIOUS
<1>3. /\ q \in Page /\ q.saves = pages[v].saves /\ q.log = l /\ q.step = step
      /\ q.revision = Cardinality(rows[l]) /\ q.basis = pages[v].basis
  BY <1>1, <1>2 DEF Page, PageSteps
<1>4. pages' = [pages EXCEPT ![v] = q] /\ SaveOf(v) = <<v, q.saves>>
  BY <1>2, <1>3 DEF Step, SaveOf
<1>5. rows \in [Logs -> SUBSET ReviewRow] /\ rows[l] \in SUBSET ReviewRow
  BY DEF ReviewsInv, ReviewsTypeOK
<1>6. /\ rows'[l] = rows[l] \union {x}
      /\ \A k \in Logs \ {l} : rows'[k] = rows[k]
      /\ rows' \in [Logs -> SUBSET ReviewRow]
  BY <1>5
<1>7. ReviewsTypeOK'
  BY <1>3, <1>4, <1>6 DEF ReviewsInv, ReviewsTypeOK
<1>8. IsChain(rows'[l])
  <2>1. Has(rows[l], Cardinality(rows[l]), x.basis)
    BY <1>1 DEF PageFits
  <2>2. IsChain(rows[l])
    BY DEF ReviewsInv
  <2> QED  BY <1>5, <1>6, <2>1, <2>2, ChainGrows
<1>9. OneReference(l)'
  BY <1>6 DEF ReviewsInv, OneReference
<1>10. \A k \in Logs : (IsChain(rows[k]) /\ OneReference(k))'
  <2>1. SUFFICES ASSUME NEW k \in Logs PROVE (IsChain(rows[k]) /\ OneReference(k))'
    OBVIOUS
  <2>2. CASE k = l
    BY <1>8, <1>9, <2>2
  <2>3. CASE k # l
    <3>1. rows'[k] = rows[k] /\ IsChain(rows[k]) /\ OneReference(k)
      BY <1>6, <2>3 DEF ReviewsInv
    <3> QED  BY <3>1 DEF OneReference
  <2> QED  BY <2>2, <2>3
<1>11. \A s : IsStored(s)' <=> IsStored(s) \/ s = SaveOf(v)
  BY <1>6 DEF IsStored
<1>12. ASSUME NEW w \in Reviewers PROVE PageFits(w, pages[w])'
  <2>1. CASE w = v
    <3>1. pages'[v] = q
      BY <1>4 DEF ReviewsInv, ReviewsTypeOK
    <3>2. Has(rows'[l], q.revision, q.basis)
      BY <1>1, <1>3, <1>6 DEF PageFits, Has
    <3>3. \E r \in rows'[l] : r.save = <<v, q.saves>> /\ r.revision = q.revision + 1
      BY <1>3, <1>4, <1>6
    <3> QED  BY <1>3, <2>1, <3>1, <3>2, <3>3 DEF PageFits
  <2>2. CASE w # v
    <3>1. PICK p : p = pages[w]
      OBVIOUS
    <3>2. p = pages'[w] /\ PageFits(w, p)
      BY <1>4, <2>2, <3>1 DEF ReviewsInv, ReviewsTypeOK
    <3>3. IsStored(<<w, p.saves>>)' => IsStored(<<w, p.saves>>)
      BY <1>11, <2>2 DEF SaveOf
    <3>4. \A k \in Logs : rows[k] \subseteq rows'[k]
      BY <1>6
    <3>5. PageFits(w, p)'
      BY <3>2, <3>3, <3>4, PageKept
    <3> QED  BY <3>2, <3>5 DEF PageFits
  <2> QED  BY <2>1, <2>2
<1>13. ASSUME NEW k \in Logs, NEW r \in rows'[k]
       PROVE  r.save[2] <= pages'[r.save[1]].saves
  <2>1. \A w \in Reviewers : pages'[w].saves = pages[w].saves
    BY <1>3, <1>4 DEF ReviewsInv, ReviewsTypeOK
  <2>2. CASE r \in rows[k]
    <3>1. r.save[2] <= pages[r.save[1]].saves /\ r.save[1] \in Reviewers
      BY <2>2 DEF ReviewsInv, ReviewsTypeOK, ReviewRow
    <3> QED  BY <2>1, <3>1
  <2>3. CASE r \notin rows[k]
    <3>1. r = x
      BY <1>6, <2>3
    <3>2. r.save = <<v, pages[v].saves>> /\ pages[v].saves \in Nat
      BY <1>1, <3>1 DEF SaveOf, Page
    <3> QED  BY <2>1, <3>2
  <2> QED  BY <2>2, <2>3
<1>14. \A save \in exports' : IsStored(save)'
  BY <1>11 DEF ReviewsInv
<1> QED  BY <1>7, <1>10, <1>12, <1>13, <1>14 DEF ReviewsInv

LEMMA InsertRowInv ==
  ASSUME ReviewsInv, NEW v \in Reviewers, InsertRow(v)
  PROVE  ReviewsInv'
<1>1. /\ pages[v] \in Page /\ PageFits(v, pages[v]) /\ pages[v].step = "checked"
      /\ UNCHANGED <<references, exports>>
  BY PageIs DEF InsertRow
<1>2. PICK l \in Logs : l = pages[v].log
  BY <1>1 DEF PageFits
<1>3. CASE IsUnique(l, pages[v].revision + 1)
  <2>1. PICK x : x = Row(v, "none")
    OBVIOUS
  <2>2. /\ x \in ReviewRow /\ x.save = SaveOf(v) /\ x.basis = pages[v].basis
        /\ x.revision = pages[v].revision + 1
    <3>1. PICK n \in Nat : n = pages[v].revision + 1
      BY <1>1 DEF Page
    <3>2. SaveOf(v) \in Reviewers \X Nat /\ pages[v].basis \in Saves
      BY <1>1 DEF Page, SaveOf
    <3>3. x = [revision |-> n, save |-> SaveOf(v), basis |-> pages[v].basis, reference |-> "none"]
      BY <2>1, <3>1 DEF Row
    <3> QED  BY <3>1, <3>2, <3>3 DEF ReviewRow
  <2>3. pages[v].revision = Cardinality(rows[l])
    <3>1. IsChain(rows[l]) /\ Cardinality(rows[l]) \in Nat /\ pages[v].revision \in Nat
      BY <1>1, FS_CardinalityType DEF ReviewsInv, IsChain, Page
    <3>2. pages[v].revision <= Cardinality(rows[l])
      BY <1>1, <1>2, <3>1 DEF PageFits, Has, IsChain
    <3>3. pages[v].revision + 1 \notin 1 .. Cardinality(rows[l])
      BY <1>3, <3>1 DEF IsUnique, IsChain
    <3> QED  BY <3>1, <3>2, <3>3
  <2>4. rows' = [rows EXCEPT ![l] = @ \union {x}]
    BY <1>2, <1>3, <2>1 DEF InsertRow
  <2>5. Step(v, IF KindOf[l] = "annotation" THEN "publishing" ELSE "stored")
    BY <1>2, <1>3 DEF InsertRow
  <2>6. PICK step \in {"publishing", "stored"} :
          Step(v, step) /\ (step = "stored" => KindOf[l] # "annotation")
    BY <2>5
  <2>7. KindOf[l] # "chunk" /\ ~IsStored(SaveOf(v))
    BY <1>1, <1>2 DEF PageFits, SaveOf
  <2>8. references' \in [Logs -> Seq({"review", "imported"})]
    BY <1>1 DEF ReviewsInv, ReviewsTypeOK
  <2> QED  BY <1>1, <1>2, <2>2, <2>3, <2>4, <2>6, <2>7, <2>8, StoreRow
<1>4. CASE ~IsUnique(l, pages[v].revision + 1)
  <2>1. Step(v, "conflict") /\ UNCHANGED <<rows, references, exports>>
    BY <1>2, <1>4 DEF InsertRow
  <2>2. PageFits(v, [pages[v] EXCEPT !.step = "conflict"])
    BY <1>1 DEF PageFits, Page
  <2> QED  BY <2>1, <2>2, OnlyStep DEF PageSteps
<1> QED  BY <1>3, <1>4

LEMMA SaveChunkReviewInv ==
  ASSUME ReviewsInv, NEW v \in Reviewers, SaveChunkReview(v)
  PROVE  ReviewsInv'
<1>1. /\ pages[v] \in Page /\ PageFits(v, pages[v]) /\ pages[v].step = "sent"
      /\ exports' = exports
  BY PageIs DEF SaveChunkReview
<1>2. PICK l \in Logs : l = pages[v].log
  BY <1>1 DEF PageFits
<1>3. KindOf[l] = "chunk"
  BY <1>2 DEF SaveChunkReview
<1>4. CASE pages[v].revision = Cardinality(rows[l])
  <2> DEFINE reference == CurrentReference(l)
             earlier == {r \in rows[l] : r.reference = reference}
             n == Cardinality(earlier) + 1
  <2>1. IsChain(rows[l]) /\ Cardinality(rows[l]) \in Nat /\ rows[l] \in SUBSET ReviewRow
    BY FS_CardinalityType DEF ReviewsInv, ReviewsTypeOK, IsChain
  <2>2. references[l] \in Seq({"review", "imported"})
    BY DEF ReviewsInv, ReviewsTypeOK
  <2>3. /\ reference \in {"none", "review", "imported"}
        /\ rows[l] = {} /\ references[l] = <<>> => reference = "review"
        /\ \A r \in rows[l] : r.reference = reference
    <3>1. CASE rows[l] # {}
      <4>1. Cardinality(rows[l]) # 0
        BY <2>1, <3>1, FS_EmptySet DEF IsChain
      <4>2. \E r \in rows[l] : r.revision = Cardinality(rows[l])
        BY <2>1, <4>1 DEF IsChain
      <4>3. PICK r \in rows[l] : reference = r.reference
        BY <3>1, <4>2, Zenon DEF CurrentReference
      <4>4. r \in ReviewRow
        BY <2>1
      <4>5. \A s \in rows[l] : s.reference = r.reference
        BY <1>3 DEF ReviewsInv, OneReference
      <4> HIDE DEF reference
      <4> QED  BY <3>1, <4>3, <4>4, <4>5 DEF ReviewRow
    <3>2. CASE rows[l] = {}
      BY <2>2, <3>2 DEF CurrentReference
    <3> QED  BY <3>1, <3>2
  <2> HIDE DEF reference
  <2>4. earlier = rows[l] /\ n = Cardinality(rows[l]) + 1
    BY <2>3
  <2>5. PICK m \in Nat : m = Cardinality(rows[l]) + 1
    BY <2>1
  <2>6. PICK x : x = [revision |-> m, save |-> SaveOf(v), basis |-> pages[v].basis,
                      reference |-> reference]
    OBVIOUS
  <2>7. /\ x \in ReviewRow /\ x.save = SaveOf(v) /\ x.basis = pages[v].basis
        /\ x.revision = m /\ x.reference = reference
    <3>1. SaveOf(v) \in Reviewers \X Nat /\ pages[v].basis \in Saves
      BY <1>1 DEF Page, SaveOf
    <3> QED  BY <2>3, <2>6, <3>1 DEF ReviewRow
  <2>8. [Row(v, reference) EXCEPT !.revision = n] = x
    BY <2>4, <2>5, <2>6 DEF Row
  <2>9. /\ references' = IF rows[l] = {} /\ references[l] = <<>>
                         THEN [references EXCEPT ![l] = <<reference>>] ELSE references
        /\ rows' = [rows EXCEPT ![l] = @ \union {[Row(v, reference) EXCEPT !.revision = n]}]
        /\ Step(v, "stored")
    BY <1>2, <1>4, Zenon DEF SaveChunkReview, reference
  <2> HIDE DEF earlier, n
  <2>10. references' \in [Logs -> Seq({"review", "imported"})]
    <3>1. CASE rows[l] = {} /\ references[l] = <<>>
      <4>1. reference = "review"
        BY <2>3, <3>1
      <4>2. <<reference>> \in Seq({"review", "imported"})
        BY <4>1
      <4> QED  BY <2>9, <3>1, <4>2 DEF ReviewsInv, ReviewsTypeOK
    <3>2. CASE ~(rows[l] = {} /\ references[l] = <<>>)
      BY <2>9, <3>2 DEF ReviewsInv, ReviewsTypeOK
    <3> QED  BY <3>1, <3>2
  <2>11. ~IsStored(SaveOf(v))
    BY <1>1 DEF PageFits, SaveOf
  <2>12. rows' = [rows EXCEPT ![l] = @ \union {x}]
    BY <2>8, <2>9
  <2> QED
    BY <1>1, <1>2, <1>3, <1>4, <2>3, <2>5, <2>7, <2>9, <2>10, <2>11, <2>12, StoreRow
<1>5. CASE pages[v].revision # Cardinality(rows[l])
  <2>1. Step(v, "conflict") /\ UNCHANGED <<rows, references, exports>>
    BY <1>2, <1>5 DEF SaveChunkReview
  <2>2. PageFits(v, [pages[v] EXCEPT !.step = "conflict"])
    BY <1>1 DEF PageFits, Page
  <2> QED  BY <2>1, <2>2, OnlyStep DEF PageSteps
<1> QED  BY <1>4, <1>5

LEMMA ReviewsBegin == ReviewsInit => ReviewsInv
<1> SUFFICES ASSUME ReviewsInit PROVE ReviewsInv
  OBVIOUS
<1>1. \A l \in Logs : rows[l] = {} /\ references[l] = <<>>
  BY DEF ReviewsInit
<1>2. ReviewsTypeOK
  BY DEF ReviewsInit, ReviewsTypeOK, Closed, Page, PageSteps, Saves, NoSave
<1>3. \A l \in Logs : IsChain(rows[l]) /\ OneReference(l)
  BY <1>1, FS_EmptySet DEF IsChain, OneReference
<1>4. \A v \in Reviewers : PageFits(v, pages[v])
  BY DEF ReviewsInit, Closed, PageFits
<1>5. exports = {}
  BY DEF ReviewsInit
<1> QED  BY <1>1, <1>2, <1>3, <1>4, <1>5 DEF ReviewsInv

LEMMA ReviewsStep == ReviewsInv /\ [ReviewsNext]_reviews => ReviewsInv'
<1> SUFFICES ASSUME ReviewsInv, [ReviewsNext]_reviews PROVE ReviewsInv'
  OBVIOUS
<1>1. CASE UNCHANGED reviews
  <2>1. UNCHANGED <<rows, references, exports, pages>>
    BY <1>1 DEF reviews
  <2>2. ReviewsTypeOK'
    BY <2>1 DEF ReviewsInv, ReviewsTypeOK
  <2>3. \A l \in Logs : (IsChain(rows[l]) /\ OneReference(l))'
    BY <2>1 DEF ReviewsInv, OneReference
  <2>4. \A v \in Reviewers : PageFits(v, pages[v])'
    BY <2>1 DEF ReviewsInv, PageFits, IsStored
  <2>5. /\ \A l \in Logs : \A r \in rows'[l] : r.save[2] <= pages'[r.save[1]].saves
        /\ \A save \in exports' : IsStored(save)'
    BY <2>1 DEF ReviewsInv, IsStored
  <2> QED  BY <2>2, <2>3, <2>4, <2>5 DEF ReviewsInv
<1>2. CASE ReviewsNext
  BY <1>2, ImportReferenceInv, OpenPageInv, SubmitInv, QuietPageInv, InsertRowInv,
     PublishExportInv, AnswerInv, SaveChunkReviewInv
     DEF ReviewsNext
<1> QED  BY <1>1, <1>2

(* Whatever saves race, are repeated or lose their answer: the revisions   *)
(* of a log stay one chain, a refused save has left nothing, a save        *)
(* answered with success is stored, an annotation with its export          *)
(* (append_annotation_revision, save_annotation_revision, save_review).    *)
THEOREM ReviewsKept == ReviewsSpec => []NoReviewIsLost
<1> QED  BY ReviewsBegin, ReviewsStep, ReviewsSuffice, PTL DEF ReviewsSpec

-----------------------------------------------------------------------------
(*                             Voice search                                *)
(*                                                                         *)
(* VoiceSearchIsCoherent is not inductive: a build moves the aliases long  *)
(* after it counted, and a search goes on from names it read long ago.     *)
(* VoiceInv adds that a build about to move them has filled both           *)
(* collections of one generation, that collections only grow, within the   *)
(* points of their generation, and that a search's names were complete     *)
(* when it read them, and still are.                                       *)

BuildSteps == {"idle", "create", "upsert", "alias", "switch"}
SearchSteps == {"idle", "query", "scroll", "answered", "refused", "inconsistent"}

Voices == SpeakersOf(Artifacts)
Names == [Kinds -> SUBSET Artifacts]

VoiceCollection ==
  [generation : SUBSET Artifacts, kind : Kinds, points : SUBSET (Voices \union (Voices \X Nat))]

VoiceBuild ==
  [step : BuildSteps, generation : SUBSET Artifacts, kind : Kinds,
   existing : SUBSET ((SUBSET Artifacts) \X Kinds), sent : SUBSET (Voices \union (Voices \X Nat)),
   seen : Names]

VoiceSearch ==
  [step : SearchSteps, artifact : Artifacts \union {"none"}, speaker : Nat, names : Names,
   hits : SUBSET Voices, candidates : SUBSET Voices]

VoiceTypeOK ==
  /\ collections \in SUBSET VoiceCollection
  /\ aliases \in Names
  /\ builders \in [Builders -> VoiceBuild]
  /\ searchers \in [Searchers -> VoiceSearch]

Whole(g, kind) == Stored(g, kind) = PointsOf(g, kind)

Complete(g) == Buildable(g) /\ Whole(g, "exemplars") /\ Whole(g, "centroids")

(* Both aliases name one generation, which is complete.                    *)
OneGeneration(names) ==
  /\ names["exemplars"] = names["centroids"]
  /\ names["centroids"] # {} => Complete(names["centroids"])

BuildFits(m) ==
  /\ m.step # "idle" => Buildable(m.generation)
  /\ m.step \in {"create", "upsert"} /\ m.kind = "centroids" => Whole(m.generation, "exemplars")
  /\ m.step \in {"alias", "switch"} => Complete(m.generation)
  /\ m.step = "switch" => m.seen["exemplars"] = m.seen["centroids"]

(* The speakers a search may answer with, and how many of them it is given.*)
Others(m) ==
  {s \in Searchable(m.names["centroids"]) : EpisodeOf[s[1]] # EpisodeOf[m.artifact]}

Answers(n) == IF n < HitLimit THEN n ELSE HitLimit

SearchFits(m) ==
  /\ m.step # "inconsistent"
  /\ \/ m.step \in {"query", "scroll"}
     \/ m.step = "answered" /\ Excerpts[m.artifact][m.speaker] > 0
     => OneGeneration(m.names) /\ m.names["centroids"] # {}
  /\ m.step = "query" => m.candidates = {}
  /\ \/ m.step = "scroll"
     \/ m.step = "answered" /\ Excerpts[m.artifact][m.speaker] > 0
     => /\ m.artifact \in m.names["centroids"]
        /\ m.hits \union m.candidates \subseteq Others(m)
        /\ Cardinality(m.hits \union m.candidates) = Answers(Cardinality(Others(m)))
  /\ m.step = "answered" => m.hits = {}

VoiceInv ==
  /\ VoiceTypeOK
  /\ \A c \in collections : c.points \subseteq PointsOf(c.generation, c.kind)
  /\ OneGeneration(aliases)
  /\ \A b \in Builders : BuildFits(builders[b])
  /\ \A q \in Searchers : SearchFits(searchers[q])

-----------------------------------------------------------------------------
(* What the collections of a generation hold *)

LEMMA SpeakersMember ==
  ASSUME NEW g, NEW s
  PROVE  s \in SpeakersOf(g) <=> \E a \in g : \E i \in DOMAIN Excerpts[a] : s = <<a, i>>
<1> DEFINE own(a) == {<<a, i>> : i \in DOMAIN Excerpts[a]}
<1>1. \A a \in g : s \in own(a) <=> \E i \in DOMAIN Excerpts[a] : s = <<a, i>>
  BY Zenon
<1>2. s \in UNION {own(a) : a \in g} <=> \E a \in g : s \in own(a)
  BY Zenon
<1> QED  BY <1>1, <1>2, Zenon DEF SpeakersOf

LEMMA SpeakersWithin ==
  ASSUME NEW g \in SUBSET Artifacts, NEW s \in Searchable(g)
  PROVE  /\ s \in Voices /\ s[1] \in g
         /\ CountOf(s) \in Nat
<1>1. PICK a \in g : \E i \in DOMAIN Excerpts[a] : s = <<a, i>>
  BY SpeakersMember DEF Searchable
<1>2. PICK i \in DOMAIN Excerpts[a] : s = <<a, i>>
  BY <1>1
<1>3. s \in Voices
  BY <1>2, SpeakersMember DEF Voices
<1>4. Excerpts[a] \in Seq(Nat)
  BY VoiceAssumption
<1>5. Excerpts[a][i] \in Nat
  BY <1>2, <1>4
<1> QED  BY <1>2, <1>3, <1>5 DEF CountOf

LEMMA ExemplarMember ==
  ASSUME NEW g, NEW p
  PROVE  p \in PointsOf(g, "exemplars")
           <=> \E s \in Searchable(g) : \E n \in 1 .. CountOf(s) : p = <<s, n>>
<1> DEFINE own(s) == {<<s, n>> : n \in 1 .. CountOf(s)}
<1>1. \A s \in Searchable(g) : p \in own(s) <=> \E n \in 1 .. CountOf(s) : p = <<s, n>>
  BY Zenon
<1>2. p \in UNION {own(s) : s \in Searchable(g)} <=> \E s \in Searchable(g) : p \in own(s)
  BY Zenon
<1>3. PointsOf(g, "exemplars") = UNION {own(s) : s \in Searchable(g)}
  BY DEF PointsOf
<1> QED  BY <1>1, <1>2, <1>3, Zenon

LEMMA PointsWithin ==
  ASSUME NEW g \in SUBSET Artifacts, NEW kind \in Kinds
  PROVE  PointsOf(g, kind) \subseteq Voices \union (Voices \X Nat)
<1>1. CASE kind = "centroids"
  BY <1>1, SpeakersWithin DEF PointsOf
<1>2. CASE kind = "exemplars"
  <2>1. ASSUME NEW p \in PointsOf(g, "exemplars") PROVE p \in Voices \X Nat
    <3>1. PICK s \in Searchable(g) : \E n \in 1 .. CountOf(s) : p = <<s, n>>
      BY ExemplarMember
    <3>2. PICK n \in 1 .. CountOf(s) : p = <<s, n>>
      BY <3>1
    <3> QED  BY <3>2, SpeakersWithin
  <2> QED  BY <1>2, <2>1
<1> QED  BY <1>1, <1>2 DEF Kinds

(* A speaker has as many exemplars in a complete collection as it declares.*)
LEMMA ExemplarCount ==
  ASSUME NEW g \in SUBSET Artifacts, NEW s \in Searchable(g)
  PROVE  Cardinality({p \in PointsOf(g, "exemplars") : p[1] = s}) = CountOf(s)
<1> DEFINE own == {p \in PointsOf(g, "exemplars") : p[1] = s}
           m == CountOf(s)
           numbered == {s} \X (1 .. m)
<1>1. m \in Nat
  BY SpeakersWithin
<1>2. ASSUME NEW p PROVE p \in own <=> p \in numbered
  <2>1. p \in PointsOf(g, "exemplars")
          <=> \E t \in Searchable(g) : \E n \in 1 .. CountOf(t) : p = <<t, n>>
    BY ExemplarMember
  <2>2. ASSUME p \in own PROVE p \in numbered
    <3>1. PICK t \in Searchable(g) : \E n \in 1 .. CountOf(t) : p = <<t, n>>
      BY <2>1, <2>2
    <3>2. PICK n \in 1 .. CountOf(t) : p = <<t, n>>
      BY <3>1
    <3>3. t = s
      BY <2>2, <3>2
    <3> QED  BY <3>2, <3>3
  <2>3. ASSUME p \in numbered PROVE p \in own
    <3>1. PICK n \in 1 .. m : p = <<s, n>>
      BY <2>3
    <3>2. p \in PointsOf(g, "exemplars")
      BY <2>1, <3>1
    <3> QED  BY <3>1, <3>2
  <2> QED  BY <2>2, <2>3
<1>3. own = numbered
  BY <1>2
<1>4. IsFiniteSet({s}) /\ Cardinality({s}) = 1 /\ IsFiniteSet(1 .. m) /\ Cardinality(1 .. m) = m
  <2>1. 1 \in Int /\ m \in Int
    BY <1>1
  <2> HIDE DEF m
  <2>2. IsFiniteSet(1 .. m) /\ Cardinality(1 .. m) = IF 1 > m THEN 0 ELSE m - 1 + 1
    BY <2>1, FS_Interval, Zenon
  <2>3. (IF 1 > m THEN 0 ELSE m - 1 + 1) = m
    BY <1>1
  <2> QED  BY <2>2, <2>3, FS_Singleton, Zenon
<1> HIDE DEF own, m
<1>5. Cardinality({s} \X (1 .. m)) = 1 * m
  BY <1>4, FS_Product
<1>6. Cardinality(own) = m
  BY <1>1, <1>3, <1>5
<1> QED  BY <1>6 DEF own, m

(* Finitely many artifacts have finitely many speakers.                    *)
LEMMA SpeakersFinite ==
  ASSUME NEW g \in SUBSET Artifacts
  PROVE  IsFiniteSet(SpeakersOf(g))
<1> DEFINE own(a) == {<<a, i>> : i \in DOMAIN Excerpts[a]}
           owned == {own(a) : a \in g}
           ownOf == [a \in g |-> own(a)]
<1>1. IsFiniteSet(g)
  BY VoiceAssumption, FS_Subset
<1>2. ASSUME NEW a \in g PROVE IsFiniteSet(own(a))
  <2> DEFINE pair == [i \in DOMAIN Excerpts[a] |-> <<a, i>>]
  <2>1. Excerpts[a] \in Seq(Nat)
    BY VoiceAssumption
  <2>2. PICK n \in Nat : DOMAIN Excerpts[a] = 1 .. n
    BY <2>1
  <2>3. 1 \in Int /\ n \in Int
    BY <2>2
  <2>4. IsFiniteSet(1 .. n)
    BY <2>3, FS_Interval, Zenon
  <2>5. pair \in Surjection(1 .. n, own(a))
    BY <2>2, Zenon DEF Surjection
  <2> HIDE DEF pair, own
  <2> QED  BY <2>4, <2>5, FS_Surjection
<1>3. ownOf \in Surjection(g, owned)
  BY Zenon DEF Surjection
<1>4. IsFiniteSet(owned)
  <2> HIDE DEF ownOf, owned
  <2> QED  BY <1>1, <1>3, FS_Surjection
<1>5. \A T \in owned : IsFiniteSet(T)
  BY <1>2
<1>6. IsFiniteSet(UNION owned)
  <2> HIDE DEF owned
  <2> QED  BY <1>4, <1>5, FS_UNION
<1> QED  BY <1>6 DEF SpeakersOf

LEMMA StoredMember ==
  ASSUME NEW g, NEW kind, NEW p
  PROVE  p \in Stored(g, kind)
           <=> \E c \in collections : c.generation = g /\ c.kind = kind /\ p \in c.points
<1> DEFINE mine == {c \in collections : c.generation = g /\ c.kind = kind}
<1>1. p \in UNION {c.points : c \in mine} <=> \E c \in mine : p \in c.points
  BY Zenon
<1> QED  BY <1>1 DEF Stored, Collection

LEMMA StoredWithin ==
  ASSUME VoiceInv, NEW g, NEW kind
  PROVE  Stored(g, kind) \subseteq PointsOf(g, kind)
BY StoredMember DEF VoiceInv

-----------------------------------------------------------------------------
(* What is complete stays so, as collections only grow.                    *)
LEMMA FitsKept ==
  ASSUME VoiceInv, \A g, kind : Stored(g, kind) \subseteq Stored(g, kind)',
         \A g, kind : Stored(g, kind)' \subseteq PointsOf(g, kind)
  PROVE  /\ \A names : OneGeneration(names) => OneGeneration(names)'
         /\ \A m : BuildFits(m) => BuildFits(m)'
         /\ \A m : SearchFits(m) => SearchFits(m)'
<1>1. \A g, kind : Whole(g, kind) => Whole(g, kind)'
  BY DEF Whole
<1>2. \A g : Complete(g) => Complete(g)'
  BY <1>1 DEF Complete
<1>3. \A names : OneGeneration(names) => OneGeneration(names)'
  BY <1>2 DEF OneGeneration
<1>4. \A m : BuildFits(m) => BuildFits(m)'
  BY <1>1, <1>2 DEF BuildFits
<1>5. \A m : SearchFits(m) => SearchFits(m)'
  BY <1>3 DEF SearchFits
<1> QED  BY <1>3, <1>4, <1>5

LEMMA CollectionsGrow ==
  ASSUME VoiceInv, NEW b \in Builders, NEW m \in VoiceBuild, BuildFits(m), Builder(b, m),
         UNCHANGED <<aliases, searchers>>, collections' \in SUBSET VoiceCollection,
         \A c \in collections' : c.points \subseteq PointsOf(c.generation, c.kind),
         \A g, kind : Stored(g, kind) \subseteq Stored(g, kind)'
  PROVE  VoiceInv'
<1>1. \A g, kind : Stored(g, kind)' \subseteq PointsOf(g, kind)
  <2>1. ASSUME NEW g, NEW kind, NEW p \in Stored(g, kind)' PROVE p \in PointsOf(g, kind)
    <3>1. PICK C : C = collections'
      OBVIOUS
    <3>2. PICK c \in C : c.generation = g /\ c.kind = kind /\ p \in c.points
      BY <2>1, <3>1, Zenon DEF Stored, Collection
    <3> QED  BY <3>1, <3>2
  <2> QED  BY <2>1
<1>2. /\ \A names : OneGeneration(names) => OneGeneration(names)'
      /\ \A n : BuildFits(n) => BuildFits(n)'
      /\ \A n : SearchFits(n) => SearchFits(n)'
  BY <1>1, FitsKept
<1>3. VoiceTypeOK'
  BY DEF VoiceInv, VoiceTypeOK, Builder
<1>4. ASSUME NEW a \in Builders PROVE BuildFits(builders[a])'
  <2>1. PICK n : n = builders'[a]
    OBVIOUS
  <2>2. BuildFits(n)
    BY <2>1 DEF VoiceInv, VoiceTypeOK, Builder
  <2>3. BuildFits(n)'
    BY <1>2, <2>2
  <2> QED  BY <2>1, <2>3
<1>5. ASSUME NEW q \in Searchers PROVE SearchFits(searchers[q])'
  <2>1. PICK n : n = searchers[q]
    OBVIOUS
  <2>2. SearchFits(n)' /\ n = searchers'[q]
    BY <1>2, <2>1 DEF VoiceInv
  <2> QED  BY <2>2
<1>6. OneGeneration(aliases)'
  <2>1. PICK n : n = aliases
    OBVIOUS
  <2>2. OneGeneration(n)' /\ n = aliases'
    BY <1>2, <2>1 DEF VoiceInv
  <2> QED  BY <2>2
<1> QED  BY <1>3, <1>4, <1>5, <1>6 DEF VoiceInv

LEMMA BuildKeeps ==
  ASSUME VoiceInv, NEW b \in Builders, NEW m \in VoiceBuild, BuildFits(m), Builder(b, m),
         UNCHANGED <<collections, aliases, searchers>>
  PROVE  VoiceInv'
<1>1. \A g, kind : Stored(g, kind)' = Stored(g, kind)
  BY DEF Stored, Collection
<1>2. /\ collections' \in SUBSET VoiceCollection
      /\ \A c \in collections' : c.points \subseteq PointsOf(c.generation, c.kind)
  BY DEF VoiceInv, VoiceTypeOK
<1> QED  BY <1>1, <1>2, CollectionsGrow

LEMMA SearchKeeps ==
  ASSUME VoiceInv, NEW q \in Searchers, NEW m \in VoiceSearch, SearchFits(m), Searcher(q, m),
         UNCHANGED <<collections, aliases, builders>>
  PROVE  VoiceInv'
<1>1. \A g, kind : Stored(g, kind)' = Stored(g, kind)
  BY DEF Stored, Collection
<1>2. /\ \A names : OneGeneration(names) => OneGeneration(names)'
      /\ \A n : BuildFits(n) => BuildFits(n)'
      /\ \A n : SearchFits(n) => SearchFits(n)'
  BY <1>1, StoredWithin, FitsKept
<1>3. VoiceTypeOK'
  BY DEF VoiceInv, VoiceTypeOK, Searcher
<1>4. ASSUME NEW a \in Searchers PROVE SearchFits(searchers[a])'
  <2>1. PICK n : n = searchers'[a]
    OBVIOUS
  <2>2. SearchFits(n)
    BY <2>1 DEF VoiceInv, VoiceTypeOK, Searcher
  <2>3. SearchFits(n)'
    BY <1>2, <2>2
  <2> QED  BY <2>1, <2>3
<1>5. ASSUME NEW b \in Builders PROVE BuildFits(builders[b])'
  <2>1. PICK n : n = builders[b]
    OBVIOUS
  <2>2. BuildFits(n)' /\ n = builders'[b]
    BY <1>2, <2>1 DEF VoiceInv
  <2> QED  BY <2>2
<1>6. OneGeneration(aliases)'
  <2>1. PICK n : n = aliases
    OBVIOUS
  <2>2. OneGeneration(n)' /\ n = aliases'
    BY <1>2, <2>1 DEF VoiceInv
  <2> QED  BY <2>2
<1> QED  BY <1>3, <1>4, <1>5, <1>6 DEF VoiceInv

(* A build or a search with what it is doing.                              *)
LEMMA VoiceActors ==
  ASSUME VoiceInv
  PROVE  /\ \A b \in Builders : builders[b] \in VoiceBuild /\ BuildFits(builders[b])
         /\ \A q \in Searchers : searchers[q] \in VoiceSearch /\ SearchFits(searchers[q])
BY DEF VoiceInv, VoiceTypeOK

LEMMA IdleFits == Idle \in VoiceBuild /\ BuildFits(Idle)
BY DEF Idle, VoiceBuild, BuildFits, BuildSteps, Kinds, Names

LEMMA StartBuildKeeps ==
  ASSUME VoiceInv, NEW b \in Builders, NEW g \in SUBSET Artifacts, StartBuild(b, g)
  PROVE  VoiceInv'
<1> DEFINE m == [Idle EXCEPT !.step = "create", !.generation = g,
                 !.existing = {<<c.generation, c.kind>> : c \in collections}]
<1>1. {<<c.generation, c.kind>> : c \in collections} \in SUBSET ((SUBSET Artifacts) \X Kinds)
  <2>1. \A c \in collections : c.generation \in SUBSET Artifacts /\ c.kind \in Kinds
    BY DEF VoiceInv, VoiceTypeOK, VoiceCollection
  <2>2. ASSUME NEW x \in {<<c.generation, c.kind>> : c \in collections}
        PROVE  x \in (SUBSET Artifacts) \X Kinds
    <3>1. PICK c \in collections : x = <<c.generation, c.kind>>
      BY <2>2, Zenon
    <3> QED  BY <2>1, <3>1
  <2> QED  BY <2>2, Zenon
<1>2. m \in VoiceBuild /\ BuildFits(m)
  BY <1>1 DEF StartBuild, Idle, VoiceBuild, BuildFits, BuildSteps, Kinds, Names
<1>3. Builder(b, m) /\ UNCHANGED <<collections, aliases, searchers>>
  BY DEF StartBuild
<1> HIDE DEF m
<1> QED  BY <1>2, <1>3, BuildKeeps

LEMMA StopBuildKeeps ==
  ASSUME VoiceInv, NEW b \in Builders, StopBuild(b)
  PROVE  VoiceInv'
BY IdleFits, BuildKeeps DEF StopBuild

LEMMA CheckCountKeeps ==
  ASSUME VoiceInv, NEW b \in Builders, CheckCount(b)
  PROVE  VoiceInv'
<1>1. PICK me : me = builders[b]
  OBVIOUS
<1>2. me \in VoiceBuild /\ BuildFits(me) /\ me.step = "upsert"
  BY <1>1, VoiceActors DEF CheckCount
<1>3. CASE Stored(me.generation, me.kind) = me.sent
  <2>1. PICK m : m = [me EXCEPT !.step = AfterKind(me.kind), !.kind = "centroids", !.sent = {}]
    OBVIOUS
  <2>2. Builder(b, m) /\ UNCHANGED <<collections, aliases, searchers>>
    BY <1>1, <1>3, <2>1 DEF CheckCount
  <2>3. Whole(me.generation, me.kind)
    BY <1>1, <1>3 DEF CheckCount, Whole
  <2>4. /\ m \in VoiceBuild /\ m.step = AfterKind(me.kind) /\ m.kind = "centroids"
        /\ m.generation = me.generation
    BY <1>2, <2>1 DEF VoiceBuild, BuildSteps, Kinds, AfterKind
  <2>5. BuildFits(m)
    BY <1>2, <2>3, <2>4 DEF BuildFits, AfterKind, Complete, VoiceBuild, Kinds
  <2> QED  BY <2>2, <2>4, <2>5, BuildKeeps
<1>4. CASE Stored(me.generation, me.kind) # me.sent
  BY <1>1, <1>4, IdleFits, BuildKeeps DEF CheckCount
<1> QED  BY <1>3, <1>4

LEMMA ReadAliasesKeeps ==
  ASSUME VoiceInv, NEW b \in Builders, ReadAliases(b)
  PROVE  VoiceInv'
<1>1. PICK me : me = builders[b]
  OBVIOUS
<1>2. me \in VoiceBuild /\ BuildFits(me) /\ me.step = "alias"
  BY <1>1, VoiceActors DEF ReadAliases
<1>3. PICK m : m = [me EXCEPT !.step = "switch", !.seen = aliases]
  OBVIOUS
<1>4. aliases \in Names /\ aliases["exemplars"] = aliases["centroids"]
  BY DEF VoiceInv, VoiceTypeOK, OneGeneration
<1>5. m \in VoiceBuild /\ BuildFits(m)
  BY <1>2, <1>3, <1>4 DEF VoiceBuild, BuildFits, BuildSteps
<1> QED  BY <1>1, <1>3, <1>5, BuildKeeps DEF ReadAliases

(* The aliases move to a complete generation, both or neither.             *)
LEMMA SwitchAliasesKeeps ==
  ASSUME VoiceInv, NEW b \in Builders, SwitchAliases(b)
  PROVE  VoiceInv'
<1>1. PICK me : me = builders[b]
  OBVIOUS
<1>2. me \in VoiceBuild /\ BuildFits(me) /\ me.step = "switch"
  BY <1>1, VoiceActors DEF SwitchAliases
<1>3. Complete(me.generation) /\ me.seen["exemplars"] = me.seen["centroids"]
  BY <1>2 DEF BuildFits
<1>4. /\ aliases' = [k \in Kinds |->
                       IF me.seen[k] = me.generation THEN aliases[k] ELSE me.generation]
      /\ Builder(b, Idle) /\ UNCHANGED <<collections, searchers>>
  BY <1>1 DEF SwitchAliases
<1>5. aliases' \in Names
  BY <1>2, <1>4 DEF VoiceInv, VoiceTypeOK, Names, VoiceBuild
<1>6. OneGeneration(aliases')
  BY <1>3, <1>4 DEF VoiceInv, OneGeneration, Kinds
<1>7. \A g, kind : Stored(g, kind)' = Stored(g, kind)
  BY <1>4 DEF Stored, Collection
<1>8. /\ \A names : OneGeneration(names) => OneGeneration(names)'
      /\ \A n : BuildFits(n) => BuildFits(n)'
      /\ \A n : SearchFits(n) => SearchFits(n)'
  BY <1>7, StoredWithin, FitsKept
<1>9. VoiceTypeOK'
  BY <1>4, <1>5, IdleFits DEF VoiceInv, VoiceTypeOK, Builder
<1>10. OneGeneration(aliases)'
  <2>1. PICK n : n = aliases'
    OBVIOUS
  <2>2. OneGeneration(n)'
    BY <1>6, <1>8, <2>1
  <2> QED  BY <2>1, <2>2
<1>11. ASSUME NEW a \in Builders PROVE BuildFits(builders[a])'
  <2>1. PICK n : n = builders'[a]
    OBVIOUS
  <2>2. BuildFits(n)
    BY <1>4, <2>1, IdleFits DEF VoiceInv, VoiceTypeOK, Builder
  <2>3. BuildFits(n)'
    BY <1>8, <2>2
  <2> QED  BY <2>1, <2>3
<1>12. ASSUME NEW q \in Searchers PROVE SearchFits(searchers[q])'
  <2>1. PICK n : n = searchers[q]
    OBVIOUS
  <2>2. SearchFits(n)' /\ n = searchers'[q]
    BY <1>4, <1>8, <2>1 DEF VoiceInv
  <2> QED  BY <2>2
<1> QED  BY <1>4, <1>9, <1>10, <1>11, <1>12 DEF VoiceInv
(* An empty collection, under a name that is new.                          *)
LEMMA CreateCollectionKeeps ==
  ASSUME VoiceInv, NEW b \in Builders, CreateCollection(b)
  PROVE  VoiceInv'
<1>1. PICK me : me = builders[b]
  OBVIOUS
<1>2. me \in VoiceBuild /\ BuildFits(me) /\ me.step = "create"
  BY <1>1, VoiceActors DEF CreateCollection
<1>3. PICK m : m = [me EXCEPT !.step = "upsert"]
  OBVIOUS
<1>4. m \in VoiceBuild /\ BuildFits(m)
  BY <1>2, <1>3 DEF VoiceBuild, BuildFits, BuildSteps
<1>5. CASE Builder(b, m) /\ UNCHANGED collections
  BY <1>4, <1>5, BuildKeeps DEF CreateCollection
<1>6. CASE Builder(b, Idle) /\ UNCHANGED collections
  BY <1>6, IdleFits, BuildKeeps DEF CreateCollection
<1>7. CASE /\ Builder(b, m)
           /\ collections' = collections \union
                {[generation |-> me.generation, kind |-> me.kind, points |-> {}]}
  <2>1. PICK c : c = [generation |-> me.generation, kind |-> me.kind, points |-> {}]
    OBVIOUS
  <2>2. c \in VoiceCollection /\ c.points = {}
    BY <1>2, <2>1 DEF VoiceBuild, VoiceCollection
  <2>3. collections' = collections \union {c}
    BY <1>7, <2>1
  <2>4. collections' \in SUBSET VoiceCollection
    BY <2>2, <2>3 DEF VoiceInv, VoiceTypeOK
  <2>5. \A d \in collections' : d.points \subseteq PointsOf(d.generation, d.kind)
    BY <2>2, <2>3 DEF VoiceInv
  <2>6. \A g, kind : Stored(g, kind) \subseteq Stored(g, kind)'
    <3>1. \A g, kind : Collection(g, kind) \subseteq Collection(g, kind)'
      BY <2>3 DEF Collection
    <3> QED  BY <3>1, Zenon DEF Stored
  <2>7. UNCHANGED <<aliases, searchers>>
    BY DEF CreateCollection
  <2> QED  BY <1>4, <1>7, <2>4, <2>5, <2>6, <2>7, CollectionsGrow
<1> QED  BY <1>1, <1>3, <1>5, <1>6, <1>7 DEF CreateCollection

(* Points of the generation and kind that the build fills.                 *)
LEMMA UpsertBatchKeeps ==
  ASSUME VoiceInv, NEW b \in Builders, UpsertBatch(b)
  PROVE  VoiceInv'
<1> DEFINE me == builders[b]
<1>2. me \in VoiceBuild /\ BuildFits(me) /\ me.step = "upsert"
  BY VoiceActors DEF UpsertBatch
<1>3. PICK batch \in SUBSET (PointsOf(me.generation, me.kind) \ me.sent) :
        /\ collections' =
             {IF c \in Collection(me.generation, me.kind)
              THEN [c EXCEPT !.points = @ \union batch] ELSE c : c \in collections}
        /\ Builder(b, [me EXCEPT !.sent = @ \union batch])
  BY DEF UpsertBatch
<1>4. batch \subseteq Voices \union (Voices \X Nat)
  BY <1>2, <1>3, PointsWithin DEF VoiceBuild
<1>5. PICK m : m = [me EXCEPT !.sent = @ \union batch]
  OBVIOUS
<1>6. m \in VoiceBuild /\ BuildFits(m) /\ Builder(b, m)
  BY <1>2, <1>3, <1>4, <1>5 DEF VoiceBuild, BuildFits
<1> DEFINE grown(c) == IF c \in Collection(me.generation, me.kind)
                       THEN [c EXCEPT !.points = @ \union batch] ELSE c
<1>7. ASSUME NEW c \in collections
      PROVE  /\ grown(c) \in VoiceCollection /\ c.points \subseteq grown(c).points
             /\ grown(c).generation = c.generation /\ grown(c).kind = c.kind
             /\ grown(c).points \subseteq PointsOf(c.generation, c.kind)
  <2>1. c \in VoiceCollection /\ c.points \subseteq PointsOf(c.generation, c.kind)
    BY DEF VoiceInv, VoiceTypeOK
  <2>2. CASE c \in Collection(me.generation, me.kind)
    <3>1. grown(c) = [c EXCEPT !.points = @ \union batch]
      BY <2>2
    <3>2. c.generation = me.generation /\ c.kind = me.kind
      BY <2>2 DEF Collection
    <3> HIDE DEF grown
    <3>3. batch \subseteq PointsOf(c.generation, c.kind)
      BY <3>2
    <3>4. /\ grown(c) \in VoiceCollection /\ grown(c).points = c.points \union batch
          /\ grown(c).generation = c.generation /\ grown(c).kind = c.kind
      BY <1>4, <2>1, <3>1 DEF VoiceCollection
    <3> QED  BY <2>1, <3>3, <3>4
  <2>3. CASE c \notin Collection(me.generation, me.kind)
    BY <2>1, <2>3
  <2> QED  BY <2>2, <2>3
<1>8. collections' = {grown(c) : c \in collections}
  BY <1>3
<1> HIDE DEF grown
<1>9. \A d \in collections' : \E c \in collections : d = grown(c)
  BY <1>8
<1>10. collections' \in SUBSET VoiceCollection
  BY <1>7, <1>9
<1>11. \A d \in collections' : d.points \subseteq PointsOf(d.generation, d.kind)
  BY <1>7, <1>9
<1>12. \A g, kind : Stored(g, kind) \subseteq Stored(g, kind)'
  <2>1. ASSUME NEW g, NEW kind, NEW p \in Stored(g, kind) PROVE p \in Stored(g, kind)'
    <3>1. PICK c \in collections : c.generation = g /\ c.kind = kind /\ p \in c.points
      BY StoredMember
    <3>2. grown(c) \in collections' /\ p \in grown(c).points
      BY <1>7, <1>8, <3>1
    <3>3. grown(c) \in Collection(g, kind)'
      BY <1>7, <3>1, <3>2 DEF Collection
    <3> QED  BY <3>2, <3>3, Zenon DEF Stored
  <2> QED  BY <2>1
<1>13. UNCHANGED <<aliases, searchers>>
  BY DEF UpsertBatch
<1> QED  BY <1>6, <1>10, <1>11, <1>12, <1>13, CollectionsGrow

-----------------------------------------------------------------------------
(* Searches *)

LEMMA OthersAre ==
  ASSUME NEW m \in VoiceSearch
  PROVE  /\ Others(m) \subseteq Searchable(m.names["centroids"])
         /\ IsFiniteSet(Others(m)) /\ Others(m) \subseteq Voices
<1>1. m.names["centroids"] \in SUBSET Artifacts
  BY DEF VoiceSearch, Names, Kinds
<1>2. PICK g : g = m.names["centroids"]
  OBVIOUS
<1>3. Others(m) \in SUBSET SpeakersOf(g)
  BY <1>2 DEF Others, Searchable
<1>4. IsFiniteSet(SpeakersOf(g))
  BY <1>1, <1>2, SpeakersFinite
<1>5. IsFiniteSet(Others(m))
  BY <1>3, <1>4, FS_Subset
<1>6. \A s \in Searchable(g) : s \in Voices
  BY <1>1, <1>2, SpeakersWithin
<1> QED  BY <1>2, <1>5, <1>6 DEF Others

LEMMA StartSearchKeeps ==
  ASSUME VoiceInv, NEW q \in Searchers, NEW a \in Artifacts, NEW i \in DOMAIN Excerpts[a],
         StartSearch(q, a, i)
  PROVE  VoiceInv'
<1> DEFINE to == IF aliases["exemplars"] = {} \/ aliases["exemplars"] # aliases["centroids"]
                   THEN IF aliases["centroids"] = {} THEN "refused" ELSE "inconsistent"
                 ELSE IF Excerpts[a][i] = 0 THEN "answered"
                 ELSE "query"
<1>1. PICK m : m = [Asking EXCEPT !.artifact = a, !.speaker = i, !.names = aliases, !.step = to]
  OBVIOUS
<1>2. Searcher(q, m) /\ UNCHANGED <<collections, aliases, builders>>
  BY <1>1 DEF StartSearch
<1>3. OneGeneration(aliases) /\ aliases \in Names
  BY DEF VoiceInv, VoiceTypeOK
<1>4. /\ to \in {"refused", "answered", "query"}
      /\ to = "answered" => Excerpts[a][i] = 0
      /\ to = "query" => aliases["centroids"] # {}
  BY <1>3 DEF OneGeneration
<1>5. i \in Nat
  <2>1. Excerpts[a] \in Seq(Nat)
    BY VoiceAssumption
  <2> QED  BY <2>1
<1> HIDE DEF to
<1>6. /\ m \in VoiceSearch /\ m.artifact = a /\ m.speaker = i /\ m.names = aliases
      /\ m.step = to /\ m.hits = {} /\ m.candidates = {}
  BY <1>1, <1>3, <1>4, <1>5 DEF Asking, VoiceSearch, SearchSteps
<1>7. SearchFits(m)
  BY <1>3, <1>4, <1>6 DEF SearchFits
<1> QED  BY <1>2, <1>6, <1>7, SearchKeeps

LEMMA QueryCentroidsKeeps ==
  ASSUME VoiceInv, NEW q \in Searchers, QueryCentroids(q)
  PROVE  VoiceInv'
<1>1. PICK me : me = searchers[q]
  OBVIOUS
<1>2. me \in VoiceSearch /\ SearchFits(me) /\ me.step = "query"
  BY <1>1, VoiceActors DEF QueryCentroids
<1>3. PICK g : g = me.names["centroids"]
  OBVIOUS
<1>4. Complete(g) /\ g \in SUBSET Artifacts
  BY <1>2, <1>3 DEF SearchFits, OneGeneration, VoiceSearch, Names, Kinds
<1>5. Stored(g, "centroids") = Searchable(g)
  BY <1>4 DEF Complete, Whole, PointsOf
<1>6. UNCHANGED <<collections, aliases, builders>>
  BY DEF QueryCentroids
<1>7. CASE <<me.artifact, me.speaker>> \notin Stored(g, "centroids")
  <2>1. PICK m : m = [me EXCEPT !.step = "refused"]
    OBVIOUS
  <2>2. m \in VoiceSearch /\ SearchFits(m)
    BY <1>2, <2>1 DEF VoiceSearch, SearchFits, SearchSteps
  <2>3. Searcher(q, m)
    BY <1>1, <1>3, <1>7, <2>1 DEF QueryCentroids
  <2> QED  BY <1>6, <2>2, <2>3, SearchKeeps
<1>8. CASE <<me.artifact, me.speaker>> \in Stored(g, "centroids")
  <2>1. {s \in Stored(g, "centroids") : EpisodeOf[s[1]] # EpisodeOf[me.artifact]} = Others(me)
    BY <1>3, <1>5 DEF Others
  <2>2. PICK hits \in SUBSET Others(me) :
          /\ Cardinality(hits) = Answers(Cardinality(Others(me)))
          /\ Searcher(q, [me EXCEPT !.step = "scroll", !.hits = hits])
    BY <1>1, <1>3, <1>8, <2>1 DEF QueryCentroids, Answers
  <2>3. PICK m : m = [me EXCEPT !.step = "scroll", !.hits = hits]
    OBVIOUS
  <2>4. /\ m \in VoiceSearch /\ m.step = "scroll" /\ m.hits = hits /\ m.candidates = {}
        /\ m.names = me.names /\ m.artifact = me.artifact
    BY <1>2, <2>3, OthersAre DEF VoiceSearch, SearchFits, SearchSteps
  <2>5. me.artifact \in g
    <3>1. PICK s : s = <<me.artifact, me.speaker>>
      OBVIOUS
    <3>2. s[1] \in g
      BY <1>4, <1>5, <1>8, <3>1, SpeakersWithin
    <3> QED  BY <3>1, <3>2
  <2>6. Others(m) = Others(me)
    BY <2>4 DEF Others
  <2>7. m.hits \union m.candidates = hits
    BY <2>4
  <2>8. OneGeneration(m.names) /\ m.names["centroids"] # {}
    BY <1>2, <2>4 DEF SearchFits
  <2>9. SearchFits(m)
    BY <1>3, <2>2, <2>4, <2>5, <2>6, <2>7, <2>8 DEF SearchFits
  <2> QED  BY <1>6, <2>2, <2>3, <2>4, <2>9, SearchKeeps
<1> QED  BY <1>7, <1>8

(* The exemplars of a hit are as many as its centroid says.                *)
LEMMA ScrollExemplarsKeeps ==
  ASSUME VoiceInv, NEW q \in Searchers, ScrollExemplars(q)
  PROVE  VoiceInv'
<1>1. PICK me : me = searchers[q]
  OBVIOUS
<1>2. me \in VoiceSearch /\ SearchFits(me) /\ me.step = "scroll"
  BY <1>1, VoiceActors DEF ScrollExemplars
<1>3. PICK g : g = me.names["centroids"]
  OBVIOUS
<1>4. Complete(g) /\ g \in SUBSET Artifacts /\ me.artifact \in g /\ g = me.names["exemplars"]
  BY <1>2, <1>3 DEF SearchFits, OneGeneration, VoiceSearch, Names, Kinds
<1>5. PICK s \in me.hits :
        LET points == {p \in Stored(me.names["exemplars"], "exemplars") : p[1] = s}
        IN IF Cardinality(points) = CountOf(s) /\ ModelOf[s[1]] = ModelOf[me.artifact]
           THEN Searcher(q, [me EXCEPT !.hits = @ \ {s}, !.candidates = @ \union {s}])
           ELSE Searcher(q, [me EXCEPT !.step = "inconsistent"])
  BY <1>1 DEF ScrollExemplars
<1>6. s \in Searchable(g)
  BY <1>2, <1>3 DEF SearchFits, Others
<1>7. Cardinality({p \in PointsOf(g, "exemplars") : p[1] = s}) = CountOf(s)
  BY <1>4, <1>6, ExemplarCount
<1>8. Stored(me.names["exemplars"], "exemplars") = PointsOf(g, "exemplars")
  BY <1>4 DEF Complete, Whole
<1>9. ModelOf[s[1]] = ModelOf[me.artifact]
  BY <1>4, <1>6, SpeakersWithin DEF Complete, Buildable
<1>10. PICK m : m = [me EXCEPT !.hits = @ \ {s}, !.candidates = @ \union {s}]
  OBVIOUS
<1>11. Searcher(q, m) /\ UNCHANGED <<collections, aliases, builders>>
  BY <1>5, <1>7, <1>8, <1>9, <1>10 DEF ScrollExemplars
<1>12. /\ m \in VoiceSearch /\ m.step = "scroll" /\ m.names = me.names
       /\ m.artifact = me.artifact /\ m.hits = me.hits \ {s}
       /\ m.candidates = me.candidates \union {s}
  BY <1>2, <1>5, <1>10 DEF VoiceSearch
<1>13. m.hits \union m.candidates = me.hits \union me.candidates
  BY <1>5, <1>12
<1>14. Others(m) = Others(me)
  BY <1>12 DEF Others
<1>15. SearchFits(m)
  BY <1>2, <1>12, <1>13, <1>14 DEF SearchFits
<1> QED  BY <1>11, <1>12, <1>15, SearchKeeps

LEMMA AnswerSearchKeeps ==
  ASSUME VoiceInv, NEW q \in Searchers, AnswerSearch(q)
  PROVE  VoiceInv'
<1>1. PICK me : me = searchers[q]
  OBVIOUS
<1>2. me \in VoiceSearch /\ SearchFits(me) /\ me.step = "scroll" /\ me.hits = {}
  BY <1>1, VoiceActors DEF AnswerSearch
<1>3. PICK m : m = [me EXCEPT !.step = "answered"]
  OBVIOUS
<1>4. /\ m \in VoiceSearch /\ m.step = "answered" /\ m.hits = me.hits
      /\ m.candidates = me.candidates /\ m.names = me.names /\ m.artifact = me.artifact
  BY <1>2, <1>3 DEF VoiceSearch, SearchSteps
<1>5. Others(m) = Others(me)
  BY <1>4 DEF Others
<1>6. SearchFits(m)
  BY <1>2, <1>4, <1>5 DEF SearchFits
<1> QED  BY <1>1, <1>3, <1>4, <1>6, SearchKeeps DEF AnswerSearch

-----------------------------------------------------------------------------
LEMMA VoiceBegin == VoiceInit => VoiceInv
<1> SUFFICES ASSUME VoiceInit PROVE VoiceInv
  OBVIOUS
<1>1. VoiceTypeOK
  BY IdleFits DEF VoiceInit, VoiceTypeOK, Asking, VoiceSearch, SearchSteps, Names, Kinds
<1>2. OneGeneration(aliases)
  BY DEF VoiceInit, OneGeneration, Kinds
<1>3. SearchFits(Asking)
  BY DEF Asking, SearchFits
<1> QED  BY <1>1, <1>2, <1>3, IdleFits DEF VoiceInit, VoiceInv

LEMMA VoiceStep == VoiceInv /\ [VoiceNext]_voice => VoiceInv'
<1> SUFFICES ASSUME VoiceInv, [VoiceNext]_voice PROVE VoiceInv'
  OBVIOUS
<1>1. CASE UNCHANGED voice
  <2>1. \A g, kind : Stored(g, kind)' = Stored(g, kind)
    BY <1>1 DEF Stored, Collection, voice
  <2>2. \A g, kind : Whole(g, kind)' <=> Whole(g, kind)
    BY <2>1 DEF Whole
  <2>3. \A g : Complete(g)' <=> Complete(g)
    BY <2>2 DEF Complete
  <2>4. \A names : OneGeneration(names)' <=> OneGeneration(names)
    BY <2>3 DEF OneGeneration
  <2> QED
    BY <1>1, <2>2, <2>3, <2>4 DEF voice, VoiceInv, VoiceTypeOK, OneGeneration, BuildFits, SearchFits
<1>2. CASE VoiceNext
  BY <1>2, StartBuildKeeps, CreateCollectionKeeps, UpsertBatchKeeps, CheckCountKeeps,
     ReadAliasesKeeps, SwitchAliasesKeeps, StopBuildKeeps, StartSearchKeeps,
     QueryCentroidsKeeps, ScrollExemplarsKeeps, AnswerSearchKeeps DEF VoiceNext
<1> QED  BY <1>1, <1>2

(* The invariant is what a search relies on.                               *)
LEMMA VoiceSuffices == VoiceInv => VoiceSearchIsCoherent
<1> SUFFICES ASSUME VoiceInv PROVE VoiceSearchIsCoherent
  OBVIOUS
<1>1. aliases["exemplars"] = aliases["centroids"]
  BY DEF VoiceInv, OneGeneration
<1>2. \A kind \in Kinds :
        aliases[kind] # {} => Stored(aliases[kind], kind) = PointsOf(aliases[kind], kind)
  BY DEF VoiceInv, OneGeneration, Complete, Whole, Kinds
<1>3. ASSUME NEW q \in Searchers
      PROVE LET me == searchers[q]
                others == {s \in Searchable(me.names["centroids"]) :
                             EpisodeOf[s[1]] # EpisodeOf[me.artifact]}
            IN /\ me.step # "inconsistent"
               /\ me.step = "answered" /\ Excerpts[me.artifact][me.speaker] > 0 =>
                    /\ me.candidates \subseteq others
                    /\ me.candidates = others \/ Cardinality(me.candidates) = HitLimit
                    /\ \A s, t \in me.candidates :
                         EpisodeOf[s[1]] = EpisodeOf[t[1]] => s[1] = t[1]
  <2>1. PICK me : me = searchers[q]
    OBVIOUS
  <2>2. me \in VoiceSearch /\ SearchFits(me)
    BY <2>1, VoiceActors
  <2>3. ASSUME me.step = "answered", Excerpts[me.artifact][me.speaker] > 0
        PROVE  /\ me.candidates \subseteq Others(me)
               /\ me.candidates = Others(me) \/ Cardinality(me.candidates) = HitLimit
               /\ \A s, t \in me.candidates :
                    EpisodeOf[s[1]] = EpisodeOf[t[1]] => s[1] = t[1]
    <3>1. PICK g : g = me.names["centroids"]
      OBVIOUS
    <3>2. Complete(g) /\ g \in SUBSET Artifacts
      BY <2>2, <2>3, <3>1 DEF SearchFits, OneGeneration, VoiceSearch, Names, Kinds
    <3>3. me.hits = {} /\ me.hits \union me.candidates = me.candidates
      BY <2>2, <2>3 DEF SearchFits
    <3>4. /\ me.candidates \subseteq Others(me)
          /\ Cardinality(me.candidates) = Answers(Cardinality(Others(me)))
      BY <2>2, <2>3, <3>3 DEF SearchFits
    <3>5. me.candidates = Others(me) \/ Cardinality(me.candidates) = HitLimit
      BY <2>2, <3>4, OthersAre, FS_Subset DEF Answers
    <3>6. \A s \in me.candidates : s[1] \in g
      BY <2>2, <3>1, <3>2, <3>4, OthersAre, SpeakersWithin
    <3> QED  BY <3>2, <3>4, <3>5, <3>6 DEF Complete, Buildable
  <2> QED  BY <2>1, <2>2, <2>3 DEF SearchFits, Others
<1> QED  BY <1>1, <1>2, <1>3 DEF VoiceSearchIsCoherent

(* Whatever builds race, fail or start again, and whenever the aliases     *)
(* move: no search finds its collections at odds, and an answer is of one  *)
(* complete generation, as many other episodes' speakers as the limit      *)
(* allows (build_voice_index, VoiceSearchService.search).                  *)
THEOREM VoicesCoherent == VoiceSpec => []VoiceSearchIsCoherent
<1> QED  BY VoiceBegin, VoiceStep, VoiceSuffices, PTL DEF VoiceSpec

-----------------------------------------------------------------------------
(*                              Text index                                 *)
(*                                                                         *)
(* SearchIsOneEdition is about the committed database; a transaction goes  *)
(* through databases that break it.  IndexInv says what every database is  *)
(* that a transaction can commit or go on from, and what the transaction   *)
(* of each step may have left out so far: only the other episodes hold one *)
(* edition while the chunks of one are inserted.                           *)

IndexSteps == {"idle", "look", "record", "recorded", "insert", "fence", "pointer", "publish"}

IndexWriter == [step : IndexSteps, item : Editions \union Generations \union {<<>>}]

Edited == UNION {Chunks(e) : e \in Editions}

(* The full-text rows of some chunks, each once.                           *)
TextOf(chunks) == [x \in {c.chunk : c \in chunks} |-> 1]

Database(chunks) ==
  [artifacts : SUBSET {[artifact |-> e.artifact, manifest |-> e.manifest] : e \in Editions},
   chunks : {chunks}, fts : {TextOf(chunks)}, generations : SUBSET Generations,
   pointer : {"none"} \union {g.id : g \in Generations}]

Recorded(d, e) == \E r \in d.artifacts : r.artifact = e.artifact /\ r.manifest = e.manifest

DatabaseFits(d) ==
  /\ d \in Database(d.chunks) /\ d.chunks \subseteq Edited
  /\ \A r, s \in d.artifacts : r.artifact = s.artifact => r = s
  /\ \A c \in d.chunks : \E e \in Editions : Recorded(d, e) /\ c \in Chunks(e)
  /\ d.pointer # "none" => \E g \in d.generations : g.id = d.pointer

HoldsOne(d, episode) ==
  \/ RowsOf(d, episode) = {}
  \/ \E e \in Editions :
       Recorded(d, e) /\ e.episode = episode /\ RowsOf(d, episode) = Chunks(e)

(* What a process is about, and what its transaction has done so far.      *)
WriterKnows(d, m) ==
  /\ m.step \in {"look", "record", "recorded", "insert"} => m.item \in Editions
  /\ m.step \in {"fence", "pointer", "publish"} => m.item \in Generations
  /\ m.step \in {"recorded", "insert"} => Recorded(d, m.item)

Writes(m) == m.step \in {"insert", "pointer", "publish"}

DraftOf(d, m) ==
  /\ m.step = "insert" =>
       /\ \A episode \in Episodes \ {m.item.episode} : HoldsOne(d, episode)
       /\ RowsOf(d, m.item.episode) \subseteq Chunks(m.item)
  /\ m.step \in {"pointer", "publish"} =>
       /\ \A episode \in Episodes : HoldsOne(d, episode)
       /\ m.item \in d.generations

IndexInv ==
  /\ writers \in [Indexers \union Publishers -> IndexWriter]
  /\ DatabaseFits(db) /\ \A episode \in Episodes : HoldsOne(db, episode)
  /\ \A w \in Indexers \union Publishers :
       /\ WriterKnows(db, writers[w])
       /\ draft.by = w <=> Writes(writers[w])
       /\ draft.by = w => DraftOf(draft.db, writers[w])
  /\ draft = Nobody \/ /\ draft.by \in Indexers \union Publishers
                       /\ DatabaseFits(draft.db) /\ draft.db.artifacts = db.artifacts

-----------------------------------------------------------------------------
(* Chunks and rows *)

LEMMA ChunkMember ==
  ASSUME NEW e, NEW c
  PROVE  c \in Chunks(e) <=>
           \E n \in 1 .. ChunkCount[e.artifact] :
             c = [chunk |-> <<e.artifact, n>>, artifact |-> e.artifact, episode |-> e.episode]
BY Zenon DEF Chunks

LEMMA ChunkIs ==
  ASSUME NEW e, NEW c \in Chunks(e)
  PROVE  c.episode = e.episode /\ c.artifact = e.artifact /\ c.chunk[1] = e.artifact
<1>1. PICK n \in 1 .. ChunkCount[e.artifact] :
        c = [chunk |-> <<e.artifact, n>>, artifact |-> e.artifact, episode |-> e.episode]
  BY ChunkMember
<1> QED  BY <1>1

LEMMA RowMember ==
  ASSUME NEW d, NEW episode, NEW c
  PROVE  c \in RowsOf(d, episode) <=> c \in d.chunks /\ c.episode = episode
BY DEF RowsOf

(* A recorded artifact has one edition, and an id names one of its chunks. *)
LEMMA OneRecorded ==
  ASSUME NEW d, DatabaseFits(d), NEW e \in Editions, NEW f \in Editions, Recorded(d, e),
         Recorded(d, f), e.artifact = f.artifact
  PROVE  e = f
<1>1. PICK r \in d.artifacts : r.artifact = e.artifact /\ r.manifest = e.manifest
  BY DEF Recorded
<1>2. PICK s \in d.artifacts : s.artifact = f.artifact /\ s.manifest = f.manifest
  BY DEF Recorded
<1>3. r = s
  BY <1>1, <1>2 DEF DatabaseFits
<1> QED  BY <1>1, <1>2, <1>3, IndexAssumption

LEMMA OneChunk ==
  ASSUME NEW e, NEW c \in Chunks(e), NEW b \in Chunks(e), c.chunk = b.chunk
  PROVE  c = b
<1>1. PICK n \in 1 .. ChunkCount[e.artifact] :
        c = [chunk |-> <<e.artifact, n>>, artifact |-> e.artifact, episode |-> e.episode]
  BY ChunkMember
<1>2. PICK m \in 1 .. ChunkCount[e.artifact] :
        b = [chunk |-> <<e.artifact, m>>, artifact |-> e.artifact, episode |-> e.episode]
  BY ChunkMember
<1>3. n = m
  BY <1>1, <1>2
<1> QED  BY <1>1, <1>2, <1>3

LEMMA OneRow ==
  ASSUME NEW d, DatabaseFits(d), NEW e \in Editions, Recorded(d, e),
         NEW c \in d.chunks \union Chunks(e), NEW b \in d.chunks \union Chunks(e),
         c.chunk = b.chunk
  PROVE  c = b
<1>1. PICK f \in Editions : Recorded(d, f) /\ c \in Chunks(f)
  BY DEF DatabaseFits
<1>2. PICK g \in Editions : Recorded(d, g) /\ b \in Chunks(g)
  BY DEF DatabaseFits
<1>3. f.artifact = g.artifact
  BY <1>1, <1>2, ChunkIs
<1>4. f = g
  BY <1>1, <1>2, <1>3, OneRecorded
<1> QED  BY <1>1, <1>2, <1>4, OneChunk

LEMMA TextIs ==
  ASSUME NEW R, NEW f, DOMAIN f = {c.chunk : c \in R}, \A x \in DOMAIN f : f[x] = 1,
         f = [x \in DOMAIN f |-> f[x]]
  PROVE  f = TextOf(R)
BY DEF TextOf

(* The two DELETEs take the rows of one episode, and their text.           *)
LEMMA ClearedFits ==
  ASSUME NEW d, DatabaseFits(d), NEW episode
  PROVE  /\ DatabaseFits(Cleared(d, episode))
         /\ Cleared(d, episode).artifacts = d.artifacts
         /\ Cleared(d, episode).chunks = d.chunks \ RowsOf(d, episode)
<1> DEFINE rest == d.chunks \ RowsOf(d, episode)
           gone == {c.chunk : c \in RowsOf(d, episode)}
           f == [c \in DOMAIN d.fts \ gone |-> d.fts[c]]
           d1 == [d EXCEPT !.fts = f]
           d2 == [d1 EXCEPT !.chunks = rest]
<1>1. d \in Database(d.chunks) /\ d.fts = TextOf(d.chunks)
  BY DEF DatabaseFits, Database
<1>2. DOMAIN d.fts = {c.chunk : c \in d.chunks} /\ \A x \in DOMAIN d.fts : d.fts[x] = 1
  BY <1>1 DEF TextOf
<1>3. \A c \in rest, b \in RowsOf(d, episode) : c.chunk # b.chunk
  <2>1. SUFFICES ASSUME NEW c \in rest, NEW b \in RowsOf(d, episode), c.chunk = b.chunk
                 PROVE  FALSE
    OBVIOUS
  <2>2. c \in d.chunks /\ b \in d.chunks
    BY RowMember
  <2>3. PICK e \in Editions : Recorded(d, e) /\ c \in Chunks(e)
    BY <2>2 DEF DatabaseFits
  <2>4. c = b
    BY <2>1, <2>2, <2>3, OneRow
  <2> QED  BY <2>4
<1>4. DOMAIN f = {c.chunk : c \in rest}
  <2>1. ASSUME NEW x PROVE x \in DOMAIN d.fts \ gone <=> x \in {c.chunk : c \in rest}
    <3>1. x \in gone <=> \E c \in RowsOf(d, episode) : x = c.chunk
      OBVIOUS
    <3>2. x \in {c.chunk : c \in rest} <=> \E c \in rest : x = c.chunk
      OBVIOUS
    <3>3. x \in DOMAIN d.fts <=> \E c \in d.chunks : x = c.chunk
      BY <1>2
    <3>4. \A c \in RowsOf(d, episode) : c \in d.chunks
      BY RowMember
    <3> QED  BY <1>3, <3>1, <3>2, <3>3, <3>4
  <2>2. DOMAIN f = DOMAIN d.fts \ gone
    OBVIOUS
  <2> QED  BY <2>1, <2>2
<1>5. f = TextOf(rest)
  <2>1. \A x \in DOMAIN f : f[x] = 1
    BY <1>2
  <2>2. f = [x \in DOMAIN f |-> f[x]]
    OBVIOUS
  <2> HIDE DEF f, rest
  <2> QED  BY <1>4, <2>1, <2>2, TextIs
<1>6. RowsOf(d1, episode) = RowsOf(d, episode) /\ d1.chunks = d.chunks
  BY <1>1 DEF RowsOf, Database
<1>7. WithoutText(d, episode) = d1
  BY DEF WithoutText
<1> HIDE DEF f, gone
<1>8. Cleared(d, episode) = d2
  BY <1>6, <1>7 DEF Cleared, WithoutChunks
<1> HIDE DEF rest
<1>9. /\ d2.chunks = rest /\ d2.fts = TextOf(rest) /\ d2.artifacts = d.artifacts
      /\ d2.generations = d.generations /\ d2.pointer = d.pointer /\ d2 \in Database(rest)
  BY <1>1, <1>5 DEF Database
<1> HIDE DEF d1, d2
<1>10. DatabaseFits(d2)
  <2>1. rest \subseteq d.chunks
    BY DEF rest
  <2> QED  BY <1>9, <2>1 DEF DatabaseFits, Recorded
<1> QED  BY <1>8, <1>9, <1>10 DEF rest

(* One more chunk of a recorded edition, with its text.                    *)
LEMMA InsertedFits ==
  ASSUME NEW d, DatabaseFits(d), NEW e \in Editions, Recorded(d, e),
         NEW c \in Chunks(e), c \notin d.chunks, NEW D, D = WithChunk(d, c)
  PROVE  DatabaseFits(D) /\ D.artifacts = d.artifacts /\ D.chunks = d.chunks \union {c}
<1> DEFINE more == d.chunks \union {c}
           n == IF c.chunk \in DOMAIN d.fts THEN d.fts[c.chunk] ELSE 0
           g == [x \in DOMAIN d.fts \union {c.chunk} |->
                   IF x = c.chunk THEN n + 1 ELSE d.fts[x]]
<1>0. D = [d EXCEPT !.chunks = d.chunks \union {c}, !.fts = g]
  BY DEF WithChunk
<1>1. d \in Database(d.chunks) /\ d.fts = TextOf(d.chunks)
  BY DEF DatabaseFits, Database
<1>2. DOMAIN d.fts = {b.chunk : b \in d.chunks} /\ \A x \in DOMAIN d.fts : d.fts[x] = 1
  BY <1>1 DEF TextOf
<1>3. n = 0
  <2>1. SUFFICES ASSUME c.chunk \in DOMAIN d.fts PROVE FALSE
    OBVIOUS
  <2>2. PICK b \in d.chunks : b.chunk = c.chunk
    BY <1>2, <2>1
  <2>3. b = c
    BY <2>2, OneRow
  <2> QED  BY <2>2, <2>3
<1>4. DOMAIN g = {b.chunk : b \in more}
  <2>1. DOMAIN g = DOMAIN d.fts \union {c.chunk}
    OBVIOUS
  <2> QED  BY <1>2, <2>1
<1>5. \A x \in DOMAIN g : g[x] = 1
  BY <1>2, <1>3
<1>6. g = TextOf(more)
  <2>1. PICK h : h = g
    OBVIOUS
  <2>2. DOMAIN h = {b.chunk : b \in more}
    BY <1>4, <2>1
  <2>3. \A x \in DOMAIN h : h[x] = 1
    BY <1>5, <2>1
  <2>4. h = [x \in DOMAIN h |-> h[x]]
    BY <2>1
  <2>5. h = TextOf(more)
    <3> HIDE DEF more
    <3> QED  BY <2>2, <2>3, <2>4, TextIs
  <2> QED  BY <2>1, <2>5
<1> HIDE DEF more, g
<1>7. /\ D.chunks = more /\ D.fts = TextOf(more) /\ D.artifacts = d.artifacts
      /\ D.generations = d.generations /\ D.pointer = d.pointer /\ D \in Database(more)
  BY <1>0, <1>1, <1>6 DEF Database, more
<1>8. more \subseteq Edited
  <2>1. c \in Edited
    BY DEF Edited
  <2> QED  BY <2>1 DEF DatabaseFits, more
<1>9. \A b \in more : \E f \in Editions : Recorded(d, f) /\ b \in Chunks(f)
  BY DEF DatabaseFits, more
<1>10. DatabaseFits(D)
  BY <1>7, <1>8, <1>9 DEF DatabaseFits, Recorded
<1> QED  BY <1>7, <1>10 DEF more

(* The chunk that is inserted next is one of those that are missing.       *)
LEMMA NextChunk ==
  ASSUME NEW e \in Editions, NEW missing \in SUBSET Chunks(e), missing # {}
  PROVE  (CHOOSE c \in missing : \A o \in missing : c.chunk[2] <= o.chunk[2]) \in missing
<1> DEFINE ordinals == {n \in Nat : \E c \in missing : c.chunk[2] = n}
<1>1. ASSUME NEW c \in missing PROVE c.chunk[2] \in Nat
  <2>1. PICK n \in 1 .. ChunkCount[e.artifact] :
          c = [chunk |-> <<e.artifact, n>>, artifact |-> e.artifact, episode |-> e.episode]
    BY ChunkMember
  <2>2. n \in Nat
    BY IndexAssumption
  <2> QED  BY <2>1, <2>2
<1>2. ordinals # {} /\ ordinals \subseteq Nat
  BY <1>1
<1>3. PICK n \in ordinals : \A m \in ordinals : ~(<<m, n>> \in OpToRel(<, Nat))
  <2> HIDE DEF ordinals
  <2> QED  BY <1>2, NatLessThanWellFounded, WFMin
<1>4. PICK c \in missing : c.chunk[2] = n
  BY DEF ordinals
<1>5. \A o \in missing : c.chunk[2] <= o.chunk[2]
  <2>1. SUFFICES ASSUME NEW o \in missing PROVE n <= o.chunk[2]
    BY <1>4
  <2>2. o.chunk[2] \in ordinals
    BY <1>1
  <2>3. ~(o.chunk[2] < n)
    BY <1>1, <1>3, <2>2 DEF OpToRel
  <2> QED  BY <1>1, <1>4, <2>3
<1> QED  BY <1>4, <1>5, Zenon

-----------------------------------------------------------------------------
(* What a database holds of the other episodes is as it was.               *)
LEMMA HoldsOneKept ==
  ASSUME NEW d, NEW D, NEW episode, HoldsOne(d, episode), d.artifacts \subseteq D.artifacts,
         RowsOf(D, episode) = RowsOf(d, episode)
  PROVE  HoldsOne(D, episode)
<1>1. \A e : Recorded(d, e) => Recorded(D, e)
  BY DEF Recorded
<1> QED  BY <1>1 DEF HoldsOne

LEMMA KnowsKept ==
  ASSUME NEW d, NEW D, d.artifacts \subseteq D.artifacts, NEW m, WriterKnows(d, m)
  PROVE  WriterKnows(D, m)
BY DEF WriterKnows, Recorded

(* A step that touches neither the database nor a transaction.             *)
LEMMA QuietKeeps ==
  ASSUME IndexInv, NEW w \in Indexers \union Publishers, NEW m \in IndexWriter,
         WriterKnows(db, m), draft.by = w <=> Writes(m), draft.by # w,
         writers' = [writers EXCEPT ![w] = m], UNCHANGED <<db, draft>>
  PROVE  IndexInv'
<1>1. writers' \in [Indexers \union Publishers -> IndexWriter]
  BY DEF IndexInv
<1>2. ASSUME NEW v \in Indexers \union Publishers
      PROVE  /\ WriterKnows(db, writers'[v])
             /\ draft.by = v <=> Writes(writers'[v])
             /\ draft.by = v => DraftOf(draft.db, writers'[v])
  <2>1. CASE v = w
    BY <2>1 DEF IndexInv
  <2>2. CASE v # w
    BY <2>2 DEF IndexInv
  <2> QED  BY <2>1, <2>2
<1> QED  BY <1>1, <1>2 DEF IndexInv

(* A write of the transaction of w, which it opens or has open.            *)
LEMMA WriteKeeps ==
  ASSUME IndexInv, NEW w \in Indexers \union Publishers, NEW m \in IndexWriter,
         draft = Nobody \/ draft.by = w, WriterKnows(db, m), Writes(m),
         writers' = [writers EXCEPT ![w] = m], db' = db,
         NEW D, draft' = [by |-> w, db |-> D], DatabaseFits(D), D.artifacts = db.artifacts,
         DraftOf(D, m)
  PROVE  IndexInv'
<1>1. writers' \in [Indexers \union Publishers -> IndexWriter]
  BY DEF IndexInv
<1>2. draft'.by = w /\ draft'.db = D
  OBVIOUS
<1>3. ASSUME NEW v \in Indexers \union Publishers
      PROVE  /\ WriterKnows(db, writers'[v])
             /\ draft'.by = v <=> Writes(writers'[v])
             /\ draft'.by = v => DraftOf(draft'.db, writers'[v])
  <2>1. CASE v = w
    BY <1>2, <2>1 DEF IndexInv
  <2>2. CASE v # w
    <3>1. draft.by # v
      BY <2>2, IndexAssumption DEF Nobody
    <3> QED  BY <1>2, <2>2, <3>1 DEF IndexInv
  <2> QED  BY <2>1, <2>2
<1> QED  BY <1>1, <1>2, <1>3 DEF IndexInv

(* A process is done, and its transaction, if any, is gone.                *)
LEMMA WaitingIs ==
  /\ Waiting \in IndexWriter /\ ~Writes(Waiting)
  /\ \A d : WriterKnows(d, Waiting)
BY DEF Waiting, IndexWriter, IndexSteps, Writes, WriterKnows

LEMMA WritersAre ==
  ASSUME IndexInv, NEW w \in Indexers \union Publishers
  PROVE  /\ writers[w] \in IndexWriter /\ WriterKnows(db, writers[w])
         /\ draft.by = w <=> Writes(writers[w])
         /\ draft.by = w => /\ DraftOf(draft.db, writers[w]) /\ DatabaseFits(draft.db)
                            /\ draft.db.artifacts = db.artifacts
BY IndexAssumption DEF IndexInv, Nobody

LEMMA EndKeeps ==
  ASSUME IndexInv, NEW w \in Indexers \union Publishers, Finish(w), db' = db,
         draft' = IF draft.by = w THEN Nobody ELSE draft
  PROVE  IndexInv'
<1>1. writers' \in [Indexers \union Publishers -> IndexWriter]
  BY WaitingIs DEF IndexInv, Finish
<1>2. ASSUME NEW v \in Indexers \union Publishers
      PROVE  /\ WriterKnows(db, writers'[v])
             /\ draft'.by = v <=> Writes(writers'[v])
             /\ draft'.by = v => DraftOf(draft'.db, writers'[v])
  <2>1. CASE v = w
    <3>1. writers'[v] = Waiting
      BY <2>1 DEF IndexInv, Finish
    <3>2. draft'.by # v
      BY <2>1, IndexAssumption DEF Nobody
    <3> QED  BY <3>1, <3>2, WaitingIs
  <2>2. CASE v # w
    <3>1. writers'[v] = writers[v]
      BY <2>2 DEF IndexInv, Finish
    <3>2. CASE draft.by = w
      <4>1. draft'.by # v /\ draft.by # v
        BY <2>2, <3>2, IndexAssumption DEF Nobody
      <4> QED  BY <3>1, <4>1, WritersAre
    <3>3. CASE draft.by # w
      BY <3>1, <3>3, WritersAre
    <3> QED  BY <3>2, <3>3
  <2> QED  BY <2>1, <2>2
<1>3. draft' = Nobody \/ draft' = draft
  OBVIOUS
<1> QED  BY <1>1, <1>2, <1>3 DEF IndexInv

(* A commit: the draft holds one edition of every episode.                 *)
LEMMA CommitKeeps ==
  ASSUME IndexInv, NEW w \in Indexers \union Publishers, draft.by = w,
         \A episode \in Episodes : HoldsOne(draft.db, episode), db' = draft.db, draft' = Nobody,
         NEW m \in IndexWriter, WriterKnows(db, m), ~Writes(m),
         writers' = [writers EXCEPT ![w] = m]
  PROVE  IndexInv'
<1>1. writers' \in [Indexers \union Publishers -> IndexWriter]
  BY DEF IndexInv
<1>2. DatabaseFits(draft.db) /\ draft.db.artifacts = db.artifacts
  BY WritersAre
<1>3. ASSUME NEW v \in Indexers \union Publishers
      PROVE  /\ WriterKnows(draft.db, writers'[v])
             /\ draft'.by = v <=> Writes(writers'[v])
             /\ draft'.by = v => DraftOf(draft'.db, writers'[v])
  <2>1. draft'.by # v
    BY IndexAssumption DEF Nobody
  <2>2. CASE v = w
    BY <1>2, <2>1, <2>2, KnowsKept DEF IndexInv
  <2>3. CASE v # w
    BY <1>2, <2>1, <2>3, KnowsKept, WritersAre DEF IndexInv
  <2> QED  BY <2>2, <2>3
<1> QED  BY <1>1, <1>2, <1>3 DEF IndexInv

-----------------------------------------------------------------------------
(* The steps *)

LEMMA StartOperationKeeps ==
  ASSUME IndexInv, NEW w \in Indexers \union Publishers, NEW step, NEW item,
         \/ step = "look" /\ item \in Editions
         \/ step = "fence" /\ item \in Generations,
         StartOperation(w, step, item)
  PROVE  IndexInv'
<1>1. PICK m : m = [step |-> step, item |-> item]
  OBVIOUS
<1>2. m \in IndexWriter /\ WriterKnows(db, m) /\ ~Writes(m)
  BY <1>1 DEF IndexWriter, IndexSteps, WriterKnows, Writes
<1>3. writers' = [writers EXCEPT ![w] = m] /\ UNCHANGED <<db, draft>>
  BY <1>1 DEF StartOperation
<1>4. draft.by # w
  BY WritersAre DEF StartOperation, Writes
<1> QED  BY <1>2, <1>3, <1>4, QuietKeeps

(* An indexer goes on, before its transaction.                             *)
LEMMA GoOnKeeps ==
  ASSUME IndexInv, NEW w \in Indexers \union Publishers, writers[w].step \in {"look", "record"},
         NEW step \in {"record", "recorded"}, Writer(w, step), UNCHANGED <<db, draft>>,
         step = "recorded" => Recorded(db, writers[w].item)
  PROVE  IndexInv'
<1>1. writers[w] \in IndexWriter /\ WriterKnows(db, writers[w]) /\ draft.by # w
  BY WritersAre DEF Writes
<1>2. PICK m : m = [writers[w] EXCEPT !.step = step]
  OBVIOUS
<1>3. m \in IndexWriter /\ m.step = step /\ m.item = writers[w].item
  BY <1>1, <1>2 DEF IndexWriter, IndexSteps
<1>4. WriterKnows(db, m) /\ ~Writes(m)
  BY <1>1, <1>3 DEF WriterKnows, Writes
<1>5. writers' = [writers EXCEPT ![w] = m]
  BY <1>2 DEF Writer
<1> QED  BY <1>1, <1>3, <1>4, <1>5, QuietKeeps

LEMMA QuietEndKeeps ==
  ASSUME IndexInv, NEW w \in Indexers \union Publishers, draft.by # w, Finish(w),
         UNCHANGED <<db, draft>>
  PROVE  IndexInv'
BY EndKeeps

LEMMA LookUpArtifactKeeps ==
  ASSUME IndexInv, NEW w \in Indexers, LookUpArtifact(w)
  PROVE  IndexInv'
<1>1. draft.by # w
  BY WritersAre DEF LookUpArtifact, Writes
<1>2. /\ writers[w].step = "look" /\ UNCHANGED <<db, draft>>
      /\ \/ Writer(w, "record")
         \/ Writer(w, "recorded") /\ Recorded(db, writers[w].item)
         \/ Finish(w)
  BY DEF LookUpArtifact, Recorded
<1> QED  BY <1>1, <1>2, GoOnKeeps, QuietEndKeeps

(* A new artifact: no transaction is open, and no database is other.       *)
LEMMA RecordArtifactKeeps ==
  ASSUME IndexInv, NEW w \in Indexers, RecordArtifact(w)
  PROVE  IndexInv'
<1>1. /\ writers[w] \in IndexWriter /\ WriterKnows(db, writers[w]) /\ draft.by # w
      /\ writers[w].step = "record" /\ draft = Nobody /\ draft' = draft
  BY WritersAre DEF RecordArtifact, Writes
<1>2. PICK e \in Editions : e = writers[w].item
  BY <1>1 DEF WriterKnows
<1>3. CASE \E r \in db.artifacts : r.artifact = e.artifact
  BY <1>1, <1>2, <1>3, QuietEndKeeps DEF RecordArtifact
<1>4. CASE ~\E r \in db.artifacts : r.artifact = e.artifact
  <2>1. PICK r : r = [artifact |-> e.artifact, manifest |-> e.manifest]
    OBVIOUS
  <2>2. PICK D : D = [db EXCEPT !.artifacts = db.artifacts \union {r}]
    OBVIOUS
  <2>3. db' = D /\ Writer(w, "recorded")
    BY <1>1, <1>2, <1>4, <2>1, <2>2 DEF RecordArtifact
  <2>4. DatabaseFits(db) /\ db \in Database(db.chunks)
    BY DEF IndexInv, DatabaseFits
  <2>5. r \in {[artifact |-> f.artifact, manifest |-> f.manifest] : f \in Editions}
    BY <2>1
  <2>6. /\ D.artifacts = db.artifacts \union {r} /\ D.chunks = db.chunks
        /\ D.generations = db.generations /\ D.pointer = db.pointer /\ D \in Database(D.chunks)
    BY <2>2, <2>4, <2>5 DEF Database
  <2>7. DatabaseFits(D)
    BY <1>4, <2>1, <2>4, <2>6 DEF DatabaseFits, Recorded
  <2>8. ASSUME NEW episode \in Episodes PROVE HoldsOne(D, episode)
    <3>1. HoldsOne(db, episode) /\ RowsOf(D, episode) = RowsOf(db, episode)
      BY <2>6 DEF IndexInv, RowsOf
    <3> QED  BY <2>6, <3>1, HoldsOneKept
  <2>9. PICK m : m = [writers[w] EXCEPT !.step = "recorded"]
    OBVIOUS
  <2>10. /\ m \in IndexWriter /\ m.step = "recorded" /\ m.item = e
         /\ writers' = [writers EXCEPT ![w] = m]
    BY <1>1, <1>2, <2>3, <2>9 DEF IndexWriter, IndexSteps, Writer
  <2>11. Recorded(D, e)
    BY <2>1, <2>6 DEF Recorded
  <2>12. WriterKnows(D, m) /\ ~Writes(m)
    BY <2>10, <2>11 DEF WriterKnows, Writes
  <2>13. ASSUME NEW v \in Indexers \union Publishers
         PROVE  /\ WriterKnows(D, writers'[v])
                /\ draft'.by = v <=> Writes(writers'[v])
                /\ draft'.by = v => DraftOf(draft'.db, writers'[v])
    <3>1. draft'.by # v
      BY <1>1, IndexAssumption DEF Nobody
    <3>2. CASE v = w
      BY <2>10, <2>12, <3>1, <3>2 DEF IndexInv
    <3>3. CASE v # w
      <4>1. writers'[v] = writers[v]
        BY <2>10, <3>3 DEF IndexInv
      <4>2. WriterKnows(D, writers[v])
        BY <2>6, WritersAre, KnowsKept
      <4> QED  BY <1>1, <3>1, <4>1, <4>2, WritersAre
    <3> QED  BY <3>2, <3>3
  <2>14. writers' \in [Indexers \union Publishers -> IndexWriter]
    BY <2>10 DEF IndexInv
  <2> QED  BY <1>1, <2>3, <2>7, <2>8, <2>13, <2>14 DEF IndexInv
<1> QED  BY <1>3, <1>4

LEMMA RefuseSourceKeeps ==
  ASSUME IndexInv, NEW w \in Indexers, RefuseSource(w)
  PROVE  IndexInv'
BY WritersAre, QuietEndKeeps DEF RefuseSource, Writes

LEMMA DeleteRowsKeeps ==
  ASSUME IndexInv, NEW w \in Indexers, writers[w].step = "recorded", DeleteRows(w)
  PROVE  IndexInv'
<1>1. /\ writers[w] \in IndexWriter /\ WriterKnows(db, writers[w]) /\ draft.by # w
  BY WritersAre DEF Writes
<1>2. PICK e \in Editions : e = writers[w].item
  BY <1>1 DEF WriterKnows
<1>3. Current(w) = db
  BY <1>1 DEF Current
<1>4. PICK D : D = Cleared(db, e.episode)
  OBVIOUS
<1>5. /\ draft = Nobody /\ draft' = [by |-> w, db |-> D] /\ Writer(w, "insert")
      /\ db' = db
  BY <1>1, <1>2, <1>3, <1>4 DEF DeleteRows, Write
<1>6. DatabaseFits(D) /\ D.artifacts = db.artifacts /\ D.chunks = db.chunks \ RowsOf(db, e.episode)
  BY <1>4, ClearedFits DEF IndexInv
<1>7. PICK m : m = [writers[w] EXCEPT !.step = "insert"]
  OBVIOUS
<1>8. /\ m \in IndexWriter /\ m.step = "insert" /\ m.item = e
      /\ writers' = [writers EXCEPT ![w] = m]
  BY <1>1, <1>2, <1>5, <1>7 DEF IndexWriter, IndexSteps, Writer
<1>9. WriterKnows(db, m) /\ Writes(m)
  BY <1>1, <1>2, <1>8 DEF WriterKnows, Writes
<1>10. RowsOf(D, e.episode) = {}
  BY <1>6 DEF RowsOf
<1>11. ASSUME NEW episode \in Episodes \ {e.episode} PROVE HoldsOne(D, episode)
  <2>1. RowsOf(D, episode) = RowsOf(db, episode)
    BY <1>6 DEF RowsOf
  <2> QED  BY <1>6, <2>1, HoldsOneKept DEF IndexInv
<1>12. DraftOf(D, m)
  BY <1>8, <1>10, <1>11 DEF DraftOf
<1> QED  BY <1>5, <1>6, <1>8, <1>9, <1>12, WriteKeeps

LEMMA InsertChunkKeeps ==
  ASSUME IndexInv, NEW w \in Indexers, writers[w].step = "insert", InsertChunk(w)
  PROVE  IndexInv'
<1>1. /\ writers[w] \in IndexWriter /\ WriterKnows(db, writers[w]) /\ draft.by = w
      /\ DraftOf(draft.db, writers[w]) /\ DatabaseFits(draft.db)
      /\ draft.db.artifacts = db.artifacts
  BY WritersAre DEF Writes
<1>2. PICK e \in Editions : e = writers[w].item
  BY <1>1 DEF WriterKnows
<1> DEFINE d == Current(w)
           missing == Chunks(writers[w].item) \ d.chunks
           c == CHOOSE c \in missing : \A o \in missing : c.chunk[2] <= o.chunk[2]
           D == WithChunk(d, c)
<1>3. missing # {} /\ Write(w, "insert", "insert", D)
  BY DEF InsertChunk
<1>4. d = draft.db
  BY <1>1 DEF Current
<1>5. missing = Chunks(e) \ d.chunks
  BY <1>2
<1>6. c \in missing
  <2>1. missing \in SUBSET Chunks(e)
    BY <1>5
  <2> HIDE DEF missing
  <2> QED  BY <1>3, <2>1, NextChunk
<1> HIDE DEF c
<1>7. D = WithChunk(d, c)
  OBVIOUS
<1> HIDE DEF D, missing, d
<1>10. Write(w, "insert", "insert", D)
  BY <1>3
<1>11. c \in Chunks(e) /\ c \notin d.chunks
  BY <1>5, <1>6
<1>12. DatabaseFits(d) /\ Recorded(d, e)
  BY <1>1, <1>2, <1>4 DEF WriterKnows, Recorded
<1>13. DatabaseFits(D) /\ D.artifacts = d.artifacts /\ D.chunks = d.chunks \union {c}
  BY <1>7, <1>11, <1>12, InsertedFits
<1>14. PICK m : m = [writers[w] EXCEPT !.step = "insert"]
  OBVIOUS
<1>15. /\ m \in IndexWriter /\ m.step = "insert" /\ m.item = e
       /\ writers' = [writers EXCEPT ![w] = m]
  BY <1>1, <1>2, <1>10, <1>14 DEF IndexWriter, IndexSteps, Write, Writer
<1>16. WriterKnows(db, m) /\ Writes(m)
  BY <1>1, <1>2, <1>15 DEF WriterKnows, Writes
<1>17. /\ \A episode \in Episodes \ {e.episode} : HoldsOne(d, episode)
       /\ RowsOf(d, e.episode) \subseteq Chunks(e)
  BY <1>1, <1>2, <1>4 DEF DraftOf
<1>18. c \in Chunks(e) /\ c.episode = e.episode
  BY <1>11, ChunkIs
<1>19. RowsOf(D, e.episode) \subseteq Chunks(e)
  BY <1>13, <1>17, <1>18 DEF RowsOf
<1>20. ASSUME NEW episode \in Episodes \ {e.episode} PROVE HoldsOne(D, episode)
  <2>1. RowsOf(D, episode) = RowsOf(d, episode)
    BY <1>13, <1>18 DEF RowsOf
  <2> QED  BY <1>13, <1>17, <2>1, HoldsOneKept
<1>21. DraftOf(D, m)
  BY <1>15, <1>19, <1>20 DEF DraftOf
<1> QED  BY <1>1, <1>4, <1>10, <1>13, <1>15, <1>16, <1>21, WriteKeeps DEF Write

LEMMA CommitChunksKeeps ==
  ASSUME IndexInv, NEW w \in Indexers, CommitChunks(w)
  PROVE  IndexInv'
<1>1. /\ writers[w] \in IndexWriter /\ WriterKnows(db, writers[w]) /\ draft.by = w
      /\ DraftOf(draft.db, writers[w]) /\ draft.db.artifacts = db.artifacts
      /\ writers[w].step = "insert"
  BY WritersAre DEF Writes, CommitChunks
<1>2. PICK e \in Editions : e = writers[w].item
  BY <1>1 DEF WriterKnows
<1>3. Recorded(draft.db, e)
  BY <1>1, <1>2 DEF WriterKnows, Recorded
<1>4. RowsOf(draft.db, e.episode) = Chunks(e)
  <2>1. Chunks(e) \subseteq draft.db.chunks /\ \A c \in Chunks(e) : c.episode = e.episode
    BY <1>2, ChunkIs DEF CommitChunks
  <2> QED  BY <1>1, <1>2, <2>1 DEF DraftOf, RowsOf
<1>5. \A episode \in Episodes : HoldsOne(draft.db, episode)
  BY <1>1, <1>2, <1>3, <1>4 DEF DraftOf, HoldsOne
<1>6. PICK m : m = [writers[w] EXCEPT !.step = "idle"]
  OBVIOUS
<1>7. /\ m \in IndexWriter /\ m.step = "idle" /\ writers' = [writers EXCEPT ![w] = m]
      /\ db' = draft.db /\ draft' = Nobody
  BY <1>1, <1>6 DEF IndexWriter, IndexSteps, CommitChunks, Commit, Writer
<1> QED  BY <1>1, <1>5, <1>7, CommitKeeps DEF WriterKnows, Writes

LEMMA InsertGenerationKeeps ==
  ASSUME IndexInv, NEW w \in Publishers, writers[w].step = "fence", InsertGeneration(w)
  PROVE  IndexInv'
<1>1. writers[w] \in IndexWriter /\ WriterKnows(db, writers[w]) /\ draft.by # w
  BY WritersAre DEF Writes
<1>2. PICK g \in Generations : g = writers[w].item
  BY <1>1 DEF WriterKnows
<1>3. PICK D : D = [db EXCEPT !.generations = db.generations \union {g}]
  OBVIOUS
<1>4. Current(w) = db
  BY <1>1 DEF Current
<1>5. \/ Finish(w) /\ UNCHANGED <<db, draft>>
      \/ Write(w, "fence", "pointer", D)
  BY <1>2, <1>3, <1>4 DEF InsertGeneration
<1>6. CASE Write(w, "fence", "pointer", D)
  <2>1. DatabaseFits(db) /\ db \in Database(db.chunks)
    BY DEF IndexInv, DatabaseFits
  <2>2. /\ D.artifacts = db.artifacts /\ D.chunks = db.chunks
        /\ D.generations = db.generations \union {g} /\ D.pointer = db.pointer
        /\ D \in Database(D.chunks)
    BY <1>3, <2>1 DEF Database
  <2>3. DatabaseFits(D)
    BY <2>1, <2>2 DEF DatabaseFits, Recorded
  <2>4. ASSUME NEW episode \in Episodes PROVE HoldsOne(D, episode)
    <3>1. HoldsOne(db, episode) /\ RowsOf(D, episode) = RowsOf(db, episode)
      BY <2>2 DEF IndexInv, RowsOf
    <3> QED  BY <2>2, <3>1, HoldsOneKept
  <2>5. PICK m : m = [writers[w] EXCEPT !.step = "pointer"]
    OBVIOUS
  <2>6. /\ m \in IndexWriter /\ m.step = "pointer" /\ m.item = g
        /\ writers' = [writers EXCEPT ![w] = m]
    BY <1>1, <1>2, <1>6, <2>5 DEF IndexWriter, IndexSteps, Write, Writer
  <2>7. WriterKnows(db, m) /\ Writes(m) /\ DraftOf(D, m)
    BY <2>2, <2>4, <2>6 DEF WriterKnows, Writes, DraftOf
  <2> QED  BY <1>6, <2>2, <2>3, <2>6, <2>7, WriteKeeps DEF Write
<1> QED  BY <1>1, <1>5, <1>6, QuietEndKeeps

LEMMA MovePointerKeeps ==
  ASSUME IndexInv, NEW w \in Publishers, writers[w].step = "pointer", MovePointer(w)
  PROVE  IndexInv'
<1>1. /\ writers[w] \in IndexWriter /\ WriterKnows(db, writers[w]) /\ draft.by = w
      /\ DraftOf(draft.db, writers[w]) /\ DatabaseFits(draft.db)
      /\ draft.db.artifacts = db.artifacts
  BY WritersAre DEF Writes
<1>2. PICK g \in Generations : g = writers[w].item
  BY <1>1 DEF WriterKnows
<1>3. PICK d : d = draft.db
  OBVIOUS
<1>4. PICK D : D = [d EXCEPT !.pointer = g.id]
  OBVIOUS
<1>5. Write(w, "pointer", "publish", D)
  BY <1>1, <1>2, <1>3, <1>4 DEF MovePointer, Current
<1>6. DatabaseFits(d) /\ d \in Database(d.chunks) /\ g \in d.generations
  BY <1>1, <1>2, <1>3 DEF DatabaseFits, DraftOf
<1>7. /\ D.artifacts = d.artifacts /\ D.chunks = d.chunks
      /\ D.generations = d.generations /\ D.pointer = g.id /\ D \in Database(D.chunks)
  BY <1>4, <1>6 DEF Database
<1>8. DatabaseFits(D)
  BY <1>6, <1>7 DEF DatabaseFits, Recorded
<1>9. ASSUME NEW episode \in Episodes PROVE HoldsOne(D, episode)
  <2>1. HoldsOne(d, episode) /\ RowsOf(D, episode) = RowsOf(d, episode)
    BY <1>1, <1>3, <1>7 DEF DraftOf, RowsOf
  <2> QED  BY <1>7, <2>1, HoldsOneKept
<1>10. PICK m : m = [writers[w] EXCEPT !.step = "publish"]
  OBVIOUS
<1>11. /\ m \in IndexWriter /\ m.step = "publish" /\ m.item = g
       /\ writers' = [writers EXCEPT ![w] = m]
  BY <1>1, <1>2, <1>5, <1>10 DEF IndexWriter, IndexSteps, Write, Writer
<1>12. WriterKnows(db, m) /\ Writes(m) /\ DraftOf(D, m)
  BY <1>6, <1>7, <1>9, <1>11 DEF WriterKnows, Writes, DraftOf
<1> QED  BY <1>1, <1>3, <1>5, <1>7, <1>8, <1>11, <1>12, WriteKeeps DEF Write

LEMMA CommitGenerationKeeps ==
  ASSUME IndexInv, NEW w \in Publishers, CommitGeneration(w)
  PROVE  IndexInv'
<1>1. /\ writers[w] \in IndexWriter /\ draft.by = w /\ DraftOf(draft.db, writers[w])
      /\ writers[w].step = "publish"
  BY WritersAre DEF Writes, CommitGeneration, Commit
<1>2. PICK m : m = [writers[w] EXCEPT !.step = "idle"]
  OBVIOUS
<1>3. /\ m \in IndexWriter /\ m.step = "idle" /\ writers' = [writers EXCEPT ![w] = m]
      /\ db' = draft.db /\ draft' = Nobody
  BY <1>1, <1>2 DEF IndexWriter, IndexSteps, CommitGeneration, Commit, Writer
<1> QED  BY <1>1, <1>3, CommitKeeps DEF WriterKnows, Writes, DraftOf

LEMMA AbandonKeeps ==
  ASSUME IndexInv, NEW w \in Indexers \union Publishers, Abandon(w)
  PROVE  IndexInv'
BY EndKeeps DEF Abandon

LEMMA IndexBegin == IndexInit => IndexInv
<1> SUFFICES ASSUME IndexInit PROVE IndexInv
  OBVIOUS
<1>1. /\ db.artifacts = {} /\ db.chunks = {} /\ db.fts = [c \in {} |-> 0]
      /\ db.generations = {} /\ db.pointer = "none"
  BY DEF IndexInit, EmptyDatabase
<1>2. db.fts = TextOf({})
  BY <1>1 DEF TextOf
<1>3. db \in Database({})
  BY <1>2 DEF IndexInit, EmptyDatabase, Database
<1>4. DatabaseFits(db)
  BY <1>1, <1>3 DEF DatabaseFits
<1>5. \A episode : HoldsOne(db, episode)
  BY <1>1 DEF HoldsOne, RowsOf
<1>6. \A w \in Indexers \union Publishers : writers[w] = Waiting
  BY DEF IndexInit
<1>7. draft = Nobody /\ \A w \in Indexers \union Publishers : draft.by # w
  BY IndexAssumption DEF IndexInit, Nobody
<1>8. writers \in [Indexers \union Publishers -> IndexWriter]
  BY WaitingIs DEF IndexInit
<1> QED  BY <1>4, <1>5, <1>6, <1>7, <1>8, WaitingIs DEF IndexInv

LEMMA IndexStep == IndexInv /\ [IndexNext]_index => IndexInv'
<1> SUFFICES ASSUME IndexInv, [IndexNext]_index PROVE IndexInv'
  OBVIOUS
<1>1. CASE UNCHANGED index
  BY <1>1 DEF index, IndexInv
<1>2. ASSUME NEW w \in Indexers,
             \/ \E e \in Editions : StartOperation(w, "look", e)
             \/ LookUpArtifact(w)
             \/ RecordArtifact(w)
             \/ RefuseSource(w)
             \/ writers[w].step = "recorded" /\ DeleteRows(w)
             \/ writers[w].step = "insert" /\ InsertChunk(w)
             \/ CommitChunks(w)
             \/ Abandon(w)
      PROVE  IndexInv'
  BY <1>2, StartOperationKeeps, LookUpArtifactKeeps, RecordArtifactKeeps, RefuseSourceKeeps,
     DeleteRowsKeeps, InsertChunkKeeps, CommitChunksKeeps, AbandonKeeps
<1>3. ASSUME NEW w \in Publishers,
             \/ \E g \in Generations : StartOperation(w, "fence", g)
             \/ RefuseFence(w)
             \/ writers[w].step = "fence" /\ InsertGeneration(w)
             \/ writers[w].step = "pointer" /\ MovePointer(w)
             \/ CommitGeneration(w)
             \/ Abandon(w)
      PROVE  IndexInv'
  <2>1. CASE RefuseFence(w)
    BY <2>1, WritersAre, QuietEndKeeps DEF RefuseFence, Writes
  <2> QED
    BY <1>3, <2>1, StartOperationKeeps, InsertGenerationKeeps, MovePointerKeeps,
       CommitGenerationKeeps, AbandonKeeps
<1> QED  BY <1>1, <1>2, <1>3 DEF IndexNext

(* The invariant is what a search of an episode relies on.                 *)
LEMMA IndexSuffices == IndexInv => SearchIsOneEdition
<1> SUFFICES ASSUME IndexInv PROVE SearchIsOneEdition
  OBVIOUS
<1>1. DatabaseFits(db) /\ db.fts = TextOf(db.chunks)
  BY DEF IndexInv, DatabaseFits, Database
<1>2. DOMAIN db.fts = {c.chunk : c \in db.chunks} /\ \A c \in DOMAIN db.fts : db.fts[c] = 1
  BY <1>1 DEF TextOf
<1>3. ASSUME NEW episode \in Episodes
      PROVE  \/ RowsOf(db, episode) = {}
             \/ \E e \in Editions :
                  /\ \E r \in db.artifacts : r.artifact = e.artifact
                  /\ e.episode = episode
                  /\ RowsOf(db, episode) = Chunks(e)
                  /\ Found(episode) = Chunks(e)
  <2>1. \A c \in RowsOf(db, episode) : c.chunk \in DOMAIN db.fts
    BY <1>2 DEF RowsOf
  <2>2. Found(episode) = RowsOf(db, episode)
    BY <2>1 DEF Found
  <2>3. HoldsOne(db, episode)
    BY DEF IndexInv
  <2> QED  BY <2>2, <2>3 DEF HoldsOne, Recorded
<1>4. db.pointer # "none" => \E g \in db.generations : g.id = db.pointer
  BY <1>1 DEF DatabaseFits
<1> QED  BY <1>2, <1>3, <1>4 DEF SearchIsOneEdition

(* However indexings of one episode race, repeat, fail or crash: a search  *)
(* finds every chunk of one recorded attribution, each once, or nothing;   *)
(* the pointer names a generation that is there (replace_text_chunks,      *)
(* publish_generation).                                                    *)
THEOREM OneEditionFound == IndexSpec => []SearchIsOneEdition
<1> QED  BY IndexBegin, IndexStep, IndexSuffices, PTL DEF IndexSpec

-----------------------------------------------------------------------------
(*                             Assistance                                  *)
(*                                                                         *)
(* DraftsAgree is not inductive: a draft is stored from what a request     *)
(* holds in memory, and it is read back later, by a request that must find *)
(* it.  AssistanceInv adds the types, that what a request is about to      *)
(* store was said by its model to its question, and that a request past    *)
(* its INSERT, or refused by it, has a draft to read.                      *)

Steps == {"rest", "looking", "asking", "recording", "inserting", "reading", "conflict",
          "answered", "refused", "lost", "unresolved"}

Request == [step : Steps, question : Questions \union {"none"},
            outcome : Outcomes \union {"none"}, asks : Nat]

AssistanceTypeOK ==
  /\ drafts \in [Questions \X Models -> Outcomes \union {"none"}]
  /\ clients \in [Clients -> Request]
  /\ \A c \in Clients : clients[c].step # "rest" => clients[c].question \in Questions

(* A draft that is stored was said by its model to its question.           *)
StoredWasAnswered == \A key \in DOMAIN drafts : drafts[key] # "none" => <<key, drafts[key]>> \in answered

(* What a request holds on its way to the database was said to it.         *)
HeldWasAnswered ==
  \A c \in Clients :
    clients[c].step \in {"recording", "inserting"} =>
      clients[c].outcome \in Outcomes /\ <<Key(c), clients[c].outcome>> \in answered

(* Past the INSERT, or refused by it, there is a draft to read.            *)
DraftToRead ==
  \A c \in Clients : clients[c].step \in {"reading", "conflict"} => drafts[Key(c)] # "none"

(* An answer is the stored draft.                                          *)
AnswerIsStored ==
  \A c \in Clients :
    /\ clients[c].step # "unresolved"
    /\ clients[c].step = "answered" =>
         drafts[Key(c)] # "none" /\ clients[c].outcome = drafts[Key(c)]

AssistanceInv ==
  AssistanceTypeOK /\ StoredWasAnswered /\ HeldWasAnswered /\ DraftToRead /\ AnswerIsStored

-----------------------------------------------------------------------------
(* A request that is not at rest has a key of the table.                   *)
LEMMA KeyIsKnown ==
  ASSUME AssistanceTypeOK, NEW c \in Clients, clients[c].step # "rest"
  PROVE  Key(c) \in Questions \X Models
BY DEF AssistanceTypeOK, Key, Models

(* No outcome is the mark of an empty place.                               *)
LEMMA OutcomeIsNotNone == "none" \notin Outcomes
BY AssistanceAssumption DEF Outcomes

(* Before anybody has asked, there are no drafts and no requests.          *)
LEMMA InitAnswers == AssistanceInit => AssistanceInv
<1> SUFFICES ASSUME AssistanceInit PROVE AssistanceInv
  OBVIOUS
<1>1. \A c \in Clients : clients[c] = AtRest
  BY DEF AssistanceInit
<1>2. AtRest \in Request /\ AtRest.step = "rest"
  BY DEF AtRest, Request, Steps
<1>3. AssistanceTypeOK
  <2>1. drafts \in [Questions \X Models -> Outcomes \union {"none"}]
    BY DEF AssistanceInit
  <2>2. clients \in [Clients -> Request]
    BY <1>2 DEF AssistanceInit
  <2> QED BY <1>1, <1>2, <2>1, <2>2 DEF AssistanceTypeOK
<1>4. \A key \in DOMAIN drafts : drafts[key] = "none"
  BY DEF AssistanceInit
<1> QED BY <1>1, <1>2, <1>3, <1>4
        DEF AssistanceInv, StoredWasAnswered, HeldWasAnswered, DraftToRead, AnswerIsStored

(* A step that leaves the drafts alone, takes nothing back that was said,  *)
(* and moves one request to a place where the invariant holds of it, keeps *)
(* the invariant.                                                          *)
LEMMA OneClientMoves ==
  ASSUME AssistanceInv, NEW c \in Clients, NEW r \in Request,
         drafts' = drafts, answered \subseteq answered',
         clients' = [clients EXCEPT ![c] = r],
         r.step \notin {"rest", "unresolved"}, r.question \in Questions,
         r.step \in {"recording", "inserting"} =>
           r.outcome \in Outcomes /\ <<<<r.question, HelperOf[c]>>, r.outcome>> \in answered',
         r.step \in {"reading", "conflict"} => drafts[<<r.question, HelperOf[c]>>] # "none",
         r.step = "answered" =>
           /\ drafts[<<r.question, HelperOf[c]>>] # "none"
           /\ r.outcome = drafts[<<r.question, HelperOf[c]>>]
  PROVE  AssistanceInv'
<1>1. clients \in [Clients -> Request]
  BY DEF AssistanceInv, AssistanceTypeOK
<1>2. \A d \in Clients : clients'[d] = IF d = c THEN r ELSE clients[d]
  BY <1>1
<1>3. AssistanceTypeOK'
  BY <1>1, <1>2 DEF AssistanceInv, AssistanceTypeOK, Models
<1>4. StoredWasAnswered'
  BY DEF AssistanceInv, StoredWasAnswered
<1>5. HeldWasAnswered'
  BY <1>2 DEF AssistanceInv, HeldWasAnswered, Key
<1>6. DraftToRead'
  BY <1>2 DEF AssistanceInv, DraftToRead, Key
<1>7. AnswerIsStored'
  BY <1>2 DEF AssistanceInv, AnswerIsStored, Key
<1> QED BY <1>3, <1>4, <1>5, <1>6, <1>7 DEF AssistanceInv

-----------------------------------------------------------------------------
(* One lemma for each action.                                              *)

LEMMA AskHelpKeeps ==
  ASSUME AssistanceInv, NEW c \in Clients, NEW question \in Questions, AskHelp(c, question)
  PROVE  AssistanceInv'
<1> DEFINE r == [step |-> "looking", question |-> question, outcome |-> "none",
                 asks |-> clients[c].asks + 1]
<1>1. clients[c] \in Request
  BY DEF AssistanceInv, AssistanceTypeOK
<1>2. r \in Request
  BY <1>1 DEF Request, Steps
<1>3. clients' = [clients EXCEPT ![c] = r] /\ drafts' = drafts /\ answered' = answered
  BY DEF AskHelp
<1> QED BY <1>2, <1>3, OneClientMoves

(* A request that goes on without an outcome of its own, or gives up.      *)
LEMMA GoOnAsking ==
  ASSUME AssistanceInv, NEW c \in Clients, NEW step \in Steps,
         clients[c].step # "rest", GoTo(c, step), UNCHANGED <<drafts, answered>>,
         step \notin {"rest", "unresolved", "answered", "recording"},
         step = "inserting" => clients[c].step = "recording",
         step \in {"reading", "conflict"} => drafts[Key(c)] # "none"
  PROVE  AssistanceInv'
<1> DEFINE r == [clients[c] EXCEPT !.step = step]
<1>1. clients[c] \in Request /\ clients[c].question \in Questions
  BY DEF AssistanceInv, AssistanceTypeOK
<1>2. /\ r \in Request /\ r.step = step
      /\ r.question = clients[c].question /\ r.outcome = clients[c].outcome
  BY <1>1 DEF Request
<1>3. clients' = [clients EXCEPT ![c] = r]
  BY DEF GoTo
<1>4. step = "inserting" =>
        r.outcome \in Outcomes /\ <<<<r.question, HelperOf[c]>>, r.outcome>> \in answered'
  BY <1>2 DEF AssistanceInv, HeldWasAnswered, Key
<1>5. step \in {"reading", "conflict"} => drafts[<<r.question, HelperOf[c]>>] # "none"
  BY <1>2 DEF Key
<1> HIDE DEF r
<1> QED BY <1>1, <1>2, <1>3, <1>4, <1>5, OneClientMoves

(* A request that is answered with the stored draft.                       *)
LEMMA AnsweredKeeps ==
  ASSUME AssistanceInv, NEW c \in Clients, clients[c].step # "rest",
         drafts[Key(c)] # "none", GiveAnswer(c, drafts[Key(c)]), UNCHANGED <<drafts, answered>>
  PROVE  AssistanceInv'
<1> DEFINE r == [clients[c] EXCEPT !.step = "answered", !.outcome = drafts[Key(c)]]
<1>1. clients[c] \in Request /\ clients[c].question \in Questions
  BY DEF AssistanceInv, AssistanceTypeOK
<1>2. drafts[Key(c)] \in Outcomes
  BY KeyIsKnown DEF AssistanceInv, AssistanceTypeOK
<1>3. /\ r \in Request /\ r.step = "answered"
      /\ r.question = clients[c].question /\ r.outcome = drafts[Key(c)]
  BY <1>1, <1>2 DEF Request, Steps
<1>4. clients' = [clients EXCEPT ![c] = r]
  BY DEF GiveAnswer
<1>5. Key(c) = <<r.question, HelperOf[c]>>
  BY <1>3 DEF Key
<1> HIDE DEF r
<1> QED BY <1>1, <1>3, <1>4, <1>5, OneClientMoves

LEMMA CallHelperKeeps ==
  ASSUME AssistanceInv, NEW c \in Clients, CallHelper(c)
  PROVE  AssistanceInv'
<1>1. PICK outcome \in Outcomes :
        /\ clients' = [clients EXCEPT ![c].step = "recording", ![c].outcome = outcome]
        /\ answered' = answered \union {<<Key(c), outcome>>}
  BY DEF CallHelper, Outcomes
<1> DEFINE r == [clients[c] EXCEPT !.step = "recording", !.outcome = outcome]
<1>2. clients[c] \in Request /\ clients[c].question \in Questions
  BY DEF AssistanceInv, AssistanceTypeOK, CallHelper, IsAt
<1>3. /\ r \in Request /\ r.step = "recording"
      /\ r.question = clients[c].question /\ r.outcome = outcome
  BY <1>2 DEF Request, Steps
<1>4. clients' = [clients EXCEPT ![c] = r] /\ drafts' = drafts
  BY <1>1 DEF CallHelper
<1>5. Key(c) = <<r.question, HelperOf[c]>>
  BY <1>3 DEF Key
<1> HIDE DEF r
<1> QED BY <1>1, <1>2, <1>3, <1>4, <1>5, OneClientMoves

LEMMA FindDraftKeeps ==
  ASSUME AssistanceInv, NEW c \in Clients, FindDraft(c)
  PROVE  AssistanceInv'
<1>1. CASE drafts[Key(c)] # "none"
  BY <1>1, AnsweredKeeps DEF FindDraft, IsAt
<1>2. CASE drafts[Key(c)] = "none"
  BY <1>2, GoOnAsking DEF FindDraft, IsAt, Steps
<1> QED BY <1>1, <1>2

LEMMA CheckDraftKeeps ==
  ASSUME AssistanceInv, NEW c \in Clients, CheckDraft(c)
  PROVE  AssistanceInv'
<1>1. clients[c].step = "recording" /\ UNCHANGED <<drafts, answered>>
  BY DEF CheckDraft, IsAt
<1>2. CASE drafts[Key(c)] = "none"
  <2>1. clients[c].outcome # "none"
    BY <1>1, OutcomeIsNotNone DEF AssistanceInv, HeldWasAnswered
  <2>2. GoTo(c, "inserting")
    BY <1>2, <2>1 DEF CheckDraft
  <2> QED BY <1>1, <2>2, GoOnAsking DEF Steps
<1>3. CASE drafts[Key(c)] # "none" /\ drafts[Key(c)] = clients[c].outcome
  BY <1>1, <1>3, GoOnAsking DEF CheckDraft, Steps
<1>4. CASE drafts[Key(c)] # "none" /\ drafts[Key(c)] # clients[c].outcome
  BY <1>1, <1>4, GoOnAsking DEF CheckDraft, Steps
<1> QED BY <1>2, <1>3, <1>4

(* The one action that changes the drafts: only an empty place is filled,  *)
(* with what its model said, so that no answer given before changes.       *)
LEMMA InsertDraftKeeps ==
  ASSUME AssistanceInv, NEW c \in Clients, InsertDraft(c)
  PROVE  AssistanceInv'
<1>1. clients[c].step = "inserting" /\ answered' = answered
  BY DEF InsertDraft, IsAt
<1>2. CASE drafts[Key(c)] # "none"
  BY <1>1, <1>2, GoOnAsking DEF InsertDraft, Steps
<1>3. CASE drafts[Key(c)] = "none"
  <2>1. /\ drafts' = [drafts EXCEPT ![Key(c)] = clients[c].outcome]
        /\ clients' = [clients EXCEPT ![c].step = "reading"]
    BY <1>3 DEF InsertDraft, GoTo
  <2>2. Key(c) \in Questions \X Models /\ clients[c].outcome \in Outcomes
        /\ <<Key(c), clients[c].outcome>> \in answered
    BY <1>1, KeyIsKnown DEF AssistanceInv, HeldWasAnswered
  <2>3. drafts \in [Questions \X Models -> Outcomes \union {"none"}]
        /\ clients \in [Clients -> Request]
    BY DEF AssistanceInv, AssistanceTypeOK
  <2>4. \A key \in Questions \X Models :
          drafts'[key] = IF key = Key(c) THEN clients[c].outcome ELSE drafts[key]
    BY <2>1, <2>3
  <2>5. \A d \in Clients :
          /\ clients'[d].step = IF d = c THEN "reading" ELSE clients[d].step
          /\ clients'[d].question = clients[d].question
          /\ clients'[d].outcome = clients[d].outcome
          /\ clients'[d] \in Request
    BY <2>1, <2>3 DEF Request, Steps
  <2>6. \A d \in Clients : Key(d)' = Key(d)
    BY <2>5 DEF Key
  <2>7. \A d \in Clients : clients[d].step # "rest" => Key(d) \in Questions \X Models
    BY KeyIsKnown DEF AssistanceInv
  <2>8. AssistanceTypeOK'
    <3>1. drafts' \in [Questions \X Models -> Outcomes \union {"none"}]
      BY <2>1, <2>2, <2>3
    <3>2. clients' \in [Clients -> Request]
      BY <2>1, <2>3, <2>5
    <3>3. \A d \in Clients : clients'[d].step # "rest" => clients'[d].question \in Questions
      BY <1>1, <2>5 DEF AssistanceInv, AssistanceTypeOK
    <3> QED BY <3>1, <3>2, <3>3 DEF AssistanceTypeOK, Models
  <2>9. StoredWasAnswered'
    <3>1. DOMAIN drafts' = Questions \X Models /\ DOMAIN drafts = Questions \X Models
      BY <2>1, <2>3
    <3> QED BY <3>1, <1>1, <2>2, <2>4 DEF AssistanceInv, StoredWasAnswered
  <2>10. HeldWasAnswered'
    BY <1>1, <2>5, <2>6 DEF AssistanceInv, HeldWasAnswered
  <2>11. DraftToRead'
    <3> SUFFICES ASSUME NEW d \in Clients, clients'[d].step \in {"reading", "conflict"}
                 PROVE  drafts'[Key(d)] # "none"
      BY <2>6 DEF DraftToRead
    <3>1. Key(d) \in Questions \X Models
      BY <1>1, <2>5, <2>7
    <3>2. d # c => drafts[Key(d)] # "none"
      BY <2>5 DEF AssistanceInv, DraftToRead
    <3> QED BY <3>1, <3>2, <1>3, <2>2, <2>4, OutcomeIsNotNone
  <2>12. AnswerIsStored'
    <3> SUFFICES ASSUME NEW d \in Clients
                 PROVE  /\ clients'[d].step # "unresolved"
                        /\ clients'[d].step = "answered" =>
                             drafts'[Key(d)] # "none" /\ clients'[d].outcome = drafts'[Key(d)]
      BY <2>6 DEF AnswerIsStored
    <3>1. clients'[d].step # "unresolved"
      BY <2>5 DEF AssistanceInv, AnswerIsStored
    <3>2. ASSUME clients'[d].step = "answered"
          PROVE  drafts'[Key(d)] # "none" /\ clients'[d].outcome = drafts'[Key(d)]
      <4>1. clients[d].step = "answered" /\ clients'[d].outcome = clients[d].outcome
        BY <3>2, <2>5
      <4>2. drafts[Key(d)] # "none" /\ clients[d].outcome = drafts[Key(d)]
        BY <4>1 DEF AssistanceInv, AnswerIsStored
      <4>3. Key(d) # Key(c) /\ Key(d) \in Questions \X Models
        BY <4>1, <4>2, <1>3, <2>7
      <4> QED BY <4>1, <4>2, <4>3, <2>4
    <3> QED BY <3>1, <3>2
  <2> QED BY <2>8, <2>9, <2>10, <2>11, <2>12 DEF AssistanceInv
<1> QED BY <1>2, <1>3

LEMMA ReadBackKeeps ==
  ASSUME AssistanceInv, NEW c \in Clients, ReadBack(c)
  PROVE  AssistanceInv'
<1>1. clients[c].step \in {"reading", "conflict"}
  BY DEF ReadBack
<1>2. drafts[Key(c)] # "none"
  BY <1>1 DEF AssistanceInv, DraftToRead
<1> QED BY <1>1, <1>2, AnsweredKeeps DEF ReadBack

(* Refused before the look-up, or lost on the way.                         *)
LEMMA GivingUpKeeps ==
  ASSUME AssistanceInv, NEW c \in Clients, RefuseQuestion(c) \/ LoseRequest(c)
  PROVE  AssistanceInv'
<1>1. CASE RefuseQuestion(c)
  BY <1>1, GoOnAsking DEF RefuseQuestion, IsAt, Steps
<1>2. CASE LoseRequest(c)
  BY <1>2, GoOnAsking DEF LoseRequest, Steps
<1> QED BY <1>1, <1>2

-----------------------------------------------------------------------------
LEMMA StepKeeps == AssistanceInv /\ [AssistanceNext]_assistance => AssistanceInv'
<1> SUFFICES ASSUME AssistanceInv, [AssistanceNext]_assistance PROVE AssistanceInv'
  OBVIOUS
<1>1. ASSUME NEW c \in Clients,
             \/ \E question \in Questions : AskHelp(c, question)
             \/ RefuseQuestion(c) \/ FindDraft(c) \/ CallHelper(c) \/ CheckDraft(c)
             \/ InsertDraft(c) \/ ReadBack(c) \/ LoseRequest(c)
      PROVE  AssistanceInv'
  BY <1>1, AskHelpKeeps, FindDraftKeeps, CallHelperKeeps, CheckDraftKeeps, InsertDraftKeeps,
     ReadBackKeeps, GivingUpKeeps
<1>2. CASE UNCHANGED assistance
  BY <1>2 DEF assistance, AssistanceInv, AssistanceTypeOK, StoredWasAnswered, HeldWasAnswered,
              DraftToRead, AnswerIsStored, Key, Models
<1> QED BY <1>1, <1>2 DEF AssistanceNext

(* The invariant says all that reviewers rely on.                          *)
LEMMA AnswersAgree == AssistanceInv => DraftsAgree
BY DEF AssistanceInv, AnswerIsStored, StoredWasAnswered, DraftsAgree, IsAt

(* Every reviewer who was answered for one model has the draft the         *)
(* database keeps, which that model gave to that question, and no race     *)
(* ends in a conflict (ask of qwen_assistance.py).                         *)
THEOREM DraftsAlwaysAgree == AssistanceSpec => []DraftsAgree
<1>1. AssistanceInit => AssistanceInv
  BY InitAnswers
<1>2. AssistanceInv /\ [AssistanceNext]_assistance => AssistanceInv'
  BY StepKeeps
<1> QED BY <1>1, <1>2, AnswersAgree, PTL DEF AssistanceSpec
=============================================================================
