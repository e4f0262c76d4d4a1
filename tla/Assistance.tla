----------------------------- MODULE Assistance -----------------------------
(***************************************************************************)
(* Drafts of a local language model for the reviewer of a chunk            *)
(* (qwen_assistance.py).  The first outcome for a question and a model is  *)
(* stored for ever, a failure of the helper as well as a text; everybody   *)
(* who asks the same later, or at the same time, is to get that one.  The  *)
(* model is asked outside of any transaction, and record_ annotation_      *)
(* assistance_draft (storage.py) reads before SQLite opens its own.        *)
(***************************************************************************)
EXTENDS Integers, FiniteSets

CONSTANTS
  Questions,   \* the requests, each for its chunk, with its prompt
  Drafts,      \* the texts a model may answer
  Clients,     \* the requests of the web application in progress
  HelperOf,    \* the model each client's server runs, or "unconfigured"
  MaxAsks      \* bound: requests of one client

ASSUME AssistanceAssumption ==
  /\ Drafts \intersect {"none", "unavailable"} = {}
  /\ MaxAsks \in Nat

VARIABLES
  drafts,      \* annotation_assistance_drafts, by question and model
  answered,    \* history: what models have said, to which question
  clients      \* what each request of a reviewer is doing

assistance == <<drafts, answered, clients>>

Outcomes == Drafts \union {"unavailable"}

Models == {HelperOf[c] : c \in Clients}

AtRest == [step |-> "rest", question |-> "none", outcome |-> "none", asks |-> 0]

AssistanceInit ==
  /\ drafts = [key \in Questions \X Models |-> "none"]
  /\ answered = {}
  /\ clients = [c \in Clients |-> AtRest]

Key(c) == <<clients[c].question, HelperOf[c]>>

IsAt(c, step) == clients[c].step = step

GoTo(c, step) == clients' = [clients EXCEPT ![c].step = step]

GiveAnswer(c, outcome) ==
  clients' = [clients EXCEPT ![c].step = "answered", ![c].outcome = outcome]

-----------------------------------------------------------------------------
AskHelp(c, question) ==
  /\ clients[c].step \in {"rest", "answered", "refused", "lost"}
  /\ clients[c].asks < MaxAsks
  /\ clients' = [clients EXCEPT ![c] =
       [step |-> "looking", question |-> question, outcome |-> "none", asks |-> @.asks + 1]]
  /\ UNCHANGED <<drafts, answered>>

(* The chunk or a hypothesis is unknown, or the prompt is too long.        *)
RefuseQuestion(c) ==
  /\ IsAt(c, "looking")
  /\ GoTo(c, "refused")
  /\ UNCHANGED <<drafts, answered>>

FindDraft(c) ==
  /\ IsAt(c, "looking")
  /\ IF drafts[Key(c)] # "none" THEN GiveAnswer(c, drafts[Key(c)]) ELSE GoTo(c, "asking")
  /\ UNCHANGED <<drafts, answered>>

(* complete: a text that keeps to the contract; a timeout, an unreachable  *)
(* helper and an answer that breaks the contract are unavailable.          *)
CallHelper(c) ==
  /\ IsAt(c, "asking")
  /\ \E outcome \in IF HelperOf[c] = "unconfigured" THEN {"unavailable"} ELSE Outcomes :
       /\ clients' = [clients EXCEPT ![c].step = "recording", ![c].outcome = outcome]
       /\ answered' = answered \union {<<Key(c), outcome>>}
  /\ UNCHANGED drafts

(* The SELECT: a draft that is there must be the same in status and text.  *)
CheckDraft(c) ==
  /\ IsAt(c, "recording")
  /\ GoTo(c, CASE drafts[Key(c)] = "none" -> "inserting"
               [] drafts[Key(c)] = clients[c].outcome -> "reading"
               [] OTHER -> "conflict")
  /\ UNCHANGED <<drafts, answered>>

(* The INSERT, refused by UNIQUE when another request was faster.          *)
InsertDraft(c) ==
  /\ IsAt(c, "inserting")
  /\ IF drafts[Key(c)] = "none"
     THEN drafts' = [drafts EXCEPT ![Key(c)] = clients[c].outcome] /\ GoTo(c, "reading")
     ELSE drafts' = drafts /\ GoTo(c, "conflict")
  /\ UNCHANGED answered

(* Mutant: the draft that was just made is answered, not the stored one.   *)
ReadBackOwn(c) ==
  /\ clients[c].step \in {"reading", "conflict"}
  /\ GiveAnswer(c, clients[c].outcome)
  /\ UNCHANGED <<drafts, answered>>

(* The stored draft is read back, by its id or, after a conflict, by the   *)
(* question and the model; none to be found is raised as a conflict.       *)
ReadBack(c) ==
  /\ clients[c].step \in {"reading", "conflict"}
  /\ IF drafts[Key(c)] # "none" THEN GiveAnswer(c, drafts[Key(c)]) ELSE GoTo(c, "unresolved")
  /\ UNCHANGED <<drafts, answered>>

(* SQLite gives up on the write lock, or the process or connection is gone.*)
LoseRequest(c) ==
  /\ clients[c].step \in {"looking", "asking", "recording", "inserting", "reading", "conflict"}
  /\ GoTo(c, "lost")
  /\ UNCHANGED <<drafts, answered>>

AssistanceNext ==
  \E c \in Clients :
    \/ \E question \in Questions : AskHelp(c, question)
    \/ RefuseQuestion(c)
    \/ FindDraft(c)
    \/ CallHelper(c)
    \/ CheckDraft(c)
    \/ InsertDraft(c)
    \/ ReadBack(c)
    \/ LoseRequest(c)

AssistanceSpec == AssistanceInit /\ [][AssistanceNext]_assistance

-----------------------------------------------------------------------------
(* Properties *)

(* However requests for one question race, fail and are repeated, every    *)
(* reviewer who was answered for one model has the same draft, the one the *)
(* database keeps from then on; it was said by that model to that question,*)
(* and no race ends in a conflict the reviewer sees                        *)
(* (qwen_assistance.py:609, storage.py:1808).                              *)
DraftsAgree ==
  /\ \A c \in Clients :
       /\ ~IsAt(c, "unresolved")
       /\ IsAt(c, "answered") => clients[c].outcome = drafts[Key(c)]
  /\ \A key \in DOMAIN drafts : drafts[key] # "none" => <<key, drafts[key]>> \in answered
=============================================================================
