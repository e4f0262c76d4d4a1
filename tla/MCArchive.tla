----------------------------- MODULE MCArchive -----------------------------
(***************************************************************************)
(* The computations and the services of the archive side by side.  The     *)
(* kind of the input says which of them a behaviour is about; the others   *)
(* stay as they begin.                                                     *)
(***************************************************************************)
EXTENDS MCChunking, MCTranscription, MCExemplars, MCDiarization, MCAlignment,
        MCText, MCEvaluation, MCConditions, MCReviews, MCVoice, MCSearch,
        Assistance, CostLedger

Given(inputs, begun) == input \in inputs /\ work = begun

(* Two clients of one server and one of a server without a helper.         *)
MCHelperOf == [c \in Clients |-> IF c = "c3" THEN "unconfigured" ELSE "qwen"]

(* The instances lie in the domains of the theorems.                       *)
ASSUME InputsAreDomains ==
  /\ ChunkingInputs \subseteq ChunkingInput
  /\ TranscriptionInputs \subseteq TranscriptionInput
  /\ ExemplarsInputs \subseteq ExemplarsInput
  /\ StagesInputs \subseteq StagesInput
  /\ EvaluationInputs \subseteq EvaluationInput
  /\ \A i \in ConditionsInputs : IsConditionsInput(i)

Service(name) == Given({[kind |-> name]}, [phase |-> "none"])

Init ==
  /\ \/ Given(ChunkingInputs, ChunkingWork)
     \/ Given(TranscriptionInputs, TranscriptionWork)
     \/ Given(ExemplarsInputs, ExemplarsWork)
     \/ Given(StagesInputs, StagesWork)
     \/ Given(DiarizationInputs, DiarizationWork)
     \/ Given(AlignmentInputs, AlignmentWork)
     \/ Given(TextInputs, TextWork)
     \/ Given(EvaluationInputs, EvaluationWork)
     \/ Given(ConditionsInputs, ConditionsWork)
     \/ \E name \in {"reviews", "voice", "search", "assistance", "ledger"} : Service(name)
  /\ ReviewsInit
  /\ VoiceInit
  /\ IndexInit
  /\ AssistanceInit
  /\ LedgerInit

Compute ==
  /\ \/ ChunkingNext
     \/ TranscriptionNext
     \/ ExemplarsNext
     \/ StagesNext
     \/ DiarizationNext
     \/ AlignmentNext
     \/ TextNext
     \/ EvaluationNext
     \/ ConditionsNext
  /\ UNCHANGED <<reviews, voice, index, assistance, ledger>>

Review ==
  /\ input.kind = "reviews" /\ ReviewsNext
  /\ UNCHANGED <<computation, voice, index, assistance, ledger>>

IndexVoices ==
  /\ input.kind = "voice" /\ VoiceNext
  /\ UNCHANGED <<computation, reviews, index, assistance, ledger>>

IndexText ==
  /\ input.kind = "search" /\ IndexNext
  /\ UNCHANGED <<computation, reviews, voice, assistance, ledger>>

Assist ==
  /\ input.kind = "assistance" /\ AssistanceNext
  /\ UNCHANGED <<computation, reviews, voice, index, ledger>>

Account ==
  /\ input.kind = "ledger" /\ LedgerNext
  /\ UNCHANGED <<computation, reviews, voice, index, assistance>>

Next == Compute \/ Review \/ IndexVoices \/ IndexText \/ Assist \/ Account

Spec == Init /\ [][Next]_<<computation, reviews, voice, index, assistance, ledger>>
=============================================================================
