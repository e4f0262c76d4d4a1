---------------------------- MODULE Transcription ----------------------------
(***************************************************************************)
(* From audio to search text: an episode is transcribed in windows with    *)
(* context on both sides (asr.py), the words of each window are merged by  *)
(* ownership of their midpoint, attributed to speakers (transcripts.py)    *)
(* and cut into runs for the lexical index (text_index.py).  The speech    *)
(* recognizer is external: it hears every word that lies inside the audio  *)
(* it is given, and may or may not hear the rest of a word that is cut.    *)
(***************************************************************************)
EXTENDS Computation, Timeline

CONSTANTS WindowTicks, ContextTicks, MaxRunWords, MaxRunTicks

ASSUME WindowAssumption ==
  /\ WindowTicks \in Nat \ {0} /\ ContextTicks \in Nat
  /\ MaxRunWords \in Nat \ {0} /\ MaxRunTicks \in Nat \ {0}

IsTranscription == input.kind = "transcription"

TranscriptionWork ==
  [phase |-> "decoding", windows |-> <<>>, words |-> {}, run |-> <<>>, chunks |-> <<>>]

-----------------------------------------------------------------------------
(* build_asr_windows: ownership is contiguous, decoding adds the context.  *)

OwnedUpTo ==
  IF work.windows = <<>> THEN 0 ELSE work.windows[Len(work.windows)].end

Window(start) ==
  LET end == Earlier(start + WindowTicks, input.duration)
  IN [start |-> start, end |-> end,
      decodeStart |-> Later(0, start - ContextTicks),
      decodeEnd |-> Earlier(input.duration, end + ContextTicks)]

(* What the recognizer may answer for a window, in offsets of its audio.   *)
Heard(w, word) ==
  [id |-> word.id, start |-> Later(word.start, w.decodeStart) - w.decodeStart,
   end |-> Earlier(word.end, w.decodeEnd) - w.decodeStart]

Inside(w, word) == w.decodeStart <= word.start /\ word.end <= w.decodeEnd

IsCut(w, word) ==
  ~Inside(w, word) /\ word.start < w.decodeEnd /\ w.decodeStart < word.end

Result(w, cut) ==
  [start |-> w.start, end |-> w.end, decodeStart |-> w.decodeStart,
   answer |-> {Heard(w, x) : x \in {y \in input.words : Inside(w, y)} \union cut}]

(* One pass of the loop of transcribe_windowed.  parse_parakeet_response   *)
(* raises for a window without words or with words out of order; such a    *)
(* transcription is not made, and this model, which goes on, makes more.   *)
TranscribeWindow ==
  /\ IsTranscription /\ work.phase = "decoding" /\ OwnedUpTo < input.duration
  /\ \E cut \in SUBSET {x \in input.words : IsCut(Window(OwnedUpTo), x)} :
       work' = [work EXCEPT !.windows = Append(@, Result(Window(OwnedUpTo), cut))]
  /\ UNCHANGED input

-----------------------------------------------------------------------------
(* Mutant: a midpoint on the border belongs to both windows.               *)
OwnsBorder(w, word) ==
  2 * w.start <= word.start + word.end /\ word.start + word.end <= 2 * w.end

(* merge_window_results: a word belongs to the window that owns its        *)
(* midpoint, a midpoint on the border to the later window.                 *)

Owns(w, word) ==
  2 * w.start <= word.start + word.end /\ word.start + word.end < 2 * w.end

Shifted(w, i, word) ==
  [window |-> i, id |-> word.id,
   start |-> word.start + w.decodeStart, end |-> word.end + w.decodeStart]

Owned(w, i) == {x \in {Shifted(w, i, y) : y \in w.answer} : Owns(w, x)}

Merged == UNION {Owned(work.windows[i], i) : i \in DOMAIN work.windows}

(* attribute_word: the exclusive turn with the greatest intersection, then *)
(* one that contains the midpoint, then the smallest speaker; 0 for nobody.*)
Intersection(word, turn) ==
  Later(0, Earlier(word.end, turn.end) - Later(word.start, turn.start))

HasMidpoint(word, turn) ==
  2 * turn.start <= word.start + word.end /\ word.start + word.end < 2 * turn.end

SpeakerOf(word, turns) ==
  LET touching == {t \in turns : Intersection(word, t) > 0}
      greatest == {t \in touching : \A u \in touching : Intersection(word, u) <= Intersection(word, t)}
      central  == {t \in greatest : HasMidpoint(word, t)}
      best     == IF central # {} THEN central ELSE greatest
      speakers == {t.speaker : t \in best}
  IN IF speakers = {} THEN 0 ELSE CHOOSE s \in speakers : \A o \in speakers : s <= o

Attributed(word) ==
  [window |-> word.window, id |-> word.id, start |-> word.start, end |-> word.end,
   speaker |-> SpeakerOf(word, input.exclusive),
   overlap |-> \E o \in Overlaps(input.standard, input.duration) : Intersect(o, word)]

MergeAndAttribute ==
  /\ IsTranscription /\ work.phase = "decoding" /\ OwnedUpTo = input.duration
  /\ work' = [work EXCEPT !.phase = "indexing", !.words = {Attributed(x) : x \in Merged}]
  /\ UNCHANGED input

-----------------------------------------------------------------------------
(* build_text_chunks: words in order of time, one run at a time.           *)

WordKey(x) == <<x.start, x.end, x.window, x.id>>

RunEnd(run) ==
  IF run = <<>> THEN 0
  ELSE CHOOSE e \in {run[i].end : i \in DOMAIN run} : \A i \in DOMAIN run : run[i].end <= e

(* Mutant: the run's span is checked up to the start of the next word.     *)
MustBreakAtStart(run, x) ==
  /\ run # <<>>
  /\ \/ x.speaker # run[1].speaker
     \/ Len(run) = MaxRunWords
     \/ x.start - run[1].start > MaxRunTicks

MustBreak(run, x) ==
  /\ run # <<>>
  /\ \/ x.speaker # run[1].speaker
     \/ Len(run) = MaxRunWords
     \/ Later(x.end, RunEnd(run)) - run[1].start > MaxRunTicks

IndexWord ==
  /\ IsTranscription /\ work.phase = "indexing" /\ work.words # {}
  /\ LET x == LeastBy(work.words, WordKey)
     IN work' = IF x.end - x.start > MaxRunTicks
                THEN [work EXCEPT !.phase = "refused"]
                ELSE IF MustBreak(work.run, x)
                THEN [work EXCEPT !.words = @ \ {x}, !.run = <<x>>,
                                  !.chunks = Append(@, work.run)]
                ELSE [work EXCEPT !.words = @ \ {x}, !.run = Append(@, x)]
  /\ UNCHANGED input

FlushLastRun ==
  /\ IsTranscription /\ work.phase = "indexing" /\ work.words = {}
  /\ work' = [work EXCEPT !.phase = "indexed", !.run = <<>>,
                !.chunks = IF work.run = <<>> THEN @ ELSE Append(@, work.run)]
  /\ UNCHANGED input

TranscriptionNext ==
  \/ TranscribeWindow
  \/ MergeAndAttribute
  \/ IndexWord
  \/ FlushLastRun

-----------------------------------------------------------------------------
(* What the computation may be given: an episode, the words that are said  *)
(* in it, and its speaker turns.                                           *)

SpeakerTurns == SUBSET [speaker : Nat \ {0}, start : Nat, end : Nat]

TranscriptionInput ==
  {i \in [kind : {"transcription"}, duration : Nat \ {0},
          words : SUBSET [id : Nat, start : Nat, end : Nat],
          standard : SpeakerTurns, exclusive : SpeakerTurns] :
     /\ IsFiniteSet(i.words) /\ IsFiniteSet(i.standard) /\ IsFiniteSet(i.exclusive)
     /\ \A x \in i.words : x.start < x.end /\ x.end <= i.duration
     /\ \A x, y \in i.words : x.id = y.id => x = y}

TranscriptionSpec ==
  input \in TranscriptionInput /\ work = TranscriptionWork
    /\ [][TranscriptionNext]_computation

-----------------------------------------------------------------------------
(* Properties *)

Occurrences(id) ==
  {place \in (DOMAIN work.chunks) \X (1..MaxRunWords) :
     /\ place[2] <= Len(work.chunks[place[1]])
     /\ work.chunks[place[1]][place[2]].id = id}

(* Windows overlap, and the recognizer cuts words at their edges, yet a    *)
(* word that is no longer than twice the context reaches the index exactly *)
(* once and with its own offsets; longer words may be lost or doubled      *)
(* (asr.py:101).                                                           *)
WordsAreIndexedOnce ==
  IsTranscription /\ work.phase = "indexed" =>
    \A word \in input.words :
      word.end - word.start <= 2 * ContextTicks =>
        \E place \in Occurrences(word.id) :
          /\ Occurrences(word.id) = {place}
          /\ work.chunks[place[1]][place[2]].start = word.start
          /\ work.chunks[place[1]][place[2]].end = word.end

(* A text chunk has one speaker, at most MaxRunWords words and a span of   *)
(* at most MaxRunTicks; the chunks are in order of time, and none ends     *)
(* before it has to (text_index.py:73).                                    *)
TextChunksAreMaximalRuns ==
  IsTranscription /\ work.phase = "indexed" =>
    /\ \A c \in DOMAIN work.chunks :
         LET run == work.chunks[c]
         IN /\ Len(run) \in 1..MaxRunWords
            /\ \A i, k \in DOMAIN run :
                 /\ run[i].speaker = run[k].speaker
                 /\ run[i].end - run[k].start <= MaxRunTicks
                 /\ i < k => LexLeq(WordKey(run[i]), WordKey(run[k]))
    /\ \A c \in 2..Len(work.chunks) :
         LET run == work.chunks[c - 1]
             next == work.chunks[c][1]
         IN /\ LexLeq(WordKey(run[Len(run)]), WordKey(next))
            /\ \/ next.speaker # run[1].speaker
               \/ Len(run) = MaxRunWords
               \/ next.end - run[1].start > MaxRunTicks

(* From audio to the index no word is lost, doubled or moved, and no chunk *)
(* is anything but a maximal run of one speaker (asr.py:101,               *)
(* text_index.py:73).                                                      *)
TranscriptIsSound == WordsAreIndexedOnce /\ TextChunksAreMaximalRuns
=============================================================================
