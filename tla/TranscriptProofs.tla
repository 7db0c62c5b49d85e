-------------------------- MODULE TranscriptProofs --------------------------
(***************************************************************************)
(* Proofs about Transcript: the words of a channel and their times, the    *)
(* temporary files, and the exports.                                       *)
(***************************************************************************)
EXTENDS Transcript, WordTimesProofs, SequenceTheorems

-----------------------------------------------------------------------------
(* The attempt of a worker.                                                *)

\* What is known of a row: what it says, that it follows one another where there is
\* room, that it lies within the speech that placed it, and that its payload holds
\* what it says unless the segment pass replaced the words.
RowKnown(r) ==
    /\ r.how \in {"none", "model", "segments", "even"}
    /\ r.text \in Seq(Token) /\ r.said \in Seq(Token) /\ r.raw \in Seq(GivenWord)
    /\ r.log \in Seq(Event) /\ r.speech \in {<<>>, DetectSpeech(r.log, dur)}
    /\ RowPlaced(r.words, r.said, r.speech, dur)
    /\ r.how = "segments" => \A i \in 1 .. Len(r.words) : Within(r.words[i], r.speech)
    /\ r.pass # "segment_fallback" => r.said = Said(r.text, Spoken(r.raw))

\* Words that a read of this row adds as its repair.
Readable(words, r) ==
    /\ Heard(words)
    /\ Room(Len(words), DetectSpeech(r.log, dur), dur) => Following(words, dur)
    /\ r.pass # "segment_fallback" => Tokens(words) = r.said

Passes == {"none", "primary_word", "refined_word", "segment_fallback"}

\* What is known of the candidate: its words are not blank, and they are the words of
\* the payload unless the segment pass replaced them.
CandidateKnown ==
    /\ best.text \in Seq(Token) /\ best.words \in Seq(SpokenWord)
    /\ best.pass \in Passes /\ best.score \in Int
    /\ raw \in Seq(GivenWord)
    /\ best.pass # "segment_fallback" => best.words = Spoken(raw)

AudioKnown ==
    /\ audio.dur \in {0, dur} /\ audio.log \in Seq(Event) /\ InTurn(audio.log)
    /\ audio.speech = DetectSpeech(audio.log, audio.dur)

\* The temporary files.
FilesKnown ==
    /\ attempts \in 1 .. MaxAttempts
    /\ wavs \in Nat /\ orphans \in Nat
    /\ WavsAccounted

\* What a read showed of this row.
ReadKnown(list, r) ==
    /\ list.kept = r.words
    /\ list.added # <<>> => Readable(list.added, r)

\* The inductive invariant.
AttemptInv ==
    /\ channels \in 1 .. MaxChannels /\ dur \in Durations
    /\ tpc \in Calling \cup {"extracting", "aligning", "failed", "done"}
    /\ at \in 1 .. channels + 1 /\ (tpc # "done" => at \in 1 .. channels)
    /\ AudioKnown /\ CandidateKnown /\ FilesKnown
    /\ Settling(best.words, stable, dur)
    /\ tpc # "aligning" => stable = <<>>
    /\ stored = [c \in 1 .. MaxChannels |-> stored[c]]
    /\ \A c \in 1 .. MaxChannels : RowKnown(stored[c])
    /\ \A c \in 1 .. MaxChannels :
          shown[c] # Unread => tpc = "done" /\ ReadKnown(shown[c], stored[c])

LEMMA NothingSpoken == Spoken(<<>>) = <<>> /\ Tokens(<<>>) = <<>>
<1>1. <<>> \in Seq(GivenWord) /\ Len(<<>>) = 0 /\ \A i \in 1 .. Len(<<>>) : <<>>[i].tok # 0
  OBVIOUS
<1>2. Spoken(<<>>) = <<>>
  BY <1>1, AllSpoken
<1> QED
  BY <1>2 DEF Tokens

LEMMA NoRowKnown == RowKnown(NoRow)
<1>1. Following(<<>>, dur)
  BY DEF Following
<1>2. <<>> \in Seq(Token) /\ <<>> \in Seq(GivenWord) /\ <<>> \in Seq(Event) /\ <<>> \in Seq(SpokenWord)
      /\ Len(<<>>) = 0
  OBVIOUS
<1>3. Heard(<<>>)
  BY <1>2, SpokenHeard
<1>4. RowPlaced(<<>>, <<>>, <<>>, dur)
  BY <1>1, <1>2, <1>3, NothingSpoken DEF RowPlaced
<1>5. Said(<<>>, Spoken(<<>>)) = <<>>
  BY NothingSpoken DEF Said
<1> QED
  BY <1>2, <1>4, <1>5 DEF RowKnown, NoRow

LEMMA DurationType ==
    ASSUME dur \in Durations
    PROVE  dur \in Nat \ {0} /\ dur \in Nat
BY TranscriptAssumption

LEMMA NothingKnown ==
    ASSUME dur \in Durations
    PROVE  /\ Nothing.text \in Seq(Token) /\ Nothing.words \in Seq(SpokenWord)
           /\ Nothing.pass \in Passes /\ Nothing.score \in Int
           /\ <<>> \in Seq(GivenWord)
           /\ Nothing.words = Spoken(<<>>)
           /\ Settling(Nothing.words, <<>>, dur)
<1>1. <<>> \in Seq(Token) /\ <<>> \in Seq(SpokenWord) /\ <<>> \in Seq(GivenWord)
  OBVIOUS
<1>2. Settling(<<>>, <<>>, dur)
  BY <1>1, DurationType, SettlingStarts, SpokenHeard
<1> QED
  BY <1>1, <1>2, NothingSpoken DEF Nothing, Passes

LEMMA SilentKnown ==
    /\ Silent.dur \in {0, dur} /\ Silent.log \in Seq(Event) /\ InTurn(Silent.log)
    /\ Silent.speech = DetectSpeech(Silent.log, Silent.dur)
<1>1. <<>> \in Seq(Event)
  OBVIOUS
<1>2. DetectSpeech(<<>>, 0) = <<>>
  BY DEF DetectSpeech
<1>3. InTurn(<<>>)
  BY DEF InTurn
<1> QED
  BY <1>1, <1>2, <1>3 DEF Silent

\* The speech of a channel is apart, whether ffprobe knew the duration or not.
LEMMA SpeechApart ==
    ASSUME NEW log \in Seq(Event), dur \in Durations, NEW d \in {0, dur}
    PROVE  /\ DetectSpeech(log, d) \in {<<>>, DetectSpeech(log, dur)}
           /\ Apart(DetectSpeech(log, d), dur) /\ Apart(<<>>, dur)
<1>1. dur \in Nat
  BY DurationType
<1>2. Apart(DetectSpeech(log, dur), dur) /\ Apart(<<>>, dur)
  BY <1>1, DetectedApart, NoneApart
<1>3. DetectSpeech(log, 0) = <<>>
  BY DEF DetectSpeech
<1>4. d = 0 \/ d = dur
  OBVIOUS
<1> QED
  BY <1>2, <1>3, <1>4

LEMMA AttemptStarts == TInit => AttemptInv
<1> SUFFICES ASSUME TInit
             PROVE  AttemptInv
  OBVIOUS
<1> USE DEF TInit
<1>1. channels \in 1 .. MaxChannels /\ dur \in Durations /\ at \in 1 .. channels /\ at \in 1 .. channels + 1
  BY TranscriptAssumption
<1>2. AudioKnown
  BY SilentKnown DEF AudioKnown
<1>3. CandidateKnown /\ Settling(best.words, stable, dur)
  BY <1>1, NothingKnown DEF CandidateKnown, Nothing
<1>4. stored = [c \in 1 .. MaxChannels |-> stored[c]]
      /\ \A c \in 1 .. MaxChannels : RowKnown(stored[c])
  BY NoRowKnown
<1>5. FilesKnown
  BY TranscriptAssumption DEF FilesKnown, WavsAccounted, Calling
<1>6. \A c \in 1 .. MaxChannels : shown[c] = Unread
  OBVIOUS
<1> QED
  BY <1>1, <1>2, <1>3, <1>4, <1>5, <1>6 DEF AttemptInv

\* The answers of the model and the logs.
LEMMA AnswerTypes ==
    ASSUME AttemptInv, tpc # "done"
    PROVE  /\ Logs[at] \subseteq Seq(Event) /\ \A log \in Logs[at] : InTurn(log)
           /\ \A a \in WordAnswers[at] \cup FinerAnswers[at] :
                 a.text \in Seq(Token) /\ a.chunks \in Seq(GivenWord)
           /\ \A a \in SegmentAnswers[at] :
                 a.text \in Seq(Token) /\ a.chunks \in Seq(GivenSegment)
<1>1. at \in 1 .. MaxChannels
  BY TranscriptAssumption DEF AttemptInv
<1> QED
  BY <1>1, AnswerAssumption, LogAssumption DEF GivenSegment, Event

\* A step that leaves the job and the rows alone and ends without stabilized words.
LEMMA CallStep ==
    ASSUME AttemptInv, UNCHANGED <<channels, dur, stored, shown, at>>, tpc # "done",
           tpc' \in Calling \cup {"aligning", "failed"},
           AudioKnown', stable' = <<>>, CandidateKnown', FilesKnown'
    PROVE  AttemptInv'
<1>1. dur \in Nat /\ Heard(best'.words)
  BY DurationType, SpokenHeard DEF AttemptInv, CandidateKnown
<1>2. Settling(best'.words, <<>>, dur)
  BY <1>1, SettlingStarts
<1>3. Settling(best'.words, stable', dur')
  BY <1>2
<1>4. ASSUME NEW c \in 1 .. MaxChannels
      PROVE  RowKnown(stored[c])'
  BY DEF AttemptInv, RowKnown
<1>5. \A c \in 1 .. MaxChannels : shown'[c] = Unread
  BY DEF AttemptInv
<1>6. tpc' \in Calling \cup {"extracting", "aligning", "failed", "done"}
  OBVIOUS
<1>7. /\ channels' \in 1 .. MaxChannels /\ dur' \in Durations
      /\ at' \in 1 .. channels' + 1 /\ at' \in 1 .. channels'
      /\ stable' = <<>> /\ stored' = [c \in 1 .. MaxChannels |-> stored'[c]]
  BY DEF AttemptInv
<1> QED
  BY <1>3, <1>4, <1>5, <1>6, <1>7 DEF AttemptInv

LEMMA ExtractionKeeps ==
    ASSUME AttemptInv, LoadFails \/ Extract \/ ExtractFails \/ ProbeFails
    PROVE  AttemptInv'
<1> USE DEF LoadFails, Extract, ExtractFails, ProbeFails, jobvars
<1>1. /\ tpc \in {"extracting", "probing"} /\ tpc' \in {"probing", "failed"}
      /\ UNCHANGED <<channels, dur, stored, shown, stable, at, audio, best, raw>>
  OBVIOUS
<1>2. stable' = <<>>
  BY <1>1 DEF AttemptInv
<1>3. AudioKnown' /\ CandidateKnown'
  BY <1>1 DEF AttemptInv, AudioKnown, CandidateKnown
<1>4. FilesKnown'
  BY DEF AttemptInv, FilesKnown, WavsAccounted, Calling
<1> QED
  BY <1>1, <1>2, <1>3, <1>4, CallStep DEF Calling

LEMMA ProbingKeeps ==
    ASSUME AttemptInv, Probe
    PROVE  AttemptInv'
<1> USE DEF Probe, jobvars
<1>1. /\ tpc = "probing" /\ tpc' = "primary"
      /\ UNCHANGED <<channels, dur, stored, shown, stable, at, best, raw>>
  OBVIOUS
<1>2. stable' = <<>>
  BY <1>1 DEF AttemptInv
<1>3. AudioKnown'
  <2>1. PICK log \in Logs[at], d \in {0, dur} :
           audio' = [log |-> log, dur |-> d, speech |-> DetectSpeech(log, d)]
    OBVIOUS
  <2>2. log \in Seq(Event) /\ InTurn(log)
    BY <1>1, AnswerTypes
  <2> QED
    BY <1>1, <2>1, <2>2 DEF AudioKnown
<1>4. CandidateKnown'
  BY <1>1 DEF AttemptInv, CandidateKnown
<1>5. FilesKnown'
  BY DEF AttemptInv, FilesKnown, WavsAccounted, Calling
<1> QED
  BY <1>1, <1>2, <1>3, <1>4, <1>5, CallStep DEF Calling

\* A worker that is killed leaves its file behind, and no words in the making.
LEMMA WorkerEndKeeps ==
    ASSUME AttemptInv, WorkerEnds
    PROVE  AttemptInv'
<1> USE DEF WorkerEnds, jobvars
<1>1. /\ tpc \in Calling \cup {"extracting", "aligning"} /\ tpc' = "failed" /\ stable' = <<>>
      /\ UNCHANGED <<channels, dur, stored, shown, at, audio, best, raw>>
  OBVIOUS
<1>2. AudioKnown' /\ CandidateKnown'
  BY <1>1 DEF AttemptInv, AudioKnown, CandidateKnown
<1>3. tpc # "done"
  BY <1>1 DEF Calling
<1>4. FilesKnown'
  BY DEF AttemptInv, FilesKnown, WavsAccounted, Calling
<1> QED
  BY <1>1, <1>2, <1>3, <1>4, CallStep

\* A candidate of a word pass.
LEMMA WordCandidate ==
    ASSUME AttemptInv, NEW text \in Seq(Token), NEW chunks \in Seq(GivenWord),
           NEW pass \in Passes,
           best' = Candidate(pass, text, WordsOfChunks(chunks)), raw' = chunks
    PROVE  CandidateKnown'
<1> DEFINE words == WordsOfChunks(chunks)
<1>1. words \in Seq(SpokenWord) /\ words = Spoken(chunks)
  BY SpokenType DEF WordsOfChunks
<1> HIDE DEF words
<1>2. audio.dur \in Nat
  BY DurationType DEF AttemptInv, AudioKnown
<1>3. Score(words, text, audio.dur) \in Int
  BY <1>1, <1>2, ScoreType
<1>4. best' = [pass |-> pass, text |-> text, words |-> words,
               score |-> Score(words, text, audio.dur)]
  BY DEF Candidate, words
<1> QED
  BY <1>1, <1>3, <1>4 DEF CandidateKnown

LEMMA WordPassesKeep ==
    ASSUME AttemptInv, PrimaryPass \/ PrimaryFails \/ RefinedPass \/ RefinedFails
    PROVE  AttemptInv'
<1>1. CASE PrimaryPass
  <2> USE <1>1 DEF PrimaryPass, jobvars
  <2>1. /\ tpc = "primary" /\ stable = <<>>
        /\ UNCHANGED <<channels, dur, stored, shown, stable, at, audio, attempts, wavs, orphans>>
    BY DEF AttemptInv
  <2>2. AudioKnown'
    BY <2>1 DEF AttemptInv, AudioKnown
  <2>3. PICK a \in WordAnswers[at] :
           /\ best' = Candidate("primary_word", a.text, WordsOfChunks(a.chunks))
           /\ raw' = a.chunks
           /\ tpc' \in {"refining", "checking"}
    OBVIOUS
  <2>4. a.text \in Seq(Token) /\ a.chunks \in Seq(GivenWord)
    BY <2>1, AnswerTypes
  <2>5. CandidateKnown'
    BY <2>3, <2>4, WordCandidate DEF Passes
  <2>6. FilesKnown'
    BY <2>1, <2>3 DEF AttemptInv, FilesKnown, WavsAccounted, Calling
  <2> QED
    BY <2>1, <2>2, <2>3, <2>5, <2>6, CallStep DEF Calling
<1>2. CASE PrimaryFails
  <2> USE <1>2 DEF PrimaryFails, jobvars, RemoveWav
  <2>1. /\ tpc = "primary" /\ tpc' = "failed" /\ stable = <<>>
        /\ UNCHANGED <<channels, dur, stored, shown, stable, at, best, raw, audio>>
    BY DEF AttemptInv
  <2>2. AudioKnown' /\ CandidateKnown'
    BY <2>1 DEF AttemptInv, AudioKnown, CandidateKnown
  <2>3. FilesKnown'
    BY DEF AttemptInv, FilesKnown, WavsAccounted, Calling
  <2> QED
    BY <2>1, <2>2, <2>3, CallStep
<1>3. CASE RefinedPass
  <2> USE <1>3 DEF RefinedPass, jobvars
  <2>1. /\ tpc = "refining" /\ tpc' = "checking" /\ stable = <<>>
        /\ UNCHANGED <<channels, dur, stored, shown, stable, at, audio, attempts, wavs, orphans>>
    BY DEF AttemptInv
  <2>2. AudioKnown'
    BY <2>1 DEF AttemptInv, AudioKnown
  <2>3. PICK a \in FinerAnswers[at] :
           \/ /\ best' = Candidate("refined_word", a.text, WordsOfChunks(a.chunks))
              /\ raw' = a.chunks
           \/ UNCHANGED <<best, raw>>
    OBVIOUS
  <2>4. a.text \in Seq(Token) /\ a.chunks \in Seq(GivenWord)
    BY <2>1, AnswerTypes
  <2>5. CandidateKnown'
    <3>1. CASE UNCHANGED <<best, raw>>
      BY <3>1 DEF AttemptInv, CandidateKnown
    <3>2. CASE best' = Candidate("refined_word", a.text, WordsOfChunks(a.chunks)) /\ raw' = a.chunks
      BY <2>4, <3>2, WordCandidate DEF Passes
    <3> QED
      BY <2>3, <3>1, <3>2
  <2>6. FilesKnown'
    BY <2>1 DEF AttemptInv, FilesKnown, WavsAccounted, Calling
  <2> QED
    BY <2>1, <2>2, <2>5, <2>6, CallStep DEF Calling
<1>4. CASE RefinedFails
  <2> USE <1>4 DEF RefinedFails, jobvars
  <2>1. /\ tpc = "refining" /\ tpc' = "checking" /\ stable = <<>>
        /\ UNCHANGED <<channels, dur, stored, shown, stable, at, best, raw, audio>>
    BY DEF AttemptInv
  <2>2. AudioKnown' /\ CandidateKnown'
    BY <2>1 DEF AttemptInv, AudioKnown, CandidateKnown
  <2>3. FilesKnown'
    BY DEF AttemptInv, FilesKnown, WavsAccounted, Calling
  <2> QED
    BY <2>1, <2>2, <2>3, CallStep DEF Calling
<1> QED
  BY <1>1, <1>2, <1>3, <1>4

LEMMA SegmentPassesKeep ==
    ASSUME AttemptInv, NoSegmentPass \/ SegmentPass \/ SegmentFails
    PROVE  AttemptInv'
<1>1. /\ tpc = "checking" /\ tpc' = "aligning" /\ wavs' = wavs - 1
      /\ UNCHANGED <<channels, dur, stored, shown, stable, at, audio, raw, attempts, orphans>>
  BY DEF NoSegmentPass, SegmentPass, SegmentFails, Return, RemoveWav, jobvars
<1>2. stable = <<>> /\ AudioKnown'
  BY <1>1 DEF AttemptInv, AudioKnown
<1>3. FilesKnown'
  BY <1>1 DEF AttemptInv, FilesKnown, WavsAccounted, Calling
<1>4. CASE best' = best
  <2>1. CandidateKnown'
    BY <1>1, <1>4 DEF AttemptInv, CandidateKnown
  <2> QED
    BY <1>1, <1>2, <1>3, <2>1, CallStep
<1>5. CASE best' # best
  <2>1. SegmentPass
    BY <1>5 DEF NoSegmentPass, SegmentFails
  <2>2. PICK a \in SegmentAnswers[at] :
           LET words == WordsOfSegments(a.chunks, audio.dur)
               text  == IF a.text = <<>> THEN best.text ELSE a.text
           IN  best' = Candidate("segment_fallback", text, words)
    BY <1>5, <2>1 DEF SegmentPass
  <2> DEFINE words == WordsOfSegments(a.chunks, audio.dur)
             text  == IF a.text = <<>> THEN best.text ELSE a.text
  <2>3. a.text \in Seq(Token) /\ a.chunks \in Seq(GivenSegment)
    BY <1>1, AnswerTypes
  <2>4. audio.dur \in Nat
    BY DurationType DEF AttemptInv, AudioKnown
  <2>5. best.text \in Seq(Token) /\ raw' \in Seq(GivenWord)
    BY <1>1 DEF AttemptInv, CandidateKnown
  <2>6. words \in Seq(SpokenWord)
    BY <2>3, <2>4, SegmentWords
  <2>7. text \in Seq(Token)
    BY <2>3, <2>5
  <2>8. best' = [pass |-> "segment_fallback", text |-> text, words |-> words,
                 score |-> Score(words, text, audio.dur)]
    BY <2>2 DEF Candidate
  <2> HIDE DEF words, text
  <2>9. Score(words, text, audio.dur) \in Int
    BY <2>4, <2>6, <2>7, ScoreType
  <2>10. CandidateKnown'
    BY <2>5, <2>6, <2>7, <2>8, <2>9 DEF CandidateKnown, Passes
  <2> QED
    BY <1>1, <1>2, <1>3, <2>10, CallStep
<1> QED
  BY <1>4, <1>5

LEMMA LengthIsDur ==
    ASSUME AttemptInv
    PROVE  Length = dur
<1>1. audio.dur \in {0, dur} /\ dur \in Nat \ {0}
  BY DurationType DEF AttemptInv, AudioKnown
<1> QED
  BY <1>1 DEF Length

LEMMA SettlingKeeps ==
    ASSUME AttemptInv, SettleWord
    PROVE  AttemptInv'
<1> USE DEF SettleWord, jobvars
<1>1. /\ tpc = "aligning"
      /\ UNCHANGED <<channels, dur, stored, shown, at, audio, best, raw, tpc, attempts, wavs, orphans>>
  OBVIOUS
<1>2. stable' = SettleNext(best.words, stable, dur)
  BY LengthIsDur
<1>3. Len(stable) < Len(best.words)
  BY DEF StillToSettle
<1>4. Settling(best.words, stable', dur)
  <2>1. Heard(best.words) /\ dur \in Nat /\ Settling(best.words, stable, dur)
    BY DurationType, SpokenHeard DEF AttemptInv, CandidateKnown
  <2> QED
    BY <1>2, <1>3, <2>1, SettlingGoesOn
<1>5. Settling(best'.words, stable', dur')
  BY <1>1, <1>4
<1>6. AudioKnown' /\ CandidateKnown' /\ FilesKnown'
  BY <1>1 DEF AttemptInv, AudioKnown, CandidateKnown, FilesKnown, WavsAccounted
<1>7. ASSUME NEW c \in 1 .. MaxChannels
      PROVE  RowKnown(stored[c])'
  BY <1>1 DEF AttemptInv, RowKnown
<1>8. \A c \in 1 .. MaxChannels : shown'[c] = Unread
  BY <1>1 DEF AttemptInv
<1> QED
  BY <1>1, <1>5, <1>6, <1>7, <1>8 DEF AttemptInv

\* The row that StoreChannel writes.
LEMMA NewRowKnown ==
    ASSUME AttemptInv, StoreChannel, at \in 1 .. MaxChannels
    PROVE  RowKnown(stored'[at])
<1> DEFINE placed == Closed(stable, dur)
           speech == audio.speech
           a == Aligned(best.text, best.words, placed, dur, speech)
           said == Said(best.text, best.words)
           words == Diarized(a.words, channels, at)
           row == [text |-> best.text, said |-> said, raw |-> raw, words |-> words,
                   how |-> a.how, pass |-> best.pass,
                   log |-> audio.log, speech |-> speech]
<1>1. stored'[at] = row
  <2>1. stored' = [stored EXCEPT ![at] = row]
    BY LengthIsDur DEF StoreChannel, Said
  <2> QED
    BY <2>1 DEF AttemptInv
<1>2. /\ best.text \in Seq(Token) /\ best.words \in Seq(SpokenWord) /\ Heard(best.words)
      /\ dur \in Durations /\ dur \in Nat \ {0} /\ dur \in Nat
      /\ Settling(best.words, stable, dur)
      /\ raw \in Seq(GivenWord)
      /\ best.pass # "segment_fallback" => best.words = Spoken(raw)
  BY DurationType, SpokenHeard DEF AttemptInv, CandidateKnown
<1>3. /\ audio.log \in Seq(Event) /\ Apart(speech, dur)
      /\ speech \in {<<>>, DetectSpeech(audio.log, dur)}
  BY <1>2, SpeechApart DEF AttemptInv, AudioKnown
<1>4. Timed(best.words) =>
         /\ Spells(placed, Tokens(best.words))
         /\ Sec >= 20 /\ dur >= 10 /\ dur >= Len(placed) => Following(placed, dur)
  <2> SUFFICES ASSUME Timed(best.words)
               PROVE  /\ Spells(placed, Tokens(best.words))
                      /\ Sec >= 20 /\ dur >= 10 /\ dur >= Len(placed) => Following(placed, dur)
    OBVIOUS
  <2>1. Len(stable) = Len(best.words)
    <3>1. ~ (Len(stable) < Len(best.words))
      BY DEF StoreChannel, StillToSettle
    <3>2. stable \in Seq(SettledWord) /\ Len(stable) <= Len(best.words)
      BY <1>2 DEF Settling
    <3> QED
      BY <1>2, <3>1, <3>2
  <2>2. /\ placed \in Seq(SettledWord) /\ Len(placed) = Len(best.words)
        /\ \A i \in 1 .. Len(best.words) : placed[i].tok = best.words[i].tok
        /\ Sec >= 20 /\ dur >= 10 /\ dur >= Len(best.words) => Following(placed, dur)
    BY <1>2, <2>1, SettledWords
  <2>3. best.words # <<>>
    BY DEF Timed
  <2>4. /\ Len(Tokens(best.words)) = Len(best.words)
        /\ \A i \in 1 .. Len(best.words) : Tokens(best.words)[i] = best.words[i].tok
    BY <1>2, <2>3, SaidTokens
  <2> HIDE DEF placed
  <2> QED
    BY <2>2, <2>4 DEF Spells
<1> HIDE DEF placed, speech
<1>5. /\ a.how \in {"model", "segments", "even"}
      /\ Spells(a.words, said)
      /\ Room(Len(a.words), speech, dur) => Following(a.words, dur)
      /\ a.how = "segments" => \A i \in 1 .. Len(a.words) : Within(a.words[i], speech)
  BY <1>2, <1>3, <1>4, AlignedWords
<1>6. said \in Seq(Token)
  BY <1>2, SaidTokens
<1> HIDE DEF a, said
<1>7. /\ RowPlaced(words, said, speech, dur)
      /\ (\A i \in 1 .. Len(a.words) : Within(a.words[i], speech)) =>
            \A i \in 1 .. Len(words) : Within(words[i], speech)
  BY <1>2, <1>5, <1>6, DiarizedWords
<1>8. best.pass # "segment_fallback" => said = Said(best.text, Spoken(raw))
  BY <1>2 DEF said
<1> HIDE DEF words
<1>9. RowKnown(row)
  BY <1>2, <1>3, <1>5, <1>6, <1>7, <1>8 DEF RowKnown
<1> QED
  BY <1>1, <1>9

LEMMA StoringKeeps ==
    ASSUME AttemptInv, StoreChannel
    PROVE  AttemptInv'
<1>1. /\ tpc = "aligning" /\ at' = at + 1
      /\ tpc' = IF at = channels THEN "done" ELSE "extracting"
      /\ audio' = Silent /\ best' = Nothing /\ raw' = <<>> /\ stable' = <<>>
      /\ UNCHANGED <<channels, dur, shown, attempts, wavs, orphans>>
  BY DEF StoreChannel
<1>2. at \in 1 .. channels /\ at \in 1 .. MaxChannels
  BY <1>1, TranscriptAssumption DEF AttemptInv
<1>3. RowKnown(stored'[at])
  BY <1>2, NewRowKnown
<1>4. stored' = [c \in 1 .. MaxChannels |-> stored'[c]]
      /\ \A c \in 1 .. MaxChannels : c # at => stored'[c] = stored[c]
  BY DEF StoreChannel, AttemptInv
<1>5. ASSUME NEW c \in 1 .. MaxChannels
      PROVE  RowKnown(stored[c])'
  <2>1. RowKnown(stored'[c])
    BY <1>3, <1>4 DEF AttemptInv
  <2> QED
    BY <1>1, <2>1 DEF RowKnown
<1>6. CandidateKnown' /\ Settling(best'.words, stable', dur')
  BY <1>1, NothingKnown DEF AttemptInv, CandidateKnown
<1>7. AudioKnown'
  BY <1>1, SilentKnown DEF AudioKnown
<1>8. at' \in 1 .. channels' + 1 /\ (tpc' # "done" => at' \in 1 .. channels')
  BY <1>1, <1>2, TranscriptAssumption DEF AttemptInv
<1>9. FilesKnown'
  BY <1>1 DEF AttemptInv, FilesKnown, WavsAccounted, Calling
<1>10. /\ channels' \in 1 .. MaxChannels /\ dur' \in Durations
       /\ tpc' \in Calling \cup {"extracting", "aligning", "failed", "done"}
       /\ \A c \in 1 .. MaxChannels : shown'[c] = Unread
  BY <1>1 DEF AttemptInv
<1> QED
  BY <1>1, <1>4, <1>5, <1>6, <1>7, <1>8, <1>9, <1>10 DEF AttemptInv

LEMMA RetryKeeps ==
    ASSUME AttemptInv, Retry
    PROVE  AttemptInv'
<1>1. /\ tpc = "failed" /\ tpc' = "extracting" /\ at' = 1
      /\ attempts < MaxAttempts /\ attempts' = attempts + 1
      /\ stored' = [c \in 1 .. MaxChannels |-> NoRow]
      /\ audio' = Silent /\ best' = Nothing /\ raw' = <<>> /\ stable' = <<>>
      /\ UNCHANGED <<channels, dur, shown, wavs, orphans>>
  BY DEF Retry
<1>2. /\ channels' \in 1 .. MaxChannels /\ dur' \in Durations
      /\ at' \in 1 .. channels' /\ at' \in 1 .. channels' + 1
      /\ \A c \in 1 .. MaxChannels : shown'[c] = Unread
  BY <1>1, TranscriptAssumption DEF AttemptInv
<1>3. CandidateKnown' /\ Settling(best'.words, stable', dur') /\ AudioKnown'
  BY <1>1, NothingKnown, SilentKnown DEF AttemptInv, CandidateKnown, AudioKnown
<1>4. ASSUME NEW c \in 1 .. MaxChannels
      PROVE  RowKnown(stored[c])'
  <2>1. stored'[c] = NoRow
    BY <1>1
  <2>2. RowKnown(stored'[c])
    BY <2>1, NoRowKnown
  <2> QED
    BY <1>1, <2>2 DEF RowKnown
<1>5. FilesKnown'
  BY <1>1, TranscriptAssumption DEF AttemptInv, FilesKnown, WavsAccounted, Calling
<1>6. stored' = [c \in 1 .. MaxChannels |-> stored'[c]]
  BY <1>1
<1> QED
  BY <1>1, <1>2, <1>3, <1>4, <1>5, <1>6 DEF AttemptInv

\* The words that a repair adds for a row, from its payload or from its words.
LEMMA RepairReadable ==
    ASSUME NEW r, RowKnown(r), dur \in Durations, NEW c,
           NEW speech \in {<<>>, DetectSpeech(r.log, dur)}
    PROVE  Repaired(r, c, speech) # <<>> => Readable(Repaired(r, c, speech), r)
<1> DEFINE source == RepairSource(r)
           all == DetectSpeech(r.log, dur)
           words == Diarized(Aligned(r.text, source, Stabilized(source, dur), dur, speech).words,
                             channels, c)
<1>1. /\ r.text \in Seq(Token) /\ r.raw \in Seq(GivenWord) /\ r.log \in Seq(Event)
      /\ RowPlaced(r.words, r.said, r.speech, dur) /\ r.speech \in {<<>>, all}
      /\ r.pass # "segment_fallback" => r.said = Said(r.text, Spoken(r.raw))
  BY DEF RowKnown
<1>2. dur \in Nat \ {0} /\ Apart(all, dur) /\ Apart(<<>>, dur) /\ Apart(speech, dur)
  BY <1>1, DurationType, SpeechApart
<1>3. Repaired(r, c, speech) = IF Len(r.words) < 2 \/ ~ Unreliable(r.words, dur) THEN <<>>
                               ELSE words
  BY DEF Repaired
<1> HIDE DEF all
<1>4. \A n : Room(n, all, dur) => Room(n, <<>>, dur) /\ Room(n, speech, dur) /\ Room(n, r.speech, dur)
  BY <1>1 DEF Room, all
<1>6. Heard(r.words) /\ Tokens(r.words) = r.said
  BY <1>1 DEF RowPlaced
<1>7. Spoken(r.words) = r.words
  <2>1. r.words \in Seq(Range(r.words)) /\ \A i \in 1 .. Len(r.words) : r.words[i].tok # 0
    BY <1>6 DEF Heard, Token
  <2> QED
    BY <2>1, AllSpoken
<1>8. ASSUME ~ (Len(r.words) < 2)
      PROVE  Readable(words, r)
  <2>1. Heard(source) /\ (r.pass # "segment_fallback" => Said(r.text, source) = r.said)
    <3>1. CASE Spoken(r.raw) # <<>>
      <4>1. source = Spoken(r.raw)
        BY <3>1 DEF RepairSource
      <4>2. Heard(Spoken(r.raw))
        BY <1>1, SpokenType, SpokenHeard
      <4> QED
        BY <1>1, <4>1, <4>2
    <3>2. CASE Spoken(r.raw) = <<>>
      <4>1. source = r.words
        BY <1>7, <3>2 DEF RepairSource
      <4>2. r.words # <<>>
        BY <1>8
      <4>3. Said(r.text, r.words) = r.said
        BY <1>6, <4>2 DEF Said
      <4> QED
        BY <1>6, <4>1, <4>3
    <3> QED
      BY <3>1, <3>2
  <2> HIDE DEF source
  <2>2. RowPlaced(words, Said(r.text, source), speech, dur)
    BY <1>1, <1>2, <2>1, RepairedWords
  <2> HIDE DEF words
  <2> QED
    BY <1>4, <2>1, <2>2 DEF Readable, RowPlaced, all
<1> HIDE DEF words
<1> QED
  BY <1>3, <1>8

LEMMA ReadingKeeps ==
    ASSUME AttemptInv, Read
    PROVE  AttemptInv'
<1>1. /\ tpc = "done"
      /\ UNCHANGED <<channels, dur, tpc, at, audio, best, raw, stable, stored, attempts, wavs, orphans>>
  BY DEF Read
<1>2. AudioKnown' /\ CandidateKnown' /\ FilesKnown' /\ Settling(best'.words, stable', dur')
  BY <1>1 DEF AttemptInv, AudioKnown, CandidateKnown, FilesKnown, WavsAccounted
<1>3. ASSUME NEW c \in 1 .. MaxChannels
      PROVE  RowKnown(stored[c])'
  BY <1>1 DEF AttemptInv, RowKnown
<1>4. ASSUME NEW c \in 1 .. MaxChannels, shown'[c] # Unread
      PROVE  ReadKnown(shown[c], stored[c])'
  <2> DEFINE r == stored[c]
             speech == DetectSpeech(r.log, dur)
  <2>1. shown'[c].kept = r.words
        /\ shown'[c].added \in {<<>>, Repaired(r, c, <<>>), Repaired(r, c, speech)}
    <3>1. PICK ffmpeg :
             shown'[c] =
                IF c > channels THEN Unread
                ELSE [kept  |-> r.words,
                      added |-> CASE ffmpeg[c] = "fails" -> <<>>
                                  [] ffmpeg[c] = "no_duration" -> Repaired(r, c, <<>>)
                                  [] OTHER -> Repaired(r, c, speech)]
      BY DEF Read
    <3> HIDE DEF r, speech
    <3>2. PICK added :
             /\ added = CASE ffmpeg[c] = "fails" -> <<>>
                          [] ffmpeg[c] = "no_duration" -> Repaired(r, c, <<>>)
                          [] OTHER -> Repaired(r, c, speech)
             /\ added \in {<<>>, Repaired(r, c, <<>>), Repaired(r, c, speech)}
      OBVIOUS
    <3> QED
      BY <1>4, <3>1, <3>2
  <2>2. RowKnown(r) /\ dur \in Durations
    BY DEF AttemptInv
  <2> HIDE DEF r, speech
  <2>3. ASSUME NEW heard \in {<<>>, speech}
        PROVE  Repaired(r, c, heard) # <<>> => Readable(Repaired(r, c, heard), r)
    BY <2>2, RepairReadable DEF speech
  <2>4. shown'[c].added # <<>> => Readable(shown'[c].added, r)
    BY <2>1, <2>3
  <2>5. ReadKnown(shown'[c], r)
    BY <2>1, <2>4 DEF ReadKnown
  <2> QED
    BY <1>1, <2>5 DEF ReadKnown, Readable, r
<1> QED
  BY <1>1, <1>2, <1>3, <1>4 DEF AttemptInv

LEMMA NoStepKeeps ==
    ASSUME AttemptInv, UNCHANGED tvars
    PROVE  AttemptInv'
<1>1. UNCHANGED <<channels, dur, tpc, at, audio, best, raw, stable, stored, shown, attempts, wavs, orphans>>
  BY DEF tvars
<1>2. AudioKnown' /\ CandidateKnown' /\ FilesKnown' /\ Settling(best'.words, stable', dur')
  BY <1>1 DEF AttemptInv, AudioKnown, CandidateKnown, FilesKnown, WavsAccounted
<1>3. ASSUME NEW c \in 1 .. MaxChannels
      PROVE  RowKnown(stored[c])' /\ (shown'[c] # Unread => ReadKnown(shown[c], stored[c])')
  BY <1>1 DEF AttemptInv, RowKnown, ReadKnown, Readable
<1>4. \A c \in 1 .. MaxChannels : shown'[c] # Unread => tpc' = "done"
  BY <1>1 DEF AttemptInv
<1> QED
  BY <1>1, <1>2, <1>3, <1>4 DEF AttemptInv

LEMMA AttemptInvariant == TSpec => []AttemptInv
<1>1. AttemptInv /\ [TNext]_tvars => AttemptInv'
  <2> SUFFICES ASSUME AttemptInv, [TNext]_tvars
               PROVE  AttemptInv'
    OBVIOUS
  <2>1. CASE LoadFails \/ Extract \/ ExtractFails \/ ProbeFails
    BY <2>1, ExtractionKeeps
  <2>9. CASE Probe
    BY <2>9, ProbingKeeps
  <2>10. CASE WorkerEnds
    BY <2>10, WorkerEndKeeps
  <2>2. CASE PrimaryPass \/ PrimaryFails \/ RefinedPass \/ RefinedFails
    BY <2>2, WordPassesKeep
  <2>3. CASE NoSegmentPass \/ SegmentPass \/ SegmentFails
    BY <2>3, SegmentPassesKeep
  <2>4. CASE SettleWord
    BY <2>4, SettlingKeeps
  <2>5. CASE StoreChannel
    BY <2>5, StoringKeeps
  <2>6. CASE Retry
    BY <2>6, RetryKeeps
  <2>7. CASE Read
    BY <2>7, ReadingKeeps
  <2>8. CASE UNCHANGED tvars
    BY <2>8, NoStepKeeps
  <2> QED
    BY <2>1, <2>2, <2>3, <2>4, <2>5, <2>6, <2>7, <2>8, <2>9, <2>10 DEF TNext
<1> QED
  BY AttemptStarts, <1>1, PTL DEF TSpec

-----------------------------------------------------------------------------
(* Theorems.                                                               *)

LEMMA ChannelsRange ==
    ASSUME AttemptInv, NEW c \in 1 .. channels
    PROVE  c \in 1 .. MaxChannels
BY TranscriptAssumption DEF AttemptInv

\* The attempt and its rows have their types, and a row has as many words as were said.
THEOREM AttemptTypeCorrect == TSpec => []TTypeOK
<1>1. AttemptInv => TTypeOK
  <2> SUFFICES ASSUME AttemptInv
               PROVE  TTypeOK
    OBVIOUS
  <2>1. /\ channels \in 1 .. MaxChannels /\ dur \in Durations
        /\ tpc \in Calling \cup {"extracting", "aligning", "failed", "done"}
        /\ at \in 1 .. MaxChannels + 1
    BY TranscriptAssumption DEF AttemptInv
  <2>2. /\ audio.dur \in {0, dur}
        /\ best.pass \in {"none", "primary_word", "refined_word", "segment_fallback"}
        /\ best.score \in Int
    BY DEF AttemptInv, AudioKnown, CandidateKnown, Passes
  <2>3. Len(stable) <= Len(best.words)
    BY DEF AttemptInv, Settling
  <2>4. \A c \in 1 .. MaxChannels :
           /\ Len(stored[c].words) = Len(stored[c].said)
           /\ stored[c].how \in {"none", "model", "segments", "even"}
    BY DEF AttemptInv, RowKnown, RowPlaced
  <2>5. attempts \in 1 .. MaxAttempts /\ wavs \in Nat /\ orphans \in 0 .. MaxAttempts
    BY TranscriptAssumption DEF AttemptInv, FilesKnown, WavsAccounted
  <2> QED
    BY <2>1, <2>2, <2>3, <2>4, <2>5 DEF TTypeOK
<1> QED
  BY AttemptInvariant, <1>1, PTL

\* The engine removes the temporary file of a call on every way out of its try block:
\* a file stays only of an attempt that ends before or without that block, and no
\* attempt leaves two, whatever the answers and the number of attempts.
THEOREM TemporaryFilesCounted == TSpec => []WavsAccounted
<1>1. AttemptInv => WavsAccounted
  BY DEF AttemptInv, FilesKnown
<1> QED
  BY AttemptInvariant, <1>1, PTL

\* The units of time are fine enough for the words of every channel, those that are
\* stored and those that the last read added.
WordsHaveRoom ==
    \A c \in 1 .. channels :
        LET speech == DetectSpeech(stored[c].log, dur)
        IN  Room(Len(stored[c].words), speech, dur) /\ Room(Len(shown[c].added), speech, dur)

\* Whatever times the model gives (none, zero, backwards, beyond the end), whatever
\* speech is detected, and whichever way the words are placed: those that process_job
\* stores and those that a read adds as its repair follow one another without
\* overlap, each takes some time, and none is after the end.
THEOREM TimesInOrder == TSpec => [](WordsHaveRoom => WordsInTime)
<1>1. AttemptInv => (WordsHaveRoom => WordsInTime)
  <2> SUFFICES ASSUME AttemptInv, WordsHaveRoom, NEW c \in 1 .. channels
               PROVE  InTime(stored[c].words) /\ InTime(shown[c].added)
    BY DEF WordsInTime
  <2> DEFINE r == stored[c]
             speech == DetectSpeech(r.log, dur)
  <2>1. c \in 1 .. MaxChannels
    BY ChannelsRange
  <2>2. Room(Len(r.words), speech, dur) /\ Room(Len(shown[c].added), speech, dur)
    BY DEF WordsHaveRoom
  <2>3. r.speech \in {<<>>, speech} /\ RowPlaced(r.words, r.said, r.speech, dur)
    BY <2>1 DEF AttemptInv, RowKnown
  <2>4. Following(shown[c].added, dur)
    <3>1. CASE shown[c].added = <<>>
      BY <3>1 DEF Following
    <3>2. CASE shown[c].added # <<>>
      <4>1. shown[c] # Unread
        BY <3>2 DEF Unread
      <4> QED
        BY <2>1, <2>2, <3>2, <4>1 DEF AttemptInv, ReadKnown, Readable
    <3> QED
      BY <3>1, <3>2
  <2> HIDE DEF r, speech
  <2>5. Following(r.words, dur)
    BY <2>2, <2>3 DEF Room, RowPlaced
  <2> QED
    BY <2>4, <2>5 DEF Following, InTime, r
<1> QED
  BY AttemptInvariant, <1>1, PTL

\* Without a repair an answer is the stored words.
LEMMA UnrepairedAnswer ==
    ASSUME NEW words, Heard(words), words # <<>>
    PROVE  Texts(BySeq(words, <<>>)) = Tokens(words)
<1>1. PICK n \in Nat : n = Len(words) /\ words \in Seq(Range(words)) /\ n # 0
  BY EmptySeq DEF Heard
<1>2. Len(<<>>) = 0 /\ Smaller(Len(words), Len(<<>>)) = 0
  BY <1>1 DEF Smaller
<1>3. \A i \in 1 .. n : i > 2 * 0 /\ n > 0 /\ words[i - 0] = words[i] /\ n + 0 = n
  BY <1>1
<1>4. BySeq(words, <<>>) = [i \in 1 .. n |-> words[i]]
  BY <1>1, <1>2, <1>3 DEF BySeq
<1>5. Texts(BySeq(words, <<>>)) = [i \in 1 .. n |-> words[i].tok]
  BY <1>4 DEF Texts
<1>6. Spoken(words) = words
  <2>1. \A i \in 1 .. Len(words) : words[i].tok # 0
    BY DEF Heard, Token
  <2> QED
    BY <1>1, <2>1, AllSpoken
<1>7. DOMAIN words = 1 .. n
  BY <1>1
<1> QED
  BY <1>5, <1>6, <1>7 DEF Tokens

\* With one it is every word twice, when the repair says the same.
LEMMA RepairedAnswer ==
    ASSUME NEW old, NEW new, Heard(old), Heard(new), new # <<>>,
           NEW said, Tokens(old) = said, Tokens(new) = said
    PROVE  Texts(BySeq(old, new)) = Twice(said)
<1>1. ASSUME NEW words, Heard(words)
      PROVE  Tokens(words) = [i \in 1 .. Len(words) |-> words[i].tok]
             /\ Len(words) \in Nat /\ Len(Tokens(words)) = Len(words)
  <2>1. words \in Seq(Range(words)) /\ \A i \in 1 .. Len(words) : words[i].tok # 0
    BY <1>1 DEF Heard, Token
  <2>2. Spoken(words) = words /\ DOMAIN words = 1 .. Len(words) /\ Len(words) \in Nat
    BY <2>1, AllSpoken
  <2>3. Tokens(words) = [i \in 1 .. Len(words) |-> words[i].tok]
    BY <2>2 DEF Tokens
  <2> QED
    BY <2>2, <2>3
<1>2. PICK n \in Nat : n = Len(said) /\ n = Len(old) /\ n = Len(new)
  BY <1>1
<1>3. \A i \in 1 .. n : old[i].tok = said[i] /\ new[i].tok = said[i]
  <2>1. said = [i \in 1 .. n |-> old[i].tok] /\ said = [i \in 1 .. n |-> new[i].tok]
    BY <1>1, <1>2
  <2> QED
    BY <2>1
<1>4. Smaller(Len(old), Len(new)) = n /\ Len(old) + Len(new) = 2 * n
  BY <1>2 DEF Smaller
<1>5. PICK all : all = BySeq(old, new)
  OBVIOUS
<1>6. all = [i \in 1 .. 2 * n |->
                IF i > 2 * n THEN (IF n > n THEN old[i - n] ELSE new[i - n])
                ELSE IF i % 2 = 1 THEN old[(i + 1) \div 2]
                ELSE new[i \div 2]]
  BY <1>2, <1>4, <1>5 DEF BySeq
<1>7. ASSUME NEW i \in 1 .. 2 * n
      PROVE  all[i].tok = said[(i + 1) \div 2]
  <2>1. ~ (i > 2 * n) /\ i \in Nat
    OBVIOUS
  <2>2. CASE i % 2 = 1
    <3>1. (i + 1) \div 2 \in 1 .. n
      BY <2>2
    <3> QED
      BY <1>3, <1>6, <2>1, <2>2, <3>1
  <2>3. CASE i % 2 # 1
    <3>1. i \div 2 \in 1 .. n /\ (i + 1) \div 2 = i \div 2
      BY <2>3
    <3> QED
      BY <1>3, <1>6, <2>1, <2>3, <3>1
  <2> QED
    BY <2>2, <2>3
<1>8. DOMAIN all = 1 .. 2 * n
  BY <1>6
<1> QED
  BY <1>2, <1>5, <1>7, <1>8 DEF Texts, Twice

\* Neither the stabilization nor the even alignment nor the segments nor the speakers
\* lose, repeat or reorder a word.  An answer has every word once, or twice when the
\* channel was repaired for it, in the order in which they were said, unless the words
\* came from the segment pass.
THEOREM EveryWordKept == TSpec => []WordsKept
<1>1. AttemptInv => WordsKept
  <2> SUFFICES ASSUME AttemptInv, NEW c \in 1 .. channels
               PROVE  /\ Tokens(stored[c].words) = stored[c].said
                      /\ stored[c].pass # "segment_fallback" /\ Answer(c) # <<>> =>
                             Texts(Answer(c)) \in {stored[c].said, Twice(stored[c].said)}
    BY DEF WordsKept
  <2>1. c \in 1 .. MaxChannels
    BY ChannelsRange
  <2>2. RowKnown(stored[c]) /\ (shown[c] # Unread => ReadKnown(shown[c], stored[c]))
    BY <2>1 DEF AttemptInv
  <2>3. Heard(stored[c].words) /\ Tokens(stored[c].words) = stored[c].said
    BY <2>2 DEF RowKnown, RowPlaced
  <2>4. ASSUME stored[c].pass # "segment_fallback", Answer(c) # <<>>
        PROVE  Texts(Answer(c)) \in {stored[c].said, Twice(stored[c].said)}
    <3>1. CASE shown[c].added = <<>> /\ shown[c].kept # <<>>
      <4>1. shown[c].kept = stored[c].words
        BY <2>2, <3>1 DEF ReadKnown, Unread
      <4> QED
        BY <2>3, <3>1, <4>1, UnrepairedAnswer DEF Answer
    <3>2. CASE shown[c].added = <<>> /\ shown[c].kept = <<>>
      <4>1. BySeq(<<>>, <<>>) = <<>>
        BY DEF BySeq, Smaller
      <4> QED
        BY <2>4, <3>2, <4>1 DEF Answer
    <3>3. CASE shown[c].added # <<>>
      <4>1. shown[c] # Unread
        BY <3>3 DEF Unread
      <4>2. shown[c].kept = stored[c].words /\ Readable(shown[c].added, stored[c])
        BY <2>2, <3>3, <4>1 DEF ReadKnown
      <4>3. Heard(shown[c].added) /\ Tokens(shown[c].added) = stored[c].said
        BY <2>4, <4>2 DEF Readable
      <4> QED
        BY <2>3, <3>3, <4>2, <4>3, RepairedAnswer DEF Answer
    <3> QED
      BY <3>1, <3>2, <3>3
  <2> QED
    BY <2>3, <2>4
<1> QED
  BY AttemptInvariant, <1>1, PTL

\* A word that the detected speech placed lies within one of its segments: neither the
\* shares of the segments nor their slots put one across a silence.
THEOREM PlacedWithinSpeech == TSpec => []OnlyInSpeech
<1>1. AttemptInv => OnlyInSpeech
  <2> SUFFICES ASSUME AttemptInv, NEW c \in 1 .. channels, stored[c].how = "segments",
                      NEW i \in DOMAIN stored[c].words
               PROVE  Inside(stored[c].words[i], stored[c].speech)
    BY DEF OnlyInSpeech
  <2> DEFINE r == stored[c]
  <2>1. c \in 1 .. MaxChannels
    BY ChannelsRange
  <2>2. \A k \in 1 .. Len(r.words) : Within(r.words[k], r.speech)
    BY <2>1 DEF AttemptInv, RowKnown
  <2>3. Heard(r.words)
    BY <2>1 DEF AttemptInv, RowKnown, RowPlaced
  <2> HIDE DEF r
  <2>4. DOMAIN r.words = 1 .. Len(r.words)
    BY <2>3 DEF Heard
  <2>5. Within(r.words[i], r.speech)
    BY <2>2, <2>4 DEF r
  <2> QED
    BY <2>5 DEF Within, Inside, r
<1> QED
  BY AttemptInvariant, <1>1, PTL

\* The silent units are those that an event of the log begins.
LEMMA SilentUnit ==
    ASSUME NEW log \in Seq(Event), NEW d \in Nat, NEW t \in Nat
    PROVE  t \in SilentUnits(log, d) <=> \E k \in 0 .. Len(log) : QuietFrom(k, log, d, t)
<1> DEFINE n == Len(log)
           Off(k)  == IF k = 0 THEN n > 0 /\ log[1].kind = "end" ELSE log[k].kind = "start"
           From(k) == IF k = 0 THEN 0 ELSE log[k].at
           To(k)   == IF k = n THEN d ELSE Smaller(d, log[k + 1].at)
<1>1. n \in Nat /\ \A k \in 1 .. n : log[k].at \in Nat
  <2>1. n \in Nat /\ \A k \in 1 .. n : log[k] \in Event
    OBVIOUS
  <2> QED
    BY <2>1 DEF Event
<1>2. ASSUME NEW k \in 0 .. n
      PROVE  /\ From(k) \in Nat /\ To(k) \in Nat
             /\ QuietFrom(k, log, d, t) <=> Off(k) /\ From(k) <= t /\ t < To(k)
  <2>1. k # 0 => k \in 1 .. n
    BY <1>1
  <2>2. k # n => k + 1 \in 1 .. n
    BY <1>1
  <2>3. From(k) \in Nat
    BY <1>1, <2>1
  <2>4. To(k) \in Nat
    BY <1>1, <2>2 DEF Smaller
  <2> QED
    BY <2>3, <2>4 DEF QuietFrom
<1>3. SilentUnits(log, d) = UNION {From(k) .. To(k) - 1 : k \in {i \in 0 .. n : Off(i)}}
  BY DEF SilentUnits
<1>4. t \in SilentUnits(log, d) <=> \E k \in 0 .. n : Off(k) /\ t \in From(k) .. To(k) - 1
  <2> HIDE DEF Off, From, To, n
  <2> QED
    BY <1>3
<1>5. ASSUME NEW k \in 0 .. n
      PROVE  t \in From(k) .. To(k) - 1 <=> From(k) <= t /\ t < To(k)
  <2> PICK a \in Nat, b \in Nat : a = From(k) /\ b = To(k)
    BY <1>2
  <2> HIDE DEF From, To
  <2> QED
    OBVIOUS
<1> HIDE DEF Off, From, To
<1> QED
  BY <1>2, <1>4, <1>5 DEF n

\* What is detected agrees with the log of silencedetect.
LEMMA DetectedIsLoud ==
    ASSUME NEW log \in Seq(Event), InTurn(log), NEW d \in Nat \ {0},
           NEW loud \in SUBSET (0 .. d - 1), NEW heard \in SUBSET (0 .. d - 1),
           \A t \in 0 .. d - 1 : t \in loud <=> t \notin SilentUnits(log, d),
           \A t \in 0 .. d - 1 : t \in heard <=> Lies(t, DetectSpeech(log, d))
    PROVE  \/ heard \subseteq loud /\ Brief(loud \ heard)
           \/ heard = 0 .. d - 1 /\ Brief(loud)
<1> DEFINE silences == Silences(log, d)
           segs == Between(silences, d)
           T == {g \in Range(segs) : LongEnough(g)}
           speech == Those(segs, T)
           whole == <<[s |-> 0, e |-> d]>>
<1>1. silences \in Seq(Pauses(d)) /\ d \in Nat
  BY SilencesType
<1>2. Apart(segs, d)
  BY <1>1, BetweenApart
<1>3. DetectSpeech(log, d) = IF silences = <<>> \/ speech = <<>> THEN whole ELSE speech
  BY DEF DetectSpeech
<1>4. ASSUME NEW t \in 0 .. d - 1
      PROVE  /\ Lies(t, segs) <=> t \in loud
             /\ Lies(t, silences) <=> t \in SilentUnits(log, d)
  <2>1. t \in Nat /\ t < d
    BY <1>1
  <2>2. Ordered(silences) /\ (Lies(t, silences) <=> t \in SilentUnits(log, d))
    BY <1>1, <2>1, SilencesAreQuiet, SilentUnit
  <2>3. Lies(t, segs) <=> ~ Lies(t, silences)
    BY <1>1, <2>1, <2>2, BetweenIsLoud
  <2> QED
    BY <2>2, <2>3
<1> HIDE DEF silences
<1>5. \A g \in 1 .. Len(segs) : /\ segs[g].s \in Nat /\ segs[g].e \in Nat
                               /\ segs[g].e <= d /\ segs[g] \in Range(segs)
  <2>1. \A g \in 1 .. Len(segs) : segs[g].s \in Nat /\ segs[g].e \in Nat /\ segs[g].e <= d
    BY <1>1, <1>2, ApartStretches
  <2>2. segs \in Seq(Stretch)
    BY <1>2 DEF Apart
  <2>3. \A g \in 1 .. Len(segs) : segs[g] \in Range(segs)
    BY <2>2 DEF Range
  <2> QED
    BY <2>1, <2>3
<1>6. /\ \A k \in 1 .. Len(speech) : speech[k] \in T /\ \E j \in 1 .. Len(segs) : speech[k] = segs[j]
      /\ \A j \in 1 .. Len(segs) : segs[j] \in T => \E k \in 1 .. Len(speech) : speech[k] = segs[j]
  <2>1. PICK W : W = Stretch
    OBVIOUS
  <2>2. segs \in Seq(W)
    BY <1>2, <2>1 DEF Apart
  <2> HIDE DEF segs, T
  <2> QED
    BY <2>2, ThoseHas
<1>7. T = {g \in Range(segs) : LongEnough(g)}
  OBVIOUS
<1> HIDE DEF segs, speech, T
\* A loud run that is long enough lies in a segment of the speech.
<1>8. ASSUME NEW t \in loud, NEW u \in loud, t .. u \subseteq loud,
             LongEnough([s |-> t, e |-> u + 1])
      PROVE  Lies(t, speech)
  <2>1. t \in Nat /\ u \in Nat /\ t \in 0 .. d - 1 /\ u \in 0 .. d - 1
    BY <1>1
  <2>2. 100 * ((u + 1) - t) >= 3 * Sec /\ Sec \in Nat \ {0}
    BY <1>8, TimeAssumption DEF LongEnough
  <2>3. t <= u
    BY <2>1, <2>2
  <2>4. \A v \in t .. u : Lies(v, segs)
    BY <1>4, <1>8
  <2>5. PICK g \in 1 .. Len(segs) : segs[g].s <= t /\ u + 1 <= segs[g].e
    BY <1>1, <1>2, <2>1, <2>3, <2>4, LieTogether
  <2>6. 100 * (segs[g].e - segs[g].s) >= 3 * Sec
    <3>1. PICK a \in Nat, b \in Nat : a = segs[g].s /\ b = segs[g].e
      BY <1>5
    <3>2. a <= t /\ u + 1 <= b
      BY <2>5, <3>1
    <3>3. PICK x \in Int, y \in Int : x = b - a /\ y = (u + 1) - t
      BY <2>1
    <3>4. x >= y /\ 100 * y >= 3 * Sec
      BY <2>1, <2>2, <3>2, <3>3
    <3>5. PICK z \in Int : z = 3 * Sec
      BY <2>2
    <3>6. 100 * x >= z
      BY <3>4, <3>5
    <3>7. segs[g].e - segs[g].s = x
      BY <3>1, <3>3
    <3> QED
      BY <3>5, <3>6, <3>7
  <2>7. segs[g] \in T
    BY <1>5, <1>7, <2>6 DEF LongEnough
  <2>8. PICK k \in 1 .. Len(speech) : speech[k] = segs[g]
    BY <1>6, <2>7
  <2>9. segs[g].s <= t /\ t < segs[g].e
    BY <1>5, <2>1, <2>3, <2>5
  <2> QED
    BY <2>8, <2>9 DEF Lies
<1>9. CASE silences = <<>> \/ speech = <<>>
  <2>1. heard = 0 .. d - 1
    <3>1. DetectSpeech(log, d) = whole
      BY <1>3, <1>9
    <3>2. Len(whole) = 1 /\ 1 \in 1 .. 1 /\ whole[1].s = 0 /\ whole[1].e = d
      OBVIOUS
    <3> HIDE DEF whole
    <3>3. \A t \in 0 .. d - 1 : Lies(t, whole)
      BY <1>1, <3>2 DEF Lies
    <3> QED
      BY <3>1, <3>3
  <2>2. CASE silences = <<>>
    <3>1. \A t \in 0 .. d - 1 : ~ Lies(t, silences)
      BY <2>2 DEF Lies
    <3>2. heard \subseteq loud
      BY <1>4, <2>1, <3>1
    <3>3. loud \ heard = {}
      BY <2>1
    <3> QED
      BY <3>2, <3>3 DEF Brief
  <2>3. CASE speech = <<>>
    <3>1. \A t : ~ Lies(t, speech)
      BY <2>3 DEF Lies
    <3>2. Brief(loud)
      BY <1>8, <3>1 DEF Brief
    <3> QED
      BY <2>1, <3>2
  <2> QED
    BY <1>9, <2>2, <2>3
<1>10. CASE ~ (silences = <<>> \/ speech = <<>>)
  <2>1. DetectSpeech(log, d) = speech
    BY <1>3, <1>10
  <2>2. ASSUME NEW t \in heard
        PROVE  t \in loud
    <3>1. t \in 0 .. d - 1 /\ Lies(t, speech)
      BY <2>1
    <3>2. PICK k \in 1 .. Len(speech) : speech[k].s <= t /\ t < speech[k].e
      BY <3>1 DEF Lies
    <3>3. PICK j \in 1 .. Len(segs) : speech[k] = segs[j]
      BY <1>6
    <3>4. Lies(t, segs)
      BY <3>2, <3>3 DEF Lies
    <3> QED
      BY <1>4, <3>1, <3>4
  <2>3. Brief(loud \ heard)
    <3> SUFFICES ASSUME NEW t \in loud \ heard, NEW u \in loud \ heard, t .. u \subseteq loud \ heard,
                        LongEnough([s |-> t, e |-> u + 1])
                 PROVE  FALSE
      BY DEF Brief
    <3>1. t \in loud /\ u \in loud /\ t .. u \subseteq loud /\ t \in 0 .. d - 1 /\ t \notin heard
      OBVIOUS
    <3>2. Lies(t, speech)
      BY <1>8, <3>1
    <3> QED
      BY <2>1, <3>1, <3>2
  <2> QED
    BY <2>2, <2>3
<1> QED
  BY <1>9, <1>10

\* The speech of a channel holds no unit of silence and misses none of speech: reading
\* the log, sweeping over its silences and dropping what is too short agree with the
\* log unit by unit, for every log in which starts and ends alternate.
THEOREM SpeechIsHeard == TSpec => []SpeechIsNotSilence
<1>1. AttemptInv => SpeechIsNotSilence
  <2> SUFFICES ASSUME AttemptInv, audio.dur > 0
               PROVE  SpeechIsNotSilence
    BY DEF SpeechIsNotSilence
  <2> DEFINE speech == audio.speech
             loud == (0 .. dur - 1) \ SilentUnits(audio.log, dur)
             heard == UNION {speech[g].s .. speech[g].e - 1 : g \in DOMAIN speech}
             spoken == {t \in 0 .. dur - 1 : Lies(t, speech)}
  <2>1. dur \in Nat \ {0} /\ dur \in Nat /\ dur \in Durations
    BY DurationType DEF AttemptInv
  <2>2. /\ audio.log \in Seq(Event) /\ InTurn(audio.log)
        /\ speech = DetectSpeech(audio.log, dur)
    BY <2>1 DEF AttemptInv, AudioKnown
  <2>3. Apart(speech, dur)
    BY <2>1, <2>2, DetectedApart
  <2> HIDE DEF speech
  <2>4. heard = spoken
    <3>1. speech \in Seq(Stretch)
      BY <2>3 DEF Apart
    <3>2. DOMAIN speech = 1 .. Len(speech)
      BY <3>1
    <3>3. \A g \in 1 .. Len(speech) : speech[g].s \in Nat /\ speech[g].e \in Nat /\ speech[g].e <= dur
      BY <2>1, <2>3, ApartStretches
    <3>4. ASSUME NEW t \in heard
          PROVE  t \in spoken
      <4>1. PICK g \in 1 .. Len(speech) : t \in speech[g].s .. speech[g].e - 1
        BY <3>2
      <4>2. t \in 0 .. dur - 1 /\ speech[g].s <= t /\ t < speech[g].e
        BY <2>1, <3>3, <4>1
      <4> QED
        BY <4>2 DEF Lies
    <3>5. ASSUME NEW t \in spoken
          PROVE  t \in heard
      <4>1. PICK g \in 1 .. Len(speech) : speech[g].s <= t /\ t < speech[g].e
        BY DEF Lies
      <4>2. t \in speech[g].s .. speech[g].e - 1
        BY <2>1, <3>3, <4>1
      <4> QED
        BY <3>2, <4>2
    <3> QED
      BY <3>4, <3>5
  <2>5. \/ spoken \subseteq loud /\ Brief(loud \ spoken)
        \/ spoken = 0 .. dur - 1 /\ Brief(loud)
    <3>1. PICK log, d : log = audio.log /\ d = dur
      OBVIOUS
    <3>2. PICK A \in SUBSET (0 .. d - 1), H \in SUBSET (0 .. d - 1) :
             /\ A = (0 .. d - 1) \ SilentUnits(log, d)
             /\ H = {t \in 0 .. d - 1 : Lies(t, DetectSpeech(log, d))}
      OBVIOUS
    <3>3. /\ \A t \in 0 .. d - 1 : t \in A <=> t \notin SilentUnits(log, d)
          /\ \A t \in 0 .. d - 1 : t \in H <=> Lies(t, DetectSpeech(log, d))
      BY <3>2
    <3>4. log \in Seq(Event) /\ InTurn(log) /\ d \in Nat \ {0}
      BY <2>1, <2>2, <3>1
    <3>5. \/ H \subseteq A /\ Brief(A \ H)
          \/ H = 0 .. d - 1 /\ Brief(A)
      BY <3>3, <3>4, DetectedIsLoud
    <3> QED
      BY <2>2, <3>1, <3>2, <3>5
  <2>6. \/ heard \subseteq loud /\ Brief(loud \ heard)
        \/ heard = 0 .. dur - 1 /\ Brief(loud)
    <3> HIDE DEF heard, loud, spoken
    <3> QED
      BY <2>4, <2>5
  <2> QED
    BY <2>6 DEF SpeechIsNotSilence, speech
<1> QED
  BY AttemptInvariant, <1>1, PTL

-----------------------------------------------------------------------------
(* The exports.                                                            *)

\* The last entry of a sequence and those before it.
LEMMA FrontAndLast ==
    ASSUME NEW C, NEW x \in Seq(C), x # <<>>
    PROVE  /\ Front(x) \in Seq(C) /\ Last(x) \in C /\ Last(x) = x[Len(x)]
           /\ Len(x) >= 1 /\ Len(Front(x)) = Len(x) - 1
           /\ \A i \in 1 .. Len(x) - 1 : Front(x)[i] = x[i]
           /\ x = Append(Front(x), Last(x))
<1> DEFINE n == Len(x)
           f == Front(x)
           all == Append(f, Last(x))
<1>1. n \in Nat /\ n >= 1
  BY EmptySeq
<1>2. n \in 1 .. n
  BY <1>1
<1>3. Last(x) \in C /\ Last(x) = x[n]
  BY <1>2 DEF Last
<1>4. f = SubSeq(x, 1, n - 1)
  BY DEF Front
<1>5. \A i \in 1 .. n - 1 : i \in 1 .. n
  BY <1>1
<1>6. f \in Seq(C)
  BY <1>1, <1>4, <1>5
<1>7. Len(f) = n - 1 /\ \A i \in 1 .. n - 1 : f[i] = x[i]
  <2>1. /\ Len(SubSeq(x, 1, n - 1)) = IF 1 <= n - 1 THEN (n - 1) - 1 + 1 ELSE 0
        /\ \A i \in 1 .. (n - 1) - 1 + 1 : SubSeq(x, 1, n - 1)[i] = x[1 + i - 1]
    <3>1. 1 \in 1 .. n + 1 /\ n - 1 \in 0 .. n
      BY <1>1
    <3> QED
      BY <3>1, SubSeqProperties
  <2> HIDE DEF n, f
  <2> QED
    BY <1>1, <1>4, <2>1
<1>8. \A i \in 1 .. n - 1 : f[i] = x[i]
  BY <1>7
<1> HIDE DEF n, f
<1>9. all \in Seq(C) /\ Len(all) = (n - 1) + 1 /\ all[(n - 1) + 1] = Last(x)
      /\ \A i \in 1 .. n - 1 : all[i] = f[i]
  BY <1>3, <1>6, <1>7
<1> HIDE DEF all
<1>10. Len(all) = n /\ \A i \in 1 .. n : all[i] = x[i]
  <2>1. (n - 1) + 1 = n /\ \A i \in 1 .. n : i \in 1 .. n - 1 \/ i = n
    BY <1>1
  <2> QED
    BY <1>3, <1>8, <1>9, <2>1
<1>11. all = x
  <2>1. all \in Seq(C) /\ x \in Seq(C) /\ Len(all) = Len(x)
    BY <1>9, <1>10 DEF n
  <2>2. \A i \in 1 .. Len(x) : all[i] = x[i]
    BY <1>10 DEF n
  <2> QED
    BY <2>1, <2>2, SeqEqual
<1> QED
  BY <1>1, <1>3, <1>6, <1>7, <1>8, <1>11 DEF n, f, all

\* The operators of the exports, turn by turn.
CueMore(done, w) ==
    IF done = <<>> \/ NewCue(Last(done), w) THEN Append(done, <<w>>)
    ELSE Append(Front(done), Append(Last(done), w))

GroupMore(done, w) ==
    IF \E g \in DOMAIN done : done[g].spk = w.spk
    THEN [g \in DOMAIN done |->
             IF done[g].spk = w.spk THEN [done[g] EXCEPT !.said = Append(@, w.tok)] ELSE done[g]]
    ELSE Append(done, [spk |-> w.spk, said |-> <<w.tok>>])

TimeMore(done, x) ==
    InsertAt(done, Cardinality({i \in DOMAIN done : NotLater(done[i], x)}) + 1, x)

ListMore(done, row, c, d) ==
    LET cues == Cues(row.words)
        bare == Bare(row.text, c, done.at, d)
    IN  IF cues # <<>>
        THEN [all |-> done.all \o [k \in DOMAIN cues |-> Entry(cues[k])], at |-> done.at]
        ELSE IF row.text = <<>> THEN done
        ELSE [all |-> Append(done.all, bare), at |-> bare.e + Sec \div 10]

\* Subtitles of words of W.
CueOf(W) == Seq(W) \ {<<>>}

\* A group of words.
Group(W) == [spk : {w.spk : w \in W}, said : Seq(Token)]

\* The loop of _build_srt_entries.
LEMMA CueTurns ==
    ASSUME NEW W, NEW words \in Seq(W)
    PROVE  \E h \in [0 .. Len(words) -> Seq(CueOf(W))] :
              /\ Cues(words) = h[Len(words)]
              /\ h[0] = <<>>
              /\ \A i \in 1 .. Len(words) : h[i] = CueMore(h[i - 1], words[i])
<1> DEFINE n == Len(words)
           Turn(g, i) == IF i = 0 THEN <<>> ELSE CueMore(g[i - 1], words[i])
           Run(g) == g = [i \in 0 .. n |-> Turn(g, i)]
           S == Seq(CueOf(W))
           step == [i \in Nat |-> [x \in S |-> IF i \in 1 .. n THEN CueMore(x, words[i]) ELSE x]]
<1>1. Cues(words) = (CHOOSE g : Run(g))[n]
  BY DEF Cues, CueMore
<1>2. n \in Nat
  OBVIOUS
<1>3. ASSUME NEW x \in S, NEW i \in 1 .. n
      PROVE  CueMore(x, words[i]) \in S
  <2> PICK w \in W : w = words[i]
    OBVIOUS
  <2> PICK C : C = CueOf(W)
    OBVIOUS
  <2>1. <<w>> \in C
    BY DEF CueOf
  <2>2. x \in Seq(C)
    OBVIOUS
  <2>3. Append(x, <<w>>) \in Seq(C)
    BY <2>1, <2>2
  <2>4. ASSUME x # <<>>
        PROVE  Append(Front(x), Append(Last(x), w)) \in Seq(C)
    <3>1. Front(x) \in Seq(C) /\ Last(x) \in C
      BY <2>2, <2>4, FrontAndLast
    <3>2. Last(x) \in Seq(W)
      BY <3>1 DEF CueOf
    <3>3. Append(Last(x), w) \in Seq(W) /\ Append(Last(x), w) # <<>>
      <4> PICK y \in Seq(W) : y = Last(x)
        BY <3>2
      <4>1. Append(y, w) \in Seq(W) /\ Append(y, w) # <<>>
        BY AppendProperties
      <4> QED
        BY <4>1
    <3>4. Append(Last(x), w) \in C
      BY <3>3 DEF CueOf
    <3> QED
      BY <3>1, <3>4
  <2> QED
    BY <2>3, <2>4 DEF CueMore
<1> HIDE DEF n
<1>4. step \in [Nat -> [S -> S]]
  BY <1>3
<1>5. <<>> \in S
  OBVIOUS
<1> HIDE DEF step, S
<1>6. PICK g \in [0 .. n -> S] : IsRun(g, <<>>, step, n)
  BY <1>2, <1>4, <1>5, Recursion
<1>7. ASSUME NEW i \in 0 .. n
      PROVE  g[i] = Turn(g, i)
  <2>1. CASE i = 0
    BY <1>6, <2>1 DEF IsRun
  <2>2. CASE i # 0
    <3>1. i \in Nat /\ i - 1 \in 0 .. n /\ i \in 1 .. n
      BY <1>2, <2>2
    <3>2. g[i] = step[i][g[i - 1]] /\ g[i - 1] \in S
      BY <1>6, <3>1 DEF IsRun
    <3> QED
      BY <2>2, <3>1, <3>2 DEF step
  <2> QED
    BY <2>1, <2>2
<1> HIDE DEF Turn
<1>8. Run(g)
  <2>1. g = [i \in 0 .. n |-> g[i]]
    BY <1>6
  <2> QED
    BY <1>7, <2>1
<1> DEFINE h == CHOOSE f : Run(f)
<1>9. Run(h)
  BY <1>8
<1> HIDE DEF h
<1>10. h = [i \in 0 .. n |-> Turn(h, i)]
  BY <1>9
<1>11. \A i \in 0 .. n : h[i] = Turn(h, i)
  BY <1>9
<1> HIDE DEF Run
<1>12. h[0] = <<>> /\ \A i \in 1 .. n : h[i] = CueMore(h[i - 1], words[i])
  <2>1. 0 \in 0 .. n /\ \A i \in 1 .. n : i \in 0 .. n /\ i # 0
    BY <1>2
  <2> QED
    BY <1>11, <2>1 DEF Turn
<1>13. \A i \in 0 .. n : h[i] \in S
  <2>1. ASSUME NEW i \in 1 .. n, h[i - 1] \in S
        PROVE  h[i] \in S
    BY <1>3, <1>12, <2>1
  <2>2. h[0] \in S
    BY <1>5, <1>12
  <2> QED
    BY <1>2, <2>1, <2>2, RunType
<1>14. h \in [0 .. n -> S]
  <2>1. \A i \in 0 .. n : Turn(h, i) \in S
    BY <1>11, <1>13
  <2> QED
    BY <1>10, <2>1
<1>15. Cues(words) = h[n]
  BY <1>1 DEF h
<1> QED
  BY <1>12, <1>14, <1>15 DEF n, S

\* All words of the subtitles.
LEMMA JoinedTurns ==
    ASSUME NEW W, NEW cues \in Seq(Seq(W))
    PROVE  \E h \in [0 .. Len(cues) -> Seq(W)] :
              /\ Joined(cues) = h[Len(cues)]
              /\ h[0] = <<>>
              /\ \A i \in 1 .. Len(cues) : h[i] = h[i - 1] \o cues[i]
<1> DEFINE n == Len(cues)
           Turn(g, i) == IF i = 0 THEN <<>> ELSE g[i - 1] \o cues[i]
           Run(g) == g = [i \in 0 .. n |-> Turn(g, i)]
           S == Seq(W)
           step == [i \in Nat |-> [x \in S |-> IF i \in 1 .. n THEN x \o cues[i] ELSE x]]
<1>1. Joined(cues) = (CHOOSE g : Run(g))[n]
  BY DEF Joined
<1>2. n \in Nat
  OBVIOUS
<1>3. ASSUME NEW x \in S, NEW i \in 1 .. n
      PROVE  x \o cues[i] \in S
  <2>1. cues[i] \in Seq(W)
    OBVIOUS
  <2> QED
    BY <2>1
<1> HIDE DEF n
<1>4. step \in [Nat -> [S -> S]]
  BY <1>3
<1>5. <<>> \in S
  OBVIOUS
<1> HIDE DEF step, S
<1>6. PICK g \in [0 .. n -> S] : IsRun(g, <<>>, step, n)
  BY <1>2, <1>4, <1>5, Recursion
<1>7. ASSUME NEW i \in 0 .. n
      PROVE  g[i] = Turn(g, i)
  <2>1. CASE i = 0
    BY <1>6, <2>1 DEF IsRun
  <2>2. CASE i # 0
    <3>1. i \in Nat /\ i - 1 \in 0 .. n /\ i \in 1 .. n
      BY <1>2, <2>2
    <3>2. g[i] = step[i][g[i - 1]] /\ g[i - 1] \in S
      BY <1>6, <3>1 DEF IsRun
    <3> QED
      BY <2>2, <3>1, <3>2 DEF step
  <2> QED
    BY <2>1, <2>2
<1> HIDE DEF Turn
<1>8. Run(g)
  <2>1. g = [i \in 0 .. n |-> g[i]]
    BY <1>6
  <2> QED
    BY <1>7, <2>1
<1> DEFINE h == CHOOSE f : Run(f)
<1>9. Run(h)
  BY <1>8
<1> HIDE DEF h
<1>10. h = [i \in 0 .. n |-> Turn(h, i)]
  BY <1>9
<1>11. \A i \in 0 .. n : h[i] = Turn(h, i)
  BY <1>9
<1> HIDE DEF Run
<1>12. h[0] = <<>> /\ \A i \in 1 .. n : h[i] = h[i - 1] \o cues[i]
  <2>1. 0 \in 0 .. n /\ \A i \in 1 .. n : i \in 0 .. n /\ i # 0
    BY <1>2
  <2> QED
    BY <1>11, <2>1 DEF Turn
<1>13. \A i \in 0 .. n : h[i] \in S
  <2>1. ASSUME NEW i \in 1 .. n, h[i - 1] \in S
        PROVE  h[i] \in S
    BY <1>3, <1>12, <2>1
  <2>2. h[0] \in S
    BY <1>5, <1>12
  <2> QED
    BY <1>2, <2>1, <2>2, RunType
<1>14. h \in [0 .. n -> S]
  <2>1. \A i \in 0 .. n : Turn(h, i) \in S
    BY <1>11, <1>13
  <2> QED
    BY <1>10, <2>1
<1>15. Joined(cues) = h[n]
  BY <1>1 DEF h
<1> QED
  BY <1>12, <1>14, <1>15 DEF n, S

LEMMA JoinedAppended ==
    ASSUME NEW W, NEW x \in Seq(Seq(W)), NEW c \in Seq(W)
    PROVE  Joined(Append(x, c)) = Joined(x) \o c /\ Joined(x) \in Seq(W)
<1> DEFINE n == Len(x)
           y == Append(x, c)
<1>1. n \in Nat /\ y \in Seq(Seq(W)) /\ Len(y) = n + 1 /\ y[n + 1] = c
      /\ \A i \in 1 .. n : y[i] = x[i]
  BY AppendProperties
<1> HIDE DEF y
<1>2. PICK u \in [0 .. Len(x) -> Seq(W)] :
         /\ Joined(x) = u[Len(x)]
         /\ u[0] = <<>>
         /\ \A i \in 1 .. Len(x) : u[i] = u[i - 1] \o x[i]
  BY JoinedTurns
<1>3. PICK v \in [0 .. Len(y) -> Seq(W)] :
         /\ Joined(y) = v[Len(y)]
         /\ v[0] = <<>>
         /\ \A i \in 1 .. Len(y) : v[i] = v[i - 1] \o y[i]
  BY <1>1, JoinedTurns
<1> HIDE DEF n
<1> DEFINE T == {i \in 0 .. n : v[i] = u[i]}
<1>4. 0 \in T
  BY <1>1, <1>2, <1>3
<1>5. ASSUME NEW i \in 1 .. n, i - 1 \in T
      PROVE  i \in T
  <2>1. i \in 0 .. n /\ i \in 1 .. Len(y)
    BY <1>1
  <2>2. v[i] = v[i - 1] \o y[i] /\ u[i] = u[i - 1] \o x[i] /\ y[i] = x[i] /\ v[i - 1] = u[i - 1]
    BY <1>1, <1>2, <1>3, <1>5, <2>1 DEF n
  <2> QED
    BY <2>1, <2>2
<1> HIDE DEF T
<1>6. \A i \in 0 .. n : i \in T
  BY <1>1, <1>4, <1>5, TurnByTurn
<1>7. n \in T /\ n + 1 \in 1 .. Len(y) /\ (n + 1) - 1 = n
  BY <1>1, <1>6
<1>8. v[n] = u[n]
  BY <1>7 DEF T
<1>9. v[n + 1] = v[n] \o c
  <2>1. v[n + 1] = v[(n + 1) - 1] \o y[n + 1]
    BY <1>3, <1>7
  <2> QED
    BY <1>1, <1>7, <2>1
<1>10. u[n] \in Seq(W)
  <2>1. n \in 0 .. Len(x)
    BY <1>1 DEF n
  <2> QED
    BY <1>2, <2>1
<1> QED
  BY <1>1, <1>2, <1>3, <1>8, <1>9, <1>10 DEF n, y

LEMMA CueAdds ==
    ASSUME NEW W, NEW x \in Seq(CueOf(W)), NEW w \in W
    PROVE  Joined(CueMore(x, w)) = Joined(x) \o <<w>>
<1>1. CueOf(W) \subseteq Seq(W) /\ x \in Seq(Seq(W)) /\ <<w>> \in Seq(W)
  BY DEF CueOf
<1>2. CASE x = <<>> \/ NewCue(Last(x), w)
  <2>1. CueMore(x, w) = Append(x, <<w>>)
    BY <1>2 DEF CueMore
  <2> QED
    BY <1>1, <2>1, JoinedAppended
<1>3. CASE ~ (x = <<>> \/ NewCue(Last(x), w))
  <2>1. PICK f : f = Front(x)
    OBVIOUS
  <2>2. PICK l : l = Last(x)
    OBVIOUS
  <2>3. f \in Seq(CueOf(W)) /\ l \in CueOf(W) /\ x = Append(f, l)
    BY <1>3, <2>1, <2>2, FrontAndLast
  <2>4. f \in Seq(Seq(W)) /\ l \in Seq(W)
    BY <1>1, <2>3
  <2>5. Append(l, w) = l \o <<w>> /\ Append(l, w) \in Seq(W)
    BY <2>4, AppendIsConcat
  <2>6. CueMore(x, w) = Append(f, Append(l, w))
    BY <1>3, <2>1, <2>2 DEF CueMore
  <2>7. Joined(x) = Joined(f) \o l /\ Joined(f) \in Seq(W)
    BY <2>3, <2>4, JoinedAppended
  <2>8. Joined(CueMore(x, w)) = Joined(f) \o (l \o <<w>>)
    BY <2>4, <2>5, <2>6, JoinedAppended
  <2>9. (Joined(f) \o l) \o <<w>> = Joined(f) \o (l \o <<w>>)
    <3>1. PICK a \in Seq(W) : a = Joined(f)
      BY <2>7
    <3>2. PICK b \in Seq(W) : b = l
      BY <2>4
    <3>3. PICK u \in Seq(W) : u = <<w>>
      BY <1>1
    <3>4. (a \o b) \o u = a \o (b \o u)
      OBVIOUS
    <3> QED
      BY <3>1, <3>2, <3>3, <3>4
  <2> QED
    BY <2>7, <2>8, <2>9
<1> QED
  BY <1>2, <1>3

\* A subtitle of one speaker, without a long pause, and not too long.
Tight(cue) ==
    /\ Len(cue) <= CueSize
    /\ \A i \in 1 .. Len(cue) : cue[i].spk = cue[1].spk
    /\ \A i \in 2 .. Len(cue) : 10 * (cue[i].s - cue[i - 1].e) <= 9 * Sec

LEMMA CueBegins ==
    ASSUME NEW W, NEW w \in W
    PROVE  <<w>> \in CueOf(W) /\ Tight(<<w>>)
<1>1. <<w>> \in Seq(W) /\ <<w>> # <<>> /\ Len(<<w>>) = 1
  OBVIOUS
<1>2. 1 <= CueSize
  BY CueAssumption
<1>3. \A i \in 1 .. 1 : i = 1
  OBVIOUS
<1>4. 2 .. 1 = {}
  OBVIOUS
<1> QED
  BY <1>1, <1>2, <1>3, <1>4 DEF CueOf, Tight

LEMMA CueGrows ==
    ASSUME NEW W, \A w \in W : w.s \in Nat /\ w.e \in Nat,
           NEW c \in CueOf(W), Tight(c), NEW w \in W, ~ NewCue(c, w)
    PROVE  Append(c, w) \in CueOf(W) /\ Tight(Append(c, w))
<1> DEFINE n == Len(c)
           x == Append(c, w)
<1>1. c \in Seq(W) /\ n \in Nat /\ n >= 1
  BY EmptySeq DEF CueOf
<1>2. x \in Seq(W) /\ x # <<>> /\ Len(x) = n + 1 /\ x[n + 1] = w
      /\ \A i \in 1 .. n : x[i] = c[i]
  BY <1>1, AppendProperties
<1>3. n < CueSize /\ w.spk = c[n].spk /\ ~ (10 * (w.s - c[n].e) > 9 * Sec)
  BY <1>1, CueAssumption DEF NewCue
<1> HIDE DEF x
<1>4. 1 \in 1 .. n /\ n \in 1 .. n /\ \A i \in 1 .. n + 1 : i \in 1 .. n \/ i = n + 1
  BY <1>1
<1>5. ASSUME NEW i \in 1 .. n + 1
      PROVE  x[i].spk = x[1].spk
  <2>1. \A k \in 1 .. n : c[k].spk = c[1].spk
    BY DEF Tight
  <2> QED
    BY <1>2, <1>3, <1>4, <2>1
<1>6. ASSUME NEW i \in 2 .. n + 1
      PROVE  10 * (x[i].s - x[i - 1].e) <= 9 * Sec
  <2>1. CASE i \in 2 .. n
    <3>1. i \in 1 .. n /\ i - 1 \in 1 .. n
      BY <1>1, <2>1
    <3>2. 10 * (c[i].s - c[i - 1].e) <= 9 * Sec
      BY <2>1 DEF Tight
    <3> QED
      BY <1>2, <3>1, <3>2
  <2>2. CASE i = n + 1
    <3>1. i - 1 = n /\ x[i] = w /\ x[i - 1] = c[n]
      BY <1>1, <1>2, <1>4, <2>2
    <3>2. c[n] \in W
      BY <1>1, <1>4
    <3> PICK a \in Nat, b \in Nat : a = w.s /\ b = c[n].e
      BY <3>2
    <3>3. ~ (10 * (a - b) > 9 * Sec) /\ Sec \in Nat
      BY <1>3, TimeAssumption
    <3>4. 10 * (a - b) <= 9 * Sec
      BY <3>3
    <3> QED
      BY <3>1, <3>4
  <2> QED
    BY <1>1, <2>1, <2>2
<1>7. n + 1 <= CueSize
  BY <1>1, <1>3, CueAssumption
<1> QED
  BY <1>2, <1>5, <1>6, <1>7 DEF CueOf, Tight, x

\* The subtitles of a channel hold its words, in order, and each is tight.
LEMMA CuesHold ==
    ASSUME NEW W, \A w \in W : w.s \in Nat /\ w.e \in Nat, NEW words \in Seq(W)
    PROVE  LET cues == Cues(words)
           IN  /\ cues \in Seq(CueOf(W)) /\ Joined(cues) = words
               /\ \A k \in 1 .. Len(cues) : Tight(cues[k])
<1> DEFINE n == Len(words)
           Upto(i) == SubSeq(words, 1, i)
<1>1. PICK C : C = CueOf(W)
  OBVIOUS
<1>2. PICK h \in [0 .. Len(words) -> Seq(C)] :
         /\ Cues(words) = h[Len(words)]
         /\ h[0] = <<>>
         /\ \A i \in 1 .. Len(words) : h[i] = CueMore(h[i - 1], words[i])
  BY <1>1, CueTurns
<1>3. n \in Nat /\ Upto(0) = <<>> /\ Upto(n) = words
  BY SubSeqEmpty, SubSeqFull
<1>4. ASSUME NEW i \in 1 .. n
      PROVE  Upto(i) = Upto(i - 1) \o <<words[i]>> /\ Upto(i - 1) \in Seq(W)
  <2>1. \A k \in 1 .. i : k \in 1 .. n
    BY <1>3
  <2>2. \A k \in 1 .. i : words[k] \in W
    BY <2>1
  <2>3. i \in Int /\ 1 <= i /\ \A k \in 1 .. i - 1 : k \in 1 .. i
    OBVIOUS
  <2>4. Upto(i) = Upto(i - 1) \o <<words[i]>>
    <3>1. 1 \in 1 .. Len(words) /\ i \in 1 .. Len(words)
      BY <1>3
    <3> QED
      BY <3>1, SubSeqRecursiveSecond
  <2>5. Upto(i - 1) \in Seq(W)
    BY <2>2, <2>3, SubSeqProperties
  <2> QED
    BY <2>4, <2>5
<1> HIDE DEF Upto, n
<1> DEFINE Good(x, i) == Joined(x) = Upto(i) /\ \A k \in 1 .. Len(x) : Tight(x[k])
           Q == {i \in 0 .. n : Good(h[i], i)}
<1>5. C \subseteq Seq(W) /\ Seq(C) \subseteq Seq(Seq(W))
  BY <1>1 DEF CueOf
<1>6. 0 \in Q
  <2>1. Joined(<<>>) = <<>>
    <3>1. <<>> \in Seq(Seq(W)) /\ Len(<<>>) = 0
      OBVIOUS
    <3>2. PICK g \in [0 .. Len(<<>>) -> Seq(W)] : Joined(<<>>) = g[Len(<<>>)] /\ g[0] = <<>>
      BY <3>1, JoinedTurns
    <3> QED
      BY <3>1, <3>2
  <2>2. h[0] = <<>> /\ Len(<<>>) = 0 /\ 0 \in 0 .. n
    BY <1>2, <1>3
  <2>3. Good(h[0], 0)
    BY <1>3, <2>1, <2>2
  <2> HIDE DEF Good
  <2> QED
    BY <2>2, <2>3
<1>7. ASSUME NEW i \in 1 .. n, i - 1 \in Q
      PROVE  i \in Q
  <2> PICK w : w = words[i]
    OBVIOUS
  <2> PICK x \in Seq(C) : x = h[i - 1]
    BY <1>7, <1>2 DEF n
  <2>1. w \in W /\ Good(x, i - 1) /\ i \in 0 .. n
    BY <1>3, <1>7 DEF n
  <2>2. h[i] = CueMore(x, w)
    BY <1>2 DEF n
  <2>3. Upto(i) = Upto(i - 1) \o <<w>> /\ Upto(i - 1) \in Seq(W) /\ <<w>> \in Seq(W)
    <3>1. Upto(i) = Upto(i - 1) \o <<words[i]>> /\ Upto(i - 1) \in Seq(W)
      BY <1>4
    <3>2. <<w>> \in Seq(W) /\ <<w>> = <<words[i]>>
      BY <2>1
    <3> QED
      BY <3>1, <3>2
  <2>4. CASE x = <<>> \/ NewCue(Last(x), w)
    <3>1. h[i] = Append(x, <<w>>)
      BY <2>2, <2>4 DEF CueMore
    <3>2. <<w>> \in C /\ Tight(<<w>>)
      BY <1>1, <2>1, CueBegins
    <3>3. Joined(h[i]) = Upto(i)
      BY <1>5, <2>1, <2>3, <3>1, JoinedAppended
    <3>4. /\ Len(h[i]) = Len(x) + 1 /\ h[i][Len(x) + 1] = <<w>> /\ Len(x) \in Nat
          /\ \A k \in 1 .. Len(x) : h[i][k] = x[k]
      BY <3>1, <3>2, AppendProperties
    <3>5. \A k \in 1 .. Len(x) + 1 : k \in 1 .. Len(x) \/ k = Len(x) + 1
      BY <3>4
    <3>6. \A k \in 1 .. Len(h[i]) : Tight(h[i][k])
      BY <2>1, <3>2, <3>4, <3>5
    <3>7. Good(h[i], i)
      BY <3>3, <3>6
    <3> HIDE DEF Good
    <3> QED
      BY <2>1, <3>7
  <2>5. CASE ~ (x = <<>> \/ NewCue(Last(x), w))
    <3> PICK f, l : f = Front(x) /\ l = Last(x)
      OBVIOUS
    <3>1. /\ f \in Seq(C) /\ l \in C /\ l = x[Len(x)] /\ Len(x) >= 1 /\ Len(f) = Len(x) - 1
          /\ (\A k \in 1 .. Len(x) - 1 : f[k] = x[k]) /\ x = Append(f, l)
      BY <2>5, FrontAndLast
    <3> PICK m \in Nat : m = Len(x)
      OBVIOUS
    <3>2. m >= 1 /\ m \in 1 .. m /\ \A k \in 1 .. m : k \in 1 .. m - 1 \/ k = m
      BY <3>1
    <3>3. h[i] = Append(f, Append(l, w))
      BY <2>2, <2>5 DEF CueMore
    <3>4. Append(l, w) \in C /\ Tight(Append(l, w))
      <4>1. Tight(l) /\ ~ NewCue(l, w) /\ l \in CueOf(W)
        BY <1>1, <2>1, <2>5, <3>1, <3>2
      <4> QED
        BY <1>1, <2>1, <4>1, CueGrows
    <3>5. Joined(h[i]) = Upto(i)
      <4>1. Joined(h[i]) = Joined(x) \o <<w>>
        BY <1>1, <2>1, <2>2, CueAdds
      <4> QED
        BY <2>1, <2>3, <4>1
    <3>6. /\ Len(h[i]) = (m - 1) + 1 /\ h[i][(m - 1) + 1] = Append(l, w)
          /\ \A k \in 1 .. m - 1 : h[i][k] = f[k]
      <4>1. PICK q \in C : q = Append(l, w)
        BY <3>4
      <4>2. f \in Seq(C)
        BY <3>1
      <4>3. /\ Len(Append(f, q)) = Len(f) + 1 /\ Append(f, q)[Len(f) + 1] = q
            /\ \A k \in 1 .. Len(f) : Append(f, q)[k] = f[k]
        BY <4>2, AppendProperties
      <4>4. Len(f) = m - 1 /\ h[i] = Append(f, q)
        BY <3>1, <3>3, <4>1
      <4> QED
        BY <4>1, <4>3, <4>4
    <3>7. \A k \in 1 .. Len(h[i]) : Tight(h[i][k])
      <4>1. (m - 1) + 1 = m
        BY <3>2
      <4>2. \A k \in 1 .. m - 1 : h[i][k] = x[k]
        BY <3>1, <3>6
      <4>3. \A k \in 1 .. m : Tight(x[k])
        BY <2>1
      <4> QED
        BY <3>2, <3>4, <3>6, <4>1, <4>2, <4>3
    <3>8. Good(h[i], i)
      BY <3>5, <3>7
    <3> HIDE DEF Good
    <3> QED
      BY <2>1, <3>8
  <2> QED
    BY <2>4, <2>5
<1> HIDE DEF Q
<1>8. \A i \in 0 .. n : i \in Q
  BY <1>3, <1>6, <1>7, TurnByTurn
<1>9. Good(h[n], n) /\ n \in 0 .. n
  <2>1. n \in Q /\ n \in 0 .. n
    BY <1>3, <1>8
  <2> HIDE DEF Good
  <2> QED
    BY <2>1 DEF Q
<1>10. h[n] \in Seq(C)
  BY <1>2, <1>9 DEF n
<1> QED
  BY <1>1, <1>2, <1>3, <1>9, <1>10 DEF n

\* A set of the first numbers up to a bound.
LEMMA PlaceType ==
    ASSUME NEW l \in Nat, NEW K \in SUBSET (1 .. l)
    PROVE  IsFiniteSet(K) /\ Cardinality(K) \in 0 .. l
<1>1. IsFiniteSet(1 .. l) /\ Cardinality(1 .. l) = l
  <2>1. 1 \in Int /\ l \in Int
    OBVIOUS
  <2>2. IsFiniteSet(1 .. l) /\ Cardinality(1 .. l) = IF 1 > l THEN 0 ELSE l - 1 + 1
    BY <2>1, FS_Interval
  <2> QED
    BY <2>2
<1>2. IsFiniteSet(K) /\ Cardinality(K) <= l
  BY <1>1, FS_Subset
<1>3. Cardinality(K) \in Nat
  BY <1>2, FS_CardinalityType
<1> QED
  BY <1>2, <1>3

LEMMA FirstNumbers ==
    ASSUME NEW l \in Nat, NEW K \in SUBSET (1 .. l), \A i \in K : \A k \in 1 .. i : k \in K
    PROVE  K = 1 .. Cardinality(K)
<1>1. CASE K = {}
  <2>1. Cardinality({}) = 0 /\ 1 .. 0 = {}
    BY FS_EmptySet
  <2> QED
    BY <1>1, <2>1
<1>2. CASE K # {}
  <2>1. K \in SUBSET (0 .. l)
    OBVIOUS
  <2>2. PICK m \in K : \A n \in K : n <= m
    BY <1>2, <2>1, GreatestNumber
  <2>3. m \in Nat /\ m >= 1 /\ m \in Int /\ 1 \in Int
    OBVIOUS
  <2>4. \A i \in K : i \in 1 .. m
    BY <2>2, <2>3
  <2>5. \A i \in 1 .. m : i \in K
    OBVIOUS
  <2>6. K = 1 .. m
    BY <2>4, <2>5
  <2>7. Cardinality(1 .. m) = IF 1 > m THEN 0 ELSE m - 1 + 1
    BY <2>3, FS_Interval
  <2>8. Cardinality(1 .. m) = m
    BY <2>3, <2>7
  <2> QED
    BY <2>6, <2>8
<1> QED
  BY <1>1, <1>2

\* An entry is put into a sequence.
LEMMA Inserted ==
    ASSUME NEW W, NEW x \in Seq(W), NEW w \in W, NEW u \in 0 .. Len(x)
    PROVE  LET y == InsertAt(x, u + 1, w)
           IN  /\ y \in Seq(W) /\ Len(y) = Len(x) + 1
               /\ \A k \in 1 .. u : y[k] = x[k]
               /\ y[u + 1] = w
               /\ \A k \in u + 1 .. Len(x) : y[k + 1] = x[k]
<1> DEFINE l == Len(x)
           a == SubSeq(x, 1, u)
           b == SubSeq(x, u + 1, l)
           y == InsertAt(x, u + 1, w)
<1>1. l \in Nat /\ u \in 0 .. l
  OBVIOUS
<1>2. (u + 1) - 1 = u /\ u \in Nat
  BY <1>1
<1>3. y = (a \o <<w>>) \o b
  BY <1>2 DEF InsertAt
<1>4. \A k \in 1 .. u : k \in 1 .. l
  BY <1>1
<1>5. \A k \in u + 1 .. l : k \in 1 .. l
  BY <1>1
<1>6. a \in Seq(W) /\ b \in Seq(W)
  BY <1>1, <1>4, <1>5
<1>7. Len(a) = u /\ \A k \in 1 .. u : a[k] = x[k]
  <2>1. 1 \in 1 .. Len(x) + 1 /\ u \in 0 .. Len(x)
    BY <1>1
  <2>2. Len(a) = (IF 1 <= u THEN u - 1 + 1 ELSE 0) /\ \A k \in 1 .. u - 1 + 1 : a[k] = x[1 + k - 1]
    BY <2>1, SubSeqProperties
  <2> HIDE DEF a
  <2> QED
    BY <1>2, <2>2
<1>8. Len(b) = l - u /\ \A k \in 1 .. l - u : b[k] = x[u + k]
  <2>1. u + 1 \in 1 .. Len(x) + 1 /\ l \in 0 .. Len(x)
    BY <1>1
  <2>2. Len(b) = (IF u + 1 <= l THEN l - (u + 1) + 1 ELSE 0)
        /\ \A k \in 1 .. l - (u + 1) + 1 : b[k] = x[(u + 1) + k - 1]
    BY <2>1, SubSeqProperties
  <2> HIDE DEF b, l
  <2>3. l - (u + 1) + 1 = l - u /\ \A k \in 1 .. l - u : (u + 1) + k - 1 = u + k
    BY <1>1, <1>2
  <2> QED
    BY <1>1, <1>2, <2>2, <2>3
<1> HIDE DEF a, b, l, y
<1> DEFINE c == a \o <<w>>
<1>9. c \in Seq(W) /\ Len(c) = u + 1 /\ c[u + 1] = w /\ \A k \in 1 .. u : c[k] = a[k]
  <2>1. c = Append(a, w)
    BY <1>6, AppendIsConcat
  <2> HIDE DEF c
  <2> QED
    BY <1>6, <1>7, <2>1, AppendProperties
<1> HIDE DEF c
<1>10. /\ c \o b \in Seq(W) /\ Len(c \o b) = Len(c) + Len(b)
       /\ \A k \in 1 .. Len(c) + Len(b) :
             (c \o b)[k] = IF k <= Len(c) THEN c[k] ELSE b[k - Len(c)]
  BY <1>6, <1>9, ConcatProperties
<1>11. y = c \o b
  BY <1>3 DEF c
<1>12. y \in Seq(W) /\ Len(y) = (u + 1) + (l - u)
       /\ \A k \in 1 .. (u + 1) + (l - u) : y[k] = IF k <= u + 1 THEN c[k] ELSE b[k - (u + 1)]
  BY <1>8, <1>9, <1>10, <1>11
<1>13. (u + 1) + (l - u) = l + 1
  BY <1>1, <1>2
<1>14. \A k \in 1 .. u : y[k] = x[k]
  <2>1. \A k \in 1 .. u : k \in 1 .. l + 1 /\ k <= u + 1
    BY <1>1, <1>2
  <2> QED
    BY <1>7, <1>9, <1>12, <1>13, <2>1
<1>15. y[u + 1] = w
  <2>1. u + 1 \in 1 .. l + 1 /\ u + 1 <= u + 1
    BY <1>1, <1>2
  <2> QED
    BY <1>9, <1>12, <1>13, <2>1
<1>16. ASSUME NEW k \in u + 1 .. l
       PROVE  y[k + 1] = x[k]
  <2>1. k + 1 \in 1 .. l + 1 /\ ~ (k + 1 <= u + 1) /\ (k + 1) - (u + 1) = k - u
        /\ k - u \in 1 .. l - u /\ u + (k - u) = k
    BY <1>1, <1>2
  <2>2. y[k + 1] = b[k - u]
    BY <1>12, <1>13, <2>1
  <2> QED
    BY <1>8, <2>1, <2>2
<1> QED
  BY <1>12, <1>13, <1>14, <1>15, <1>16 DEF l, y

\* The sort of the entries.
LEMMA TimeTurns ==
    ASSUME NEW E, NEW entries \in Seq(E)
    PROVE  \E h \in [0 .. Len(entries) -> Seq(E)] :
              /\ ByTime(entries) = h[Len(entries)]
              /\ h[0] = <<>>
              /\ \A i \in 1 .. Len(entries) : h[i] = TimeMore(h[i - 1], entries[i])
<1> DEFINE n == Len(entries)
           Turn(g, i) == IF i = 0 THEN <<>> ELSE TimeMore(g[i - 1], entries[i])
           Run(g) == g = [i \in 0 .. n |-> Turn(g, i)]
           S == Seq(E)
           step == [i \in Nat |-> [x \in S |-> IF i \in 1 .. n THEN TimeMore(x, entries[i]) ELSE x]]
<1>1. ByTime(entries) = (CHOOSE g : Run(g))[n]
  BY DEF ByTime, TimeMore
<1>2. n \in Nat
  OBVIOUS
<1>3. ASSUME NEW x \in S, NEW i \in 1 .. n
      PROVE  TimeMore(x, entries[i]) \in S
  <2> DEFINE K == {k \in DOMAIN x : NotLater(x[k], entries[i])}
  <2>1. PICK w \in E : w = entries[i]
    OBVIOUS
  <2>2. PICK l \in Nat : l = Len(x)
    OBVIOUS
  <2>3. DOMAIN x = 1 .. l /\ K \in SUBSET (1 .. l)
    BY <2>2
  <2> HIDE DEF K
  <2>4. Cardinality(K) \in 0 .. Len(x)
    BY <2>2, <2>3, PlaceType
  <2>5. PICK u \in 0 .. Len(x) : u = Cardinality(K)
    BY <2>4
  <2>6. InsertAt(x, u + 1, w) \in Seq(E)
    BY Inserted
  <2> QED
    BY <2>1, <2>5, <2>6 DEF TimeMore, K
<1> HIDE DEF n
<1>4. step \in [Nat -> [S -> S]]
  BY <1>3
<1>5. <<>> \in S
  OBVIOUS
<1> HIDE DEF step, S
<1>6. PICK g \in [0 .. n -> S] : IsRun(g, <<>>, step, n)
  BY <1>2, <1>4, <1>5, Recursion
<1>7. ASSUME NEW i \in 0 .. n
      PROVE  g[i] = Turn(g, i)
  <2>1. CASE i = 0
    BY <1>6, <2>1 DEF IsRun
  <2>2. CASE i # 0
    <3>1. i \in Nat /\ i - 1 \in 0 .. n /\ i \in 1 .. n
      BY <1>2, <2>2
    <3>2. g[i] = step[i][g[i - 1]] /\ g[i - 1] \in S
      BY <1>6, <3>1 DEF IsRun
    <3> QED
      BY <2>2, <3>1, <3>2 DEF step
  <2> QED
    BY <2>1, <2>2
<1> HIDE DEF Turn
<1>8. Run(g)
  <2>1. g = [i \in 0 .. n |-> g[i]]
    BY <1>6
  <2> QED
    BY <1>7, <2>1
<1> DEFINE h == CHOOSE f : Run(f)
<1>9. Run(h)
  BY <1>8
<1> HIDE DEF h
<1>10. h = [i \in 0 .. n |-> Turn(h, i)]
  BY <1>9
<1>11. \A i \in 0 .. n : h[i] = Turn(h, i)
  BY <1>9
<1> HIDE DEF Run
<1>12. h[0] = <<>> /\ \A i \in 1 .. n : h[i] = TimeMore(h[i - 1], entries[i])
  <2>1. 0 \in 0 .. n /\ \A i \in 1 .. n : i \in 0 .. n /\ i # 0
    BY <1>2
  <2> QED
    BY <1>11, <2>1 DEF Turn
<1>13. \A i \in 0 .. n : h[i] \in S
  <2>1. ASSUME NEW i \in 1 .. n, h[i - 1] \in S
        PROVE  h[i] \in S
    BY <1>3, <1>12, <2>1
  <2>2. h[0] \in S
    BY <1>5, <1>12
  <2> QED
    BY <1>2, <2>1, <2>2, RunType
<1>14. h \in [0 .. n -> S]
  <2>1. \A i \in 0 .. n : Turn(h, i) \in S
    BY <1>11, <1>13
  <2> QED
    BY <1>10, <2>1
<1>15. ByTime(entries) = h[n]
  BY <1>1 DEF h
<1> QED
  BY <1>12, <1>14, <1>15 DEF n, S

\* Entries in the order of their times.
InOrder(x) == \A i, k \in 1 .. Len(x) : k < i => NotLater(x[k], x[i])

\* The times of the entries are numbers.
TimedEntry(E) == \A x \in E : x.s \in Nat /\ x.e \in Nat

LEMMA NotLaterOrders ==
    ASSUME NEW E, TimedEntry(E), NEW x \in E, NEW y \in E
    PROVE  /\ ~ NotLater(x, y) => NotLater(y, x)
           /\ \A z \in E : NotLater(x, y) /\ NotLater(y, z) => NotLater(x, z)
<1>1. PICK a \in Nat, b \in Nat : a = x.s /\ b = x.e
  BY DEF TimedEntry
<1>2. PICK c \in Nat, d \in Nat : c = y.s /\ d = y.e
  BY DEF TimedEntry
<1>3. ~ NotLater(x, y) => NotLater(y, x)
  <2>1. ~ (a < c \/ (a = c /\ b <= d)) => (c < a \/ (c = a /\ d <= b))
    OBVIOUS
  <2> QED
    BY <1>1, <1>2, <2>1 DEF NotLater
<1>4. ASSUME NEW z \in E, NotLater(x, y), NotLater(y, z)
      PROVE  NotLater(x, z)
  <2>1. PICK f \in Nat, g \in Nat : f = z.s /\ g = z.e
    BY DEF TimedEntry
  <2>2. (a < c \/ (a = c /\ b <= d)) /\ (c < f \/ (c = f /\ d <= g))
    BY <1>1, <1>2, <1>4, <2>1 DEF NotLater
  <2>3. a < f \/ (a = f /\ b <= g)
    BY <2>2
  <2> QED
    BY <1>1, <2>1, <2>3 DEF NotLater
<1> QED
  BY <1>3, <1>4

LEMMA TimeAdds ==
    ASSUME NEW E, TimedEntry(E), NEW x \in Seq(E), InOrder(x), NEW w \in E
    PROVE  LET y == TimeMore(x, w)
           IN  /\ y \in Seq(E) /\ Len(y) = Len(x) + 1 /\ InOrder(y)
               /\ \E k \in 1 .. Len(y) : y[k] = w
               /\ \A i \in 1 .. Len(x) : \E k \in 1 .. Len(y) : y[k] = x[i]
<1> DEFINE K == {k \in DOMAIN x : NotLater(x[k], w)}
           y == TimeMore(x, w)
<1>1. PICK l \in Nat : l = Len(x)
  OBVIOUS
<1>2. DOMAIN x = 1 .. l /\ \A k \in 1 .. l : x[k] \in E
  BY <1>1
<1>3. K \in SUBSET (1 .. l)
  BY <1>2
<1>4. ASSUME NEW i \in K, NEW k \in 1 .. i
      PROVE  k \in K
  <2>1. i \in 1 .. l /\ k \in 1 .. l /\ (k < i \/ k = i) /\ NotLater(x[i], w)
    BY <1>2
  <2>2. CASE k = i
    BY <2>2
  <2>3. CASE k < i
    <3>1. NotLater(x[k], x[i])
      BY <1>1, <2>1, <2>3 DEF InOrder
    <3>2. NotLater(x[k], w)
      BY <1>2, <2>1, <3>1, NotLaterOrders
    <3> QED
      BY <1>2, <2>1, <3>2
  <2> QED
    BY <2>1, <2>2, <2>3
<1>5. \A k \in 1 .. l : k \in K <=> NotLater(x[k], w)
  BY <1>2
<1>6. y = InsertAt(x, Cardinality(K) + 1, w)
  BY DEF TimeMore
<1> HIDE DEF K, y
<1>7. K = 1 .. Cardinality(K) /\ Cardinality(K) \in 0 .. l
  BY <1>3, <1>4, FirstNumbers, PlaceType
<1>8. PICK u \in 0 .. Len(x) : u = Cardinality(K)
  BY <1>1, <1>7
<1>9. /\ y \in Seq(E) /\ Len(y) = Len(x) + 1
      /\ \A k \in 1 .. u : y[k] = x[k]
      /\ y[u + 1] = w
      /\ \A k \in u + 1 .. Len(x) : y[k + 1] = x[k]
  <2>1. InsertAt(x, u + 1, w) \in Seq(E) /\ Len(InsertAt(x, u + 1, w)) = Len(x) + 1
    BY Inserted
  <2>2. \A k \in 1 .. u : InsertAt(x, u + 1, w)[k] = x[k]
    BY Inserted
  <2>3. InsertAt(x, u + 1, w)[u + 1] = w
    BY Inserted
  <2>4. \A k \in u + 1 .. Len(x) : InsertAt(x, u + 1, w)[k + 1] = x[k]
    BY Inserted
  <2>5. y = InsertAt(x, u + 1, w)
    BY <1>6, <1>8
  <2> QED
    BY <2>1, <2>2, <2>3, <2>4, <2>5
<1>10. u \in 0 .. l /\ u \in Nat
  BY <1>1
<1>11. \A k \in 1 .. u : k \in 1 .. l /\ NotLater(x[k], w)
  BY <1>5, <1>7, <1>8, <1>10
<1>12. ASSUME NEW k \in u + 1 .. l
       PROVE  k \in 1 .. l /\ NotLater(w, x[k])
  <2>1. k \in 1 .. l /\ k \notin 1 .. u
    BY <1>10
  <2>2. ~ NotLater(x[k], w)
    BY <1>5, <1>7, <1>8, <2>1
  <2> QED
    BY <1>2, <2>1, <2>2, NotLaterOrders
<1>13. \A i, k \in 1 .. l : k < i => NotLater(x[k], x[i])
  BY <1>1 DEF InOrder
<1>14. ASSUME NEW i \in 1 .. l + 1, NEW k \in 1 .. l + 1, k < i
       PROVE  NotLater(y[k], y[i])
  <2>1. CASE i \in 1 .. u
    <3>1. k \in 1 .. u
      BY <1>10, <1>14, <2>1
    <3> QED
      BY <1>9, <1>11, <1>13, <1>14, <2>1, <3>1
  <2>2. CASE i = u + 1
    <3>1. k \in 1 .. u
      BY <1>10, <1>14, <2>2
    <3> QED
      BY <1>9, <1>11, <2>2, <3>1
  <2>3. CASE i - 1 \in u + 1 .. l
    <3>1. (i - 1) + 1 = i /\ i - 1 \in 1 .. l /\ y[i] = x[i - 1]
      <4>1. (i - 1) + 1 = i
        OBVIOUS
      <4>2. y[(i - 1) + 1] = x[i - 1]
        BY <1>1, <1>9, <2>3
      <4> QED
        BY <1>12, <2>3, <4>1, <4>2
    <3>2. CASE k \in 1 .. u
      <4>1. k < i - 1
        BY <1>10, <2>3, <3>2
      <4> QED
        BY <1>9, <1>11, <1>13, <3>1, <3>2, <4>1
    <3>3. CASE k = u + 1
      BY <1>9, <1>12, <2>3, <3>1, <3>3
    <3>4. CASE k - 1 \in u + 1 .. l
      <4>1. (k - 1) + 1 = k /\ k - 1 < i - 1 /\ k - 1 \in 1 .. l
        BY <1>12, <1>14, <3>4
      <4>2. y[(k - 1) + 1] = x[k - 1]
        BY <1>1, <1>9, <3>4
      <4> QED
        BY <1>13, <3>1, <4>1, <4>2
    <3> QED
      BY <1>10, <3>2, <3>3, <3>4
  <2> QED
    BY <1>10, <2>1, <2>2, <2>3
<1>15. InOrder(y)
  BY <1>1, <1>9, <1>14 DEF InOrder
<1>16. \E k \in 1 .. Len(y) : y[k] = w
  <2>1. u + 1 \in 1 .. l + 1
    BY <1>10
  <2> QED
    BY <1>1, <1>9, <2>1
<1>17. ASSUME NEW i \in 1 .. l
       PROVE  \E k \in 1 .. Len(y) : y[k] = x[i]
  <2>1. CASE i \in 1 .. u
    <3>1. i \in 1 .. l + 1
      OBVIOUS
    <3> QED
      BY <1>1, <1>9, <2>1, <3>1
  <2>2. CASE i \in u + 1 .. l
    <3>1. i + 1 \in 1 .. l + 1
      BY <2>2
    <3> QED
      BY <1>1, <1>9, <2>2, <3>1
  <2> QED
    BY <1>10, <2>1, <2>2
<1> QED
  BY <1>1, <1>9, <1>15, <1>16, <1>17 DEF y

\* The sorted entries are in order, as many as there were, and each is there.
LEMMA ByTimeOrders ==
    ASSUME NEW E, TimedEntry(E), NEW entries \in Seq(E)
    PROVE  LET y == ByTime(entries)
           IN  /\ y \in Seq(E) /\ Len(y) = Len(entries) /\ InOrder(y)
               /\ \A i \in 1 .. Len(entries) : \E k \in 1 .. Len(y) : y[k] = entries[i]
<1> DEFINE n == Len(entries)
<1>1. PICK h \in [0 .. Len(entries) -> Seq(E)] :
         /\ ByTime(entries) = h[Len(entries)]
         /\ h[0] = <<>>
         /\ \A i \in 1 .. Len(entries) : h[i] = TimeMore(h[i - 1], entries[i])
  BY TimeTurns
<1>2. n \in Nat /\ \A i \in 1 .. n : entries[i] \in E
  OBVIOUS
<1> HIDE DEF n
<1> DEFINE Good(x, i) == /\ Len(x) = i /\ InOrder(x)
                         /\ \A j \in 1 .. i : \E k \in 1 .. Len(x) : x[k] = entries[j]
           Q == {i \in 0 .. n : Good(h[i], i)}
<1>3. 0 \in Q
  <2>1. h[0] = <<>> /\ Len(<<>>) = 0 /\ 0 \in 0 .. n /\ 1 .. 0 = {}
    BY <1>1, <1>2
  <2>2. Good(h[0], 0)
    BY <2>1 DEF InOrder
  <2> HIDE DEF Good
  <2> QED
    BY <2>1, <2>2
<1>4. ASSUME NEW i \in 1 .. n, i - 1 \in Q
      PROVE  i \in Q
  <2>1. i \in 0 .. n /\ (i - 1) + 1 = i /\ i - 1 \in 0 .. n
        /\ \A j \in 1 .. i : j \in 1 .. i - 1 \/ j = i
    BY <1>2
  <2>2. PICK x \in Seq(E) : x = h[i - 1]
    BY <1>1, <2>1 DEF n
  <2>3. PICK w \in E : w = entries[i]
    BY <1>2
  <2>4. Good(x, i - 1)
    BY <1>4, <2>2
  <2>5. PICK y : y = h[i]
    OBVIOUS
  <2>6. y = TimeMore(x, w)
    BY <1>1, <2>2, <2>3, <2>5 DEF n
  <2>7. /\ y \in Seq(E) /\ Len(y) = Len(x) + 1 /\ InOrder(y)
        /\ \E k \in 1 .. Len(y) : y[k] = w
        /\ \A j \in 1 .. Len(x) : \E k \in 1 .. Len(y) : y[k] = x[j]
    <3>1. InOrder(x)
      BY <2>4
    <3>2. TimeMore(x, w) \in Seq(E) /\ Len(TimeMore(x, w)) = Len(x) + 1
      BY <3>1, TimeAdds
    <3>3. InOrder(TimeMore(x, w))
      BY <3>1, TimeAdds
    <3>4. \E k \in 1 .. Len(TimeMore(x, w)) : TimeMore(x, w)[k] = w
      BY <3>1, TimeAdds
    <3>5. \A j \in 1 .. Len(x) : \E k \in 1 .. Len(TimeMore(x, w)) : TimeMore(x, w)[k] = x[j]
      BY <3>1, TimeAdds
    <3> QED
      BY <2>6, <3>2, <3>3, <3>4, <3>5
  <2>8. ASSUME NEW j \in 1 .. i
        PROVE  \E k \in 1 .. Len(y) : y[k] = entries[j]
    <3>1. CASE j = i
      BY <2>3, <2>7, <3>1
    <3>2. CASE j \in 1 .. i - 1
      <4>1. PICK k \in 1 .. Len(x) : x[k] = entries[j]
        BY <2>4, <3>2
      <4> QED
        BY <2>7, <4>1
    <3> QED
      BY <2>1, <3>1, <3>2
  <2>9. Good(y, i)
    BY <2>1, <2>4, <2>7, <2>8
  <2> HIDE DEF Good
  <2> QED
    BY <2>1, <2>5, <2>9
<1> HIDE DEF Q
<1>5. \A i \in 0 .. n : i \in Q
  BY <1>2, <1>3, <1>4, TurnByTurn
<1>6. Good(h[n], n) /\ n \in 0 .. n
  <2>1. n \in Q /\ n \in 0 .. n
    BY <1>2, <1>5
  <2> HIDE DEF Good
  <2> QED
    BY <2>1 DEF Q
<1> QED
  BY <1>1, <1>6 DEF n

\* The groups of render_txt and render_docx, word by word.
LEMMA GroupTurns ==
    ASSUME NEW W, \A w \in W : w.tok \in Token, NEW words \in Seq(W)
    PROVE  \E h \in [0 .. Len(words) -> Seq(Group(W))] :
              /\ Grouped(words) = h[Len(words)]
              /\ h[0] = <<>>
              /\ \A i \in 1 .. Len(words) : h[i] = GroupMore(h[i - 1], words[i])
<1> DEFINE n == Len(words)
           Turn(g, i) == IF i = 0 THEN <<>> ELSE GroupMore(g[i - 1], words[i])
           Run(g) == g = [i \in 0 .. n |-> Turn(g, i)]
           S == Seq(Group(W))
           step == [i \in Nat |-> [x \in S |-> IF i \in 1 .. n THEN GroupMore(x, words[i]) ELSE x]]
<1>1. Grouped(words) = (CHOOSE g : Run(g))[n]
  BY DEF Grouped, GroupMore
<1>2. n \in Nat
  OBVIOUS
<1>3. ASSUME NEW x \in S, NEW i \in 1 .. n
      PROVE  GroupMore(x, words[i]) \in S
  <2>1. PICK w \in W : w = words[i]
    OBVIOUS
  <2>2. PICK G : G = Group(W)
    OBVIOUS
  <2>3. x \in Seq(G) /\ DOMAIN x = 1 .. Len(x) /\ Len(x) \in Nat /\ \A g \in 1 .. Len(x) : x[g] \in G
    BY <2>2
  <2>4. w.tok \in Token /\ w.spk \in {v.spk : v \in W}
    OBVIOUS
  <2>5. [spk |-> w.spk, said |-> <<w.tok>>] \in G
    BY <2>2, <2>4 DEF Group
  <2>6. Append(x, [spk |-> w.spk, said |-> <<w.tok>>]) \in Seq(G)
    BY <2>3, <2>5
  <2>7. ASSUME NEW g \in 1 .. Len(x)
        PROVE  [x[g] EXCEPT !.said = Append(@, w.tok)] \in G
    <3>1. PICK y \in Group(W) : y = x[g]
      BY <2>2, <2>3
    <3>2. y.said \in Seq(Token)
      BY DEF Group
    <3>3. Append(y.said, w.tok) \in Seq(Token)
      BY <2>4, <3>2
    <3>4. [y EXCEPT !.said = Append(@, w.tok)] \in Group(W)
      BY <3>3 DEF Group
    <3> QED
      BY <2>2, <3>1, <3>4
  <2>8. [g \in 1 .. Len(x) |->
            IF x[g].spk = w.spk THEN [x[g] EXCEPT !.said = Append(@, w.tok)] ELSE x[g]] \in Seq(G)
    <3> DEFINE next(g) == IF x[g].spk = w.spk THEN [x[g] EXCEPT !.said = Append(@, w.tok)] ELSE x[g]
    <3>1. \A g \in 1 .. Len(x) : next(g) \in G
      BY <2>3, <2>7
    <3>2. Len(x) \in Nat
      BY <2>3
    <3> HIDE DEF next
    <3>3. [g \in 1 .. Len(x) |-> next(g)] \in Seq(G)
      BY <3>1, <3>2
    <3> QED
      BY <3>3 DEF next
  <2> QED
    BY <2>1, <2>2, <2>3, <2>6, <2>8 DEF GroupMore
<1> HIDE DEF n
<1>4. step \in [Nat -> [S -> S]]
  BY <1>3
<1>5. <<>> \in S
  OBVIOUS
<1> HIDE DEF step, S
<1>6. PICK g \in [0 .. n -> S] : IsRun(g, <<>>, step, n)
  BY <1>2, <1>4, <1>5, Recursion
<1>7. ASSUME NEW i \in 0 .. n
      PROVE  g[i] = Turn(g, i)
  <2>1. CASE i = 0
    BY <1>6, <2>1 DEF IsRun
  <2>2. CASE i # 0
    <3>1. i \in Nat /\ i - 1 \in 0 .. n /\ i \in 1 .. n
      BY <1>2, <2>2
    <3>2. g[i] = step[i][g[i - 1]] /\ g[i - 1] \in S
      BY <1>6, <3>1 DEF IsRun
    <3> QED
      BY <2>2, <3>1, <3>2 DEF step
  <2> QED
    BY <2>1, <2>2
<1> HIDE DEF Turn
<1>8. Run(g)
  <2>1. g = [i \in 0 .. n |-> g[i]]
    BY <1>6
  <2> QED
    BY <1>7, <2>1
<1> DEFINE h == CHOOSE f : Run(f)
<1>9. Run(h)
  BY <1>8
<1> HIDE DEF h
<1>10. h = [i \in 0 .. n |-> Turn(h, i)]
  BY <1>9
<1>11. \A i \in 0 .. n : h[i] = Turn(h, i)
  BY <1>9
<1> HIDE DEF Run
<1>12. h[0] = <<>> /\ \A i \in 1 .. n : h[i] = GroupMore(h[i - 1], words[i])
  <2>1. 0 \in 0 .. n /\ \A i \in 1 .. n : i \in 0 .. n /\ i # 0
    BY <1>2
  <2> QED
    BY <1>11, <2>1 DEF Turn
<1>13. \A i \in 0 .. n : h[i] \in S
  <2>1. ASSUME NEW i \in 1 .. n, h[i - 1] \in S
        PROVE  h[i] \in S
    BY <1>3, <1>12, <2>1
  <2>2. h[0] \in S
    BY <1>5, <1>12
  <2> QED
    BY <1>2, <2>1, <2>2, RunType
<1>14. h \in [0 .. n -> S]
  <2>1. \A i \in 0 .. n : Turn(h, i) \in S
    BY <1>11, <1>13
  <2> QED
    BY <1>10, <2>1
<1>15. Grouped(words) = h[n]
  BY <1>1 DEF h
<1> QED
  BY <1>12, <1>14, <1>15 DEF n, S

\* What a speaker says, up to each word.
SaidSoFar(said, words, spk) ==
    /\ SaidBy(words, spk) = said[Len(words)]
    /\ said[0] = <<>>
    /\ \A i \in 1 .. Len(words) :
          said[i] = IF words[i].spk = spk THEN Append(said[i - 1], words[i].tok) ELSE said[i - 1]

LEMMA SaidTurns ==
    ASSUME NEW W, \A w \in W : w.tok \in Token, NEW words \in Seq(W), NEW spk
    PROVE  \E said \in [0 .. Len(words) -> Seq(Token)] : SaidSoFar(said, words, spk)
<1> DEFINE T == {w \in Range(words) : w.spk = spk}
<1>1. \A i \in 1 .. Len(words) : words[i] \in T <=> words[i].spk = spk
  <2>1. DOMAIN words = 1 .. Len(words)
    OBVIOUS
  <2> QED
    BY <2>1 DEF Range
<1>2. SaidBy(words, spk) = Tokens(Those(words, T))
  BY DEF SaidBy
<1> HIDE DEF T
<1>3. PICK said \in [0 .. Len(words) -> Seq(Token)] : Saying(said, words, T)
  BY ThoseTokens
<1> QED
  BY <1>1, <1>2, <1>3 DEF Saying, SaidSoFar

\* The groups hold all words of their speakers.
GroupsOf(x, words) ==
    /\ {x[g].spk : g \in DOMAIN x} = {words[i].spk : i \in DOMAIN words}
    /\ \A g \in DOMAIN x :
          /\ x[g].said = SaidBy(words, x[g].spk)
          /\ \A h \in DOMAIN x : x[h].spk = x[g].spk => h = g

\* The groups y are x with the word w.
AddsTo(y, x, w) ==
    /\ Len(x) <= Len(y)
    /\ \A g, h \in 1 .. Len(y) : y[h].spk = y[g].spk => h = g
    /\ \A g \in 1 .. Len(x) : y[g].spk = x[g].spk
    /\ \A g \in 1 .. Len(x) :
          y[g].said = IF x[g].spk = w.spk THEN Append(x[g].said, w.tok) ELSE x[g].said
    /\ \E g \in 1 .. Len(y) : y[g].spk = w.spk
    /\ \A g \in 1 .. Len(y) :
          g \in 1 .. Len(x) \/ (/\ y[g].spk = w.spk /\ y[g].said = Append(<<>>, w.tok)
                                /\ \A h \in 1 .. Len(x) : x[h].spk # w.spk)

LEMMA GroupAdds ==
    ASSUME NEW W, \A w \in W : w.tok \in Token, NEW x \in Seq(Group(W)), NEW w \in W,
           \A g, h \in 1 .. Len(x) : x[h].spk = x[g].spk => h = g
    PROVE  AddsTo(GroupMore(x, w), x, w)
<1>1. PICK n \in Nat : n = Len(x)
  OBVIOUS
<1>2. DOMAIN x = 1 .. n /\ \A g \in 1 .. n : x[g] \in Group(W)
  BY <1>1
<1>3. w.tok \in Token /\ w.spk \in {v.spk : v \in W} /\ <<w.tok>> \in Seq(Token)
  OBVIOUS
<1>4. CASE \E g \in 1 .. n : x[g].spk = w.spk
  <2> DEFINE y == [g \in 1 .. n |->
                      IF x[g].spk = w.spk THEN [x[g] EXCEPT !.said = Append(@, w.tok)] ELSE x[g]]
  <2>1. GroupMore(x, w) = y
    BY <1>2, <1>4 DEF GroupMore
  <2>2. ASSUME NEW g \in 1 .. n
        PROVE  /\ y[g] \in Group(W) /\ y[g].spk = x[g].spk
               /\ y[g].said = IF x[g].spk = w.spk THEN Append(x[g].said, w.tok) ELSE x[g].said
    <3>1. PICK z \in Group(W) : z = x[g]
      BY <1>2
    <3>2. z.said \in Seq(Token) /\ z.spk \in {v.spk : v \in W}
      BY DEF Group
    <3>3. PICK k \in Token : k = w.tok
      BY <1>3
    <3>4. PICK a \in {v.spk : v \in W}, b \in Seq(Token) : z = [spk |-> a, said |-> b]
      BY DEF Group
    <3>5. PICK t \in Seq(Token) : t = Append(b, k)
      <4>1. Append(b, k) \in Seq(Token)
        BY AppendProperties
      <4> QED
        BY <4>1
    <3>6. [z EXCEPT !.said = Append(@, k)] = [spk |-> a, said |-> t]
      <4>1. [z EXCEPT !.said = Append(@, k)] = [z EXCEPT !.said = t]
        BY <3>4, <3>5
      <4>2. [z EXCEPT !.said = t] = [spk |-> a, said |-> t]
        BY <3>4
      <4> QED
        BY <4>1, <4>2
    <3>7. PICK r \in Group(W) : r = [spk |-> a, said |-> t]
      BY DEF Group
    <3>8. y[g] = IF z.spk = w.spk THEN r ELSE z
      BY <3>1, <3>3, <3>4, <3>6, <3>7
    <3>9. r.spk = z.spk /\ r.said = Append(z.said, w.tok)
      BY <3>3, <3>4, <3>5, <3>7
    <3> HIDE DEF y
    <3> QED
      BY <3>1, <3>8, <3>9
  <2>3. y \in Seq(Group(W)) /\ Len(y) = n
    <3>1. PICK G : G = Group(W)
      OBVIOUS
    <3>2. \A g \in 1 .. n : y[g] \in G
      BY <2>2, <3>1
    <3>3. y = [g \in 1 .. n |-> y[g]]
      OBVIOUS
    <3> HIDE DEF y
    <3> QED
      BY <3>1, <3>2, <3>3, TableSequence
  <2> HIDE DEF y
  <2>4. \A g, h \in 1 .. n : y[h].spk = y[g].spk => h = g
    BY <1>1, <2>2
  <2>5. \E g \in 1 .. n : y[g].spk = w.spk
    BY <1>4, <2>2
  <2> QED
    BY <1>1, <2>1, <2>2, <2>3, <2>4, <2>5 DEF AddsTo
<1>5. CASE ~ \E g \in 1 .. n : x[g].spk = w.spk
  <2>1. PICK z \in Group(W) : z = [spk |-> w.spk, said |-> <<w.tok>>]
    BY <1>3 DEF Group
  <2>2. PICK y : y = Append(x, z)
    OBVIOUS
  <2>3. GroupMore(x, w) = y
    BY <1>2, <1>5, <2>1, <2>2 DEF GroupMore
  <2>4. y \in Seq(Group(W)) /\ Len(y) = n + 1 /\ y[n + 1] = z /\ \A g \in 1 .. n : y[g] = x[g]
    BY <1>1, <2>2, AppendProperties
  <2>5. z.spk = w.spk /\ z.said = Append(<<>>, w.tok)
    BY <2>1
  <2>6. n + 1 \in 1 .. n + 1 /\ \A g \in 1 .. n + 1 : g \in 1 .. n \/ g = n + 1
    OBVIOUS
  <2>7. \A g, h \in 1 .. n + 1 : y[h].spk = y[g].spk => h = g
    BY <1>1, <1>5, <2>4, <2>5, <2>6
  <2>8. \E g \in 1 .. n + 1 : y[g].spk = w.spk
    BY <2>4, <2>5, <2>6
  <2>9. \A g \in 1 .. n + 1 :
           g \in 1 .. n \/ (/\ y[g].spk = w.spk /\ y[g].said = Append(<<>>, w.tok)
                            /\ \A h \in 1 .. n : x[h].spk # w.spk)
    BY <1>5, <2>4, <2>5, <2>6
  <2>10. \A g \in 1 .. n :
            /\ y[g].spk = x[g].spk
            /\ y[g].said = IF x[g].spk = w.spk THEN Append(x[g].said, w.tok) ELSE x[g].said
    BY <1>5, <2>4
  <2>11. n <= n + 1
    OBVIOUS
  <2> QED
    BY <1>1, <2>3, <2>4, <2>7, <2>8, <2>9, <2>10, <2>11 DEF AddsTo
<1> QED
  BY <1>4, <1>5

LEMMA GroupsHold ==
    ASSUME NEW W, \A w \in W : w.tok \in Token, NEW words \in Seq(W)
    PROVE  GroupsOf(Grouped(words), words)
<1> DEFINE n == Len(words)
           SPK == {w.spk : w \in W}
           F == [p \in SPK |-> CHOOSE said \in [0 .. n -> Seq(Token)] : SaidSoFar(said, words, p)]
           said(p, i) == F[p][i]
<1>1. n \in Nat /\ \A i \in 1 .. n : words[i] \in W
  OBVIOUS
<1>2. PICK h \in [0 .. Len(words) -> Seq(Group(W))] :
         /\ Grouped(words) = h[Len(words)]
         /\ h[0] = <<>>
         /\ \A i \in 1 .. Len(words) : h[i] = GroupMore(h[i - 1], words[i])
  BY GroupTurns
<1>3. ASSUME NEW p \in SPK
      PROVE  SaidSoFar(F[p], words, p)
  <2>1. \E f \in [0 .. n -> Seq(Token)] : SaidSoFar(f, words, p)
    BY SaidTurns
  <2> QED
    BY <2>1
<1> HIDE DEF F, n
<1>4. /\ \A p \in SPK : said(p, 0) = <<>> /\ said(p, n) = SaidBy(words, p)
      /\ \A p \in SPK, i \in 1 .. n :
            said(p, i) = IF words[i].spk = p THEN Append(said(p, i - 1), words[i].tok)
                         ELSE said(p, i - 1)
  BY <1>3 DEF SaidSoFar, n
<1> HIDE DEF said
<1>5. \A i \in 1 .. n : words[i].spk \in SPK
  BY <1>1
<1> HIDE DEF SPK
<1> DEFINE Alone(x) == \A g, k \in 1 .. Len(x) : x[k].spk = x[g].spk => k = g
           Says(x, i) == \A g \in 1 .. Len(x) : x[g].spk \in SPK /\ x[g].said = said(x[g].spk, i)
           Voiced(x, i) == \A g \in 1 .. Len(x) : \E j \in 1 .. i : words[j].spk = x[g].spk
           There(x, i) == \A j \in 1 .. i : \E g \in 1 .. Len(x) : x[g].spk = words[j].spk
           Good(x, i) == Alone(x) /\ Says(x, i) /\ Voiced(x, i) /\ There(x, i)
           Mute(i) == \A p \in SPK : (\A j \in 1 .. i : words[j].spk # p) => said(p, i) = <<>>
           Q == {i \in 0 .. n : Good(h[i], i) /\ Mute(i)}
<1>6. 0 \in Q
  <2>1. h[0] = <<>> /\ Len(<<>>) = 0 /\ 0 \in 0 .. n /\ 1 .. 0 = {}
    BY <1>1, <1>2
  <2>2. Good(h[0], 0)
    BY <2>1
  <2>3. Mute(0)
    BY <1>4
  <2> HIDE DEF Good, Mute
  <2> QED
    BY <2>1, <2>2, <2>3
<1>7. ASSUME NEW i \in 1 .. n, i - 1 \in Q
      PROVE  i \in Q
  <2>1. i \in 0 .. n /\ i - 1 \in 0 .. n /\ i \in 1 .. i
        /\ (\A j \in 1 .. i : j \in 1 .. i - 1 \/ j = i) /\ \A j \in 1 .. i - 1 : j \in 1 .. i
    BY <1>1
  <2>2. Good(h[i - 1], i - 1) /\ Mute(i - 1)
    <3> HIDE DEF Good, Mute
    <3> QED
      BY <1>7
  <2>3. PICK x \in Seq(Group(W)) : x = h[i - 1]
    BY <1>2, <2>1 DEF n
  <2>4. PICK w \in W : w = words[i]
    BY <1>1
  <2>5. PICK y : y = h[i]
    OBVIOUS
  <2>6. y = GroupMore(x, w)
    BY <1>2, <2>3, <2>4, <2>5 DEF n
  <2>7. Alone(x) /\ Says(x, i - 1) /\ Voiced(x, i - 1) /\ There(x, i - 1)
    BY <2>2, <2>3
  <2>8. /\ y \in Seq(Group(W)) /\ Len(x) <= Len(y)
        /\ \A g, k \in 1 .. Len(y) : y[k].spk = y[g].spk => k = g
        /\ \A g \in 1 .. Len(x) : y[g].spk = x[g].spk
        /\ \A g \in 1 .. Len(x) :
              y[g].said = IF x[g].spk = w.spk THEN Append(x[g].said, w.tok) ELSE x[g].said
        /\ \E g \in 1 .. Len(y) : y[g].spk = w.spk
        /\ \A g \in 1 .. Len(y) :
              g \in 1 .. Len(x) \/ (/\ y[g].spk = w.spk /\ y[g].said = Append(<<>>, w.tok)
                                    /\ \A k \in 1 .. Len(x) : x[k].spk # w.spk)
    <3>1. \A g, k \in 1 .. Len(x) : x[k].spk = x[g].spk => k = g
      BY <2>7
    <3>2. PICK z : z = GroupMore(x, w)
      OBVIOUS
    <3>3. AddsTo(z, x, w)
      BY <3>1, <3>2, GroupAdds
    <3>4. y \in Seq(Group(W))
      BY <1>2, <2>1, <2>5 DEF n
    <3> QED
      BY <2>6, <3>2, <3>3, <3>4 DEF AddsTo
  <2>9. w.spk \in SPK
    BY <1>5, <2>4
  <2>10. Alone(y)
    BY <2>8
  <2>11. \A g \in 1 .. Len(x) : g \in 1 .. Len(y)
    <3>1. Len(x) \in Nat /\ Len(y) \in Nat
      BY <2>8
    <3> QED
      BY <2>8, <3>1
  <2>12. There(y, i)
    <3> SUFFICES ASSUME NEW j \in 1 .. i
                 PROVE  \E g \in 1 .. Len(y) : y[g].spk = words[j].spk
      OBVIOUS
    <3>1. CASE j = i
      BY <2>4, <2>8, <3>1
    <3>2. CASE j \in 1 .. i - 1
      <4>1. PICK g \in 1 .. Len(x) : x[g].spk = words[j].spk
        BY <2>7, <3>2
      <4> QED
        BY <2>8, <2>11, <4>1
    <3> QED
      BY <2>1, <3>1, <3>2
  <2>13. Voiced(y, i)
    <3> SUFFICES ASSUME NEW g \in 1 .. Len(y)
                 PROVE  \E j \in 1 .. i : words[j].spk = y[g].spk
      OBVIOUS
    <3>1. CASE y[g].spk = w.spk
      BY <2>1, <2>4, <3>1
    <3>2. CASE g \in 1 .. Len(x)
      <4>1. PICK j \in 1 .. i - 1 : words[j].spk = x[g].spk
        BY <2>7, <3>2
      <4> QED
        BY <2>1, <2>8, <3>2, <4>1
    <3> QED
      BY <2>8, <3>1, <3>2
  <2>14. \A p \in SPK : said(p, i) = IF w.spk = p THEN Append(said(p, i - 1), w.tok)
                                     ELSE said(p, i - 1)
    BY <1>4, <2>4
  <2>15. Says(y, i)
    <3> SUFFICES ASSUME NEW g \in 1 .. Len(y)
                 PROVE  y[g].spk \in SPK /\ y[g].said = said(y[g].spk, i)
      OBVIOUS
    <3>1. CASE g \in 1 .. Len(x)
      <4>1. x[g].spk \in SPK /\ x[g].said = said(x[g].spk, i - 1)
        BY <2>7, <3>1
      <4>2. y[g].spk = x[g].spk
            /\ y[g].said = IF x[g].spk = w.spk THEN Append(x[g].said, w.tok) ELSE x[g].said
        BY <2>8, <3>1
      <4> QED
        BY <2>14, <4>1, <4>2
    <3>2. CASE /\ y[g].spk = w.spk /\ y[g].said = Append(<<>>, w.tok)
               /\ \A k \in 1 .. Len(x) : x[k].spk # w.spk
      <4>1. \A j \in 1 .. i - 1 : words[j].spk # w.spk
        BY <2>7, <3>2
      <4>2. said(w.spk, i - 1) = <<>>
        BY <2>2, <2>9, <4>1
      <4> QED
        BY <2>9, <2>14, <3>2, <4>2
    <3> QED
      BY <2>8, <3>1, <3>2
  <2>16. Mute(i)
    <3> SUFFICES ASSUME NEW p \in SPK, \A j \in 1 .. i : words[j].spk # p
                 PROVE  said(p, i) = <<>>
      OBVIOUS
    <3>1. w.spk # p /\ \A j \in 1 .. i - 1 : words[j].spk # p
      BY <2>1, <2>4
    <3>2. said(p, i - 1) = <<>>
      BY <2>2, <3>1
    <3> QED
      BY <2>14, <3>1, <3>2
  <2>17. Good(h[i], i)
    BY <2>5, <2>10, <2>12, <2>13, <2>15
  <2> HIDE DEF Good, Mute
  <2> QED
    BY <2>1, <2>16, <2>17
<1> HIDE DEF Q
<1>8. \A i \in 0 .. n : i \in Q
  BY <1>1, <1>6, <1>7, TurnByTurn
<1>9. Good(h[n], n) /\ n \in 0 .. n
  <2>1. n \in Q /\ n \in 0 .. n
    BY <1>1, <1>8
  <2> HIDE DEF Good, Mute
  <2> QED
    BY <2>1 DEF Q
<1>10. PICK x \in Seq(Group(W)) : x = Grouped(words)
  BY <1>2, <1>9 DEF n
<1>11. Alone(x) /\ Says(x, n) /\ Voiced(x, n) /\ There(x, n)
  BY <1>2, <1>9, <1>10 DEF n
<1>12. DOMAIN x = 1 .. Len(x) /\ DOMAIN words = 1 .. n
  BY DEF n
<1>13. {x[g].spk : g \in DOMAIN x} = {words[i].spk : i \in DOMAIN words}
  <2>1. \A g \in 1 .. Len(x) : x[g].spk \in {words[i].spk : i \in 1 .. n}
    BY <1>11
  <2>2. \A i \in 1 .. n : words[i].spk \in {x[g].spk : g \in 1 .. Len(x)}
    BY <1>11
  <2> QED
    BY <1>12, <2>1, <2>2
<1>14. ASSUME NEW g \in DOMAIN x
       PROVE  /\ x[g].said = SaidBy(words, x[g].spk)
              /\ \A k \in DOMAIN x : x[k].spk = x[g].spk => k = g
  BY <1>4, <1>11, <1>12
<1>15. GroupsOf(x, words)
  BY <1>13, <1>14, Zenon DEF GroupsOf
<1> QED
  BY <1>10, <1>15

\* The entries of an SRT file.
EntryOf(W) ==
    [s : Nat, e : Nat, said : Seq(Token),
     spk : {w.spk : w \in W} \cup {<<"spk_ch", c>> : c \in Nat} \cup {"spk_unknown"}]

\* Words with their times and tokens.
PlacedWord(W) == \A w \in W : w.s \in Nat /\ w.e \in Nat /\ w.tok \in Token

LEMMA EntryTypes ==
    ASSUME NEW W, PlacedWord(W)
    PROVE  /\ TimedEntry(EntryOf(W))
           /\ \A q \in CueOf(W) : Entry(q) \in EntryOf(W)
           /\ NoText \in EntryOf(W)
           /\ \A text \in Seq(Token), c \in Nat, t \in Nat, d \in Nat :
                 Bare(text, c, t, d) \in EntryOf(W) /\ Bare(text, c, t, d).e \in Nat
<1>1. TimedEntry(EntryOf(W))
  BY DEF TimedEntry, EntryOf
<1>2. ASSUME NEW q \in CueOf(W)
      PROVE  Entry(q) \in EntryOf(W)
  <2>1. PICK x \in Seq(W) : x = q
    BY DEF CueOf
  <2>2. x # <<>>
    BY <2>1 DEF CueOf
  <2>3. PICK n \in Nat : n = Len(x)
    OBVIOUS
  <2>4. n >= 1
    BY <2>2, <2>3, EmptySeq
  <2>5. 1 \in 1 .. n /\ n \in 1 .. n
    BY <2>4
  <2>6. PICK f \in W : f = x[1]
    BY <2>3, <2>5
  <2>7. PICK l \in W : l = x[n]
    BY <2>3, <2>5
  <2>8. f.s \in Nat /\ l.e \in Nat /\ f.spk \in {w.spk : w \in W}
    BY DEF PlacedWord
  <2>9. \A i \in 1 .. Len(x) : x[i].tok \in Token
    BY DEF PlacedWord
  <2>10. Tokens(x) \in Seq(Token)
    BY <2>9, TokensOfAll
  <2>11. Entry(q) = [s |-> f.s, e |-> l.e, spk |-> f.spk, said |-> Tokens(x)]
    BY <2>1, <2>3, <2>6, <2>7 DEF Entry
  <2> QED
    BY <2>8, <2>10, <2>11 DEF EntryOf
<1>3. PICK two \in Nat : two = 2 * Sec
  BY TimeAssumption
<1>4. NoText \in EntryOf(W)
  <2>1. 2 * Sec \in Nat /\ 0 \in Nat /\ <<>> \in Seq(Token)
    BY <1>3
  <2> QED
    BY <2>1 DEF NoText, EntryOf
<1>5. ASSUME NEW text \in Seq(Token), NEW c \in Nat, NEW t \in Nat, NEW d \in Nat
      PROVE  Bare(text, c, t, d) \in EntryOf(W) /\ Bare(text, c, t, d).e \in Nat
  <2>1. Larger(2 * Sec, Smaller(8 * Sec, d)) \in Nat
    <3>1. 8 * Sec \in Nat
      BY TimeAssumption
    <3>2. Smaller(8 * Sec, d) \in Nat
      BY <3>1 DEF Smaller
    <3> QED
      BY <1>3, <3>2 DEF Larger
  <2>2. PICK e \in Nat : e = t + Larger(2 * Sec, Smaller(8 * Sec, d))
    BY <2>1
  <2>3. Bare(text, c, t, d) = [s |-> t, e |-> e, spk |-> <<"spk_ch", c>>, said |-> text]
    BY <2>2 DEF Bare
  <2>4. [s |-> t, e |-> e, spk |-> <<"spk_ch", c>>, said |-> text] \in EntryOf(W)
    BY DEF EntryOf
  <2> QED
    BY <2>3, <2>4
<1> QED
  BY <1>1, <1>2, <1>4, <1>5

\* What ListMore adds for a channel with these subtitles.
ListsMore(y, x, cues) ==
    /\ Len(x.all) <= Len(y.all)
    /\ \A j \in 1 .. Len(x.all) : y.all[j] = x.all[j]
    /\ \A k \in 1 .. Len(cues) : \E j \in 1 .. Len(y.all) : y.all[j] = Entry(cues[k])
    /\ cues # <<>> => Len(y.all) = Len(x.all) + Len(cues)

LEMMA ListAdds ==
    ASSUME NEW W, PlacedWord(W), NEW x \in [all : Seq(EntryOf(W)), at : Nat],
           NEW row, row.words \in Seq(W), row.text \in Seq(Token), NEW c \in Nat, NEW d \in Nat
    PROVE  /\ ListMore(x, row, c, d) \in [all : Seq(EntryOf(W)), at : Nat]
           /\ ListsMore(ListMore(x, row, c, d), x, Cues(row.words))
<1>1. PICK cues \in Seq(CueOf(W)) : cues = Cues(row.words)
  <2>1. PICK words \in Seq(W) : words = row.words
    OBVIOUS
  <2>2. \A w \in W : w.s \in Nat /\ w.e \in Nat
    BY DEF PlacedWord
  <2>3. Cues(words) \in Seq(CueOf(W))
    BY <2>2, CuesHold
  <2> QED
    BY <2>1, <2>3
<1>2. PICK E : E = EntryOf(W)
  OBVIOUS
<1>3. PICK a \in Seq(E) : a = x.all
  BY <1>2
<1>4. PICK m \in Nat : m = Len(a)
  OBVIOUS
<1>5. PICK n \in Nat : n = Len(cues)
  OBVIOUS
<1>6. PICK y : y = ListMore(x, row, c, d)
  OBVIOUS
<1>7. x.at \in Nat
  OBVIOUS
<1>8. CASE cues # <<>>
  <2>1. PICK b : b = [k \in 1 .. n |-> Entry(cues[k])]
    OBVIOUS
  <2>2. \A k \in 1 .. n : Entry(cues[k]) \in E
    <3>1. \A k \in 1 .. n : cues[k] \in CueOf(W)
      BY <1>5
    <3> QED
      BY <1>2, <3>1, EntryTypes
  <2>3. b \in Seq(E) /\ Len(b) = n /\ \A k \in 1 .. n : b[k] = Entry(cues[k])
    BY <2>1, <2>2
  <2>4. PICK z : z = a \o b
    OBVIOUS
  <2>5. /\ z \in Seq(E) /\ Len(z) = m + n
        /\ \A j \in 1 .. m + n : z[j] = IF j <= m THEN a[j] ELSE b[j - m]
    <3>1. /\ a \o b \in Seq(E) /\ Len(a \o b) = Len(a) + Len(b)
          /\ \A j \in 1 .. Len(a) + Len(b) : (a \o b)[j] = IF j <= Len(a) THEN a[j] ELSE b[j - Len(a)]
      BY <2>3, ConcatProperties
    <3> QED
      BY <1>4, <2>3, <2>4, <3>1
  <2>6. y = [all |-> z, at |-> x.at]
    <3>1. DOMAIN cues = 1 .. n
      BY <1>5
    <3> QED
      BY <1>1, <1>3, <1>6, <1>8, <2>1, <2>4, <3>1 DEF ListMore
  <2>7. \A j \in 1 .. m : z[j] = a[j]
    <3>1. \A j \in 1 .. m : j \in 1 .. m + n /\ j <= m
      OBVIOUS
    <3> QED
      BY <2>5, <3>1
  <2>8. ASSUME NEW k \in 1 .. n
        PROVE  \E j \in 1 .. m + n : z[j] = Entry(cues[k])
    <3>1. m + k \in 1 .. m + n /\ ~ (m + k <= m) /\ (m + k) - m = k
      OBVIOUS
    <3>2. z[m + k] = b[k]
      BY <2>5, <3>1
    <3> QED
      BY <2>3, <3>1, <3>2
  <2>9. m <= m + n
    OBVIOUS
  <2>10. y \in [all : Seq(E), at : Nat] /\ y.all = z
    BY <1>7, <2>5, <2>6
  <2>11. ListsMore(y, x, cues)
    BY <1>3, <1>4, <1>5, <2>5, <2>7, <2>8, <2>9, <2>10 DEF ListsMore
  <2> QED
    BY <1>1, <1>2, <1>6, <2>10, <2>11
<1>9. CASE cues = <<>> /\ row.text = <<>>
  <2>1. y = x
    BY <1>1, <1>6, <1>9 DEF ListMore
  <2>2. Len(<<>>) = 0 /\ 1 .. 0 = {}
    OBVIOUS
  <2>3. ListsMore(y, x, cues)
    BY <1>3, <1>4, <1>9, <2>1, <2>2 DEF ListsMore
  <2> QED
    BY <1>1, <1>6, <2>1, <2>3
<1>10. CASE cues = <<>> /\ row.text # <<>>
  <2>1. PICK bare : bare = Bare(row.text, c, x.at, d)
    OBVIOUS
  <2>2. bare \in E /\ bare.e \in Nat
    <3>1. PICK text \in Seq(Token) : text = row.text
      OBVIOUS
    <3> QED
      BY <1>2, <1>7, <2>1, <3>1, EntryTypes
  <2>3. PICK z : z = Append(a, bare)
    OBVIOUS
  <2>4. z \in Seq(E) /\ Len(z) = m + 1 /\ \A j \in 1 .. m : z[j] = a[j]
    BY <1>4, <2>2, <2>3, AppendProperties
  <2>5. PICK t \in Nat : t = bare.e + Sec \div 10
    <3>1. Sec \div 10 \in Nat
      BY TimeAssumption
    <3> QED
      BY <2>2, <3>1
  <2>6. y = [all |-> z, at |-> t]
    BY <1>1, <1>3, <1>6, <1>10, <2>1, <2>3, <2>5 DEF ListMore
  <2>7. y \in [all : Seq(E), at : Nat] /\ y.all = z
    BY <2>4, <2>6
  <2>8. Len(<<>>) = 0 /\ 1 .. 0 = {} /\ m <= m + 1
    OBVIOUS
  <2>9. ListsMore(y, x, cues)
    BY <1>3, <1>4, <1>10, <2>4, <2>7, <2>8 DEF ListsMore
  <2> QED
    BY <1>1, <1>2, <1>6, <2>7, <2>9
<1> QED
  BY <1>8, <1>9, <1>10

\* The channels of render_srt, one by one.
LEMMA ListTurns ==
    ASSUME NEW W, PlacedWord(W), NEW R, \A r \in R : r.words \in Seq(W) /\ r.text \in Seq(Token),
           NEW rows \in Seq(R), NEW d \in Nat
    PROVE  \E h \in [0 .. Len(rows) -> [all : Seq(EntryOf(W)), at : Nat]] :
              /\ Listed(rows, d) = h[Len(rows)].all
              /\ h[0] = [all |-> <<>>, at |-> 0]
              /\ \A i \in 1 .. Len(rows) : h[i] = ListMore(h[i - 1], rows[i], i, d)
<1> DEFINE n == Len(rows)
           Turn(g, i) == IF i = 0 THEN [all |-> <<>>, at |-> 0] ELSE ListMore(g[i - 1], rows[i], i, d)
           Run(g) == g = [i \in 0 .. n |-> Turn(g, i)]
           S == [all : Seq(EntryOf(W)), at : Nat]
           step == [i \in Nat |-> [x \in S |-> IF i \in 1 .. n THEN ListMore(x, rows[i], i, d) ELSE x]]
<1>1. Listed(rows, d) = (CHOOSE g : Run(g))[n].all
  BY DEF Listed, ListMore
<1>2. n \in Nat
  OBVIOUS
<1>3. ASSUME NEW x \in S, NEW i \in 1 .. n
      PROVE  ListMore(x, rows[i], i, d) \in S
  <2>1. PICK row \in R : row = rows[i]
    OBVIOUS
  <2>2. row.words \in Seq(W) /\ row.text \in Seq(Token) /\ i \in Nat
    OBVIOUS
  <2> QED
    BY <2>1, <2>2, ListAdds
<1> HIDE DEF n
<1>4. step \in [Nat -> [S -> S]]
  BY <1>3
<1>5. [all |-> <<>>, at |-> 0] \in S
  OBVIOUS
<1> HIDE DEF step, S
<1>6. PICK g \in [0 .. n -> S] : IsRun(g, [all |-> <<>>, at |-> 0], step, n)
  BY <1>2, <1>4, <1>5, Recursion
<1>7. ASSUME NEW i \in 0 .. n
      PROVE  g[i] = Turn(g, i)
  <2>1. CASE i = 0
    BY <1>6, <2>1 DEF IsRun
  <2>2. CASE i # 0
    <3>1. i \in Nat /\ i - 1 \in 0 .. n /\ i \in 1 .. n
      BY <1>2, <2>2
    <3>2. g[i] = step[i][g[i - 1]] /\ g[i - 1] \in S
      BY <1>6, <3>1 DEF IsRun
    <3> QED
      BY <2>2, <3>1, <3>2 DEF step
  <2> QED
    BY <2>1, <2>2
<1> HIDE DEF Turn
<1>8. Run(g)
  <2>1. g = [i \in 0 .. n |-> g[i]]
    BY <1>6
  <2> QED
    BY <1>7, <2>1
<1> DEFINE h == CHOOSE f : Run(f)
<1>9. Run(h)
  BY <1>8
<1> HIDE DEF h
<1>10. h = [i \in 0 .. n |-> Turn(h, i)]
  BY <1>9
<1>11. \A i \in 0 .. n : h[i] = Turn(h, i)
  BY <1>9
<1> HIDE DEF Run
<1>12. h[0] = [all |-> <<>>, at |-> 0] /\ \A i \in 1 .. n : h[i] = ListMore(h[i - 1], rows[i], i, d)
  <2>1. 0 \in 0 .. n /\ \A i \in 1 .. n : i \in 0 .. n /\ i # 0
    BY <1>2
  <2> QED
    BY <1>11, <2>1 DEF Turn
<1>13. \A i \in 0 .. n : h[i] \in S
  <2>1. ASSUME NEW i \in 1 .. n, h[i - 1] \in S
        PROVE  h[i] \in S
    BY <1>3, <1>12, <2>1
  <2>2. h[0] \in S
    BY <1>5, <1>12
  <2> QED
    BY <1>2, <2>1, <2>2, RunType
<1>14. h \in [0 .. n -> S]
  <2>1. \A i \in 0 .. n : Turn(h, i) \in S
    BY <1>11, <1>13
  <2> QED
    BY <1>10, <2>1
<1>15. Listed(rows, d) = h[n].all
  BY <1>1 DEF h
<1> QED
  BY <1>12, <1>14, <1>15 DEF n, S

\* The entries all hold the subtitles of the first i channels, and nothing else when
\* the channels have words.
Holds(all, rows, i) ==
    \A c \in 1 .. i : \A k \in 1 .. Len(Cues(rows[c].words)) :
        \E j \in 1 .. Len(all) : all[j] = Entry(Cues(rows[c].words)[k])

CueCounts(rows) == [c \in 1 .. Len(rows) |-> Len(Cues(rows[c].words))]

AllHaveWords(rows) == \A c \in 1 .. Len(rows) : rows[c].words # <<>>

LEMMA NoCuesNoWords ==
    ASSUME NEW W, PlacedWord(W), NEW words \in Seq(W), words # <<>>
    PROVE  Cues(words) # <<>>
<1>1. \A w \in W : w.s \in Nat /\ w.e \in Nat
  BY DEF PlacedWord
<1>2. Joined(Cues(words)) = words
  BY <1>1, CuesHold
<1>3. Joined(<<>>) = <<>>
  <2>1. <<>> \in Seq(Seq(W)) /\ Len(<<>>) = 0
    OBVIOUS
  <2>2. PICK g \in [0 .. Len(<<>>) -> Seq(W)] : Joined(<<>>) = g[Len(<<>>)] /\ g[0] = <<>>
    BY <2>1, JoinedTurns
  <2> QED
    BY <2>1, <2>2
<1> QED
  BY <1>2, <1>3

LEMMA ListHolds ==
    ASSUME NEW W, PlacedWord(W), NEW R, \A r \in R : r.words \in Seq(W) /\ r.text \in Seq(Token),
           NEW rows \in Seq(R), NEW d \in Nat
    PROVE  /\ Listed(rows, d) \in Seq(EntryOf(W))
           /\ Holds(Listed(rows, d), rows, Len(rows))
           /\ AllHaveWords(rows) => Len(Listed(rows, d)) = Total(CueCounts(rows))
<1> DEFINE n == Len(rows)
           S == [all : Seq(EntryOf(W)), at : Nat]
           count == CueCounts(rows)
<1>1. n \in Nat /\ \A i \in 1 .. n : rows[i] \in R
  OBVIOUS
<1>2. PICK h \in [0 .. Len(rows) -> S] :
         /\ Listed(rows, d) = h[Len(rows)].all
         /\ h[0] = [all |-> <<>>, at |-> 0]
         /\ \A i \in 1 .. Len(rows) : h[i] = ListMore(h[i - 1], rows[i], i, d)
  BY ListTurns
<1>3. ASSUME NEW i \in 1 .. n
      PROVE  Cues(rows[i].words) \in Seq(CueOf(W)) /\ Len(Cues(rows[i].words)) \in Nat
  <2>1. PICK row \in R : row = rows[i]
    BY <1>1
  <2>2. PICK words \in Seq(W) : words = row.words
    OBVIOUS
  <2>3. \A w \in W : w.s \in Nat /\ w.e \in Nat
    BY DEF PlacedWord
  <2>4. Cues(words) \in Seq(CueOf(W))
    BY <2>3, CuesHold
  <2>5. Len(Cues(words)) \in Nat
    BY <2>4
  <2> QED
    BY <2>1, <2>2, <2>4, <2>5
<1>4. count \in Seq(Int) /\ Len(count) = n /\ \A i \in 1 .. n : count[i] = Len(Cues(rows[i].words))
  <2>1. count = [i \in 1 .. n |-> Len(Cues(rows[i].words))]
    BY DEF CueCounts
  <2>2. \A i \in 1 .. n : Len(Cues(rows[i].words)) \in Int
    BY <1>3
  <2> HIDE DEF n, count
  <2> QED
    BY <1>1, <2>1, <2>2
<1> HIDE DEF n, count, S
<1>5. PICK sum \in [0 .. Len(count) -> Int] :
         /\ Total(count) = sum[Len(count)]
         /\ sum[0] = 0
         /\ \A i \in 1 .. Len(count) : sum[i] = sum[i - 1] + count[i]
  BY <1>4, TotalTurns
<1> DEFINE Q == {i \in 0 .. n : /\ Holds(h[i].all, rows, i)
                                /\ AllHaveWords(rows) => Len(h[i].all) = sum[i]}
<1>6. 0 \in Q
  <2>1. h[0].all = <<>> /\ Len(<<>>) = 0 /\ 0 \in 0 .. n /\ 1 .. 0 = {} /\ sum[0] = 0
    BY <1>1, <1>2, <1>5
  <2> QED
    BY <2>1 DEF Holds
<1>7. ASSUME NEW i \in 1 .. n, i - 1 \in Q
      PROVE  i \in Q
  <2>1. i \in 0 .. n /\ i - 1 \in 0 .. n /\ i \in Nat
        /\ \A c \in 1 .. i : c \in 1 .. i - 1 \/ c = i
    BY <1>1
  <2>2. PICK x \in S : x = h[i - 1]
    BY <1>2, <2>1 DEF n
  <2>3. PICK row \in R : row = rows[i]
    BY <1>1
  <2>4. PICK y : y = h[i]
    OBVIOUS
  <2>5. y = ListMore(x, row, i, d)
    BY <1>2, <2>2, <2>3, <2>4 DEF n
  <2>6. y \in S /\ ListsMore(y, x, Cues(row.words))
    <3>1. x \in [all : Seq(EntryOf(W)), at : Nat]
      BY DEF S
    <3>2. row.words \in Seq(W) /\ row.text \in Seq(Token)
      OBVIOUS
    <3> QED
      BY <2>1, <2>5, <3>1, <3>2, ListAdds DEF S
  <2>7. Holds(x.all, rows, i - 1) /\ (AllHaveWords(rows) => Len(x.all) = sum[i - 1])
    BY <1>7, <2>2
  <2>8. Len(x.all) \in Nat /\ Len(y.all) \in Nat
    <3>1. x.all \in Seq(EntryOf(W)) /\ y.all \in Seq(EntryOf(W))
      BY <2>6 DEF S
    <3> QED
      BY <3>1
  <2>9. Holds(y.all, rows, i)
    <3> SUFFICES ASSUME NEW c \in 1 .. i, NEW k \in 1 .. Len(Cues(rows[c].words))
                 PROVE  \E j \in 1 .. Len(y.all) : y.all[j] = Entry(Cues(rows[c].words)[k])
      BY DEF Holds
    <3>1. CASE c = i
      BY <2>3, <2>6, <3>1 DEF ListsMore
    <3>2. CASE c \in 1 .. i - 1
      <4>1. PICK j \in 1 .. Len(x.all) : x.all[j] = Entry(Cues(rows[c].words)[k])
        BY <2>7, <3>2 DEF Holds
      <4>2. j \in 1 .. Len(y.all) /\ y.all[j] = x.all[j]
        BY <2>6, <2>8 DEF ListsMore
      <4> QED
        BY <4>1, <4>2
    <3> QED
      BY <2>1, <3>1, <3>2
  <2>10. ASSUME AllHaveWords(rows)
         PROVE  Len(y.all) = sum[i]
    <3>1. PICK words \in Seq(W) : words = row.words
      OBVIOUS
    <3>2. words # <<>>
      BY <2>3, <2>10, <3>1 DEF AllHaveWords, n
    <3>3. Cues(words) # <<>>
      BY <3>2, NoCuesNoWords
    <3>4. Len(y.all) = Len(x.all) + Len(Cues(words))
      BY <2>6, <3>1, <3>3 DEF ListsMore
    <3>5. sum[i] = sum[i - 1] + count[i] /\ count[i] = Len(Cues(words))
      BY <1>4, <1>5, <2>3, <3>1
    <3> QED
      BY <2>7, <2>10, <3>4, <3>5
  <2> QED
    BY <2>1, <2>4, <2>9, <2>10
<1> HIDE DEF Q
<1>8. \A i \in 0 .. n : i \in Q
  BY <1>1, <1>6, <1>7, TurnByTurn
<1>9. n \in Q /\ n \in 0 .. n
  BY <1>1, <1>8
<1>10. h[n].all \in Seq(EntryOf(W))
  <2>1. h[n] \in S
    BY <1>2, <1>9 DEF n
  <2> QED
    BY <2>1 DEF S
<1> QED
  BY <1>2, <1>4, <1>5, <1>9, <1>10 DEF Q, n, count

\* The SRT file is sorted by time and holds every subtitle of every channel, and
\* nothing else when they all have words.
LEMMA SrtHolds ==
    ASSUME NEW W, PlacedWord(W), NEW R, \A r \in R : r.words \in Seq(W) /\ r.text \in Seq(Token),
           NEW rows \in Seq(R), rows # <<>>, NEW d \in Nat
    PROVE  /\ InOrder(Srt(rows, d)) /\ Srt(rows, d) \in Seq(EntryOf(W))
           /\ Holds(Srt(rows, d), rows, Len(rows))
           /\ AllHaveWords(rows) => Len(Srt(rows, d)) = Total(CueCounts(rows))
<1>1. PICK E : E = EntryOf(W)
  OBVIOUS
<1>2. PICK all \in Seq(E) : all = Listed(rows, d)
  BY <1>1, ListHolds
<1>3. Holds(all, rows, Len(rows)) /\ (AllHaveWords(rows) => Len(all) = Total(CueCounts(rows)))
  BY <1>2, ListHolds
<1>4. PICK entries \in Seq(E) : entries = IF all # <<>> THEN all ELSE <<NoText>>
  <2>1. PICK x \in E : x = NoText
    BY <1>1, EntryTypes
  <2>2. <<x>> \in Seq(E)
    OBVIOUS
  <2> QED
    BY <2>1, <2>2
<1>5. PICK srt : srt = Srt(rows, d)
  OBVIOUS
<1>6. srt = ByTime(entries)
  BY <1>2, <1>4, <1>5 DEF Srt
<1>7. /\ srt \in Seq(E) /\ Len(srt) = Len(entries) /\ InOrder(srt)
      /\ \A i \in 1 .. Len(entries) : \E k \in 1 .. Len(srt) : srt[k] = entries[i]
  <2>1. TimedEntry(E)
    BY <1>1, EntryTypes
  <2>2. ByTime(entries) \in Seq(E) /\ Len(ByTime(entries)) = Len(entries)
    BY <2>1, ByTimeOrders
  <2>3. InOrder(ByTime(entries))
    BY <2>1, ByTimeOrders
  <2>4. \A i \in 1 .. Len(entries) : \E k \in 1 .. Len(ByTime(entries)) : ByTime(entries)[k] = entries[i]
    BY <2>1, ByTimeOrders
  <2> QED
    BY <1>6, <2>2, <2>3, <2>4
<1>8. CASE all # <<>>
  <2>1. entries = all
    BY <1>4, <1>8
  <2>2. Holds(srt, rows, Len(rows))
    BY <1>3, <1>7, <2>1 DEF Holds
  <2> QED
    BY <1>1, <1>3, <1>5, <1>7, <2>1, <2>2
<1>9. CASE all = <<>>
  <2>1. Len(all) = 0 /\ 1 .. 0 = {}
    BY <1>9
  <2>2. Holds(srt, rows, Len(rows))
    BY <1>3, <2>1 DEF Holds
  <2>3. ~ AllHaveWords(rows)
    <3>1. SUFFICES ASSUME AllHaveWords(rows)
                   PROVE  FALSE
      OBVIOUS
    <3>2. Len(rows) \in Nat /\ Len(rows) >= 1
      BY EmptySeq
    <3>3. 1 \in 1 .. Len(rows)
      BY <3>2
    <3>4. PICK words \in Seq(W) : words = rows[1].words
      BY <3>3
    <3>5. words # <<>>
      BY <3>1, <3>3, <3>4 DEF AllHaveWords
    <3>6. Cues(words) # <<>>
      BY <3>5, NoCuesNoWords
    <3>7. PICK cues \in Seq(CueOf(W)) : cues = Cues(words)
      <4>1. \A w \in W : w.s \in Nat /\ w.e \in Nat
        BY DEF PlacedWord
      <4> QED
        BY <4>1, CuesHold
    <3>8. Len(cues) \in Nat /\ Len(cues) >= 1
      BY <3>6, <3>7, EmptySeq
    <3>9. 1 \in 1 .. Len(cues)
      BY <3>8
    <3>10. \E j \in 1 .. Len(all) : all[j] = Entry(cues[1])
      BY <1>3, <3>3, <3>4, <3>7, <3>9 DEF Holds
    <3> QED
      BY <2>1, <3>10
  <2> QED
    BY <1>1, <1>5, <1>7, <2>2, <2>3
<1> QED
  BY <1>8, <1>9

\* The channels of a job are rows of words with their times.
LEMMA RowsOfInv ==
    ASSUME AttemptInv
    PROVE  \E W, R :
              /\ PlacedWord(W) /\ SubSeq(stored, 1, channels) \in Seq(R)
              /\ \A r \in R : r.words \in Seq(W) /\ r.text \in Seq(Token)
              /\ SubSeq(stored, 1, channels) # <<>> /\ Len(SubSeq(stored, 1, channels)) = channels
<1> DEFINE R == {stored[c] : c \in 1 .. MaxChannels}
           W == UNION {Range(r.words) : r \in R}
<1>1. MaxChannels \in Nat /\ channels \in 1 .. MaxChannels /\ stored = [c \in 1 .. MaxChannels |-> stored[c]]
  BY TranscriptAssumption DEF AttemptInv
<1>2. ASSUME NEW r \in R
      PROVE  /\ r.words \in Seq(W) /\ r.text \in Seq(Token)
             /\ \A w \in Range(r.words) : w.s \in Nat /\ w.e \in Nat /\ w.tok \in Token
  <2>1. RowKnown(r)
    BY DEF AttemptInv
  <2>2. r.text \in Seq(Token) /\ Heard(r.words)
        /\ \A i \in 1 .. Len(r.words) : r.words[i].s \in Nat /\ r.words[i].e \in Nat
    BY <2>1 DEF RowKnown, RowPlaced
  <2>3. PICK words : words = r.words
    OBVIOUS
  <2>4. words \in Seq(Range(words)) /\ \A i \in 1 .. Len(words) : words[i].tok \in Token
    BY <2>2, <2>3 DEF Heard
  <2>5. Range(words) \subseteq W
    BY <2>3
  <2> HIDE DEF W
  <2>6. words \in Seq(W)
    BY <2>4, <2>5
  <2>7. DOMAIN words = 1 .. Len(words)
    BY <2>4
  <2>8. \A w \in Range(words) : \E i \in 1 .. Len(words) : w = words[i]
    BY <2>7 DEF Range
  <2>9. \A w \in Range(words) : w.s \in Nat /\ w.e \in Nat /\ w.tok \in Token
    BY <2>2, <2>3, <2>4, <2>8
  <2> QED
    BY <2>2, <2>3, <2>6, <2>9
<1>3. PlacedWord(W)
  BY <1>2 DEF PlacedWord
<1>4. stored \in Seq(R) /\ Len(stored) = MaxChannels
  <2>1. \A c \in 1 .. MaxChannels : stored[c] \in R
    OBVIOUS
  <2> HIDE DEF R
  <2> QED
    BY <1>1, <2>1, TableSequence
<1> HIDE DEF R, W
<1>5. \A r \in R : r.words \in Seq(W) /\ r.text \in Seq(Token)
  BY <1>2
<1>6. SubSeq(stored, 1, channels) \in Seq(R) /\ Len(SubSeq(stored, 1, channels)) = channels
  <2>1. 1 \in 1 .. Len(stored) + 1 /\ channels \in 0 .. Len(stored) /\ 1 <= channels
    BY <1>1, <1>4
  <2>2. SubSeq(stored, 1, channels) \in Seq(R)
        /\ Len(SubSeq(stored, 1, channels)) = IF 1 <= channels THEN channels - 1 + 1 ELSE 0
    BY <1>4, <2>1, SubSeqProperties
  <2> QED
    BY <1>1, <2>2
<1>7. SubSeq(stored, 1, channels) # <<>>
  <2>1. Len(<<>>) = 0 /\ channels # 0
    BY <1>1
  <2> QED
    BY <1>6, <2>1
<1> QED
  BY <1>3, <1>5, <1>6, <1>7

-----------------------------------------------------------------------------
(* The exports of a finished job.                                          *)

\* What ExportsFaithful says of the subtitles of one channel.
CuesOf(cues, words, srt) ==
    /\ Joined(cues) = words
    /\ \A k \in DOMAIN cues :
          /\ Entry(cues[k]) \in Range(srt)
          /\ Len(cues[k]) <= CueSize
          /\ \A i \in DOMAIN cues[k] : cues[k][i].spk = cues[k][1].spk
          /\ \A i \in 2 .. Len(cues[k]) : 10 * (cues[k][i].s - cues[k][i - 1].e) <= 9 * Sec

\* What it says of the file srt of these channels.
FileOf(rows, srt) ==
    /\ \A k \in 2 .. Len(srt) : NotLater(srt[k - 1], srt[k])
    /\ \A c \in 1 .. channels :
          /\ CuesOf(Cues(rows[c].words), rows[c].words, srt)
          /\ GroupsOf(Grouped(rows[c].words), rows[c].words)
    /\ (\A c \in 1 .. channels : rows[c].words # <<>>) =>
          Len(srt) = Total([c \in 1 .. channels |-> Len(Cues(rows[c].words))])

\* The subtitles of these words are entries of the file.
Filed(words, srt) ==
    \A k \in 1 .. Len(Cues(words)) : \E j \in 1 .. Len(srt) : srt[j] = Entry(Cues(words)[k])

LEMMA ChannelHolds ==
    ASSUME NEW W, PlacedWord(W), NEW words \in Seq(W), NEW E, NEW srt \in Seq(E), Filed(words, srt)
    PROVE  CuesOf(Cues(words), words, srt) /\ GroupsOf(Grouped(words), words)
<1>1. (\A w \in W : w.s \in Nat /\ w.e \in Nat) /\ \A w \in W : w.tok \in Token
  BY DEF PlacedWord
<1>2. PICK cues : cues = Cues(words)
  OBVIOUS
<1>3. cues \in Seq(CueOf(W)) /\ Joined(cues) = words /\ \A k \in 1 .. Len(cues) : Tight(cues[k])
  BY <1>1, <1>2, CuesHold
<1>4. DOMAIN cues = 1 .. Len(cues)
  BY <1>3
<1>5. \A k \in DOMAIN cues : Entry(cues[k]) \in Range(srt)
  <2>1. DOMAIN srt = 1 .. Len(srt)
    OBVIOUS
  <2>2. \A j \in 1 .. Len(srt) : srt[j] \in Range(srt)
    BY <2>1 DEF Range
  <2> QED
    BY <1>2, <1>4, <2>2 DEF Filed
<1>6. ASSUME NEW k \in DOMAIN cues
      PROVE  /\ Len(cues[k]) <= CueSize
             /\ \A i \in DOMAIN cues[k] : cues[k][i].spk = cues[k][1].spk
             /\ \A i \in 2 .. Len(cues[k]) : 10 * (cues[k][i].s - cues[k][i - 1].e) <= 9 * Sec
  <2>1. PICK q \in CueOf(W) : q = cues[k]
    BY <1>3, <1>4
  <2>2. Tight(q)
    BY <1>3, <1>4, <2>1
  <2>3. DOMAIN q = 1 .. Len(q)
    BY DEF CueOf
  <2> QED
    BY <2>1, <2>2, <2>3 DEF Tight
<1>7. CuesOf(cues, words, srt)
  BY <1>3, <1>5, <1>6 DEF CuesOf
<1>8. GroupsOf(Grouped(words), words)
  BY <1>1, GroupsHold
<1> QED
  BY <1>2, <1>7, <1>8

\* The exports of a finished job hold every word of a channel once, in order (SRT) or
\* in order within its speaker (TXT, DOCX), whatever the model says and however the
\* words are placed.  A subtitle has one speaker, no long pause and no more than
\* CueSize words; the file has all of them, sorted by their times, and nothing else
\* when every channel has words.
THEOREM ExportsHoldWords == TSpec => []ExportsFaithful
<1>1. AttemptInv => ExportsFaithful
  <2> SUFFICES ASSUME AttemptInv
               PROVE  ExportsFaithful
    OBVIOUS
  <2>1. dur \in Nat /\ channels \in Nat
    BY DurationType, TranscriptAssumption DEF AttemptInv
  <2>2. PICK rows : rows = SubSeq(stored, 1, channels)
    OBVIOUS
  <2>3. PICK W, R : /\ PlacedWord(W) /\ rows \in Seq(R)
                    /\ \A r \in R : r.words \in Seq(W) /\ r.text \in Seq(Token)
                    /\ rows # <<>> /\ Len(rows) = channels
    BY <2>2, RowsOfInv
  <2>4. PICK srt : srt = Srt(rows, dur)
    OBVIOUS
  <2>5. InOrder(srt) /\ srt \in Seq(EntryOf(W)) /\ Holds(srt, rows, Len(rows))
    BY <2>1, <2>3, <2>4, SrtHolds
  <2>6. AllHaveWords(rows) => Len(srt) = Total(CueCounts(rows))
    BY <2>1, <2>3, <2>4, SrtHolds
  <2>7. \A k \in 2 .. Len(srt) : NotLater(srt[k - 1], srt[k])
    <3>1. PICK n \in Nat : n = Len(srt)
      BY <2>5
    <3>2. \A k \in 2 .. n : k \in 1 .. n /\ k - 1 \in 1 .. n /\ k - 1 < k
      OBVIOUS
    <3> QED
      BY <2>5, <3>1, <3>2 DEF InOrder
  <2>8. ASSUME NEW c \in 1 .. channels
        PROVE  /\ CuesOf(Cues(rows[c].words), rows[c].words, srt)
               /\ GroupsOf(Grouped(rows[c].words), rows[c].words)
    <3>1. rows[c] \in R
      BY <2>3
    <3>2. rows[c].words \in Seq(W)
      BY <2>3, <3>1
    <3>3. Filed(rows[c].words, srt)
      BY <2>3, <2>5 DEF Filed, Holds
    <3> QED
      BY <2>3, <2>5, <3>2, <3>3, ChannelHolds
  <2>9. (\A c \in 1 .. channels : rows[c].words # <<>>) =>
            Len(srt) = Total([c \in 1 .. channels |-> Len(Cues(rows[c].words))])
    BY <2>3, <2>6 DEF AllHaveWords, CueCounts
  <2>10. FileOf(rows, srt)
    BY <2>7, <2>8, <2>9 DEF FileOf
  <2>11. FileOf(SubSeq(stored, 1, channels), Srt(SubSeq(stored, 1, channels), dur))
    BY <2>2, <2>4, <2>10
  <2> QED
    BY <2>11, Zenon DEF FileOf, CuesOf, GroupsOf, ExportsFaithful
<1> QED
  BY AttemptInvariant, <1>1, PTL

=============================================================================
