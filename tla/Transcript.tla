----------------------------- MODULE Transcript -----------------------------
(***************************************************************************)
(* From a recording to the words that are stored, read and exported: one   *)
(* attempt of a worker on a job (transcribe_channel of                     *)
(* backend/app/services/transcription_engine.py and the loop of            *)
(* process_job in backend/worker.py), and the reads of the finished job,   *)
(* which repair its times (backend/app/services/timestamp_repair.py).      *)
(*                                                                         *)
(* The model and ffmpeg are inputs: a call returns one of the given        *)
(* answers or fails.                                                       *)
(***************************************************************************)
EXTENDS SpeechEngine, Subtitles

CONSTANTS
    MaxChannels,    \* the largest number of channels
    Durations,      \* source_duration_sec of a job
    Logs,           \* Logs[c]: logs of silencedetect for channel c
    WordAnswers,    \* WordAnswers[c]: answers [text, chunks] of the first pass
    FinerAnswers,   \* FinerAnswers[c]: answers of the refined pass
    SegmentAnswers, \* SegmentAnswers[c]: answers [text, chunks] of the segment pass
    MaxAttempts     \* bound on the attempts

ASSUME TranscriptAssumption ==
    /\ MaxChannels \in Nat \ {0} /\ MaxAttempts \in Nat \ {0}
    /\ Durations \subseteq Nat \ {0}

\* The types of the answers: texts are of words, and a chunk of the word passes is
\* one word, which may be blank.  The events of a log have their times.
ASSUME AnswerAssumption ==
    \A c \in 1 .. MaxChannels :
        /\ Logs[c] \subseteq Seq([kind : {"start", "end"}, at : Nat])
        /\ \A a \in WordAnswers[c] \cup FinerAnswers[c] :
              a.text \in Seq(Token) /\ a.chunks \in Seq(GivenWord)
        /\ \A a \in SegmentAnswers[c] :
              /\ a.text \in Seq(Token)
              /\ a.chunks \in Seq([toks : Seq(Token), s : Times, e : Times])

\* ffmpeg writes its events in the order of their times, starts and ends in turn.
ASSUME LogAssumption ==
    \A c \in 1 .. MaxChannels : \A log \in Logs[c] : InTurn(log)

VARIABLES
    channels,   \* the number of channels of the job
    dur,        \* source_duration_sec
    tpc,        \* where the attempt is
    at,         \* the channel it is at
    audio,      \* the channel's audio: [log, dur, speech], dur as ffprobe says
    best,       \* the candidate that is selected: [pass, text, words, score]
    raw,        \* the chunks that are stored beside it as payload["raw"]
    stable,     \* the words the alignment has stabilized so far
    stored,     \* the channels' rows and words
    shown,      \* the lists of words of the last read: [kept, added]
    attempts,   \* attempts so far
    wavs,       \* temporary files of transcribe_channel that exist
    orphans     \* those that nothing removes any more

tvars == <<channels, dur, tpc, at, audio, best, raw, stable, stored, shown,
           attempts, wavs, orphans>>

Silent == [log |-> <<>>, dur |-> 0, speech |-> <<>>]
Nothing == [pass |-> "none", text |-> <<>>, words |-> <<>>, score |-> 0]
NoRow == [text |-> <<>>, said |-> <<>>, raw |-> <<>>, words |-> <<>>,
          how |-> "none", pass |-> "none", log |-> <<>>, speech |-> <<>>]

\* A channel that was not read, or is not there.
Unread == [kept |-> <<>>, added |-> <<>>]

\* The steps between the extraction of a channel and the end of its call.
Calling == {"probing", "primary", "refining", "checking"}

TTypeOK ==
    /\ channels \in 1 .. MaxChannels /\ dur \in Durations
    /\ tpc \in Calling \cup {"extracting", "aligning", "failed", "done"}
    /\ at \in 1 .. MaxChannels + 1
    /\ audio.dur \in {0, dur}
    /\ best.pass \in {"none", "primary_word", "refined_word", "segment_fallback"}
    /\ best.score \in Int
    /\ Len(stable) <= Len(best.words)
    /\ \A c \in 1 .. MaxChannels :
          /\ Len(stored[c].words) = Len(stored[c].said)
          /\ stored[c].how \in {"none", "model", "segments", "even"}
    /\ attempts \in 1 .. MaxAttempts /\ wavs \in Nat /\ orphans \in 0 .. MaxAttempts

TInit ==
    /\ channels \in 1 .. MaxChannels
    /\ dur \in Durations
    /\ tpc = "extracting"
    /\ at = 1
    /\ audio = Silent /\ best = Nothing /\ raw = <<>> /\ stable = <<>>
    /\ stored = [c \in 1 .. MaxChannels |-> NoRow]
    /\ shown = [c \in 1 .. MaxChannels |-> Unread]
    /\ attempts = 1 /\ wavs = 0 /\ orphans = 0

-----------------------------------------------------------------------------
(* transcribe_channel.                                                     *)

jobvars == <<channels, dur, stored, shown, attempts>>

\* _ensure_loaded fails, before there is a file.
LoadFails ==
    /\ tpc = "extracting"
    /\ tpc' = "failed"
    /\ UNCHANGED <<jobvars, at, audio, best, raw, stable, wavs, orphans>>

\* _extract_channel_wav.
Extract ==
    /\ tpc = "extracting"
    /\ tpc' = "probing"
    /\ wavs' = wavs + 1
    /\ UNCHANGED <<jobvars, at, audio, best, raw, stable, orphans>>

\* ffmpeg fails after the temporary file was made: nothing removes it.
ExtractFails ==
    /\ tpc = "extracting"
    /\ tpc' = "failed"
    /\ wavs' = wavs + 1
    /\ orphans' = orphans + 1
    /\ UNCHANGED <<jobvars, at, audio, best, raw, stable>>

\* _probe_duration (0 when ffprobe fails) and _detect_speech_segments.
Probe ==
    /\ tpc = "probing"
    /\ \E log \in Logs[at], d \in {0, dur} :
          audio' = [log |-> log, dur |-> d, speech |-> DetectSpeech(log, d)]
    /\ tpc' = "primary"
    /\ UNCHANGED <<jobvars, at, best, raw, stable, wavs, orphans>>

\* An exception of these two, or of the start of the sampler's thread: the try
\* block, whose finally removes the file, has not begun.
ProbeFails ==
    /\ tpc = "probing"
    /\ tpc' = "failed"
    /\ orphans' = orphans + 1
    /\ UNCHANGED <<jobvars, at, audio, best, raw, stable, wavs>>

\* The worker is killed, or something else in its attempt raises: a file of an
\* open call stays.
WorkerEnds ==
    /\ tpc \in Calling \cup {"extracting", "aligning"}
    /\ tpc' = "failed"
    /\ orphans' = orphans + (IF tpc \in Calling THEN 1 ELSE 0)
    /\ stable' = <<>>
    /\ UNCHANGED <<jobvars, at, audio, best, raw, wavs>>

Candidate(pass, text, words) ==
    [pass |-> pass, text |-> text, words |-> words, score |-> Score(words, text, audio.dur)]

PrimaryPass ==
    /\ tpc = "primary"
    /\ \E a \in WordAnswers[at] :
          LET words == WordsOfChunks(a.chunks)
          IN  /\ best' = Candidate("primary_word", a.text, words)
              /\ raw' = a.chunks
              /\ tpc' = IF Collapsed(words, audio.dur) \/ NeedsRefined(words, audio.dur)
                        THEN "refining" ELSE "checking"
    /\ UNCHANGED <<jobvars, at, audio, stable, wavs, orphans>>

\* Mutant: the file is kept.
KeepWav == UNCHANGED wavs

\* The finally block of transcribe_channel, whether it raises or returns.
RemoveWav == wavs' = wavs - 1

Return == tpc' = "aligning" /\ RemoveWav

\* An exception of the first pass is raised, after the finally block.
PrimaryFails ==
    /\ tpc = "primary"
    /\ tpc' = "failed"
    /\ RemoveWav
    /\ UNCHANGED <<jobvars, at, audio, best, raw, stable, orphans>>

\* The refined pass replaces words, text and payload when it scores better.
RefinedPass ==
    /\ tpc = "refining"
    /\ \E a \in FinerAnswers[at] :
          LET finer == Candidate("refined_word", a.text, WordsOfChunks(a.chunks))
          IN  IF Beats(finer.score, best.score, 3, audio.dur)
              THEN best' = finer /\ raw' = a.chunks
              ELSE UNCHANGED <<best, raw>>
    /\ tpc' = "checking"
    /\ UNCHANGED <<jobvars, at, audio, stable, wavs, orphans>>

\* Its exception is noted and passed over.
RefinedFails ==
    /\ tpc = "refining"
    /\ tpc' = "checking"
    /\ UNCHANGED <<jobvars, at, audio, best, raw, stable, wavs, orphans>>

\* Words that have not collapsed are returned.
NoSegmentPass ==
    /\ tpc = "checking"
    /\ ~ Collapsed(best.words, audio.dur)
    /\ Return
    /\ UNCHANGED <<jobvars, at, audio, best, raw, stable, orphans>>

\* The segment pass replaces words and text, but not the payload's "raw".
SegmentPass ==
    /\ tpc = "checking"
    /\ Collapsed(best.words, audio.dur)
    /\ \E a \in SegmentAnswers[at] :
          LET words == WordsOfSegments(a.chunks, audio.dur)
              text  == IF a.text = <<>> THEN best.text ELSE a.text
              coarse == Candidate("segment_fallback", text, words)
          IN  best' = IF words # <<>> /\ Beats(coarse.score, best.score, 2, audio.dur)
                      THEN coarse ELSE best
    /\ Return
    /\ UNCHANGED <<jobvars, at, audio, raw, stable, orphans>>

SegmentFails ==
    /\ tpc = "checking"
    /\ Collapsed(best.words, audio.dur)
    /\ Return
    /\ UNCHANGED <<jobvars, at, audio, best, raw, stable, orphans>>

-----------------------------------------------------------------------------
(* The rest of process_job.                                                *)

\* The duration the worker aligns with.
Length == IF audio.dur > 0 THEN audio.dur ELSE dur

StillToSettle == Timed(best.words) /\ Len(stable) < Len(best.words)

\* One turn of the loop of _stabilize_timestamps.
SettleWord ==
    /\ tpc = "aligning"
    /\ StillToSettle
    /\ stable' = SettleNext(best.words, stable, Length)
    /\ UNCHANGED <<jobvars, tpc, at, audio, best, raw, wavs, orphans>>

\* The end of align_words_robust, diarize_words, and the transaction that stores
\* the channel.
StoreChannel ==
    /\ tpc = "aligning"
    /\ ~ StillToSettle
    /\ LET a == Aligned(best.text, best.words, Closed(stable, Length), Length, audio.speech)
       IN  stored' = [stored EXCEPT ![at] =
              [text |-> best.text,
               said |-> IF best.words = <<>> THEN best.text ELSE Tokens(best.words),
               raw |-> raw, words |-> Diarized(a.words, channels, at),
               how |-> a.how, pass |-> best.pass,
               log |-> audio.log, speech |-> audio.speech]]
    /\ at' = at + 1
    /\ tpc' = IF at = channels THEN "done" ELSE "extracting"
    /\ audio' = Silent /\ best' = Nothing /\ raw' = <<>> /\ stable' = <<>>
    /\ UNCHANGED <<channels, dur, shown, attempts, wavs, orphans>>

\* The next attempt starts with empty channels (_reset_job_channels_for_retry).
Retry ==
    /\ tpc = "failed"
    /\ attempts < MaxAttempts
    /\ attempts' = attempts + 1
    /\ tpc' = "extracting"
    /\ at' = 1
    /\ stored' = [c \in 1 .. MaxChannels |-> NoRow]
    /\ audio' = Silent /\ best' = Nothing /\ raw' = <<>> /\ stable' = <<>>
    /\ UNCHANGED <<channels, dur, shown, wavs, orphans>>

-----------------------------------------------------------------------------
(* Reads of the finished job.                                              *)

\* Mutant: only the chunks that have times are used.
TimedChunks(row) == SelectSeq(row.raw, LAMBDA w : w.s # None /\ w.e # None)

\* _extract_raw_words: the words of the stored payload, else the stored words.
RepairSource(row) == IF Spoken(row.raw) # <<>> THEN Spoken(row.raw) ELSE Spoken(row.words)

\* The words that repair_job_timestamps_if_needed makes for a channel with this
\* speech, none when it leaves the channel alone.
Repaired(row, c, speech) ==
    LET source == RepairSource(row)
    IN  IF Len(row.words) < 2 \/ ~ Unreliable(row.words, dur) THEN <<>>
        ELSE Diarized(Aligned(row.text, source, Stabilized(source, dur), dur, speech).words,
                      channels, c)

\* GET /jobs/{id}.  The old words are deleted from the database and stay in the
\* loaded list channel.words, to which the repaired ones are appended; the second
\* load of the job does not load the list again, and nothing is committed.  A
\* channel is left alone when the source is gone or its extraction fails; without
\* an answer of ffprobe no speech is detected and the job's duration is used.
Read ==
    /\ tpc = "done"
    /\ \E ffmpeg \in [1 .. channels -> {"fails", "no_duration", "works"}] :
          shown' = [c \in 1 .. MaxChannels |->
             IF c > channels THEN Unread
             ELSE [kept  |-> stored[c].words,
                   added |-> CASE ffmpeg[c] = "fails" -> <<>>
                               [] ffmpeg[c] = "no_duration" -> Repaired(stored[c], c, <<>>)
                               [] OTHER -> Repaired(stored[c], c, DetectSpeech(stored[c].log, dur))]]
    /\ UNCHANGED <<channels, dur, tpc, at, audio, best, raw, stable, stored,
                   attempts, wavs, orphans>>

\* sorted(channel.words, key=seq): both parts of the list are numbered from 0, and
\* of two words with one number the old one is first.
BySeq(old, new) ==
    LET both == Smaller(Len(old), Len(new))
    IN  [i \in 1 .. Len(old) + Len(new) |->
            IF i > 2 * both THEN (IF Len(old) > both THEN old[i - both] ELSE new[i - both])
            ELSE IF i % 2 = 1 THEN old[(i + 1) \div 2]
            ELSE new[i \div 2]]

\* The words of channel c in the last answer (_channel_to_schema).
Answer(c) == BySeq(shown[c].kept, shown[c].added)

TNext ==
    \/ LoadFails \/ Extract \/ ExtractFails \/ Probe \/ ProbeFails \/ WorkerEnds
    \/ PrimaryPass \/ PrimaryFails \/ RefinedPass \/ RefinedFails
    \/ NoSegmentPass \/ SegmentPass \/ SegmentFails
    \/ SettleWord \/ StoreChannel \/ Retry \/ Read

TSpec == TInit /\ [][TNext]_tvars

-----------------------------------------------------------------------------

InTime(words) ==
    /\ \A i \in DOMAIN words : words[i].s < words[i].e /\ words[i].e <= dur
    /\ \A i \in 2 .. Len(words) : words[i - 1].e <= words[i].s

Inside(w, segs) == \E g \in DOMAIN segs : segs[g].s <= w.s /\ w.e <= segs[g].e

\* Whatever times the model gives (none, zero, backwards, beyond the end), the
\* words that are stored, and those that a read adds as their repair, follow one
\* another without overlap, each takes some time, and none is after the end.
WordsInTime ==
    \A c \in 1 .. channels : InTime(stored[c].words) /\ InTime(shown[c].added)

\* Words that are placed by the detected speech lie within one segment of it, never
\* across a silence.
OnlyInSpeech ==
    \A c \in 1 .. channels :
        stored[c].how = "segments" =>
            \A i \in DOMAIN stored[c].words : Inside(stored[c].words[i], stored[c].speech)

\* The silent units of a log of this duration: what lies between two events (or the
\* beginning, or the end), the first of which is a start, or the beginning when the
\* log begins with an end.
SilentUnits(log, length) ==
    LET n == Len(log)
        Off(k)  == IF k = 0 THEN n > 0 /\ log[1].kind = "end" ELSE log[k].kind = "start"
        From(k) == IF k = 0 THEN 0 ELSE log[k].at
        To(k)   == IF k = n THEN length ELSE Smaller(length, log[k + 1].at)
    IN  UNION {From(k) .. To(k) - 1 : k \in {i \in 0 .. n : Off(i)}}

\* No run of these units is long enough to be speech.
Brief(units) ==
    \A t, u \in units : t .. u \subseteq units => ~ LongEnough([s |-> t, e |-> u + 1])

\* The detection agrees with the log, unit by unit: no segment of speech holds a
\* unit of silence, and no speech of 0.03 s or more is left out.  Only when there is
\* none of this length is the whole recording taken for speech.
SpeechIsNotSilence ==
    audio.dur > 0 =>
        LET heard == UNION {audio.speech[g].s .. audio.speech[g].e - 1 : g \in DOMAIN audio.speech}
            loud  == (0 .. dur - 1) \ SilentUnits(audio.log, dur)
        IN  \/ heard \subseteq loud /\ Brief(loud \ heard)
            \/ heard = 0 .. dur - 1 /\ Brief(loud)

Texts(words) == [i \in DOMAIN words |-> words[i].tok]
Twice(toks) == [i \in 1 .. 2 * Len(toks) |-> toks[(i + 1) \div 2]]

\* No path of the alignment loses, repeats or reorders a word: what is stored is what
\* the selected pass said.  An answer holds every word once and in order, or, when
\* the channel was repaired for it, every word twice, the stored one and then the
\* repaired one; unless the words came from the segment pass: the payload keeps the
\* chunks of another pass, and the repair takes its words from there.
WordsKept ==
    \A c \in 1 .. channels :
        /\ Tokens(stored[c].words) = stored[c].said
        /\ stored[c].pass # "segment_fallback" /\ Answer(c) # <<>> =>
               Texts(Answer(c)) \in {stored[c].said, Twice(stored[c].said)}

\* STAGE_3_STATUS.md: "Player + transcript sync by word timestamp" and "Active
\* spoken word highlight".  The words of a channel in an answer are spoken one
\* after the other.
AnswerInTime == \A c \in 1 .. channels : InTime(Answer(c))

\* All the words of the subtitles.
Joined(cues) ==
    LET joined[k \in 0 .. Len(cues)] == IF k = 0 THEN <<>> ELSE joined[k - 1] \o cues[k]
    IN  joined[Len(cues)]

\* What a speaker says among these words.
SaidBy(words, spk) == Tokens(Those(words, {w \in Range(words) : w.spk = spk}))

\* The exports of a finished job hold every word of a channel once, in order (SRT)
\* or in order within its speaker (TXT, DOCX, one group for each speaker).  A subtitle
\* has one speaker, no long pause and no more than CueSize words; all of them are in
\* the file, sorted by their times, and nothing else is when every channel has words.
ExportsFaithful ==
    tpc = "done" =>
        LET rows == SubSeq(stored, 1, channels)
            srt  == Srt(rows, dur)
        IN  /\ \A k \in 2 .. Len(srt) : NotLater(srt[k - 1], srt[k])
            /\ \A c \in 1 .. channels :
                  LET words  == rows[c].words
                      cues   == Cues(words)
                      groups == Grouped(words)
                  IN  /\ Joined(cues) = words
                      /\ \A k \in DOMAIN cues :
                            /\ Entry(cues[k]) \in Range(srt)
                            /\ Len(cues[k]) <= CueSize
                            /\ \A i \in DOMAIN cues[k] : cues[k][i].spk = cues[k][1].spk
                            /\ \A i \in 2 .. Len(cues[k]) :
                                  10 * (cues[k][i].s - cues[k][i - 1].e) <= 9 * Sec
                      /\ {groups[g].spk : g \in DOMAIN groups} = {words[i].spk : i \in DOMAIN words}
                      /\ \A g \in DOMAIN groups :
                            /\ groups[g].said = SaidBy(words, groups[g].spk)
                            /\ \A h \in DOMAIN groups : groups[h].spk = groups[g].spk => h = g
            /\ (\A c \in 1 .. channels : rows[c].words # <<>>) =>
                  Len(srt) = Total([c \in 1 .. channels |-> Len(Cues(rows[c].words))])

\* The finally block removes the temporary file of a call on every way out of the
\* try block.  A file stays behind only where the attempt ends before that block or
\* without it: at most one of each attempt, and none of an attempt that goes on.
WavsAccounted ==
    /\ wavs = orphans + (IF tpc \in Calling THEN 1 ELSE 0)
    /\ orphans <= attempts - (IF tpc = "failed" THEN 0 ELSE 1)

=============================================================================
