---------------------------- MODULE SpeechEngine ----------------------------
(***************************************************************************)
(* What the engine makes of the audio and of the model's answers           *)
(* (backend/app/services/transcription_engine.py; the detection of speech  *)
(* is the same in timestamp_repair.py).                                    *)
(*                                                                         *)
(* The log of ffmpeg's silencedetect is a sequence of events [kind, at],   *)
(* kind "start" or "end"; a start before the recording is not in the log,  *)
(* since its number is negative and the pattern matches none.              *)
(***************************************************************************)
EXTENDS WordTimes

CONSTANTS
    ManyWords,    \* 40: from here on the share of long words counts
    SomeWords,    \* 30: from here on the covered time counts
    TextCap       \* 400: longer texts score no higher

ASSUME EngineAssumption == {ManyWords, SomeWords, TextCap} \subseteq Nat

-----------------------------------------------------------------------------
(* Speech.                                                                 *)

\* The events of a log as silencedetect writes them.
InTurn(log) ==
    \A k \in 2 .. Len(log) :
        log[k - 1].at <= log[k].at /\ log[k - 1].kind # log[k].kind

\* The silences that ended, and the start of one that has not.
ClosedSilences(log, dur) ==
    LET read[k \in 0 .. Len(log)] ==
            IF k = 0 THEN [open |-> None, list |-> <<>>]
            ELSE LET done == read[k - 1]
                     at   == Smaller(dur, log[k].at)
                     from == IF done.open = None THEN 0 ELSE done.open
                 IN  IF log[k].kind = "start" THEN [done EXCEPT !.open = at]
                     ELSE [open |-> None,
                           list |-> IF at > from THEN Append(done.list, [s |-> from, e |-> at])
                                    ELSE done.list]
    IN  read[Len(log)]

\* Mutant: a silence that lasts to the end is dropped.
EndedSilences(log, dur) == ClosedSilences(log, dur).list

\* The silences of the log: a start without an end lasts to the end of the
\* recording, an end without a start began with it.
Silences(log, dur) ==
    LET read == ClosedSilences(log, dur)
    IN  IF read.open # None /\ read.open < dur
        THEN Append(read.list, [s |-> read.open, e |-> dur])
        ELSE read.list

\* The time outside the silences.
Between(silences, dur) ==
    LET order == Sorted(silences)
        swept[k \in 0 .. Len(order)] ==
            IF k = 0 THEN [at |-> 0, list |-> <<>>]
            ELSE LET done == swept[k - 1]
                     s    == Larger(done.at, order[k].s)
                 IN  [at   |-> Larger(done.at, order[k].e),
                      list |-> IF s > done.at THEN Append(done.list, [s |-> done.at, e |-> s])
                               ELSE done.list]
        all == swept[Len(order)]
    IN  IF all.at < dur THEN Append(all.list, [s |-> all.at, e |-> dur]) ELSE all.list

\* Speech of less than 0.03 s is none.
LongEnough(g) == 100 * (g.e - g.s) >= 3 * Sec

\* _detect_speech_segments: the whole recording when nothing is left of it.
DetectSpeech(log, dur) ==
    LET silences == Silences(log, dur)
        loud     == Between(silences, dur)
        speech   == Those(loud, {g \in Range(loud) : LongEnough(g)})
    IN  IF dur = 0 THEN <<>>
        ELSE IF silences = <<>> \/ speech = <<>> THEN <<[s |-> 0, e |-> dur]>>
        ELSE speech

-----------------------------------------------------------------------------
(* Words.                                                                  *)

\* _words_from_word_chunks.
WordsOfChunks(chunks) == Spoken(chunks)

\* _words_from_segment_chunks: a chunk [toks, s, e] with both times, some length
\* and some text is cut into equal slots.
WordsOfSegments(chunks, dur) ==
    LET d == AtLeastOne(dur)
        Cut(c) ==
            LET s == Smaller(d, c.s)
                e == Smaller(d, c.e)
                n == Len(c.toks)
                slot(i) == s + (i * (e - s)) \div n
            IN  IF None \in {c.s, c.e} THEN <<>>
                ELSE IF e <= s THEN <<>>
                ELSE [i \in 1 .. n |->
                         [tok |-> c.toks[i], s |-> slot(i - 1),
                          e |-> IF slot(i) > slot(i - 1) THEN slot(i)
                                ELSE Smaller(e, slot(i - 1) + Sec \div 25)]]
        cut[k \in 0 .. Len(chunks)] ==
            IF k = 0 THEN <<>> ELSE cut[k - 1] \o Cut(chunks[k])
    IN  cut[Len(chunks)]

\* The times of the words that have any, a missing start read as 0 and a missing
\* or earlier end as the start.
Spans(words) ==
    LET Start(w) == IF w.s = None THEN 0 ELSE w.s
        w == Those(words, {x \in Range(words) : x.s # None \/ x.e # None})
    IN  [i \in DOMAIN w |->
            [s |-> Start(w[i]),
             e |-> Larger(Start(w[i]), IF w[i].e = None THEN Start(w[i]) ELSE w[i].e)]]

\* From the first start to the last end.
Extent(words) ==
    LET spans == Range(Spans(words))
    IN  IF spans = {} THEN 0
        ELSE Max({g.e : g \in spans}) - Min({g.s : g \in spans})

\* _words_look_collapsed.
Collapsed(words, dur) ==
    LET d == AtLeastOne(dur)
    IN  /\ Len(words) >= 4
        /\ \/ Len(Spans(words)) < 3
           \/ /\ Cardinality(Range(Spans(words))) <= 2
              /\ 100 * Extent(words) <= Larger(35 * Sec, 8 * d)
           \/ \A g \in Range(Spans(words)) : 100 * g.s >= 85 * d

\* _timing_anomaly_stats: the words that take t units or more, and the time from
\* the first word to the last one.
LongWords(words, t) ==
    Cardinality({i \in DOMAIN Spans(words) : Spans(words)[i].e - Spans(words)[i].s >= t})
Covered(words, d) == Smaller(d, Extent(words))

\* Two and a half, five and ten seconds.
Long == (5 * Sec) \div 2
VeryLong == 5 * Sec
Huge == 10 * Sec

\* _needs_refined_pass.
NeedsRefined(words, dur) ==
    LET d == AtLeastOne(dur)
    IN  \/ words = <<>>
        \/ LongWords(words, Huge) >= 1
        \/ LongWords(words, VeryLong) >= 2
        \/ /\ Len(words) >= ManyWords
           /\ 100 * LongWords(words, Long) >= 6 * Larger(1, Len(Spans(words)))
        \/ Len(words) >= SomeWords /\ 100 * Covered(words, d) <= 45 * d

\* _candidate_quality_score, times 4 * AtLeastOne(dur).
Score(words, text, dur) ==
    LET d == AtLeastOne(dur)
    IN  d * (4 * Len(words) + Smaller(Len(text), TextCap)
               - 8 * LongWords(words, Long) - 16 * LongWords(words, VeryLong)
               - 40 * LongWords(words, Huge))
          - 160 * Larger(0, d - 2 * Covered(words, d))

\* A candidate replaces another when it scores more than m / 2 points higher.
Beats(new, old, m, dur) == new > old + 2 * m * AtLeastOne(dur)

=============================================================================
