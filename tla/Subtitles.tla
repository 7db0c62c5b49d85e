----------------------------- MODULE Subtitles -----------------------------
(***************************************************************************)
(* Speakers (backend/app/services/diarization.py) and the exports          *)
(* (backend/app/services/exports.py).  A channel is a record with its      *)
(* words, each with a speaker spk, and its text.                           *)
(***************************************************************************)
EXTENDS WordTimes

CONSTANT CueSize    \* 10: the words of a subtitle

ASSUME CueAssumption == CueSize \in Nat \ {0}

\* A pause of 1.2 s is a change of speakers.
TurnBefore(words, i) == 10 * (words[i].s - words[i - 1].e) >= 12 * Sec

\* diarize_words: one speaker for each channel, or two who take turns.
Diarized(words, channels, c) ==
    LET turns(i) == Cardinality({k \in 2 .. i : TurnBefore(words, k)})
        Speaker(i) == IF channels > 1 THEN <<"spk_ch", c>>
                      ELSE <<"spk", 1 + (turns(i) % 2)>>
    IN  [i \in DOMAIN words |->
            [tok |-> words[i].tok, s |-> words[i].s, e |-> words[i].e, spk |-> Speaker(i)]]

-----------------------------------------------------------------------------
(* SRT.                                                                    *)

\* Mutant: a subtitle takes one word too many.
LongCue(cue, w) ==
    LET prev == cue[Len(cue)]
    IN  \/ Len(cue) > CueSize
        \/ 10 * (w.s - prev.e) > 9 * Sec
        \/ w.spk # prev.spk

\* A word starts a new subtitle when the last one is full, after a pause of more
\* than 0.9 s, and with another speaker.
NewCue(cue, w) ==
    LET prev == cue[Len(cue)]
    IN  \/ Len(cue) >= CueSize
        \/ 10 * (w.s - prev.e) > 9 * Sec
        \/ w.spk # prev.spk

\* The buckets of _build_srt_entries.
Cues(words) ==
    LET cut[k \in 0 .. Len(words)] ==
            IF k = 0 THEN <<>>
            ELSE LET done == cut[k - 1]
                 IN  IF done = <<>> \/ NewCue(Last(done), words[k]) THEN Append(done, <<words[k]>>)
                     ELSE Append(Front(done), Append(Last(done), words[k]))
    IN  cut[Len(words)]

Entry(cue) == [s |-> cue[1].s, e |-> cue[Len(cue)].e, spk |-> cue[1].spk, said |-> Tokens(cue)]

\* The entry at this time of a channel without words: its text, for 2 to 8 seconds.
Bare(text, c, at, dur) ==
    [s |-> at, e |-> at + Larger(2 * Sec, Smaller(8 * Sec, dur)), spk |-> <<"spk_ch", c>>,
     said |-> text]

\* The entries of the channels, in their order; those without words follow one another
\* from the beginning of the recording.
Listed(channels, dur) ==
    LET listed[c \in 0 .. Len(channels)] ==
            IF c = 0 THEN [all |-> <<>>, at |-> 0]
            ELSE LET done == listed[c - 1]
                     cues == Cues(channels[c].words)
                     text == channels[c].text
                     bare == Bare(text, c, done.at, dur)
                 IN  IF cues # <<>>
                     THEN [all |-> done.all \o [k \in DOMAIN cues |-> Entry(cues[k])], at |-> done.at]
                     ELSE IF text = <<>> THEN done
                     ELSE [all |-> Append(done.all, bare), at |-> bare.e + Sec \div 10]
    IN  listed[Len(channels)].all

NotLater(a, b) == a.s < b.s \/ (a.s = b.s /\ a.e <= b.e)

\* Sorted by start and end; entries with the same times keep their order.
ByTime(entries) ==
    LET sorted[k \in 0 .. Len(entries)] ==
            IF k = 0 THEN <<>>
            ELSE LET done == sorted[k - 1]
                     upTo == Cardinality({i \in DOMAIN done : NotLater(done[i], entries[k])})
                 IN  InsertAt(done, upTo + 1, entries[k])
    IN  sorted[Len(entries)]

NoText == [s |-> 0, e |-> 2 * Sec, spk |-> "spk_unknown", said |-> <<>>]

\* render_srt.
Srt(channels, dur) ==
    LET all == Listed(channels, dur)
    IN  ByTime(IF all # <<>> THEN all ELSE <<NoText>>)

-----------------------------------------------------------------------------
(* TXT and DOCX.                                                           *)

\* render_txt and render_docx group a channel's words by speaker, the speakers in
\* the order of their first word.
Grouped(words) ==
    LET grouped[k \in 0 .. Len(words)] ==
            IF k = 0 THEN <<>>
            ELSE LET done == grouped[k - 1]
                     w    == words[k]
                     Theirs(g) == done[g].spk = w.spk
                 IN  IF \E g \in DOMAIN done : Theirs(g)
                     THEN [g \in DOMAIN done |->
                              IF Theirs(g) THEN [done[g] EXCEPT !.said = Append(@, w.tok)] ELSE done[g]]
                     ELSE Append(done, [spk |-> w.spk, said |-> <<w.tok>>])
    IN  grouped[Len(words)]

=============================================================================
