----------------------------- MODULE WordTimes -----------------------------
(***************************************************************************)
(* The times of the words of one channel                                   *)
(* (backend/app/services/alignment.py).                                    *)
(*                                                                         *)
(* A time is a number of units, Sec of them a second; a division rounds    *)
(* down.  A word is [tok, s, e]: what is said, its start and its end, which *)
(* are None when the model gave no time.  The token 0 is a blank text.     *)
(* A text is the sequence of its tokens.                                   *)
(***************************************************************************)
EXTENDS Integers, Sequences, FiniteSets, SequencesExt

CONSTANTS
    Sec,    \* units of time in a second
    None    \* no time

ASSUME TimeAssumption == Sec \in Nat \ {0} /\ None \notin Nat

\* A token that is not blank, the times a model may give, and its words.
Token == Nat \ {0}
Times == Nat \cup {None}
GivenWord == [tok : Nat, s : Times, e : Times]

Larger(a, b) == IF a > b THEN a ELSE b
Smaller(a, b) == IF a < b THEN a ELSE b

\* max(duration, 0.001): the smallest duration is one unit.
AtLeastOne(dur) == Larger(dur, 1)

\* The entries of s that are in T, in order.
Those(s, T) ==
    LET kept[i \in 0 .. Len(s)] ==
            IF i = 0 THEN <<>>
            ELSE IF s[i] \in T THEN Append(kept[i - 1], s[i]) ELSE kept[i - 1]
    IN  kept[Len(s)]

\* str(word["text"]).strip() is not empty.
Spoken(words) == Those(words, {w \in Range(words) : w.tok # 0})

\* _tokens_from_raw_words.
Tokens(words) == LET w == Spoken(words) IN [i \in DOMAIN w |-> w[i].tok]

-----------------------------------------------------------------------------
(* Words without usable times.                                             *)

\* _fallback_even_alignment_tokens: equal slots over the whole duration.
EvenWords(toks, dur) ==
    LET n == Len(toks)
        d == AtLeastOne(dur)
    IN  [i \in 1 .. n |-> [tok |-> toks[i], s |-> ((i - 1) * d) \div n, e |-> (i * d) \div n]]

\* What is left of the speech within the recording.
Clipped(speech, dur) ==
    LET cut == [i \in DOMAIN speech |->
                   [s |-> Smaller(dur, speech[i].s), e |-> Smaller(dur, speech[i].e)]]
    IN  Those(cut, {g \in Range(cut) : g.e > g.s})

\* Sorted by start; segments that start together keep their order.
Sorted(segs) ==
    LET sorted[i \in 0 .. Len(segs)] ==
            IF i = 0 THEN <<>>
            ELSE LET done == sorted[i - 1]
                     upTo == Cardinality({k \in DOMAIN done : done[k].s <= segs[i].s})
                 IN  InsertAt(done, upTo + 1, segs[i])
    IN  sorted[Len(segs)]

\* Segments that overlap or touch become one.
JoinTouching(segs) ==
    LET joined[i \in 0 .. Len(segs)] ==
            IF i = 0 THEN <<>>
            ELSE LET done == joined[i - 1]
                     g    == segs[i]
                 IN  IF done # <<>> /\ g.s <= done[Len(done)].e
                     THEN [done EXCEPT ![Len(done)].e = Larger(@, g.e)]
                     ELSE Append(done, g)
    IN  joined[Len(segs)]

\* _normalize_speech_segments.
Segments(speech, dur) == JoinTouching(Sorted(Clipped(speech, dur)))

\* The sum of a sequence of numbers.
Total(f) ==
    LET sum[i \in 0 .. Len(f)] == IF i = 0 THEN 0 ELSE sum[i - 1] + f[i]
    IN  sum[Len(f)]

\* Mutant: the words left over by the rounding are forgotten.
RoundedShares(segs, n) ==
    LET len == [i \in DOMAIN segs |-> segs[i].e - segs[i].s]
    IN  [i \in DOMAIN segs |-> (len[i] * n) \div Total(len)]

\* The number of words of each segment: its part of the voiced time, rounded
\* down, and one word more where most was cut off (the longer segment first).
Shares(segs, n) ==
    LET len    == [i \in DOMAIN segs |-> segs[i].e - segs[i].s]
        total  == Total(len)
        count  == [i \in DOMAIN segs |-> (len[i] * n) \div total]
        cut(i) == (len[i] * n) % total
        Before(i, k) == \/ cut(i) > cut(k)
                        \/ cut(i) = cut(k) /\ len[i] > len[k]
                        \/ cut(i) = cut(k) /\ len[i] = len[k] /\ i < k
        first  == CHOOSE F \in SUBSET DOMAIN segs :
                      /\ Cardinality(F) = n - Total(count)
                      /\ \A i \in F, k \in DOMAIN segs \ F : Before(i, k)
    IN  [i \in DOMAIN segs |-> IF i \in first THEN count[i] + 1 ELSE count[i]]

\* The shortest time a word is given: 0.05 s, less when there are many words.
MinStep(n, d) == Smaller(Sec \div 20, d \div Larger(n, 10))

\* Mutant: the slots ignore where the segments are.
SpreadWords(toks, segs, d) == EvenWords(toks, segs[Len(segs)].e)

\* Equal slots for the words of one segment.
Slots(toks, seg, step) ==
    LET slot(i) == seg.s + (i * (seg.e - seg.s)) \div Len(toks)
    IN  [k \in DOMAIN toks |->
            [tok |-> toks[k], s |-> slot(k - 1),
             e |-> IF slot(k) > slot(k - 1) THEN slot(k)
                   ELSE Smaller(seg.e, slot(k - 1) + step)]]

\* Each segment has its share of the words, in order.  The shares add up to all
\* words, so the code's branches for too many and for left-over words are never
\* taken.
WordsInSegments(toks, segs, d) ==
    LET n     == Len(toks)
        share == Shares(segs, n)
        placed[g \in 0 .. Len(segs)] ==
            IF g = 0 THEN <<>>
            ELSE LET done == placed[g - 1]
                     next == SubSeq(toks, Len(done) + 1, Len(done) + share[g])
                 IN  done \o Slots(next, segs[g], MinStep(n, d))
    IN  placed[Len(segs)]

\* _fallback_segment_alignment.
FallbackWords(toks, dur, speech) ==
    LET segs == Segments(speech, dur)
    IN  IF segs = <<>> THEN EvenWords(toks, dur)
        ELSE WordsInSegments(toks, segs, AtLeastOne(dur))

-----------------------------------------------------------------------------
(* Words with times of the model.                                          *)

\* _coerce_timestamps: a time that is missing, or is 0, is the default.
Given(t, default) == IF t = None \/ t = 0 THEN default ELSE t

\* Mutant: no time is kept for the words that follow.
NoBudget(w, prev, i, n, d) ==
    LET s == Smaller(d, Larger(Given(w.s, prev), prev))
    IN  [tok |-> w.tok, s |-> s,
         e |-> Smaller(d, Larger(Given(w.e, prev), s + MinStep(n, d)))]

\* One turn of the loop of _stabilize_timestamps: the i-th of n words starts at
\* or after prev, the end of the word before it, and leaves the shortest time to
\* every word that follows.
Settle(w, prev, i, n, d) ==
    LET step    == MinStep(n, d)
        start   == Given(w.s, prev)
        end     == Larger(start, Given(w.e, prev + step))
        lastEnd == Larger(step, d - (n - i) * step)
        s       == Smaller(d, Smaller(Larger(start, prev), Larger(prev, lastEnd - step)))
        e       == Smaller(d, Larger(s, Smaller(lastEnd, Larger(end, s + step))))
    IN  [tok |-> w.tok, s |-> s, e |-> IF e > s THEN e ELSE Smaller(d, s + step)]

PrevEnd(done) == IF done = <<>> THEN 0 ELSE done[Len(done)].e

\* The loop's turn for the word that comes after those that are done.
SettleNext(words, done, d) ==
    Append(done, Settle(words[Len(done) + 1], PrevEnd(done), Len(done) + 1, Len(words), d))

\* The last word closes at the duration.
Closed(done, d) ==
    IF done = <<>> THEN done ELSE [done EXCEPT ![Len(done)].e = Larger(@, d)]

\* _stabilize_timestamps.
Stabilized(words, dur) ==
    LET w == Spoken(words)
        d == AtLeastOne(dur)
        settled[i \in 0 .. Len(w)] ==
            IF i = 0 THEN <<>> ELSE SettleNext(w, settled[i - 1], d)
    IN  Closed(settled[Len(w)], d)

\* _timestamps_look_unreliable, which timestamps_need_repair calls: no words, or
\* at least four in a tiny window or at the very end.
Unreliable(words, dur) ==
    \/ words = <<>>
    \/ LET d     == AtLeastOne(dur)
           first == words[1].s
           last  == IF words[Len(words)].e = 0 THEN first ELSE words[Len(words)].e
       IN  /\ Len(words) >= 4
           /\ \/ 100 * (Larger(last, first) - first) <= Smaller(35 * Sec, 8 * d)
              \/ 100 * first >= 85 * d /\ 100 * last >= 98 * d

Timed(words) == \E i \in DOMAIN words : words[i].s # None \/ words[i].e # None

\* align_words_robust, with the words it stabilized (they are looked at only when
\* the model gave a time): how the words were placed, and the words.
Aligned(text, raw, stable, dur, speech) ==
    LET segs    == Segments(speech, dur)
        toks    == IF Tokens(raw) # <<>> THEN Tokens(raw) ELSE text
        trusted == Timed(raw) /\ stable # <<>> /\ (segs = <<>> \/ ~ Unreliable(stable, dur))
    IN  IF trusted THEN [how |-> "model", words |-> stable]
        ELSE IF segs # <<>> /\ (toks # <<>> \/ raw = <<>>)
             THEN [how |-> "segments", words |-> FallbackWords(toks, dur, segs)]
             ELSE [how |-> "even", words |-> EvenWords(toks, dur)]

=============================================================================
