-------------------------- MODULE WordTimesProofs --------------------------
(***************************************************************************)
(* Lemmas about the operators of WordTimes, SpeechEngine and Subtitles: the *)
(* times that are made up for words, and the words they are given to.      *)
(***************************************************************************)
EXTENDS SpeechEngine, Subtitles, SharedLemmas, FiniteSetTheorems

\* What the stabilization returns for a word: both times are there.
SettledWord == [tok : Token, s : Nat, e : Nat]

\* A word that the engine passes on: it is not blank.
SpokenWord == [tok : Token, s : Times, e : Times]

\* Words that are not blank, with a speaker or without one.
Heard(words) ==
    /\ words \in Seq(Range(words))
    /\ \A i \in 1 .. Len(words) :
          words[i].tok \in Token /\ words[i].s \in Times /\ words[i].e \in Times

LEMMA SpokenHeard ==
    ASSUME NEW words \in Seq(SpokenWord)
    PROVE  Heard(words)
<1>1. words \in Seq(Range(words))
  BY DEF Range
<1>2. \A i \in 1 .. Len(words) : words[i] \in SpokenWord
  OBVIOUS
<1> QED
  BY <1>1, <1>2 DEF Heard, SpokenWord

-----------------------------------------------------------------------------
(* The stabilization.                                                      *)

\* The shortest time of n words fits n times into the duration.
LEMMA StepFits ==
    ASSUME NEW n \in Nat, NEW d \in Nat
    PROVE  /\ MinStep(n, d) \in Nat
           /\ n * MinStep(n, d) <= d
           /\ Sec >= 20 /\ d >= 10 /\ d >= n => MinStep(n, d) > 0
<1> DEFINE b == Larger(n, 10)
           q == d \div b
           t == Sec \div 20
           step == MinStep(n, d)
<1>1. b \in Nat /\ b >= 10 /\ b >= n /\ (b = n \/ b = 10)
  BY DEF Larger
<1>2. Sec \in Nat
  BY TimeAssumption
<1>3. t \in Int /\ 20 * t <= Sec /\ Sec < 20 * t + 20
  BY <1>2, Quotient
<1>4. t >= 0 /\ (Sec >= 20 => t > 0)
  BY <1>2, <1>3
<1>5. step = IF t < q THEN t ELSE q
  BY DEF MinStep, Smaller
<1> HIDE DEF b
<1>6. q \in Int /\ b * q <= d /\ d < b * q + b
  BY <1>1, Quotient
<1> HIDE DEF q, t, step
<1>7. q >= 0
  <2>1. CASE q >= 0
    BY <2>1
  <2>2. CASE q <= -1
    <3>1. b * q <= - b
      BY <1>1, <1>6, <2>2
    <3> QED
      BY <1>1, <1>6, <3>1
  <2> QED
    BY <1>6, <2>1, <2>2
<1>8. ASSUME d >= b
      PROVE  q > 0
  <2>1. CASE q = 0
    BY <1>1, <1>6, <1>8, <2>1
  <2> QED
    BY <1>6, <1>7, <2>1
<1>9. step \in Nat /\ step <= q
  BY <1>3, <1>4, <1>5, <1>6, <1>7
<1>10. n * step <= b * q
  <2>1. n * step <= b * step
    BY <1>1, <1>9
  <2>2. b * step <= b * q
    BY <1>1, <1>6, <1>9
  <2>3. n * step \in Int /\ b * step \in Int /\ b * q \in Int
    BY <1>1, <1>6, <1>9
  <2> QED
    BY <2>1, <2>2, <2>3
<1>11. b * q \in Int /\ n * step \in Int
  BY <1>1, <1>6, <1>9
<1>12. n * step <= d
  BY <1>6, <1>10, <1>11
<1>13. Sec >= 20 /\ d >= 10 /\ d >= n => step > 0
  BY <1>1, <1>4, <1>5, <1>8
<1> QED
  BY <1>9, <1>12, <1>13 DEF step

\* A time that the model gave, or the default.
LEMMA GivenTime ==
    ASSUME NEW t \in Times, NEW default \in Nat
    PROVE  Given(t, default) \in Nat
BY DEF Given, Times

\* One turn of the loop: the word starts at or after the end of the word before it,
\* takes the shortest time at least, and leaves as much to each word after it.
LEMMA SettleInTime ==
    ASSUME NEW n \in Nat, NEW i \in 1 .. n, NEW d \in Nat, NEW w,
           w.tok \in Token, w.s \in Times, w.e \in Times,
           NEW prev \in Nat, prev <= d - (n - i + 1) * MinStep(n, d)
    PROVE  LET x == Settle(w, prev, i, n, d)
           IN  /\ x \in SettledWord
               /\ x.tok = w.tok
               /\ prev <= x.s
               /\ x.s + MinStep(n, d) <= x.e
               /\ x.e <= d - (n - i) * MinStep(n, d)
<1> DEFINE step    == MinStep(n, d)
           start   == Given(w.s, prev)
           end     == Larger(start, Given(w.e, prev + step))
           rest    == (n - i) * step
           lastEnd == Larger(step, d - rest)
           s       == Smaller(d, Smaller(Larger(start, prev), Larger(prev, lastEnd - step)))
           e       == Smaller(d, Larger(s, Smaller(lastEnd, Larger(end, s + step))))
           x       == [tok |-> w.tok, s |-> s, e |-> IF e > s THEN e ELSE Smaller(d, s + step)]
<1>1. Settle(w, prev, i, n, d) = x
  BY DEF Settle
<1>2. step \in Nat
  BY StepFits
<1>3. w.tok \in Token /\ w.s \in Times /\ w.e \in Times
  OBVIOUS
<1>4. start \in Nat /\ Given(w.e, prev + step) \in Nat
  BY <1>2, <1>3, GivenTime
<1>5. end \in Nat
  BY <1>4 DEF Larger
<1> HIDE DEF start, end
<1>6. rest \in Nat /\ (n - i + 1) * step = rest + step
  <2> HIDE DEF step
  <2> QED
    BY <1>2
<1>7. prev <= d - rest - step
  BY <1>2, <1>6
<1> HIDE DEF step, rest
<1>8. lastEnd = d - rest
  BY <1>2, <1>6, <1>7 DEF Larger
<1> HIDE DEF lastEnd
<1>9. s \in Nat /\ prev <= s /\ s <= d - rest - step
  BY <1>2, <1>4, <1>6, <1>7, <1>8 DEF Larger, Smaller
<1> HIDE DEF s
<1>10. e \in Nat /\ s + step <= e /\ e <= d - rest
  BY <1>2, <1>5, <1>6, <1>7, <1>8, <1>9 DEF Larger, Smaller
<1> HIDE DEF e
<1>11. x.e = e
  <2>1. CASE e > s
    BY <2>1
  <2>2. CASE ~ (e > s)
    <3>1. step = 0 /\ e = s /\ s <= d
      BY <1>2, <1>6, <1>9, <1>10, <2>2
    <3>2. Smaller(d, s + step) = s
      BY <1>9, <3>1 DEF Smaller
    <3> QED
      BY <2>2, <3>1, <3>2
  <2> QED
    BY <2>1, <2>2
<1>12. x.tok = w.tok /\ x.s = s
  OBVIOUS
<1>13. x \in SettledWord
  <2>1. x = [tok |-> w.tok, s |-> s, e |-> x.e]
    OBVIOUS
  <2> QED
    BY <1>3, <1>9, <1>10, <1>11, <2>1 DEF SettledWord
<1> HIDE DEF x
<1> QED
  BY <1>1, <1>9, <1>10, <1>11, <1>12, <1>13 DEF step, rest

\* The words that are done while the loop settles: each says what the model said,
\* takes the shortest time, and leaves as much to every word that is not done yet.
Settling(words, done, d) ==
    LET n    == Len(words)
        step == MinStep(n, d)
    IN  /\ done \in Seq(SettledWord) /\ Len(done) <= n
        /\ \A i \in 1 .. Len(done) :
              /\ done[i].tok = words[i].tok
              /\ done[i].s + step <= done[i].e
              /\ done[i].e <= d
        /\ \A i \in 2 .. Len(done) : done[i - 1].e <= done[i].s
        /\ PrevEnd(done) <= d - (n - Len(done)) * step

LEMMA SettlingStarts ==
    ASSUME NEW words, Heard(words), NEW d \in Nat
    PROVE  Settling(words, <<>>, d)
<1> DEFINE n == Len(words)
           step == MinStep(n, d)
<1>1. n \in Nat
  BY DEF Heard
<1> HIDE DEF n
<1>2. step \in Nat /\ n * step <= d
  BY <1>1, StepFits
<1> HIDE DEF step
<1>3. 0 <= d - (n - 0) * step
  <2>1. n - 0 = n /\ n * step \in Int
    BY <1>1, <1>2
  <2> DEFINE p == n * step
  <2>2. p \in Int /\ p <= d
    BY <1>2, <2>1
  <2> HIDE DEF p
  <2>3. 0 <= d - p
    BY <2>2
  <2> QED
    BY <2>1, <2>3 DEF p
<1>4. <<>> \in Seq(SettledWord) /\ Len(<<>>) = 0 /\ 1 .. 0 = {} /\ 2 .. 0 = {}
  OBVIOUS
<1>5. PrevEnd(<<>>) = 0
  BY DEF PrevEnd
<1> QED
  BY <1>1, <1>3, <1>4, <1>5 DEF Settling, n, step

LEMMA SettlingGoesOn ==
    ASSUME NEW words, Heard(words), NEW d \in Nat, NEW done,
           Settling(words, done, d), Len(done) < Len(words)
    PROVE  Settling(words, SettleNext(words, done, d), d)
<1> DEFINE n == Len(words)
           m == Len(done)
           step == MinStep(n, d)
           prev == PrevEnd(done)
           w == words[m + 1]
           x == Settle(w, prev, m + 1, n, d)
           next == Append(done, x)
<1>1. SettleNext(words, done, d) = next
  BY DEF SettleNext
<1>2. /\ done \in Seq(SettledWord)
      /\ \A i \in 1 .. m : /\ done[i].tok = words[i].tok
                           /\ done[i].s + step <= done[i].e
                           /\ done[i].e <= d
      /\ \A i \in 2 .. m : done[i - 1].e <= done[i].s
      /\ prev <= d - (n - m) * step
  BY DEF Settling
<1>3. n \in Nat /\ m \in Nat /\ m < n /\ m + 1 \in 1 .. n /\ n - (m + 1) + 1 = n - m
  <2>1. n \in Nat
    BY DEF Heard
  <2> QED
    BY <1>2, <2>1
<1>4. w.tok \in Token /\ w.s \in Times /\ w.e \in Times
  BY <1>3 DEF Heard
<1>5. prev \in Nat
  <2>1. CASE m = 0
    BY <1>2, <2>1 DEF PrevEnd
  <2>2. CASE m # 0
    <3>1. done # <<>> /\ m \in 1 .. m /\ done[m] \in SettledWord
      BY <1>2, <1>3, <2>2
    <3> QED
      BY <3>1 DEF PrevEnd, SettledWord
  <2> QED
    BY <2>1, <2>2
<1>6. step \in Nat
  BY <1>3, StepFits
<1>7. m # 0 => prev = done[m].e
  BY <1>2 DEF PrevEnd
<1> HIDE DEF w, prev
<1>8. /\ x \in SettledWord
      /\ x.tok = w.tok
      /\ prev <= x.s
      /\ x.s + step <= x.e
      /\ x.e <= d - (n - (m + 1)) * step
  BY <1>2, <1>3, <1>4, <1>5, SettleInTime
<1> HIDE DEF n, step, x
<1>9. (n - (m + 1)) * step \in Nat
  <2>1. n - (m + 1) \in Nat
    BY <1>3
  <2> QED
    BY <1>6, <2>1
<1>10. x.e \in Nat /\ x.e <= d
  <2> DEFINE p == (n - (m + 1)) * step
  <2>1. x.e \in Nat
    BY <1>8 DEF SettledWord
  <2>2. p \in Nat /\ x.e <= d - p
    BY <1>8, <1>9
  <2> HIDE DEF p
  <2> QED
    BY <2>1, <2>2
<1> HIDE DEF m
<1>11. /\ next \in Seq(SettledWord) /\ Len(next) = m + 1
       /\ \A i \in 1 .. m : next[i] = done[i]
       /\ next[m + 1] = x
  BY <1>2, <1>8 DEF m
<1> HIDE DEF next
<1>12. Len(next) <= n
  BY <1>3, <1>11
<1>13. \A i \in 1 .. Len(next) : /\ next[i].tok = words[i].tok
                                 /\ next[i].s + step <= next[i].e
                                 /\ next[i].e <= d
  <2> SUFFICES ASSUME NEW i \in 1 .. Len(next)
               PROVE  /\ next[i].tok = words[i].tok
                      /\ next[i].s + step <= next[i].e
                      /\ next[i].e <= d
    OBVIOUS
  <2>1. CASE i \in 1 .. m
    BY <1>2, <1>11, <2>1
  <2>2. CASE i = m + 1
    <3>1. next[i] = x /\ w = words[i]
      BY <1>11, <2>2 DEF w
    <3> QED
      BY <1>8, <1>10, <3>1
  <2> QED
    BY <1>3, <1>11, <2>1, <2>2
<1>14. \A i \in 2 .. Len(next) : next[i - 1].e <= next[i].s
  <2> SUFFICES ASSUME NEW i \in 2 .. Len(next)
               PROVE  next[i - 1].e <= next[i].s
    OBVIOUS
  <2>1. CASE i \in 2 .. m
    <3>1. i \in 1 .. m /\ i - 1 \in 1 .. m
      BY <1>3, <2>1
    <3> QED
      BY <1>2, <1>11, <2>1, <3>1
  <2>2. CASE i = m + 1
    <3>1. i - 1 = m /\ m \in 1 .. m /\ m # 0
      BY <1>3, <2>2
    <3> QED
      BY <1>7, <1>8, <1>11, <2>2, <3>1
  <2> QED
    BY <1>3, <1>11, <2>1, <2>2
<1>15. PrevEnd(next) = x.e
  <2>1. Len(next) # 0
    BY <1>3, <1>11
  <2>2. next # <<>>
    BY <2>1
  <2> QED
    BY <1>11, <2>2 DEF PrevEnd
<1>16. PrevEnd(next) <= d - (n - Len(next)) * step
  BY <1>8, <1>11, <1>15
<1> QED
  BY <1>1, <1>11, <1>12, <1>13, <1>14, <1>16 DEF Settling, n, step

\* The words follow one another, each takes some time, and none is after d.
Following(words, d) ==
    /\ \A i \in DOMAIN words : words[i].s < words[i].e /\ words[i].e <= d
    /\ \A i \in 2 .. Len(words) : words[i - 1].e <= words[i].s

\* The result of the whole loop, with its last word closed.
LEMMA SettledWords ==
    ASSUME NEW words, Heard(words), NEW d \in Nat, NEW done,
           Settling(words, done, d), Len(done) = Len(words)
    PROVE  LET all == Closed(done, d)
           IN  /\ all \in Seq(SettledWord) /\ Len(all) = Len(words)
               /\ \A i \in 1 .. Len(words) : all[i].tok = words[i].tok
               /\ Sec >= 20 /\ d >= 10 /\ d >= Len(words) => Following(all, d)
<1> DEFINE n == Len(words)
           step == MinStep(n, d)
           all == Closed(done, d)
<1>1. /\ done \in Seq(SettledWord)
      /\ \A i \in 1 .. n : /\ done[i].tok = words[i].tok
                           /\ done[i].s + step <= done[i].e
                           /\ done[i].e <= d
      /\ \A i \in 2 .. n : done[i - 1].e <= done[i].s
  BY DEF Settling
<1>2. \A i \in 1 .. n : done[i].tok \in Token /\ done[i].s \in Nat /\ done[i].e \in Nat
  <2>1. \A i \in 1 .. n : done[i] \in SettledWord
    BY <1>1
  <2> QED
    BY <2>1 DEF SettledWord
<1>3. n \in Nat /\ Len(done) = n
  BY DEF Heard
<1>4. step \in Nat /\ (Sec >= 20 /\ d >= 10 /\ d >= n => step > 0)
  BY <1>3, StepFits
<1> HIDE DEF step, n
<1>5. CASE n = 0
  <2>1. done = <<>> /\ all = <<>>
    BY <1>1, <1>3, <1>5 DEF Closed
  <2>2. <<>> \in Seq(SettledWord) /\ Len(<<>>) = 0 /\ 1 .. 0 = {} /\ 2 .. 0 = {} /\ DOMAIN <<>> = {}
    OBVIOUS
  <2> QED
    BY <1>5, <2>1, <2>2 DEF Following
<1>6. CASE n # 0
  <2> DEFINE last == [tok |-> done[n].tok, s |-> done[n].s, e |-> d]
  <2>1. done # <<>> /\ n \in 1 .. n
    BY <1>3, <1>6
  <2>2. Larger(done[n].e, d) = d
    BY <1>1, <1>2, <2>1 DEF Larger
  <2>3. all = [done EXCEPT ![n].e = d]
    BY <1>3, <2>1, <2>2 DEF Closed
  <2>4. done[n] \in SettledWord
    BY <1>1, <1>3, <2>1
  <2>5. [done[n] EXCEPT !.e = d] \in SettledWord
    BY <2>4 DEF SettledWord
  <2>6. all = [done EXCEPT ![n] = [done[n] EXCEPT !.e = d]]
    BY <2>3
  <2> HIDE DEF all
  <2>7. /\ all \in Seq(SettledWord) /\ Len(all) = n
        /\ \A i \in 1 .. n : i # n => all[i] = done[i]
        /\ all[n] = [done[n] EXCEPT !.e = d]
    BY <1>1, <1>3, <2>1, <2>5, <2>6
  <2>8. all[n].tok = done[n].tok /\ all[n].s = done[n].s /\ all[n].e = d
    BY <2>4, <2>7 DEF SettledWord
  <2>9. \A i \in 1 .. n : all[i].tok = done[i].tok /\ all[i].s = done[i].s
    BY <2>7, <2>8
  <2>10. \A i \in 1 .. n : done[i].e <= all[i].e /\ all[i].e <= d
    <3> SUFFICES ASSUME NEW i \in 1 .. n
                 PROVE  done[i].e <= all[i].e /\ all[i].e <= d
      OBVIOUS
    <3>1. done[i].e \in Nat /\ done[i].e <= d
      BY <1>1, <1>2
    <3>2. CASE i = n
      BY <2>8, <3>1, <3>2
    <3>3. CASE i # n
      <4>1. all[i] = done[i]
        BY <2>7, <3>3
      <4> QED
        BY <3>1, <4>1
    <3> QED
      BY <3>2, <3>3
  <2>11. \A i \in 1 .. n : all[i].tok = words[i].tok
    BY <1>1, <2>9
  <2>12. ASSUME step > 0
         PROVE  Following(all, d)
    <3>1. \A i \in 1 .. n : all[i].e \in Nat
      <4>1. \A i \in 1 .. n : all[i] \in SettledWord
        BY <2>7
      <4> QED
        BY <4>1 DEF SettledWord
    <3>2. \A i \in 1 .. n : all[i].s < all[i].e
      BY <1>1, <1>2, <1>4, <2>9, <2>10, <2>12, <3>1
    <3>3. \A i \in 2 .. n : all[i - 1].e <= all[i].s
      <4> SUFFICES ASSUME NEW i \in 2 .. n
                   PROVE  all[i - 1].e <= all[i].s
        OBVIOUS
      <4>1. i \in 1 .. n /\ i - 1 \in 1 .. n /\ i - 1 # n
        BY <1>3
      <4> QED
        BY <1>1, <2>7, <2>9, <4>1
    <3>4. DOMAIN all = 1 .. n
      BY <2>7
    <3> QED
      BY <2>7, <2>10, <3>2, <3>3, <3>4 DEF Following
  <2> QED
    BY <1>4, <2>7, <2>11, <2>12 DEF all, n
<1> QED
  BY <1>5, <1>6 DEF n

-----------------------------------------------------------------------------
(* Words that are not blank.                                               *)

\* The loop that keeps the entries in T: what is kept after each turn.
Keeping(kept, s, T) ==
    /\ Those(s, T) = kept[Len(s)]
    /\ kept[0] = <<>>
    /\ \A i \in 1 .. Len(s) :
          kept[i] = IF s[i] \in T THEN Append(kept[i - 1], s[i]) ELSE kept[i - 1]

LEMMA ThoseTurns ==
    ASSUME NEW W, NEW s \in Seq(W), NEW T
    PROVE  \E kept \in [0 .. Len(s) -> Seq(W \cap T)] : Keeping(kept, s, T)
<1> DEFINE n == Len(s)
           Turn(g, i) == IF i = 0 THEN <<>>
                         ELSE IF s[i] \in T THEN Append(g[i - 1], s[i]) ELSE g[i - 1]
           Kept(g) == g = [i \in 0 .. n |-> Turn(g, i)]
           step == [i \in Nat |-> [x \in Seq(W \cap T) |->
                      IF i \in 1 .. n /\ s[i] \in T THEN Append(x, s[i]) ELSE x]]
<1>1. n \in Nat /\ \A i \in 1 .. n : s[i] \in W
  OBVIOUS
<1>2. Those(s, T) = (CHOOSE g : Kept(g))[n]
  BY DEF Those
<1> HIDE DEF n
<1>3. step \in [Nat -> [Seq(W \cap T) -> Seq(W \cap T)]]
  <2> SUFFICES ASSUME NEW i \in Nat, NEW x \in Seq(W \cap T)
               PROVE  (IF i \in 1 .. n /\ s[i] \in T THEN Append(x, s[i]) ELSE x)
                          \in Seq(W \cap T)
    OBVIOUS
  <2>1. CASE i \in 1 .. n /\ s[i] \in T
    <3>1. s[i] \in W \cap T
      BY <1>1, <2>1
    <3> QED
      BY <2>1, <3>1
  <2> QED
    BY <2>1
<1>4. <<>> \in Seq(W \cap T)
  OBVIOUS
<1> HIDE DEF step
<1>5. PICK g \in [0 .. n -> Seq(W \cap T)] : IsRun(g, <<>>, step, n)
  BY <1>1, <1>3, <1>4, Recursion
<1>6. ASSUME NEW i \in 0 .. n
      PROVE  g[i] = Turn(g, i)
  <2>1. CASE i = 0
    BY <1>5, <2>1 DEF IsRun
  <2>2. CASE i # 0
    <3>1. i \in Nat /\ i - 1 \in 0 .. n /\ i \in 1 .. n
      BY <1>1, <2>2
    <3>2. g[i] = step[i][g[i - 1]] /\ g[i - 1] \in Seq(W \cap T)
      BY <1>5, <2>2, <3>1 DEF IsRun
    <3> QED
      BY <2>2, <3>1, <3>2 DEF step
  <2> QED
    BY <2>1, <2>2
<1> HIDE DEF Turn
<1>7. Kept(g)
  <2>1. g = [i \in 0 .. n |-> g[i]]
    BY <1>5
  <2> QED
    BY <1>6, <2>1
<1> DEFINE k == CHOOSE h : Kept(h)
<1>8. Kept(k)
  BY <1>7
<1> HIDE DEF k
<1>9. \A i \in 0 .. n : k[i] = Turn(k, i)
  BY <1>8
<1> HIDE DEF Kept
<1>10. 0 \in 0 .. n /\ \A i \in 1 .. n : i \in 0 .. n /\ i # 0
  BY <1>1
<1>11. k[0] = <<>>
  BY <1>9, <1>10 DEF Turn
<1>12. \A i \in 1 .. n : k[i] = IF s[i] \in T THEN Append(k[i - 1], s[i]) ELSE k[i - 1]
  BY <1>9, <1>10 DEF Turn
<1>13. \A i \in 0 .. n : k[i] \in Seq(W \cap T)
  <2>1. ASSUME NEW i \in 1 .. n, k[i - 1] \in Seq(W \cap T)
        PROVE  k[i] \in Seq(W \cap T)
    <3>1. CASE s[i] \in T
      <4>1. s[i] \in W \cap T
        BY <1>1, <3>1
      <4>2. k[i] = Append(k[i - 1], s[i])
        BY <1>12, <3>1
      <4> DEFINE x == k[i - 1]
      <4>3. x \in Seq(W \cap T)
        BY <2>1
      <4> HIDE DEF x
      <4>4. Append(x, s[i]) \in Seq(W \cap T)
        BY <4>1, <4>3
      <4> QED
        BY <4>2, <4>4 DEF x
    <3> QED
      BY <1>12, <2>1, <3>1
  <2> QED
    BY <1>1, <1>11, <2>1, <1>4, RunType
<1>14. k \in [0 .. n -> Seq(W \cap T)]
  <2>1. k = [i \in 0 .. n |-> Turn(k, i)]
    BY <1>8 DEF Kept
  <2>2. \A i \in 0 .. n : Turn(k, i) \in Seq(W \cap T)
    BY <1>9, <1>13
  <2> QED
    BY <2>1, <2>2
<1>15. Those(s, T) = k[n]
  BY <1>2 DEF k
<1> QED
  BY <1>11, <1>12, <1>14, <1>15 DEF n, Keeping

LEMMA ThoseType ==
    ASSUME NEW W, NEW s \in Seq(W), NEW T
    PROVE  Those(s, T) \in Seq(W \cap T)
<1>1. Len(s) \in 0 .. Len(s)
  OBVIOUS
<1> QED
  BY <1>1, ThoseTurns DEF Keeping

\* Where all entries are in T, all are kept, in order.
LEMMA ThoseAll ==
    ASSUME NEW W, NEW s \in Seq(W), NEW T, \A i \in 1 .. Len(s) : s[i] \in T
    PROVE  Those(s, T) = s
<1> DEFINE n == Len(s)
<1>1. PICK kept \in [0 .. n -> Seq(W \cap T)] :
         /\ Those(s, T) = kept[n]
         /\ kept[0] = <<>>
         /\ \A i \in 1 .. n : kept[i] = IF s[i] \in T THEN Append(kept[i - 1], s[i])
                                        ELSE kept[i - 1]
  <2>1. PICK kept \in [0 .. Len(s) -> Seq(W \cap T)] : Keeping(kept, s, T)
    BY ThoseTurns
  <2> QED
    BY <2>1 DEF Keeping
<1> DEFINE S == {i \in Nat : i <= n => /\ Len(kept[i]) = i
                                       /\ \A k \in 1 .. i : kept[i][k] = s[k]}
<1>2. 0 \in S
  BY <1>1
<1>3. ASSUME NEW i \in Nat, i \in S
      PROVE  i + 1 \in S
  <2> SUFFICES ASSUME i + 1 <= n
               PROVE  /\ Len(kept[i + 1]) = i + 1
                      /\ \A k \in 1 .. i + 1 : kept[i + 1][k] = s[k]
    OBVIOUS
  <2> DEFINE w == s[i + 1]
             a == kept[i]
  <2>1. n \in Nat /\ i + 1 \in 1 .. n /\ (i + 1) - 1 = i /\ i \in 0 .. n
    OBVIOUS
  <2>2. a \in Seq(W \cap T) /\ Len(a) = i /\ \A k \in 1 .. i : a[k] = s[k]
    BY <1>3, <2>1
  <2>3. kept[i + 1] = Append(a, w)
    BY <1>1, <2>1
  <2> HIDE DEF a
  <2>4. w \in W \cap T
    BY <2>1
  <2>5. Len(Append(a, w)) = i + 1 /\ Append(a, w)[i + 1] = w
        /\ \A k \in 1 .. i : Append(a, w)[k] = a[k]
    BY <2>2, <2>4
  <2>6. \A k \in 1 .. i + 1 : k \in 1 .. i \/ k = i + 1
    OBVIOUS
  <2> QED
    BY <2>2, <2>3, <2>5, <2>6
<1> HIDE DEF S
<1>4. Nat \subseteq S
  BY <1>2, <1>3, SetInduction
<1>5. n \in Nat /\ n \in 0 .. n
  OBVIOUS
<1>6. kept[n] \in Seq(W) /\ Len(kept[n]) = n /\ \A k \in 1 .. n : kept[n][k] = s[k]
  <2>1. kept[n] \in Seq(W \cap T)
    BY <1>1, <1>5
  <2>2. Len(kept[n]) = n /\ \A k \in 1 .. n : kept[n][k] = s[k]
    BY <1>4, <1>5 DEF S
  <2> QED
    BY <2>1, <2>2
<1> QED
  BY <1>1, <1>6

\* What is kept is what is in T.
LEMMA ThoseHas ==
    ASSUME NEW W, NEW s \in Seq(W), NEW T
    PROVE  LET kept == Those(s, T)
           IN  /\ \A k \in 1 .. Len(kept) : kept[k] \in T /\ \E j \in 1 .. Len(s) : kept[k] = s[j]
               /\ \A j \in 1 .. Len(s) : s[j] \in T => \E k \in 1 .. Len(kept) : kept[k] = s[j]
<1> DEFINE n == Len(s)
<1>1. PICK kept \in [0 .. n -> Seq(W \cap T)] :
         /\ Those(s, T) = kept[n]
         /\ kept[0] = <<>>
         /\ \A i \in 1 .. n : kept[i] = IF s[i] \in T THEN Append(kept[i - 1], s[i])
                                        ELSE kept[i - 1]
  <2>1. PICK kept \in [0 .. Len(s) -> Seq(W \cap T)] : Keeping(kept, s, T)
    BY ThoseTurns
  <2> QED
    BY <2>1 DEF Keeping
<1> DEFINE Has(x, i) ==
              /\ \A k \in 1 .. Len(x) : x[k] \in T /\ \E j \in 1 .. i : x[k] = s[j]
              /\ \A j \in 1 .. i : s[j] \in T => \E k \in 1 .. Len(x) : x[k] = s[j]
           Q == {i \in 0 .. n : Has(kept[i], i)}
<1>2. n \in Nat
  OBVIOUS
<1>3. 0 \in Q
  <2>1. Len(kept[0]) = 0 /\ 0 \in 0 .. n
    BY <1>1, <1>2
  <2>2. Has(kept[0], 0)
    BY <2>1
  <2> HIDE DEF Has
  <2> QED
    BY <2>1, <2>2
<1>4. ASSUME NEW i \in 1 .. n, i - 1 \in Q
      PROVE  i \in Q
  <2> DEFINE x == kept[i - 1]
             g == s[i]
             y == IF g \in T THEN Append(x, g) ELSE x
  <2>1. i \in 0 .. n /\ i - 1 \in 0 .. n /\ i \in 1 .. i /\ 1 .. i - 1 \subseteq 1 .. i
        /\ \A j \in 1 .. i : j \in 1 .. i - 1 \/ j = i
    BY <1>2
  <2>2. Has(x, i - 1) /\ x \in Seq(W \cap T) /\ g \in W
    BY <1>1, <1>4, <2>1
  <2>3. kept[i] = y
    BY <1>1
  <2> HIDE DEF x
  <2>4. CASE g \notin T
    <3>1. Has(x, i)
      BY <2>1, <2>2, <2>4 DEF g
    <3> HIDE DEF Has
    <3> QED
      BY <2>1, <2>3, <2>4, <3>1
  <2>5. CASE g \in T
    <3> DEFINE m == Len(x)
               z == Append(x, g)
    <3>1. m \in Nat /\ Len(z) = m + 1 /\ z[m + 1] = g /\ \A k \in 1 .. m : z[k] = x[k]
      BY <2>2, <2>5
    <3> HIDE DEF z, m
    <3>2. m + 1 \in 1 .. m + 1 /\ 1 .. m \subseteq 1 .. m + 1
          /\ \A k \in 1 .. m + 1 : k \in 1 .. m \/ k = m + 1
      BY <3>1
    <3>3. ASSUME NEW k \in 1 .. m + 1
          PROVE  z[k] \in T /\ \E j \in 1 .. i : z[k] = s[j]
      <4>1. CASE k = m + 1
        BY <2>1, <2>5, <3>1, <4>1 DEF g
      <4>2. CASE k \in 1 .. m
        <5>1. x[k] \in T /\ \E j \in 1 .. i - 1 : x[k] = s[j]
          BY <2>2, <4>2 DEF m
        <5> QED
          BY <2>1, <3>1, <4>2, <5>1
      <4> QED
        BY <3>2, <4>1, <4>2
    <3>4. ASSUME NEW j \in 1 .. i, s[j] \in T
          PROVE  \E k \in 1 .. m + 1 : z[k] = s[j]
      <4>1. CASE j = i
        BY <3>1, <3>2, <4>1 DEF g
      <4>2. CASE j \in 1 .. i - 1
        <5>1. PICK k \in 1 .. m : x[k] = s[j]
          BY <2>2, <3>4, <4>2 DEF m
        <5> QED
          BY <3>1, <3>2, <5>1
      <4> QED
        BY <2>1, <4>1, <4>2
    <3>5. Has(z, i)
      BY <3>1, <3>3, <3>4
    <3> HIDE DEF Has
    <3> QED
      BY <2>1, <2>3, <2>5, <3>5 DEF z
  <2> QED
    BY <2>4, <2>5
<1> HIDE DEF Q
<1>5. \A i \in 0 .. n : i \in Q
  BY <1>2, <1>3, <1>4, TurnByTurn
<1>6. n \in Q
  BY <1>2, <1>5
<1>7. Has(kept[n], n)
  <2> HIDE DEF Has
  <2> QED
    BY <1>6 DEF Q
<1> QED
  BY <1>1, <1>7

\* The engine and the alignment pass on words that are not blank.
LEMMA SpokenKind ==
    ASSUME NEW W, NEW words \in Seq(W)
    PROVE  Spoken(words) \in Seq({w \in W : w.tok # 0})
<1> DEFINE T == {w \in Range(words) : w.tok # 0}
<1>1. Spoken(words) \in Seq(W \cap T)
  BY ThoseType DEF Spoken
<1>2. W \cap T \subseteq {w \in W : w.tok # 0}
  OBVIOUS
<1> QED
  BY <1>1, <1>2

LEMMA SpokenType ==
    ASSUME NEW words \in Seq(GivenWord)
    PROVE  Spoken(words) \in Seq(SpokenWord)
<1>1. {w \in GivenWord : w.tok # 0} \subseteq SpokenWord
  BY DEF GivenWord, SpokenWord, Token
<1>2. Spoken(words) \in Seq({w \in GivenWord : w.tok # 0})
  BY SpokenKind
<1> QED
  BY <1>1, <1>2

\* Where no word is blank, all are passed on, in order.
LEMMA AllSpoken ==
    ASSUME NEW W, NEW words \in Seq(W), \A i \in 1 .. Len(words) : words[i].tok # 0
    PROVE  Spoken(words) = words
<1> DEFINE T == {w \in Range(words) : w.tok # 0}
<1>1. \A i \in 1 .. Len(words) : words[i] \in T
  <2>1. DOMAIN words = 1 .. Len(words)
    OBVIOUS
  <2> QED
    BY <2>1 DEF Range
<1> HIDE DEF T
<1>2. Those(words, T) = words
  BY <1>1, ThoseAll
<1> QED
  BY <1>2 DEF Spoken, T

\* The tokens of words that are not blank.
LEMMA TokensOfAll ==
    ASSUME NEW W, NEW words \in Seq(W), \A i \in 1 .. Len(words) : words[i].tok \in Token
    PROVE  /\ Tokens(words) = [i \in 1 .. Len(words) |-> words[i].tok]
           /\ Tokens(words) \in Seq(Token)
           /\ Len(Tokens(words)) = Len(words)
<1>1. \A i \in 1 .. Len(words) : words[i].tok # 0
  BY DEF Token
<1>2. Spoken(words) = words
  BY <1>1, AllSpoken
<1>3. Tokens(words) = [i \in DOMAIN words |-> words[i].tok]
  BY <1>2 DEF Tokens
<1>4. DOMAIN words = 1 .. Len(words) /\ Len(words) \in Nat
  OBVIOUS
<1>5. Tokens(words) = [i \in 1 .. Len(words) |-> words[i].tok]
  BY <1>3, <1>4
<1>6. [i \in 1 .. Len(words) |-> words[i].tok] \in Seq(Token)
  BY <1>4
<1> QED
  BY <1>4, <1>5, <1>6

\* The tokens of words, one for one.
Toks(words) == [k \in 1 .. Len(words) |-> words[k].tok]

LEMMA ToksAppended ==
    ASSUME NEW W, \A w \in W : w.tok \in Token, NEW x \in Seq(W), NEW w \in W
    PROVE  /\ Toks(x) \in Seq(Token)
           /\ Toks(Append(x, w)) = Append(Toks(x), w.tok)
<1> DEFINE n == Len(x)
           t == Toks(x)
           y == Append(x, w)
<1>1. n \in Nat /\ \A k \in 1 .. n : x[k] \in W
  OBVIOUS
<1>2. y \in Seq(W) /\ Len(y) = n + 1 /\ y[n + 1] = w /\ \A k \in 1 .. n : y[k] = x[k]
  OBVIOUS
<1>3. t \in Seq(Token) /\ Len(t) = n /\ \A k \in 1 .. n : t[k] = x[k].tok
  BY <1>1 DEF Toks
<1>4. w.tok \in Token
  OBVIOUS
<1> HIDE DEF t, y, n
<1> DEFINE a == Append(t, w.tok)
<1>5. a \in Seq(Token) /\ Len(a) = n + 1 /\ a[n + 1] = w.tok /\ \A k \in 1 .. n : a[k] = t[k]
  BY <1>3, <1>4
<1> HIDE DEF a
<1>6. Toks(y) = [k \in 1 .. n + 1 |-> y[k].tok]
  BY <1>2 DEF Toks
<1>7. \A k \in 1 .. n + 1 : y[k].tok = a[k]
  <2>1. \A k \in 1 .. n + 1 : k \in 1 .. n \/ k = n + 1
    BY <1>1
  <2> QED
    BY <1>2, <1>3, <1>5, <2>1
<1>8. a = [k \in 1 .. n + 1 |-> a[k]]
  BY <1>1, <1>5
<1>9. Toks(y) = a
  BY <1>6, <1>7, <1>8
<1> QED
  BY <1>3, <1>9 DEF a, t, y

\* The tokens of the words that are kept, after each word.
Saying(said, s, T) ==
    /\ Tokens(Those(s, T)) = said[Len(s)]
    /\ said[0] = <<>>
    /\ \A i \in 1 .. Len(s) :
          said[i] = IF s[i] \in T THEN Append(said[i - 1], s[i].tok) ELSE said[i - 1]

LEMMA ThoseTokens ==
    ASSUME NEW W, \A w \in W : w.tok \in Token, NEW s \in Seq(W), NEW T
    PROVE  \E said \in [0 .. Len(s) -> Seq(Token)] : Saying(said, s, T)
<1> DEFINE n == Len(s)
<1>1. PICK kept \in [0 .. n -> Seq(W \cap T)] :
         /\ Those(s, T) = kept[n]
         /\ kept[0] = <<>>
         /\ \A i \in 1 .. n : kept[i] = IF s[i] \in T THEN Append(kept[i - 1], s[i])
                                        ELSE kept[i - 1]
  <2>1. PICK kept \in [0 .. Len(s) -> Seq(W \cap T)] : Keeping(kept, s, T)
    BY ThoseTurns
  <2> QED
    BY <2>1 DEF Keeping
<1>2. n \in Nat /\ \A i \in 1 .. n : s[i] \in W
  OBVIOUS
<1> HIDE DEF n
<1>3. \A i \in 0 .. n : kept[i] \in Seq(W)
  <2>1. \A i \in 0 .. n : kept[i] \in Seq(W \cap T)
    BY <1>1
  <2>2. Seq(W \cap T) \subseteq Seq(W)
    OBVIOUS
  <2> QED
    BY <2>1, <2>2
<1> DEFINE said == [i \in 0 .. n |-> Toks(kept[i])]
<1>4. \A i \in 0 .. n : Toks(kept[i]) \in Seq(Token)
  BY <1>3 DEF Toks
<1>5. said \in [0 .. n -> Seq(Token)]
  BY <1>4
<1>6. Tokens(Those(s, T)) = said[n]
  <2>1. PICK x \in Seq(W) : x = kept[n]
    BY <1>2, <1>3
  <2>2. \A i \in 1 .. Len(x) : x[i].tok \in Token
    OBVIOUS
  <2>3. Tokens(x) = [i \in 1 .. Len(x) |-> x[i].tok]
    BY <2>2, TokensOfAll
  <2>4. n \in 0 .. n
    BY <1>2
  <2> QED
    BY <1>1, <2>1, <2>3, <2>4 DEF Toks
<1>7. said[0] = <<>>
  <2>1. Toks(<<>>) = <<>> /\ 0 \in 0 .. n
    BY <1>2 DEF Toks
  <2> QED
    BY <1>1, <2>1
<1>8. ASSUME NEW i \in 1 .. n
      PROVE  said[i] = IF s[i] \in T THEN Append(said[i - 1], s[i].tok) ELSE said[i - 1]
  <2>1. i \in 0 .. n /\ i - 1 \in 0 .. n
    BY <1>2
  <2>2. PICK x \in Seq(W) : x = kept[i - 1]
    BY <1>3, <2>1
  <2>3. PICK w \in W : w = s[i]
    BY <1>2
  <2>4. Toks(Append(x, w)) = Append(Toks(x), w.tok)
    BY ToksAppended
  <2>5. kept[i] = IF w \in T THEN Append(x, w) ELSE x
    BY <1>1, <2>2, <2>3
  <2>6. said[i] = Toks(kept[i]) /\ said[i - 1] = Toks(x)
    BY <2>1, <2>2
  <2> HIDE DEF said
  <2> QED
    BY <2>3, <2>4, <2>5, <2>6
<1> HIDE DEF said
<1> QED
  BY <1>5, <1>6, <1>7, <1>8 DEF n, Saying

-----------------------------------------------------------------------------
(* The stabilization as one loop, in a repair.                             *)

LEMMA AtLeastItself ==
    ASSUME NEW d \in Nat \ {0}
    PROVE  AtLeastOne(d) = d
BY DEF AtLeastOne, Larger

\* A repair settles the words that are not blank.
LEMMA StabilizedWords ==
    ASSUME NEW words, Heard(Spoken(words)), NEW d \in Nat \ {0}
    PROVE  LET w == Spoken(words)
               all == Stabilized(words, d)
           IN  /\ all \in Seq(SettledWord) /\ Len(all) = Len(w)
               /\ \A i \in 1 .. Len(w) : all[i].tok = w[i].tok
               /\ Sec >= 20 /\ d >= 10 /\ d >= Len(w) => Following(all, d)
<1> DEFINE w == Spoken(words)
           n == Len(w)
           Turn(g, i) == IF i = 0 THEN <<>> ELSE SettleNext(w, g[i - 1], d)
           Settled(g) == g = [i \in 0 .. n |-> Turn(g, i)]
           S == {x \in Seq(SettledWord) : Settling(w, x, d)}
           step == [i \in Nat |-> [x \in S |-> IF Len(x) < n THEN SettleNext(w, x, d) ELSE x]]
<1>1. Heard(w) /\ n \in Nat /\ d \in Nat
  BY DEF Heard
<1>2. Stabilized(words, d) = Closed((CHOOSE g : Settled(g))[n], d)
  BY AtLeastItself DEF Stabilized
<1> HIDE DEF w, n
<1>3. <<>> \in S
  <2>1. <<>> \in Seq(SettledWord)
    OBVIOUS
  <2> QED
    BY <1>1, <2>1, SettlingStarts
<1>4. ASSUME NEW x \in S, Len(x) < n
      PROVE  SettleNext(w, x, d) \in S /\ Len(SettleNext(w, x, d)) = Len(x) + 1
  <2>1. Settling(w, x, d) /\ x \in Seq(SettledWord)
    OBVIOUS
  <2>2. Settling(w, SettleNext(w, x, d), d)
    BY <1>1, <1>4, <2>1, SettlingGoesOn DEF n
  <2>3. SettleNext(w, x, d) \in Seq(SettledWord)
    BY <2>2 DEF Settling
  <2>4. Len(SettleNext(w, x, d)) = Len(x) + 1
    BY <2>1 DEF SettleNext
  <2> QED
    BY <2>2, <2>3, <2>4
<1>5. step \in [Nat -> [S -> S]]
  <2> SUFFICES ASSUME NEW x \in S
               PROVE  (IF Len(x) < n THEN SettleNext(w, x, d) ELSE x) \in S
    OBVIOUS
  <2> HIDE DEF S
  <2> QED
    BY <1>4
<1>6. \A x \in S : Len(x) \in Nat
  OBVIOUS
<1> HIDE DEF S, step, Turn
<1>7. PICK g \in [0 .. n -> S] : IsRun(g, <<>>, step, n)
  BY <1>1, <1>3, <1>5, Recursion
<1>8. \A i \in 0 .. n : Len(g[i]) = i
  <2> DEFINE T == {i \in Nat : i <= n => Len(g[i]) = i}
  <2>1. 0 \in T
    BY <1>7 DEF IsRun
  <2>2. ASSUME NEW i \in Nat, i \in T
        PROVE  i + 1 \in T
    <3> SUFFICES ASSUME i + 1 <= n
                 PROVE  Len(g[i + 1]) = i + 1
      OBVIOUS
    <3>1. i + 1 \in 1 .. n /\ (i + 1) - 1 = i /\ i \in 0 .. n /\ i < n /\ Len(g[i]) = i
      BY <1>1, <2>2
    <3>2. g[i + 1] = step[i + 1][g[i]] /\ g[i] \in S
      BY <1>7, <3>1 DEF IsRun
    <3>3. g[i + 1] = SettleNext(w, g[i], d)
      BY <3>1, <3>2 DEF step
    <3> QED
      BY <1>4, <3>1, <3>2, <3>3
  <2> HIDE DEF T
  <2>3. Nat \subseteq T
    BY <2>1, <2>2, SetInduction
  <2> QED
    BY <1>1, <2>3 DEF T
<1>9. ASSUME NEW i \in 0 .. n
      PROVE  g[i] = Turn(g, i)
  <2>1. CASE i = 0
    BY <1>7, <2>1 DEF IsRun, Turn
  <2>2. CASE i # 0
    <3>1. i \in Nat /\ i - 1 \in 0 .. n /\ i \in 1 .. n /\ i - 1 < n
      BY <1>1, <2>2
    <3>2. g[i] = step[i][g[i - 1]] /\ g[i - 1] \in S /\ Len(g[i - 1]) = i - 1
      BY <1>7, <1>8, <3>1 DEF IsRun
    <3> QED
      BY <2>2, <3>1, <3>2 DEF step, Turn
  <2> QED
    BY <2>1, <2>2
<1>10. Settled(g)
  <2>1. g = [i \in 0 .. n |-> g[i]]
    BY <1>7
  <2> QED
    BY <1>9, <2>1
<1> DEFINE k == CHOOSE h : Settled(h)
<1>11. Settled(k)
  BY <1>10
<1> HIDE DEF k
<1>12. ASSUME NEW f, NEW h, Settled(f), Settled(h)
       PROVE  \A i \in 0 .. n : f[i] = h[i]
  <2> DEFINE T == {i \in Nat : i <= n => f[i] = h[i]}
  <2>1. 0 \in T
    <3>1. 0 \in 0 .. n
      BY <1>1
    <3>2. f[0] = Turn(f, 0) /\ h[0] = Turn(h, 0)
      BY <1>12, <3>1
    <3> QED
      BY <3>2 DEF Turn
  <2>2. ASSUME NEW i \in Nat, i \in T
        PROVE  i + 1 \in T
    <3> SUFFICES ASSUME i + 1 <= n
                 PROVE  f[i + 1] = h[i + 1]
      OBVIOUS
    <3>1. i + 1 \in 0 .. n /\ i + 1 # 0 /\ (i + 1) - 1 = i /\ f[i] = h[i]
      BY <1>1, <2>2
    <3>2. f[i + 1] = Turn(f, i + 1) /\ h[i + 1] = Turn(h, i + 1)
      BY <1>12, <3>1
    <3> QED
      BY <3>1, <3>2 DEF Turn
  <2> HIDE DEF T
  <2>3. Nat \subseteq T
    BY <2>1, <2>2, SetInduction
  <2> QED
    BY <1>1, <2>3 DEF T
<1>13. k[n] = g[n]
  <2>1. n \in 0 .. n
    BY <1>1
  <2> QED
    BY <1>10, <1>11, <1>12, <2>1
<1>14. g[n] \in S /\ Len(g[n]) = n
  <2>1. n \in 0 .. n
    BY <1>1
  <2> QED
    BY <1>7, <1>8, <2>1
<1>15. Settling(w, g[n], d)
  BY <1>14 DEF S
<1>16. Stabilized(words, d) = Closed(g[n], d)
  BY <1>2, <1>13 DEF k
<1> QED
  BY <1>1, <1>14, <1>15, <1>16, SettledWords DEF n, w

-----------------------------------------------------------------------------
(* Equal slots.                                                            *)

\* Division keeps the order, and tells numbers apart that differ by the divisor.
LEMMA QuotientsGrow ==
    ASSUME NEW x \in Nat, NEW y \in Nat, NEW b \in Nat \ {0}
    PROVE  /\ x \div b \in Nat
           /\ x <= y => x \div b <= y \div b
           /\ x + b <= y => x \div b < y \div b
<1> DEFINE p == x \div b
           q == y \div b
<1>1. p \in Int /\ b * p <= x /\ x < b * p + b
  BY Quotient
<1>2. q \in Int /\ b * q <= y /\ y < b * q + b
  BY Quotient
<1> HIDE DEF p, q
<1>3. ASSUME NEW u \in Int, NEW v \in Int, u <= v
      PROVE  b * u <= b * v
  BY <1>3
<1>4. b * p \in Int /\ b * q \in Int /\ b * (q + 1) = b * q + b /\ b * (p + 1) = b * p + b
  BY <1>1, <1>2
<1>5. p >= 0
  <2> SUFFICES ASSUME p + 1 <= 0
               PROVE  FALSE
    BY <1>1
  <2>1. b * (p + 1) <= b * 0
    BY <1>1, <1>3
  <2> QED
    BY <1>1, <1>4, <2>1
<1>6. x <= y => p <= q
  <2> SUFFICES ASSUME x <= y, q + 1 <= p
               PROVE  FALSE
    BY <1>1, <1>2
  <2>1. b * (q + 1) <= b * p
    BY <1>1, <1>2, <1>3
  <2> QED
    BY <1>1, <1>2, <1>4, <2>1
<1>7. x + b <= y => p < q
  <2> SUFFICES ASSUME x + b <= y, q <= p
               PROVE  FALSE
    BY <1>1, <1>2
  <2>1. b * q <= b * p
    BY <1>1, <1>2, <1>3
  <2> QED
    BY <1>1, <1>2, <1>4, <2>1
<1> QED
  BY <1>1, <1>5, <1>6, <1>7 DEF p, q

\* The words of the even alignment say the tokens, follow one another and end with
\* the recording.
LEMMA EvenSlots ==
    ASSUME NEW toks \in Seq(Token), NEW d \in Nat \ {0}
    PROVE  LET all == EvenWords(toks, d)
           IN  /\ all \in Seq(SettledWord) /\ Len(all) = Len(toks)
               /\ \A i \in 1 .. Len(toks) : all[i].tok = toks[i]
               /\ d >= Len(toks) => Following(all, d)
<1> DEFINE n == Len(toks)
           At(i) == (i * d) \div n
           all == [i \in 1 .. n |-> [tok |-> toks[i], s |-> At(i - 1), e |-> At(i)]]
<1>1. EvenWords(toks, d) = all
  BY AtLeastItself DEF EvenWords
<1>2. n \in Nat /\ \A i \in 1 .. n : toks[i] \in Token
  OBVIOUS
<1> HIDE DEF n
<1>3. ASSUME NEW i \in 0 .. n, n # 0
      PROVE  /\ At(i) \in Nat /\ At(i) <= d
             /\ i # 0 => At(i - 1) <= At(i)
             /\ i # 0 /\ d >= n => At(i - 1) < At(i)
  <2> DEFINE x == i * d
             y == n * d
             z == (i - 1) * d
  <2>1. n \in Nat \ {0} /\ i \in Nat /\ i <= n
    BY <1>2, <1>3
  <2>2. x \in Nat /\ y \in Nat /\ (i # 0 => z \in Nat /\ z + d = x)
    BY <2>1
  <2>3. x <= y
    BY <2>1
  <2>4. y \div n = d
    <3>1. y \div n \in Int /\ n * (y \div n) <= y /\ y < n * (y \div n) + n
      BY <2>1, <2>2, Quotient
    <3> DEFINE q == y \div n
    <3> HIDE DEF q
    <3>2. q \in Int /\ n * q <= n * d /\ n * d < n * q + n
      BY <2>1, <3>1 DEF q
    <3>3. ASSUME q + 1 <= d
          PROVE  FALSE
      <4>1. n * (q + 1) <= n * d
        BY <2>1, <3>2, <3>3
      <4>2. n * (q + 1) = n * q + n /\ n * q \in Int /\ n * d \in Int
        BY <2>1, <3>2
      <4> QED
        BY <2>1, <3>2, <4>1, <4>2
    <3>4. ASSUME d + 1 <= q
          PROVE  FALSE
      <4>1. n * (d + 1) <= n * q
        BY <2>1, <3>2, <3>4
      <4>2. n * (d + 1) = n * d + n /\ n * q \in Int /\ n * d \in Int
        BY <2>1, <3>2
      <4> QED
        BY <2>1, <3>2, <4>1, <4>2
    <3> QED
      BY <3>2, <3>3, <3>4 DEF q
  <2> HIDE DEF x, y, z
  <2>5. x \div n \in Nat /\ x \div n <= d
    BY <2>1, <2>2, <2>3, <2>4, QuotientsGrow
  <2>6. i # 0 => z \div n <= x \div n
    <3> SUFFICES ASSUME i # 0
                 PROVE  z \div n <= x \div n
      OBVIOUS
    <3>1. z \in Nat /\ z <= x
      BY <2>2
    <3> QED
      BY <2>1, <2>2, <3>1, QuotientsGrow
  <2>7. i # 0 /\ d >= n => z \div n < x \div n
    <3> SUFFICES ASSUME i # 0, d >= n
                 PROVE  z \div n < x \div n
      OBVIOUS
    <3>1. z \in Nat /\ z + n <= x
      BY <2>1, <2>2
    <3> QED
      BY <2>1, <2>2, <3>1, QuotientsGrow
  <2> QED
    BY <2>5, <2>6, <2>7 DEF x, z
<1>4. \A i \in 1 .. n : i \in 0 .. n /\ i - 1 \in 0 .. n /\ n # 0 /\ i # 0
  BY <1>2
<1>5. \A i \in 1 .. n : /\ At(i - 1) \in Nat /\ At(i) \in Nat /\ At(i) <= d
                        /\ d >= n => At(i - 1) < At(i)
  BY <1>3, <1>4
<1> HIDE DEF At
<1>6. \A i \in 1 .. n : [tok |-> toks[i], s |-> At(i - 1), e |-> At(i)] \in SettledWord
  BY <1>2, <1>5 DEF SettledWord
<1>7. all \in Seq(SettledWord) /\ Len(all) = n /\ DOMAIN all = 1 .. n
  BY <1>2, <1>6
<1>8. \A i \in 1 .. n : all[i].tok = toks[i] /\ all[i].s = At(i - 1) /\ all[i].e = At(i)
  OBVIOUS
<1> HIDE DEF all
<1>9. ASSUME d >= n
      PROVE  Following(all, d)
  <2>1. \A i \in 1 .. n : all[i].s < all[i].e /\ all[i].e <= d
    BY <1>5, <1>8, <1>9
  <2>2. ASSUME NEW i \in 2 .. n
        PROVE  all[i - 1].e <= all[i].s
    <3>1. i \in 1 .. n /\ i - 1 \in 1 .. n
      BY <1>2
    <3>2. all[i - 1].e = At(i - 1) /\ all[i].s = At(i - 1) /\ At(i - 1) \in Nat
      BY <1>5, <1>8, <3>1
    <3> QED
      BY <3>2
  <2> QED
    BY <1>7, <2>1, <2>2 DEF Following
<1> QED
  BY <1>1, <1>7, <1>8, <1>9 DEF n

-----------------------------------------------------------------------------
(* The words of the segment pass.                                          *)

GivenSegment == [toks : Seq(Token), s : Times, e : Times]

\* The segment pass passes on words that are not blank, each with both times.
LEMMA SegmentWords ==
    ASSUME NEW chunks \in Seq(GivenSegment), NEW dur0 \in Nat
    PROVE  WordsOfSegments(chunks, dur0) \in Seq(SpokenWord)
<1> DEFINE d == AtLeastOne(dur0)
           s(c) == Smaller(d, c.s)
           e(c) == Smaller(d, c.e)
           slot(c, i) == s(c) + (i * (e(c) - s(c))) \div Len(c.toks)
           word(c, i) == [tok |-> c.toks[i], s |-> slot(c, i - 1),
                          e |-> IF slot(c, i) > slot(c, i - 1) THEN slot(c, i)
                                ELSE Smaller(e(c), slot(c, i - 1) + Sec \div 25)]
           Cut(c) == IF None \in {c.s, c.e} THEN <<>>
                     ELSE IF e(c) <= s(c) THEN <<>>
                     ELSE [i \in 1 .. Len(c.toks) |-> word(c, i)]
           n == Len(chunks)
           S == Seq(SpokenWord)
           Turn(g, k) == IF k = 0 THEN <<>> ELSE g[k - 1] \o Cut(chunks[k])
           IsCut(g) == g = [k \in 0 .. n |-> Turn(g, k)]
<1>1. WordsOfSegments(chunks, dur0) = (CHOOSE g : IsCut(g))[n]
  BY DEF WordsOfSegments
<1>2. d \in Nat /\ n \in Nat /\ Sec \div 25 \in Nat
  <2>1. Sec \in Nat
    BY TimeAssumption
  <2>2. Sec \div 25 \in Nat
    BY <2>1, QuotientsGrow
  <2> QED
    BY <2>2 DEF AtLeastOne, Larger
<1> HIDE DEF d
<1>3. ASSUME NEW c \in GivenSegment
      PROVE  Cut(c) \in S
  <2>1. c.toks \in Seq(Token) /\ c.s \in Times /\ c.e \in Times
    BY DEF GivenSegment
  <2>2. <<>> \in S
    OBVIOUS
  <2>3. CASE None \notin {c.s, c.e} /\ ~ (e(c) <= s(c))
    <3>1. c.s \in Nat /\ c.e \in Nat
      BY <2>1, <2>3 DEF Times
    <3>2. s(c) \in Nat /\ e(c) \in Nat
      BY <1>2, <3>1 DEF Smaller
    <3>3. e(c) - s(c) \in Nat
      BY <2>3, <3>2
    <3> HIDE DEF s, e
    <3>4. ASSUME NEW i \in 1 .. Len(c.toks)
          PROVE  word(c, i) \in SpokenWord
      <4>1. /\ Len(c.toks) \in Nat \ {0} /\ i \in Nat /\ i - 1 \in Nat
            /\ c.toks[i] \in Token
        BY <2>1
      <4> DEFINE x == i * (e(c) - s(c))
                 y == (i - 1) * (e(c) - s(c))
      <4>2. x \in Nat /\ y \in Nat
        BY <3>3, <4>1
      <4> HIDE DEF x, y
      <4>3. x \div Len(c.toks) \in Nat /\ y \div Len(c.toks) \in Nat
        BY <4>1, <4>2, QuotientsGrow
      <4>4. slot(c, i) \in Nat /\ slot(c, i - 1) \in Nat
        <5> DEFINE u == x \div Len(c.toks)
                   v == y \div Len(c.toks)
        <5>1. slot(c, i) = s(c) + u /\ slot(c, i - 1) = s(c) + v
          BY DEF x, y
        <5>2. u \in Nat /\ v \in Nat /\ s(c) \in Nat
          BY <3>2, <4>3
        <5> HIDE DEF u, v, slot
        <5> QED
          BY <5>1, <5>2
      <4> HIDE DEF slot
      <4>5. slot(c, i - 1) + Sec \div 25 \in Nat
        <5> DEFINE a == slot(c, i - 1)
                   b == Sec \div 25
        <5>1. a \in Nat /\ b \in Nat
          BY <1>2, <4>4
        <5> HIDE DEF a, b
        <5>2. a + b \in Nat
          BY <5>1
        <5> QED
          BY <5>2 DEF a, b
      <4>6. Smaller(e(c), slot(c, i - 1) + Sec \div 25) \in Nat
        BY <3>2, <4>5 DEF Smaller
      <4> DEFINE last == IF slot(c, i) > slot(c, i - 1) THEN slot(c, i)
                         ELSE Smaller(e(c), slot(c, i - 1) + Sec \div 25)
      <4>7. last \in Nat
        BY <4>4, <4>6
      <4>8. word(c, i) = [tok |-> c.toks[i], s |-> slot(c, i - 1), e |-> last]
        OBVIOUS
      <4> HIDE DEF last, word
      <4> QED
        BY <4>1, <4>4, <4>7, <4>8 DEF SpokenWord, Times
    <3>5. Len(c.toks) \in Nat
      BY <2>1
    <3> HIDE DEF word
    <3>6. [i \in 1 .. Len(c.toks) |-> word(c, i)] \in Seq(SpokenWord)
      BY <3>4, <3>5
    <3>7. Cut(c) = [i \in 1 .. Len(c.toks) |-> word(c, i)]
      BY <2>3
    <3> QED
      BY <3>6, <3>7
  <2> QED
    BY <2>2, <2>3
<1> HIDE DEF Cut
<1>4. \A k \in 1 .. n : chunks[k] \in GivenSegment
  OBVIOUS
<1> HIDE DEF n
<1> DEFINE step == [k \in Nat |-> [x \in S |->
                       IF k \in 1 .. n THEN x \o Cut(chunks[k]) ELSE x]]
<1>5. step \in [Nat -> [S -> S]]
  <2> SUFFICES ASSUME NEW k \in Nat, NEW x \in S
               PROVE  (IF k \in 1 .. n THEN x \o Cut(chunks[k]) ELSE x) \in S
    OBVIOUS
  <2>1. CASE k \in 1 .. n
    <3>1. Cut(chunks[k]) \in Seq(SpokenWord)
      BY <1>3, <1>4, <2>1
    <3> QED
      BY <2>1, <3>1
  <2> QED
    BY <2>1
<1>6. <<>> \in S
  OBVIOUS
<1> HIDE DEF step, S, Turn
<1>7. PICK g \in [0 .. n -> S] : IsRun(g, <<>>, step, n)
  BY <1>2, <1>5, <1>6, Recursion
<1>8. ASSUME NEW k \in 0 .. n
      PROVE  g[k] = Turn(g, k)
  <2>1. CASE k = 0
    BY <1>7, <2>1 DEF IsRun, Turn
  <2>2. CASE k # 0
    <3>1. k \in Nat /\ k - 1 \in 0 .. n /\ k \in 1 .. n
      BY <1>2, <2>2
    <3>2. g[k] = step[k][g[k - 1]] /\ g[k - 1] \in S
      BY <1>7, <3>1 DEF IsRun
    <3> QED
      BY <2>2, <3>1, <3>2 DEF step, Turn
  <2> QED
    BY <2>1, <2>2
<1>9. IsCut(g)
  <2>1. g = [k \in 0 .. n |-> g[k]]
    BY <1>7
  <2> QED
    BY <1>8, <2>1
<1> DEFINE h == CHOOSE f : IsCut(f)
<1>10. IsCut(h)
  BY <1>9
<1> HIDE DEF h
<1> DEFINE T == {k \in Nat : k <= n => h[k] \in S}
<1>11. 0 \in T
  <2>1. 0 \in 0 .. n
    BY <1>2
  <2>2. h[0] = <<>>
    BY <1>10, <2>1 DEF Turn
  <2> QED
    BY <1>6, <2>2
<1>12. ASSUME NEW k \in Nat, k \in T
       PROVE  k + 1 \in T
  <2> SUFFICES ASSUME k + 1 <= n
               PROVE  h[k + 1] \in S
    OBVIOUS
  <2>1. k + 1 \in 0 .. n /\ k + 1 \in 1 .. n /\ k + 1 # 0 /\ (k + 1) - 1 = k /\ h[k] \in S
    BY <1>2, <1>12
  <2>2. h[k + 1] = h[k] \o Cut(chunks[k + 1])
    BY <1>10, <2>1 DEF Turn
  <2>3. Cut(chunks[k + 1]) \in Seq(SpokenWord)
    BY <1>3, <1>4, <2>1 DEF S
  <2> QED
    BY <2>1, <2>2, <2>3 DEF S
<1> HIDE DEF T
<1>13. Nat \subseteq T
  BY <1>11, <1>12, SetInduction
<1>14. h[n] \in S
  BY <1>2, <1>13 DEF T
<1> QED
  BY <1>1, <1>14 DEF h, S

-----------------------------------------------------------------------------
(* The words of a channel.                                                 *)

\* What the words of a channel say before they are placed.
Said(text, given) == IF given = <<>> THEN text ELSE Tokens(given)

\* Words with times say these tokens.
Spells(words, said) ==
    /\ words \in Seq(SettledWord) /\ Len(words) = Len(said)
    /\ \A i \in 1 .. Len(said) : words[i].tok = said[i]

LEMMA SaidTokens ==
    ASSUME NEW text \in Seq(Token), NEW given, Heard(given)
    PROVE  /\ Said(text, given) \in Seq(Token)
           /\ given # <<>> => /\ Tokens(given) # <<>>
                            /\ Len(Tokens(given)) = Len(given)
                            /\ \A i \in 1 .. Len(given) : Tokens(given)[i] = given[i].tok
           /\ given = <<>> => Tokens(given) = <<>>
<1>1. given \in Seq(Range(given)) /\ \A i \in 1 .. Len(given) : given[i].tok \in Token
  BY DEF Heard
<1>2. /\ Tokens(given) = [i \in 1 .. Len(given) |-> given[i].tok]
      /\ Tokens(given) \in Seq(Token)
      /\ Len(Tokens(given)) = Len(given)
  BY <1>1, TokensOfAll
<1>3. Said(text, given) \in Seq(Token)
  BY <1>2 DEF Said
<1>4. \A i \in 1 .. Len(given) : Tokens(given)[i] = given[i].tok
  BY <1>2
<1>5. given # <<>> => Tokens(given) # <<>>
  <2>1. given # <<>> => Len(given) # 0
    BY <1>1
  <2> QED
    BY <1>2, <2>1
<1>6. given = <<>> => Tokens(given) = <<>>
  <2>1. given = <<>> => Len(given) = 0
    OBVIOUS
  <2> QED
    BY <1>2, <2>1
<1> QED
  BY <1>2, <1>3, <1>4, <1>5, <1>6

-----------------------------------------------------------------------------
(* Sums.                                                                   *)

\* The sum, number by number.
LEMMA TotalTurns ==
    ASSUME NEW f \in Seq(Int)
    PROVE  \E sum \in [0 .. Len(f) -> Int] :
              /\ Total(f) = sum[Len(f)]
              /\ sum[0] = 0
              /\ \A i \in 1 .. Len(f) : sum[i] = sum[i - 1] + f[i]
<1> DEFINE n == Len(f)
           Turn(g, i) == IF i = 0 THEN 0 ELSE g[i - 1] + f[i]
           Summed(g) == g = [i \in 0 .. n |-> Turn(g, i)]
           step == [i \in Nat |-> [x \in Int |-> IF i \in 1 .. n THEN x + f[i] ELSE x]]
<1>1. n \in Nat /\ \A i \in 1 .. n : f[i] \in Int
  OBVIOUS
<1>2. Total(f) = (CHOOSE g : Summed(g))[n]
  BY DEF Total
<1> HIDE DEF n
<1>3. step \in [Nat -> [Int -> Int]]
  BY <1>1
<1> HIDE DEF step
<1>4. PICK g \in [0 .. n -> Int] : IsRun(g, 0, step, n)
  <2>1. 0 \in Int
    OBVIOUS
  <2> QED
    BY <1>1, <1>3, <2>1, Recursion
<1>5. ASSUME NEW i \in 0 .. n
      PROVE  g[i] = Turn(g, i)
  <2>1. CASE i = 0
    BY <1>4, <2>1 DEF IsRun
  <2>2. CASE i # 0
    <3>1. i \in Nat /\ i - 1 \in 0 .. n /\ i \in 1 .. n
      BY <1>1, <2>2
    <3>2. g[i] = step[i][g[i - 1]] /\ g[i - 1] \in Int
      BY <1>4, <2>2, <3>1 DEF IsRun
    <3> QED
      BY <2>2, <3>1, <3>2 DEF step
  <2> QED
    BY <2>1, <2>2
<1> HIDE DEF Turn
<1>6. Summed(g)
  <2>1. g = [i \in 0 .. n |-> g[i]]
    BY <1>4
  <2> QED
    BY <1>5, <2>1
<1> DEFINE k == CHOOSE h : Summed(h)
<1>7. Summed(k)
  BY <1>6
<1> HIDE DEF k
<1>8. \A i \in 0 .. n : k[i] = Turn(k, i)
  BY <1>7
<1>9. k = [i \in 0 .. n |-> Turn(k, i)]
  BY <1>7
<1> HIDE DEF Summed
<1>10. 0 \in 0 .. n /\ \A i \in 1 .. n : i \in 0 .. n /\ i # 0
  BY <1>1
<1>11. k[0] = 0
  BY <1>8, <1>10 DEF Turn
<1>12. \A i \in 1 .. n : k[i] = k[i - 1] + f[i]
  BY <1>8, <1>10 DEF Turn
<1>13. \A i \in 0 .. n : k[i] \in Int
  <2>1. ASSUME NEW i \in 1 .. n, k[i - 1] \in Int
        PROVE  k[i] \in Int
    <3>1. k[i] = k[i - 1] + f[i] /\ f[i] \in Int
      BY <1>1, <1>12
    <3> QED
      BY <2>1, <3>1
  <2>2. k[0] \in Int
    BY <1>11
  <2> QED
    BY <1>1, <2>1, <2>2, RunType
<1>14. k \in [0 .. n -> Int]
  <2>1. \A i \in 0 .. n : Turn(k, i) \in Int
    BY <1>8, <1>13
  <2> QED
    BY <1>9, <2>1
<1>15. Total(f) = k[n]
  BY <1>2 DEF k
<1> QED
  BY <1>11, <1>12, <1>14, <1>15 DEF n

\* A sum is at least so many times a lower bound of the numbers.
LEMMA TotalAtLeast ==
    ASSUME NEW f \in Seq(Int), NEW a \in Int, \A i \in 1 .. Len(f) : a <= f[i]
    PROVE  Total(f) \in Int /\ Len(f) * a <= Total(f)
<1> DEFINE n == Len(f)
<1>1. PICK sum \in [0 .. n -> Int] :
         /\ Total(f) = sum[n] /\ sum[0] = 0
         /\ \A i \in 1 .. n : sum[i] = sum[i - 1] + f[i]
  BY TotalTurns
<1>2. n \in Nat /\ \A i \in 1 .. n : f[i] \in Int /\ a <= f[i]
  OBVIOUS
<1> DEFINE T == {i \in 0 .. n : i * a <= sum[i]}
<1> HIDE DEF n
<1>3. 0 \in T
  BY <1>1, <1>2
<1>4. ASSUME NEW i \in 1 .. n, i - 1 \in T
      PROVE  i \in T
  <2>1. i \in 0 .. n /\ i - 1 \in 0 .. n /\ sum[i - 1] \in Int
    BY <1>1, <1>2
  <2>2. (i - 1) * a <= sum[i - 1] /\ (i - 1) * a = i * a - a
    BY <1>2, <1>4, <2>1
  <2>3. sum[i] = sum[i - 1] + f[i] /\ f[i] \in Int /\ a <= f[i]
    BY <1>1, <1>2
  <2> DEFINE p == i * a
  <2>4. p \in Int
    BY <2>1
  <2> HIDE DEF p
  <2>5. p - a <= sum[i - 1]
    BY <2>2 DEF p
  <2>6. p <= sum[i]
    BY <2>1, <2>3, <2>4, <2>5
  <2> QED
    BY <2>1, <2>6 DEF p
<1> HIDE DEF T
<1>5. n \in T /\ n \in 0 .. n
  <2>1. \A i \in 0 .. n : i \in T
    BY <1>2, <1>3, <1>4, TurnByTurn
  <2> QED
    BY <1>2, <2>1
<1> QED
  BY <1>1, <1>5 DEF T, n

\* A sum is at most so many times an upper bound of the numbers.
LEMMA TotalAtMost ==
    ASSUME NEW f \in Seq(Int), NEW a \in Int, \A i \in 1 .. Len(f) : f[i] <= a
    PROVE  Total(f) \in Int /\ Total(f) <= Len(f) * a
<1> DEFINE n == Len(f)
<1>1. PICK sum \in [0 .. n -> Int] :
         /\ Total(f) = sum[n] /\ sum[0] = 0
         /\ \A i \in 1 .. n : sum[i] = sum[i - 1] + f[i]
  BY TotalTurns
<1>2. n \in Nat /\ \A i \in 1 .. n : f[i] \in Int /\ f[i] <= a
  OBVIOUS
<1> DEFINE T == {i \in 0 .. n : sum[i] <= i * a}
<1> HIDE DEF n
<1>3. 0 \in T
  BY <1>1, <1>2
<1>4. ASSUME NEW i \in 1 .. n, i - 1 \in T
      PROVE  i \in T
  <2>1. i \in 0 .. n /\ i - 1 \in 0 .. n /\ sum[i - 1] \in Int
    BY <1>1, <1>2
  <2>2. sum[i - 1] <= (i - 1) * a /\ (i - 1) * a = i * a - a
    BY <1>2, <1>4, <2>1
  <2>3. sum[i] = sum[i - 1] + f[i] /\ f[i] \in Int /\ f[i] <= a
    BY <1>1, <1>2
  <2> DEFINE p == i * a
  <2>4. p \in Int
    BY <2>1
  <2> HIDE DEF p
  <2>5. sum[i - 1] <= p - a
    BY <2>2 DEF p
  <2>6. sum[i] <= p
    BY <2>1, <2>3, <2>4, <2>5
  <2> QED
    BY <2>1, <2>6 DEF p
<1> HIDE DEF T
<1>5. n \in T /\ n \in 0 .. n
  <2>1. \A i \in 0 .. n : i \in T
    BY <1>2, <1>3, <1>4, TurnByTurn
  <2> QED
    BY <1>2, <2>1
<1> QED
  BY <1>1, <1>5 DEF T, n

\* Sums are linear.
LEMMA TotalCombined ==
    ASSUME NEW f \in Seq(Int), NEW g \in Seq(Int), NEW h \in Seq(Int), NEW a \in Int,
           Len(g) = Len(f), Len(h) = Len(f),
           \A i \in 1 .. Len(f) : h[i] = a * f[i] + g[i]
    PROVE  Total(h) = a * Total(f) + Total(g)
<1> DEFINE n == Len(f)
<1>1. PICK fs \in [0 .. n -> Int] :
         /\ Total(f) = fs[n] /\ fs[0] = 0
         /\ \A i \in 1 .. n : fs[i] = fs[i - 1] + f[i]
  BY TotalTurns
<1>2. PICK gs \in [0 .. n -> Int] :
         /\ Total(g) = gs[n] /\ gs[0] = 0
         /\ \A i \in 1 .. n : gs[i] = gs[i - 1] + g[i]
  <2>1. \E sum \in [0 .. Len(g) -> Int] :
           /\ Total(g) = sum[Len(g)] /\ sum[0] = 0
           /\ \A i \in 1 .. Len(g) : sum[i] = sum[i - 1] + g[i]
    BY TotalTurns
  <2>2. Len(g) = n
    OBVIOUS
  <2> HIDE DEF n
  <2> QED
    BY <2>1, <2>2
<1>3. PICK hs \in [0 .. n -> Int] :
         /\ Total(h) = hs[n] /\ hs[0] = 0
         /\ \A i \in 1 .. n : hs[i] = hs[i - 1] + h[i]
  <2>1. \E sum \in [0 .. Len(h) -> Int] :
           /\ Total(h) = sum[Len(h)] /\ sum[0] = 0
           /\ \A i \in 1 .. Len(h) : sum[i] = sum[i - 1] + h[i]
    BY TotalTurns
  <2>2. Len(h) = n
    OBVIOUS
  <2> HIDE DEF n
  <2> QED
    BY <2>1, <2>2
<1>4. n \in Nat /\ \A i \in 1 .. n : f[i] \in Int /\ g[i] \in Int /\ h[i] \in Int
  OBVIOUS
<1>5. \A i \in 1 .. n : h[i] = a * f[i] + g[i]
  OBVIOUS
<1> DEFINE T == {i \in 0 .. n : hs[i] = a * fs[i] + gs[i]}
<1> HIDE DEF n
<1>6. 0 \in T
  BY <1>1, <1>2, <1>3, <1>4
<1>7. ASSUME NEW i \in 1 .. n, i - 1 \in T
      PROVE  i \in T
  <2>1. i \in 0 .. n /\ i - 1 \in 0 .. n
    BY <1>4
  <2> DEFINE x == fs[i - 1]
             y == gs[i - 1]
             z == hs[i - 1]
  <2>2. x \in Int /\ y \in Int /\ z \in Int
    BY <2>1
  <2>3. fs[i] = x + f[i] /\ gs[i] = y + g[i] /\ hs[i] = z + h[i]
    BY <1>1, <1>2, <1>3
  <2>4. z = a * x + y
    BY <1>7
  <2>5. f[i] \in Int /\ g[i] \in Int /\ h[i] \in Int /\ h[i] = a * f[i] + g[i]
    BY <1>4, <1>5
  <2> HIDE DEF x, y, z
  <2>6. a * (x + f[i]) = a * x + a * f[i]
    BY <2>2, <2>5
  <2> DEFINE p == a * x
             q == a * f[i]
  <2>7. p \in Int /\ q \in Int
    BY <2>2, <2>5
  <2>8. hs[i] = p + y + q + g[i]
    <3> HIDE DEF p, q
    <3>1. z = p + y /\ h[i] = q + g[i]
      BY <2>4, <2>5 DEF p, q
    <3> QED
      BY <2>2, <2>3, <2>5, <2>7, <3>1
  <2>9. a * fs[i] + gs[i] = (p + q) + (y + g[i])
    BY <2>3, <2>6
  <2> HIDE DEF p, q
  <2>10. hs[i] = a * fs[i] + gs[i]
    BY <2>2, <2>5, <2>7, <2>8, <2>9
  <2> QED
    BY <2>1, <2>10
<1> HIDE DEF T
<1>8. \A i \in 0 .. n : i \in T
  BY <1>4, <1>6, <1>7, TurnByTurn
<1>9. n \in T
  BY <1>4, <1>8
<1> QED
  BY <1>1, <1>2, <1>3, <1>9 DEF T

\* No number is larger than the sum.
LEMMA TotalEntry ==
    ASSUME NEW f \in Seq(Nat)
    PROVE  Total(f) \in Nat /\ \A i \in 1 .. Len(f) : f[i] <= Total(f)
<1> DEFINE n == Len(f)
<1>1. f \in Seq(Int)
  OBVIOUS
<1>2. PICK sum \in [0 .. n -> Int] :
         /\ Total(f) = sum[n] /\ sum[0] = 0
         /\ \A i \in 1 .. n : sum[i] = sum[i - 1] + f[i]
  BY <1>1, TotalTurns
<1>3. n \in Nat /\ \A i \in 1 .. n : f[i] \in Nat
  OBVIOUS
<1> DEFINE T == {i \in 0 .. n : sum[i] \in Nat /\ \A k \in 1 .. i : f[k] <= sum[i]}
<1> HIDE DEF n
<1>4. 0 \in T
  BY <1>2, <1>3
<1>5. ASSUME NEW i \in 1 .. n, i - 1 \in T
      PROVE  i \in T
  <2>1. i \in 0 .. n /\ sum[i - 1] \in Nat /\ \A k \in 1 .. i - 1 : f[k] <= sum[i - 1]
    BY <1>3, <1>5
  <2>2. sum[i] = sum[i - 1] + f[i] /\ f[i] \in Nat
    BY <1>2, <1>3
  <2>3. ASSUME NEW k \in 1 .. i
        PROVE  f[k] <= sum[i]
    <3>1. CASE k = i
      BY <2>1, <2>2, <3>1
    <3>2. CASE k # i
      <4>1. k \in 1 .. i - 1 /\ k \in 1 .. n
        BY <1>3, <3>2
      <4>2. f[k] <= sum[i - 1] /\ f[k] \in Nat
        BY <1>3, <2>1, <4>1
      <4> QED
        BY <2>1, <2>2, <4>2
    <3> QED
      BY <3>1, <3>2
  <2>4. sum[i] \in Nat
    BY <2>1, <2>2
  <2> QED
    BY <2>1, <2>3, <2>4
<1> HIDE DEF T
<1>6. n \in T
  <2>1. \A i \in 0 .. n : i \in T
    BY <1>3, <1>4, <1>5, TurnByTurn
  <2> QED
    BY <1>3, <2>1
<1> QED
  BY <1>2, <1>6 DEF T, n

\* The members of a set of places are counted by a sum.
LEMMA TotalCount ==
    ASSUME NEW n \in Nat, NEW F \in SUBSET (1 .. n)
    PROVE  /\ [i \in 1 .. n |-> IF i \in F THEN 1 ELSE 0] \in Seq(Int)
           /\ Total([i \in 1 .. n |-> IF i \in F THEN 1 ELSE 0]) = Cardinality(F)
<1> DEFINE f == [i \in 1 .. n |-> IF i \in F THEN 1 ELSE 0]
<1>0. \A k \in F : k \in 1 .. n /\ k \in Int
  OBVIOUS
<1>1. f \in Seq(Int) /\ Len(f) = n
  OBVIOUS
<1>2. \A i \in 1 .. n : f[i] = IF i \in F THEN 1 ELSE 0
  OBVIOUS
<1> HIDE DEF f
<1>3. PICK sum \in [0 .. n -> Int] :
         /\ Total(f) = sum[n] /\ sum[0] = 0
         /\ \A i \in 1 .. n : sum[i] = sum[i - 1] + f[i]
  BY <1>1, TotalTurns
<1> DEFINE Upto(i) == F \cap (1 .. i)
           T == {i \in 0 .. n : IsFiniteSet(Upto(i)) /\ Cardinality(Upto(i)) = sum[i]}
<1>4. 0 \in T
  <2>1. Upto(0) = {}
    BY 1 .. 0 = {}
  <2>2. 0 \in 0 .. n
    OBVIOUS
  <2> QED
    BY <1>3, <2>1, <2>2, FS_EmptySet
<1>5. ASSUME NEW i \in 1 .. n, i - 1 \in T
      PROVE  i \in T
  <2>0. 1 .. i = (1 .. i - 1) \cup {i}
    OBVIOUS
  <2>1. i \in 0 .. n /\ i - 1 \in 0 .. n
    OBVIOUS
  <2>2. IsFiniteSet(Upto(i - 1)) /\ Cardinality(Upto(i - 1)) = sum[i - 1]
    BY <1>5
  <2>3. sum[i - 1] \in Int
    BY <1>3, <2>1
  <2>4. sum[i] = sum[i - 1] + f[i]
    BY <1>3
  <2>5. CASE i \in F
    <3>1. Upto(i) = Upto(i - 1) \cup {i}
      BY <2>0, <2>5
    <3>2. i \notin Upto(i - 1)
      OBVIOUS
    <3> DEFINE U == Upto(i - 1)
    <3>3. IsFiniteSet(U) /\ i \notin U /\ Upto(i) = U \cup {i}
      BY <2>2, <3>1, <3>2
    <3> HIDE DEF U, Upto
    <3>4. IsFiniteSet(U \cup {i}) /\ Cardinality(U \cup {i}) = Cardinality(U) + 1
      BY <3>3, FS_AddElement
    <3>5. Cardinality(U) = sum[i - 1]
      BY <2>2 DEF U
    <3>6. IsFiniteSet(Upto(i)) /\ Cardinality(Upto(i)) = sum[i]
      BY <1>2, <2>3, <2>4, <2>5, <3>3, <3>4, <3>5
    <3> QED
      BY <2>1, <3>6
  <2>6. CASE i \notin F
    <3>1. Upto(i) = Upto(i - 1)
      BY <2>0, <2>6
    <3>2. f[i] = 0
      BY <1>2, <2>6
    <3> HIDE DEF Upto
    <3>3. IsFiniteSet(Upto(i)) /\ Cardinality(Upto(i)) = sum[i]
      BY <2>2, <2>3, <2>4, <3>1, <3>2
    <3> QED
      BY <2>1, <3>3
  <2> QED
    BY <2>5, <2>6
<1>6. F = Upto(n)
  BY <1>0
<1> HIDE DEF T
<1>7. n \in T
  <2>1. \A i \in 0 .. n : i \in T
    BY <1>4, <1>5, TurnByTurn
  <2> QED
    BY <2>1
<1>8. Cardinality(Upto(n)) = sum[n]
  BY <1>7 DEF T
<1> HIDE DEF Upto
<1>9. Total(f) = Cardinality(F)
  BY <1>3, <1>6, <1>8
<1> QED
  BY <1>1, <1>9 DEF f

-----------------------------------------------------------------------------
(* The words of each segment.                                              *)

\* Segment i is served before segment k: more was cut off, or it is longer, or it
\* comes first.
ServedBefore(cut, len, i, k) ==
    \/ cut[i] > cut[k]
    \/ cut[i] = cut[k] /\ len[i] > len[k]
    \/ cut[i] = cut[k] /\ len[i] = len[k] /\ i < k

\* Of some segments, one is served before the others.
LEMMA OneIsFirst ==
    ASSUME NEW m \in Nat, NEW b \in Nat, NEW cut \in [1 .. m -> 0 .. b],
           NEW len \in [1 .. m -> 0 .. b], NEW R \in SUBSET (1 .. m), R # {}
    PROVE  \E i \in R : \A k \in R \ {i} : ServedBefore(cut, len, i, k)
<1>0. \A k \in R : k \in 1 .. m /\ k \in Nat /\ cut[k] \in 0 .. b /\ len[k] \in 0 .. b
  OBVIOUS
<1> DEFINE A == {cut[k] : k \in R}
<1>1. A \in SUBSET (0 .. b) /\ A # {}
  BY <1>0
<1>2. PICK c \in A : \A x \in A : x <= c
  BY <1>1, GreatestNumber
<1> DEFINE R1 == {k \in R : cut[k] = c}
           B == {len[k] : k \in R1}
<1>3. R1 # {}
  BY <1>2
<1>4. B \in SUBSET (0 .. b) /\ B # {}
  BY <1>0, <1>3
<1>5. PICK l \in B : \A x \in B : x <= l
  BY <1>4, GreatestNumber
<1> DEFINE R2 == {k \in R1 : len[k] = l}
<1>6. R2 \in SUBSET Nat /\ R2 # {}
  BY <1>0, <1>5
<1>7. PICK i \in R2 : \A k \in R2 : i <= k
  BY <1>6, LeastNumber
<1>8. i \in R /\ cut[i] = c /\ len[i] = l
  BY <1>7
<1>9. ASSUME NEW k \in R \ {i}
      PROVE  ServedBefore(cut, len, i, k)
  <2>1. cut[k] <= c /\ cut[k] \in 0 .. b /\ c \in 0 .. b
    BY <1>0, <1>1, <1>2
  <2>2. CASE cut[k] # c
    <3>1. cut[i] > cut[k]
      BY <1>8, <2>1, <2>2
    <3> QED
      BY <3>1 DEF ServedBefore
  <2>3. CASE cut[k] = c /\ len[k] # l
    <3>1. len[k] \in B /\ len[k] <= l /\ len[k] \in 0 .. b /\ l \in 0 .. b
      BY <1>0, <1>4, <1>5, <2>3
    <3>2. len[i] > len[k]
      BY <1>8, <2>3, <3>1
    <3> QED
      BY <1>8, <2>3, <3>2 DEF ServedBefore
  <2>4. CASE cut[k] = c /\ len[k] = l
    <3>1. k \in R2 /\ i <= k /\ i \in Nat /\ k \in Nat /\ i # k
      BY <1>0, <1>7, <1>8, <2>4
    <3>2. i < k
      BY <3>1
    <3> QED
      BY <1>8, <2>4, <3>2 DEF ServedBefore
  <2> QED
    BY <2>2, <2>3, <2>4
<1> QED
  BY <1>8, <1>9

\* There is a set of any number of segments that are served before the others.
LEMMA FirstExist ==
    ASSUME NEW m \in Nat, NEW b \in Nat, NEW cut \in [1 .. m -> 0 .. b],
           NEW len \in [1 .. m -> 0 .. b], NEW r \in 0 .. m
    PROVE  \E F \in SUBSET (1 .. m) :
              /\ Cardinality(F) = r
              /\ \A i \in F, k \in (1 .. m) \ F : ServedBefore(cut, len, i, k)
<1> DEFINE Chosen(F, q) ==
              /\ Cardinality(F) = q
              /\ \A i \in F, k \in (1 .. m) \ F : ServedBefore(cut, len, i, k)
           T == {q \in 0 .. m : \E F \in SUBSET (1 .. m) : Chosen(F, q)}
<1>1. IsFiniteSet(1 .. m) /\ Cardinality(1 .. m) = m
  <2>1. /\ IsFiniteSet(1 .. m)
        /\ Cardinality(1 .. m) = IF 1 > m THEN 0 ELSE m - 1 + 1
    BY FS_Interval
  <2> QED
    BY <2>1
<1>2. 0 \in T
  <2>1. Chosen({}, 0)
    BY FS_EmptySet
  <2> QED
    BY <2>1
<1>3. ASSUME NEW q \in 1 .. m, q - 1 \in T
      PROVE  q \in T
  <2>1. PICK F \in SUBSET (1 .. m) : Chosen(F, q - 1)
    BY <1>3
  <2> DEFINE R == (1 .. m) \ F
  <2>2. R # {}
    <3> SUFFICES ASSUME R = {}
                 PROVE  FALSE
      OBVIOUS
    <3>1. F = 1 .. m
      OBVIOUS
    <3>2. Cardinality(F) = m /\ Cardinality(F) = q - 1
      BY <1>1, <2>1, <3>1
    <3> QED
      BY <3>2
  <2>3. R \in SUBSET (1 .. m)
    OBVIOUS
  <2> HIDE DEF R
  <2>4. PICK i \in R : \A k \in R \ {i} : ServedBefore(cut, len, i, k)
    BY <2>2, <2>3, OneIsFirst
  <2>5. i \in 1 .. m /\ i \notin F
    BY DEF R
  <2>6. IsFiniteSet(F)
    BY <1>1, FS_Subset
  <2>7. Cardinality(F \cup {i}) = Cardinality(F) + 1
    BY <2>5, <2>6, FS_AddElement
  <2>8. Cardinality(F \cup {i}) = q
    <3>1. Cardinality(F) = q - 1
      BY <2>1
    <3> QED
      BY <2>7, <3>1
  <2>9. ASSUME NEW x \in F \cup {i}, NEW k \in (1 .. m) \ (F \cup {i})
        PROVE  ServedBefore(cut, len, x, k)
    <3>1. k \in R \ {i} /\ k \in (1 .. m) \ F
      BY DEF R
    <3>2. CASE x = i
      BY <2>4, <3>1, <3>2
    <3>3. CASE x \in F
      BY <2>1, <3>1, <3>3
    <3> QED
      BY <3>2, <3>3
  <2>10. Chosen(F \cup {i}, q)
    BY <2>8, <2>9
  <2>11. F \cup {i} \in SUBSET (1 .. m)
    BY <2>5
  <2> HIDE DEF Chosen
  <2> QED
    BY <2>10, <2>11
<1> HIDE DEF T
<1>4. \A q \in 0 .. m : q \in T
  BY <1>2, <1>3, TurnByTurn
<1>5. r \in T
  BY <1>4
<1> QED
  BY <1>5 DEF T

\* Segments of some length.
Stretch == {g \in [s : Nat, e : Nat] : g.s < g.e}

Lengths(segs) == [i \in DOMAIN segs |-> segs[i].e - segs[i].s]

LEMMA LengthsType ==
    ASSUME NEW segs \in Seq(Stretch)
    PROVE  /\ Lengths(segs) \in Seq(Nat) /\ Lengths(segs) \in Seq(Int)
           /\ Len(Lengths(segs)) = Len(segs)
           /\ \A i \in 1 .. Len(segs) : /\ Lengths(segs)[i] = segs[i].e - segs[i].s
                                        /\ Lengths(segs)[i] \in Nat \ {0}
<1> DEFINE n == Len(segs)
<1>1. n \in Nat /\ DOMAIN segs = 1 .. n
  OBVIOUS
<1>2. \A i \in 1 .. n : segs[i] \in Stretch
  OBVIOUS
<1>3. \A i \in 1 .. n : segs[i].e - segs[i].s \in Nat \ {0}
  BY <1>2 DEF Stretch
<1>4. Lengths(segs) = [i \in 1 .. n |-> segs[i].e - segs[i].s]
  BY <1>1 DEF Lengths
<1> HIDE DEF n
<1>5. Lengths(segs) \in Seq(Nat) /\ Lengths(segs) \in Seq(Int) /\ Len(Lengths(segs)) = n
  BY <1>1, <1>3, <1>4
<1>6. \A i \in 1 .. n : /\ Lengths(segs)[i] = segs[i].e - segs[i].s
                        /\ Lengths(segs)[i] \in Nat \ {0}
  BY <1>3, <1>4
<1> QED
  BY <1>5, <1>6 DEF n

\* The shares of the segments add up to all words, so that the code's branches for
\* too many and for left-over words are never taken; and a segment has no more words
\* than units of time where all the speech has no fewer (_fallback_segment_alignment).
THEOREM SharesAddUp ==
    ASSUME NEW segs \in Seq(Stretch), segs # <<>>, NEW n \in Nat
    PROVE  /\ Shares(segs, n) \in Seq(Nat) /\ Len(Shares(segs, n)) = Len(segs)
           /\ Total(Shares(segs, n)) = n
           /\ n <= Total(Lengths(segs)) =>
                 \A i \in 1 .. Len(segs) : Shares(segs, n)[i] <= Lengths(segs)[i]
<1> DEFINE m == Len(segs)
           len == Lengths(segs)
           total == Total(len)
           all == [i \in 1 .. m |-> len[i] * n]
           count == [i \in 1 .. m |-> (len[i] * n) \div total]
           cut == [i \in 1 .. m |-> (len[i] * n) % total]
           spare == n - Total(count)
           Chosen(F) == /\ Cardinality(F) = spare
                        /\ \A i \in F, k \in (1 .. m) \ F : ServedBefore(cut, len, i, k)
           first == CHOOSE F \in SUBSET (1 .. m) : Chosen(F)
           shares == [i \in 1 .. m |-> IF i \in first THEN count[i] + 1 ELSE count[i]]
<1>1. m \in Nat \ {0} /\ DOMAIN segs = 1 .. m
  OBVIOUS
<1>2. /\ len \in Seq(Nat) /\ len \in Seq(Int) /\ Len(len) = m
      /\ \A i \in 1 .. m : len[i] \in Nat \ {0}
  BY LengthsType
<1>3. Shares(segs, n) = shares
  <2> DEFINE Before(i, k) ==
                \/ (len[i] * n) % total > (len[k] * n) % total
                \/ /\ (len[i] * n) % total = (len[k] * n) % total
                   /\ len[i] > len[k]
                \/ /\ (len[i] * n) % total = (len[k] * n) % total
                   /\ len[i] = len[k] /\ i < k
             Picked(F) == /\ Cardinality(F) = spare
                          /\ \A i \in F, k \in (1 .. m) \ F : Before(i, k)
  <2>1. len = [i \in 1 .. m |-> segs[i].e - segs[i].s]
    BY <1>1 DEF Lengths
  <2>2. Shares(segs, n) =
           [i \in 1 .. m |-> IF i \in CHOOSE F \in SUBSET (1 .. m) : Picked(F)
                             THEN count[i] + 1 ELSE count[i]]
    BY <1>1, <2>1 DEF Shares
  <2>3. \A i \in 1 .. m : cut[i] = (len[i] * n) % total
    OBVIOUS
  <2>4. \A i, k \in 1 .. m : Before(i, k) <=> ServedBefore(cut, len, i, k)
    BY <2>3 DEF ServedBefore
  <2> HIDE DEF Before, cut, spare, m
  <2>5. \A F \in SUBSET (1 .. m) : Picked(F) <=> Chosen(F)
    BY <2>4
  <2> HIDE DEF Picked, Chosen
  <2>6. (CHOOSE F \in SUBSET (1 .. m) : Picked(F)) = first
    BY <2>5
  <2> HIDE DEF first
  <2> QED
    BY <2>2, <2>6
<1> HIDE DEF len
<1>4. total \in Nat /\ \A i \in 1 .. m : len[i] <= total
  BY <1>2, TotalEntry
<1>5. total \in Nat \ {0}
  <2>1. 1 \in 1 .. m
    BY <1>1
  <2>2. len[1] <= total /\ len[1] \in Nat \ {0}
    BY <1>2, <1>4, <2>1
  <2> HIDE DEF total
  <2> QED
    BY <1>4, <2>2
<1> HIDE DEF m, total
<1>6. \A i \in 1 .. m : all[i] = len[i] * n /\ all[i] \in Nat
  BY <1>2
<1>7. \A i \in 1 .. m : /\ count[i] = all[i] \div total /\ count[i] \in Nat
                        /\ cut[i] = all[i] - total * count[i] /\ cut[i] \in 0 .. total - 1
  <2> SUFFICES ASSUME NEW i \in 1 .. m
               PROVE  /\ count[i] = all[i] \div total /\ count[i] \in Nat
                      /\ cut[i] = all[i] - total * count[i] /\ cut[i] \in 0 .. total - 1
    OBVIOUS
  <2>1. count[i] = all[i] \div total /\ cut[i] = all[i] % total /\ all[i] \in Nat
    BY <1>6
  <2>2. all[i] \div total \in Nat
    BY <1>5, <2>1, QuotientsGrow
  <2>3. all[i] % total \in 0 .. total - 1 /\ all[i] % total = all[i] - total * (all[i] \div total)
    <3> DEFINE x == all[i]
    <3>1. x \in Int
      BY <2>1
    <3> HIDE DEF x
    <3>2. x % total \in 0 .. total - 1 /\ x % total = x - total * (x \div total)
      BY <1>5, <3>1, Remainder
    <3> QED
      BY <3>2 DEF x
  <2> HIDE DEF all, count, cut
  <2> QED
    BY <2>1, <2>2, <2>3
<1>8. /\ all \in Seq(Int) /\ Len(all) = m
      /\ count \in Seq(Int) /\ Len(count) = m
      /\ cut \in Seq(Int) /\ Len(cut) = m
  <2>1. all = [i \in 1 .. m |-> all[i]] /\ count = [i \in 1 .. m |-> count[i]]
        /\ cut = [i \in 1 .. m |-> cut[i]]
    OBVIOUS
  <2> HIDE DEF all, count, cut
  <2>2. \A i \in 1 .. m : all[i] \in Int /\ count[i] \in Int /\ cut[i] \in Int
    BY <1>5, <1>6, <1>7
  <2>3. all \in Seq(Int) /\ Len(all) = m
    BY <1>1, <2>1, <2>2, TableSequence
  <2>4. count \in Seq(Int) /\ Len(count) = m
    BY <1>1, <2>1, <2>2, TableSequence
  <2>5. cut \in Seq(Int) /\ Len(cut) = m
    BY <1>1, <2>1, <2>2, TableSequence
  <2> QED
    BY <2>3, <2>4, <2>5
<1> DEFINE C == Total(count)
           K == Total(cut)
<1> HIDE DEF all, count, cut
<1>9. Total(all) = n * total
  <2> DEFINE none == [i \in 1 .. m |-> 0]
  <2>1. none \in Seq(Int) /\ Len(none) = m /\ \A i \in 1 .. m : none[i] = 0
    BY <1>1
  <2> HIDE DEF none
  <2>2. Total(none) = 0
    <3>0. 0 \in Int /\ \A i \in 1 .. Len(none) : 0 <= none[i] /\ none[i] <= 0
      BY <2>1
    <3>1. Total(none) \in Int /\ Len(none) * 0 <= Total(none)
      BY <2>1, <3>0, TotalAtLeast
    <3>2. Total(none) <= Len(none) * 0
      BY <2>1, <3>0, TotalAtMost
    <3> QED
      BY <1>1, <2>1, <3>1, <3>2
  <2>3. ASSUME NEW i \in 1 .. Len(len)
        PROVE  all[i] = n * len[i] + none[i]
    <3>1. i \in 1 .. m /\ len[i] \in Int /\ none[i] = 0 /\ all[i] = len[i] * n
      BY <1>2, <1>6, <2>1
    <3>2. len[i] * n = n * len[i] /\ n * len[i] \in Int
      BY <3>1
    <3> QED
      BY <3>1, <3>2
  <2>4. /\ n \in Int /\ Len(none) = Len(len) /\ Len(all) = Len(len)
        /\ len \in Seq(Int) /\ none \in Seq(Int) /\ all \in Seq(Int)
    BY <1>2, <1>8, <2>1
  <2>5. Total(all) = n * Total(len) + Total(none)
    BY <2>3, <2>4, TotalCombined
  <2>6. Total(len) \in Int /\ n * Total(len) \in Int
    BY <1>5 DEF total
  <2> QED
    BY <2>2, <2>5, <2>6 DEF total
<1>10. Total(all) = total * C + K
  <2>1. ASSUME NEW i \in 1 .. Len(count)
        PROVE  all[i] = total * count[i] + cut[i]
    <3>1. i \in 1 .. m
      BY <1>8
    <3> DEFINE p == total * count[i]
    <3>2. p \in Int /\ cut[i] = all[i] - p /\ all[i] \in Int
      BY <1>5, <1>6, <1>7, <3>1
    <3> HIDE DEF p
    <3>3. all[i] = p + cut[i]
      BY <3>2
    <3> QED
      BY <3>3 DEF p
  <2>2. total \in Int /\ Len(cut) = Len(count) /\ Len(all) = Len(count)
    BY <1>5, <1>8
  <2> QED
    BY <1>8, <2>1, <2>2, TotalCombined
<1>11. C \in Int /\ K \in Int /\ 0 <= K /\ K <= m * (total - 1)
  <2>1. \A i \in 1 .. Len(count) : 0 <= count[i]
    BY <1>7, <1>8
  <2>2. C \in Int
    BY <1>8, <2>1, TotalAtLeast
  <2>3. \A i \in 1 .. Len(cut) : 0 <= cut[i] /\ cut[i] <= total - 1
    BY <1>5, <1>7, <1>8
  <2>4. K \in Int /\ Len(cut) * 0 <= K
    BY <1>8, <2>3, TotalAtLeast
  <2>5. total - 1 \in Int
    BY <1>5
  <2>6. K <= Len(cut) * (total - 1)
    BY <1>8, <2>3, <2>5, TotalAtMost
  <2> HIDE DEF C, K
  <2> QED
    BY <1>1, <1>8, <2>2, <2>4, <2>6
<1> HIDE DEF C, K
<1>12. spare \in 0 .. m - 1 /\ spare = n - C
  <2>1. spare = n - C /\ spare \in Int
    BY <1>11 DEF C
  <2> HIDE DEF spare
  <2>2. total * spare = K
    <3>1. n * total = total * C + K
      BY <1>9, <1>10
    <3>2. n = spare + C
      BY <1>11, <2>1
    <3>3. n * total = total * spare + total * C
      BY <1>5, <1>11, <2>1, <3>2
    <3> DEFINE p == total * spare
               q == total * C
    <3>4. p \in Int /\ q \in Int
      BY <1>5, <1>11, <2>1
    <3> HIDE DEF p, q
    <3>5. p + q = q + K
      BY <3>1, <3>3 DEF p, q
    <3>6. p = K
      BY <1>11, <3>4, <3>5
    <3> QED
      BY <3>6 DEF p
  <2>3. ASSUME spare + 1 <= 0
        PROVE  FALSE
    <3>1. total * (spare + 1) <= total * 0
      BY <1>5, <2>1, <2>3
    <3>2. total * (spare + 1) = total * spare + total /\ total * spare \in Int
      BY <1>5, <2>1
    <3> QED
      BY <1>5, <1>11, <2>2, <3>1, <3>2
  <2>4. ASSUME m <= spare
        PROVE  FALSE
    <3>1. total * m <= total * spare
      BY <1>1, <1>5, <2>1, <2>4
    <3>2. m * (total - 1) = total * m - m /\ total * m \in Int
      BY <1>1, <1>5
    <3> QED
      BY <1>1, <1>5, <1>11, <2>2, <3>1, <3>2
  <2> QED
    BY <1>1, <2>1, <2>3, <2>4
<1>13. first \in SUBSET (1 .. m) /\ Chosen(first)
  <2>1. total \in Nat /\ cut \in [1 .. m -> 0 .. total]
    <3>1. cut = [i \in 1 .. m |-> cut[i]]
      BY <1>8
    <3>2. \A i \in 1 .. m : cut[i] \in 0 .. total
      BY <1>5, <1>7
    <3> QED
      BY <1>5, <3>1, <3>2
  <2>2. len \in [1 .. m -> 0 .. total]
    <3>1. len = [i \in 1 .. m |-> len[i]]
      BY <1>2
    <3>2. \A i \in 1 .. m : len[i] \in 0 .. total
      BY <1>2, <1>4, <1>5 DEF total
    <3> QED
      BY <3>1, <3>2
  <2>3. m \in Nat /\ spare \in 0 .. m
    BY <1>1, <1>12
  <2> HIDE DEF spare
  <2>4. \E F \in SUBSET (1 .. m) : Chosen(F)
    BY <2>1, <2>2, <2>3, FirstExist
  <2> HIDE DEF Chosen
  <2> QED
    BY <2>4
<1> HIDE DEF first
<1> DEFINE ones == [i \in 1 .. m |-> IF i \in first THEN 1 ELSE 0]
<1>14. /\ ones \in Seq(Int) /\ Len(ones) = m /\ Total(ones) = spare
       /\ \A i \in 1 .. m : ones[i] = IF i \in first THEN 1 ELSE 0
  <2>1. ones \in Seq(Int) /\ Total(ones) = Cardinality(first)
    BY <1>1, <1>13, TotalCount
  <2>2. Len(ones) = m
    BY <1>1, <2>1
  <2>3. Cardinality(first) = spare
    BY <1>13
  <2> QED
    BY <2>1, <2>2, <2>3
<1> HIDE DEF ones
<1>15. \A i \in 1 .. m : /\ shares[i] = count[i] + ones[i] /\ shares[i] \in Nat
                         /\ shares[i] = IF i \in first THEN count[i] + 1 ELSE count[i]
  BY <1>7, <1>14
<1>16. shares \in Seq(Nat) /\ shares \in Seq(Int) /\ Len(shares) = m
  <2>1. shares = [i \in 1 .. m |-> shares[i]]
    OBVIOUS
  <2> HIDE DEF shares
  <2>2. \A i \in 1 .. m : shares[i] \in Nat
    BY <1>15
  <2>3. shares \in Seq(Nat) /\ Len(shares) = m
    BY <1>1, <2>1, <2>2
  <2> QED
    BY <2>3
<1> HIDE DEF shares
<1>17. Total(shares) = n
  <2>1. \A i \in 1 .. Len(count) : shares[i] = 1 * count[i] + ones[i]
    BY <1>7, <1>8, <1>14, <1>15
  <2>2. 1 \in Int /\ Len(ones) = Len(count) /\ Len(shares) = Len(count)
        /\ count \in Seq(Int) /\ ones \in Seq(Int) /\ shares \in Seq(Int)
    BY <1>8, <1>14, <1>16
  <2>3. Total(shares) = 1 * Total(count) + Total(ones)
    <3> HIDE DEF spare
    <3> QED
      BY <2>1, <2>2, TotalCombined
  <2>4. Total(shares) = 1 * C + spare
    BY <1>14, <2>3 DEF C
  <2> HIDE DEF spare
  <2> QED
    BY <1>11, <1>12, <2>4
<1>18. ASSUME n <= total, NEW i \in 1 .. m
       PROVE  shares[i] <= len[i]
  <2> DEFINE l == len[i]
             c == count[i]
  <2>1. /\ l \in Nat \ {0} /\ c \in Nat /\ cut[i] \in 0 .. total - 1
        /\ total * c = l * n - cut[i]
    <3>1. all[i] = l * n /\ cut[i] = all[i] - total * c /\ cut[i] \in 0 .. total - 1
          /\ l \in Nat \ {0} /\ c \in Nat
      BY <1>2, <1>6, <1>7
    <3> DEFINE p == total * c
               q == l * n
    <3>2. p \in Int /\ q \in Int
      BY <1>5, <3>1
    <3> HIDE DEF p, q, l, c
    <3>3. cut[i] = q - p
      BY <3>1 DEF p, q
    <3>4. p = q - cut[i]
      BY <1>5, <3>1, <3>2, <3>3
    <3> QED
      BY <3>1, <3>4 DEF p, q
  <2> HIDE DEF l, c
  <2>2. l * n \in Int /\ l * total \in Int /\ l * n <= l * total
    BY <1>5, <1>18, <2>1
  <2>3. CASE n = total
    <3>1. \A k \in 1 .. Len(len) : count[k] = 1 * len[k] + 0
      <4> SUFFICES ASSUME NEW k \in 1 .. m
                   PROVE  count[k] = len[k]
        BY <1>2
      <4> DEFINE x == len[k]
                 y == count[k]
      <4>1. x \in Nat /\ y \in Nat /\ all[k] = x * n /\ cut[k] = all[k] - total * y
            /\ cut[k] \in 0 .. total - 1
        BY <1>2, <1>6, <1>7
      <4> HIDE DEF x, y
      <4>2. x * n = total * x
        BY <1>5, <2>3, <4>1
      <4>3. ASSUME y + 1 <= x
            PROVE  FALSE
        <5>1. total * (y + 1) <= total * x
          BY <1>5, <4>1, <4>3
        <5>2. total * (y + 1) = total * y + total /\ total * y \in Int /\ total * x \in Int
          BY <1>5, <4>1
        <5> QED
          BY <1>5, <4>1, <4>2, <5>1, <5>2
      <4>4. ASSUME x + 1 <= y
            PROVE  FALSE
        <5>1. total * (x + 1) <= total * y
          BY <1>5, <4>1, <4>4
        <5>2. total * (x + 1) = total * x + total /\ total * y \in Int /\ total * x \in Int
          BY <1>5, <4>1
        <5> QED
          BY <1>5, <4>1, <4>2, <5>1, <5>2
      <4> QED
        BY <4>1, <4>3, <4>4 DEF x, y
    <3>2. count = len
      <4>1. \A k \in 1 .. m : count[k] = len[k]
        BY <1>2, <1>7, <3>1
      <4>2. count = [k \in 1 .. m |-> count[k]] /\ len = [k \in 1 .. m |-> len[k]]
        BY <1>2, <1>8
      <4>3. [k \in 1 .. m |-> count[k]] = [k \in 1 .. m |-> len[k]]
        BY <4>1
      <4> QED
        BY <4>2, <4>3
    <3>3. spare = 0
      <4>1. C = total
        BY <3>2 DEF C, total
      <4> HIDE DEF spare
      <4> QED
        BY <1>5, <1>12, <2>3, <4>1
    <3>4. i \notin first
      <4>1. IsFiniteSet(first) /\ Cardinality(first) = 0
        <5>1. IsFiniteSet(1 .. m)
          BY <1>1, FS_Interval
        <5> QED
          BY <1>13, <3>3, <5>1, FS_Subset
      <4>2. first = {}
        BY <4>1, FS_EmptySet
      <4> QED
        BY <4>2
    <3>5. shares[i] = count[i]
      BY <1>15, <3>4
    <3>6. shares[i] = len[i] /\ len[i] \in Int
      BY <1>2, <3>2, <3>5
    <3> QED
      BY <3>6
  <2>4. CASE n < total
    <3>1. l * n < l * total
      <4>1. n + 1 <= total
        BY <1>5, <2>4
      <4>2. l * (n + 1) <= l * total
        BY <1>5, <2>1, <4>1
      <4>3. l * (n + 1) = l * n + l
        BY <2>1
      <4> QED
        BY <2>1, <2>2, <4>2, <4>3
    <3>2. c < l
      <4> SUFFICES ASSUME l <= c
                   PROVE  FALSE
        BY <2>1
      <4>1. total * l <= total * c
        BY <1>5, <2>1
      <4>2. total * l = l * total /\ total * c \in Int
        BY <1>5, <2>1
      <4> QED
        BY <1>5, <2>1, <2>2, <3>1, <4>1, <4>2
    <3>3. shares[i] = IF i \in first THEN c + 1 ELSE c
      BY <1>15 DEF c
    <3>4. shares[i] <= l
      BY <2>1, <3>2, <3>3
    <3> QED
      BY <3>4 DEF l
  <2> QED
    BY <1>5, <1>18, <2>3, <2>4
<1> QED
  BY <1>3, <1>16, <1>17, <1>18 DEF m, len, total

\* A multiple of the divisor divides without a rest.
LEMMA QuotientExact ==
    ASSUME NEW n \in Nat \ {0}, NEW d \in Nat
    PROVE  (n * d) \div n = d
<1> DEFINE q == (n * d) \div n
<1>1. n * d \in Nat
  OBVIOUS
<1>2. q \in Int /\ n * q <= n * d /\ n * d < n * q + n
  BY <1>1, Quotient
<1> HIDE DEF q
<1>3. ASSUME q + 1 <= d
      PROVE  FALSE
  <2>1. n * (q + 1) <= n * d
    BY <1>2, <1>3
  <2>2. n * (q + 1) = n * q + n /\ n * q \in Int /\ n * d \in Int
    BY <1>2
  <2> QED
    BY <1>2, <2>1, <2>2
<1>4. ASSUME d + 1 <= q
      PROVE  FALSE
  <2>1. n * (d + 1) <= n * q
    BY <1>2, <1>4
  <2>2. n * (d + 1) = n * d + n /\ n * q \in Int /\ n * d \in Int
    BY <1>2
  <2> QED
    BY <1>2, <2>1, <2>2
<1> QED
  BY <1>2, <1>3, <1>4 DEF q

\* The words of one segment lie within it; each takes some time, and they follow one
\* another, where it has a unit of time for each.
LEMMA SlotsOfSegment ==
    ASSUME NEW toks \in Seq(Token), NEW seg \in Stretch, NEW step \in Nat
    PROVE  LET all == Slots(toks, seg, step)
           IN  /\ all \in Seq(SettledWord) /\ Len(all) = Len(toks)
               /\ \A i \in 1 .. Len(toks) :
                     all[i].tok = toks[i] /\ seg.s <= all[i].s /\ all[i].e <= seg.e
               /\ Len(toks) <= seg.e - seg.s =>
                     /\ \A i \in 1 .. Len(toks) : all[i].s < all[i].e
                     /\ \A i \in 2 .. Len(toks) : all[i - 1].e <= all[i].s
<1> DEFINE n == Len(toks)
           l == seg.e - seg.s
           Slot(i) == seg.s + (i * l) \div n
           End(i) == IF Slot(i) > Slot(i - 1) THEN Slot(i)
                     ELSE Smaller(seg.e, Slot(i - 1) + step)
           all == [i \in 1 .. n |-> [tok |-> toks[i], s |-> Slot(i - 1), e |-> End(i)]]
<1>1. Slots(toks, seg, step) = all
  <2>1. DOMAIN toks = 1 .. n
    OBVIOUS
  <2> QED
    BY <2>1 DEF Slots
<1>2. n \in Nat /\ \A i \in 1 .. n : toks[i] \in Token
  OBVIOUS
<1>3. seg.s \in Nat /\ seg.e \in Nat /\ l \in Nat \ {0} /\ seg.s + l = seg.e
  BY DEF Stretch
<1> HIDE DEF n, l
<1>4. ASSUME NEW i \in 0 .. n, n # 0
      PROVE  /\ Slot(i) \in Nat /\ seg.s <= Slot(i) /\ Slot(i) <= seg.e
             /\ i # 0 /\ n <= l => Slot(i - 1) < Slot(i)
  <2> DEFINE x == i * l
             y == n * l
             z == (i - 1) * l
  <2>1. n \in Nat \ {0} /\ i \in Nat /\ i <= n
    BY <1>2, <1>4
  <2>2. x \in Nat /\ y \in Nat /\ x <= y /\ (i # 0 => z \in Nat /\ z + l = x)
    BY <1>3, <2>1
  <2>3. y \div n = l
    BY <1>3, <2>1, QuotientExact
  <2> HIDE DEF x, y, z
  <2>4. x \div n \in Nat /\ x \div n <= l
    BY <2>1, <2>2, <2>3, QuotientsGrow
  <2>5. ASSUME i # 0, n <= l
        PROVE  z \div n < x \div n /\ z \div n \in Nat
    <3>1. z \in Nat /\ z + n <= x
      BY <1>3, <2>1, <2>2, <2>5
    <3> QED
      BY <2>1, <2>2, <3>1, QuotientsGrow
  <2>6. Slot(i) = seg.s + x \div n /\ Slot(i - 1) = seg.s + z \div n
    BY DEF x, z
  <2> HIDE DEF Slot
  <2>7. Slot(i) \in Nat /\ seg.s <= Slot(i) /\ Slot(i) <= seg.e
    BY <1>3, <2>4, <2>6
  <2>8. i # 0 /\ n <= l => Slot(i - 1) < Slot(i)
    BY <1>3, <2>4, <2>5, <2>6
  <2> QED
    BY <2>7, <2>8
<1>5. \A i \in 1 .. n : i \in 0 .. n /\ i - 1 \in 0 .. n /\ n # 0 /\ i # 0
  BY <1>2
<1> HIDE DEF Slot
<1>6. ASSUME NEW i \in 1 .. n
      PROVE  /\ Slot(i - 1) \in Nat /\ seg.s <= Slot(i - 1)
             /\ End(i) \in Nat /\ End(i) <= seg.e
             /\ n <= l => Slot(i - 1) < End(i) /\ End(i) = Slot(i)
  <2>1. /\ Slot(i - 1) \in Nat /\ seg.s <= Slot(i - 1) /\ Slot(i - 1) <= seg.e
        /\ Slot(i) \in Nat /\ Slot(i) <= seg.e
        /\ n <= l => Slot(i - 1) < Slot(i)
    BY <1>4, <1>5
  <2>2. CASE Slot(i) > Slot(i - 1)
    BY <2>1, <2>2
  <2>3. CASE ~ (Slot(i) > Slot(i - 1))
    <3>1. Smaller(seg.e, Slot(i - 1) + step) \in Nat /\ Smaller(seg.e, Slot(i - 1) + step) <= seg.e
      BY <1>3, <2>1 DEF Smaller
    <3> QED
      BY <2>1, <2>3, <3>1
  <2> QED
    BY <2>2, <2>3
<1> HIDE DEF End
<1>7. \A i \in 1 .. n : [tok |-> toks[i], s |-> Slot(i - 1), e |-> End(i)] \in SettledWord
  BY <1>2, <1>6 DEF SettledWord
<1>8. all \in Seq(SettledWord) /\ Len(all) = n
  BY <1>2, <1>7
<1>9. \A i \in 1 .. n : all[i].tok = toks[i] /\ all[i].s = Slot(i - 1) /\ all[i].e = End(i)
  OBVIOUS
<1> HIDE DEF all
<1>10. \A i \in 1 .. n : all[i].tok = toks[i] /\ seg.s <= all[i].s /\ all[i].e <= seg.e
  BY <1>6, <1>9
<1>11. ASSUME n <= l
       PROVE  /\ \A i \in 1 .. n : all[i].s < all[i].e
              /\ \A i \in 2 .. n : all[i - 1].e <= all[i].s
  <2>1. \A i \in 1 .. n : all[i].s < all[i].e
    BY <1>6, <1>9, <1>11
  <2>2. ASSUME NEW i \in 2 .. n
        PROVE  all[i - 1].e <= all[i].s
    <3>1. i \in 1 .. n /\ i - 1 \in 1 .. n
      BY <1>2
    <3>2. all[i - 1].e = Slot(i - 1) /\ all[i].s = Slot(i - 1) /\ Slot(i - 1) \in Nat
      BY <1>6, <1>9, <1>11, <3>1
    <3> QED
      BY <3>2
  <2> QED
    BY <2>1, <2>2
<1> QED
  BY <1>1, <1>8, <1>10, <1>11 DEF n, l

\* The sums up to each number of a sequence.
LEMMA TotalSteps ==
    ASSUME NEW f \in Seq(Nat)
    PROVE  \E sum \in [0 .. Len(f) -> Nat] :
              /\ Total(f) = sum[Len(f)]
              /\ sum[0] = 0
              /\ \A i \in 1 .. Len(f) : sum[i] = sum[i - 1] + f[i]
              /\ \A i \in 0 .. Len(f) : sum[i] <= Total(f)
<1> DEFINE n == Len(f)
<1>1. f \in Seq(Int) /\ n \in Nat /\ \A i \in 1 .. n : f[i] \in Nat
  OBVIOUS
<1>2. PICK sum \in [0 .. n -> Int] :
         /\ Total(f) = sum[n] /\ sum[0] = 0
         /\ \A i \in 1 .. n : sum[i] = sum[i - 1] + f[i]
  BY <1>1, TotalTurns
<1> HIDE DEF n
<1> DEFINE T == {i \in 0 .. n : sum[i] \in Nat /\ \A k \in 0 .. i : sum[k] <= sum[i]}
<1>3. 0 \in T
  BY <1>1, <1>2
<1>4. ASSUME NEW i \in 1 .. n, i - 1 \in T
      PROVE  i \in T
  <2>1. i \in 0 .. n /\ sum[i - 1] \in Nat /\ \A k \in 0 .. i - 1 : sum[k] <= sum[i - 1]
    BY <1>1, <1>4
  <2>2. sum[i] = sum[i - 1] + f[i] /\ f[i] \in Nat
    BY <1>1, <1>2
  <2>3. ASSUME NEW k \in 0 .. i
        PROVE  sum[k] <= sum[i]
    <3>1. CASE k = i
      BY <2>1, <2>2, <3>1
    <3>2. CASE k # i
      <4>1. k \in 0 .. i - 1 /\ k \in 0 .. n
        BY <1>1, <3>2
      <4>2. sum[k] <= sum[i - 1] /\ sum[k] \in Int
        BY <1>2, <2>1, <4>1
      <4> QED
        BY <2>1, <2>2, <4>2
    <3> QED
      BY <3>1, <3>2
  <2>4. sum[i] \in Nat
    BY <2>1, <2>2
  <2> QED
    BY <2>1, <2>3, <2>4
<1> HIDE DEF T
<1>5. \A i \in 0 .. n : i \in T
  BY <1>1, <1>3, <1>4, TurnByTurn
<1>6. \A i \in 0 .. n : sum[i] \in Nat /\ sum[i] <= sum[n]
  <2>1. n \in T
    BY <1>1, <1>5
  <2> QED
    BY <1>5, <2>1 DEF T
<1>7. sum \in [0 .. n -> Nat]
  <2>1. sum = [i \in 0 .. n |-> sum[i]]
    BY <1>2
  <2> QED
    BY <1>6, <2>1
<1> QED
  BY <1>2, <1>6, <1>7 DEF n

\* A word lies within one of the segments.
Within(w, segs) == \E g \in DOMAIN segs : segs[g].s <= w.s /\ w.e <= segs[g].e

\* No segment begins before the end of the one before it.
OneByOne(segs) == \A g \in 2 .. Len(segs) : segs[g - 1].e <= segs[g].s

\* The words of the first g segments.
Filled(w, toks, segs, g) ==
    /\ w \in Seq(SettledWord)
    /\ \A i \in 1 .. Len(w) : w[i].tok = toks[i] /\ Within(w[i], segs)

\* They follow one another up to the end of the g-th segment.
FilledInTime(w, segs, g) ==
    /\ \A i \in 1 .. Len(w) : w[i].s < w[i].e /\ (g > 0 => w[i].e <= segs[g].e)
    /\ \A i \in 2 .. Len(w) : w[i - 1].e <= w[i].s
    /\ g = 0 => w = <<>>

\* One turn: the next words are put into segment g.
LEMMA SegmentFilled ==
    ASSUME NEW toks \in Seq(Token), NEW segs \in Seq(Stretch), NEW g \in 1 .. Len(segs),
           NEW w, Filled(w, toks, segs, g - 1), NEW c \in Nat, Len(w) + c <= Len(toks),
           NEW step \in Nat
    PROVE  LET next == SubSeq(toks, Len(w) + 1, Len(w) + c)
               all  == w \o Slots(next, segs[g], step)
           IN  /\ Filled(all, toks, segs, g) /\ Len(all) = Len(w) + c
               /\ OneByOne(segs) /\ c <= segs[g].e - segs[g].s /\ FilledInTime(w, segs, g - 1) =>
                     FilledInTime(all, segs, g)
<1> DEFINE k == Len(w)
           seg == segs[g]
           next == SubSeq(toks, k + 1, k + c)
           new == Slots(next, seg, step)
           all == w \o new
<1>1. w \in Seq(SettledWord) /\ k \in Nat
  BY DEF Filled
<1>2. seg \in Stretch /\ seg.s \in Nat /\ seg.e \in Nat
  <2>1. seg \in Stretch
    OBVIOUS
  <2> QED
    BY <2>1 DEF Stretch
<1>3. next \in Seq(Token) /\ Len(next) = c /\ \A i \in 1 .. c : next[i] = toks[k + i]
  <2>1. Len(toks) \in Nat /\ k + c <= Len(toks)
    OBVIOUS
  <2>2. \A i \in k + 1 .. k + c : i \in 1 .. Len(toks)
    BY <1>1, <2>1
  <2>3. next \in Seq(Token)
    BY <1>1, <2>1, <2>2
  <2>4. Len(next) = c
    BY <1>1, <2>1
  <2>5. ASSUME NEW i \in 1 .. c
        PROVE  next[i] = toks[k + i]
    <3>1. next[i] = toks[k + 1 + i - 1]
      BY <1>1, <2>1
    <3>2. k + 1 + i - 1 = k + i
      BY <1>1
    <3> QED
      BY <3>1, <3>2
  <2> QED
    BY <2>3, <2>4, <2>5
<1> HIDE DEF next, seg, k
<1>4. /\ new \in Seq(SettledWord) /\ Len(new) = c
      /\ \A i \in 1 .. c : new[i].tok = toks[k + i] /\ seg.s <= new[i].s /\ new[i].e <= seg.e
      /\ c <= seg.e - seg.s =>
            /\ \A i \in 1 .. c : new[i].s < new[i].e
            /\ \A i \in 2 .. c : new[i - 1].e <= new[i].s
  BY <1>2, <1>3, SlotsOfSegment
<1> HIDE DEF new
<1>5. all \in Seq(SettledWord) /\ Len(all) = k + c
  <2>0. w \in Seq(SettledWord) /\ new \in Seq(SettledWord)
    BY <1>1, <1>4
  <2>1. w \o new \in Seq(SettledWord)
    BY <2>0
  <2>2. Len(w \o new) = Len(w) + Len(new)
    BY <2>0
  <2> QED
    BY <1>4, <2>1, <2>2 DEF k
<1>6. \A i \in 1 .. k : i \in 1 .. Len(w) /\ all[i] = w[i]
  BY <1>1, <1>4 DEF k
<1>7. ASSUME NEW i \in k + 1 .. k + c
      PROVE  i - k \in 1 .. c /\ all[i] = new[i - k]
  <2>1. i - k \in 1 .. c
    BY <1>1
  <2>2. all[i] = new[i - k]
    BY <1>1, <1>4, <2>1 DEF k
  <2> QED
    BY <2>1, <2>2
<1> HIDE DEF all
<1>8. \A i \in 1 .. k + c : i \in 1 .. k \/ i \in k + 1 .. k + c
  BY <1>1
<1>9. ASSUME NEW i \in 1 .. k + c
      PROVE  all[i].tok = toks[i] /\ Within(all[i], segs)
  <2>1. CASE i \in 1 .. k
    BY <1>6, <2>1 DEF Filled
  <2>2. CASE i \in k + 1 .. k + c
    <3>1. i - k \in 1 .. c /\ all[i] = new[i - k] /\ k + (i - k) = i
      BY <1>1, <1>7, <2>2
    <3>2. all[i].tok = toks[i] /\ seg.s <= all[i].s /\ all[i].e <= seg.e
      BY <1>4, <3>1
    <3>3. g \in DOMAIN segs
      OBVIOUS
    <3> QED
      BY <3>2, <3>3 DEF Within, seg
  <2> QED
    BY <1>8, <2>1, <2>2
<1>10. Filled(all, toks, segs, g)
  BY <1>5, <1>9 DEF Filled
<1>11. ASSUME OneByOne(segs), c <= seg.e - seg.s, FilledInTime(w, segs, g - 1)
       PROVE  FilledInTime(all, segs, g)
  <2>1. \A i \in 1 .. k + c : all[i].s \in Nat /\ all[i].e \in Nat
    <3>1. \A i \in 1 .. k + c : all[i] \in SettledWord
      BY <1>5
    <3> QED
      BY <3>1 DEF SettledWord
  <2>2. ASSUME NEW i \in 1 .. k
        PROVE  all[i].s < all[i].e /\ all[i].e <= seg.s
    <3>1. i \in 1 .. Len(w) /\ all[i] = w[i]
      BY <1>6
    <3>2. g - 1 > 0
      <4>1. w # <<>>
        BY <3>1
      <4>2. g - 1 # 0
        BY <1>11, <4>1 DEF FilledInTime
      <4> QED
        BY <4>2
    <3>3. w[i].s < w[i].e /\ w[i].e <= segs[g - 1].e
      BY <1>11, <3>1, <3>2 DEF FilledInTime
    <3>4. segs[g - 1].e <= seg.s /\ segs[g - 1].e \in Nat
      <4>1. g \in 2 .. Len(segs) /\ g - 1 \in 1 .. Len(segs)
        BY <3>2
      <4>2. segs[g - 1] \in Stretch
        BY <4>1
      <4> QED
        BY <1>11, <4>1, <4>2 DEF OneByOne, Stretch, seg
    <3>5. i \in 1 .. k + c
      BY <1>1
    <3>6. all[i].s < all[i].e
      BY <3>1, <3>3
    <3>7. all[i].e <= seg.s
      <4> DEFINE x == all[i].e
                 y == segs[g - 1].e
      <4>1. x <= y /\ y <= seg.s /\ x \in Nat /\ y \in Nat
        BY <2>1, <3>1, <3>3, <3>4, <3>5
      <4> HIDE DEF x, y
      <4>2. x <= seg.s
        BY <1>2, <4>1
      <4> QED
        BY <4>2 DEF x
    <3> QED
      BY <3>6, <3>7
  <2>3. ASSUME NEW i \in k + 1 .. k + c
        PROVE  all[i].s < all[i].e /\ seg.s <= all[i].s /\ all[i].e <= seg.e
    BY <1>4, <1>7, <1>11, <2>3
  <2>4. ASSUME NEW i \in 1 .. k + c
        PROVE  all[i].s < all[i].e /\ all[i].e <= seg.e
    <3>1. CASE i \in 1 .. k
      <4>1. seg.s < seg.e
        BY <1>2 DEF Stretch
      <4> QED
        BY <1>2, <2>1, <2>2, <3>1, <4>1
    <3>2. CASE i \in k + 1 .. k + c
      BY <2>3, <3>2
    <3> QED
      BY <1>8, <3>1, <3>2
  <2>5. ASSUME NEW i \in 2 .. k + c
        PROVE  all[i - 1].e <= all[i].s
    <3>0. i \in 1 .. k + c /\ i - 1 \in 1 .. k + c
      BY <1>1
    <3>1. CASE i \in 1 .. k
      <4>1. i \in 2 .. Len(w) /\ i - 1 \in 1 .. k
        BY <1>1, <3>1 DEF k
      <4>2. all[i] = w[i] /\ all[i - 1] = w[i - 1]
        BY <1>6, <3>1, <4>1
      <4> QED
        BY <1>11, <4>1, <4>2 DEF FilledInTime
    <3>2. CASE i = k + 1
      <4>1. i - 1 \in 1 .. k /\ i \in k + 1 .. k + c
        BY <1>1, <3>2
      <4>2. all[i - 1].e <= seg.s /\ seg.s <= all[i].s
        BY <2>2, <2>3, <4>1
      <4>3. all[i - 1].e \in Nat /\ all[i].s \in Nat
        BY <2>1, <3>0
      <4> DEFINE x == all[i - 1].e
                 y == all[i].s
      <4>4. x <= seg.s /\ seg.s <= y /\ x \in Nat /\ y \in Nat
        BY <4>2, <4>3
      <4> HIDE DEF x, y
      <4>5. x <= y
        BY <1>2, <4>4
      <4> QED
        BY <4>5 DEF x, y
    <3>3. CASE i \in k + 2 .. k + c
      <4>1. i \in k + 1 .. k + c /\ i - 1 \in k + 1 .. k + c /\ i - k \in 2 .. c
            /\ (i - 1) - k = (i - k) - 1
        BY <1>1, <3>3
      <4>2. all[i] = new[i - k] /\ all[i - 1] = new[(i - k) - 1]
        BY <1>7, <4>1
      <4> QED
        BY <1>4, <1>11, <4>1, <4>2
    <3> QED
      BY <1>1, <3>1, <3>2, <3>3
  <2>6. Len(all) = k + c /\ g # 0
    BY <1>5
  <2> QED
    BY <2>4, <2>5, <2>6 DEF FilledInTime, seg
<1> QED
  BY <1>5, <1>10, <1>11 DEF all, new, next, seg, k

\* The words that the segments place say the tokens, each lies within a segment, and
\* they follow one another where all the speech has a unit of time for each.
LEMMA SegmentsPlace ==
    ASSUME NEW toks \in Seq(Token), NEW segs \in Seq(Stretch), segs # <<>>, NEW d \in Nat
    PROVE  LET all == WordsInSegments(toks, segs, d)
           IN  /\ Filled(all, toks, segs, Len(segs)) /\ Len(all) = Len(toks)
               /\ OneByOne(segs) /\ Len(toks) <= Total(Lengths(segs)) =>
                     FilledInTime(all, segs, Len(segs))
<1> DEFINE n == Len(toks)
           m == Len(segs)
           share == Shares(segs, n)
           step == MinStep(n, d)
           Next0(x, g) == SubSeq(toks, Len(x) + 1, Len(x) + share[g])
           More(x, g) == x \o Slots(Next0(x, g), segs[g], step)
           Turn(f, g) == IF g = 0 THEN <<>> ELSE More(f[g - 1], g)
           Placed(f) == f = [g \in 0 .. m |-> Turn(f, g)]
           S == Seq(SettledWord)
           turn == [g \in Nat |-> [x \in S |->
                      IF g \in 1 .. m /\ Len(x) + share[g] <= n THEN More(x, g) ELSE x]]
           fine == OneByOne(segs) /\ n <= Total(Lengths(segs))
<1>1. WordsInSegments(toks, segs, d) = (CHOOSE f : Placed(f))[m]
  BY DEF WordsInSegments
<1>2. n \in Nat /\ m \in Nat /\ m # 0
  OBVIOUS
<1>3. step \in Nat
  BY <1>2, StepFits
<1>4. /\ share \in Seq(Nat) /\ Len(share) = m /\ Total(share) = n
      /\ n <= Total(Lengths(segs)) => \A g \in 1 .. m : share[g] <= segs[g].e - segs[g].s
  <2>1. /\ share \in Seq(Nat) /\ Len(share) = m /\ Total(share) = n
        /\ n <= Total(Lengths(segs)) => \A g \in 1 .. m : share[g] <= Lengths(segs)[g]
    BY <1>2, SharesAddUp
  <2>2. \A g \in 1 .. m : Lengths(segs)[g] = segs[g].e - segs[g].s
    BY LengthsType
  <2> QED
    BY <2>1, <2>2
<1> HIDE DEF share, step
<1>5. PICK sum \in [0 .. m -> Nat] :
         /\ sum[0] = 0
         /\ \A g \in 1 .. m : sum[g] = sum[g - 1] + share[g]
         /\ \A g \in 0 .. m : sum[g] <= n
         /\ sum[m] = n
  <2>1. PICK sum \in [0 .. Len(share) -> Nat] :
           /\ Total(share) = sum[Len(share)]
           /\ sum[0] = 0
           /\ \A i \in 1 .. Len(share) : sum[i] = sum[i - 1] + share[i]
           /\ \A i \in 0 .. Len(share) : sum[i] <= Total(share)
    BY <1>4, TotalSteps
  <2> HIDE DEF n, m
  <2> QED
    BY <1>4, <2>1
<1>6. \A g \in 1 .. m : share[g] \in Nat
  BY <1>4
<1> DEFINE Good(x, g) == /\ Filled(x, toks, segs, g) /\ Len(x) = sum[g]
                         /\ fine => FilledInTime(x, segs, g)
<1>7. ASSUME NEW g \in 1 .. m, NEW x, Good(x, g - 1)
      PROVE  Good(More(x, g), g) /\ Len(x) + share[g] <= n /\ x \in S
  <2>1. Len(x) = sum[g - 1] /\ g \in 0 .. m /\ g - 1 \in 0 .. m /\ share[g] \in Nat
    BY <1>2, <1>6, <1>7
  <2>2. Len(x) + share[g] = sum[g] /\ sum[g] <= n
    BY <1>5, <2>1
  <2>3. Filled(x, toks, segs, g - 1)
    BY <1>7
  <2>4. /\ Filled(More(x, g), toks, segs, g) /\ Len(More(x, g)) = Len(x) + share[g]
        /\ OneByOne(segs) /\ share[g] <= segs[g].e - segs[g].s /\ FilledInTime(x, segs, g - 1) =>
              FilledInTime(More(x, g), segs, g)
    BY <1>3, <2>1, <2>2, <2>3, SegmentFilled
  <2>5. fine => /\ OneByOne(segs) /\ share[g] <= segs[g].e - segs[g].s
                /\ FilledInTime(x, segs, g - 1)
    BY <1>4, <1>7
  <2>6. x \in S
    BY <2>3 DEF Filled
  <2> HIDE DEF More, fine
  <2> QED
    BY <2>2, <2>4, <2>5, <2>6
<1> HIDE DEF n, m, More, fine
<1>8. Good(<<>>, 0)
  <2>1. <<>> \in Seq(SettledWord) /\ Len(<<>>) = 0 /\ \A i \in 1 .. Len(<<>>) : FALSE
    OBVIOUS
  <2>2. Filled(<<>>, toks, segs, 0)
    BY <2>1 DEF Filled
  <2>3. FilledInTime(<<>>, segs, 0)
    BY DEF FilledInTime
  <2> QED
    BY <1>5, <2>1, <2>2, <2>3
<1> HIDE DEF Good
<1>9. turn \in [Nat -> [S -> S]]
  <2> SUFFICES ASSUME NEW g \in Nat, NEW x \in S
               PROVE  (IF g \in 1 .. m /\ Len(x) + share[g] <= n THEN More(x, g) ELSE x) \in S
    OBVIOUS
  <2>1. CASE g \in 1 .. m /\ Len(x) + share[g] <= n
    <3>1. segs[g] \in Stretch /\ share[g] \in Nat /\ Len(x) \in Nat /\ Len(toks) = n
      BY <1>6, <2>1 DEF m, n
    <3>2. Next0(x, g) \in Seq(Token)
      <4>1. \A i \in Len(x) + 1 .. Len(x) + share[g] : i \in 1 .. Len(toks)
        BY <1>2, <2>1, <3>1
      <4> QED
        BY <3>1, <4>1
    <3> HIDE DEF Next0
    <3>3. Slots(Next0(x, g), segs[g], step) \in Seq(SettledWord)
      BY <1>3, <3>1, <3>2, SlotsOfSegment
    <3>4. More(x, g) \in S
      BY <3>3 DEF More
    <3> QED
      BY <2>1, <3>4
  <2> QED
    BY <2>1
<1>10. <<>> \in S
  OBVIOUS
<1> HIDE DEF turn, S
<1>11. PICK f \in [0 .. m -> S] : IsRun(f, <<>>, turn, m)
  BY <1>2, <1>9, <1>10, Recursion
<1>12. ASSUME NEW h, h[0] = <<>>, \A g \in 1 .. m : Good(h[g - 1], g - 1) => h[g] = More(h[g - 1], g)
       PROVE  \A g \in 0 .. m : Good(h[g], g)
  <2> DEFINE T == {g \in 0 .. m : Good(h[g], g)}
  <2>1. 0 \in T
    BY <1>2, <1>8, <1>12
  <2>2. ASSUME NEW g \in 1 .. m, g - 1 \in T
        PROVE  g \in T
    <3>1. Good(h[g - 1], g - 1) /\ g \in 0 .. m
      BY <1>2, <2>2
    <3>2. h[g] = More(h[g - 1], g) /\ Good(More(h[g - 1], g), g)
      BY <1>7, <1>12, <3>1
    <3> QED
      BY <3>1, <3>2
  <2> HIDE DEF T
  <2>3. \A g \in 0 .. m : g \in T
    BY <1>2, <2>1, <2>2, TurnByTurn
  <2> QED
    BY <2>3 DEF T
<1>13. ASSUME NEW g \in 1 .. m, Good(f[g - 1], g - 1)
       PROVE  f[g] = More(f[g - 1], g)
  <2>1. g \in Nat /\ Len(f[g - 1]) + share[g] <= n /\ f[g - 1] \in S
    BY <1>2, <1>7, <1>13
  <2>2. f[g] = turn[g][f[g - 1]]
    BY <1>11 DEF IsRun
  <2> QED
    BY <2>1, <2>2 DEF turn
<1>14. f[0] = <<>>
  BY <1>11 DEF IsRun
<1>15. \A g \in 0 .. m : Good(f[g], g)
  BY <1>12, <1>13, <1>14
<1>16. Placed(f)
  <2>1. f = [g \in 0 .. m |-> f[g]]
    BY <1>11
  <2>2. ASSUME NEW g \in 0 .. m
        PROVE  f[g] = Turn(f, g)
    <3>1. CASE g = 0
      BY <1>14, <3>1
    <3>2. CASE g # 0
      <4>1. g \in 1 .. m /\ g - 1 \in 0 .. m
        BY <1>2, <3>2
      <4>2. f[g] = More(f[g - 1], g)
        BY <1>13, <1>15, <4>1
      <4> QED
        BY <3>2, <4>2
    <3> QED
      BY <3>1, <3>2
  <2> HIDE DEF Turn
  <2> QED
    BY <2>1, <2>2
<1> DEFINE p == CHOOSE h : Placed(h)
<1>17. Placed(p)
  BY <1>16
<1> HIDE DEF p
<1>18. \A g \in 0 .. m : p[g] = Turn(p, g)
  BY <1>17
<1> HIDE DEF Placed
<1>19. p[0] = <<>> /\ \A g \in 1 .. m : p[g] = More(p[g - 1], g)
  <2>1. 0 \in 0 .. m /\ \A g \in 1 .. m : g \in 0 .. m /\ g # 0
    BY <1>2
  <2> QED
    BY <1>18, <2>1
<1>20. \A g \in 0 .. m : Good(p[g], g)
  BY <1>12, <1>19
<1>21. Good(p[m], m) /\ WordsInSegments(toks, segs, d) = p[m]
  BY <1>1, <1>2, <1>20 DEF p
<1> QED
  BY <1>5, <1>21 DEF Good, fine, n, m

-----------------------------------------------------------------------------
(* The segments of speech.                                                 *)

\* Segments of some length within d, each before the next one.
Apart(segs, d) ==
    /\ segs \in Seq(Stretch)
    /\ \A g \in 1 .. Len(segs) : segs[g].e <= d
    /\ \A i, k \in 1 .. Len(segs) : k < i => segs[k].e < segs[i].s

LEMMA ApartStretches ==
    ASSUME NEW d \in Nat, NEW segs, Apart(segs, d)
    PROVE  /\ segs \in Seq(Stretch) /\ OneByOne(segs)
           /\ \A g \in 1 .. Len(segs) : /\ segs[g] = [s |-> segs[g].s, e |-> segs[g].e]
                                        /\ segs[g].s \in Nat /\ segs[g].e \in Nat
                                        /\ segs[g].s < segs[g].e /\ segs[g].e <= d
<1>1. segs \in Seq(Stretch) /\ Len(segs) \in Nat
  BY DEF Apart
<1>2. \A g \in 1 .. Len(segs) : segs[g] \in Stretch
  BY <1>1
<1>3. \A g \in 1 .. Len(segs) : /\ segs[g] = [s |-> segs[g].s, e |-> segs[g].e]
                                /\ segs[g].s \in Nat /\ segs[g].e \in Nat
                                /\ segs[g].s < segs[g].e
  BY <1>2 DEF Stretch
<1>4. ASSUME NEW g \in 2 .. Len(segs)
      PROVE  segs[g - 1].e <= segs[g].s
  <2>1. g \in 1 .. Len(segs) /\ g - 1 \in 1 .. Len(segs) /\ g - 1 < g
    BY <1>1
  <2>2. segs[g - 1].e < segs[g].s
    BY <2>1 DEF Apart
  <2>3. segs[g - 1].e \in Nat /\ segs[g].s \in Nat
    BY <1>3, <2>1
  <2> QED
    BY <2>2, <2>3
<1>5. \A g \in 1 .. Len(segs) : segs[g].e <= d
  BY DEF Apart
<1> QED
  BY <1>1, <1>3, <1>4, <1>5 DEF OneByOne

\* Nothing is clipped off segments within the recording.
LEMMA ClippedKept ==
    ASSUME NEW d \in Nat, NEW segs, Apart(segs, d)
    PROVE  Clipped(segs, d) = segs
<1> DEFINE n == Len(segs)
           cut == [i \in DOMAIN segs |->
                      [s |-> Smaller(d, segs[i].s), e |-> Smaller(d, segs[i].e)]]
           T == {g \in Range(cut) : g.e > g.s}
<1>1. segs \in Seq(Stretch) /\ DOMAIN segs = 1 .. n /\ n \in Nat
  BY ApartStretches
<1>2. \A i \in 1 .. n : cut[i] = segs[i] /\ segs[i].e > segs[i].s
  <2> SUFFICES ASSUME NEW i \in 1 .. n
               PROVE  cut[i] = segs[i] /\ segs[i].e > segs[i].s
    OBVIOUS
  <2>1. /\ segs[i] = [s |-> segs[i].s, e |-> segs[i].e]
        /\ segs[i].s \in Nat /\ segs[i].e \in Nat /\ segs[i].s < segs[i].e /\ segs[i].e <= d
    BY ApartStretches
  <2>2. Smaller(d, segs[i].s) = segs[i].s /\ Smaller(d, segs[i].e) = segs[i].e
    BY <2>1 DEF Smaller
  <2>3. cut[i] = [s |-> segs[i].s, e |-> segs[i].e]
    BY <1>1, <2>2
  <2> HIDE DEF cut
  <2> QED
    BY <2>1, <2>3
<1>3. cut = [i \in 1 .. n |-> cut[i]]
  BY <1>1
<1> HIDE DEF cut
<1>4. cut = segs
  <2>1. segs = [i \in 1 .. n |-> segs[i]]
    BY <1>1
  <2>2. [i \in 1 .. n |-> cut[i]] = [i \in 1 .. n |-> segs[i]]
    BY <1>2
  <2> QED
    BY <1>3, <2>1, <2>2
<1>5. \A i \in 1 .. n : segs[i] \in T
  BY <1>1, <1>2, <1>4 DEF Range
<1> HIDE DEF T
<1>6. Those(segs, T) = segs
  BY <1>1, <1>5, ThoseAll
<1> QED
  BY <1>4, <1>6 DEF Clipped, cut, T

\* Sorting by insertion, turn by turn.
LEMMA SortedTurns ==
    ASSUME NEW W, NEW segs \in Seq(W)
    PROVE  \E sorted \in [0 .. Len(segs) -> Seq(W)] :
              /\ Sorted(segs) = sorted[Len(segs)]
              /\ sorted[0] = <<>>
              /\ \A i \in 1 .. Len(segs) :
                    LET done == sorted[i - 1]
                        upTo == Cardinality({k \in DOMAIN done : done[k].s <= segs[i].s})
                    IN  /\ upTo \in 0 .. Len(done)
                        /\ sorted[i] = InsertAt(done, upTo + 1, segs[i])
<1> DEFINE n == Len(segs)
           UpTo(x, i) == Cardinality({k \in DOMAIN x : x[k].s <= segs[i].s})
           More(x, i) == InsertAt(x, UpTo(x, i) + 1, segs[i])
           Turn(g, i) == IF i = 0 THEN <<>> ELSE More(g[i - 1], i)
           Run(g) == g = [i \in 0 .. n |-> Turn(g, i)]
           S == Seq(W)
           step == [i \in Nat |-> [x \in S |-> IF i \in 1 .. n THEN More(x, i) ELSE x]]
<1>1. Sorted(segs) = (CHOOSE g : Run(g))[n]
  BY DEF Sorted
<1>2. n \in Nat /\ \A i \in 1 .. n : segs[i] \in W
  OBVIOUS
<1> HIDE DEF n
<1>3. ASSUME NEW x \in S, NEW i \in 1 .. n
      PROVE  UpTo(x, i) \in 0 .. Len(x) /\ More(x, i) \in S
  <2> DEFINE K == {k \in DOMAIN x : x[k].s <= segs[i].s}
             l == Len(x)
  <2>1. l \in Nat /\ DOMAIN x = 1 .. l
    OBVIOUS
  <2>2. K \subseteq 1 .. l
    BY <2>1
  <2>3. IsFiniteSet(1 .. l) /\ Cardinality(1 .. l) = l
    <3>0. 1 \in Int /\ l \in Int
      BY <2>1
    <3> HIDE DEF l
    <3>1. /\ IsFiniteSet(1 .. l)
          /\ Cardinality(1 .. l) = IF 1 > l THEN 0 ELSE l - 1 + 1
      BY <3>0, FS_Interval
    <3> QED
      BY <2>1, <3>1
  <2> HIDE DEF K, l
  <2>4. IsFiniteSet(K) /\ Cardinality(K) <= l
    BY <2>2, <2>3, FS_Subset
  <2>5. Cardinality(K) \in Nat
    BY <2>4, FS_CardinalityType
  <2>6. UpTo(x, i) = Cardinality(K)
    BY DEF K
  <2>7. UpTo(x, i) \in 0 .. l
    BY <2>1, <2>4, <2>5, <2>6
  <2> HIDE DEF UpTo
  <2> DEFINE u == UpTo(x, i)
  <2>8. u \in 0 .. l
    BY <2>7
  <2> HIDE DEF u
  <2>9. SubSeq(x, 1, (u + 1) - 1) \in Seq(W) /\ SubSeq(x, u + 1, Len(x)) \in Seq(W)
    <3>1. \A k \in 1 .. (u + 1) - 1 : k \in 1 .. Len(x)
      BY <2>1, <2>8 DEF l
    <3>2. \A k \in u + 1 .. Len(x) : k \in 1 .. Len(x)
      BY <2>1, <2>8 DEF l
    <3>3. SubSeq(x, 1, (u + 1) - 1) \in Seq(W)
      BY <2>1, <2>8, <3>1 DEF l
    <3>4. SubSeq(x, u + 1, Len(x)) \in Seq(W)
      BY <2>1, <2>8, <3>2 DEF l
    <3> QED
      BY <3>3, <3>4
  <2>10. <<segs[i]>> \in Seq(W)
    BY <1>2
  <2>11. InsertAt(x, u + 1, segs[i]) \in Seq(W)
    BY <2>9, <2>10 DEF InsertAt
  <2> QED
    BY <2>7, <2>11 DEF u, l
<1> HIDE DEF More
<1>4. step \in [Nat -> [S -> S]]
  BY <1>3
<1>5. <<>> \in S
  OBVIOUS
<1> HIDE DEF step, S
<1>6. PICK g \in [0 .. n -> S] : IsRun(g, <<>>, step, n)
  BY <1>2, <1>4, <1>5, Recursion
<1>7. ASSUME NEW i \in 0 .. n
      PROVE  g[i] = Turn(g, i)
  <2>1. CASE i = 0
    BY <1>6, <2>1 DEF IsRun
  <2>2. CASE i # 0
    <3>1. i \in Nat /\ i - 1 \in 0 .. n /\ i \in 1 .. n
      BY <1>2, <2>2
    <3>2. g[i] = step[i][g[i - 1]] /\ g[i - 1] \in S
      BY <1>6, <3>1 DEF IsRun
    <3> QED
      BY <2>2, <3>1, <3>2 DEF step
  <2> QED
    BY <2>1, <2>2
<1> HIDE DEF Turn
<1>8. Run(g)
  <2>1. g = [i \in 0 .. n |-> g[i]]
    BY <1>6
  <2> QED
    BY <1>7, <2>1
<1> DEFINE h == CHOOSE f : Run(f)
<1>9. Run(h)
  BY <1>8
<1> HIDE DEF h
<1>10. h = [i \in 0 .. n |-> Turn(h, i)]
  BY <1>9
<1>11. \A i \in 0 .. n : h[i] = Turn(h, i)
  BY <1>9
<1> HIDE DEF Run
<1>12. h[0] = <<>> /\ \A i \in 1 .. n : h[i] = More(h[i - 1], i)
  <2>1. 0 \in 0 .. n /\ \A i \in 1 .. n : i \in 0 .. n /\ i # 0
    BY <1>2
  <2> QED
    BY <1>11, <2>1 DEF Turn
<1>13. \A i \in 0 .. n : h[i] \in S
  <2>1. ASSUME NEW i \in 1 .. n, h[i - 1] \in S
        PROVE  h[i] \in S
    BY <1>3, <1>12, <2>1
  <2>2. h[0] \in S
    BY <1>5, <1>12
  <2> QED
    BY <1>2, <2>1, <2>2, RunType
<1>14. h \in [0 .. n -> S]
  <2>1. \A i \in 0 .. n : Turn(h, i) \in S
    BY <1>11, <1>13
  <2> QED
    BY <1>10, <2>1
<1>15. \A i \in 1 .. n : UpTo(h[i - 1], i) \in 0 .. Len(h[i - 1])
  <2>1. \A i \in 1 .. n : i - 1 \in 0 .. n
    BY <1>2
  <2> QED
    BY <1>3, <1>13, <2>1
<1>16. Sorted(segs) = h[n]
  BY <1>1 DEF h
<1> QED
  BY <1>12, <1>14, <1>15, <1>16 DEF More, n, S

LEMMA SortedType ==
    ASSUME NEW W, NEW segs \in Seq(W)
    PROVE  Sorted(segs) \in Seq(W)
<1>1. Len(segs) \in 0 .. Len(segs)
  OBVIOUS
<1> QED
  BY <1>1, SortedTurns

\* What is in order stays as it is.
LEMMA SortedKept ==
    ASSUME NEW W, NEW segs \in Seq(W),
           \A i, k \in 1 .. Len(segs) : k < i => segs[k].s <= segs[i].s
    PROVE  Sorted(segs) = segs
<1> DEFINE n == Len(segs)
           UpTo(x, i) == Cardinality({k \in DOMAIN x : x[k].s <= segs[i].s})
<1>1. segs \in Seq(W) /\ n \in Nat
  OBVIOUS
<1>2. PICK sorted \in [0 .. n -> Seq(W)] :
         /\ Sorted(segs) = sorted[n]
         /\ sorted[0] = <<>>
         /\ \A i \in 1 .. n : sorted[i] = InsertAt(sorted[i - 1], UpTo(sorted[i - 1], i) + 1, segs[i])
  <2>1. PICK sorted \in [0 .. Len(segs) -> Seq(W)] :
              /\ Sorted(segs) = sorted[Len(segs)]
              /\ sorted[0] = <<>>
              /\ \A i \in 1 .. Len(segs) :
                    LET done == sorted[i - 1]
                        upTo == Cardinality({k \in DOMAIN done : done[k].s <= segs[i].s})
                    IN  /\ upTo \in 0 .. Len(done)
                        /\ sorted[i] = InsertAt(done, upTo + 1, segs[i])
    BY <1>1, SortedTurns
  <2>2. \A i \in 1 .. n : sorted[i] = InsertAt(sorted[i - 1], UpTo(sorted[i - 1], i) + 1, segs[i])
    BY <2>1
  <2> HIDE DEF UpTo
  <2> QED
    BY <2>1, <2>2
<1> DEFINE Begins(x, i) == Len(x) = i /\ \A k \in 1 .. i : x[k] = segs[k]
           T == {i \in 0 .. n : Begins(sorted[i], i)}
<1>3. 0 \in T
  BY <1>1, <1>2
<1>4. ASSUME NEW i \in 1 .. n, i - 1 \in T
      PROVE  i \in T
  <2> DEFINE x == sorted[i - 1]
             K == {k \in DOMAIN x : x[k].s <= segs[i].s}
             w == segs[i]
  <2>1. i \in 0 .. n /\ i - 1 \in 0 .. n
    BY <1>1
  <2>2. x \in Seq(W) /\ Len(x) = i - 1 /\ \A k \in 1 .. i - 1 : x[k] = segs[k]
    BY <1>2, <1>4, <2>1
  <2>3. sorted[i] = InsertAt(x, Cardinality(K) + 1, w)
    BY <1>2
  <2>4. w \in W
    BY <1>1
  <2> HIDE DEF x, w
  <2>5. DOMAIN x = 1 .. i - 1
    BY <2>2
  <2>6. ASSUME NEW k \in 1 .. i - 1
        PROVE  x[k].s <= segs[i].s
    <3>1. k \in 1 .. n /\ i \in 1 .. n /\ k < i
      BY <1>1
    <3>2. segs[k].s <= segs[i].s
      BY <3>1
    <3>3. x[k] = segs[k]
      BY <2>2
    <3> QED
      BY <3>2, <3>3
  <2>7. K = 1 .. i - 1
    BY <2>5, <2>6
  <2>8. Cardinality(K) = i - 1
    <3>1. 1 \in Int /\ i - 1 \in Int
      BY <1>1
    <3>2. Cardinality(1 .. i - 1) = IF 1 > i - 1 THEN 0 ELSE (i - 1) - 1 + 1
      BY <3>1, FS_Interval
    <3> HIDE DEF K
    <3> QED
      BY <1>1, <2>7, <3>2
  <2> HIDE DEF K
  <2>9. sorted[i] = SubSeq(x, 1, i - 1) \o <<w>> \o SubSeq(x, i, i - 1)
    <3>1. Cardinality(K) + 1 = i /\ (Cardinality(K) + 1) - 1 = i - 1
      BY <1>1, <2>8
    <3>2. sorted[i] = InsertAt(x, i, w)
      BY <2>3, <3>1
    <3> QED
      BY <2>2, <3>2 DEF InsertAt
  <2>10. SubSeq(x, 1, i - 1) = x
    <3>1. SubSeq(x, 1, Len(x)) = x
      BY <2>2
    <3> QED
      BY <2>2, <3>1
  <2>11. SubSeq(x, i, i - 1) = <<>>
    <3>1. i > i - 1
      BY <1>1
    <3> QED
      BY <2>2, <3>1
  <2>12. sorted[i] = x \o <<w>>
    <3>1. x \o <<w>> \in Seq(W)
      BY <2>2, <2>4
    <3>2. (x \o <<w>>) \o <<>> = x \o <<w>>
      BY <3>1
    <3> QED
      BY <2>9, <2>10, <2>11, <3>2
  <2>13. Len(x \o <<w>>) = i /\ (x \o <<w>>)[i] = w /\ \A k \in 1 .. i - 1 : (x \o <<w>>)[k] = x[k]
    <3>1. x \o <<w>> = Append(x, w)
      BY <2>2, <2>4
    <3>2. Len(Append(x, w)) = i
      BY <2>2, <2>4
    <3>3. Append(x, w)[i] = w
      BY <2>2, <2>4
    <3>4. \A k \in 1 .. i - 1 : Append(x, w)[k] = x[k]
      BY <2>2, <2>4
    <3> QED
      BY <3>1, <3>2, <3>3, <3>4
  <2>14. \A k \in 1 .. i : k \in 1 .. i - 1 \/ k = i
    BY <1>1
  <2>15. Begins(sorted[i], i)
    BY <2>2, <2>12, <2>13, <2>14 DEF w
  <2> QED
    BY <2>1, <2>15
<1> HIDE DEF T, Begins
<1>5. \A i \in 0 .. n : i \in T
  BY <1>1, <1>3, <1>4, TurnByTurn
<1>6. Begins(sorted[n], n) /\ sorted[n] \in Seq(W)
  <2>1. n \in 0 .. n
    BY <1>1
  <2> QED
    BY <1>2, <1>5, <2>1 DEF T
<1> QED
  BY <1>1, <1>2, <1>6 DEF Begins

\* Segments that are apart do not touch.
LEMMA JoinedKept ==
    ASSUME NEW d \in Nat, NEW segs, Apart(segs, d)
    PROVE  JoinTouching(segs) = segs
<1> DEFINE n == Len(segs)
           More(x, g) == IF x # <<>> /\ g.s <= x[Len(x)].e
                         THEN [x EXCEPT ![Len(x)].e = Larger(@, g.e)]
                         ELSE Append(x, g)
           Turn(f, i) == IF i = 0 THEN <<>> ELSE More(f[i - 1], segs[i])
           Run(f) == f = [i \in 0 .. n |-> Turn(f, i)]
           Begin(i) == [k \in 1 .. i |-> segs[k]]
           f0 == [i \in 0 .. n |-> Begin(i)]
<1>1. segs \in Seq(Stretch) /\ n \in Nat /\ \A i \in 1 .. n : segs[i] \in Stretch
  BY ApartStretches
<1>2. JoinTouching(segs) = (CHOOSE f : Run(f))[n]
  BY DEF JoinTouching
<1> HIDE DEF n
<1>3. ASSUME NEW i \in 1 .. n
      PROVE  More(Begin(i - 1), segs[i]) = Begin(i)
  <2> DEFINE x == Begin(i - 1)
             w == segs[i]
  <2>1. \A k \in 1 .. i - 1 : k \in 1 .. n
    BY <1>1
  <2>2. x \in Seq(Stretch) /\ Len(x) = i - 1 /\ \A k \in 1 .. i - 1 : x[k] = segs[k]
    BY <1>1, <2>1
  <2>3. w \in Stretch
    BY <1>1
  <2> HIDE DEF x, w
  <2>4. ASSUME x # <<>>
        PROVE  ~ (w.s <= x[Len(x)].e)
    <3>1. i - 1 # 0
      BY <2>2, <2>4
    <3>2. i - 1 \in 1 .. n /\ i \in 1 .. n /\ i - 1 < i /\ i - 1 \in 1 .. i - 1
      BY <1>1, <3>1
    <3>3. segs[i - 1].e < segs[i].s
      BY <3>2 DEF Apart, n
    <3>4. segs[i - 1].e \in Nat /\ segs[i].s \in Nat
      BY <3>2, ApartStretches DEF n
    <3>5. x[Len(x)] = segs[i - 1]
      BY <2>2, <3>2
    <3>6. ~ (segs[i].s <= segs[i - 1].e)
      BY <3>3, <3>4
    <3> QED
      BY <3>5, <3>6 DEF w
  <2>5. More(x, w) = Append(x, w)
    BY <2>4
  <2>6. Append(x, w) \in Seq(Stretch) /\ Len(Append(x, w)) = i /\ Append(x, w)[i] = w
        /\ \A k \in 1 .. i - 1 : Append(x, w)[k] = x[k]
    BY <2>2, <2>3
  <2>7. \A k \in 1 .. i : k \in 1 .. i - 1 \/ k = i
    BY <1>1
  <2>8. \A k \in 1 .. i : Append(x, w)[k] = segs[k]
    BY <2>2, <2>6, <2>7 DEF w
  <2> DEFINE y == Append(x, w)
  <2>9. y \in Seq(Stretch) /\ Len(y) = i
    BY <2>6
  <2>10. \A k \in 1 .. i : y[k] = segs[k]
    BY <2>8
  <2> HIDE DEF y
  <2>12. y = [k \in 1 .. i |-> y[k]]
    BY <2>9
  <2>11. y = Begin(i)
    BY <2>10, <2>12
  <2> QED
    BY <2>5, <2>11 DEF y, x, w
<1>4. Begin(0) = <<>>
  BY 1 .. 0 = {}
<1> HIDE DEF More, Begin
<1>5. \A i \in 0 .. n : f0[i] = Begin(i)
  OBVIOUS
<1>6. ASSUME NEW i \in 0 .. n
      PROVE  f0[i] = Turn(f0, i)
  <2>1. CASE i = 0
    BY <1>4, <1>5, <2>1
  <2>2. CASE i # 0
    <3>1. i \in 1 .. n /\ i - 1 \in 0 .. n
      BY <1>1, <2>2
    <3> HIDE DEF f0
    <3>2. Turn(f0, i) = More(Begin(i - 1), segs[i])
      BY <1>5, <2>2, <3>1
    <3> QED
      BY <1>3, <1>5, <3>1, <3>2
  <2> QED
    BY <2>1, <2>2
<1>7. f0 = [i \in 0 .. n |-> f0[i]]
  OBVIOUS
<1> HIDE DEF f0, Turn
<1>8. Run(f0)
  BY <1>6, <1>7
<1> DEFINE h == CHOOSE f : Run(f)
<1>9. Run(h)
  BY <1>8
<1> HIDE DEF h
<1>10. \A i \in 0 .. n : h[i] = Turn(h, i)
  BY <1>9
<1> HIDE DEF Run
<1> DEFINE T == {i \in 0 .. n : h[i] = Begin(i)}
<1>11. 0 \in T
  <2>1. 0 \in 0 .. n
    BY <1>1
  <2> QED
    BY <1>4, <1>10, <2>1 DEF Turn
<1>12. ASSUME NEW i \in 1 .. n, i - 1 \in T
       PROVE  i \in T
  <2>1. i \in 0 .. n /\ i # 0 /\ h[i - 1] = Begin(i - 1)
    BY <1>1, <1>12
  <2>2. h[i] = More(h[i - 1], segs[i])
    BY <1>10, <2>1 DEF Turn
  <2> QED
    BY <1>3, <2>1, <2>2
<1> HIDE DEF T
<1>13. \A i \in 0 .. n : i \in T
  BY <1>1, <1>11, <1>12, TurnByTurn
<1>14. h[n] = Begin(n)
  <2>1. n \in T
    BY <1>1, <1>13
  <2> QED
    BY <2>1 DEF T
<1>15. Begin(n) = segs
  BY <1>1 DEF Begin, n
<1> QED
  BY <1>2, <1>14, <1>15 DEF h

\* Segments that are apart are as _normalize_speech_segments leaves them.
LEMMA SegmentsKept ==
    ASSUME NEW d \in Nat, NEW segs, Apart(segs, d)
    PROVE  Segments(segs, d) = segs
<1>1. PICK W : W = Stretch
  OBVIOUS
<1>2. segs \in Seq(W)
  BY <1>1, ApartStretches
<1>3. ASSUME NEW i \in 1 .. Len(segs), NEW k \in 1 .. Len(segs), k < i
      PROVE  segs[k].s <= segs[i].s
  <2>1. segs[k].s < segs[k].e /\ segs[k].e < segs[i].s
    BY <1>3, ApartStretches DEF Apart
  <2>2. segs[k].s \in Nat /\ segs[k].e \in Nat /\ segs[i].s \in Nat
    BY ApartStretches
  <2> QED
    BY <2>1, <2>2
<1>4. Sorted(segs) = segs
  BY <1>2, <1>3, SortedKept
<1> QED
  BY <1>4, ClippedKept, JoinedKept DEF Segments

\* A segment after the others.
LEMMA ApartAppended ==
    ASSUME NEW d \in Nat, NEW segs, Apart(segs, d), NEW g \in Stretch, g.e <= d,
           \A k \in 1 .. Len(segs) : segs[k].e < g.s
    PROVE  Apart(Append(segs, g), d)
<1> DEFINE n == Len(segs)
           all == Append(segs, g)
<1>1. segs \in Seq(Stretch) /\ n \in Nat
  BY DEF Apart
<1>2. all \in Seq(Stretch) /\ Len(all) = n + 1 /\ all[n + 1] = g
      /\ \A k \in 1 .. n : all[k] = segs[k]
  BY <1>1
<1> HIDE DEF all
<1>3. \A k \in 1 .. n + 1 : k \in 1 .. n \/ k = n + 1
  BY <1>1
<1>4. \A k \in 1 .. n + 1 : all[k].e <= d
  BY <1>2, <1>3 DEF Apart
<1>5. ASSUME NEW i \in 1 .. n + 1, NEW k \in 1 .. n + 1, k < i
      PROVE  all[k].e < all[i].s
  <2>1. k \in 1 .. n
    BY <1>1, <1>5
  <2>2. CASE i \in 1 .. n
    BY <1>2, <1>5, <2>1, <2>2 DEF Apart
  <2>3. CASE i = n + 1
    BY <1>2, <2>1, <2>3
  <2> QED
    BY <1>3, <2>2, <2>3
<1> QED
  BY <1>2, <1>4, <1>5 DEF Apart, all

LEMMA NoneApart == \A d \in Nat : Apart(<<>>, d)
<1>1. <<>> \in Seq(Stretch) /\ Len(<<>>) = 0
  OBVIOUS
<1> QED
  BY <1>1 DEF Apart

\* Some of them are apart as well.
LEMMA ThoseApart ==
    ASSUME NEW d \in Nat, NEW segs, Apart(segs, d), NEW T
    PROVE  Apart(Those(segs, T), d)
<1> DEFINE n == Len(segs)
<1>1. segs \in Seq(Stretch) /\ n \in Nat
  BY DEF Apart
<1>2. PICK kept \in [0 .. n -> Seq(Stretch \cap T)] :
         /\ Those(segs, T) = kept[n]
         /\ kept[0] = <<>>
         /\ \A i \in 1 .. n : kept[i] = IF segs[i] \in T THEN Append(kept[i - 1], segs[i])
                                        ELSE kept[i - 1]
  <2>1. PICK W : W = Stretch
    OBVIOUS
  <2>2. segs \in Seq(W)
    BY <1>1, <2>1
  <2>3. PICK kept \in [0 .. Len(segs) -> Seq(W \cap T)] : Keeping(kept, segs, T)
    BY <2>2, ThoseTurns
  <2> QED
    BY <2>1, <2>3 DEF Keeping
<1> DEFINE From(x, i) == \A k \in 1 .. Len(x) : \E j \in 1 .. i : x[k] = segs[j]
           Q == {i \in 0 .. n : Apart(kept[i], d) /\ From(kept[i], i)}
<1>3. 0 \in Q
  BY <1>1, <1>2, NoneApart
<1>4. ASSUME NEW i \in 1 .. n, i - 1 \in Q
      PROVE  i \in Q
  <2> DEFINE x == kept[i - 1]
             g == segs[i]
  <2>1. i \in 0 .. n /\ Apart(x, d) /\ From(x, i - 1)
    BY <1>1, <1>4
  <2>2. kept[i] = IF g \in T THEN Append(x, g) ELSE x
    BY <1>2
  <2>3. x \in Seq(Stretch)
    BY <2>1 DEF Apart
  <2>4. g \in Stretch /\ g.e <= d
    BY <1>1 DEF Apart
  <2> HIDE DEF x
  <2>5. CASE g \notin T
    <3>1. From(x, i)
      <4>1. 1 .. i - 1 \subseteq 1 .. i
        OBVIOUS
      <4> QED
        BY <2>1, <4>1
    <3> HIDE DEF From
    <3> QED
      BY <2>1, <2>2, <2>5, <3>1
  <2>6. CASE g \in T
    <3>1. ASSUME NEW k \in 1 .. Len(x)
          PROVE  x[k].e < g.s
      <4>1. PICK j \in 1 .. i - 1 : x[k] = segs[j]
        BY <2>1
      <4>2. j \in 1 .. n /\ j < i /\ i \in 1 .. n
        BY <1>1
      <4>3. segs[j].e < segs[i].s
        BY <4>2 DEF Apart
      <4> QED
        BY <4>1, <4>3
    <3> HIDE DEF g
    <3>2. Apart(Append(x, g), d)
      BY <2>1, <2>4, <3>1, ApartAppended
    <3>3. From(Append(x, g), i)
      <4>1. Len(Append(x, g)) = Len(x) + 1 /\ Append(x, g)[Len(x) + 1] = g
            /\ (\A k \in 1 .. Len(x) : Append(x, g)[k] = x[k]) /\ Len(x) \in Nat
        BY <2>3, <2>4
      <4> SUFFICES ASSUME NEW k \in 1 .. Len(x) + 1
                   PROVE  \E j \in 1 .. i : Append(x, g)[k] = segs[j]
        BY <4>1
      <4>2. CASE k = Len(x) + 1
        <5>1. i \in 1 .. i /\ Append(x, g)[k] = segs[i]
          BY <4>1, <4>2 DEF g
        <5> QED
          BY <5>1
      <4>3. CASE k \in 1 .. Len(x)
        <5>1. PICK j \in 1 .. i - 1 : x[k] = segs[j]
          BY <2>1, <4>3
        <5>2. j \in 1 .. i
          OBVIOUS
        <5>3. Append(x, g)[k] = x[k]
          BY <4>1, <4>3
        <5> QED
          BY <5>1, <5>2, <5>3
      <4> QED
        BY <4>1, <4>2, <4>3
    <3> HIDE DEF From
    <3> QED
      BY <2>1, <2>2, <2>6, <3>2, <3>3
  <2> QED
    BY <2>5, <2>6
<1> HIDE DEF Q
<1>5. \A i \in 0 .. n : i \in Q
  BY <1>1, <1>3, <1>4, TurnByTurn
<1>6. n \in Q
  BY <1>1, <1>5
<1> QED
  BY <1>2, <1>6 DEF Q

\* An event of the log of silencedetect.
Event == [kind : {"start", "end"}, at : Nat]

\* Silences within d.
Pauses(d) == {g \in Stretch : g.e <= d}

\* What has been read of a log: the start of an open silence, and the closed ones.
Reading(d) == [open : (0 .. d) \cup {None}, list : Seq(Pauses(d))]

\* One event more: x has been read before it.
ReadMore(x, event, d) ==
    LET t    == Smaller(d, event.at)
        from == IF x.open = None THEN 0 ELSE x.open
    IN  IF event.kind = "start" THEN [open |-> t, list |-> x.list]
        ELSE [open |-> None,
              list |-> IF t > from THEN Append(x.list, [s |-> from, e |-> t]) ELSE x.list]

\* Reading a log, event by event.
LEMMA ReadTurns ==
    ASSUME NEW log \in Seq(Event), NEW d \in Nat
    PROVE  \E read \in [0 .. Len(log) -> Reading(d)] :
              /\ ClosedSilences(log, d) = read[Len(log)]
              /\ read[0] = [open |-> None, list |-> <<>>]
              /\ \A k \in 1 .. Len(log) : read[k] = ReadMore(read[k - 1], log[k], d)
<1> DEFINE n == Len(log)
           S == Reading(d)
           More(x, k) ==
              LET t    == Smaller(d, log[k].at)
                  from == IF x.open = None THEN 0 ELSE x.open
              IN  IF log[k].kind = "start" THEN [x EXCEPT !.open = t]
                  ELSE [open |-> None,
                        list |-> IF t > from THEN Append(x.list, [s |-> from, e |-> t])
                                 ELSE x.list]
           none == [open |-> None, list |-> <<>>]
           Turn(f, k) == IF k = 0 THEN none ELSE More(f[k - 1], k)
           Run(f) == f = [k \in 0 .. n |-> Turn(f, k)]
           step == [k \in Nat |-> [x \in S |-> IF k \in 1 .. n THEN More(x, k) ELSE x]]
<1>1. n \in Nat /\ \A k \in 1 .. n : log[k] \in Event
  OBVIOUS
<1>2. ClosedSilences(log, d) = (CHOOSE f : Run(f))[n]
  BY DEF ClosedSilences
<1>3. None \notin Nat
  BY TimeAssumption
<1>4. none \in S
  BY DEF Reading
<1> HIDE DEF n, none
<1>5. ASSUME NEW x \in S, NEW k \in 1 .. n
      PROVE  More(x, k) \in S
  <2> DEFINE t == Smaller(d, log[k].at)
             from == IF x.open = None THEN 0 ELSE x.open
             new == [s |-> from, e |-> t]
  <2>1. log[k].at \in Nat
    BY <1>1 DEF Event
  <2>2. t \in 0 .. d
    BY <2>1 DEF Smaller
  <2>3. x.list \in Seq(Pauses(d)) /\ x.open \in (0 .. d) \cup {None}
        /\ x = [open |-> x.open, list |-> x.list]
    BY DEF Reading
  <2>4. from \in 0 .. d
    BY <2>3
  <2> HIDE DEF t, from
  <2>5. CASE log[k].kind = "start"
    <3>1. More(x, k) = [x EXCEPT !.open = t]
      BY <2>5 DEF t
    <3>2. [x EXCEPT !.open = t] = [open |-> t, list |-> x.list]
      BY <2>3
    <3>3. [open |-> t, list |-> x.list] \in S
      BY <2>2, <2>3 DEF Reading
    <3> QED
      BY <3>1, <3>2, <3>3
  <2>6. CASE log[k].kind # "start"
    <3> DEFINE list == IF t > from THEN Append(x.list, new) ELSE x.list
    <3>1. More(x, k) = [open |-> None, list |-> list]
      BY <2>6 DEF t, from
    <3>2. t > from => new \in Pauses(d)
      BY <2>2, <2>4 DEF Pauses, Stretch
    <3> HIDE DEF new
    <3>3. list \in Seq(Pauses(d))
      BY <2>3, <3>2
    <3> HIDE DEF list
    <3>4. [open |-> None, list |-> list] \in S
      BY <3>3 DEF Reading
    <3> QED
      BY <3>1, <3>4
  <2> QED
    BY <2>5, <2>6
<1> HIDE DEF More, S
<1>6. step \in [Nat -> [S -> S]]
  BY <1>5
<1> HIDE DEF step
<1>7. PICK g \in [0 .. n -> S] : IsRun(g, none, step, n)
  BY <1>1, <1>4, <1>6, Recursion
<1>8. ASSUME NEW k \in 0 .. n
      PROVE  g[k] = Turn(g, k)
  <2>1. CASE k = 0
    BY <1>7, <2>1 DEF IsRun
  <2>2. CASE k # 0
    <3>1. k \in Nat /\ k - 1 \in 0 .. n /\ k \in 1 .. n
      BY <1>1, <2>2
    <3>2. g[k] = step[k][g[k - 1]] /\ g[k - 1] \in S
      BY <1>7, <3>1 DEF IsRun
    <3> QED
      BY <2>2, <3>1, <3>2 DEF step
  <2> QED
    BY <2>1, <2>2
<1> HIDE DEF Turn
<1>9. Run(g)
  <2>1. g = [k \in 0 .. n |-> g[k]]
    BY <1>7
  <2> QED
    BY <1>8, <2>1
<1> DEFINE h == CHOOSE f : Run(f)
<1>10. Run(h)
  BY <1>9
<1> HIDE DEF h
<1>11. h = [k \in 0 .. n |-> Turn(h, k)]
  BY <1>10
<1>12. \A k \in 0 .. n : h[k] = Turn(h, k)
  BY <1>10
<1> HIDE DEF Run
<1>13. h[0] = none /\ \A k \in 1 .. n : h[k] = More(h[k - 1], k)
  <2>1. 0 \in 0 .. n /\ \A k \in 1 .. n : k \in 0 .. n /\ k # 0
    BY <1>1
  <2> QED
    BY <1>12, <2>1 DEF Turn
<1>14. \A k \in 0 .. n : h[k] \in S
  <2>1. \A k \in 1 .. n : h[k - 1] \in S => h[k] \in S
    BY <1>5, <1>13
  <2>2. h[0] \in S
    BY <1>4, <1>13
  <2> QED
    BY <1>1, <2>1, <2>2, RunType
<1>15. h \in [0 .. n -> S]
  <2>1. \A k \in 0 .. n : Turn(h, k) \in S
    BY <1>12, <1>14
  <2> QED
    BY <1>11, <2>1
<1>16. \A k \in 1 .. n : h[k] = ReadMore(h[k - 1], log[k], d)
  <2> SUFFICES ASSUME NEW k \in 1 .. n
               PROVE  More(h[k - 1], k) = ReadMore(h[k - 1], log[k], d)
    BY <1>13
  <2>1. h[k - 1] \in S
    <3>1. k - 1 \in 0 .. n
      BY <1>1
    <3> QED
      BY <1>14, <3>1
  <2> DEFINE x == h[k - 1]
  <2>2. x = [open |-> x.open, list |-> x.list]
    BY <2>1 DEF Reading, S
  <2> HIDE DEF x
  <2>3. \A t : [x EXCEPT !.open = t] = [open |-> t, list |-> x.list]
    BY <2>2
  <2> QED
    BY <2>3 DEF More, ReadMore, x
<1>17. ClosedSilences(log, d) = h[n]
  BY <1>2 DEF h
<1> QED
  BY <1>13, <1>15, <1>16, <1>17 DEF n, S, none

\* The log gives silences of some length within the recording.
LEMMA SilencesType ==
    ASSUME NEW log \in Seq(Event), NEW d \in Nat
    PROVE  Silences(log, d) \in Seq(Pauses(d))
<1> DEFINE read == ClosedSilences(log, d)
<1>1. read \in Reading(d)
  <2>1. Len(log) \in 0 .. Len(log)
    OBVIOUS
  <2> QED
    BY <2>1, ReadTurns
<1>2. Silences(log, d) = IF read.open # None /\ read.open < d
                          THEN Append(read.list, [s |-> read.open, e |-> d])
                          ELSE read.list
  BY DEF Silences
<1> HIDE DEF read
<1>3. read.list \in Seq(Pauses(d)) /\ read.open \in (0 .. d) \cup {None}
  BY <1>1 DEF Reading
<1>4. CASE read.open # None /\ read.open < d
  <2>1. read.open \in Nat
    BY <1>3, <1>4
  <2>2. [s |-> read.open, e |-> d] \in Pauses(d)
    BY <1>4, <2>1 DEF Pauses, Stretch
  <2> QED
    BY <1>2, <1>3, <1>4, <2>2
<1>5. CASE ~ (read.open # None /\ read.open < d)
  BY <1>2, <1>3, <1>5
<1> QED
  BY <1>4, <1>5

\* What has been swept of a recording: the time up to which, and the loud stretches
\* before it.
Sweeping(d) ==
    {x \in [at : 0 .. d, list : Seq(Stretch)] :
        Apart(x.list, d) /\ \A k \in 1 .. Len(x.list) : x.list[k].e < x.at}

\* One silence more: x has been swept before it.
SweepMore(x, g) ==
    LET t == Larger(x.at, g.s)
    IN  [at   |-> Larger(x.at, g.e),
         list |-> IF t > x.at THEN Append(x.list, [s |-> x.at, e |-> t]) ELSE x.list]

\* What follows the last silence is loud.
Rest(x, d) ==
    IF x.at < d THEN Append(x.list, [s |-> x.at, e |-> d]) ELSE x.list

\* Sweeping over the silences, one by one.
LEMMA SweptTurns ==
    ASSUME NEW d \in Nat, NEW silences \in Seq(Pauses(d))
    PROVE  LET order == Sorted(silences)
               n == Len(order)
           IN  /\ order \in Seq(Pauses(d))
               /\ \E swept \in [0 .. n -> Sweeping(d)] :
                     /\ Between(silences, d) = Rest(swept[n], d)
                     /\ swept[0] = [at |-> 0, list |-> <<>>]
                     /\ \A k \in 1 .. n : swept[k] = SweepMore(swept[k - 1], order[k])
<1> DEFINE order == Sorted(silences)
           n == Len(order)
           S == Sweeping(d)
           More(x, k) == SweepMore(x, order[k])
           none == [at |-> 0, list |-> <<>>]
           Turn(f, k) == IF k = 0 THEN none ELSE More(f[k - 1], k)
           Run(f) == f = [k \in 0 .. n |-> Turn(f, k)]
           step == [k \in Nat |-> [x \in S |-> IF k \in 1 .. n THEN More(x, k) ELSE x]]
           all == (CHOOSE f : Run(f))[n]
<1>1. order \in Seq(Pauses(d))
  BY SortedType
<1>2. Between(silences, d) = Rest(all, d)
  BY DEF Between, SweepMore, Rest
<1> HIDE DEF order
<1>3. n \in Nat /\ \A k \in 1 .. n : order[k] \in Pauses(d)
  BY <1>1
<1>4. none \in S
  <2>1. <<>> \in Seq(Stretch) /\ Len(<<>>) = 0
    OBVIOUS
  <2>2. Apart(none.list, d) /\ Len(none.list) = 0
    BY <2>1, NoneApart
  <2>3. none \in [at : 0 .. d, list : Seq(Stretch)]
    BY <2>1
  <2> HIDE DEF none
  <2> QED
    BY <2>2, <2>3 DEF Sweeping
<1> HIDE DEF n, none
<1>5. ASSUME NEW x \in S, NEW k \in 1 .. n
      PROVE  More(x, k) \in S
  <2> DEFINE from == x.at
             list == x.list
             g == order[k]
             t == Larger(from, g.s)
             to == Larger(from, g.e)
             new == [s |-> from, e |-> t]
             next == IF t > from THEN Append(list, new) ELSE list
  <2>1. /\ from \in 0 .. d /\ list \in Seq(Stretch) /\ Apart(list, d)
        /\ \A j \in 1 .. Len(list) : list[j].e < from
    BY DEF Sweeping
  <2>2. g.s \in Nat /\ g.e \in Nat /\ g.s < g.e /\ g.e <= d
    <3>1. g \in Pauses(d)
      BY <1>3
    <3> HIDE DEF g
    <3> QED
      BY <3>1 DEF Pauses, Stretch
  <2>3. More(x, k) = [at |-> to, list |-> next]
    BY DEF SweepMore
  <2> HIDE DEF from, list, g
  <2>4. to \in 0 .. d /\ from <= to /\ g.e <= to
    BY <2>1, <2>2 DEF Larger
  <2>5. \A j \in 1 .. Len(list) : list[j].e \in Nat /\ list[j].e < to
    <3>1. \A j \in 1 .. Len(list) : list[j].e \in Nat
      BY <2>1, ApartStretches
    <3> HIDE DEF to
    <3> QED
      BY <2>1, <2>4, <3>1
  <2>6. CASE t > from
    <3>1. t = g.s
      BY <2>1, <2>2, <2>6 DEF Larger
    <3>2. new \in Stretch /\ new.e <= d /\ new.s = from /\ new.e = g.s
      BY <2>1, <2>2, <2>6, <3>1 DEF Stretch
    <3>3. next = Append(list, new)
      BY <2>6
    <3> HIDE DEF new, next, to
    <3>4. \A j \in 1 .. Len(list) : list[j].e < new.s
      BY <2>1, <3>2
    <3>5. Apart(next, d)
      BY <2>1, <3>2, <3>3, <3>4, ApartAppended
    <3>6. next \in Seq(Stretch) /\ Len(next) = Len(list) + 1 /\ next[Len(list) + 1] = new
          /\ (\A j \in 1 .. Len(list) : next[j] = list[j]) /\ Len(list) \in Nat
      BY <2>1, <3>2, <3>3
    <3>7. \A j \in 1 .. Len(list) + 1 : j \in 1 .. Len(list) \/ j = Len(list) + 1
      BY <3>6
    <3>8. new.e < to
      BY <2>2, <2>4, <3>2
    <3>9. \A j \in 1 .. Len(next) : next[j].e < to
      BY <2>5, <3>6, <3>7, <3>8
    <3> QED
      BY <2>3, <2>4, <3>5, <3>6, <3>9 DEF Sweeping
  <2>7. CASE ~ (t > from)
    <3>1. next = list
      BY <2>7
    <3> HIDE DEF next, to
    <3> QED
      BY <2>1, <2>3, <2>4, <2>5, <3>1 DEF Sweeping
  <2> QED
    BY <2>6, <2>7
<1> HIDE DEF More, S
<1>6. step \in [Nat -> [S -> S]]
  BY <1>5
<1> HIDE DEF step
<1>7. PICK g \in [0 .. n -> S] : IsRun(g, none, step, n)
  BY <1>3, <1>4, <1>6, Recursion
<1>8. ASSUME NEW k \in 0 .. n
      PROVE  g[k] = Turn(g, k)
  <2>1. CASE k = 0
    BY <1>7, <2>1 DEF IsRun
  <2>2. CASE k # 0
    <3>1. k \in Nat /\ k - 1 \in 0 .. n /\ k \in 1 .. n
      BY <1>3, <2>2
    <3>2. g[k] = step[k][g[k - 1]] /\ g[k - 1] \in S
      BY <1>7, <3>1 DEF IsRun
    <3> QED
      BY <2>2, <3>1, <3>2 DEF step
  <2> QED
    BY <2>1, <2>2
<1> HIDE DEF Turn
<1>9. Run(g)
  <2>1. g = [k \in 0 .. n |-> g[k]]
    BY <1>7
  <2> QED
    BY <1>8, <2>1
<1> DEFINE h == CHOOSE f : Run(f)
<1>10. Run(h)
  BY <1>9
<1>11. all = h[n]
  OBVIOUS
<1> HIDE DEF h, all
<1>12. h = [k \in 0 .. n |-> Turn(h, k)] /\ \A k \in 0 .. n : h[k] = Turn(h, k)
  BY <1>10
<1> HIDE DEF Run
<1>13. h[0] = none /\ \A k \in 1 .. n : h[k] = More(h[k - 1], k)
  <2>1. 0 \in 0 .. n /\ \A k \in 1 .. n : k \in 0 .. n /\ k # 0
    BY <1>3
  <2> QED
    BY <1>12, <2>1 DEF Turn
<1>14. \A k \in 0 .. n : h[k] \in S
  <2>1. \A k \in 1 .. n : h[k - 1] \in S => h[k] \in S
    BY <1>5, <1>13
  <2>2. h[0] \in S
    BY <1>4, <1>13
  <2> QED
    BY <1>3, <2>1, <2>2, RunType
<1>15. h \in [0 .. n -> S]
  <2>1. \A k \in 0 .. n : Turn(h, k) \in S
    BY <1>12, <1>14
  <2> QED
    BY <1>12, <2>1
<1>16. \A k \in 1 .. n : h[k] = SweepMore(h[k - 1], order[k])
  BY <1>13 DEF More
<1>17. Between(silences, d) = Rest(h[n], d)
  BY <1>2, <1>11
<1> QED
  BY <1>1, <1>13, <1>15, <1>16, <1>17 DEF n, S, none, order

\* What is left between silences is apart.
LEMMA BetweenApart ==
    ASSUME NEW d \in Nat, NEW silences \in Seq(Pauses(d))
    PROVE  Apart(Between(silences, d), d)
<1>1. PICK all \in Sweeping(d) : Between(silences, d) = Rest(all, d)
  <2> DEFINE n == Len(Sorted(silences))
  <2>1. Sorted(silences) \in Seq(Pauses(d))
    BY SweptTurns
  <2>2. n \in 0 .. n
    BY <2>1
  <2> HIDE DEF n
  <2>3. \E swept \in [0 .. n -> Sweeping(d)] : Between(silences, d) = Rest(swept[n], d)
    BY SweptTurns DEF n
  <2> QED
    BY <2>2, <2>3
<1>2. /\ all.at \in 0 .. d /\ Apart(all.list, d)
      /\ \A k \in 1 .. Len(all.list) : all.list[k].e < all.at
  BY DEF Sweeping
<1>3. CASE all.at < d
  <2> DEFINE new == [s |-> all.at, e |-> d]
  <2>1. new \in Stretch /\ new.e <= d /\ new.s = all.at
    BY <1>2, <1>3 DEF Stretch
  <2> HIDE DEF new
  <2>2. Apart(Append(all.list, new), d)
    BY <1>2, <2>1, ApartAppended
  <2> QED
    BY <1>1, <1>3, <2>2 DEF new, Rest
<1>4. CASE ~ (all.at < d)
  BY <1>1, <1>2, <1>4 DEF Rest
<1> QED
  BY <1>3, <1>4

\* The time t lies in one of the stretches.
Lies(t, segs) == \E i \in 1 .. Len(segs) : segs[i].s <= t /\ t < segs[i].e

LEMMA LiesAppended ==
    ASSUME NEW W, NEW segs \in Seq(W), NEW g \in W, NEW t
    PROVE  Lies(t, Append(segs, g)) <=> Lies(t, segs) \/ (g.s <= t /\ t < g.e)
<1> DEFINE n == Len(segs)
           all == Append(segs, g)
<1>1. n \in Nat /\ Len(all) = n + 1 /\ all[n + 1] = g /\ \A i \in 1 .. n : all[i] = segs[i]
  OBVIOUS
<1> HIDE DEF n, all
<1>2. n + 1 \in 1 .. n + 1 /\ 1 .. n \subseteq 1 .. n + 1
      /\ \A i \in 1 .. n + 1 : i \in 1 .. n \/ i = n + 1
  BY <1>1
<1>3. ASSUME Lies(t, all)
      PROVE  Lies(t, segs) \/ (g.s <= t /\ t < g.e)
  <2>1. PICK i \in 1 .. n + 1 : all[i].s <= t /\ t < all[i].e
    BY <1>1, <1>3 DEF Lies
  <2>2. CASE i \in 1 .. n
    <3>1. all[i] = segs[i]
      BY <1>1, <2>2
    <3> QED
      BY <2>1, <2>2, <3>1 DEF Lies, n
  <2>3. CASE i = n + 1
    BY <1>1, <2>1, <2>3
  <2> QED
    BY <1>2, <2>2, <2>3
<1>4. ASSUME Lies(t, segs)
      PROVE  Lies(t, all)
  <2>1. PICK i \in 1 .. n : segs[i].s <= t /\ t < segs[i].e
    BY <1>4 DEF Lies, n
  <2>2. i \in 1 .. Len(all) /\ all[i] = segs[i]
    BY <1>1, <1>2
  <2> QED
    BY <2>1, <2>2 DEF Lies
<1>5. ASSUME g.s <= t, t < g.e
      PROVE  Lies(t, all)
  <2>1. n + 1 \in 1 .. Len(all) /\ all[n + 1] = g
    BY <1>1, <1>2
  <2> QED
    BY <1>5, <2>1 DEF Lies
<1> QED
  BY <1>3, <1>4, <1>5 DEF all

\* Times that follow one another lie in one of the segments, since there is a gap
\* between two of them.
LEMMA LieTogether ==
    ASSUME NEW d \in Nat, NEW segs, Apart(segs, d), NEW t \in Nat, NEW u \in Nat, t <= u,
           \A v \in t .. u : Lies(v, segs)
    PROVE  \E g \in 1 .. Len(segs) : segs[g].s <= t /\ u + 1 <= segs[g].e
<1> DEFINE n == Len(segs)
<1>1. n \in Nat /\ \A g \in 1 .. n : segs[g].s \in Nat /\ segs[g].e \in Nat
  <2>1. segs \in Seq(Stretch)
    BY DEF Apart
  <2>2. \A g \in 1 .. Len(segs) : segs[g].s \in Nat /\ segs[g].e \in Nat
    BY ApartStretches
  <2> QED
    BY <2>1, <2>2
<1>2. \A i, k \in 1 .. n : k < i => segs[k].e < segs[i].s
  BY DEF Apart
<1>3. PICK g \in 1 .. n : segs[g].s <= t /\ t < segs[g].e
  <2>1. t \in t .. u
    OBVIOUS
  <2> QED
    BY <2>1 DEF Lies
<1>4. ASSUME segs[g].e <= u
      PROVE  FALSE
  <2> DEFINE v == segs[g].e
  <2>1. v \in t .. u
    BY <1>1, <1>3, <1>4
  <2>2. PICK h \in 1 .. n : segs[h].s <= v /\ v < segs[h].e
    BY <2>1 DEF Lies
  <2>3. CASE h < g
    <3>1. segs[h].e < segs[g].s
      BY <1>2, <2>3
    <3> QED
      BY <1>1, <1>3, <2>2, <3>1
  <2>4. CASE g < h
    <3>1. segs[g].e < segs[h].s
      BY <1>2, <2>4
    <3> QED
      BY <1>1, <2>2, <3>1
  <2>5. CASE g = h
    BY <1>1, <2>2, <2>5
  <2> QED
    BY <1>1, <2>3, <2>4, <2>5
<1>5. u + 1 <= segs[g].e
  BY <1>1, <1>4
<1> QED
  BY <1>3, <1>5

\* They are in the order of their starts.
Ordered(segs) == \A i, k \in 1 .. Len(segs) : k < i => segs[k].s <= segs[i].s

\* What is swept is loud where the silences are not.
LEMMA BetweenIsLoud ==
    ASSUME NEW d \in Nat, NEW silences \in Seq(Pauses(d)), Ordered(silences),
           NEW t \in Nat, t < d
    PROVE  Lies(t, Between(silences, d)) <=> ~ Lies(t, silences)
<1> DEFINE n == Len(silences)
           Off(i) == silences[i].s <= t /\ t < silences[i].e
<1>1. n \in Nat
  OBVIOUS
<1>2. ASSUME NEW i \in 1 .. n
      PROVE  silences[i].s \in Nat /\ silences[i].e \in Nat /\ silences[i].s < silences[i].e
  <2>1. silences[i] \in Pauses(d)
    OBVIOUS
  <2> QED
    BY <2>1 DEF Pauses, Stretch
<1>3. Sorted(silences) = silences
  <2>1. PICK W : W = Pauses(d)
    OBVIOUS
  <2>2. silences \in Seq(W)
    BY <2>1
  <2> QED
    BY <2>2, SortedKept DEF Ordered
<1>4. PICK swept \in [0 .. n -> Sweeping(d)] :
         /\ Between(silences, d) = Rest(swept[n], d)
         /\ swept[0] = [at |-> 0, list |-> <<>>]
         /\ \A k \in 1 .. n : swept[k] = SweepMore(swept[k - 1], silences[k])
  BY <1>3, SweptTurns
<1>5. Lies(t, silences) <=> \E i \in 1 .. n : Off(i)
  BY DEF Lies
<1> HIDE DEF n
<1> DEFINE Past(x, k) == \A i \in 1 .. k : silences[i].e <= x.at
           Known(x) == t < x.at => (Lies(t, x.list) <=> ~ Lies(t, silences))
           T == {k \in 0 .. n : Past(swept[k], k) /\ Known(swept[k])}
<1>6. 0 \in T
  <2>1. swept[0].at = 0 /\ 0 \in 0 .. n
    BY <1>1, <1>4
  <2>2. ~ (t < 0)
    OBVIOUS
  <2> QED
    BY <2>1, <2>2
<1>7. ASSUME NEW x \in Sweeping(d)
      PROVE  /\ x.at \in 0 .. d /\ x.list \in Seq(Stretch)
             /\ Lies(t, x.list) => t < x.at
  <2>1. /\ x.at \in 0 .. d /\ x.list \in Seq(Stretch)
        /\ \A i \in 1 .. Len(x.list) : x.list[i].e < x.at
    BY DEF Sweeping
  <2>2. ASSUME NEW i \in 1 .. Len(x.list), t < x.list[i].e
        PROVE  t < x.at
    <3>1. x.list[i].e \in Nat
      <4>1. x.list[i] \in Stretch
        BY <2>1
      <4> QED
        BY <4>1 DEF Stretch
    <3>2. x.list[i].e < x.at
      BY <2>1
    <3> DEFINE a == x.list[i].e
               b == x.at
    <3>3. a \in Nat /\ b \in Nat /\ t < a /\ a < b
      BY <2>1, <2>2, <3>1, <3>2
    <3> HIDE DEF a, b
    <3>4. t < b
      BY <3>3
    <3> QED
      BY <3>4 DEF b
  <2> QED
    BY <2>1, <2>2 DEF Lies
<1>8. ASSUME NEW k \in 1 .. n, k - 1 \in T
      PROVE  k \in T
  <2> DEFINE x == swept[k - 1]
             y == swept[k]
             g == silences[k]
             a == x.at
             new == [s |-> a, e |-> Larger(a, g.s)]
  <2>1. k \in 0 .. n /\ k - 1 \in 0 .. n /\ Past(x, k - 1) /\ Known(x)
    BY <1>1, <1>8
  <2>2. x \in Sweeping(d) /\ y = SweepMore(x, g)
    BY <1>4, <2>1
  <2>3. g.s \in Nat /\ g.e \in Nat /\ g.s < g.e
    BY <1>2
  <2> HIDE DEF T, Past, Known
  <2>4. a \in Nat /\ x.list \in Seq(Stretch) /\ (Lies(t, x.list) => t < a)
    BY <1>7, <2>2
  <2>5. y.at = Larger(a, g.e)
        /\ y.list = IF Larger(a, g.s) > a THEN Append(x.list, new) ELSE x.list
    BY <2>2 DEF SweepMore
  <2> HIDE DEF x, y, g, a
  <2>6. y.at \in Nat /\ a <= y.at /\ g.e <= y.at /\ (y.at = a \/ y.at = g.e)
    BY <2>3, <2>4, <2>5 DEF Larger
  <2>7. Lies(t, y.list) <=> Lies(t, x.list) \/ (a <= t /\ t < g.s)
    <3>1. CASE g.s > a
      <4>1. new = [s |-> a, e |-> g.s] /\ y.list = Append(x.list, new)
        BY <2>3, <2>4, <2>5, <3>1 DEF Larger
      <4>2. new \in Stretch /\ new.s = a /\ new.e = g.s
        BY <2>3, <2>4, <3>1, <4>1 DEF Stretch
      <4> HIDE DEF new
      <4>3. PICK W : W = Stretch
        OBVIOUS
      <4>4. x.list \in Seq(W) /\ new \in W
        BY <2>4, <4>2, <4>3
      <4> QED
        BY <4>1, <4>2, <4>4, LiesAppended
    <3>2. CASE ~ (g.s > a)
      <4>1. y.list = x.list
        BY <2>3, <2>4, <2>5, <3>2 DEF Larger
      <4>2. ~ (a <= t /\ t < g.s)
        BY <2>3, <2>4, <3>2
      <4> QED
        BY <4>1, <4>2
    <3> QED
      BY <3>1, <3>2
  <2>8. Past(y, k)
    <3> SUFFICES ASSUME NEW i \in 1 .. k
                 PROVE  silences[i].e <= y.at
      BY DEF Past
    <3>1. CASE i = k
      BY <2>6, <3>1 DEF g
    <3>2. CASE i # k
      <4>1. i \in 1 .. k - 1 /\ i \in 1 .. n
        BY <1>1, <3>2
      <4>2. silences[i].e <= a /\ silences[i].e \in Nat
        BY <1>2, <2>1, <4>1 DEF Past, a
      <4> QED
        BY <2>4, <2>6, <4>2
    <3> QED
      BY <3>1, <3>2
  <2>9. Known(y)
    <3> SUFFICES ASSUME t < y.at
                 PROVE  Lies(t, y.list) <=> ~ Lies(t, silences)
      BY DEF Known
    <3>1. CASE t < a
      <4>1. ~ (a <= t)
        BY <2>4, <3>1
      <4>2. Lies(t, x.list) <=> ~ Lies(t, silences)
        BY <2>1, <3>1 DEF Known, a
      <4> QED
        BY <2>7, <4>1, <4>2
    <3>2. CASE a <= t /\ t < g.s
      <4>1. Lies(t, y.list)
        BY <2>7, <3>2
      <4>2. ASSUME NEW i \in 1 .. n, Off(i)
            PROVE  FALSE
        <5>1. CASE i < k
          <6>1. i \in 1 .. k - 1
            BY <1>1, <5>1
          <6>2. silences[i].e <= a
            BY <2>1, <6>1 DEF Past, a
          <6> QED
            BY <1>2, <2>4, <3>2, <4>2, <6>2
        <5>2. CASE i = k
          BY <2>3, <3>2, <4>2, <5>2 DEF g
        <5>3. CASE k < i
          <6>1. g.s <= silences[i].s
            BY <5>3 DEF Ordered, g, n
          <6> QED
            BY <1>2, <2>3, <3>2, <4>2, <6>1
        <5> QED
          BY <1>1, <5>1, <5>2, <5>3
      <4> QED
        BY <1>5, <4>1, <4>2
    <3>3. CASE a <= t /\ ~ (t < g.s)
      <4>1. y.at = g.e
        BY <2>4, <2>6, <3>3
      <4>2. Off(k)
        BY <2>3, <3>3, <4>1 DEF g
      <4>3. ~ (t < a)
        BY <2>4, <3>3
      <4> QED
        BY <1>5, <2>4, <2>7, <3>3, <4>2, <4>3
    <3> QED
      BY <2>4, <3>1, <3>2, <3>3
  <2> QED
    BY <2>1, <2>8, <2>9 DEF T, y
<1>9. n \in T
  <2> HIDE DEF T
  <2>1. \A k \in 0 .. n : k \in T
    BY <1>1, <1>6, <1>8, TurnByTurn
  <2> QED
    BY <1>1, <2>1
<1> DEFINE x == swept[n]
<1>10. /\ x \in Sweeping(d) /\ Past(x, n) /\ Known(x)
       /\ Between(silences, d) = Rest(x, d)
  BY <1>1, <1>4, <1>9
<1> HIDE DEF x, T
<1>11. x.at \in 0 .. d /\ x.list \in Seq(Stretch) /\ (Lies(t, x.list) => t < x.at)
  BY <1>7, <1>10
<1>12. CASE x.at < d
  <2> DEFINE new == [s |-> x.at, e |-> d]
  <2>1. new \in Stretch /\ new.s = x.at /\ new.e = d
    BY <1>11, <1>12 DEF Stretch
  <2>2. Rest(x, d) = Append(x.list, new)
    BY <1>12 DEF Rest
  <2> HIDE DEF new
  <2>3. Lies(t, Rest(x, d)) <=> Lies(t, x.list) \/ x.at <= t
    <3>1. PICK W : W = Stretch
      OBVIOUS
    <3>2. x.list \in Seq(W) /\ new \in W
      BY <1>11, <2>1, <3>1
    <3>3. Lies(t, Append(x.list, new)) <=> Lies(t, x.list) \/ (new.s <= t /\ t < new.e)
      BY <3>2, LiesAppended
    <3> QED
      BY <2>1, <2>2, <3>3
  <2>4. CASE t < x.at
    <3>1. ~ (x.at <= t)
      BY <1>11, <2>4
    <3> QED
      BY <1>10, <2>3, <2>4, <3>1
  <2>5. CASE x.at <= t
    <3>1. ASSUME NEW i \in 1 .. n, Off(i)
          PROVE  FALSE
      <4>1. silences[i].e <= x.at
        BY <1>10
      <4> QED
        BY <1>2, <1>11, <2>5, <3>1, <4>1
    <3> QED
      BY <1>5, <1>10, <2>3, <2>5, <3>1
  <2> QED
    BY <1>11, <2>4, <2>5
<1>13. CASE ~ (x.at < d)
  <2>1. t < x.at
    BY <1>11, <1>13
  <2>2. Rest(x, d) = x.list
    BY <1>13 DEF Rest
  <2> QED
    BY <1>10, <2>1, <2>2
<1> QED
  BY <1>12, <1>13

\* The time t lies in the silence that the event k of the log begins (the beginning of
\* the recording, for k = 0, when the log begins with an end).
QuietFrom(k, log, d, t) ==
    /\ IF k = 0 THEN Len(log) > 0 /\ log[1].kind = "end" ELSE log[k].kind = "start"
    /\ (IF k = 0 THEN 0 ELSE log[k].at) <= t
    /\ t < (IF k = Len(log) THEN d ELSE Smaller(d, log[k + 1].at))

\* What a log gives as silences is in order, and it is what is silent.
LEMMA SilencesAreQuiet ==
    ASSUME NEW log \in Seq(Event), InTurn(log), NEW d \in Nat, NEW t \in Nat, t < d
    PROVE  /\ Ordered(Silences(log, d))
           /\ Lies(t, Silences(log, d)) <=> \E k \in 0 .. Len(log) : QuietFrom(k, log, d, t)
<1> DEFINE n == Len(log)
           Quiet(k) == QuietFrom(k, log, d, t)
           Bound(k) == IF k = 0 THEN 0 ELSE Smaller(d, log[k].at)
           Open(k) == k > 0 /\ log[k].kind = "start"
           Good(x, k) ==
              /\ x.open = IF Open(k) THEN Bound(k) ELSE None
              /\ Lies(t, x.list) <=> \E i \in 0 .. k - 1 : Quiet(i)
              /\ Ordered(x.list)
              /\ \A i \in 1 .. Len(x.list) : x.list[i].s <= Bound(k)
<1>1. n \in Nat
  OBVIOUS
<1>2. PICK read \in [0 .. n -> Reading(d)] :
         /\ ClosedSilences(log, d) = read[n]
         /\ read[0] = [open |-> None, list |-> <<>>]
         /\ \A k \in 1 .. n : read[k] = ReadMore(read[k - 1], log[k], d)
  BY ReadTurns
<1>3. ASSUME NEW k \in 1 .. n
      PROVE  log[k].at \in Nat /\ log[k].kind \in {"start", "end"}
  <2>1. log[k] \in Event
    OBVIOUS
  <2> QED
    BY <2>1 DEF Event
<1>4. None \notin Nat
  BY TimeAssumption
<1>5. ASSUME NEW k \in 0 .. n
      PROVE  Bound(k) \in 0 .. d
  <2>1. CASE k = 0
    BY <2>1
  <2>2. CASE k # 0
    <3>1. log[k].at \in Nat
      BY <1>1, <1>3, <2>2
    <3> QED
      BY <2>2, <3>1 DEF Smaller
  <2> QED
    BY <2>1, <2>2
<1>6. ASSUME NEW k \in 1 .. n
      PROVE  Bound(k - 1) <= Bound(k)
  <2>1. CASE k = 1
    <3>1. Bound(k) \in Nat /\ Bound(k - 1) = 0
      BY <1>1, <1>5, <2>1
    <3> QED
      BY <3>1
  <2>2. CASE k # 1
    <3>1. k \in 2 .. n /\ k - 1 \in 1 .. n /\ k - 1 # 0 /\ k # 0
      BY <1>1, <2>2
    <3>2. log[k - 1].at <= log[k].at /\ log[k - 1].at \in Nat /\ log[k].at \in Nat
      BY <1>3, <3>1 DEF InTurn
    <3>3. Smaller(d, log[k - 1].at) <= Smaller(d, log[k].at)
      BY <3>2 DEF Smaller
    <3> QED
      BY <3>1, <3>3
  <2> QED
    BY <2>1, <2>2
<1>7. ASSUME NEW k \in 1 .. n, log[k].kind = "start"
      PROVE  ~ Quiet(k - 1)
  <2>1. CASE k = 1
    <3>1. k - 1 = 0 /\ log[1].kind # "end"
      BY <1>7, <2>1
    <3> QED
      BY <3>1 DEF QuietFrom
  <2>2. CASE k # 1
    <3>1. k \in 2 .. n /\ k - 1 # 0
      BY <1>1, <2>2
    <3>2. log[k - 1].kind # "start"
      BY <1>7, <3>1 DEF InTurn
    <3> QED
      BY <3>1, <3>2 DEF QuietFrom
  <2> QED
    BY <2>1, <2>2
<1>8. ASSUME NEW k \in 1 .. n, log[k].kind = "end"
      PROVE  /\ Quiet(k - 1) <=> Bound(k - 1) <= t /\ t < Bound(k)
             /\ k > 1 => Open(k - 1)
  <2>1. CASE k = 1
    <3>1. k - 1 = 0 /\ n > 0 /\ k - 1 # n /\ (k - 1) + 1 = k /\ 0 <= t
      BY <1>1, <2>1
    <3>2. Bound(k - 1) = 0 /\ Bound(k) = Smaller(d, log[k].at)
      BY <2>1
    <3>3. Quiet(k - 1) <=> 0 <= t /\ t < Smaller(d, log[k].at)
      BY <1>8, <2>1, <3>1 DEF QuietFrom
    <3> QED
      BY <2>1, <3>2, <3>3
  <2>2. CASE k # 1
    <3>1. k \in 2 .. n /\ k - 1 \in 1 .. n /\ k - 1 # 0 /\ k - 1 > 0 /\ k # 0
          /\ k - 1 # n /\ (k - 1) + 1 = k
      BY <1>1, <2>2
    <3>2. log[k - 1].kind = "start"
      <4>1. log[k - 1].kind # "end" /\ log[k - 1].kind \in {"start", "end"}
        BY <1>3, <1>8, <3>1 DEF InTurn
      <4> QED
        BY <4>1
    <3>3. Quiet(k - 1) <=> log[k - 1].at <= t /\ t < Smaller(d, log[k].at)
      BY <3>1, <3>2 DEF QuietFrom
    <3>4. Bound(k - 1) = Smaller(d, log[k - 1].at) /\ Bound(k) = Smaller(d, log[k].at)
      BY <3>1
    <3>5. Smaller(d, log[k - 1].at) <= t <=> log[k - 1].at <= t
      <4>1. log[k - 1].at \in Nat
        BY <1>3, <3>1
      <4> QED
        BY <4>1 DEF Smaller
    <3> HIDE DEF Quiet, Bound
    <3> QED
      BY <3>1, <3>2, <3>3, <3>4, <3>5
  <2> QED
    BY <2>1, <2>2
<1> HIDE DEF n, Quiet, Bound, Open
<1> DEFINE T == {k \in 0 .. n : Good(read[k], k)}
<1>9. 0 \in T
  <2>1. 0 \in 0 .. n /\ read[0].open = None /\ read[0].list = <<>>
    BY <1>1, <1>2
  <2>2. Len(<<>>) = 0 /\ 0 .. 0 - 1 = {} /\ 1 .. 0 = {}
    OBVIOUS
  <2>3. ~ Lies(t, <<>>) /\ Ordered(<<>>)
    BY <2>2 DEF Lies, Ordered
  <2>4. ~ Open(0)
    BY DEF Open
  <2>5. Good(read[0], 0)
    BY <2>1, <2>2, <2>3, <2>4
  <2> QED
    BY <2>1, <2>5
<1>10. ASSUME NEW k \in 1 .. n, k - 1 \in T
       PROVE  k \in T
  <2> DEFINE x == read[k - 1]
             y == read[k]
             from == IF x.open = None THEN 0 ELSE x.open
             to == Bound(k)
             new == [s |-> from, e |-> to]
  <2>1. k \in 0 .. n /\ k - 1 \in 0 .. n /\ Good(x, k - 1) /\ k # 0 /\ k > 0
    BY <1>1, <1>10
  <2> HIDE DEF T
  <2>2. x \in Reading(d) /\ y = ReadMore(x, log[k], d)
    BY <1>2, <2>1
  <2>3. x.list \in Seq(Pauses(d))
    BY <2>2 DEF Reading
  <2>4. Smaller(d, log[k].at) = to
    BY <2>1 DEF Bound
  <2>5. \A i \in 0 .. k - 1 : i \in 0 .. (k - 1) - 1 \/ i = k - 1
    BY <2>1
  <2>6. 0 .. (k - 1) - 1 \subseteq 0 .. k - 1 /\ k - 1 \in 0 .. k - 1
    BY <1>1
  <2>7. to \in 0 .. d /\ Bound(k - 1) \in 0 .. d /\ Bound(k - 1) <= to
    BY <1>5, <1>6, <2>1
  <2>8. \A i \in 1 .. Len(x.list) : x.list[i].s \in Nat /\ x.list[i].s <= to
    <3> SUFFICES ASSUME NEW i \in 1 .. Len(x.list)
                 PROVE  x.list[i].s \in Nat /\ x.list[i].s <= to
      OBVIOUS
    <3>1. x.list[i].s <= Bound(k - 1)
      BY <2>1
    <3>2. x.list[i] \in Pauses(d)
      BY <2>3
    <3>3. x.list[i].s \in Nat
      BY <3>2 DEF Pauses, Stretch
    <3> DEFINE a == x.list[i].s
               b == Bound(k - 1)
    <3>4. a <= b /\ a \in Nat /\ b \in Nat /\ b <= to /\ to \in Nat
      BY <2>7, <3>1, <3>3
    <3> HIDE DEF a, b, to
    <3>5. a <= to
      BY <3>4
    <3> QED
      BY <3>3, <3>5 DEF a
  <2>9. CASE log[k].kind = "start"
    <3>1. y = [open |-> to, list |-> x.list]
      BY <2>2, <2>4, <2>9 DEF ReadMore
    <3> HIDE DEF x, to
    <3>2. y.open = to /\ y.list = x.list
      BY <3>1
    <3> HIDE DEF y
    <3>3. Lies(t, y.list) <=> \E i \in 0 .. k - 1 : Quiet(i)
      <4>1. ~ Quiet(k - 1)
        BY <1>7, <2>9
      <4>2. Lies(t, x.list) <=> \E i \in 0 .. (k - 1) - 1 : Quiet(i)
        BY <2>1
      <4> QED
        BY <2>5, <2>6, <3>2, <4>1, <4>2
    <3>4. Open(k)
      BY <2>1, <2>9 DEF Open
    <3>5. Ordered(y.list) /\ \A i \in 1 .. Len(y.list) : y.list[i].s <= Bound(k)
      BY <2>1, <2>8, <3>2 DEF to
    <3>6. Good(y, k)
      BY <3>2, <3>3, <3>4, <3>5 DEF to
    <3> QED
      BY <2>1, <3>6 DEF T, y
  <2>10. CASE log[k].kind # "start"
    <3>1. log[k].kind = "end"
      BY <1>3, <2>10
    <3>2. y = [open |-> None, list |-> IF to > from THEN Append(x.list, new) ELSE x.list]
      BY <2>2, <2>4, <2>10 DEF ReadMore
    <3>3. from = Bound(k - 1)
      <4>1. x.open = IF Open(k - 1) THEN Bound(k - 1) ELSE None
        BY <2>1
      <4>2. CASE k = 1
        <5>1. ~ Open(k - 1) /\ Bound(k - 1) = 0
          BY <4>2 DEF Open, Bound
        <5> HIDE DEF x
        <5> QED
          BY <4>1, <5>1
      <4>3. CASE k # 1
        <5>1. Open(k - 1)
          BY <1>8, <3>1, <4>3
        <5>2. Bound(k - 1) # None
          BY <1>4, <2>7
        <5> HIDE DEF x
        <5> QED
          BY <4>1, <5>1, <5>2
      <4> QED
        BY <4>2, <4>3
    <3>4. Quiet(k - 1) <=> from <= t /\ t < to
      BY <1>8, <3>1, <3>3
    <3> HIDE DEF x, y, from, to
    <3> DEFINE list == IF to > from THEN Append(x.list, new) ELSE x.list
    <3>5. y.open = None /\ y.list = list
      BY <3>2
    <3>6. /\ Lies(t, list) <=> Lies(t, x.list) \/ (from <= t /\ t < to)
          /\ Ordered(list) /\ \A i \in 1 .. Len(list) : list[i].s <= to
      <4>1. from \in 0 .. d /\ from <= to /\ to \in 0 .. d
        BY <2>7, <3>3
      <4>2. \A i \in 1 .. Len(x.list) : x.list[i].s <= from
        BY <2>1, <3>3 DEF x
      <4>3. CASE to > from
        <5>1. new \in Pauses(d) /\ new.s = from /\ new.e = to
          BY <4>1, <4>3 DEF Pauses, Stretch
        <5>2. list = Append(x.list, new)
          BY <4>3
        <5> HIDE DEF new, list
        <5>3. PICK W : W = Pauses(d)
          OBVIOUS
        <5>4. x.list \in Seq(W) /\ new \in W
          BY <2>3, <5>1, <5>3
        <5>5. Lies(t, list) <=> Lies(t, x.list) \/ (from <= t /\ t < to)
          BY <5>1, <5>2, <5>4, LiesAppended
        <5> DEFINE m == Len(x.list)
        <5>6. m \in Nat /\ Len(list) = m + 1 /\ list[m + 1] = new
              /\ \A i \in 1 .. m : list[i] = x.list[i]
          BY <5>2, <5>4
        <5>7. \A i \in 1 .. m : x.list[i].s <= from /\ x.list[i].s <= to
          BY <2>8, <4>2 DEF x, to
        <5>8. \A i, j \in 1 .. m : j < i => x.list[j].s <= x.list[i].s
          BY <2>1 DEF Ordered, x
        <5> HIDE DEF m
        <5>9. \A i \in 1 .. m + 1 : i \in 1 .. m \/ i = m + 1
          BY <5>6
        <5>10. \A i \in 1 .. m + 1 : list[i].s <= to
          BY <4>1, <5>1, <5>6, <5>7, <5>9
        <5>11. ASSUME NEW i \in 1 .. m + 1, NEW j \in 1 .. m + 1, j < i
               PROVE  list[j].s <= list[i].s
          <6>1. j \in 1 .. m
            BY <5>6, <5>11
          <6>2. CASE i \in 1 .. m
            BY <5>6, <5>8, <5>11, <6>1, <6>2
          <6>3. CASE i = m + 1
            BY <5>1, <5>6, <5>7, <6>1, <6>3
          <6> QED
            BY <5>9, <6>2, <6>3
        <5> QED
          BY <5>5, <5>6, <5>10, <5>11 DEF Ordered
      <4>4. CASE ~ (to > from)
        <5>1. list = x.list /\ ~ (from <= t /\ t < to)
          BY <4>1, <4>4
        <5> QED
          BY <2>1, <2>8, <5>1 DEF x, to
      <4> QED
        BY <4>3, <4>4
    <3> HIDE DEF list
    <3>7. Lies(t, y.list) <=> \E i \in 0 .. k - 1 : Quiet(i)
      <4>1. Lies(t, x.list) <=> \E i \in 0 .. (k - 1) - 1 : Quiet(i)
        BY <2>1 DEF x
      <4> QED
        BY <2>5, <2>6, <3>4, <3>5, <3>6, <4>1
    <3>8. ~ Open(k)
      BY <2>10 DEF Open
    <3>9. Good(y, k)
      BY <3>5, <3>6, <3>7, <3>8 DEF to
    <3> QED
      BY <2>1, <3>9 DEF T, y
  <2> QED
    BY <2>9, <2>10
<1>11. n \in T
  <2> HIDE DEF T
  <2>1. \A k \in 0 .. n : k \in T
    BY <1>1, <1>9, <1>10, TurnByTurn
  <2> QED
    BY <1>1, <2>1
<1> DEFINE x == ClosedSilences(log, d)
           all == Silences(log, d)
<1>12. x \in Reading(d) /\ Good(x, n)
  <2>1. n \in 0 .. n
    BY <1>1
  <2> QED
    BY <1>2, <1>11, <2>1
<1>13. all = IF x.open # None /\ x.open < d THEN Append(x.list, [s |-> x.open, e |-> d])
             ELSE x.list
  BY DEF Silences
<1> HIDE DEF x, all, T
<1>14. x.list \in Seq(Pauses(d))
  BY <1>12 DEF Reading
<1>15. \A i \in 0 .. n : i \in 0 .. n - 1 \/ i = n
  BY <1>1
<1>16. 0 .. n - 1 \subseteq 0 .. n /\ n \in 0 .. n
  BY <1>1
<1>17. Quiet(n) <=> Open(n) /\ Bound(n) <= t
  <2>1. CASE n = 0
    <3>1. ~ Open(n) /\ ~ Quiet(n)
      BY <2>1 DEF Open, Quiet, QuietFrom, n
    <3> QED
      BY <3>1
  <2>2. CASE n # 0
    <3>1. n > 0 /\ n \in 1 .. n
      BY <1>1, <2>2
    <3>2. Bound(n) = Smaller(d, log[n].at) /\ log[n].at \in Nat
      BY <1>3, <2>2, <3>1 DEF Bound
    <3>3. Quiet(n) <=> log[n].kind = "start" /\ log[n].at <= t
      BY <2>2 DEF Quiet, QuietFrom, n
    <3>4. Open(n) <=> log[n].kind = "start"
      BY <3>1 DEF Open
    <3>5. Smaller(d, log[n].at) <= t <=> log[n].at <= t
      BY <3>2 DEF Smaller
    <3> QED
      BY <3>2, <3>3, <3>4, <3>5
  <2> QED
    BY <2>1, <2>2
<1>18. Bound(n) \in 0 .. d
  BY <1>5, <1>16
<1>19. CASE Open(n) /\ Bound(n) < d
  <2> DEFINE new == [s |-> Bound(n), e |-> d]
  <2>1. x.open = Bound(n) /\ x.open # None
    BY <1>4, <1>12, <1>18, <1>19
  <2>2. all = Append(x.list, new)
    BY <1>13, <1>19, <2>1
  <2>3. new \in Pauses(d) /\ new.s = Bound(n) /\ new.e = d
    BY <1>18, <1>19 DEF Pauses, Stretch
  <2> HIDE DEF new
  <2>4. PICK W : W = Pauses(d)
    OBVIOUS
  <2>5. x.list \in Seq(W) /\ new \in W
    BY <1>14, <2>3, <2>4
  <2>6. Lies(t, all) <=> Lies(t, x.list) \/ (Bound(n) <= t /\ t < d)
    BY <2>2, <2>3, <2>5, LiesAppended
  <2> DEFINE m == Len(x.list)
  <2>7. m \in Nat /\ Len(all) = m + 1 /\ all[m + 1] = new /\ \A i \in 1 .. m : all[i] = x.list[i]
    BY <2>2, <2>5
  <2>8. \A i, j \in 1 .. m : j < i => x.list[j].s <= x.list[i].s
    BY <1>12 DEF Ordered
  <2>9. \A i \in 1 .. m : x.list[i].s <= Bound(n)
    BY <1>12
  <2> HIDE DEF m
  <2>10. ASSUME NEW i \in 1 .. m + 1, NEW j \in 1 .. m + 1, j < i
         PROVE  all[j].s <= all[i].s
    <3>1. j \in 1 .. m /\ (i \in 1 .. m \/ i = m + 1)
      BY <2>7, <2>10
    <3>2. CASE i \in 1 .. m
      BY <2>7, <2>8, <2>10, <3>1, <3>2
    <3>3. CASE i = m + 1
      BY <2>3, <2>7, <2>9, <3>1, <3>3
    <3> QED
      BY <3>1, <3>2, <3>3
  <2>11. Ordered(all)
    BY <2>7, <2>10 DEF Ordered
  <2>12. Lies(t, x.list) <=> \E i \in 0 .. n - 1 : Quiet(i)
    BY <1>12
  <2>13. Lies(t, all) <=> \E i \in 0 .. n : Quiet(i)
    BY <1>15, <1>16, <1>17, <1>19, <2>6, <2>12
  <2> QED
    BY <2>11, <2>13 DEF all, n, Quiet
<1>20. CASE ~ (Open(n) /\ Bound(n) < d)
  <2>1. all = x.list
    BY <1>12, <1>13, <1>20
  <2>2. ~ Quiet(n)
    <3>1. Open(n) => Bound(n) = d
      BY <1>18, <1>20
    <3>2. ~ (d <= t)
      OBVIOUS
    <3> QED
      BY <1>17, <3>1, <3>2
  <2>3. Lies(t, x.list) <=> \E i \in 0 .. n - 1 : Quiet(i)
    BY <1>12
  <2>4. Lies(t, all) <=> \E i \in 0 .. n : Quiet(i)
    BY <1>15, <1>16, <2>1, <2>2, <2>3
  <2>5. Ordered(all)
    BY <1>12, <2>1
  <2> QED
    BY <2>4, <2>5 DEF all, n, Quiet
<1> QED
  BY <1>19, <1>20

\* The speech that is detected within the recording.
LEMMA DetectedApart ==
    ASSUME NEW log \in Seq(Event), NEW d \in Nat
    PROVE  Apart(DetectSpeech(log, d), d)
<1> DEFINE silences == Silences(log, d)
           loud == Between(silences, d)
           speech == Those(loud, {g \in Range(loud) : LongEnough(g)})
           whole == <<[s |-> 0, e |-> d]>>
<1>1. DetectSpeech(log, d) = IF d = 0 THEN <<>>
                             ELSE IF silences = <<>> \/ speech = <<>> THEN whole ELSE speech
  BY DEF DetectSpeech
<1>2. silences \in Seq(Pauses(d))
  BY SilencesType
<1> HIDE DEF silences
<1>3. Apart(loud, d)
  BY <1>2, BetweenApart
<1> HIDE DEF loud
<1>4. Apart(speech, d)
  BY <1>3, ThoseApart
<1> HIDE DEF speech
<1>5. ASSUME d # 0
      PROVE  Apart(whole, d)
  <2> DEFINE g == [s |-> 0, e |-> d]
  <2>1. g \in Stretch /\ g.e <= d
    BY <1>5 DEF Stretch
  <2> HIDE DEF g
  <2>2. <<g>> = Append(<<>>, g) /\ Len(<<>>) = 0
    BY <2>1
  <2>3. Apart(Append(<<>>, g), d)
    <3>1. \A k \in 1 .. Len(<<>>) : <<>>[k].e < g.s
      BY <2>2
    <3> QED
      BY <2>1, <3>1, NoneApart, ApartAppended
  <2> QED
    BY <2>2, <2>3 DEF g
<1> HIDE DEF whole
<1> QED
  BY <1>1, <1>4, <1>5, NoneApart

-----------------------------------------------------------------------------
(* The words of a channel where they are placed.                           *)

\* The units of time are fine enough for n words: no coarser than the shortest time
\* of a word, and no fewer than the words, in the recording and in its speech.
Room(n, speech, d) ==
    /\ Sec >= 20 /\ d >= 10 /\ n <= d
    /\ speech # <<>> => n <= Total(Lengths(speech))

\* The words that the detected speech places.
LEMMA FallbackPlaces ==
    ASSUME NEW toks \in Seq(Token), NEW d \in Nat \ {0}, NEW speech, speech # <<>>,
           Apart(speech, d)
    PROVE  LET all == FallbackWords(toks, d, speech)
           IN  /\ Spells(all, toks)
               /\ \A i \in 1 .. Len(all) : Within(all[i], speech)
               /\ Room(Len(all), speech, d) => Following(all, d)
<1> DEFINE all == WordsInSegments(toks, speech, d)
           m == Len(speech)
<1>1. FallbackWords(toks, d, speech) = all
  <2>1. Segments(speech, d) = speech
    BY SegmentsKept
  <2> QED
    BY <2>1, AtLeastItself DEF FallbackWords
<1>2. speech \in Seq(Stretch) /\ OneByOne(speech) /\ \A g \in 1 .. m : speech[g].e \in Nat /\ speech[g].e <= d
  BY ApartStretches
<1>3. m \in 1 .. m /\ m > 0
  BY <1>2
<1>4. /\ Filled(all, toks, speech, m) /\ Len(all) = Len(toks)
      /\ OneByOne(speech) /\ Len(toks) <= Total(Lengths(speech)) => FilledInTime(all, speech, m)
  BY <1>2, SegmentsPlace
<1> HIDE DEF all, m
<1>5. /\ all \in Seq(SettledWord)
      /\ \A i \in 1 .. Len(all) : all[i].tok = toks[i] /\ Within(all[i], speech)
  BY <1>4 DEF Filled
<1>6. ASSUME Room(Len(all), speech, d)
      PROVE  Following(all, d)
  <2>1. FilledInTime(all, speech, m)
    BY <1>2, <1>4, <1>6 DEF Room
  <2>2. \A i \in 1 .. Len(all) : all[i].e \in Nat
    <3>1. \A i \in 1 .. Len(all) : all[i] \in SettledWord
      BY <1>5
    <3> QED
      BY <3>1 DEF SettledWord
  <2>3. \A i \in 1 .. Len(all) : all[i].s < all[i].e /\ all[i].e <= speech[m].e
    BY <1>3, <2>1 DEF FilledInTime
  <2>4. speech[m].e \in Nat /\ speech[m].e <= d
    BY <1>2, <1>3
  <2>5. \A i \in 1 .. Len(all) : all[i].s < all[i].e /\ all[i].e <= d
    BY <2>2, <2>3, <2>4
  <2>6. DOMAIN all = 1 .. Len(all)
    BY <1>5
  <2> QED
    BY <2>1, <2>5, <2>6 DEF Following, FilledInTime
<1> QED
  BY <1>1, <1>4, <1>5, <1>6 DEF Spells

\* Whatever places them, the alignment says each word once, in order, and within the
\* recording where there is room; the words that the speech places lie within it.
LEMMA AlignedWords ==
    ASSUME NEW text \in Seq(Token), NEW given, Heard(given), NEW d \in Nat \ {0},
           NEW stable0, NEW speech, Apart(speech, d),
           Timed(given) => /\ Spells(stable0, Tokens(given))
                           /\ Sec >= 20 /\ d >= 10 /\ d >= Len(stable0) => Following(stable0, d)
    PROVE  LET a == Aligned(text, given, stable0, d, speech)
           IN  /\ a.how \in {"model", "segments", "even"}
               /\ Spells(a.words, Said(text, given))
               /\ Room(Len(a.words), speech, d) => Following(a.words, d)
               /\ a.how = "segments" => \A i \in 1 .. Len(a.words) : Within(a.words[i], speech)
<1> DEFINE toks == IF Tokens(given) # <<>> THEN Tokens(given) ELSE text
           trusted == /\ Timed(given) /\ stable0 # <<>>
                      /\ speech = <<>> \/ ~ Unreliable(stable0, d)
           placed == speech # <<>> /\ (toks # <<>> \/ given = <<>>)
           a == Aligned(text, given, stable0, d, speech)
<1>1. a = IF trusted THEN [how |-> "model", words |-> stable0]
          ELSE IF placed THEN [how |-> "segments", words |-> FallbackWords(toks, d, speech)]
          ELSE [how |-> "even", words |-> EvenWords(toks, d)]
  <2>1. Segments(speech, d) = speech
    BY SegmentsKept
  <2> QED
    BY <2>1 DEF Aligned
<1>2. toks = Said(text, given) /\ toks \in Seq(Token)
  BY SaidTokens DEF Said
<1>3. Timed(given) => given # <<>>
  BY DEF Timed
<1>4. \A w : Room(Len(w), speech, d) /\ Len(w) \in Nat => Sec >= 20 /\ d >= 10 /\ d >= Len(w)
  BY DEF Room
<1> HIDE DEF placed, toks, a
<1>5. CASE trusted
  <2>1. a.how = "model" /\ a.words = stable0
    BY <1>1, <1>5
  <2>2. Said(text, given) = Tokens(given)
    BY <1>3, <1>5 DEF Said
  <2>3. /\ Spells(stable0, Tokens(given))
        /\ Sec >= 20 /\ d >= 10 /\ d >= Len(stable0) => Following(stable0, d)
    BY <1>5
  <2>4. Len(stable0) \in Nat
    BY <2>3 DEF Spells
  <2>5. Room(Len(stable0), speech, d) => Following(stable0, d)
    BY <1>4, <2>3, <2>4
  <2> QED
    BY <2>1, <2>2, <2>3, <2>5 DEF a
<1>6. CASE ~ trusted /\ placed
  <2>1. a.how = "segments" /\ a.words = FallbackWords(toks, d, speech)
    BY <1>1, <1>6
  <2>2. speech # <<>>
    BY <1>6 DEF placed
  <2>3. /\ Spells(a.words, toks)
        /\ \A i \in 1 .. Len(a.words) : Within(a.words[i], speech)
        /\ Room(Len(a.words), speech, d) => Following(a.words, d)
    BY <1>2, <2>1, <2>2, FallbackPlaces
  <2> QED
    BY <1>2, <2>1, <2>3 DEF a
<1>7. CASE ~ trusted /\ ~ placed
  <2>1. a.how = "even" /\ a.words = EvenWords(toks, d)
    BY <1>1, <1>7
  <2>2. /\ Spells(a.words, toks)
        /\ d >= Len(toks) => Following(a.words, d)
    BY <1>2, <2>1, EvenSlots DEF Spells
  <2>3. Len(a.words) = Len(toks) /\ Len(a.words) \in Nat
    BY <2>2 DEF Spells
  <2>4. Room(Len(a.words), speech, d) => Following(a.words, d)
    BY <1>4, <2>2, <2>3
  <2> QED
    BY <1>2, <2>1, <2>2, <2>4 DEF a
<1> QED
  BY <1>5, <1>6, <1>7

\* The words of a row say what they should, and follow one another where there is
\* room.
RowPlaced(words, said, speech, d) ==
    /\ Heard(words) /\ Len(words) = Len(said)
    /\ \A i \in 1 .. Len(words) : words[i].s \in Nat /\ words[i].e \in Nat
    /\ Tokens(words) = said
    /\ Room(Len(words), speech, d) => Following(words, d)

\* The speakers change neither the words nor their times.
LEMMA DiarizedWords ==
    ASSUME NEW words, NEW said \in Seq(Token), NEW speech, NEW d \in Nat, NEW count, NEW c,
           Spells(words, said), Room(Len(words), speech, d) => Following(words, d)
    PROVE  LET x == Diarized(words, count, c)
           IN  /\ RowPlaced(x, said, speech, d) /\ Len(x) = Len(words)
               /\ (\A i \in 1 .. Len(words) : Within(words[i], speech)) =>
                     \A i \in 1 .. Len(x) : Within(x[i], speech)
<1> DEFINE x == Diarized(words, count, c)
           n == Len(words)
<1>1. words \in Seq(SettledWord) /\ n \in Nat /\ DOMAIN words = 1 .. n /\ Len(said) = n
  BY DEF Spells
<1>2. \A i \in 1 .. n : /\ x[i].tok = words[i].tok
                        /\ x[i].s = words[i].s
                        /\ x[i].e = words[i].e
  BY <1>1 DEF Diarized
<1>3. DOMAIN x = 1 .. n
  BY <1>1 DEF Diarized
<1>4. x = [i \in 1 .. n |-> x[i]]
  BY <1>1 DEF Diarized
<1> HIDE DEF x, n
<1>5. x \in Seq(Range(x)) /\ Len(x) = n
  <2>1. \A i \in 1 .. n : x[i] \in Range(x)
    BY <1>3 DEF Range
  <2> QED
    BY <1>1, <1>3, <1>4, <2>1
<1>6. \A i \in 1 .. n : words[i].tok = said[i] /\ said[i] \in Token
  BY <1>1 DEF Spells, n
<1>7. \A i \in 1 .. Len(x) : x[i].tok \in Token
  BY <1>2, <1>5, <1>6
<1>8. Tokens(x) = [i \in 1 .. Len(x) |-> x[i].tok]
  BY <1>5, <1>7, TokensOfAll
<1>9. Tokens(x) = said
  <2>1. Tokens(x) = [i \in 1 .. n |-> said[i]]
    BY <1>2, <1>5, <1>6, <1>8
  <2>2. said = [i \in 1 .. n |-> said[i]]
    BY <1>1
  <2> QED
    BY <2>1, <2>2
<1>10. ASSUME Following(words, d)
       PROVE  Following(x, d)
  <2>1. \A i \in 1 .. n : x[i].s < x[i].e /\ x[i].e <= d
    BY <1>1, <1>2, <1>10 DEF Following
  <2>2. ASSUME NEW i \in 2 .. n
        PROVE  x[i - 1].e <= x[i].s
    <3>1. i \in 1 .. n /\ i - 1 \in 1 .. n /\ words[i - 1].e <= words[i].s
      BY <1>1, <1>10 DEF Following, n
    <3> QED
      BY <1>2, <3>1
  <2> QED
    BY <1>3, <1>5, <2>1, <2>2 DEF Following
<1>11. Heard(x)
  <2>1. \A i \in 1 .. n : words[i] \in SettledWord
    BY <1>1
  <2>2. \A i \in 1 .. n : words[i].s \in Times /\ words[i].e \in Times
    BY <2>1 DEF SettledWord, Times
  <2> QED
    BY <1>2, <1>5, <1>7, <2>2 DEF Heard
<1>14. \A i \in 1 .. Len(x) : x[i].s \in Nat /\ x[i].e \in Nat
  <2>1. \A i \in 1 .. n : words[i] \in SettledWord
    BY <1>1
  <2>2. \A i \in 1 .. n : words[i].s \in Nat /\ words[i].e \in Nat
    BY <2>1 DEF SettledWord
  <2> QED
    BY <1>2, <1>5, <2>2
<1>12. Room(Len(x), speech, d) => Following(x, d)
  BY <1>5, <1>10 DEF n
<1>13. ASSUME \A i \in 1 .. n : Within(words[i], speech)
       PROVE  \A i \in 1 .. Len(x) : Within(x[i], speech)
  BY <1>2, <1>5, <1>13 DEF Within
<1> QED
  BY <1>1, <1>5, <1>9, <1>11, <1>12, <1>13, <1>14 DEF x, n, RowPlaced

\* A repair says the words it is given, or the text where there are none.
LEMMA RepairedWords ==
    ASSUME NEW text \in Seq(Token), NEW source, Heard(source), NEW d \in Nat \ {0},
           NEW speech, Apart(speech, d), NEW count, NEW c
    PROVE  LET a == Aligned(text, source, Stabilized(source, d), d, speech)
           IN  RowPlaced(Diarized(a.words, count, c), Said(text, source), speech, d)
<1> DEFINE all == Stabilized(source, d)
           a == Aligned(text, source, all, d, speech)
<1>1. source \in Seq(Range(source)) /\ \A i \in 1 .. Len(source) : source[i].tok # 0
  BY DEF Heard, Token
<1>2. Spoken(source) = source
  BY <1>1, AllSpoken
<1>3. /\ all \in Seq(SettledWord) /\ Len(all) = Len(source)
      /\ \A i \in 1 .. Len(source) : all[i].tok = source[i].tok
      /\ Sec >= 20 /\ d >= 10 /\ d >= Len(source) => Following(all, d)
  BY <1>2, StabilizedWords
<1> HIDE DEF all
<1>4. source # <<>> => /\ Len(Tokens(source)) = Len(source)
                       /\ \A i \in 1 .. Len(source) : Tokens(source)[i] = source[i].tok
  BY SaidTokens
<1>5. Timed(source) => source # <<>>
  BY DEF Timed
<1>6. Timed(source) => /\ Spells(all, Tokens(source))
                       /\ Sec >= 20 /\ d >= 10 /\ d >= Len(all) => Following(all, d)
  BY <1>3, <1>4, <1>5 DEF Spells
<1>7. /\ Spells(a.words, Said(text, source))
      /\ Room(Len(a.words), speech, d) => Following(a.words, d)
  BY <1>6, AlignedWords
<1>8. Said(text, source) \in Seq(Token)
  BY SaidTokens
<1> HIDE DEF a
<1> QED
  BY <1>7, <1>8, DiarizedWords DEF a, all

-----------------------------------------------------------------------------
(* The scores of the candidates.                                           *)

\* Some number of a sequence is the largest.
LEMMA LargestEntry ==
    ASSUME NEW f \in Seq(Nat), f # <<>>
    PROVE  \E k \in 1 .. Len(f) : \A j \in 1 .. Len(f) : f[j] <= f[k]
<1> DEFINE n == Len(f)
           T == {i \in 0 .. n : i > 0 => \E k \in 1 .. i : \A j \in 1 .. i : f[j] <= f[k]}
<1>1. n \in Nat /\ n # 0 /\ \A i \in 1 .. n : f[i] \in Nat
  OBVIOUS
<1> HIDE DEF n
<1>2. 0 \in T
  BY <1>1
<1>3. ASSUME NEW i \in 1 .. n, i - 1 \in T
      PROVE  i \in T
  <2>1. i \in 0 .. n /\ \A j \in 1 .. i : j \in 1 .. n /\ (j \in 1 .. i - 1 \/ j = i)
    BY <1>1
  <2>2. CASE i = 1
    <3>1. \A j \in 1 .. 1 : j = 1
      OBVIOUS
    <3>2. f[1] \in Nat
      BY <1>1
    <3>3. 1 \in 1 .. 1 /\ \A j \in 1 .. 1 : f[j] <= f[1]
      BY <3>1, <3>2
    <3>4. \E k \in 1 .. 1 : \A j \in 1 .. 1 : f[j] <= f[k]
      BY <3>3
    <3> QED
      BY <2>1, <2>2, <3>4
  <2>3. CASE i # 1
    <3>1. PICK k \in 1 .. i - 1 : \A j \in 1 .. i - 1 : f[j] <= f[k]
      BY <1>3, <2>3
    <3>2. k \in 1 .. i /\ i \in 1 .. i /\ f[k] \in Nat /\ f[i] \in Nat
      BY <1>1
    <3>3. CASE f[k] <= f[i]
      <4>1. \A j \in 1 .. i : f[j] <= f[i]
        BY <1>1, <2>1, <3>1, <3>2, <3>3
      <4> QED
        BY <2>1, <3>2, <4>1
    <3>4. CASE ~ (f[k] <= f[i])
      <4>1. \A j \in 1 .. i : f[j] <= f[k]
        BY <1>1, <2>1, <3>1, <3>2, <3>4
      <4> QED
        BY <2>1, <3>2, <4>1
    <3> QED
      BY <3>3, <3>4
  <2> QED
    BY <2>2, <2>3
<1> HIDE DEF T
<1>4. n \in T
  <2>1. \A i \in 0 .. n : i \in T
    BY <1>1, <1>2, <1>3, TurnByTurn
  <2> QED
    BY <1>1, <2>1
<1> QED
  BY <1>1, <1>4 DEF T, n

LEMMA SpansType ==
    ASSUME NEW words \in Seq(SpokenWord)
    PROVE  Spans(words) \in Seq([s : Nat, e : Nat])
<1> DEFINE T == {x \in Range(words) : x.s # None \/ x.e # None}
           w == Those(words, T)
           Begin(x) == IF x.s = None THEN 0 ELSE x.s
           Entry0(x) == [s |-> Begin(x),
                         e |-> Larger(Begin(x), IF x.e = None THEN Begin(x) ELSE x.e)]
<1>1. Spans(words) = [i \in DOMAIN w |-> Entry0(w[i])]
  BY DEF Spans
<1>2. w \in Seq(SpokenWord \cap T)
  BY ThoseType
<1> HIDE DEF w, T
<1>3. DOMAIN w = 1 .. Len(w) /\ Len(w) \in Nat /\ \A i \in 1 .. Len(w) : w[i] \in SpokenWord
  BY <1>2
<1>4. ASSUME NEW x \in SpokenWord
      PROVE  Entry0(x) \in [s : Nat, e : Nat]
  <2>1. x.s \in Nat \cup {None} /\ x.e \in Nat \cup {None}
    BY DEF SpokenWord, Times
  <2>2. Begin(x) \in Nat
    BY <2>1
  <2> HIDE DEF Begin
  <2>3. Larger(Begin(x), IF x.e = None THEN Begin(x) ELSE x.e) \in Nat
    BY <2>1, <2>2 DEF Larger
  <2> QED
    BY <2>2, <2>3
<1> HIDE DEF Entry0
<1>5. \A i \in 1 .. Len(w) : Entry0(w[i]) \in [s : Nat, e : Nat]
  BY <1>3, <1>4
<1> QED
  BY <1>1, <1>3, <1>5

LEMMA ExtentType ==
    ASSUME NEW words \in Seq(SpokenWord)
    PROVE  Extent(words) \in Int
<1> DEFINE x == Spans(words)
           n == Len(x)
           S == {g.s : g \in Range(x)}
           E == {g.e : g \in Range(x)}
           ends == [i \in 1 .. n |-> x[i].e]
<1>1. Extent(words) = IF Range(x) = {} THEN 0 ELSE Max(E) - Min(S)
  BY DEF Extent
<1>2. x \in Seq([s : Nat, e : Nat]) /\ n \in Nat /\ DOMAIN x = 1 .. n
  BY SpansType
<1> HIDE DEF x, n
<1>3. \A i \in 1 .. n : x[i].s \in Nat /\ x[i].e \in Nat
  <2> DEFINE R == [s : Nat, e : Nat]
  <2>1. \A i \in 1 .. n : x[i] \in R
    <3>1. x \in Seq(R)
      BY <1>2
    <3> HIDE DEF R
    <3> QED
      BY <3>1 DEF n
  <2> QED
    BY <2>1
<1>4. Range(x) = {x[i] : i \in 1 .. n}
  BY <1>2 DEF Range
<1>5. CASE Range(x) # {}
  <2>1. n # 0
    BY <1>4, <1>5
  <2>2. S \in SUBSET Nat /\ S # {}
    BY <1>3, <1>4, <1>5
  <2>3. Min(S) \in S
    <3>1. \E m \in S : \A k \in S : m <= k
      BY <2>2, LeastNumber
    <3> QED
      BY <3>1 DEF Min
  <2>4. ends \in Seq(Nat) /\ Len(ends) = n /\ ends # <<>> /\ \A i \in 1 .. n : ends[i] = x[i].e
    <3>1. ends \in Seq(Nat) /\ Len(ends) = n
      BY <1>2, <1>3
    <3>2. \A i \in 1 .. n : ends[i] = x[i].e
      OBVIOUS
    <3> HIDE DEF ends
    <3>3. ends # <<>>
      BY <2>1, <3>1
    <3> QED
      BY <3>1, <3>2, <3>3
  <2> HIDE DEF ends
  <2>5. PICK k \in 1 .. n : \A j \in 1 .. n : ends[j] <= ends[k]
    BY <2>4, LargestEntry
  <2>6. x[k].e \in E /\ \A y \in E : x[k].e >= y
    <3>1. x[k].e \in E
      BY <1>4
    <3>2. \A y \in E : \E j \in 1 .. n : y = ends[j]
      BY <1>4, <2>4
    <3>3. ends[k] \in Nat /\ \A j \in 1 .. n : ends[j] \in Nat
      BY <1>3, <2>4
    <3>4. x[k].e = ends[k]
      BY <2>4
    <3> HIDE DEF E
    <3> QED
      BY <2>5, <3>1, <3>2, <3>3, <3>4
  <2> HIDE DEF E
  <2>7. Max(E) \in E
    BY <2>6 DEF Max
  <2>8. Max(E) \in Nat
    BY <1>3, <1>4, <2>7 DEF E
  <2>9. Min(S) \in Nat
    BY <2>2, <2>3
  <2> HIDE DEF S
  <2>10. Extent(words) = Max(E) - Min(S)
    BY <1>1, <1>5
  <2> QED
    BY <2>8, <2>9, <2>10
<1>6. CASE Range(x) = {}
  BY <1>1, <1>6
<1> QED
  BY <1>5, <1>6

LEMMA ScoreType ==
    ASSUME NEW words \in Seq(SpokenWord), NEW text \in Seq(Token), NEW d \in Nat
    PROVE  Score(words, text, d) \in Int
<1> DEFINE a == Len(words)
           t == Smaller(Len(text), TextCap)
           l1 == LongWords(words, Long)
           l2 == LongWords(words, VeryLong)
           l3 == LongWords(words, Huge)
           c == Covered(words, AtLeastOne(d))
           b == AtLeastOne(d)
           x == 4 * a + t - 8 * l1 - 16 * l2 - 40 * l3
           y == Larger(0, b - 2 * c)
<1>1. Score(words, text, d) = b * x - 160 * y
  BY DEF Score
<1>2. ASSUME NEW u
      PROVE  LongWords(words, u) \in Nat
  <2> DEFINE F == {i \in DOMAIN Spans(words) : Spans(words)[i].e - Spans(words)[i].s >= u}
  <2>1. DOMAIN Spans(words) = 1 .. Len(Spans(words)) /\ Len(Spans(words)) \in Int /\ 1 \in Int
    BY SpansType
  <2>2. IsFiniteSet(1 .. Len(Spans(words)))
    BY <2>1, FS_Interval
  <2>3. F \in SUBSET (1 .. Len(Spans(words)))
    BY <2>1
  <2> HIDE DEF F
  <2>4. IsFiniteSet(F)
    BY <2>2, <2>3, FS_Subset
  <2>5. Cardinality(F) \in Nat
    BY <2>4, FS_CardinalityType
  <2> QED
    BY <2>5 DEF LongWords, F
<1>3. l1 \in Nat /\ l2 \in Nat /\ l3 \in Nat
  BY <1>2
<1>4. b \in Nat
  BY DEF AtLeastOne, Larger
<1>5. a \in Nat /\ t \in Nat
  BY EngineAssumption DEF Smaller
<1>6. c \in Int
  BY <1>4, ExtentType DEF Covered, Smaller
<1> HIDE DEF a, t, l1, l2, l3, b, c
<1>7. x \in Int /\ y \in Int
  BY <1>3, <1>4, <1>5, <1>6 DEF Larger
<1> HIDE DEF x, y
<1>8. b * x \in Int
  BY <1>4, <1>7
<1> QED
  BY <1>1, <1>7, <1>8

=============================================================================
