------------------------- MODULE RateLimiterProofs -------------------------
(***************************************************************************)
(* Proofs about RateLimiter, for any clients, window, limits and duration. *)
(***************************************************************************)
EXTENDS RateLimiter, SharedLemmas, FiniteSetTheorems, TLAPS

\* The parts of the invariant, for a key k.

RLTypeOK ==
    /\ clock \in Nat
    /\ events \in [Keys -> Seq(Nat)]
    /\ served \in [Keys -> Seq(Nat)]
    /\ retryAt \in [Keys -> Nat]
    /\ refusals \in [Keys -> Nat]

Limit(k) == MostOf[k[2]]
Forgotten(k) == Len(served[k]) - Len(events[k])

\* Served times are in the order of the clock.
Sorted(k) ==
    /\ \A i, j \in 1 .. Len(served[k]) : i <= j => served[k][i] <= served[k][j]
    /\ \A i \in 1 .. Len(served[k]) : served[k][i] <= clock

\* What is remembered is the end of what was served, and what is forgotten has left
\* the window.
Remembered(k) ==
    /\ Len(events[k]) <= Len(served[k])
    /\ Len(events[k]) <= Limit(k)
    /\ \A i \in 1 .. Len(events[k]) : events[k][i] = served[k][Forgotten(k) + i]
    /\ \A i \in 1 .. Forgotten(k) : served[k][i] < clock - Window

\* A served request and the one that comes Limit(k) later are more than a window
\* apart.
Apart(k) ==
    \A i \in 1 .. Len(served[k]) :
        i + Limit(k) <= Len(served[k]) => served[k][i] + Window < served[k][i + Limit(k)]

\* A client that was refused comes back when the oldest time has left or is about to
\* leave, and after a second refusal when it has left.
ComesBack(k) ==
    refusals[k] > 0 =>
        /\ refusals[k] <= 2
        /\ Len(events[k]) = Limit(k)
        /\ retryAt[k] + (IF refusals[k] = 1 THEN Fine ELSE 0) > events[k][1] + Window

RLInv ==
    /\ RLTypeOK
    /\ \A k \in Keys : Sorted(k) /\ Remembered(k) /\ Apart(k) /\ ComesBack(k)

LEMMA LimiterConstants ==
    /\ Fine \in Nat \ {0} /\ Window \in Nat
    /\ \A k \in Keys : Limit(k) \in Nat \ {0}
BY LimiterAssumption DEF Limit, Keys

\* What the loop of allow leaves of the remembered times.
LEMMA LiveTimes ==
    ASSUME RLTypeOK, NEW k \in Keys
    PROVE  /\ Dropped(k) \in 0 .. Len(events[k])
           /\ \A i \in 1 .. Dropped(k) : events[k][i] < clock - Window
           /\ Live(k) \in Seq(Nat)
           /\ Len(Live(k)) = Len(events[k]) - Dropped(k)
           /\ \A i \in 1 .. Len(Live(k)) : Live(k)[i] = events[k][Dropped(k) + i]
           /\ Live(k) # <<>> => Live(k)[1] >= clock - Window
<1> DEFINE e == events[k]
           Fits(n) == /\ \A i \in 1 .. n : e[i] < clock - Window
                      /\ n < Len(e) => e[n + 1] >= clock - Window
           T == {n \in 0 .. Len(e) : n < Len(e) => e[n + 1] >= clock - Window}
<1>1. e \in Seq(Nat) /\ Len(e) \in Nat /\ \A i \in 1 .. Len(e) : e[i] \in Nat
  BY DEF RLTypeOK
<1>2. clock \in Nat /\ Window \in Nat
  BY LimiterConstants DEF RLTypeOK
<1>3. \E n \in 0 .. Len(e) : Fits(n)
  <2>1. Len(e) \in T /\ T \in SUBSET Nat
    BY <1>1
  <2>2. PICK m \in T : \A n \in T : m <= n
    BY <2>1, LeastNumber
  <2>3. ASSUME NEW i \in 1 .. m
        PROVE  e[i] < clock - Window
    <3>1. i - 1 \in 0 .. Len(e) /\ i - 1 < Len(e) /\ i - 1 < m
      BY <1>1, <2>2, <2>3
    <3>2. i - 1 \notin T
      BY <2>2, <3>1, <1>1
    <3>3. ~ (e[i - 1 + 1] >= clock - Window)
      BY <3>1, <3>2
    <3> QED
      BY <3>3, <1>1, <1>2, <2>2
  <2> QED
    BY <2>2, <2>3, <1>1
<1>4. Dropped(k) \in 0 .. Len(e) /\ Fits(Dropped(k))
  BY <1>3 DEF Dropped
<1>5. /\ Live(k) \in Seq(Nat)
      /\ Len(Live(k)) = Len(e) - Dropped(k)
      /\ \A i \in 1 .. Len(Live(k)) : Live(k)[i] = e[Dropped(k) + i]
  <2> DEFINE d == Dropped(k)
  <2>1. Live(k) = SubSeq(e, d + 1, Len(e))
    BY DEF Live
  <2>2. d \in 0 .. Len(e)
    BY <1>4
  <2> HIDE DEF d, e
  <2>3. /\ SubSeq(e, d + 1, Len(e)) \in Seq(Nat)
        /\ Len(SubSeq(e, d + 1, Len(e))) = Len(e) - d
        /\ \A i \in 1 .. Len(e) - d : SubSeq(e, d + 1, Len(e))[i] = e[d + i]
    BY <1>1, <2>2
  <2> QED
    BY <2>1, <2>3 DEF d
<1>6. ASSUME Live(k) # <<>>
      PROVE  Live(k)[1] >= clock - Window
  <2>1. Dropped(k) < Len(e)
    BY <1>6, <1>5, <1>4, <1>1
  <2>2. Live(k)[1] = e[Dropped(k) + 1]
    BY <2>1, <1>4, <1>5, <1>1
  <2> QED
    BY <2>1, <2>2, <1>4
<1> QED
  BY <1>4, <1>5, <1>6

\* Other keys keep their part of the invariant.
LEMMA KeyUnchanged ==
    ASSUME RLInv, NEW k \in Keys, clock' = clock,
           events'[k] = events[k], served'[k] = served[k],
           retryAt'[k] = retryAt[k], refusals'[k] = refusals[k]
    PROVE  (Sorted(k) /\ Remembered(k) /\ Apart(k) /\ ComesBack(k))'
<1>1. Sorted(k)'
  BY DEF RLInv, Sorted
<1>2. Remembered(k)'
  BY DEF RLInv, Remembered, Forgotten, Limit
<1>3. Apart(k)'
  BY DEF RLInv, Apart, Limit
<1>4. ComesBack(k)'
  BY DEF RLInv, ComesBack, Limit
<1> QED
  BY <1>1, <1>2, <1>3, <1>4

\* The answer Retry-After is at least a second, and short of the end of the window by
\* less than a second.
LEMMA RetryAfterBounds ==
    ASSUME RLTypeOK, NEW k \in Keys, Live(k) # <<>>
    PROVE  /\ RetryAfter(k) \in Nat \ {0}
           /\ Fine * RetryAfter(k) >= Fine
           /\ clock + Fine * RetryAfter(k) + Fine > Live(k)[1] + Window
<1> DEFINE a == Live(k)[1] + Window - clock
           q == a \div Fine
           r == RetryAfter(k)
<1>1. a \in Int /\ clock \in Nat /\ Live(k)[1] \in Nat /\ Window \in Nat /\ Fine \in Nat \ {0}
  <2>1. Live(k)[1] \in Nat
    BY LiveTimes
  <2> QED
    BY <2>1, LimiterConstants DEF RLTypeOK
<1>2. q \in Int /\ a < Fine * q + Fine
  <2> HIDE DEF a
  <2> QED
    BY <1>1, Quotient
<1>3. r = Max({1, q})
  BY DEF RetryAfter
<1> HIDE DEF q, r
<1>4. r \in {1, q} /\ r >= 1 /\ r >= q
  <2>1. \E x \in {1, q} : \A y \in {1, q} : x >= y
    BY <1>2
  <2> QED
    BY <2>1, <1>3, <1>2 DEF Max
<1>5. r \in Nat \ {0}
  BY <1>4, <1>2
<1> HIDE DEF a
<1>6. Fine * r >= Fine /\ Fine * r >= Fine * q
  BY <1>1, <1>2, <1>4, <1>5
<1>7. Fine * r \in Int /\ Fine * q \in Int
  BY <1>1, <1>2, <1>5
<1>8. a < Fine * r + Fine
  BY <1>1, <1>2, <1>6, <1>7
<1>9. clock + Fine * r + Fine > Live(k)[1] + Window
  <2> DEFINE p == Fine * r
             x == Live(k)[1]
  <2>1. p \in Int /\ x \in Nat /\ x + Window - clock < p + Fine
    BY <1>1, <1>7, <1>8 DEF a
  <2> HIDE DEF p, x
  <2>2. clock + p + Fine > x + Window
    BY <1>1, <2>1
  <2> QED
    BY <2>2 DEF p, x
<1> QED
  BY <1>5, <1>6, <1>9 DEF r


\* Append adds its element at the end.
LEMMA Appended ==
    ASSUME NEW S, NEW q \in Seq(S), NEW x \in S
    PROVE  /\ Append(q, x) \in Seq(S)
           /\ Len(Append(q, x)) = Len(q) + 1
           /\ \A i \in 1 .. Len(q) : Append(q, x)[i] = q[i]
           /\ Append(q, x)[Len(q) + 1] = x
OBVIOUS

\* A request that is let through.
LEMMA AllowKeepsInvariant ==
    ASSUME RLInv, NEW k \in Keys, Allow(k)
    PROVE  RLInv'
<1> DEFINE e == events[k]
           s == served[k]
           n == Len(s)
           c == Len(e)
           d == Dropped(k)
           l == Live(k)
           m == Limit(k)
           f == n - c
<1>1. RLTypeOK /\ Sorted(k) /\ Remembered(k) /\ Apart(k)
  BY DEF RLInv
<1>2. /\ e \in Seq(Nat) /\ s \in Seq(Nat) /\ l \in Seq(Nat)
      /\ clock \in Nat /\ Window \in Nat /\ m \in Nat \ {0}
  BY <1>1, LimiterConstants, LiveTimes DEF RLTypeOK
<1>3. d \in 0 .. c /\ Len(l) = c - d
  BY <1>1, LiveTimes
<1>4. \A i \in 1 .. d : e[i] < clock - Window
  BY <1>1, LiveTimes
<1>5. \A i \in 1 .. Len(l) : l[i] = e[d + i]
  BY <1>1, LiveTimes
<1>6. Len(l) < m
  BY <1>2 DEF Allow, Full, Limit
<1>7. /\ clock' = clock
      /\ events' = [events EXCEPT ![k] = Append(l, clock)]
      /\ served' = [served EXCEPT ![k] = Append(s, clock)]
      /\ refusals' = [refusals EXCEPT ![k] = 0]
      /\ retryAt' = [retryAt EXCEPT ![k] = 0]
  BY DEF Allow
<1>8. RLTypeOK'
  <2> HIDE DEF l, s
  <2>1. Append(l, clock) \in Seq(Nat) /\ Append(s, clock) \in Seq(Nat)
    BY <1>2
  <2> QED
    BY <1>1, <1>7, <2>1 DEF RLTypeOK
<1>9. events'[k] = Append(l, clock) /\ served'[k] = Append(s, clock) /\ refusals'[k] = 0
  BY <1>1, <1>7 DEF RLTypeOK
<1>10. n \in Nat /\ c \in Nat /\ c <= n /\ f \in Nat
  BY <1>1, <1>2 DEF Remembered
<1>11. /\ \A i, j \in 1 .. n : i <= j => s[i] <= s[j]
       /\ \A i \in 1 .. n : s[i] <= clock
  BY <1>1 DEF Sorted
<1>12. /\ \A i \in 1 .. c : e[i] = s[f + i]
       /\ \A i \in 1 .. f : s[i] < clock - Window
  BY <1>1 DEF Remembered, Forgotten
<1>13. \A i \in 1 .. n : i + m <= n => s[i] + Window < s[i + m]
  BY <1>1 DEF Apart
<1>14. \A i \in 1 .. n : s[i] \in Nat
  BY <1>2
<1> HIDE DEF d, l, s, e, m
<1>15. /\ Len(events'[k]) = Len(l) + 1
       /\ \A i \in 1 .. Len(l) : events'[k][i] = l[i]
       /\ events'[k][Len(l) + 1] = clock
  BY <1>2, <1>9, Appended
<1>16. /\ Len(served'[k]) = n + 1
       /\ \A i \in 1 .. n : served'[k][i] = s[i]
       /\ served'[k][n + 1] = clock
  BY <1>2, <1>9, Appended
<1> HIDE DEF n, c
<1>17. f + c = n
  BY <1>10
<1> HIDE DEF f
<1>18. \A i \in 1 .. f + d : s[i] < clock - Window
  <2> SUFFICES ASSUME NEW i \in 1 .. f + d, i > f
               PROVE  s[i] < clock - Window
    BY <1>3, <1>10, <1>12
  <2>1. i - f \in 1 .. d /\ i - f \in 1 .. c /\ f + (i - f) = i
    BY <1>3, <1>10
  <2>2. e[i - f] = s[f + (i - f)]
    BY <2>1, <1>12
  <2> QED
    BY <2>1, <2>2, <1>4
<1>19. Sorted(k)'
  <2>1. ASSUME NEW i \in 1 .. n + 1
        PROVE  served'[k][i] <= clock /\ served'[k][i] \in Nat
    <3>1. CASE i = n + 1
      BY <3>1, <1>2, <1>16
    <3>2. CASE i \in 1 .. n
      BY <3>2, <1>11, <1>14, <1>16
    <3> QED
      BY <3>1, <3>2, <1>10
  <2>2. ASSUME NEW i \in 1 .. n + 1, NEW j \in 1 .. n + 1, i <= j
        PROVE  served'[k][i] <= served'[k][j]
    <3>1. CASE j = n + 1
      BY <3>1, <2>1, <1>16
    <3>2. CASE j \in 1 .. n
      <4>1. i \in 1 .. n
        BY <3>2, <2>2, <1>10
      <4> QED
        BY <3>2, <4>1, <2>2, <1>11, <1>16
    <3> QED
      BY <3>1, <3>2, <1>10
  <2> QED
    BY <2>1, <2>2, <1>7, <1>16 DEF Sorted
<1>20. Remembered(k)'
  <2>1. Forgotten(k)' = f + d
    BY <1>3, <1>10, <1>15, <1>16, <1>17 DEF Forgotten
  <2>2. Limit(k)' = m
    BY DEF Limit, m
  <2>3. Len(events'[k]) <= Len(served'[k]) /\ Len(events'[k]) <= m
    BY <1>2, <1>3, <1>6, <1>10, <1>15, <1>16
  <2>4. ASSUME NEW i \in 1 .. Len(events'[k])
        PROVE  events'[k][i] = served'[k][f + d + i]
    <3>1. CASE i = Len(l) + 1
      <4>1. f + d + i = n + 1
        BY <1>3, <1>10, <1>17, <3>1
      <4> QED
        BY <4>1, <3>1, <1>15, <1>16
    <3>2. CASE i \in 1 .. Len(l)
      <4>1. d + i \in 1 .. c /\ f + d + i \in 1 .. n /\ f + (d + i) = f + d + i
        BY <1>3, <1>10, <1>17, <3>2
      <4>2. e[d + i] = s[f + (d + i)]
        BY <4>1, <1>12
      <4> QED
        BY <4>1, <4>2, <3>2, <1>5, <1>15, <1>16
    <3>3. Len(l) \in Nat /\ i \in 1 .. Len(l) + 1
      BY <1>3, <1>10, <1>15, <2>4
    <3> QED
      BY <3>1, <3>2, <3>3
  <2>5. \A i \in 1 .. f + d : served'[k][i] < clock' - Window
    <3>1. \A i \in 1 .. f + d : i \in 1 .. n
      BY <1>3, <1>10, <1>17
    <3> QED
      BY <3>1, <1>7, <1>16, <1>18
  <2> QED
    BY <2>1, <2>2, <2>3, <2>4, <2>5 DEF Remembered
<1>21. Apart(k)'
  <2> SUFFICES ASSUME NEW i \in 1 .. n + 1, i + m <= n + 1
               PROVE  served'[k][i] + Window < served'[k][i + m]
    BY <1>16 DEF Apart, Limit, m
  <2>1. i \in 1 .. n
    BY <1>2, <1>10
  <2>2. CASE i + m <= n
    <3>1. i + m \in 1 .. n
      BY <2>2, <1>2, <1>10
    <3> QED
      BY <2>1, <2>2, <3>1, <1>13, <1>16
  <2>3. CASE i + m = n + 1
    <3>1. i \in 1 .. f + d
      BY <2>1, <2>3, <1>2, <1>3, <1>6, <1>10, <1>17
    <3>2. served'[k][i] = s[i] /\ served'[k][i + m] = clock /\ s[i] \in Nat
      BY <2>1, <2>3, <1>14, <1>16
    <3>3. s[i] < clock - Window
      BY <3>1, <1>18
    <3> QED
      BY <3>2, <3>3, <1>2
  <2>4. i + m <= n \/ i + m = n + 1
    BY <1>2, <1>10
  <2> QED
    BY <2>2, <2>3, <2>4
<1>22. ComesBack(k)'
  BY <1>9 DEF ComesBack
<1>23. ASSUME NEW x \in Keys, x # k
       PROVE  (Sorted(x) /\ Remembered(x) /\ Apart(x) /\ ComesBack(x))'
  <2>1. /\ events'[x] = events[x] /\ served'[x] = served[x]
        /\ retryAt'[x] = retryAt[x] /\ refusals'[x] = refusals[x]
    BY <1>1, <1>7, <1>23 DEF RLTypeOK
  <2> QED
    BY <2>1, <1>7, KeyUnchanged
<1> QED
  BY <1>8, <1>19, <1>20, <1>21, <1>22, <1>23 DEF RLInv

\* A request that is refused.
LEMMA RefuseKeepsInvariant ==
    ASSUME RLInv, NEW k \in Keys, Refuse(k)
    PROVE  RLInv'
<1> DEFINE e == events[k]
           d == Dropped(k)
           l == Live(k)
           p == Fine * RetryAfter(k)
<1>1. RLTypeOK /\ Sorted(k) /\ Remembered(k) /\ Apart(k) /\ ComesBack(k)
  BY DEF RLInv
<1>2. /\ e \in Seq(Nat) /\ l \in Seq(Nat) /\ Len(e) \in Nat /\ Len(l) \in Nat
      /\ clock \in Nat /\ Window \in Nat /\ Fine \in Nat \ {0} /\ Limit(k) \in Nat \ {0}
      /\ retryAt[k] \in Nat /\ refusals[k] \in Nat
  BY <1>1, LimiterConstants, LiveTimes DEF RLTypeOK
<1>3. /\ d \in 0 .. Len(e) /\ Len(l) = Len(e) - d
      /\ \A i \in 1 .. Len(l) : l[i] = e[d + i]
      /\ l # <<>> => l[1] >= clock - Window
  BY <1>1, LiveTimes
<1>4. Len(l) >= Limit(k) /\ Len(e) <= Limit(k)
  BY <1>1 DEF Refuse, Full, Limit, Remembered
<1>5. /\ clock' = clock /\ served' = served
      /\ events' = [events EXCEPT ![k] = l]
      /\ retryAt' = [retryAt EXCEPT ![k] = clock + p]
      /\ refusals' = [refusals EXCEPT ![k] = @ + 1]
      /\ clock >= retryAt[k]
  BY DEF Refuse
<1> HIDE DEF d, l
<1>6. d = 0 /\ Len(e) = Limit(k) /\ Len(l) = Limit(k) /\ l # <<>>
  BY <1>2, <1>3, <1>4
<1>7. /\ \A i \in 1 .. Len(l) : l[i] = e[i]
      /\ l[1] = e[1] /\ e[1] \in Nat /\ e[1] >= clock - Window
  <2>1. \A i \in 1 .. Len(l) : l[i] = e[i]
    BY <1>2, <1>3, <1>6
  <2> QED
    BY <2>1, <1>2, <1>3, <1>6
<1>8. p \in Nat /\ p >= Fine /\ clock + p + Fine > e[1] + Window
  <2>1. /\ RetryAfter(k) \in Nat \ {0} /\ p >= Fine
        /\ clock + p + Fine > l[1] + Window
    BY <1>1, <1>6, RetryAfterBounds DEF l
  <2>2. p \in Nat
    BY <2>1, <1>2
  <2> QED
    BY <2>1, <2>2, <1>7
<1> HIDE DEF p
<1>9. RLTypeOK'
  <2>1. clock + p \in Nat
    BY <1>2, <1>8
  <2>2. events' \in [Keys -> Seq(Nat)] /\ served' \in [Keys -> Seq(Nat)] /\ clock' \in Nat
    BY <1>1, <1>2, <1>5 DEF RLTypeOK
  <2>3. retryAt' \in [Keys -> Nat]
    BY <1>1, <1>5, <2>1 DEF RLTypeOK
  <2>4. refusals' \in [Keys -> Nat]
    BY <1>1, <1>5 DEF RLTypeOK
  <2> QED
    BY <2>2, <2>3, <2>4 DEF RLTypeOK
<1>10. /\ events'[k] = l /\ retryAt'[k] = clock + p /\ refusals'[k] = refusals[k] + 1
  BY <1>1, <1>5 DEF RLTypeOK
<1>11. Sorted(k)' /\ Apart(k)'
  BY <1>1, <1>5 DEF Sorted, Apart, Limit
<1>12. Remembered(k)'
  <2>1. Len(events'[k]) = Len(events[k]) /\ \A i \in 1 .. Len(events[k]) : events'[k][i] = events[k][i]
    BY <1>6, <1>7, <1>10
  <2> QED
    BY <2>1, <1>1, <1>5 DEF Remembered, Forgotten, Limit
<1>13. ComesBack(k)'
  <2> DEFINE first == e[1]
  <2>1. events'[k][1] = first /\ Len(events'[k]) = Limit(k) /\ Limit(k)' = Limit(k)
    BY <1>6, <1>7, <1>10 DEF Limit
  <2>2. CASE refusals[k] = 0
    <3>1. refusals'[k] = 1 /\ retryAt'[k] = clock + p
      BY <2>2, <1>10
    <3>2. retryAt'[k] + Fine > first + Window
      BY <3>1, <1>8
    <3> HIDE DEF first
    <3> QED
      BY <2>1, <3>1, <3>2 DEF ComesBack
  <2>3. CASE refusals[k] = 1
    <3>1. clock + Fine > first + Window
      <4>1. retryAt[k] + Fine > first + Window
        BY <2>3, <1>1 DEF ComesBack
      <4>2. clock >= retryAt[k] /\ first \in Nat
        BY <1>5, <1>7
      <4> HIDE DEF first
      <4> QED
        BY <1>2, <4>1, <4>2
    <3>2. retryAt'[k] > first + Window
      <4>1. retryAt'[k] = clock + p /\ first \in Nat
        BY <1>7, <1>10
      <4> HIDE DEF first
      <4> QED
        BY <3>1, <4>1, <1>2, <1>8
    <3>3. refusals'[k] = 2
      BY <2>3, <1>10
    <3>4. retryAt'[k] + 0 > first + Window
      <4>1. retryAt'[k] = clock + p
        BY <1>10
      <4>2. clock + p \in Nat
        BY <1>2, <1>8
      <4> HIDE DEF first
      <4> QED
        BY <3>2, <4>1, <4>2
    <3> HIDE DEF first
    <3> QED
      BY <2>1, <3>3, <3>4 DEF ComesBack
  <2>4. CASE refusals[k] >= 2
    <3>1. refusals[k] = 2 /\ retryAt[k] > first + Window
      BY <2>4, <1>1, <1>2, <1>7 DEF ComesBack
    <3> QED
      BY <3>1, <1>2, <1>5, <1>7
  <2> QED
    BY <2>2, <2>3, <2>4, <1>2
<1>14. ASSUME NEW x \in Keys, x # k
       PROVE  (Sorted(x) /\ Remembered(x) /\ Apart(x) /\ ComesBack(x))'
  <2>1. /\ events'[x] = events[x] /\ served'[x] = served[x]
        /\ retryAt'[x] = retryAt[x] /\ refusals'[x] = refusals[x]
    BY <1>1, <1>5, <1>14 DEF RLTypeOK
  <2> QED
    BY <2>1, <1>5, KeyUnchanged
<1> QED
  BY <1>9, <1>11, <1>12, <1>13, <1>14 DEF RLInv

\* A tick only makes more of what is forgotten older.
LEMMA TickKeepsInvariant ==
    ASSUME RLInv, ClockTicks
    PROVE  RLInv'
<1>1. /\ clock' = clock + 1 /\ events' = events /\ served' = served
      /\ retryAt' = retryAt /\ refusals' = refusals
  BY DEF ClockTicks
<1>2. RLTypeOK'
  BY <1>1 DEF RLInv, RLTypeOK
<1>3. ASSUME NEW k \in Keys
      PROVE  (Sorted(k) /\ Remembered(k) /\ Apart(k) /\ ComesBack(k))'
  <2>1. /\ served[k] \in Seq(Nat) /\ Len(served[k]) \in Nat /\ Len(events[k]) \in Nat
        /\ \A i \in 1 .. Len(served[k]) : served[k][i] \in Nat
        /\ clock \in Nat /\ Window \in Nat
    BY LimiterConstants DEF RLInv, RLTypeOK
  <2>2. Sorted(k)'
    BY <1>1, <2>1 DEF RLInv, Sorted
  <2>3. Remembered(k)'
    <3>1. \A i \in 1 .. Forgotten(k) : i \in 1 .. Len(served[k])
      BY <2>1 DEF RLInv, Remembered, Forgotten
    <3>2. \A i \in 1 .. Forgotten(k) : served[k][i] < clock + 1 - Window
      BY <2>1, <3>1 DEF RLInv, Remembered
    <3>3. Forgotten(k)' = Forgotten(k) /\ Limit(k)' = Limit(k)
      BY <1>1 DEF Forgotten, Limit
    <3>4. Remembered(k)
      BY DEF RLInv
    <3>5. \A i \in 1 .. Forgotten(k) : served'[k][i] < clock' - Window
      <4>1. clock' = clock + 1 /\ served' = served /\ clock \in Nat /\ Window \in Nat
        BY <1>1, <2>1
      <4> QED
        BY <3>2, <4>1
    <3>6. /\ Len(events'[k]) <= Len(served'[k]) /\ Len(events'[k]) <= Limit(k)
          /\ \A i \in 1 .. Len(events'[k]) : events'[k][i] = served'[k][Forgotten(k) + i]
      BY <1>1, <3>4 DEF Remembered
    <3> QED
      BY <3>3, <3>5, <3>6 DEF Remembered
  <2>4. Apart(k)'
    BY <1>1 DEF RLInv, Apart, Limit
  <2>5. ComesBack(k)'
    BY <1>1 DEF RLInv, ComesBack, Limit
  <2> QED
    BY <2>2, <2>3, <2>4, <2>5
<1> QED
  BY <1>2, <1>3 DEF RLInv

LEMMA LimiterInvariant == RLSpec => []RLInv
<1>1. RLInit => RLInv
  <2> SUFFICES ASSUME RLInit
               PROVE  RLInv
    OBVIOUS
  <2>1. RLTypeOK
    BY DEF RLInit, RLTypeOK
  <2>2. ASSUME NEW k \in Keys
        PROVE  Sorted(k) /\ Remembered(k) /\ Apart(k) /\ ComesBack(k)
    <3>1. events[k] = <<>> /\ served[k] = <<>> /\ refusals[k] = 0 /\ Limit(k) \in Nat
      BY LimiterConstants DEF RLInit
    <3> QED
      BY <3>1 DEF Sorted, Remembered, Apart, ComesBack, Forgotten
  <2> QED
    BY <2>1, <2>2 DEF RLInv
<1>2. RLInv /\ [RLNext]_rlvars => RLInv'
  <2> SUFFICES ASSUME RLInv, [RLNext]_rlvars
               PROVE  RLInv'
    OBVIOUS
  <2>1. CASE ClockTicks
    BY <2>1, TickKeepsInvariant
  <2>2. ASSUME NEW k \in Keys, Allow(k)
        PROVE  RLInv'
    BY <2>2, AllowKeepsInvariant
  <2>3. ASSUME NEW k \in Keys, Refuse(k)
        PROVE  RLInv'
    BY <2>3, RefuseKeepsInvariant
  <2>4. CASE UNCHANGED rlvars
    <3>1. /\ clock' = clock /\ events' = events /\ served' = served
          /\ retryAt' = retryAt /\ refusals' = refusals
      BY <2>4 DEF rlvars
    <3>2. RLTypeOK'
      BY <3>1 DEF RLInv, RLTypeOK
    <3>3. \A k \in Keys : (Sorted(k) /\ Remembered(k) /\ Apart(k) /\ ComesBack(k))'
      BY <3>1, KeyUnchanged
    <3> QED
      BY <3>2, <3>3 DEF RLInv
  <2> QED
    BY <2>1, <2>2, <2>3, <2>4 DEF RLNext
<1> QED
  BY <1>1, <1>2, PTL DEF RLSpec

\* For any clients, limits and window, and for any duration: wherever a window
\* begins, the limiter serves no more requests of a key in it than it allows, though
\* it forgets the times that have left its own window (allow of
\* SlidingWindowRateLimiter).
THEOREM WindowKept == RLSpec => []WindowRespected
<1>1. RLInv => WindowRespected
  <2> SUFFICES ASSUME RLInv, NEW k \in Keys, NEW i \in DOMAIN served[k]
               PROVE  Cardinality({j \in DOMAIN served[k] :
                          served[k][j] \in served[k][i] .. served[k][i] + Window}) <= MostOf[k[2]]
    BY DEF WindowRespected
  <2> DEFINE s == served[k]
             J == {j \in DOMAIN s : s[j] \in s[i] .. s[i] + Window}
             m == Limit(k)
  <2>1. /\ s \in Seq(Nat) /\ DOMAIN s = 1 .. Len(s) /\ Len(s) \in Nat
        /\ \A j \in 1 .. Len(s) : s[j] \in Nat
        /\ Window \in Nat /\ m \in Nat \ {0}
    BY LimiterConstants DEF RLInv, RLTypeOK
  <2>2. J # {} /\ J \in SUBSET Nat
    BY <2>1
  <2>3. PICK a \in J : \A j \in J : a <= j
    BY <2>2, LeastNumber
  <2>4. J \subseteq a .. a + m - 1
    <3> SUFFICES ASSUME NEW j \in J, j >= a + m
                 PROVE  FALSE
      BY <2>1, <2>2, <2>3
    <3>1. a \in 1 .. Len(s) /\ j \in 1 .. Len(s) /\ a + m \in 1 .. Len(s)
      <4>1. a \in 1 .. Len(s) /\ j \in 1 .. Len(s)
        BY <2>1, <2>3
      <4> HIDE DEF s, m
      <4> QED
        BY <4>1, <2>1
    <3>2. s[a] + Window < s[a + m] /\ s[a + m] <= s[j]
      BY <3>1 DEF RLInv, Apart, Sorted
    <3>3. s[i] <= s[a] /\ s[j] <= s[i] + Window
      <4>1. s[a] \in s[i] .. s[i] + Window /\ s[j] \in s[i] .. s[i] + Window
        BY <2>3
      <4> HIDE DEF s, J
      <4> QED
        BY <4>1
    <3>4. s[a] \in Nat /\ s[j] \in Nat /\ s[i] \in Nat /\ s[a + m] \in Nat
      BY <2>1, <3>1
    <3>5. Window \in Nat
      BY <2>1
    <3> HIDE DEF s, m, J
    <3> QED
      BY <3>2, <3>3, <3>4, <3>5
  <2>5. IsFiniteSet(a .. a + m - 1) /\ Cardinality(a .. a + m - 1) = m
    <3> DEFINE b == a + m - 1
    <3>1. a \in Int /\ m \in Nat \ {0}
      BY <2>1, <2>2, <2>3
    <3> HIDE DEF m, J
    <3>2. b \in Int /\ ~ (a > b) /\ b - a + 1 = m
      BY <3>1
    <3> HIDE DEF b
    <3>3. IsFiniteSet(a .. b) /\ Cardinality(a .. b) = m
      BY <3>1, <3>2, FS_Interval
    <3> QED
      BY <3>3 DEF b
  <2>6. Cardinality(J) <= m
    <3> DEFINE R == a .. a + m - 1
    <3>1. J \subseteq R /\ IsFiniteSet(R) /\ Cardinality(R) = m
      BY <2>4, <2>5
    <3> HIDE DEF J, m, R
    <3>2. Cardinality(J) <= Cardinality(R)
      BY <3>1, FS_Subset
    <3> QED
      BY <3>1, <3>2
  <2> QED
    BY <2>6 DEF Limit
<1> QED
  BY <1>1, LimiterInvariant, PTL

\* For any clients, limits, window and Fine: a client that is alone on its key and
\* waits as Retry-After says is never refused a third time (allow and dispatch).
THEOREM RetriesServed == RLSpec => []RetryIsServed
<1>1. RLInv => RetryIsServed
  BY DEF RLInv, RLTypeOK, ComesBack, RetryIsServed
<1> QED
  BY <1>1, LimiterInvariant, PTL

=============================================================================
