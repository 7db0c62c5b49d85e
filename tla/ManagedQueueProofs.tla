------------------------- MODULE ManagedQueueProofs -------------------------
(***************************************************************************)
(* Proofs about ManagedQueue, for any numbers of jobs, workers and         *)
(* channels, and any settings of the manager: what holds of its list of    *)
(* workers, and what holds of the queue below it.                          *)
(***************************************************************************)
EXTENDS ManagedQueue, JobQueueProofs, SharedLemmas

\* The greatest length of the list.
ListCap == Larger(MinWorkers, HardCap)

LEMMA ManagerConstants ==
    /\ MinWorkers \in Nat /\ HardCap \in Nat \ {0} /\ UpCooldown \in Nat /\ DownCooldown \in Nat
    /\ Cardinality(Workers) \in Nat /\ IsFiniteSet(Workers)
    /\ ListCap \in 1 .. Cardinality(Workers)
    /\ MinWorkers <= ListCap /\ HardCap <= ListCap
<1>1. Cardinality(Workers) \in Nat
  BY FS_CardinalityType, ManagerAssumption
<1> QED
  BY <1>1, ManagerAssumption DEF ListCap, Larger

-----------------------------------------------------------------------------
(* The list of workers.                                                    *)

\* The recursive definition of Cleaned has a solution.
LEMMA CleanedEquation ==
    ASSUME pool \in Seq(Workers)
    PROVE  \A n \in 0 .. Len(pool) :
              Cleaned[n] = IF n = 0 THEN <<>>
                           ELSE IF pc[pool[n]] = "down" THEN Cleaned[n - 1]
                           ELSE Append(Cleaned[n - 1], pool[n])
<1> DEFINE L == Len(pool)
           Turn(g, n) == IF n = 0 THEN <<>>
                         ELSE IF pc[pool[n]] = "down" THEN g[n - 1]
                         ELSE Append(g[n - 1], pool[n])
           T == {n \in Nat : \E g : g = [i \in 0 .. n |-> Turn(g, i)]}
<1>1. 0 \in T
  <2> DEFINE g == [i \in 0 .. 0 |-> <<>>]
  <2>1. g = [i \in 0 .. 0 |-> Turn(g, i)]
    BY 0 .. 0 = {0}
  <2> QED
    BY <2>1
<1>2. ASSUME NEW n \in Nat, n \in T
      PROVE  n + 1 \in T
  <2>1. PICK g : g = [i \in 0 .. n |-> Turn(g, i)]
    BY <1>2
  <2> HIDE DEF Turn
  <2> DEFINE h == [i \in 0 .. n + 1 |-> IF i <= n THEN g[i] ELSE Turn(g, n + 1)]
  <2>2. ASSUME NEW i \in 0 .. n + 1
        PROVE  h[i] = Turn(h, i)
    <3>1. CASE i = 0
      <4>1. h[i] = g[0] /\ g[0] = Turn(g, 0)
        BY <2>1, <3>1
      <4> QED
        BY <3>1, <4>1 DEF Turn
    <3>2. CASE i \in 1 .. n
      <4>1. i \in 0 .. n /\ i <= n /\ i - 1 \in 0 .. n + 1 /\ i - 1 \in 0 .. n /\ i - 1 <= n
        BY <3>2
      <4>2. h[i] = g[i] /\ h[i - 1] = g[i - 1]
        BY <4>1
      <4>3. g[i] = Turn(g, i)
        BY <2>1, <4>1
      <4> QED
        BY <3>2, <4>2, <4>3 DEF Turn
    <3>3. CASE i = n + 1
      <4>1. h[i] = Turn(g, n + 1) /\ h[n] = g[n] /\ i - 1 = n
        BY <3>3
      <4> QED
        BY <3>3, <4>1 DEF Turn
    <3> QED
      BY <3>1, <3>2, <3>3
  <2>3. h = [i \in 0 .. n + 1 |-> h[i]]
    OBVIOUS
  <2> HIDE DEF h
  <2>4. h = [i \in 0 .. n + 1 |-> Turn(h, i)]
    BY <2>2, <2>3
  <2> QED
    BY <2>4
<1>3. Len(pool) \in T
  <2> HIDE DEF T
  <2>1. Nat \subseteq T
    BY <1>1, <1>2, SetInduction
  <2> QED
    BY <2>1
<1>4. \E g : g = [i \in 0 .. L |-> Turn(g, i)]
  BY <1>3
<1>5. Cleaned = CHOOSE g : g = [i \in 0 .. L |-> Turn(g, i)]
  BY DEF Cleaned
<1> HIDE DEF Turn
<1>6. Cleaned = [i \in 0 .. L |-> Turn(Cleaned, i)]
  BY <1>4, <1>5
<1> QED
  BY <1>6 DEF Turn

\* What _cleanup_dead_workers returns: the workers of the list that run, each once,
\* and none that was not in it.
LEMMA CleanedList ==
    ASSUME pool \in Seq(Workers),
           \A i, k \in 1 .. Len(pool) : pool[i] = pool[k] => i = k
    PROVE  LET a == Cleaned[Len(pool)]
           IN  /\ a \in Seq(Workers) /\ Len(a) <= Len(pool)
               /\ \A k \in 1 .. Len(pool) :
                     pc[pool[k]] # "down" => \E i \in 1 .. Len(a) : a[i] = pool[k]
               /\ \A i \in 1 .. Len(a) : \E k \in 1 .. Len(pool) : a[i] = pool[k]
               /\ \A i, k \in 1 .. Len(a) : a[i] = a[k] => i = k
<1> DEFINE L == Len(pool)
           Good(n) ==
              /\ Cleaned[n] \in Seq(Workers) /\ Len(Cleaned[n]) <= n
              /\ \A k \in 1 .. n :
                    pc[pool[k]] # "down" =>
                       \E i \in 1 .. Len(Cleaned[n]) : Cleaned[n][i] = pool[k]
              /\ \A i \in 1 .. Len(Cleaned[n]) : \E k \in 1 .. n : Cleaned[n][i] = pool[k]
              /\ \A i, k \in 1 .. Len(Cleaned[n]) : Cleaned[n][i] = Cleaned[n][k] => i = k
           T == {n \in Nat : n <= L => Good(n)}
<1>0. L \in Nat
  OBVIOUS
<1>1. 0 \in T
  <2>1. Cleaned[0] = <<>>
    BY CleanedEquation, <1>0
  <2>2. <<>> \in Seq(Workers) /\ Len(<<>>) = 0 /\ 1 .. 0 = {}
    OBVIOUS
  <2>3. Good(0)
    BY <2>1, <2>2
  <2> QED
    BY <2>3
<1>2. ASSUME NEW n \in Nat, n \in T
      PROVE  n + 1 \in T
  <2> SUFFICES ASSUME n + 1 <= L
               PROVE  Good(n + 1)
    OBVIOUS
  <2> DEFINE c == Cleaned[n]
             w == pool[n + 1]
  <2>1. Good(n)
    BY <1>0, <1>2
  <2>2. w \in Workers /\ \A k \in 1 .. n : pool[k] # w
    BY <1>0
  <2>3. Cleaned[n + 1] = IF pc[w] = "down" THEN c ELSE Append(c, w)
    BY <1>0, CleanedEquation
  <2>4. \A k \in 1 .. n + 1 : k \in 1 .. n \/ k = n + 1
    OBVIOUS
  <2>5. CASE pc[w] = "down"
    <3>1. Cleaned[n + 1] = c
      BY <2>3, <2>5
    <3> QED
      BY <2>1, <2>4, <2>5, <3>1
  <2>6. CASE pc[w] # "down"
    <3> DEFINE b == Append(c, w)
    <3>1. Cleaned[n + 1] = b
      BY <2>3, <2>6
    <3> HIDE DEF w
    <3>2. c \in Seq(Workers) /\ Len(c) \in Nat /\ Len(c) <= n
      BY <2>1
    <3>3. /\ \A k \in 1 .. n :
                pc[pool[k]] # "down" => \E i \in 1 .. Len(c) : c[i] = pool[k]
          /\ \A i \in 1 .. Len(c) : \E k \in 1 .. n : c[i] = pool[k]
          /\ \A i, k \in 1 .. Len(c) : c[i] = c[k] => i = k
      BY <2>1
    <3> HIDE DEF c
    <3>4. /\ b \in Seq(Workers) /\ Len(b) = Len(c) + 1
          /\ \A i \in 1 .. Len(c) : b[i] = c[i]
          /\ b[Len(c) + 1] = w
      BY <2>2, <3>2
    <3> HIDE DEF b
    <3>5. \A i \in 1 .. Len(b) : i \in 1 .. Len(c) \/ i = Len(c) + 1
      BY <3>2, <3>4
    <3>6. \A i \in 1 .. Len(c) : c[i] # w /\ i \in 1 .. Len(b)
      BY <2>2, <3>2, <3>3, <3>4
    <3>7. \A i, k \in 1 .. Len(b) : b[i] = b[k] => i = k
      BY <3>3, <3>4, <3>5, <3>6
    <3>8. \A i \in 1 .. Len(b) : \E k \in 1 .. n + 1 : b[i] = pool[k]
      <4> SUFFICES ASSUME NEW i \in 1 .. Len(b)
                   PROVE  \E k \in 1 .. n + 1 : b[i] = pool[k]
        OBVIOUS
      <4>1. CASE i \in 1 .. Len(c)
        <5>1. PICK k \in 1 .. n : c[i] = pool[k]
          BY <3>3, <4>1
        <5> QED
          BY <3>4, <4>1, <5>1
      <4>2. CASE i = Len(c) + 1
        BY <3>4, <4>2 DEF w
      <4> QED
        BY <3>5, <4>1, <4>2
    <3>9. \A k \in 1 .. n + 1 :
             pc[pool[k]] # "down" => \E i \in 1 .. Len(b) : b[i] = pool[k]
      <4> SUFFICES ASSUME NEW k \in 1 .. n + 1, pc[pool[k]] # "down"
                   PROVE  \E i \in 1 .. Len(b) : b[i] = pool[k]
        OBVIOUS
      <4>1. CASE k \in 1 .. n
        <5>1. PICK i \in 1 .. Len(c) : c[i] = pool[k]
          BY <3>3, <4>1
        <5> QED
          BY <3>4, <3>6, <5>1
      <4>2. CASE k = n + 1
        BY <3>2, <3>4, <4>2 DEF w
      <4> QED
        BY <2>4, <4>1, <4>2
    <3>10. Len(b) <= n + 1
      BY <3>2, <3>4
    <3> QED
      BY <3>1, <3>4, <3>7, <3>8, <3>9, <3>10
  <2> QED
    BY <2>5, <2>6
<1>3. Good(L)
  <2> HIDE DEF Good
  <2>1. 0 \in T /\ \A n \in Nat : n \in T => n + 1 \in T
    BY <1>1, <1>2
  <2>2. Nat \subseteq T
    <3> HIDE DEF T
    <3> QED
      BY <2>1, SetInduction
  <2> QED
    BY <1>0, <2>2
<1> QED
  BY <1>3

\* The number of workers that _compute_desired_workers, --min-workers and the
\* cooldowns leave is within the cap when the list is.
LEMMA DesiredInCap ==
    ASSUME NEW r \in Recommended, NEW size \in 0 .. ListCap
    PROVE  Damped(AtLeastMin(Desired(QueueDepth, r)), size) \in 0 .. ListCap
<1> DEFINE target == Larger(1, TargetQueue)
           cap == Larger(1, Smaller(r, Larger(1, HardCap)))
           wanted == CeilDiv(QueueDepth, target)
<1>1. target \in Nat \ {0} /\ cap \in Nat /\ cap <= HardCap
  BY ManagerAssumption, ManagerConstants DEF Larger, Smaller
<1>2. QueueDepth \in Nat
  <2>1. IsFiniteSet({j \in Jobs : status[j] \in Counted})
    BY FS_Subset, ManagerAssumption
  <2> QED
    BY <2>1, FS_CardinalityType DEF QueueDepth
<1>3. wanted \in Int
  <2> DEFINE a == QueueDepth + target - 1
  <2>1. a \in Int
    BY <1>1, <1>2
  <2> HIDE DEF a, target
  <2>2. a \div target \in Int
    BY <1>1, <2>1, Quotient
  <2> QED
    BY <2>2 DEF CeilDiv, a
<1>4. Desired(QueueDepth, r) = Smaller(wanted, cap)
  BY DEF Desired
<1> HIDE DEF wanted, cap
<1>5. Desired(QueueDepth, r) \in Int /\ Desired(QueueDepth, r) <= HardCap
  BY <1>1, <1>3, <1>4, ManagerConstants DEF Smaller
<1>6. AtLeastMin(Desired(QueueDepth, r)) \in 0 .. ListCap
  BY <1>5, ManagerConstants DEF AtLeastMin, Larger
<1> QED
  BY <1>6 DEF Damped

NoTwice == \A i, k \in 1 .. Len(pool) : pool[i] = pool[k] => i = k
RunningKnown ==
    \A w \in Workers : pc[w] # "down" => InPool(w) \/ w = hand \/ w \in lost

\* The hand is full between a start and the entry in the list, and between the removal
\* from the list and the stop.
HandHeld ==
    /\ hand # NoWorker <=> mpc \in {"starting", "ending"}
    /\ ~ InPool(hand)

\* There is room in the list for the worker in the hand.
Room ==
    /\ Len(pool) <= ListCap
    /\ mpc = "starting" => Len(pool) < desired
    /\ mpc = "ending" => Len(pool) < ListCap

LostCounted == kills = 0 => Cardinality(lost) <= leaves

\* The invariant of the manager: no process that is neither listed nor held nor left
\* behind, no more of them than the cap, and no target above it.
PoolInv ==
    /\ MTypeOK /\ HasJob
    /\ NoTwice /\ RunningKnown /\ HandHeld /\ Room /\ LostCounted
    /\ mpc = "gone" => pool = <<>>

\* The places of a list of n workers.
LEMMA PlacesCounted ==
    ASSUME NEW n \in Nat
    PROVE  IsFiniteSet(1 .. n) /\ Cardinality(1 .. n) = n
<1>1. IsFiniteSet(1 .. n) /\ Cardinality(1 .. n) = IF 1 > n THEN 0 ELSE n - 1 + 1
  BY FS_Interval
<1> QED
  BY <1>1

\* No step of the API or of a worker starts one.
LEMMA WorkersDoNotStart ==
    ASSUME TypeOK, WorkerStep
    PROVE  [Next]_vars /\ \A w \in Workers : pc'[w] # "down" => pc[w] # "down"
<1>1. ASSUME NEW j \in Jobs, Submit(j)
      PROVE  pc' = pc
  BY <1>1 DEF Submit, locals
<1>2. ASSUME NEW w \in Workers,
             Advance(w) \/ IdleBeat(w) \/ Raise(w) \/ Stop(w)
      PROVE  pc[w] # "down" /\ \A v \in Workers : v # w => pc'[v] = pc[v]
  <2> USE DEF TypeOK, locals, rows, content, Busy
  <2>1. CASE IdleBeat(w) \/ Raise(w) \/ Stop(w)
    BY <2>1 DEF IdleBeat, Raise, Stop, Halt
  <2>2. CASE ReleaseStale(w) \/ Pick(w) \/ NothingToPick(w) \/ Claim(w) \/ ClaimLost(w)
    BY <2>2 DEF ReleaseStale, Pick, NothingToPick, Claim, ClaimLost
  <2>3. CASE Start(w) \/ Reset(w) \/ TouchBefore(w) \/ OpenChannel(w) \/ Transcribe(w)
    BY <2>3 DEF Start, Reset, TouchBefore, OpenChannel, Transcribe
  <2>4. CASE TranscribeFails(w) \/ TouchAfter(w) \/ WriteChannel(w) \/ CheckChannels(w)
    BY <2>4 DEF TranscribeFails, TouchAfter, WriteChannel, CheckChannels
  <2>5. CASE Complete(w) \/ Reported(w) \/ LoadFailed(w) \/ Bury(w)
    BY <2>5 DEF Complete, Reported, LoadFailed, Bury, BackToPoll
  <2> QED
    BY <1>2, <2>1, <2>2, <2>3, <2>4, <2>5 DEF Advance
<1>3. [Next]_vars
  BY DEF WorkerStep, Next
<1> QED
  BY <1>1, <1>2, <1>3 DEF WorkerStep

\* A worker that is stopped leaves the queue as it was.
LEMMA HaltType ==
    ASSUME TypeOK, HasJob, NEW w \in Workers, StopWorker(w)
    PROVE  /\ TypeOK' /\ HasJob'
           /\ pc'[w] = "down" /\ \A v \in Workers : v # w => pc'[v] = pc[v]
<1>1. CASE pc[w] = "down" /\ UNCHANGED vars
  BY <1>1, TypeStep DEF vars, locals
<1>2. CASE Halt(w) /\ UNCHANGED stops
  BY <1>2, Values, QueueAssumption DEF TypeOK, HasJob, Busy, Halt, rows, content
<1> QED
  BY <1>1, <1>2 DEF StopWorker

\* The target of a tick is within the cap.
LEMMA TargetType == MTypeOK => desired \in 0 .. ListCap
  BY DEF MTypeOK, ListCap

\* A step that leaves the manager alone and starts no worker.
LEMMA SameManager ==
    ASSUME PoolInv, TypeOK', HasJob',
           UNCHANGED <<pool, hand, lost, desired, mpc, leaves, kills>>,
           upCool' \in 0 .. UpCooldown, downCool' \in 0 .. DownCooldown,
           \A w \in Workers : pc'[w] # "down" => pc[w] # "down"
    PROVE  PoolInv'
<1>1. MTypeOK'
  BY DEF PoolInv, MTypeOK
<1>2. NoTwice' /\ RunningKnown'
  BY DEF PoolInv, NoTwice, RunningKnown, InPool
<1>3. HandHeld'
  BY DEF PoolInv, HandHeld, InPool
<1>4. Room'
  BY DEF PoolInv, Room, ListCap
<1>5. LostCounted' /\ (mpc' = "gone" => pool' = <<>>)
  BY DEF PoolInv, LostCounted
<1> QED
  BY <1>1, <1>2, <1>3, <1>4, <1>5 DEF PoolInv

\* The cooldowns after a step of the manager.
LEMMA CooldownType ==
    ASSUME MTypeOK, NEW u \in {upCool, 0, UpCooldown}, NEW d \in {downCool, 0, DownCooldown}
    PROVE  u \in 0 .. UpCooldown /\ d \in 0 .. DownCooldown
  BY ManagerConstants DEF MTypeOK

\* workers.pop() removes the last element.
LEMMA WithoutLast ==
    ASSUME NEW S, NEW q \in Seq(S), Len(q) > 0
    PROVE  /\ SubSeq(q, 1, Len(q) - 1) \in Seq(S)
           /\ Len(SubSeq(q, 1, Len(q) - 1)) = Len(q) - 1
           /\ \A i \in 1 .. Len(q) - 1 : SubSeq(q, 1, Len(q) - 1)[i] = q[i]
<1> DEFINE n == Len(q) - 1
<1>1. n \in Nat /\ n <= Len(q)
  OBVIOUS
<1> HIDE DEF n
<1>2. SubSeq(q, 1, n) \in Seq(S) /\ Len(SubSeq(q, 1, n)) = n
  BY <1>1
<1>3. \A i \in 1 .. n : SubSeq(q, 1, n)[i] = q[i]
  BY <1>1
<1> QED
  BY <1>2, <1>3 DEF n

\* The manager wakes up again, or goes to sleep.
LEMMA RestStep ==
    ASSUME PoolInv, BootManager \/ Sleep
    PROVE  PoolInv'
<1>1. /\ UNCHANGED vars /\ UNCHANGED <<pool, hand, lost, desired, leaves, kills>>
      /\ mpc \in {"gone", "scaling"} /\ mpc' = "asleep"
      /\ upCool' \in {upCool, 0, UpCooldown} /\ downCool' \in {downCool, 0, DownCooldown}
  BY DEF BootManager, Sleep
<1>2. TypeOK' /\ HasJob' /\ pc' = pc
  BY <1>1, TypeStep DEF PoolInv, MTypeOK, vars, locals
<1>3. MTypeOK'
  BY <1>1, <1>2, CooldownType DEF PoolInv, MTypeOK
<1>4. NoTwice' /\ RunningKnown'
  BY <1>1, <1>2 DEF PoolInv, NoTwice, RunningKnown, InPool
<1>5. HandHeld'
  BY <1>1 DEF PoolInv, HandHeld, InPool
<1>6. Room'
  BY <1>1 DEF PoolInv, Room, ListCap
<1>7. LostCounted' /\ (mpc' = "gone" => pool' = <<>>)
  BY <1>1 DEF PoolInv, LostCounted
<1> QED
  BY <1>2, <1>3, <1>4, <1>5, <1>6, <1>7 DEF PoolInv

\* A tick begins: the dead workers leave the list, the target is set.
LEMMA MeasureStep ==
    ASSUME PoolInv, Measure
    PROVE  PoolInv'
<1> DEFINE a == Cleaned[Len(pool)]
<1>1. /\ UNCHANGED vars /\ pool' = a /\ mpc = "asleep" /\ mpc' = "scaling"
      /\ UNCHANGED <<hand, lost, upCool, downCool, leaves, kills>>
  BY DEF Measure
<1>2. /\ pool \in Seq(Workers) /\ Len(pool) \in Nat /\ Len(pool) <= ListCap
      /\ \A i, k \in 1 .. Len(pool) : pool[i] = pool[k] => i = k
  BY DEF PoolInv, MTypeOK, NoTwice, Room
<1>3. /\ a \in Seq(Workers) /\ Len(a) <= Len(pool)
      /\ \A k \in 1 .. Len(pool) :
            pc[pool[k]] # "down" => \E i \in 1 .. Len(a) : a[i] = pool[k]
      /\ \A i \in 1 .. Len(a) : \E k \in 1 .. Len(pool) : a[i] = pool[k]
      /\ \A i, k \in 1 .. Len(a) : a[i] = a[k] => i = k
  BY <1>2, CleanedList
<1>4. PICK r \in Recommended :
         desired' = Damped(AtLeastMin(Desired(QueueDepth, r)), Len(a))
  BY DEF Measure
<1> HIDE DEF a
<1>5. Len(a) \in 0 .. ListCap
  BY <1>2, <1>3, ManagerConstants
<1>6. desired' \in 0 .. ListCap
  BY <1>4, <1>5, DesiredInCap
<1>7. TypeOK' /\ HasJob' /\ pc' = pc
  BY <1>1, TypeStep DEF PoolInv, MTypeOK, vars, locals
<1>8. MTypeOK'
  <2>1. pool' \in Seq(Workers) /\ desired' \in 0 .. Larger(MinWorkers, HardCap)
    BY <1>1, <1>3, <1>6 DEF ListCap
  <2> QED
    BY <1>1, <1>7, <2>1 DEF PoolInv, MTypeOK
<1>9. RunningKnown'
  <2> SUFFICES ASSUME NEW w \in Workers, pc[w] # "down"
               PROVE  InPool(w)' \/ w = hand \/ w \in lost
    BY <1>1, <1>7 DEF RunningKnown
  <2>1. CASE InPool(w)
    <3>1. PICK k \in 1 .. Len(pool) : pool[k] = w
      BY <2>1 DEF InPool
    <3> QED
      BY <1>1, <1>3, <3>1 DEF InPool
  <2>2. CASE w = hand \/ w \in lost
    BY <2>2
  <2> QED
    BY <2>1, <2>2 DEF PoolInv, RunningKnown
<1>10. NoTwice'
  BY <1>1, <1>3 DEF NoTwice
<1>11. HandHeld'
  <2>1. ~ InPool(hand)'
    BY <1>1, <1>3 DEF PoolInv, HandHeld, InPool
  <2> QED
    BY <1>1, <2>1 DEF PoolInv, HandHeld
<1>12. Room' /\ LostCounted' /\ (mpc' = "gone" => pool' = <<>>)
  BY <1>1, <1>5 DEF PoolInv, Room, LostCounted, ListCap
<1> QED
  BY <1>7, <1>8, <1>9, <1>10, <1>11, <1>12 DEF PoolInv

\* The workers that are left behind, after one more was or after one id is used again.
LEMMA LostSize ==
    ASSUME MTypeOK, NEW w
    PROVE  /\ Cardinality(lost) \in Nat
           /\ Cardinality(lost \ {w}) \in Nat /\ Cardinality(lost \ {w}) <= Cardinality(lost)
           /\ Cardinality(lost \cup {w}) \in Nat
           /\ Cardinality(lost \cup {w}) <= Cardinality(lost) + 1
<1>1. IsFiniteSet(lost)
  BY FS_Subset, ManagerConstants DEF MTypeOK
<1>2. Cardinality(lost) \in Nat
  BY <1>1, FS_CardinalityType
<1>3. IsFiniteSet(lost \ {w}) /\ Cardinality(lost \ {w}) \in {Cardinality(lost), Cardinality(lost) - 1}
  BY <1>1, FS_RemoveElement
<1>4. /\ IsFiniteSet(lost \cup {w})
      /\ Cardinality(lost \cup {w}) \in {Cardinality(lost), Cardinality(lost) + 1}
  BY <1>1, FS_AddElement
<1>5. Cardinality(lost \ {w}) \in Nat
  BY <1>3, FS_CardinalityType
<1> QED
  BY <1>2, <1>3, <1>4, <1>5

\* The process is started: it is in the hand.
LEMMA SpawnStep ==
    ASSUME PoolInv, Spawn
    PROVE  PoolInv'
<1>1. PICK w \in Workers : Unused(w) /\ Boot(w) /\ hand' = w /\ lost' = lost \ {w}
  BY DEF Spawn
<1>2. /\ mpc = "scaling" /\ Len(pool) < desired /\ mpc' = "starting"
      /\ UNCHANGED <<pool, desired, upCool, downCool, leaves, kills>>
  BY DEF Spawn
<1>3. TypeOK' /\ HasJob'
  BY <1>1, TypeStep DEF PoolInv, MTypeOK, Next
<1>4. \A v \in Workers : v # w => pc'[v] = pc[v]
  BY <1>1 DEF PoolInv, MTypeOK, TypeOK, Boot
<1>5. MTypeOK'
  BY <1>1, <1>2, <1>3 DEF PoolInv, MTypeOK
<1>6. hand = NoWorker
  BY <1>2 DEF PoolInv, HandHeld
<1>7. RunningKnown'
  <2> SUFFICES ASSUME NEW v \in Workers, pc'[v] # "down", v # w
               PROVE  InPool(v)' \/ v \in lost'
    BY <1>1 DEF RunningKnown
  <2>1. pc[v] # "down" /\ v # hand
    BY <1>4, <1>6, QueueAssumption
  <2>2. InPool(v) \/ v \in lost
    BY <2>1 DEF PoolInv, RunningKnown
  <2> QED
    BY <1>1, <1>2, <2>2 DEF InPool
<1>8. HandHeld'
  <2>1. ~ InPool(hand)' /\ hand' # NoWorker
    BY <1>1, <1>2, QueueAssumption DEF Unused, InPool
  <2> QED
    BY <1>2, <2>1 DEF HandHeld
<1>9. NoTwice' /\ (mpc' = "gone" => pool' = <<>>)
  BY <1>2 DEF PoolInv, NoTwice
<1>10. Room'
  BY <1>2 DEF PoolInv, Room, ListCap
<1>11. LostCounted'
  <2> SUFFICES ASSUME kills = 0
               PROVE  Cardinality(lost \ {w}) <= leaves
    BY <1>1, <1>2 DEF LostCounted
  <2>1. Cardinality(lost) <= leaves /\ leaves \in Nat /\ MTypeOK
    BY DEF PoolInv, LostCounted, MTypeOK
  <2>2. /\ Cardinality(lost \ {w}) <= Cardinality(lost)
        /\ Cardinality(lost) \in Nat /\ Cardinality(lost \ {w}) \in Nat
    BY <2>1, LostSize
  <2> QED
    BY <2>1, <2>2
<1> QED
  BY <1>3, <1>5, <1>7, <1>8, <1>9, <1>10, <1>11 DEF PoolInv

\* The worker in the hand is put on the list.
LEMMA EnlistStep ==
    ASSUME PoolInv, Enlist
    PROVE  PoolInv'
<1>1. /\ mpc = "starting" /\ mpc' = "scaling" /\ pool' = Append(pool, hand)
      /\ hand' = NoWorker /\ upCool' = UpCooldown
      /\ UNCHANGED vars /\ UNCHANGED <<lost, desired, downCool, leaves, kills>>
  BY DEF Enlist
<1>2. /\ hand \in Workers /\ ~ InPool(hand) /\ pool \in Seq(Workers) /\ Len(pool) \in Nat
      /\ Len(pool) < desired /\ desired \in 0 .. ListCap
  BY <1>1, TargetType DEF PoolInv, HandHeld, MTypeOK, Room
<1>3. TypeOK' /\ HasJob' /\ pc' = pc
  BY <1>1, TypeStep DEF PoolInv, MTypeOK, vars, locals
<1>4. /\ pool' \in Seq(Workers) /\ Len(pool') = Len(pool) + 1
      /\ \A i \in 1 .. Len(pool) : pool'[i] = pool[i]
      /\ pool'[Len(pool) + 1] = hand
  BY <1>1, <1>2
<1>5. \A i \in 1 .. Len(pool') : i \in 1 .. Len(pool) \/ i = Len(pool) + 1
  BY <1>2, <1>4
<1>6. MTypeOK'
  BY <1>1, <1>3, <1>4, CooldownType DEF PoolInv, MTypeOK
<1>7. NoTwice'
  <2>1. \A i \in 1 .. Len(pool) : pool[i] # hand
    BY <1>2 DEF InPool
  <2> QED
    BY <1>2, <1>4, <1>5, <2>1 DEF PoolInv, NoTwice
<1>8. \A w \in Workers : InPool(w) \/ w = hand => InPool(w)'
  <2> SUFFICES ASSUME NEW w \in Workers, InPool(w) \/ w = hand
               PROVE  \E i \in 1 .. Len(pool') : pool'[i] = w
    BY DEF InPool
  <2>1. CASE w = hand
    BY <1>2, <1>4, <2>1
  <2>2. CASE InPool(w)
    <3>1. PICK i \in 1 .. Len(pool) : pool[i] = w
      BY <2>2 DEF InPool
    <3>2. i \in 1 .. Len(pool') /\ pool'[i] = w
      BY <1>2, <1>4, <3>1
    <3> QED
      BY <3>2
  <2> QED
    BY <2>1, <2>2
<1>9. RunningKnown'
  BY <1>1, <1>3, <1>8 DEF PoolInv, RunningKnown
<1>10. HandHeld'
  <2>1. ~ InPool(NoWorker)'
    BY <1>4, QueueAssumption DEF InPool
  <2>2. ~ InPool(hand)'
    BY <1>1, <2>1 DEF InPool
  <2> QED
    BY <1>1, <2>2 DEF HandHeld
<1>11. Room'
  BY <1>1, <1>2, <1>4, ManagerConstants DEF Room, ListCap
<1>12. LostCounted' /\ (mpc' = "gone" => pool' = <<>>)
  BY <1>1 DEF PoolInv, LostCounted
<1> QED
  BY <1>3, <1>6, <1>7, <1>9, <1>10, <1>11, <1>12 DEF PoolInv

\* The last worker is taken off the list.
LEMMA PopStep ==
    ASSUME PoolInv, PopLast
    PROVE  PoolInv'
<1> DEFINE n == Len(pool)
<1>1. /\ mpc = "scaling" /\ mpc' = "ending" /\ n > desired
      /\ pool' = SubSeq(pool, 1, n - 1) /\ hand' = pool[n]
      /\ UNCHANGED vars /\ UNCHANGED <<lost, desired, upCool, downCool, leaves, kills>>
  BY DEF PopLast
<1>2. pool \in Seq(Workers) /\ n \in Nat /\ n <= ListCap /\ desired \in 0 .. ListCap
  BY TargetType DEF PoolInv, MTypeOK, Room
<1>3. n \in Nat \ {0} /\ pool[n] \in Workers
  BY <1>1, <1>2, ManagerConstants
<1>4. TypeOK' /\ HasJob' /\ pc' = pc
  BY <1>1, TypeStep DEF PoolInv, MTypeOK, vars, locals
<1>n. NoTwice
  BY DEF PoolInv
<1> HIDE DEF n
<1>5. /\ pool' \in Seq(Workers) /\ Len(pool') = n - 1
      /\ \A i \in 1 .. n - 1 : pool'[i] = pool[i]
  <2>1. pool \in Seq(Workers) /\ Len(pool) > 0
    BY <1>2, <1>3 DEF n
  <2> QED
    BY <1>1, <2>1, WithoutLast DEF n
<1>6. MTypeOK'
  BY <1>1, <1>3, <1>4, <1>5 DEF PoolInv, MTypeOK
<1>7. NoTwice'
  BY <1>3, <1>5, <1>n DEF NoTwice, n
<1>8. RunningKnown'
  <2> SUFFICES ASSUME NEW w \in Workers, pc[w] # "down", w # pool[n]
               PROVE  InPool(w)' \/ w \in lost
    BY <1>1, <1>4 DEF RunningKnown
  <2>1. hand = NoWorker
    BY <1>1 DEF PoolInv, HandHeld
  <2>2. InPool(w) \/ w \in lost
    BY <2>1, QueueAssumption DEF PoolInv, RunningKnown
  <2>3. CASE InPool(w)
    <3>1. PICK i \in 1 .. n : pool[i] = w
      BY <2>3 DEF InPool, n
    <3>2. i \in 1 .. n - 1
      BY <1>3, <3>1
    <3> QED
      BY <1>5, <3>1, <3>2 DEF InPool
  <2> QED
    BY <2>2, <2>3
<1>9. HandHeld'
  <2>1. \A i \in 1 .. n - 1 : pool[i] # pool[n]
    BY <1>3, <1>n DEF NoTwice, n
  <2>2. ~ InPool(hand)'
    BY <1>1, <1>5, <2>1 DEF InPool
  <2>3. hand' # NoWorker
    BY <1>1, <1>3, QueueAssumption
  <2> QED
    BY <1>1, <2>2, <2>3 DEF HandHeld
<1>10. Room'
  BY <1>1, <1>2, <1>3, <1>5, ManagerConstants DEF Room, ListCap
<1>11. LostCounted' /\ (mpc' = "gone" => pool' = <<>>)
  BY <1>1 DEF PoolInv, LostCounted
<1> QED
  BY <1>4, <1>6, <1>7, <1>8, <1>9, <1>10, <1>11 DEF PoolInv

\* The worker in the hand is stopped.
LEMMA StopPoppedStep ==
    ASSUME PoolInv, StopPopped
    PROVE  PoolInv'
<1>1. /\ mpc = "ending" /\ mpc' = "scaling" /\ StopWorker(hand)
      /\ hand' = NoWorker /\ downCool' = DownCooldown
      /\ UNCHANGED <<pool, lost, desired, upCool, leaves, kills>>
  BY DEF StopPopped
<1>2. hand \in Workers
  BY <1>1 DEF PoolInv, HandHeld, MTypeOK
<1>3. /\ TypeOK' /\ HasJob'
      /\ pc'[hand] = "down" /\ \A v \in Workers : v # hand => pc'[v] = pc[v]
  BY <1>1, <1>2, HaltType DEF PoolInv, MTypeOK
<1>4. MTypeOK'
  BY <1>1, <1>3, CooldownType DEF PoolInv, MTypeOK
<1>5. NoTwice'
  BY <1>1 DEF PoolInv, NoTwice
<1>6. RunningKnown'
  BY <1>1, <1>3 DEF PoolInv, RunningKnown, InPool
<1>7. HandHeld'
  <2>1. ~ InPool(NoWorker)'
    BY <1>1, QueueAssumption DEF InPool, PoolInv, MTypeOK
  <2>2. ~ InPool(hand)'
    BY <1>1, <2>1 DEF InPool
  <2> QED
    BY <1>1, <2>2 DEF HandHeld
<1>8. Room'
  BY <1>1 DEF PoolInv, Room, ListCap
<1>9. LostCounted' /\ (mpc' = "gone" => pool' = <<>>)
  BY <1>1 DEF PoolInv, LostCounted
<1> QED
  BY <1>3, <1>4, <1>5, <1>6, <1>7, <1>8, <1>9 DEF PoolInv

\* An interruption leaves the worker in the hand behind, if there is one.
LEMMA LeaveStep ==
    ASSUME PoolInv, Leave
    PROVE  PoolInv'
<1>1. /\ leaves + kills < MaxEnds /\ leaves' = leaves + 1
      /\ lost' = lost \cup {w \in Workers \cap {hand} : pc[w] # "down"}
      /\ hand' = NoWorker /\ mpc' = "stopping"
      /\ UNCHANGED vars /\ UNCHANGED <<pool, desired, upCool, downCool, kills>>
  BY DEF Leave, Lose
<1>2. TypeOK' /\ HasJob' /\ pc' = pc
  BY <1>1, TypeStep DEF PoolInv, MTypeOK, vars, locals
<1>3. leaves \in Nat /\ kills \in Nat /\ MaxEnds \in Nat
  BY ManagerAssumption DEF PoolInv, MTypeOK
<1>4. leaves' \in 0 .. MaxEnds
  BY <1>1, <1>3
<1>5. MTypeOK'
  BY <1>1, <1>2, <1>4 DEF PoolInv, MTypeOK
<1>6. NoTwice'
  BY <1>1 DEF PoolInv, NoTwice
<1>7. RunningKnown'
  BY <1>1, <1>2 DEF PoolInv, RunningKnown, InPool
<1>8. HandHeld'
  <2>1. ~ InPool(NoWorker)'
    BY <1>1, QueueAssumption DEF InPool, PoolInv, MTypeOK
  <2>2. ~ InPool(hand)'
    BY <1>1, <2>1 DEF InPool
  <2> QED
    BY <1>1, <2>2 DEF HandHeld
<1>9. Room' /\ (mpc' = "gone" => pool' = <<>>)
  BY <1>1 DEF PoolInv, Room, ListCap
<1>10. LostCounted'
  <2> SUFFICES ASSUME kills = 0
               PROVE  Cardinality(lost') <= leaves + 1
    BY <1>1 DEF LostCounted
  <2>1. Cardinality(lost) <= leaves
    BY DEF PoolInv, LostCounted
  <2>2. MTypeOK
    BY DEF PoolInv
  <2>3. lost' = lost \/ lost' = lost \cup {hand}
    BY <1>1
  <2>4. CASE lost' = lost
    <3>1. Cardinality(lost) \in Nat
      BY <2>2, LostSize
    <3> QED
      BY <1>3, <2>1, <2>4, <3>1
  <2>5. CASE lost' = lost \cup {hand}
    <3>1. Cardinality(lost \cup {hand}) <= Cardinality(lost) + 1
      BY <2>2, LostSize
    <3>2. Cardinality(lost) \in Nat /\ Cardinality(lost \cup {hand}) \in Nat
      BY <2>2, LostSize
    <3> QED
      BY <1>3, <2>1, <2>5, <3>1, <3>2
  <2> QED
    BY <2>3, <2>4, <2>5
<1> QED
  BY <1>2, <1>5, <1>6, <1>7, <1>8, <1>9, <1>10 DEF PoolInv

\* The finally block stops the workers of the list one after the other.
LEMMA StopFirstStep ==
    ASSUME PoolInv, StopFirst
    PROVE  PoolInv'
<1>1. /\ mpc = "stopping" /\ pool # <<>> /\ StopWorker(Head(pool)) /\ pool' = Tail(pool)
      /\ UNCHANGED <<hand, lost, desired, mpc, upCool, downCool, leaves, kills>>
  BY DEF StopFirst
<1>2. pool \in Seq(Workers) /\ Len(pool) \in Nat \ {0} /\ pool[1] \in Workers
  BY <1>1 DEF PoolInv, MTypeOK
<1>3. Head(pool) = pool[1]
  BY <1>2
<1>4. /\ TypeOK' /\ HasJob'
      /\ pc'[pool[1]] = "down" /\ \A v \in Workers : v # pool[1] => pc'[v] = pc[v]
  BY <1>1, <1>2, <1>3, HaltType DEF PoolInv, MTypeOK
<1>5. /\ pool' \in Seq(Workers) /\ Len(pool') = Len(pool) - 1
      /\ \A i \in 1 .. Len(pool) - 1 : pool'[i] = pool[i + 1]
  BY <1>1, <1>2
<1>6. MTypeOK'
  BY <1>1, <1>4, <1>5 DEF PoolInv, MTypeOK
<1>7. NoTwice'
  BY <1>2, <1>5 DEF PoolInv, NoTwice
<1>8. RunningKnown'
  <2> SUFFICES ASSUME NEW w \in Workers, pc'[w] # "down", InPool(w)
               PROVE  InPool(w)'
    BY <1>1, <1>4 DEF PoolInv, RunningKnown
  <2>1. PICK i \in 1 .. Len(pool) : pool[i] = w
    BY DEF InPool
  <2>2. i # 1
    BY <1>4, <2>1
  <2>3. i - 1 \in 1 .. Len(pool) - 1 /\ (i - 1) + 1 = i
    BY <1>2, <2>1, <2>2
  <2> QED
    BY <1>5, <2>1, <2>3 DEF InPool
<1>9. HandHeld'
  <2>1. \A i \in 1 .. Len(pool) - 1 : pool[i + 1] # hand
    <3>1. \A i \in 1 .. Len(pool) - 1 : i + 1 \in 1 .. Len(pool)
      BY <1>2
    <3> QED
      BY <3>1 DEF PoolInv, HandHeld, InPool
  <2>2. ~ InPool(hand)'
    BY <1>1, <1>5, <2>1 DEF InPool
  <2> QED
    BY <1>1, <2>2 DEF PoolInv, HandHeld
<1>10. Room'
  BY <1>1, <1>2, <1>5, ManagerConstants DEF PoolInv, Room, ListCap
<1>11. LostCounted' /\ (mpc' = "gone" => pool' = <<>>)
  BY <1>1 DEF PoolInv, LostCounted
<1> QED
  BY <1>4, <1>6, <1>7, <1>8, <1>9, <1>10, <1>11 DEF PoolInv

\* The manager ends, with an empty list or killed.
LEMMA EndStep ==
    ASSUME PoolInv, Gone \/ KillManager
    PROVE  PoolInv'
<1>1. /\ UNCHANGED vars /\ pool' = <<>> /\ mpc' = "gone" /\ desired' = 0
      /\ UNCHANGED <<upCool, downCool, leaves>>
  BY DEF Gone, KillManager
<1>2. TypeOK' /\ HasJob' /\ pc' = pc
  BY <1>1, TypeStep DEF PoolInv, MTypeOK, vars, locals
<1>3. hand' = NoWorker
  BY DEF Gone, KillManager, PoolInv, HandHeld
<1>4. <<>> \in Seq(Workers) /\ Len(<<>>) = 0 /\ 1 .. 0 = {}
  OBVIOUS
<1>5. kills' \in 0 .. MaxEnds /\ (kills' = 0 => kills = 0 /\ lost' = lost)
  <2>1. leaves \in Nat /\ kills \in Nat /\ MaxEnds \in Nat /\ kills \in 0 .. MaxEnds
    BY ManagerAssumption DEF PoolInv, MTypeOK
  <2> QED
    BY <2>1 DEF Gone, KillManager
<1>6. lost' \in SUBSET Workers
  BY DEF Gone, KillManager, Lose, PoolInv, MTypeOK
<1>7. MTypeOK'
  <2>1. desired' \in 0 .. Larger(MinWorkers, HardCap)
    BY <1>1, ManagerConstants DEF ListCap
  <2> QED
    BY <1>1, <1>2, <1>3, <1>4, <1>5, <1>6, <2>1 DEF PoolInv, MTypeOK
<1>8. NoTwice' /\ HandHeld' /\ Room'
  BY <1>1, <1>3, <1>4, ManagerConstants DEF NoTwice, HandHeld, InPool, Room, ListCap
<1>9. RunningKnown'
  <2> SUFFICES ASSUME NEW w \in Workers, pc[w] # "down"
               PROVE  w \in lost'
    BY <1>2 DEF RunningKnown
  <2>1. InPool(w) \/ w = hand \/ w \in lost
    BY DEF PoolInv, RunningKnown
  <2>2. CASE Gone
    <3>1. hand = NoWorker /\ pool = <<>> /\ lost' = lost
      BY <2>2 DEF Gone, PoolInv, HandHeld
    <3>2. ~ InPool(w)
      BY <1>4, <3>1 DEF InPool
    <3> QED
      BY <2>1, <3>1, <3>2, QueueAssumption
  <2>3. CASE KillManager
    BY <2>1, <2>3 DEF KillManager, Lose
  <2> QED
    BY <2>2, <2>3
<1>10. LostCounted'
  BY <1>1, <1>5 DEF PoolInv, LostCounted
<1> QED
  BY <1>1, <1>2, <1>7, <1>8, <1>9, <1>10 DEF PoolInv

\* Every step of the manager, the API, the workers and the clock.
LEMMA PoolStep ==
    ASSUME PoolInv, [MNext]_allvars
    PROVE  PoolInv'
<1>1. MTypeOK /\ TypeOK /\ HasJob
  BY DEF PoolInv, MTypeOK
<1>2. CASE WorkerStep
  <2>1. UNCHANGED mvars
    BY <1>2 DEF WorkerStep
  <2>2. /\ TypeOK' /\ HasJob'
        /\ \A w \in Workers : pc'[w] # "down" => pc[w] # "down"
    BY <1>1, <1>2, WorkersDoNotStart, TypeStep
  <2>3. upCool' \in 0 .. UpCooldown /\ downCool' \in 0 .. DownCooldown
    BY <1>1, <2>1 DEF MTypeOK, mvars
  <2> QED
    BY <2>1, <2>2, <2>3, SameManager DEF mvars
<1>3. CASE MTick
  <2>1. TypeOK' /\ HasJob'
    BY <1>1, <1>3, TypeStep DEF MTick, Next
  <2>2. pc' = pc /\ UNCHANGED <<pool, hand, lost, desired, mpc, leaves, kills>>
    BY <1>3 DEF MTick, Tick
  <2>3. upCool' \in 0 .. UpCooldown /\ downCool' \in 0 .. DownCooldown
    BY <1>1, <1>3, ManagerConstants DEF MTick, MTypeOK, Larger
  <2> QED
    BY <2>1, <2>2, <2>3, SameManager
<1>4. CASE ManagerStep
  BY <1>4, RestStep, MeasureStep, SpawnStep, EnlistStep, PopStep, StopPoppedStep,
     StopFirstStep, EndStep DEF ManagerStep
<1>5. CASE Leave \/ KillManager
  BY <1>5, LeaveStep, EndStep
<1>6. CASE UNCHANGED allvars
  <2>1. UNCHANGED vars /\ UNCHANGED mvars /\ pc' = pc
    BY <1>6 DEF allvars, vars, locals
  <2>2. TypeOK' /\ HasJob'
    BY <1>1, <2>1, TypeStep
  <2>3. upCool' \in 0 .. UpCooldown /\ downCool' \in 0 .. DownCooldown
    BY <1>1, <2>1 DEF MTypeOK, mvars
  <2> QED
    BY <2>1, <2>2, <2>3, SameManager DEF mvars
<1> QED
  BY <1>2, <1>3, <1>4, <1>5, <1>6 DEF MNext

LEMMA PoolInvariant == MSpec => []PoolInv
<1>1. MInit => PoolInv
  <2> SUFFICES ASSUME MInit
               PROVE  PoolInv
    OBVIOUS
  <2>1. TypeOK /\ HasJob
    BY InitType DEF MInit
  <2>2. \A w \in Workers : pc[w] = "down"
    BY DEF MInit, Init
  <2>3. /\ pool = <<>> /\ hand = NoWorker /\ lost = {} /\ desired = 0 /\ mpc = "gone"
        /\ upCool = 0 /\ downCool = 0 /\ leaves = 0 /\ kills = 0
    BY DEF MInit
  <2>4. <<>> \in Seq(Workers) /\ Len(<<>>) = 0 /\ 1 .. 0 = {}
    OBVIOUS
  <2>5. MTypeOK
    <3>1. desired \in 0 .. Larger(MinWorkers, HardCap)
      BY <2>3, ManagerConstants DEF ListCap
    <3> QED
      BY <2>1, <2>3, <2>4, <3>1, ManagerConstants, ManagerAssumption DEF MTypeOK
  <2>6. NoTwice /\ RunningKnown /\ HandHeld
    BY <2>2, <2>3, <2>4 DEF NoTwice, RunningKnown, HandHeld, InPool
  <2>7. Room
    BY <2>3, <2>4, ManagerConstants DEF Room
  <2>8. LostCounted
    BY <2>3, FS_EmptySet DEF LostCounted
  <2> QED
    BY <2>1, <2>3, <2>5, <2>6, <2>7, <2>8 DEF PoolInv
<1>2. PoolInv /\ [MNext]_allvars => PoolInv'
  BY PoolStep
<1> QED
  BY <1>1, <1>2, PTL DEF MSpec

\* The types of the queue and of the manager, for any settings.
THEOREM ManagerTypeCorrect == MSpec => []MTypeOK
<1>1. PoolInv => MTypeOK
  BY DEF PoolInv
<1> QED
  BY <1>1, PoolInvariant, PTL

\* For any settings and any crashes of workers: a worker process that runs is on the
\* list of the manager, in its hand between a start and the entry in the list or between
\* the removal and the stop, or was left behind by a manager that was killed or
\* interrupted; and an interruption leaves at most the worker in the hand behind.
THEOREM NoWorkerIsStray == MSpec => []NoStray
<1>1. PoolInv => NoStray
  BY DEF PoolInv, RunningKnown, NoTwice, LostCounted, NoStray
<1> QED
  BY <1>1, PoolInvariant, PTL

\* For any settings: no more worker processes run than AUTOSCALE_MAX_WORKERS_PER_NODE
\* or --min-workers allow, those left behind by an interrupted manager not counted
\* (_compute_desired_workers and the loops of run_manager).
THEOREM CapIsKept == MSpec => []WithinCap
<1>1. PoolInv => WithinCap
  <2> SUFFICES ASSUME PoolInv
               PROVE  WithinCap
    OBVIOUS
  <2> DEFINE R == {w \in Workers \ lost : pc[w] # "down"}
             S == {pool[i] : i \in 1 .. Len(pool)}
  <2>1. pool \in Seq(Workers) /\ Len(pool) \in Nat /\ Len(pool) <= ListCap
    BY DEF PoolInv, MTypeOK, Room
  <2>2. R \subseteq S \cup {hand}
    BY DEF PoolInv, RunningKnown, InPool
  <2>3. hand = NoWorker => R \subseteq S
    BY <2>2, QueueAssumption
  <2>4. hand # NoWorker => Len(pool) < ListCap
    <3>1. hand # NoWorker => Len(pool) < desired \/ Len(pool) < ListCap
      BY DEF PoolInv, HandHeld, Room
    <3>2. desired \in 0 .. ListCap
      BY TargetType DEF PoolInv
    <3> QED
      BY <2>1, <3>1, <3>2, ManagerConstants
  <2>5. pool \in Surjection(1 .. Len(pool), S)
    BY <2>1 DEF Surjection
  <2>6. IsFiniteSet(1 .. Len(pool)) /\ Cardinality(1 .. Len(pool)) = Len(pool)
    BY <2>1, PlacesCounted
  <2>7. WithinCap <=> Cardinality(R) <= ListCap
    BY DEF WithinCap, ListCap
  <2> HIDE DEF R, S
  <2>8. IsFiniteSet(S) /\ Cardinality(S) <= Len(pool) /\ Cardinality(S) \in Nat
    BY <2>5, <2>6, FS_Surjection, FS_CardinalityType
  <2>9. CASE hand = NoWorker
    <3>1. Cardinality(R) <= Cardinality(S) /\ Cardinality(R) \in Nat
      BY <2>3, <2>8, <2>9, FS_Subset, FS_CardinalityType
    <3> QED
      BY <2>1, <2>7, <2>8, <3>1, ManagerConstants
  <2>10. CASE hand # NoWorker
    <3>1. /\ IsFiniteSet(S \cup {hand})
          /\ Cardinality(S \cup {hand}) \in {Cardinality(S), Cardinality(S) + 1}
      BY <2>8, FS_AddElement
    <3>2. /\ Cardinality(R) <= Cardinality(S \cup {hand})
          /\ Cardinality(R) \in Nat /\ Cardinality(S \cup {hand}) \in Nat
      BY <2>2, <3>1, FS_Subset, FS_CardinalityType
    <3> QED
      BY <2>1, <2>4, <2>7, <2>8, <2>10, <3>1, <3>2, ManagerConstants
  <2> QED
    BY <2>9, <2>10
<1> QED
  BY <1>1, PoolInvariant, PTL

-----------------------------------------------------------------------------
(* The queue under the manager.                                            *)

\* The manager ends a worker without a crash being counted; otherwise its steps are
\* steps of the queue or change nothing of it.
LEMMA QueueSteps ==
    ASSUME PoolInv, [MNext]_allvars
    PROVE  [Next]_vars \/ \E w \in Workers : Halt(w) /\ UNCHANGED stops
<1>1. pool \in Seq(Workers) /\ TypeOK /\ Len(pool) \in Nat
  BY DEF PoolInv, MTypeOK
<1>2. CASE WorkerStep
  BY <1>1, <1>2, WorkersDoNotStart
<1>3. CASE MTick
  BY <1>3 DEF MTick, Next
<1>4. CASE BootManager \/ Sleep \/ Leave \/ Gone \/ Measure
  BY <1>4 DEF BootManager, Sleep, Leave, Gone, Measure
<1>9. CASE Enlist \/ PopLast \/ KillManager
  BY <1>9 DEF Enlist, PopLast, KillManager
<1>5. CASE Spawn
  BY <1>5 DEF Spawn, Next
<1>6. CASE StopPopped
  <2>1. mpc = "ending" /\ StopWorker(hand)
    BY <1>6 DEF StopPopped
  <2>2. hand \in Workers
    BY <2>1 DEF PoolInv, HandHeld, MTypeOK
  <2> QED
    BY <2>1, <2>2 DEF StopWorker
<1>7. CASE StopFirst
  <2>1. pool # <<>> /\ StopWorker(pool[1])
    BY <1>1, <1>7 DEF StopFirst
  <2>2. pool[1] \in Workers
    BY <1>1, <2>1
  <2> QED
    BY <2>1, <2>2 DEF StopWorker
<1>8. CASE UNCHANGED allvars
  BY <1>8 DEF allvars
<1> QED
  BY <1>2, <1>3, <1>4, <1>5, <1>6, <1>7, <1>8, <1>9 DEF MNext, ManagerStep

\* A worker that is ended in the middle of a job disturbs nothing the locks rest on.
LEMMA HaltStep ==
    ASSUME Inv, NEW w \in Workers, Halt(w), UNCHANGED stops
    PROVE  /\ Inv'
           /\ Contract!Next \/ UNCHANGED Contract!cvars
<1>1. /\ pc[w] # "down" /\ pc' = [pc EXCEPT ![w] = "down"]
      /\ cur' = [cur EXCEPT ![w] = NoJob] /\ ch' = [ch EXCEPT ![w] = 1]
      /\ seen' = [seen EXCEPT ![w] = NoSnapshot] /\ since' = [since EXCEPT ![w] = 0]
      /\ UNCHANGED rows /\ UNCHANGED content /\ UNCHANGED beat /\ UNCHANGED stops
  BY DEF Halt
<1>2. TypeOK' /\ HasJob'
  BY HaltType DEF StopWorker, Inv, WholeInv, LockInv
<1>3. /\ pc'[w] = "down"
      /\ \A v \in Workers : v # w =>
            /\ pc'[v] = pc[v] /\ cur'[v] = cur[v] /\ ch'[v] = ch[v]
            /\ seen'[v] = seen[v] /\ since'[v] = since[v]
  BY <1>1 DEF Inv, WholeInv, LockInv, TypeOK
<1>4. Holds' /\ Exclusive' /\ Fresh' /\ Recoverable'
  <2>1. Holds'
    BY <1>1, <1>3 DEF Inv, WholeInv, LockInv, Holds, StillReporting, Busy, rows
  <2>4. Exclusive'
    BY <1>1, <1>3 DEF Inv, WholeInv, LockInv, Exclusive, Busy
  <2>2. Fresh'
    BY <1>1, <1>3 DEF Inv, WholeInv, LockInv, Fresh, Loaded, rows
  <2>3. Recoverable'
    BY <1>1 DEF Inv, WholeInv, LockInv, Recoverable, rows
  <2> QED
    BY <2>1, <2>2, <2>3, <2>4
<1>5. Progress'
  BY <1>1, <1>3 DEF Inv, WholeInv, Progress, Written, InLoop, content
<1>6. CompletedIsWhole' /\ DeadLetterExact'
  BY <1>1 DEF Inv, WholeInv, CompletedIsWhole, DeadLetterExact, rows, content
<1>7. Inv'
  BY <1>2, <1>4, <1>5, <1>6 DEF Inv, WholeInv, LockInv
<1>8. pc'[w] \notin Busy
  BY <1>3 DEF Busy
<1> QED
  BY <1>1, <1>3, <1>7, <1>8, LeavesJob

\* While every live worker renews its lock in time: the invariants of the queue hold
\* whatever the manager starts and stops.
LEMMA ManagedInvariant ==
    ASSUME Timely
    PROVE  MSpec => [](PoolInv /\ Inv)
<1>1. MInit => Inv
  BY InitLock, QueueAssumption
     DEF MInit, Init, Inv, WholeInv, Progress, CompletedIsWhole, DeadLetterExact, InLoop
<1>2. PoolInv /\ Inv /\ [MNext]_allvars => Inv'
  BY QueueSteps, HaltStep, InvStep
<1> QED
  BY <1>1, <1>2, PoolInvariant, PTL DEF MSpec

\* A worker that the manager stops may be in the middle of a job, and another one may
\* be started at once: still no two live workers process the same job, when workers
\* renew their locks in time (_stop_worker, acquire_next_job, release_stale_locks).
THEOREM ManagedExclusion ==
    ASSUME Timely
    PROVE  MSpec => []Exclusive
<1>1. Inv => Exclusive
  BY DEF Inv, WholeInv, LockInv
<1> QED
  BY <1>1, ManagedInvariant, PTL

\* With scale-downs, managers that end and workers that crash, the queue, its workers
\* and the manager implement JobContract, when workers renew their locks in time.
THEOREM ManagedContract ==
    ASSUME Timely
    PROVE  MSpec => KeepsContract
<1>1. MInit => Contract!Init
  BY InitContract DEF MInit
<1>2. ASSUME PoolInv, Inv, [MNext]_allvars
      PROVE  [Contract!Next]_(Contract!cvars)
  <2>1. CASE [Next]_vars
    BY <1>2, <2>1, ContractStep
  <2>2. CASE \E w \in Workers : Halt(w) /\ UNCHANGED stops
    BY <1>2, <2>2, HaltStep
  <2> QED
    BY <1>2, <2>1, <2>2, QueueSteps
<1> QED
  BY <1>1, <1>2, ManagedInvariant, PTL DEF MSpec, KeepsContract, Contract!Spec

-----------------------------------------------------------------------------
(* The other promises of the queue under the manager.                      *)

\* Under a manager that kills workers in the middle of a job: whatever is locked can be
\* released, a completed job has all its channels from one attempt, and the failures
\* are counted exactly, when workers renew their locks in time.
THEOREM ManagedQueueKept ==
    ASSUME Timely
    PROVE  MSpec => [](Recoverable /\ CompletedIsWhole /\ DeadLetterExact)
<1>1. Inv => Recoverable /\ CompletedIsWhole /\ DeadLetterExact
  BY DEF Inv, WholeInv, LockInv
<1> QED
  BY <1>1, ManagedInvariant, PTL

\* No worker that the manager starts touches a finished job, and none that it kills
\* leaves one changed: only a worker whose report on the job it has completed fails
\* takes the status back.
THEOREM ManagedOutcomeIsFinal ==
    ASSUME Timely
    PROVE  MSpec => TerminalIsFinal
<1>1. ASSUME PoolInv, Inv, [MNext]_allvars
      PROVE  [\A j \in Jobs : status[j] \in Terminal => Kept(j)]_vars
  <2>1. LockInv
    BY <1>1 DEF Inv, WholeInv
  <2>2. CASE [Next]_vars
    BY <2>1, <2>2, FinalStep
  <2>3. CASE \E w \in Workers : Halt(w) /\ UNCHANGED stops
    BY <2>3 DEF Halt, rows, content, Kept
  <2> QED
    BY <1>1, <2>2, <2>3, QueueSteps
<1>2. PoolInv /\ Inv /\ [MNext]_allvars =>
        [\A j \in Jobs : status[j] \in Terminal =>
           /\ chan'[j] = chan[j] /\ words'[j] = words[j]
           /\ \/ status'[j] = status[j]
              \/ \E w \in Workers : StillReporting(w, j) /\ pc'[w] = "poll"]_vars
  BY <1>1 DEF Kept
<1> QED
  BY <1>2, ManagedInvariant, PTL DEF MSpec, TerminalIsFinal

\* A worker that is ended between its pick and its claim gives the row back.
LEMMA HaltKeepsPicks ==
    ASSUME PickInv, NEW w \in Workers, Halt(w), UNCHANGED stops
    PROVE  PickInv'
<1>1. TypeOK' /\ HasJob'
  BY HaltType DEF StopWorker, PickInv
<1>2. /\ UNCHANGED rows
      /\ \A v \in Workers : pc'[v] = "picked" => pc[v] = "picked" /\ cur'[v] = cur[v]
  BY DEF PickInv, TypeOK, Halt
<1>3. PickHeld'
  BY <1>2 DEF PickInv, PickHeld, Claimable, rows
<1> QED
  BY <1>1, <1>3 DEF PickInv

LEMMA ManagedPicks ==
    ASSUME SkipLocked
    PROVE  MSpec => [](PoolInv /\ PickInv)
<1>1. MInit => PickInv
  BY InitType DEF MInit, Init, PickInv, PickHeld
<1>2. PoolInv /\ PickInv /\ [MNext]_allvars => PickInv'
  BY QueueSteps, HaltKeepsPicks, PickStep
<1> QED
  BY <1>1, <1>2, PoolInvariant, PTL DEF MSpec

\* With SKIP LOCKED no worker takes a job before its back-off has passed, however many
\* of them the manager starts and kills.
THEOREM ManagedBackoff ==
    ASSUME SkipLocked
    PROVE  MSpec => BackoffKept
<1>1. ASSUME PoolInv, PickInv, [MNext]_allvars
      PROVE  [\A j \in Jobs : lockedBy[j] = NoWorker /\ lockedBy'[j] # NoWorker
                => wait[j] = 0]_vars
  <2>1. CASE [Next]_vars
    BY <1>1, <2>1, LockTaken
  <2>2. CASE \E w \in Workers : Halt(w) /\ UNCHANGED stops
    BY <2>2 DEF Halt, rows
  <2> QED
    BY <1>1, <2>1, <2>2, QueueSteps
<1> QED
  BY <1>1, ManagedPicks, PTL DEF MSpec, BackoffKept

\* A worker that is ended picks nothing.
LEMMA HaltPicksNothing ==
    ASSUME TypeOK, NEW v \in Workers, Halt(v), NEW w \in Workers, NEW j \in Jobs
    PROVE  ~ Picks(w, j)
BY DEF TypeOK, Halt, Picks

\* The order of the picks does not depend on how many workers the manager keeps: the
\* urgent jobs of a tenant come first, under the Postgres statement.
THEOREM ManagedUrgentFirst ==
    ASSUME SkipLocked
    PROVE  MSpec => UrgentFirst
<1>1. ASSUME PoolInv, [MNext]_allvars
      PROVE  [\A w \in Workers, j \in Jobs : Picks(w, j) =>
                ~ \E k \in Eligible : TenantOf[k] = TenantOf[j]
                                      /\ Priority[k] < Priority[j]]_vars
  <2>1. TypeOK
    BY <1>1 DEF PoolInv, MTypeOK
  <2>2. CASE [Next]_vars
    BY <2>1, <2>2, NoneMoreUrgent
  <2>3. CASE \E w \in Workers : Halt(w) /\ UNCHANGED stops
    BY <2>1, <2>3, HaltPicksNothing
  <2> QED
    BY <1>1, <2>2, <2>3, QueueSteps
<1> QED
  BY <1>1, PoolInvariant, PTL DEF MSpec, UrgentFirst

\* Nor does the share of the tenants: a worker that was killed still counts for its
\* tenant until its lock is released.
THEOREM ManagedTenantsShare == MSpec => FairShare
<1>1. ASSUME PoolInv, [MNext]_allvars
      PROVE  [\A w \in Workers, j \in Jobs : Picks(w, j) =>
                \A k \in Eligible : Running[TenantOf[j]] <= Running[TenantOf[k]]]_vars
  <2>1. TypeOK
    BY <1>1 DEF PoolInv, MTypeOK
  <2>2. CASE [Next]_vars
    BY <2>1, <2>2, NoneServedLess
  <2>3. CASE \E w \in Workers : Halt(w) /\ UNCHANGED stops
    BY <2>1, <2>3, HaltPicksNothing
  <2> QED
    BY <1>1, <2>2, <2>3, QueueSteps
<1> QED
  BY <1>1, PoolInvariant, PTL DEF MSpec, FairShare

=============================================================================
