--------------------------- MODULE ServiceProofs ---------------------------
(***************************************************************************)
(* Proofs about the small services: the idle watchdog, the live updates,   *)
(* the heartbeats, the accounts and the backups.                           *)
(***************************************************************************)
EXTENDS IdleWatchdog, LiveUpdates, Heartbeats, Accounts, Backups, SharedLemmas,
        FiniteSetTheorems, TLAPS

-----------------------------------------------------------------------------
(* The idle watchdog.                                                      *)

\* From the look that found no active job to the end of the worker, every active job
\* is one that came after that look; until then nothing is cut off.
WDInv ==
    /\ dog \in {"asleep", "checked", "stopping", "gone"}
    /\ dog \in {"checked", "stopping"} => active \subseteq unlooked
    /\ dog # "gone" => cutOff = {}
    /\ OnlyLateJobsCutOff

\* For any jobs and times: the watchdog cuts off only jobs that were submitted or
\* reopened after its last look (run_watchdog, has_active_jobs and terminate_services).
THEOREM LateJobsOnly == WDSpec => []OnlyLateJobsCutOff
<1>1. WDInit => WDInv
  BY DEF WDInit, WDInv, OnlyLateJobsCutOff
<1>2. WDInv /\ [WDNext]_wdvars => WDInv'
  <2> SUFFICES ASSUME WDInv, [WDNext]_wdvars
               PROVE  WDInv'
    OBVIOUS
  <2> USE DEF WDInv, OnlyLateJobsCutOff
  <2>1. CASE LookAndSleep
    BY <2>1 DEF LookAndSleep
  <2>2. CASE LookAndStop
    BY <2>2 DEF LookAndStop, HasActiveJobs
  <2>3. CASE KillApi
    BY <2>3 DEF KillApi
  <2>4. CASE KillWorker
    BY <2>4 DEF KillWorker
  <2>5. CASE NothingToWatch
    BY <2>5 DEF NothingToWatch
  <2>6. CASE SecondPasses
    BY <2>6 DEF SecondPasses
  <2>7. ASSUME NEW j \in LocalJobs, SubmitLocal(j)
        PROVE  WDInv'
    BY <2>7 DEF SubmitLocal
  <2>8. ASSUME NEW j \in LocalJobs, EndLocal(j)
        PROVE  WDInv'
    BY <2>8 DEF EndLocal
  <2>9. ASSUME NEW s \in {"api", "worker"}, StopService(s)
        PROVE  WDInv'
    BY <2>9 DEF StopService
  <2>10. ASSUME NEW j \in LocalJobs, ReopenLocal(j)
         PROVE  WDInv'
    BY <2>10 DEF ReopenLocal
  <2>11. CASE UNCHANGED wdvars
    BY <2>11 DEF wdvars
  <2> QED
    BY <2>1, <2>2, <2>3, <2>4, <2>5, <2>6, <2>7, <2>8, <2>9, <2>10, <2>11 DEF WDNext
<1>3. WDInv => OnlyLateJobsCutOff
  BY DEF WDInv
<1> QED
  BY <1>1, <1>2, <1>3, PTL DEF WDSpec

-----------------------------------------------------------------------------
(* The live updates.                                                       *)

\* The place of each status in the order of the queries.
LEMMA Positions ==
    /\ DOMAIN QueryOrder = 1 .. 6 /\ Len(QueryOrder) = 6
    /\ \A k \in 1 .. 6 : Position(QueryOrder[k]) = k
    /\ \A a, b \in 1 .. 6 : QueryOrder[a] = QueryOrder[b] => a = b
<1>1. DOMAIN QueryOrder = 1 .. 6 /\ Len(QueryOrder) = 6
  BY DEF QueryOrder
<1>2. /\ QueryOrder[1] = "queued" /\ QueryOrder[2] = "processing"
      /\ QueryOrder[3] = "retry_wait" /\ QueryOrder[4] = "completed"
      /\ QueryOrder[5] = "failed" /\ QueryOrder[6] = "dead_letter"
  BY DEF QueryOrder
<1>3. \A a, b \in 1 .. 6 : QueryOrder[a] = QueryOrder[b] => a = b
  <2> SUFFICES ASSUME NEW a \in 1 .. 6, NEW b \in 1 .. 6, QueryOrder[a] = QueryOrder[b]
               PROVE  a = b
    OBVIOUS
  <2>1. /\ a = 1 \/ a = 2 \/ a = 3 \/ a = 4 \/ a = 5 \/ a = 6
        /\ b = 1 \/ b = 2 \/ b = 3 \/ b = 4 \/ b = 5 \/ b = 6
    OBVIOUS
  <2> QED
    BY <2>1, <1>2
<1>4. ASSUME NEW k \in 1 .. 6
      PROVE  Position(QueryOrder[k]) = k
  <2>1. \E x \in 1 .. 6 : QueryOrder[x] = QueryOrder[k]
    OBVIOUS
  <2>2. Position(QueryOrder[k]) = CHOOSE x \in 1 .. 6 : QueryOrder[x] = QueryOrder[k]
    BY <1>1 DEF Position
  <2>3. /\ Position(QueryOrder[k]) \in 1 .. 6
        /\ QueryOrder[Position(QueryOrder[k])] = QueryOrder[k]
    BY <2>1, <2>2
  <2> QED
    BY <2>3, <1>3
<1> QED
  BY <1>1, <1>3, <1>4

JobStatuses == {QueryOrder[k] : k \in 1 .. 6}

LEMMA AbsentIsNone == "absent" \notin JobStatuses
BY DEF JobStatuses, QueryOrder

LUTypeOK ==
    /\ state \in [TenantJobs -> JobStatuses \cup {"absent"}]
    /\ asked \in 0 .. 6
    /\ counted \in [1 .. 6 -> SUBSET TenantJobs]

\* While a payload is built: queries that have not run have found nothing; a job that
\* was there and has not moved back is counted or still ahead of the queries; one that
\* has not moved is counted in its place, once the queries have come there.
Tracked(j) ==
    /\ j \in behind \/ CountsOf(j) # {} \/ Position(state[j]) > asked
    /\ j \in moved \/ CountsOf(j) = {Position(state[j])} \cap 1 .. asked

Counting ==
    socket = "building" =>
        /\ recent = <<>>
        /\ \A k \in asked + 1 .. 6 : counted[k] = {}
        /\ \A j \in TenantJobs : state[j] # "absent" => Tracked(j)

LUInv == LUTypeOK /\ Counting /\ NoneMissed

\* The statuses and their places, for one job.
LEMMA PlaceOfJob ==
    ASSUME LUTypeOK, NEW j \in TenantJobs
    PROVE  /\ state[j] # "absent" => /\ Position(state[j]) \in 1 .. 6
                                     /\ QueryOrder[Position(state[j])] = state[j]
           /\ state[j] # "absent" =>
                 \A k \in 1 .. 6 : QueryOrder[k] = state[j] <=> k = Position(state[j])
           /\ state[j] = "absent" => \A k \in 1 .. 6 : QueryOrder[k] # state[j]
<1>1. state[j] \in JobStatuses \cup {"absent"}
  BY DEF LUTypeOK
<1>2. \A k \in 1 .. 6 : QueryOrder[k] # "absent"
  BY AbsentIsNone DEF JobStatuses
<1> QED
  BY <1>1, <1>2, Positions DEF JobStatuses

\* A job that stays is tracked as before, when the counts are.
LEMMA StillTracked ==
    ASSUME NEW i, state'[i] = state[i], UNCHANGED <<asked, counted>>,
           i \in behind => i \in behind', i \in moved => i \in moved', Tracked(i)
    PROVE  Tracked(i)'
BY DEF Tracked, CountsOf

\* For any jobs of a tenant, submitted at any time: a job that is missing in a payload
\* was submitted or has moved back since its first query, and one that has done
\* neither nor moved on is counted once, where the list finds it (_build_payload and
\* tenant_ws).
THEOREM PayloadsMissNone == LUSpec => []NoneMissed
<1>1. LUInit => LUInv
  <2> SUFFICES ASSUME LUInit
               PROVE  LUInv
    OBVIOUS
  <2>2. NoCounts \in [1 .. 6 -> SUBSET TenantJobs]
    BY Positions DEF NoCounts
  <2> QED
    BY <2>2 DEF LUInit, LUInv, LUTypeOK, Counting, NoneMissed
<1>2. LUInv /\ [LUNext]_luvars => LUInv'
  <2> SUFFICES ASSUME LUInv, [LUNext]_luvars
               PROVE  LUInv'
    OBVIOUS
  <2>0. LUTypeOK /\ Counting /\ NoneMissed
    BY DEF LUInv
  <2>1. CASE Connect
    BY <2>0, <2>1 DEF Connect, LUInv, LUTypeOK, Counting, Tracked, NoneMissed, CountsOf
  <2>2. CASE BeginPayload
    <3>1. NoCounts \in [1 .. 6 -> SUBSET TenantJobs] /\ \A k \in 1 .. 6 : NoCounts[k] = {}
      BY Positions DEF NoCounts
    <3>2. LUTypeOK' /\ recent' = <<>> /\ asked' = 0 /\ counted' = NoCounts /\ state' = state
      BY <2>0, <2>2, <3>1 DEF BeginPayload, LUTypeOK
    <3>3. Counting'
      <4>1. \A k \in asked' + 1 .. 6 : counted'[k] = {}
        BY <3>1, <3>2
      <4>2. ASSUME NEW j \in TenantJobs, state'[j] # "absent"
            PROVE  Tracked(j)'
        <5>1. CountsOf(j)' = {} /\ Position(state'[j]) \in 1 .. 6
          BY <2>0, <3>1, <3>2, <4>2, Positions, PlaceOfJob DEF CountsOf
        <5>2. Position(state'[j]) > asked'
              /\ CountsOf(j)' = {Position(state'[j])} \cap 1 .. asked'
          BY <3>2, <5>1
        <5> QED
          BY <5>2 DEF Tracked
      <4> QED
        BY <3>2, <4>1, <4>2 DEF Counting
    <3>4. NoneMissed'
      BY <3>2 DEF NoneMissed
    <3> QED
      BY <3>2, <3>3, <3>4 DEF LUInv
  <2>3. CASE CountNext
    <3> DEFINE n == asked + 1
    <3>1. /\ socket = "building" /\ n \in 1 .. 6 /\ asked \in 0 .. 6
          /\ asked' = n /\ socket' = socket /\ state' = state /\ recent' = recent
          /\ asked # 0 => moved' = moved /\ behind' = behind
          /\ counted' = [counted EXCEPT ![n] = FoundBy(n)]
      BY <2>0, <2>3, Positions DEF CountNext, LUTypeOK, Query
    <3>2. FoundBy(n) \in SUBSET TenantJobs
      BY DEF FoundBy
    <3>3. LUTypeOK'
      BY <2>0, <3>1, <3>2 DEF LUTypeOK
    <3>4. /\ counted[n] = {} /\ counted'[n] = FoundBy(n)
          /\ \A k \in 1 .. 6 : k # n => counted'[k] = counted[k]
          /\ \A k \in n .. 6 : counted[k] = {}
      BY <2>0, <3>1 DEF LUTypeOK, Counting
    <3>5. ASSUME NEW j \in TenantJobs, state[j] # "absent"
          PROVE  /\ CountsOf(j)' = CountsOf(j) \cup ({Position(state[j])} \cap {n})
                 /\ CountsOf(j) \subseteq 1 .. 6 /\ Position(state[j]) \in 1 .. 6
                 /\ asked = 0 => CountsOf(j) = {}
      <4>1. j \in FoundBy(n) <=> Position(state[j]) = n
        BY <2>0, <3>1, <3>5, PlaceOfJob DEF FoundBy
      <4>2. CountsOf(j) = {k \in 1 .. 6 : j \in counted[k]} /\ CountsOf(j)' = {k \in 1 .. 6 : j \in counted'[k]}
        BY Positions DEF CountsOf
      <4>3. Position(state[j]) \in 1 .. 6
        BY <2>0, <3>5, PlaceOfJob
      <4>6. asked = 0 => CountsOf(j) = {}
        BY <3>4, <4>2
      <4> HIDE DEF n
      <4>4. \A k \in 1 .. 6 :
               j \in counted'[k] <=> j \in counted[k] \/ (k = n /\ Position(state[j]) = n)
        BY <3>1, <3>4, <4>1
      <4>5. \A k : k \in CountsOf(j)' <=> k \in CountsOf(j) \cup ({Position(state[j])} \cap {n})
        BY <3>1, <4>2, <4>4
      <4> QED
        BY <4>2, <4>3, <4>5, <4>6
    <3>6. Counting'
      <4>1. \A k \in asked' + 1 .. 6 : counted'[k] = {}
        BY <2>0, <3>1, <3>4 DEF Counting
      <4>2. ASSUME NEW j \in TenantJobs, state[j] # "absent"
            PROVE  /\ j \in behind' \/ CountsOf(j)' # {} \/ Position(state[j]) > n
                   /\ j \in moved' \/ CountsOf(j)' = {Position(state[j])} \cap 1 .. n
        <5>1. CASE asked = 0
          <6>1. CountsOf(j)' = {Position(state[j])} \cap {n} /\ n = 1 /\ 1 .. n = {n}
            BY <3>5, <4>2, <5>1
          <6>2. Position(state[j]) = n \/ Position(state[j]) > n
            BY <3>5, <4>2, <6>1
          <6> QED
            BY <6>1, <6>2
        <5>2. CASE asked # 0
          <6>1. /\ j \in behind \/ CountsOf(j) # {} \/ Position(state[j]) > asked
                /\ j \in moved \/ CountsOf(j) = {Position(state[j])} \cap 1 .. asked
            BY <2>0, <3>1, <4>2 DEF Counting, Tracked
          <6>2. 1 .. n = 1 .. asked \cup {n}
            BY <3>1
          <6>3. Position(state[j]) > asked => Position(state[j]) = n \/ Position(state[j]) > n
            BY <3>1, <3>5, <4>2
          <6>4. moved' = moved /\ behind' = behind
            BY <3>1, <5>2
          <6> QED
            BY <3>5, <4>2, <6>1, <6>2, <6>3, <6>4
        <5> QED
          BY <5>1, <5>2
      <4> QED
        BY <2>0, <3>1, <4>1, <4>2 DEF Counting, Tracked
    <3>7. NoneMissed'
      BY <2>0, <3>1 DEF NoneMissed, Counting
    <3> QED
      BY <3>3, <3>6, <3>7 DEF LUInv
  <2>4. CASE SendPayload
    <3>1. /\ socket = "building" /\ asked = 6 /\ socket' = "open" /\ recent' = state
          /\ state' = state /\ asked' = asked /\ counted' = counted
          /\ moved' = moved /\ behind' = behind
      BY <2>4, Positions DEF SendPayload
    <3>2. ASSUME NEW j \in TenantJobs, recent'[j] # "absent"
          PROVE  /\ j \in behind' \/ CountsOf(j)' # {}
                 /\ j \in moved' \/ CountsOf(j)' = {Position(recent'[j])}
      <4>1. /\ j \in behind \/ CountsOf(j) # {} \/ Position(state[j]) > 6
            /\ j \in moved \/ CountsOf(j) = {Position(state[j])} \cap 1 .. 6
        BY <2>0, <3>1, <3>2 DEF Counting, Tracked
      <4>2. Position(state[j]) \in 1 .. 6
        BY <2>0, <3>1, <3>2, PlaceOfJob
      <4>3. CountsOf(j)' = CountsOf(j)
        BY <3>1 DEF CountsOf
      <4>4. ~ (Position(state[j]) > 6) /\ {Position(state[j])} \cap 1 .. 6 = {Position(state[j])}
        <5>1. \A p \in 1 .. 6 : ~ (p > 6)
          OBVIOUS
        <5>2. \A p \in 1 .. 6 : {p} \cap 1 .. 6 = {p}
          BY Zenon
        <5> QED
          BY <4>2, <5>1, <5>2
      <4> QED
        BY <3>1, <4>1, <4>2, <4>3, <4>4
    <3>3. NoneMissed'
      BY <3>2 DEF NoneMissed
    <3> QED
      BY <2>0, <3>1, <3>3 DEF LUInv, LUTypeOK, Counting
  <2>5. CASE Disconnect
    BY <2>0, <2>5 DEF Disconnect, LUInv, LUTypeOK, Counting, NoneMissed, CountsOf
  <2>6. ASSUME NEW j \in TenantJobs, SubmitJob(j) \/ Move(j)
        PROVE  LUInv'
    <3>1. /\ socket' = socket /\ asked' = asked /\ counted' = counted /\ recent' = recent
          /\ moved' = moved \cup {j} /\ behind \subseteq behind'
      BY <2>6 DEF SubmitJob, Move
    <3>2. PICK s : state' = [state EXCEPT ![j] = s] /\ s \in JobStatuses
      <4>1. CASE SubmitJob(j)
        <5>1. "queued" \in JobStatuses
          BY DEF JobStatuses, QueryOrder
        <5>2. state' = [state EXCEPT ![j] = "queued"]
          BY <4>1 DEF SubmitJob
        <5> QED
          BY <5>1, <5>2
      <4>2. CASE Move(j)
        <5>1. PICK m \in Moves : state' = [state EXCEPT ![j] = m[2]]
          BY <4>2 DEF Move
        <5>2. m[2] \in JobStatuses
          BY DEF Moves, Begun, JobStatuses, QueryOrder
        <5> QED
          BY <5>1, <5>2
      <4> QED
        BY <2>6, <4>1, <4>2
    <3>3. \/ j \in behind'
          \/ state[j] # "absent" /\ ~ (Position(state'[j]) < Position(state[j]))
      <4>1. CASE SubmitJob(j)
        <5>1. behind' = behind \cup {j}
          BY <4>1 DEF SubmitJob
        <5> QED
          BY <5>1
      <4>2. CASE Move(j)
        <5>1. state[j] # "absent"
          BY <4>2 DEF Move, Moves, Begun
        <5>2. behind' = IF Position(state'[j]) < Position(state[j]) THEN behind \cup {j} ELSE behind
          BY <4>2 DEF Move
        <5> QED
          BY <5>1, <5>2, Zenon
      <4> QED
        BY <2>6, <4>1, <4>2
    <3>4. LUTypeOK'
      BY <2>0, <3>1, <3>2 DEF LUTypeOK
    <3>5. \A i \in TenantJobs : CountsOf(i)' = CountsOf(i)
      BY <3>1 DEF CountsOf
    <3>6. NoneMissed'
      BY <2>0, <3>1, <3>5 DEF NoneMissed
    <3>7. ASSUME socket = "building", NEW i \in TenantJobs, state'[i] # "absent"
          PROVE  Tracked(i)'
      <4>1. CASE i # j
        <5>1. state'[i] = state[i]
          BY <2>0, <3>2, <4>1 DEF LUTypeOK
        <5>2. Tracked(i)
          BY <2>0, <3>7, <5>1 DEF Counting
        <5> QED
          BY <3>1, <5>1, <5>2, StillTracked
      <4>2. CASE i = j
        <5>1. CASE j \in behind'
          BY <3>1, <4>2, <5>1 DEF Tracked
        <5>2. CASE state[j] # "absent" /\ ~ (Position(state'[j]) < Position(state[j]))
          <6>1. j \in behind \/ CountsOf(j) # {} \/ Position(state[j]) > asked
            BY <2>0, <3>7, <5>2 DEF Counting, Tracked
          <6>2. Position(state[j]) \in Int /\ asked \in Int
            BY <2>0, <5>2, PlaceOfJob DEF LUTypeOK
          <6>3. Position(state'[j]) \in Int
            <7>1. state'[j] \in JobStatuses
              BY <2>0, <3>2 DEF LUTypeOK
            <7> QED
              BY <7>1, Positions DEF JobStatuses
          <6>4. Position(state[j]) > asked => Position(state'[j]) > asked
            BY <5>2, <6>2, <6>3
          <6> QED
            BY <3>1, <3>5, <4>2, <6>1, <6>4 DEF Tracked
        <5> QED
          BY <3>3, <5>1, <5>2
      <4> QED
        BY <4>1, <4>2
    <3>8. Counting'
      BY <2>0, <3>1, <3>7 DEF Counting
    <3> QED
      BY <3>4, <3>6, <3>8 DEF LUInv
  <2>7. CASE UNCHANGED luvars
    BY <2>0, <2>7 DEF luvars, LUInv, Tracked, LUTypeOK, Counting, NoneMissed, CountsOf
  <2> QED
    BY <2>1, <2>2, <2>3, <2>4, <2>5, <2>6, <2>7 DEF LUNext
<1>3. LUInv => NoneMissed
  BY DEF LUInv
<1> QED
  BY <1>1, <1>2, <1>3, PTL DEF LUSpec

-----------------------------------------------------------------------------
(* The heartbeats.                                                         *)

\* The settings under which an idle worker stays in the count: it sleeps no longer
\* than the grace, and the beat that is due after a sleep comes within it.
\* The settings of config.py (1, 5 and 15 seconds) satisfy it.
BeatsInTime ==
    /\ IdleSleep <= OnlineThreshold
    /\ BeatEvery + IdleSleep <= OnlineThreshold + 1

HBTypeOK ==
    /\ nowSec \in Nat /\ channelAt \in Nat /\ lastIdle \in Int /\ sleepsTill \in Nat
    /\ busy \in {"no", "channel", "dead"}
    /\ updatedAt \in Nat \cup {Never}

\* The beats of a worker that lives: before the first one, a beat is due; after it the
\* row is no older than the last beat of the loop; a channel begins with a beat; and
\* a sleep ends before the row is too old, unless a job has just ended.
Beating ==
    /\ updatedAt = Never => lastIdle = 0 - BeatEvery /\ busy # "channel"
    /\ lastIdle <= nowSec
    /\ updatedAt # Never => lastIdle <= updatedAt /\ updatedAt <= nowSec
    /\ busy = "channel" => channelAt <= updatedAt
    /\ busy = "no" /\ updatedAt # Never =>
          \/ sleepsTill = nowSec /\ channelAt <= updatedAt
          \/ nowSec <= sleepsTill /\ sleepsTill <= lastIdle + OnlineThreshold

HBInv == HBTypeOK /\ Beating

LEMMA BeatConstants ==
    /\ BeatEvery \in Nat /\ IdleSleep \in Nat \ {0}
    /\ Never \notin Int /\ OnlineThreshold \in Nat
<1>1. \E x \in {5, GraceSetting} : \A y \in {5, GraceSetting} : x >= y
  BY BeatAssumption
<1>2. OnlineThreshold \in {5, GraceSetting}
  BY <1>1 DEF OnlineThreshold, Max
<1> QED
  BY <1>2, BeatAssumption

LEMMA BeatStep ==
    ASSUME BeatsInTime, HBInv, [HBNext]_hbvars
    PROVE  HBInv'
<1> DEFINE g == OnlineThreshold
<1>1. /\ BeatEvery \in Nat /\ IdleSleep \in Nat \ {0} /\ Never \notin Int /\ g \in Nat
      /\ IdleSleep <= g /\ BeatEvery + IdleSleep <= g + 1
  BY BeatConstants DEF BeatsInTime
<1> HIDE DEF g
<1>2. HBTypeOK
  BY DEF HBInv
<1>3. /\ updatedAt = Never => lastIdle = 0 - BeatEvery /\ busy # "channel"
      /\ lastIdle <= nowSec
      /\ updatedAt # Never => lastIdle <= updatedAt /\ updatedAt <= nowSec
      /\ busy = "channel" => channelAt <= updatedAt
      /\ busy = "no" /\ updatedAt # Never =>
            \/ sleepsTill = nowSec /\ channelAt <= updatedAt
            \/ nowSec <= sleepsTill /\ sleepsTill <= lastIdle + g
  BY DEF HBInv, Beating, g
<1>4. SUFFICES HBTypeOK' /\
         /\ updatedAt' = Never => lastIdle' = 0 - BeatEvery /\ busy' # "channel"
         /\ lastIdle' <= nowSec'
         /\ updatedAt' # Never => lastIdle' <= updatedAt' /\ updatedAt' <= nowSec'
         /\ busy' = "channel" => channelAt' <= updatedAt'
         /\ busy' = "no" /\ updatedAt' # Never =>
               \/ sleepsTill' = nowSec' /\ channelAt' <= updatedAt'
               \/ nowSec' <= sleepsTill' /\ sleepsTill' <= lastIdle' + g
  BY DEF HBInv, Beating, g, OnlineThreshold
<1>5. CASE FindNoJob
  <2>1. CASE BeatDue
    BY <1>1, <1>2, <1>3, <1>5, <2>1 DEF FindNoJob, LoopBeat, HBTypeOK
  <2>2. CASE ~ BeatDue
    <3>1. /\ lastIdle' = lastIdle /\ updatedAt' = updatedAt /\ nowSec - lastIdle < BeatEvery
          /\ sleepsTill' = nowSec + IdleSleep
          /\ nowSec' = nowSec /\ busy' = busy /\ channelAt' = channelAt /\ busy = "no"
      BY <1>1, <1>2, <1>5, <2>2 DEF FindNoJob, LoopBeat, BeatDue, HBTypeOK
    <3>2. updatedAt # Never
      BY <1>1, <1>2, <1>3, <3>1 DEF HBTypeOK
    <3> QED
      BY <1>1, <1>2, <1>3, <3>1, <3>2 DEF HBTypeOK
  <2> QED
    BY <2>1, <2>2
<1>6. CASE FindJob
  BY <1>1, <1>2, <1>3, <1>6 DEF FindJob, BeatDue, HBTypeOK
<1>7. CASE NextChannel
  BY <1>1, <1>2, <1>3, <1>7 DEF NextChannel, ChannelBeat, HBTypeOK
<1>8. CASE JobEnds
  BY <1>1, <1>2, <1>3, <1>8 DEF JobEnds, HBTypeOK
<1>9. CASE Dies
  BY <1>1, <1>2, <1>3, <1>9 DEF Dies, HBTypeOK
<1>10. CASE TimePasses
  BY <1>1, <1>2, <1>3, <1>10 DEF TimePasses, HBTypeOK
<1>11. CASE UNCHANGED hbvars
  BY <1>2, <1>3, <1>11 DEF hbvars, HBTypeOK
<1> QED
  BY <1>5, <1>6, <1>7, <1>8, <1>9, <1>10, <1>11 DEF HBNext

\* For any settings that satisfy BeatsInTime, and for any duration: a worker that
\* lives is missing in the count of online workers only while a channel takes longer
\* than the grace (run_worker, process_job and count_online_workers).
THEOREM LivingAreCounted ==
    ASSUME BeatsInTime
    PROVE  HBSpec => []MissingOnlyInLongChannels
<1>1. HBInit => HBInv
  BY BeatConstants DEF HBInit, HBInv, HBTypeOK, Beating
<1>2. HBInv /\ [HBNext]_hbvars => HBInv'
  BY BeatStep
<1>3. HBInv => MissingOnlyInLongChannels
  <2> DEFINE g == OnlineThreshold
  <2>1. g \in Nat
    BY BeatConstants
  <2>2. Never \notin Int
    BY BeatConstants
  <2> SUFFICES ASSUME HBInv, updatedAt # Never, updatedAt < nowSec - g, busy # "dead"
               PROVE  nowSec - channelAt > g /\ (busy = "channel" \/ sleepsTill = nowSec)
    BY <2>1, BeatConstants DEF MissingOnlyInLongChannels, CountedOnline, HBInv, HBTypeOK
  <2>3. /\ busy = "channel" => channelAt <= updatedAt
        /\ busy = "no" =>
              \/ sleepsTill = nowSec /\ channelAt <= updatedAt
              \/ nowSec <= sleepsTill /\ sleepsTill <= lastIdle + g
        /\ lastIdle <= updatedAt
    BY DEF HBInv, Beating
  <2> HIDE DEF g
  <2> QED
    BY <2>1, <2>2, <2>3 DEF HBInv, HBTypeOK
<1> QED
  BY <1>1, <1>2, <1>3, PTL DEF HBSpec

-----------------------------------------------------------------------------
(* The accounts.                                                           *)

\* A completed bootstrap owns the tenant of its name; only tokens that were given up
\* are revoked.
ACInv ==
    /\ asks \in [Bootstraps -> {"unsent", "checked", "completed", "refused", "failed"}]
    /\ \A b \in Bootstraps : asks[b] = "completed" =>
          /\ Wanted[b].name \in DOMAIN secrets
          /\ secrets[Wanted[b].name] = Wanted[b].secret
    /\ \A t \in DOMAIN issued : issued[t].revoked <=> t \in leftBy
    /\ leftBy \subseteq DOMAIN issued

\* For any requests and tokens: bootstraps that overlap do not take each other's
\* tenant, and a session ends by its own log-out or by time (bootstrap, login, logout
\* and resolve_token_user).
THEOREM AccountsStayUsable == ACSpec => []AccountsUsable
<1>1. ACInit => ACInv
  BY DEF ACInit, ACInv
<1>2. ACInv /\ [ACNext]_acvars => ACInv'
  <2> SUFFICES ASSUME ACInv, [ACNext]_acvars
               PROVE  ACInv'
    OBVIOUS
  <2>1. ASSUME NEW b \in Bootstraps, CheckNoUsers(b)
        PROVE  ACInv'
    BY <2>1 DEF CheckNoUsers, ACInv
  <2>2. ASSUME NEW b \in Bootstraps, CreateTenant(b)
        PROVE  ACInv'
    <3> DEFINE w == Wanted[b]
    <3>1. issued' = issued /\ leftBy' = leftBy
      BY <2>2 DEF CreateTenant
    <3>2. CASE NameIsFree(w.name)
      <4>1. /\ secrets' = Put(secrets, w.name, w.secret)
            /\ asks' = [asks EXCEPT ![b] = "completed"]
        BY <2>2, <3>2 DEF CreateTenant
      <4>2. /\ DOMAIN secrets' = {w.name} \cup DOMAIN secrets
            /\ secrets'[w.name] = w.secret
            /\ \A n \in DOMAIN secrets : secrets'[n] = secrets[n]
        <5>1. w.name \notin DOMAIN secrets
          BY <3>2 DEF NameIsFree
        <5> HIDE DEF w
        <5>2. /\ DOMAIN secrets' = DOMAIN secrets \cup {w.name}
              /\ secrets'[w.name] = w.secret
              /\ \A n \in DOMAIN secrets : n # w.name => secrets'[n] = secrets[n]
          BY <4>1 DEF Put
        <5> QED
          BY <5>1, <5>2
      <4> QED
        BY <3>1, <4>1, <4>2 DEF ACInv
    <3>3. CASE ~ NameIsFree(w.name)
      BY <2>2, <3>1, <3>3 DEF CreateTenant, ACInv
    <3> QED
      BY <3>2, <3>3
  <2>3. ASSUME NEW b \in Bootstraps, NEW t \in RawTokens, Login(b, t)
        PROVE  ACInv'
    <3>1. PICK n \in LogsInAs(Wanted[b].name, Wanted[b].secret) : issued' = Put(issued, t, NewToken(n))
      BY <2>3 DEF Login
    <3>2. t \notin DOMAIN issued /\ secrets' = secrets /\ asks' = asks /\ leftBy' = leftBy
      BY <2>3 DEF Login
    <3>3. /\ DOMAIN issued' = {t} \cup DOMAIN issued
          /\ issued'[t] = NewToken(n)
          /\ \A x \in DOMAIN issued : issued'[x] = issued[x]
      <4>1. /\ DOMAIN issued' = DOMAIN issued \cup {t}
            /\ issued'[t] = NewToken(n)
            /\ \A x \in DOMAIN issued : x # t => issued'[x] = issued[x]
        BY <3>1 DEF Put
      <4> QED
        BY <3>2, <4>1
    <3>4. ~ NewToken(n).revoked
      BY DEF NewToken
    <3> QED
      BY <3>2, <3>3, <3>4 DEF ACInv
  <2>4. ASSUME NEW t \in RawTokens, Logout(t)
        PROVE  ACInv'
    BY <2>4 DEF Logout, Revoked, ACInv
  <2>5. CASE HourPasses
    BY <2>5 DEF HourPasses, ACInv
  <2>6. CASE UNCHANGED acvars
    BY <2>6 DEF acvars, ACInv
  <2> QED
    BY <2>1, <2>2, <2>3, <2>4, <2>5, <2>6 DEF ACNext
<1>3. ACInv => AccountsUsable
  BY DEF ACInv, AccountsUsable, CompletedCanLogIn, SessionsLast, LogsInAs, Resolves
<1> QED
  BY <1>1, <1>2, <1>3, PTL DEF ACSpec

-----------------------------------------------------------------------------
(* The backups, for any number of files to keep, any distance of the       *)
(* drills, and any duration.                                               *)

BKTypeOK ==
    /\ second \in Nat \ {0}
    /\ DOMAIN files \subseteq 1 .. second
    /\ sched.pc \in {"asleep", "copying", "cleaning", "drilling", "dead"}
    /\ sched.name \in 0 .. second
    /\ oper.pc \in {"idle", "copying", "saving", "saved", "restoring"}
    /\ oper.name \in 0 .. second
    /\ newest \in 0 .. second

\* The names of files that sort after n.
LaterThan(n) == {k \in DOMAIN files : k > n}

\* The retention keeps n, or as many later ones as it was asked to keep.
Safe(n) == n \in DOMAIN files \/ Cardinality(LaterThan(n)) >= KeepLast

BKInv == BKTypeOK /\ (newest # Torn => Safe(newest))

LEMMA FilesFinite ==
    ASSUME BKTypeOK
    PROVE  /\ IsFiniteSet(DOMAIN files) /\ DOMAIN files \subseteq Nat
           /\ \A n : IsFiniteSet(LaterThan(n)) /\ Cardinality(LaterThan(n)) \in Nat
<1>1. IsFiniteSet(1 .. second)
  BY FS_Interval DEF BKTypeOK
<1>2. IsFiniteSet(DOMAIN files)
  BY <1>1, FS_Subset DEF BKTypeOK
<1>3. \A n : LaterThan(n) \subseteq DOMAIN files
  BY DEF LaterThan
<1>4. \A n : IsFiniteSet(LaterThan(n))
  BY <1>2, <1>3, FS_Subset
<1> QED
  BY <1>2, <1>4, FS_CardinalityType DEF BKTypeOK

\* A file that is added endangers no other one.
LEMMA MoreFilesAreSafe ==
    ASSUME BKTypeOK, BKTypeOK', DOMAIN files \subseteq DOMAIN files', NEW n, Safe(n)
    PROVE  Safe(n)'
<1>1. IsFiniteSet(LaterThan(n)') /\ LaterThan(n) \subseteq LaterThan(n)'
  <2>1. IsFiniteSet(1 .. second')
    BY FS_Interval DEF BKTypeOK
  <2>2. LaterThan(n)' \subseteq 1 .. second'
    BY DEF LaterThan, BKTypeOK
  <2> QED
    BY <2>1, <2>2, FS_Subset DEF LaterThan
<1>2. Cardinality(LaterThan(n)) <= Cardinality(LaterThan(n)')
  BY <1>1, FS_Subset
<1>3. Cardinality(LaterThan(n)) \in Nat /\ Cardinality(LaterThan(n)') \in Nat
  BY <1>1, FilesFinite, FS_CardinalityType
<1> QED
  BY <1>2, <1>3, BackupAssumption DEF Safe

\* Of the names that sort after n, the retention keeps KeepLast or all.
LEMMA RetentionKeeps ==
    ASSUME BKTypeOK, NEW n \in Nat, Cardinality(LaterThan(n)) >= KeepLast
    PROVE  Cardinality({k \in KeptNames : k > n}) >= KeepLast
<1> DEFINE A == LaterThan(n)
           K == {k \in KeptNames : k > n}
           Gone == A \ K
<1>1. IsFiniteSet(A) /\ K \subseteq A /\ IsFiniteSet(K)
  <2>1. K \subseteq A
    BY DEF KeptNames, LaterThan
  <2> QED
    BY <2>1, FilesFinite, FS_Subset
<1>2. CASE Gone = {}
  <2>1. K = A
    BY <1>1, <1>2
  <2> QED
    BY <2>1
<1>3. CASE Gone # {}
  <2>1. Gone \in SUBSET (0 .. second) /\ second \in Nat
    BY DEF LaterThan, BKTypeOK
  <2>2. PICK m \in Gone : \A x \in Gone : x <= m
    BY <1>3, <2>1, GreatestNumber
  <2>3. m \in DOMAIN files /\ m > n /\ m \notin KeptNames
    BY <2>2 DEF LaterThan
  <2>4. ~ (Cardinality(LaterThan(m)) < KeepLast)
    BY <2>3 DEF KeptNames, LaterThan
  <2>5. LaterThan(m) \subseteq K
    <3> SUFFICES ASSUME NEW x \in LaterThan(m), x \notin K
                 PROVE  FALSE
      OBVIOUS
    <3>1. x \in DOMAIN files /\ x > m /\ x \in Nat /\ m \in Nat
      BY <2>3, FilesFinite DEF LaterThan
    <3>2. x \in Gone
      BY <2>3, <3>1 DEF LaterThan
    <3> QED
      BY <2>2, <3>1, <3>2
  <2>6. Cardinality(LaterThan(m)) <= Cardinality(K)
    BY <1>1, <2>5, FS_Subset
  <2>7. Cardinality(K) \in Nat /\ Cardinality(LaterThan(m)) \in Nat
    BY <1>1, FilesFinite, FS_CardinalityType
  <2> HIDE DEF K
  <2> QED
    BY <2>4, <2>6, <2>7, BackupAssumption DEF K
<1> QED
  BY <1>2, <1>3

\* Steps that leave the files and the newest name alone.
LEMMA FilesUnchanged ==
    ASSUME BKInv, BKTypeOK', files' = files, newest' = newest
    PROVE  BKInv'
BY MoreFilesAreSafe DEF BKInv

\* A file is opened.
LEMMA OpenStep ==
    ASSUME BKInv, files' = Opened(second), newest' = newest, second' = second,
           sched'.pc \in {"asleep", "copying", "cleaning", "drilling", "dead"},
           sched'.name \in 0 .. second,
           oper'.pc \in {"idle", "copying", "saving", "saved", "restoring"},
           oper'.name \in 0 .. second
    PROVE  BKInv'
<1>1. DOMAIN files' = DOMAIN files \cup {second}
  BY DEF Opened, Put
<1>2. BKTypeOK'
  BY <1>1 DEF BKInv, BKTypeOK
<1> QED
  BY <1>1, <1>2, MoreFilesAreSafe DEF BKInv

\* A copy is finished.
LEMMA FinishStep ==
    ASSUME BKInv, NEW n \in 0 .. second, Finished(n), second' = second,
           sched'.pc \in {"asleep", "copying", "cleaning", "drilling", "dead"},
           sched'.name \in 0 .. second,
           oper'.pc \in {"idle", "copying", "saving", "saved", "restoring"},
           oper'.name \in 0 .. second
    PROVE  BKInv'
<1>1. DOMAIN files' = DOMAIN files /\ n \in DOMAIN files
  BY DEF Finished, Put
<1>2. newest' \in {newest, n}
  <2>1. newest \in Int /\ n \in Int
    BY DEF BKInv, BKTypeOK
  <2>2. \E x \in {newest, n} : \A y \in {newest, n} : x >= y
    BY <2>1
  <2> QED
    BY <2>2 DEF Finished, Max
<1>3. BKTypeOK'
  BY <1>1, <1>2 DEF BKInv, BKTypeOK
<1>4. CASE newest' = n
  BY <1>1, <1>3, <1>4 DEF BKInv, Safe
<1>5. CASE newest' = newest
  BY <1>1, <1>3, <1>5, MoreFilesAreSafe DEF BKInv
<1> QED
  BY <1>2, <1>4, <1>5

\* The retention removes files.
LEMMA CleanupStep ==
    ASSUME BKInv, Cleanup
    PROVE  BKInv'
<1>1. DOMAIN files' = KeptNames /\ KeptNames \subseteq DOMAIN files
  BY DEF Cleanup, Restrict, KeptNames
<1>2. newest' = newest /\ second' = second /\ oper' = oper
  BY DEF Cleanup
<1>3. /\ sched'.pc \in {"asleep", "drilling"}
      /\ sched'.name = sched.name
  BY DEF Cleanup
<1>4. BKTypeOK'
  BY <1>1, <1>2, <1>3 DEF BKInv, BKTypeOK
<1>5. ASSUME newest # Torn
      PROVE  Safe(newest)'
  <2>1. Safe(newest) /\ newest \in Nat
    BY <1>5 DEF BKInv, BKTypeOK
  <2>2. LaterThan(newest)' = {k \in KeptNames : k > newest}
    BY <1>1, <1>2 DEF LaterThan
  <2>3. CASE newest \in KeptNames
    BY <1>1, <1>2, <2>3 DEF Safe
  <2>4. CASE newest \notin KeptNames
    <3>1. Cardinality(LaterThan(newest)) >= KeepLast
      <4>1. CASE newest \in DOMAIN files
        <5>1. ~ (Cardinality(LaterThan(newest)) < KeepLast)
          BY <2>4, <4>1 DEF KeptNames, LaterThan
        <5>2. Cardinality(LaterThan(newest)) \in Nat
          BY FilesFinite DEF BKInv
        <5> QED
          BY <5>1, <5>2, BackupAssumption
      <4>2. CASE newest \notin DOMAIN files
        BY <2>1, <4>2 DEF Safe
      <4> QED
        BY <4>1, <4>2
    <3>2. Cardinality({k \in KeptNames : k > newest}) >= KeepLast
      BY <2>1, <3>1, RetentionKeeps DEF BKInv
    <3> QED
      BY <2>2, <3>2 DEF Safe
  <2> QED
    BY <2>3, <2>4
<1> QED
  BY <1>2, <1>4, <1>5 DEF BKInv

\* For any KeepLast: the newest finished backup is there, or KeepLast files with
\* later names are (backup_sqlite and _cleanup_retention), through crashes, copies
\* that overlap and commands that are broken off.
THEOREM NewestBackupStays == BKSpec => []NewestBackupKept
<1>1. BKInit => BKInv
  BY DEF BKInit, BKInv, BKTypeOK, Idle, Torn
<1>2. BKInv /\ [BKNext]_bkvars => BKInv'
  <2> SUFFICES ASSUME BKInv, [BKNext]_bkvars
               PROVE  BKInv'
    OBVIOUS
  <2>1. BKTypeOK
    BY DEF BKInv
  <2>2. CASE BeginBackup
    BY <2>1, <2>2, OpenStep DEF BeginBackup, BKTypeOK
  <2>3. CASE EndBackup
    <3>1. sched'.pc = "cleaning" /\ sched'.name = sched.name
      BY <2>3 DEF EndBackup
    <3> QED
      BY <2>1, <2>3, <3>1, FinishStep DEF EndBackup, BKTypeOK
  <2>4. CASE Cleanup
    BY <2>4, CleanupStep
  <2>5. CASE Drill
    <3>1. sched'.pc \in {"asleep", "dead"} /\ sched'.name = sched.name
      BY <2>5 DEF Drill
    <3> QED
      BY <2>1, <2>5, <3>1, FilesUnchanged DEF Drill, BKTypeOK
  <2>6. CASE SchedulerRestarts
    BY <2>1, <2>6, FilesUnchanged DEF SchedulerRestarts, BKTypeOK
  <2>7. CASE BeginByHand
    BY <2>1, <2>7, OpenStep DEF BeginByHand, BKTypeOK
  <2>8. CASE EndByHand
    BY <2>1, <2>8, FinishStep DEF EndByHand, Idle, BKTypeOK
  <2>9. ASSUME NEW n \in DOMAIN files, BeginRestore(n)
        PROVE  BKInv'
    BY <2>1, <2>9, FilesUnchanged DEF BeginRestore, BKTypeOK
  <2>10. CASE SaveOld
    <3>1. oper'.pc = "saved" /\ oper'.name = oper.name
      BY <2>10 DEF SaveOld
    <3> QED
      BY <2>1, <2>10, <3>1, FilesUnchanged DEF SaveOld, BKTypeOK
  <2>11. CASE Overwrite
    <3>1. oper'.pc = "restoring" /\ oper'.name = oper.name
      BY <2>11 DEF Overwrite
    <3> QED
      BY <2>1, <2>11, <3>1, FilesUnchanged DEF Overwrite, BKTypeOK
  <2>12. CASE EndRestore
    BY <2>1, <2>12, FilesUnchanged DEF EndRestore, Idle, BKTypeOK
  <2>13. CASE BreakOff
    BY <2>1, <2>13, FilesUnchanged DEF BreakOff, Idle, BKTypeOK
  <2>14. CASE Write
    BY <2>1, <2>14, FilesUnchanged DEF Write, BKTypeOK
  <2>15. CASE NextSecond
    BY <2>1, <2>15, FilesUnchanged DEF NextSecond, BKTypeOK
  <2>16. CASE UNCHANGED bkvars
    BY <2>1, <2>16, FilesUnchanged DEF bkvars, BKTypeOK
  <2> QED
    BY <2>2, <2>3, <2>4, <2>5, <2>6, <2>7, <2>8, <2>9, <2>10, <2>11, <2>12, <2>13,
       <2>14, <2>15, <2>16 DEF BKNext
<1>3. BKInv => NewestBackupKept
  BY DEF BKInv, Safe, LaterThan, NewestBackupKept
<1> QED
  BY <1>1, <1>2, <1>3, PTL DEF BKSpec

-----------------------------------------------------------------------------
(* The restore.                                                            *)

\* Until it is copied, what a restore found is still in the database; then it is in
\* a pre_restore file.
RestoreInv ==
    /\ RestoreKeepsOld
    /\ oper.pc = "saving" => old = db
    /\ oper.pc \in {"saved", "restoring"} => old \in Range(pre)

\* For any duration: wherever a restore is broken off, what it found is the content
\* of the database or of a pre_restore file (restore_sqlite).
THEOREM OldContentIsKept == BKSpec => []RestoreKeepsOld
<1>1. BKInit => RestoreInv
  BY DEF BKInit, RestoreInv, RestoreKeepsOld, Idle
<1>2. RestoreInv /\ [BKNext]_bkvars => RestoreInv'
  <2> SUFFICES ASSUME RestoreInv, [BKNext]_bkvars
               PROVE  RestoreInv'
    OBVIOUS
  <2> USE DEF RestoreInv, RestoreKeepsOld
  <2>1. CASE BeginBackup \/ EndBackup \/ Cleanup \/ Drill \/ SchedulerRestarts \/ NextSecond
    <3>1. oper' = oper /\ db' = db /\ old' = old /\ pre' = pre
      BY <2>1 DEF BeginBackup, EndBackup, Cleanup, Drill, SchedulerRestarts, NextSecond
    <3> QED
      BY <3>1
  <2>2. CASE BeginByHand
    BY <2>2 DEF BeginByHand
  <2>3. CASE EndByHand
    BY <2>3 DEF EndByHand, Idle
  <2>4. ASSUME NEW n \in DOMAIN files, BeginRestore(n)
        PROVE  RestoreInv'
    BY <2>4 DEF BeginRestore
  <2>5. CASE SaveOld
    <3>1. /\ oper.pc = "saving" /\ old = db /\ old' = old /\ db' = db
          /\ oper'.pc = "saved"
      BY <2>5 DEF SaveOld
    <3>2. db \in Range(pre')
      BY <2>5 DEF SaveOld, Put, Range
    <3> QED
      BY <3>1, <3>2
  <2>6. CASE Overwrite
    <3>1. oper.pc = "saved" /\ oper'.pc = "restoring" /\ old' = old /\ pre' = pre
      BY <2>6 DEF Overwrite
    <3> QED
      BY <3>1
  <2>7. CASE EndRestore
    BY <2>7 DEF EndRestore, Idle
  <2>8. CASE BreakOff
    BY <2>8 DEF BreakOff, Idle
  <2>9. CASE Write
    BY <2>9 DEF Write
  <2>10. CASE UNCHANGED bkvars
    BY <2>10 DEF bkvars
  <2> QED
    BY <2>1, <2>2, <2>3, <2>4, <2>5, <2>6, <2>7, <2>8, <2>9, <2>10 DEF BKNext
<1>3. RestoreInv => RestoreKeepsOld
  BY DEF RestoreInv
<1> QED
  BY <1>1, <1>2, <1>3, PTL DEF BKSpec

=============================================================================
