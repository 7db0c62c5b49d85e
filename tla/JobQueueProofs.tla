-------------------------- MODULE JobQueueProofs --------------------------
(***************************************************************************)
(* Proofs about JobQueue, for any numbers of jobs, workers and channels,   *)
(* any time-outs and any number of crashes.                                *)
(***************************************************************************)
EXTENDS JobQueue, FiniteSetTheorems, TLAPS

\* The values the actions assign are in the sets of TypeOK.
LEMMA Values ==
    /\ JobStatus = {"absent", "queued", "processing", "retry_wait", "completed",
                    "dead_letter"}
    /\ ChanStatus = {"queued", "processing", "completed", "failed"}
    /\ PcSet = {"down", "poll", "released", "picked", "acquired", "resetting",
                "touching", "opening", "transcribing", "renewing", "writing",
                "finishing", "completing", "reporting", "failing", "burying"}
    /\ 1 \in Channels
    /\ NoSnapshot \in Snapshot
    /\ Idle \in [status: {"none", "idle", "processing"}, job: Jobs \cup {NoJob}]
    /\ \A j \in Jobs :
          Processing(j) \in [status: {"none", "idle", "processing"},
                            job: Jobs \cup {NoJob}]
  BY QueueAssumption DEF NoSnapshot, Snapshot, Idle, Processing, JobStatus,
     ChanStatus, Candidates, Terminal, PcSet, Busy, Channels

\* What a session loads of a job row is a snapshot.
LEMMA LoadedType ==
  ASSUME TypeOK, NEW j \in Jobs
  PROVE  Loaded(j) \in Snapshot
  BY DEF TypeOK, Loaded, Snapshot

\* A worker with a picked or a processed job has one.
HasJob == \A w \in Workers : pc[w] \in Busy \cup {"picked"} => cur[w] \in Jobs

\* No step of the API, a worker or the clock leaves the types, and none makes a
\* worker busy without a job.
LEMMA TypeStep == TypeOK /\ HasJob /\ [Next]_vars => TypeOK' /\ HasJob'
<1> SUFFICES ASSUME TypeOK, HasJob, [Next]_vars PROVE TypeOK' /\ HasJob'
  OBVIOUS
<1> USE QueueAssumption, Values
<1>1. ASSUME NEW j \in Jobs, Submit(j) PROVE TypeOK' /\ HasJob'
  <2>1. TypeOK'
    BY <1>1, LoadedType DEF TypeOK, HasJob, Busy, rows, content, locals, Submit
  <2>2. HasJob'
    BY <1>1 DEF TypeOK, HasJob, Busy, locals, Submit
  <2> QED BY <2>1, <2>2
<1>2. ASSUME NEW w \in Workers, IdleBeat(w) PROVE TypeOK' /\ HasJob'
  <2>1. TypeOK'
    BY <1>2, LoadedType DEF TypeOK, HasJob, Busy, rows, content, locals, IdleBeat
  <2>2. HasJob'
    BY <1>2 DEF TypeOK, HasJob, Busy, locals, IdleBeat
  <2> QED BY <2>1, <2>2
<1>3. ASSUME NEW w \in Workers, ReleaseStale(w) PROVE TypeOK' /\ HasJob'
  <2>1. TypeOK'
    BY <1>3, LoadedType DEF TypeOK, HasJob, Busy, rows, content, locals, ReleaseStale, ReleasedStatus
  <2>2. HasJob'
    BY <1>3 DEF TypeOK, HasJob, Busy, locals, ReleaseStale, ReleasedStatus
  <2> QED BY <2>1, <2>2
<1>4. ASSUME NEW w \in Workers, Pick(w) PROVE TypeOK' /\ HasJob'
  <2>1. TypeOK'
    BY <1>4, LoadedType DEF TypeOK, HasJob, Busy, rows, content, locals, Pick
  <2>2. HasJob'
    BY <1>4 DEF TypeOK, HasJob, Busy, locals, Pick
  <2> QED BY <2>1, <2>2
<1>5. ASSUME NEW w \in Workers, NothingToPick(w) PROVE TypeOK' /\ HasJob'
  <2>1. TypeOK'
    BY <1>5, LoadedType DEF TypeOK, HasJob, Busy, rows, content, locals, NothingToPick
  <2>2. HasJob'
    BY <1>5 DEF TypeOK, HasJob, Busy, locals, NothingToPick
  <2> QED BY <2>1, <2>2
<1>6. ASSUME NEW w \in Workers, Claim(w) PROVE TypeOK' /\ HasJob'
  <2>1. TypeOK'
    BY <1>6, LoadedType DEF TypeOK, HasJob, Busy, rows, content, locals, Claim
  <2>2. HasJob'
    BY <1>6 DEF TypeOK, HasJob, Busy, locals, Claim
  <2> QED BY <2>1, <2>2
<1>7. ASSUME NEW w \in Workers, ClaimLost(w) PROVE TypeOK' /\ HasJob'
  <2>1. TypeOK'
    BY <1>7, LoadedType DEF TypeOK, HasJob, Busy, rows, content, locals, ClaimLost
  <2>2. HasJob'
    BY <1>7 DEF TypeOK, HasJob, Busy, locals, ClaimLost
  <2> QED BY <2>1, <2>2
<1>8. ASSUME NEW w \in Workers, Start(w) PROVE TypeOK' /\ HasJob'
  <2>1. TypeOK'
    BY <1>8, LoadedType DEF TypeOK, HasJob, Busy, rows, content, locals, Start
  <2>2. HasJob'
    BY <1>8 DEF TypeOK, HasJob, Busy, locals, Start
  <2> QED BY <2>1, <2>2
<1>9. ASSUME NEW w \in Workers, Reset(w) PROVE TypeOK' /\ HasJob'
  <2>1. TypeOK'
    BY <1>9, LoadedType DEF TypeOK, HasJob, Busy, rows, content, locals, Reset, Flush
  <2>2. HasJob'
    BY <1>9 DEF TypeOK, HasJob, Busy, locals, Reset, Flush
  <2> QED BY <2>1, <2>2
<1>10. ASSUME NEW w \in Workers, TouchBefore(w) PROVE TypeOK' /\ HasJob'
  <2>1. TypeOK'
    BY <1>10, LoadedType DEF TypeOK, HasJob, Busy, rows, content, locals, TouchBefore, TouchJob
  <2>2. HasJob'
    BY <1>10 DEF TypeOK, HasJob, Busy, locals, TouchBefore, TouchJob
  <2> QED BY <2>1, <2>2
<1>11. ASSUME NEW w \in Workers, OpenChannel(w) PROVE TypeOK' /\ HasJob'
  <2>1. TypeOK'
    BY <1>11, LoadedType DEF TypeOK, HasJob, Busy, rows, content, locals, OpenChannel
  <2>2. HasJob'
    BY <1>11 DEF TypeOK, HasJob, Busy, locals, OpenChannel
  <2> QED BY <2>1, <2>2
<1>12. ASSUME NEW w \in Workers, Transcribe(w) PROVE TypeOK' /\ HasJob'
  <2>1. TypeOK'
    BY <1>12, LoadedType DEF TypeOK, HasJob, Busy, rows, content, locals, Transcribe
  <2>2. HasJob'
    BY <1>12 DEF TypeOK, HasJob, Busy, locals, Transcribe
  <2> QED BY <2>1, <2>2
<1>13. ASSUME NEW w \in Workers, TranscribeFails(w) PROVE TypeOK' /\ HasJob'
  <2>1. TypeOK'
    BY <1>13, LoadedType DEF TypeOK, HasJob, Busy, rows, content, locals, TranscribeFails
  <2>2. HasJob'
    BY <1>13 DEF TypeOK, HasJob, Busy, locals, TranscribeFails
  <2> QED BY <2>1, <2>2
<1>14. ASSUME NEW w \in Workers, TouchAfter(w) PROVE TypeOK' /\ HasJob'
  <2>1. TypeOK'
    BY <1>14, LoadedType DEF TypeOK, HasJob, Busy, rows, content, locals, TouchAfter, TouchJob
  <2>2. HasJob'
    BY <1>14 DEF TypeOK, HasJob, Busy, locals, TouchAfter, TouchJob
  <2> QED BY <2>1, <2>2
<1>15. ASSUME NEW w \in Workers, WriteChannel(w) PROVE TypeOK' /\ HasJob'
  <2>1. TypeOK'
    <3>1. cur[w] \in Jobs
      BY <1>15 DEF HasJob, WriteChannel, Busy
    <3>2. /\ chan' \in [Jobs -> [Channels -> ChanStatus]]
          /\ words' \in [Jobs -> [Channels -> Workers \cup {NoWorker}]]
      BY <1>15, <3>1 DEF TypeOK, WriteChannel
    <3>3. ch' \in [Workers -> Channels]
      <4>1. ch[w] \in 1 .. NumChannels
        BY <1>15 DEF TypeOK, Channels
      <4>2. CASE ch[w] < NumChannels
        BY <1>15, <4>1, <4>2 DEF TypeOK, WriteChannel, Channels
      <4>3. CASE ch[w] = NumChannels
        BY <1>15, <4>1, <4>3 DEF TypeOK, WriteChannel, Channels
      <4> QED
        BY <4>1, <4>2, <4>3
    <3>4. pc' \in [Workers -> PcSet]
      BY <1>15 DEF TypeOK, WriteChannel
    <3> QED
      BY <1>15, <3>2, <3>3, <3>4 DEF TypeOK, WriteChannel, rows
  <2>2. HasJob'
    BY <1>15 DEF TypeOK, HasJob, Busy, locals, WriteChannel, Channels
  <2> QED BY <2>1, <2>2
<1>16. ASSUME NEW w \in Workers, CheckChannels(w) PROVE TypeOK' /\ HasJob'
  <2>1. TypeOK'
    <3>1. Loaded(cur[w]) \in Snapshot
      BY <1>16, LoadedType DEF HasJob, CheckChannels, Busy
    <3>2. pc' \in [Workers -> PcSet]
      <4>1. \/ pc' = [pc EXCEPT ![w] = "failing"]
            \/ pc' = [pc EXCEPT ![w] = "completing"]
        BY <1>16, Zenon DEF CheckChannels
      <4> QED
        BY <4>1 DEF TypeOK
    <3>3. seen' \in [Workers -> Snapshot]
      <4>1. seen' = seen \/ seen' = [seen EXCEPT ![w] = Loaded(cur[w])]
        BY <1>16, Zenon DEF CheckChannels
      <4> QED
        BY <4>1, <3>1 DEF TypeOK
    <3>4. UNCHANGED <<rows, content, beat, cur, ch, since, stops>>
      BY <1>16 DEF CheckChannels
    <3> QED
      BY <3>2, <3>3, <3>4 DEF TypeOK, rows, content
  <2>2. HasJob'
    BY <1>16 DEF TypeOK, HasJob, Busy, locals, CheckChannels
  <2> QED BY <2>1, <2>2
<1>17. ASSUME NEW w \in Workers, Complete(w) PROVE TypeOK' /\ HasJob'
  <2>1. TypeOK'
    BY <1>17, LoadedType DEF TypeOK, HasJob, Busy, rows, content, locals, Complete, FlushUnlocked, Flush, Snapshot
  <2>2. HasJob'
    BY <1>17 DEF TypeOK, HasJob, Busy, locals, Complete, FlushUnlocked, Flush, Snapshot
  <2> QED BY <2>1, <2>2
<1>17a. ASSUME NEW w \in Workers, Reported(w) PROVE TypeOK' /\ HasJob'
  <2>1. TypeOK'
    BY <1>17a, LoadedType DEF TypeOK, HasJob, Busy, rows, content, locals, Reported, BackToPoll
  <2>2. HasJob'
    BY <1>17a DEF TypeOK, HasJob, Busy, locals, Reported, BackToPoll
  <2> QED BY <2>1, <2>2
<1>18. ASSUME NEW w \in Workers, Raise(w) PROVE TypeOK' /\ HasJob'
  <2>1. TypeOK'
    BY <1>18, LoadedType DEF TypeOK, HasJob, Busy, rows, content, locals, Raise
  <2>2. HasJob'
    BY <1>18 DEF TypeOK, HasJob, Busy, locals, Raise
  <2> QED BY <2>1, <2>2
<1>19. ASSUME NEW w \in Workers, LoadFailed(w) PROVE TypeOK' /\ HasJob'
  <2>1. TypeOK'
    BY <1>19, LoadedType DEF TypeOK, HasJob, Busy, rows, content, locals, LoadFailed
  <2>2. HasJob'
    BY <1>19 DEF TypeOK, HasJob, Busy, locals, LoadFailed
  <2> QED BY <2>1, <2>2
<1>20. ASSUME NEW w \in Workers, Bury(w) PROVE TypeOK' /\ HasJob'
  <2>1. TypeOK'
    BY <1>20, LoadedType DEF TypeOK, HasJob, Busy, rows, content, locals, Bury, FlushUnlocked, Flush, BackToPoll, MayRetry, NextRetryCount, Snapshot
  <2>2. HasJob'
    BY <1>20 DEF TypeOK, HasJob, Busy, locals, Bury, FlushUnlocked, Flush, BackToPoll, MayRetry, NextRetryCount, Snapshot
  <2> QED BY <2>1, <2>2
<1>21. ASSUME NEW w \in Workers, Stop(w) PROVE TypeOK' /\ HasJob'
  <2>1. TypeOK'
    BY <1>21, LoadedType DEF TypeOK, HasJob, Busy, rows, content, locals, Stop, Halt
  <2>2. HasJob'
    BY <1>21 DEF TypeOK, HasJob, Busy, locals, Stop, Halt
  <2> QED BY <2>1, <2>2
<1>22. ASSUME NEW w \in Workers, Boot(w) PROVE TypeOK' /\ HasJob'
  <2>1. TypeOK'
    BY <1>22, LoadedType DEF TypeOK, HasJob, Busy, rows, content, locals, Boot
  <2>2. HasJob'
    BY <1>22 DEF TypeOK, HasJob, Busy, locals, Boot
  <2> QED BY <2>1, <2>2
<1>23. CASE Tick
  BY <1>23 DEF TypeOK, HasJob, Tick, Older, content
<1>24. CASE UNCHANGED vars
  BY <1>24 DEF TypeOK, HasJob, vars, rows, content, locals
<1>25. QED
  BY <1>1, <1>2, <1>3, <1>4, <1>5, <1>6, <1>7, <1>8, <1>9, <1>10, <1>11, <1>12, <1>13, <1>14, <1>15, <1>16, <1>17, <1>17a, <1>18, <1>19, <1>20, <1>21, <1>22, <1>23, <1>24 DEF Next, Advance

\* An empty database with all workers down has the types.
LEMMA InitType == Init => TypeOK /\ HasJob
  BY QueueAssumption, Values
     DEF Init, TypeOK, HasJob, Busy, NoBeat, Channels

\* The state of every run has the types of TypeOK: rows, workers, clocks.
THEOREM TypeCorrect == Spec => []TypeOK
<1>1. Init => TypeOK /\ HasJob
  BY InitType
<1>2. TypeOK /\ HasJob /\ [Next]_vars => TypeOK' /\ HasJob'
  BY TypeStep
<1> QED
  BY <1>1, <1>2, PTL DEF Spec

-----------------------------------------------------------------------------

\* A busy worker holds the lock of its job, and the row is as old as the worker's
\* own clock says; or the worker has completed the job and reports on it.
Holds == \A w \in Workers : pc[w] \in Busy =>
    \/ /\ lockedBy[cur[w]] = w /\ lockAge[cur[w]] = since[w]
       /\ pc[w] # "reporting"
    \/ StillReporting(w, cur[w])

\* What a worker has loaded is still what the row says.
Fresh == \A w \in Workers : pc[w] \in {"resetting", "completing", "burying"} =>
            seen[w] = Loaded(cur[w])

\* The lock protocol: inductive while workers renew in time.  Exclusive does not
\* follow from the locks alone: after the completion there is none.
LockInv == TypeOK /\ HasJob /\ Holds /\ Exclusive /\ Fresh /\ Recoverable

\* Nothing is locked when no worker runs and no job was submitted.
LEMMA InitLock == Init => LockInv
  BY InitType DEF Init, LockInv, Holds, Exclusive, Fresh, Recoverable, Busy

\* While workers renew in time, no step of another worker, of the clock or of
\* a release touches the lock of a busy one.
LEMMA LockStep == Timely /\ LockInv /\ [Next]_vars => LockInv'
<1> SUFFICES ASSUME Timely, LockInv, [Next]_vars PROVE LockInv'
  OBVIOUS
<1>t. TypeOK' /\ HasJob'
  BY TypeStep DEF LockInv
<1> USE QueueAssumption DEF LockInv, TypeOK, HasJob, Holds, Exclusive, StillReporting,
       Fresh, Recoverable
<1>1. ASSUME NEW j \in Jobs, Submit(j) PROVE LockInv'
  <2>1. lockedBy[j] = NoWorker
    BY <1>1 DEF Submit
  <2>2. Recoverable' /\ Exclusive'
    BY <1>1, <2>1 DEF Submit, locals
  <2>3. Holds' /\ Fresh'
    BY <1>1, <2>1 DEF Submit, Busy, content, locals, Loaded
  <2> QED
    BY <1>t, <2>2, <2>3
<1>2. ASSUME NEW w \in Workers, IdleBeat(w) PROVE LockInv'
  <2>1. Holds'
    BY <1>2 DEF Busy, rows, content, locals, Loaded, Timely, StaleLock, Claimable, Candidates, IdleBeat
  <2>2. Exclusive'
    BY <1>2 DEF Busy, rows, content, locals, Loaded, Timely, StaleLock, Claimable, Candidates, IdleBeat
  <2>3. Fresh'
    BY <1>2 DEF Busy, rows, content, locals, Loaded, Timely, StaleLock, Claimable, Candidates, IdleBeat
  <2>4. Recoverable'
    BY <1>2 DEF Busy, rows, content, locals, Loaded, Timely, StaleLock, Claimable, Candidates, IdleBeat
  <2> QED
    BY <1>t, <2>1, <2>2, <2>3, <2>4
<1>3. ASSUME NEW w \in Workers, ReleaseStale(w) PROVE LockInv'
  <2>1. \A v \in Workers : pc[v] \in Busy => cur[v] \in Jobs /\ ~ StaleLock(cur[v])
    BY DEF Busy, StaleLock, Timely
  <2>2. \A j \in Jobs : ~ StaleLock(j) =>
            /\ status'[j] = status[j] /\ lockedBy'[j] = lockedBy[j]
            /\ lockAge'[j] = lockAge[j] /\ retryCount'[j] = retryCount[j]
    BY <1>3 DEF ReleaseStale
  <2>3. pc' = [pc EXCEPT ![w] = "released"] /\ pc[w] = "poll" /\ UNCHANGED <<cur, seen, since>>
    BY <1>3 DEF ReleaseStale
  <2>4. \A v \in Workers : pc'[v] \in Busy =>
            /\ pc[v] \in Busy /\ pc'[v] = pc[v] /\ cur[v] \in Jobs
            /\ ~ StaleLock(cur[v])
    BY <2>1, <2>3 DEF Busy
  <2>5. Holds'
    BY <2>2, <2>3, <2>4
  <2>6. Exclusive'
    BY <2>3, <2>4
  <2>7. Fresh'
    BY <2>2, <2>3, <2>4 DEF Loaded, Busy
  <2>8. Recoverable'
    BY <1>3 DEF ReleaseStale, ReleasedStatus, StaleLock
  <2> QED
    BY <1>t, <2>5, <2>6, <2>7, <2>8
<1>4. ASSUME NEW w \in Workers, Pick(w) PROVE LockInv'
  <2>1. Holds'
    BY <1>4 DEF Busy, rows, content, locals, Loaded, Timely, StaleLock, Claimable, Candidates, Pick
  <2>2. Exclusive'
    BY <1>4 DEF Busy, rows, content, locals, Loaded, Timely, StaleLock, Claimable, Candidates, Pick
  <2>3. Fresh'
    BY <1>4 DEF Busy, rows, content, locals, Loaded, Timely, StaleLock, Claimable, Candidates, Pick
  <2>4. Recoverable'
    BY <1>4 DEF Busy, rows, content, locals, Loaded, Timely, StaleLock, Claimable, Candidates, Pick
  <2> QED
    BY <1>t, <2>1, <2>2, <2>3, <2>4
<1>5. ASSUME NEW w \in Workers, NothingToPick(w) PROVE LockInv'
  <2>1. Holds'
    BY <1>5 DEF Busy, rows, content, locals, Loaded, Timely, StaleLock, Claimable, Candidates, NothingToPick
  <2>2. Exclusive'
    BY <1>5 DEF Busy, rows, content, locals, Loaded, Timely, StaleLock, Claimable, Candidates, NothingToPick
  <2>3. Fresh'
    BY <1>5 DEF Busy, rows, content, locals, Loaded, Timely, StaleLock, Claimable, Candidates, NothingToPick
  <2>4. Recoverable'
    BY <1>5 DEF Busy, rows, content, locals, Loaded, Timely, StaleLock, Claimable, Candidates, NothingToPick
  <2> QED
    BY <1>t, <2>1, <2>2, <2>3, <2>4
<1>6. ASSUME NEW w \in Workers, Claim(w) PROVE LockInv'
  <2>1. pc[w] = "picked" /\ cur[w] \in Jobs /\ Claimable(cur[w])
    BY <1>6 DEF Claim
  <2>2. \A v \in Workers : pc[v] \in Busy => cur[v] # cur[w]
    BY <2>1 DEF Claimable, Candidates
  <2>3. /\ status' = [status EXCEPT ![cur[w]] = "processing"]
        /\ lockedBy' = [lockedBy EXCEPT ![cur[w]] = w]
        /\ lockAge' = [lockAge EXCEPT ![cur[w]] = 0]
        /\ since' = [since EXCEPT ![w] = 0]
        /\ pc' = [pc EXCEPT ![w] = "acquired"]
        /\ UNCHANGED <<retryCount, cur, seen>>
    BY <1>6 DEF Claim
  <2>4. \A v \in Workers : v # w /\ pc'[v] \in Busy => pc[v] \in Busy /\ pc'[v] = pc[v]
    BY <2>3
  <2>5. Holds'
    BY <2>1, <2>2, <2>3, <2>4
  <2>6. Exclusive'
    BY <2>2, <2>3, <2>4
  <2>7. Fresh'
    BY <2>1, <2>2, <2>3, <2>4 DEF Busy, Loaded
  <2>8. Recoverable'
    BY <2>1, <2>3
  <2> QED
    BY <1>t, <2>5, <2>6, <2>7, <2>8
<1>7. ASSUME NEW w \in Workers, ClaimLost(w) PROVE LockInv'
  <2>1. Holds'
    BY <1>7 DEF Busy, rows, content, locals, Loaded, Timely, StaleLock, Claimable, Candidates, ClaimLost
  <2>2. Exclusive'
    BY <1>7 DEF Busy, rows, content, locals, Loaded, Timely, StaleLock, Claimable, Candidates, ClaimLost
  <2>3. Fresh'
    BY <1>7 DEF Busy, rows, content, locals, Loaded, Timely, StaleLock, Claimable, Candidates, ClaimLost
  <2>4. Recoverable'
    BY <1>7 DEF Busy, rows, content, locals, Loaded, Timely, StaleLock, Claimable, Candidates, ClaimLost
  <2> QED
    BY <1>t, <2>1, <2>2, <2>3, <2>4
<1>8. ASSUME NEW w \in Workers, Start(w) PROVE LockInv'
  <2>1. Holds'
    BY <1>8 DEF Busy, rows, content, locals, Loaded, Timely, StaleLock, Claimable, Candidates, Start
  <2>2. Exclusive'
    BY <1>8 DEF Busy, rows, content, locals, Loaded, Timely, StaleLock, Claimable, Candidates, Start
  <2>3. Fresh'
    BY <1>8 DEF Busy, rows, content, locals, Loaded, Timely, StaleLock, Claimable, Candidates, Start
  <2>4. Recoverable'
    BY <1>8 DEF Busy, rows, content, locals, Loaded, Timely, StaleLock, Claimable, Candidates, Start
  <2> QED
    BY <1>t, <2>1, <2>2, <2>3, <2>4
<1>9. ASSUME NEW w \in Workers, Reset(w) PROVE LockInv'
  <2>1. Holds'
    BY <1>9 DEF Busy, rows, content, locals, Loaded, Timely, StaleLock, Claimable, Candidates, Reset, Flush
  <2>2. Exclusive'
    BY <1>9 DEF Busy, rows, content, locals, Loaded, Timely, StaleLock, Claimable, Candidates, Reset, Flush
  <2>3. Fresh'
    BY <1>9 DEF Busy, rows, content, locals, Loaded, Timely, StaleLock, Claimable, Candidates, Reset, Flush
  <2>4. Recoverable'
    <3>0. pc[w] = "resetting" /\ pc[w] \in Busy
      BY <1>9 DEF Reset, Busy
    <3>a. cur[w] \in Jobs /\ lockedBy[cur[w]] = w
      BY <3>0
    <3>1. cur[w] \in Jobs /\ status[cur[w]] = "processing"
      BY <3>a
    <3>2. status' = status /\ lockedBy' = lockedBy
      BY <1>9, <3>1 DEF Reset, Flush, Loaded
    <3> QED
      BY <3>2
  <2> QED
    BY <1>t, <2>1, <2>2, <2>3, <2>4
<1>10. ASSUME NEW w \in Workers, TouchBefore(w) PROVE LockInv'
  <2>1. Holds'
    BY <1>10 DEF Busy, rows, content, locals, Loaded, Timely, StaleLock, Claimable, Candidates, TouchBefore, TouchJob
  <2>2. Exclusive'
    BY <1>10 DEF Busy, rows, content, locals, Loaded, Timely, StaleLock, Claimable, Candidates, TouchBefore, TouchJob
  <2>3. Fresh'
    BY <1>10 DEF Busy, rows, content, locals, Loaded, Timely, StaleLock, Claimable, Candidates, TouchBefore, TouchJob
  <2>4. Recoverable'
    BY <1>10 DEF Busy, rows, content, locals, Loaded, Timely, StaleLock, Claimable, Candidates, TouchBefore, TouchJob
  <2> QED
    BY <1>t, <2>1, <2>2, <2>3, <2>4
<1>11. ASSUME NEW w \in Workers, OpenChannel(w) PROVE LockInv'
  <2>1. Holds'
    BY <1>11 DEF Busy, rows, content, locals, Loaded, Timely, StaleLock, Claimable, Candidates, OpenChannel
  <2>2. Exclusive'
    BY <1>11 DEF Busy, rows, content, locals, Loaded, Timely, StaleLock, Claimable, Candidates, OpenChannel
  <2>3. Fresh'
    BY <1>11 DEF Busy, rows, content, locals, Loaded, Timely, StaleLock, Claimable, Candidates, OpenChannel
  <2>4. Recoverable'
    BY <1>11 DEF Busy, rows, content, locals, Loaded, Timely, StaleLock, Claimable, Candidates, OpenChannel
  <2> QED
    BY <1>t, <2>1, <2>2, <2>3, <2>4
<1>12. ASSUME NEW w \in Workers, Transcribe(w) PROVE LockInv'
  <2>1. Holds'
    BY <1>12 DEF Busy, rows, content, locals, Loaded, Timely, StaleLock, Claimable, Candidates, Transcribe
  <2>2. Exclusive'
    BY <1>12 DEF Busy, rows, content, locals, Loaded, Timely, StaleLock, Claimable, Candidates, Transcribe
  <2>3. Fresh'
    BY <1>12 DEF Busy, rows, content, locals, Loaded, Timely, StaleLock, Claimable, Candidates, Transcribe
  <2>4. Recoverable'
    BY <1>12 DEF Busy, rows, content, locals, Loaded, Timely, StaleLock, Claimable, Candidates, Transcribe
  <2> QED
    BY <1>t, <2>1, <2>2, <2>3, <2>4
<1>13. ASSUME NEW w \in Workers, TranscribeFails(w) PROVE LockInv'
  <2>1. Holds'
    BY <1>13 DEF Busy, rows, content, locals, Loaded, Timely, StaleLock, Claimable, Candidates, TranscribeFails
  <2>2. Exclusive'
    BY <1>13 DEF Busy, rows, content, locals, Loaded, Timely, StaleLock, Claimable, Candidates, TranscribeFails
  <2>3. Fresh'
    BY <1>13 DEF Busy, rows, content, locals, Loaded, Timely, StaleLock, Claimable, Candidates, TranscribeFails
  <2>4. Recoverable'
    BY <1>13 DEF Busy, rows, content, locals, Loaded, Timely, StaleLock, Claimable, Candidates, TranscribeFails
  <2> QED
    BY <1>t, <2>1, <2>2, <2>3, <2>4
<1>14. ASSUME NEW w \in Workers, TouchAfter(w) PROVE LockInv'
  <2>1. Holds'
    BY <1>14 DEF Busy, rows, content, locals, Loaded, Timely, StaleLock, Claimable, Candidates, TouchAfter, TouchJob
  <2>2. Exclusive'
    BY <1>14 DEF Busy, rows, content, locals, Loaded, Timely, StaleLock, Claimable, Candidates, TouchAfter, TouchJob
  <2>3. Fresh'
    BY <1>14 DEF Busy, rows, content, locals, Loaded, Timely, StaleLock, Claimable, Candidates, TouchAfter, TouchJob
  <2>4. Recoverable'
    BY <1>14 DEF Busy, rows, content, locals, Loaded, Timely, StaleLock, Claimable, Candidates, TouchAfter, TouchJob
  <2> QED
    BY <1>t, <2>1, <2>2, <2>3, <2>4
<1>15. ASSUME NEW w \in Workers, WriteChannel(w) PROVE LockInv'
  <2>1. pc' = [pc EXCEPT ![w] = "touching"] \/ pc' = [pc EXCEPT ![w] = "finishing"]
    BY <1>15 DEF WriteChannel
  <2>2. UNCHANGED <<status, lockedBy, lockAge, retryCount, cur, seen, since>>
    BY <1>15 DEF WriteChannel, rows
  <2>3. pc[w] = "writing"
    BY <1>15 DEF WriteChannel
  <2> QED
    BY <1>t, <2>1, <2>2, <2>3 DEF Busy, Loaded
<1>16. ASSUME NEW w \in Workers, CheckChannels(w) PROVE LockInv'
  <2>1. Holds'
    BY <1>16 DEF Busy, rows, content, locals, Loaded, Timely, StaleLock, Claimable, Candidates, CheckChannels
  <2>2. Exclusive'
    <3>1. \A v \in Workers : pc'[v] \in Busy => pc[v] \in Busy
      BY <1>16 DEF Busy, CheckChannels
    <3>2. cur' = cur
      BY <1>16 DEF CheckChannels
    <3> QED
      BY <3>1, <3>2
  <2>3. Fresh'
    BY <1>16 DEF Busy, rows, content, locals, Loaded, Timely, StaleLock, Claimable, Candidates, CheckChannels
  <2>4. Recoverable'
    BY <1>16 DEF Busy, rows, content, locals, Loaded, Timely, StaleLock, Claimable, Candidates, CheckChannels
  <2> QED
    BY <1>t, <2>1, <2>2, <2>3, <2>4
<1>17. ASSUME NEW w \in Workers, Complete(w) PROVE LockInv'
  <2>1. Holds'
    BY <1>17 DEF Busy, rows, content, locals, Loaded, Timely, StaleLock, Claimable, Candidates, Complete, FlushUnlocked, Flush, Snapshot
  <2>2. Exclusive'
    BY <1>17 DEF Busy, rows, content, locals, Loaded, Timely, StaleLock, Claimable, Candidates, Complete, FlushUnlocked, Flush, Snapshot
  <2>3. Fresh'
    BY <1>17 DEF Busy, rows, content, locals, Loaded, Timely, StaleLock, Claimable, Candidates, Complete, FlushUnlocked, Flush, Snapshot
  <2>4. Recoverable'
    BY <1>17 DEF Busy, rows, content, locals, Loaded, Timely, StaleLock, Claimable, Candidates, Complete, FlushUnlocked, Flush, Snapshot
  <2> QED
    BY <1>t, <2>1, <2>2, <2>3, <2>4
<1>17a. ASSUME NEW w \in Workers, Reported(w) PROVE LockInv'
  <2>1. Holds'
    BY <1>17a DEF Busy, rows, content, locals, Loaded, Timely, StaleLock, Claimable, Candidates, Reported, BackToPoll
  <2>2. Exclusive'
    BY <1>17a DEF Busy, rows, content, locals, Loaded, Timely, StaleLock, Claimable, Candidates, Reported, BackToPoll
  <2>3. Fresh'
    BY <1>17a DEF Busy, rows, content, locals, Loaded, Timely, StaleLock, Claimable, Candidates, Reported, BackToPoll
  <2>4. Recoverable'
    BY <1>17a DEF Busy, rows, content, locals, Loaded, Timely, StaleLock, Claimable, Candidates, Reported, BackToPoll
  <2> QED
    BY <1>t, <2>1, <2>2, <2>3, <2>4
<1>18. ASSUME NEW w \in Workers, Raise(w) PROVE LockInv'
  <2>1. Holds'
    BY <1>18 DEF Busy, rows, content, locals, Loaded, Timely, StaleLock, Claimable, Candidates, Raise
  <2>2. Exclusive'
    BY <1>18 DEF Busy, rows, content, locals, Loaded, Timely, StaleLock, Claimable, Candidates, Raise
  <2>3. Fresh'
    BY <1>18 DEF Busy, rows, content, locals, Loaded, Timely, StaleLock, Claimable, Candidates, Raise
  <2>4. Recoverable'
    BY <1>18 DEF Busy, rows, content, locals, Loaded, Timely, StaleLock, Claimable, Candidates, Raise
  <2> QED
    BY <1>t, <2>1, <2>2, <2>3, <2>4
<1>19. ASSUME NEW w \in Workers, LoadFailed(w) PROVE LockInv'
  <2>1. Holds'
    BY <1>19 DEF Busy, rows, content, locals, Loaded, Timely, StaleLock, Claimable, Candidates, LoadFailed
  <2>2. Exclusive'
    BY <1>19 DEF Busy, rows, content, locals, Loaded, Timely, StaleLock, Claimable, Candidates, LoadFailed
  <2>3. Fresh'
    BY <1>19 DEF Busy, rows, content, locals, Loaded, Timely, StaleLock, Claimable, Candidates, LoadFailed
  <2>4. Recoverable'
    BY <1>19 DEF Busy, rows, content, locals, Loaded, Timely, StaleLock, Claimable, Candidates, LoadFailed
  <2> QED
    BY <1>t, <2>1, <2>2, <2>3, <2>4
<1>20. ASSUME NEW w \in Workers, Bury(w) PROVE LockInv'
  <2>1. Holds'
    BY <1>20 DEF Busy, rows, content, locals, Loaded, Timely, StaleLock, Claimable, Candidates, Bury, FlushUnlocked, Flush, BackToPoll, MayRetry, NextRetryCount, Snapshot
  <2>2. Exclusive'
    BY <1>20 DEF Busy, rows, content, locals, Loaded, Timely, StaleLock, Claimable, Candidates, Bury, FlushUnlocked, Flush, BackToPoll, MayRetry, NextRetryCount, Snapshot
  <2>3. Fresh'
    BY <1>20 DEF Busy, rows, content, locals, Loaded, Timely, StaleLock, Claimable, Candidates, Bury, FlushUnlocked, Flush, BackToPoll, MayRetry, NextRetryCount, Snapshot
  <2>4. Recoverable'
    BY <1>20 DEF Busy, rows, content, locals, Loaded, Timely, StaleLock, Claimable, Candidates, Bury, FlushUnlocked, Flush, BackToPoll, MayRetry, NextRetryCount, Snapshot
  <2> QED
    BY <1>t, <2>1, <2>2, <2>3, <2>4
<1>21. ASSUME NEW w \in Workers, Stop(w) PROVE LockInv'
  <2>1. Holds'
    BY <1>21 DEF Busy, rows, content, locals, Loaded, Timely, StaleLock, Claimable, Candidates, Stop, Halt
  <2>2. Exclusive'
    BY <1>21 DEF Busy, rows, content, locals, Loaded, Timely, StaleLock, Claimable, Candidates, Stop, Halt
  <2>3. Fresh'
    BY <1>21 DEF Busy, rows, content, locals, Loaded, Timely, StaleLock, Claimable, Candidates, Stop, Halt
  <2>4. Recoverable'
    BY <1>21 DEF Busy, rows, content, locals, Loaded, Timely, StaleLock, Claimable, Candidates, Stop, Halt
  <2> QED
    BY <1>t, <2>1, <2>2, <2>3, <2>4
<1>22. ASSUME NEW w \in Workers, Boot(w) PROVE LockInv'
  <2>1. Holds'
    BY <1>22 DEF Busy, rows, content, locals, Loaded, Timely, StaleLock, Claimable, Candidates, Boot
  <2>2. Exclusive'
    BY <1>22 DEF Busy, rows, content, locals, Loaded, Timely, StaleLock, Claimable, Candidates, Boot
  <2>3. Fresh'
    BY <1>22 DEF Busy, rows, content, locals, Loaded, Timely, StaleLock, Claimable, Candidates, Boot
  <2>4. Recoverable'
    BY <1>22 DEF Busy, rows, content, locals, Loaded, Timely, StaleLock, Claimable, Candidates, Boot
  <2> QED
    BY <1>t, <2>1, <2>2, <2>3, <2>4
<1>23. CASE Tick
  BY <1>t, <1>23 DEF Tick, Older, Timely, Busy, Loaded, content
<1>24. CASE UNCHANGED vars
  BY <1>t, <1>24 DEF vars, rows, content, locals, Loaded
<1> QED
  BY <1>1, <1>2, <1>3, <1>4, <1>5, <1>6, <1>7, <1>8, <1>9, <1>10, <1>11, <1>12, <1>13, <1>14, <1>16, <1>17, <1>17a, <1>18, <1>19, <1>20, <1>21, <1>22, <1>15, <1>23, <1>24 DEF Next, Advance

\* While every live worker renews its lock in time: the lock protocol of
\* queueing.py and worker.py, in every reachable state.
THEOREM LockInvariance ==
  ASSUME Timely
  PROVE  Spec => []LockInv
<1>1. Init => LockInv
  BY InitLock
<1>2. LockInv /\ [Next]_vars => LockInv'
  BY LockStep
<1> QED
  BY <1>1, <1>2, PTL DEF Spec

\* No two live workers process the same job.
THEOREM MutualExclusion ==
  ASSUME Timely
  PROVE  Spec => []Exclusive
<1>1. LockInv => Exclusive
  BY DEF LockInv
<1> QED
  BY <1>1, LockInvariance, PTL

\* Every job that is processing is locked and every locked job is processing,
\* so that the release of stale locks reaches whatever a dead worker left.
THEOREM NothingOrphaned ==
  ASSUME Timely
  PROVE  Spec => []Recoverable
<1>1. LockInv => Recoverable
  BY DEF LockInv
<1> QED
  BY <1>1, LockInvariance, PTL

-----------------------------------------------------------------------------

\* The change that a step may make to terminal job j: none, or the status of a
\* completed one whose worker has not left its try block.
Kept(j) ==
    /\ chan'[j] = chan[j] /\ words'[j] = words[j]
    /\ \/ status'[j] = status[j]
       \/ \E w \in Workers : StillReporting(w, j) /\ pc'[w] = "poll"

\* A terminal job is unlocked, so no busy worker is on it but one that reports its
\* completion, and it is no candidate, so none will be.
LEMMA FinalStep ==
  ASSUME Timely, LockInv, Next, NEW j \in Jobs, status[j] \in Terminal
  PROVE  Kept(j)
<1>1. lockedBy[j] = NoWorker /\ status[j] \notin Candidates \cup {"absent", "processing"}
  BY DEF LockInv, Recoverable, Terminal, Candidates
<1>2. \A w \in Workers : pc[w] \in Busy /\ cur[w] = j => StillReporting(w, j)
  BY <1>1, QueueAssumption DEF LockInv, Holds
<1> USE DEF LockInv, TypeOK, rows, content, Kept
<1>3. CASE \E k \in Jobs : Submit(k)
  BY <1>1, <1>3 DEF Submit
<1>4. ASSUME NEW w \in Workers,
             ReleaseStale(w) \/ Pick(w) \/ NothingToPick(w) \/ Claim(w) \/ ClaimLost(w)
      PROVE  Kept(j)
  BY <1>1, <1>4 DEF ReleaseStale, StaleLock, Pick, NothingToPick, Claim, Claimable,
     ClaimLost
<1>5. ASSUME NEW w \in Workers,
             \/ Start(w) \/ Reset(w) \/ TouchBefore(w) \/ OpenChannel(w)
             \/ Transcribe(w) \/ TranscribeFails(w) \/ TouchAfter(w)
             \/ WriteChannel(w)
      PROVE  Kept(j)
  <2>1. cur[w] # j
    BY <1>2, <1>5 DEF Busy, StillReporting, Start, Reset, TouchBefore, OpenChannel,
       Transcribe, TranscribeFails, TouchAfter, WriteChannel
  <2> QED
    BY <2>1, <1>5 DEF Start, Reset, TouchBefore, OpenChannel, Transcribe,
       TranscribeFails, TouchAfter, WriteChannel, TouchJob
<1>6. ASSUME NEW w \in Workers, Complete(w)
      PROVE  Kept(j)
  <2>1. cur[w] # j
    BY <1>2, <1>6 DEF Busy, StillReporting, Complete
  <2> QED
    BY <2>1, <1>6 DEF Complete, FlushUnlocked
<1>7. ASSUME NEW w \in Workers, Bury(w)
      PROVE  Kept(j)
  <2>1. CASE cur[w] = j
    <3>1. StillReporting(w, j)
      BY <1>2, <1>7, <2>1 DEF Bury, Busy
    <3>2. pc'[w] = "poll"
      BY <1>7 DEF Bury, BackToPoll
    <3> QED
      BY <1>7, <3>1, <3>2 DEF Bury
  <2>2. CASE cur[w] # j
    BY <1>7, <2>2 DEF Bury, FlushUnlocked
  <2> QED
    BY <2>1, <2>2
<1>8. ASSUME NEW w \in Workers,
             \/ CheckChannels(w) \/ Reported(w) \/ LoadFailed(w)
             \/ IdleBeat(w) \/ Raise(w) \/ Stop(w) \/ Boot(w)
      PROVE  Kept(j)
  BY <1>8 DEF CheckChannels, Reported, LoadFailed, IdleBeat, Raise, Stop, Halt, Boot
<1>9. CASE Tick
  BY <1>9 DEF Tick
<1> QED
  BY <1>3, <1>4, <1>5, <1>6, <1>7, <1>8, <1>9 DEF Next, Advance

\* The outcome of a job, with the transcript a user may already have read, is
\* changed by nobody but the worker that completed it, and by that one only when
\* its report on the job fails.
THEOREM OutcomeIsFinal ==
  ASSUME Timely
  PROVE  Spec => TerminalIsFinal
<1>1. LockInv /\ [Next]_vars =>
        [\A j \in Jobs : status[j] \in Terminal =>
           /\ chan'[j] = chan[j] /\ words'[j] = words[j]
           /\ \/ status'[j] = status[j]
              \/ \E w \in Workers : StillReporting(w, j) /\ pc'[w] = "poll"]_vars
  BY FinalStep DEF Kept
<1> QED
  BY <1>1, LockInvariance, PTL DEF Spec, TerminalIsFinal

-----------------------------------------------------------------------------

\* The channels that the current attempt has already written: a busy worker
\* never redoes or skips one.
InLoop == {"touching", "opening", "transcribing", "renewing", "writing"}

\* The current attempt of w has written channel c.
Written(w, c) == chan[cur[w]][c] = "completed" /\ words[cur[w]][c] = w

\* Channels are written in order, and all of them before the last transaction.
Progress ==
    \A w \in Workers : \A c \in Channels :
        /\ pc[w] \in InLoop /\ c < ch[w] => Written(w, c)
        /\ pc[w] \in {"finishing", "completing"} => Written(w, c)

\* While workers renew in time, no other worker resets or fails a channel that
\* the attempt of a busy worker has written.
LEMMA ProgressStep ==
  ASSUME Timely, LockInv, Progress, [Next]_vars
  PROVE  Progress'
<1>0. ASSUME NEW v \in Workers, NEW w \in Workers, v # w,
             pc[v] \in Busy, pc[w] \in Busy
      PROVE  cur[v] # cur[w]
  BY <1>0 DEF LockInv, Exclusive
<1>h. \A w \in Workers : pc[w] \in Busy => cur[w] \in Jobs
  BY DEF LockInv, HasJob
<1>t. /\ pc \in [Workers -> PcSet]
      /\ ch \in [Workers -> Channels]
      /\ cur \in [Workers -> Jobs \cup {NoJob}]
      /\ chan \in [Jobs -> [Channels -> ChanStatus]]
      /\ words \in [Jobs -> [Channels -> Workers \cup {NoWorker}]]
  BY DEF LockInv, TypeOK
<1> USE QueueAssumption, <1>0, <1>h, <1>t DEF Progress, Written, InLoop, Busy, Channels
<1>1. ASSUME NEW j \in Jobs, Submit(j) PROVE Progress'
  BY <1>1 DEF rows, content, locals, Submit
<1>2. ASSUME NEW w \in Workers, IdleBeat(w) PROVE Progress'
  BY <1>2 DEF rows, content, locals, IdleBeat
<1>3. ASSUME NEW w \in Workers, ReleaseStale(w) PROVE Progress'
  BY <1>3 DEF rows, content, locals, ReleaseStale, ReleasedStatus
<1>4. ASSUME NEW w \in Workers, Pick(w) PROVE Progress'
  BY <1>4 DEF rows, content, locals, Pick
<1>5. ASSUME NEW w \in Workers, NothingToPick(w) PROVE Progress'
  BY <1>5 DEF rows, content, locals, NothingToPick
<1>6. ASSUME NEW w \in Workers, Claim(w) PROVE Progress'
  BY <1>6 DEF rows, content, locals, Claim
<1>7. ASSUME NEW w \in Workers, ClaimLost(w) PROVE Progress'
  BY <1>7 DEF rows, content, locals, ClaimLost
<1>8. ASSUME NEW w \in Workers, Start(w) PROVE Progress'
  BY <1>8 DEF rows, content, locals, Start
<1>9. ASSUME NEW w \in Workers, Reset(w) PROVE Progress'
  BY <1>9 DEF rows, content, locals, Reset, Flush
<1>10. ASSUME NEW w \in Workers, TouchBefore(w) PROVE Progress'
  BY <1>10 DEF rows, content, locals, TouchBefore, TouchJob
<1>11. ASSUME NEW w \in Workers, OpenChannel(w) PROVE Progress'
  BY <1>11 DEF rows, content, locals, OpenChannel
<1>12. ASSUME NEW w \in Workers, Transcribe(w) PROVE Progress'
  BY <1>12 DEF rows, content, locals, Transcribe
<1>13. ASSUME NEW w \in Workers, TranscribeFails(w) PROVE Progress'
  BY <1>13 DEF rows, content, locals, TranscribeFails
<1>14. ASSUME NEW w \in Workers, TouchAfter(w) PROVE Progress'
  BY <1>14 DEF rows, content, locals, TouchAfter, TouchJob
<1>15. ASSUME NEW w \in Workers, WriteChannel(w) PROVE Progress'
  BY <1>15 DEF rows, content, locals, WriteChannel
<1>16. ASSUME NEW w \in Workers, CheckChannels(w) PROVE Progress'
  BY <1>16 DEF rows, content, locals, CheckChannels
<1>17. ASSUME NEW w \in Workers, Complete(w) PROVE Progress'
  BY <1>17 DEF rows, content, locals, Complete, FlushUnlocked, Flush
<1>17a. ASSUME NEW w \in Workers, Reported(w) PROVE Progress'
  BY <1>17a DEF rows, content, locals, Reported, BackToPoll
<1>18. ASSUME NEW w \in Workers, Raise(w) PROVE Progress'
  BY <1>18 DEF rows, content, locals, Raise
<1>19. ASSUME NEW w \in Workers, LoadFailed(w) PROVE Progress'
  BY <1>19 DEF rows, content, locals, LoadFailed
<1>20. ASSUME NEW w \in Workers, Bury(w) PROVE Progress'
  BY <1>20 DEF rows, content, locals, Bury, FlushUnlocked, Flush, BackToPoll
<1>21. ASSUME NEW w \in Workers, Stop(w) PROVE Progress'
  BY <1>21 DEF rows, content, locals, Stop, Halt
<1>22. ASSUME NEW w \in Workers, Boot(w) PROVE Progress'
  BY <1>22 DEF rows, content, locals, Boot
<1>23. CASE Tick
  BY <1>23 DEF Tick, content
<1>24. CASE UNCHANGED vars
  BY <1>24 DEF vars, rows, content, locals
<1> QED
  BY <1>1, <1>2, <1>3, <1>4, <1>5, <1>6, <1>7, <1>8, <1>9, <1>10, <1>11, <1>12, <1>13, <1>14, <1>15, <1>16, <1>17, <1>17a, <1>18, <1>19, <1>20, <1>21, <1>22, <1>23, <1>24 DEF Next, Advance

\* A job becomes completed only by the commit of its one worker.
LEMMA CompletionStep ==
  ASSUME Timely, LockInv, Next, NEW j \in Jobs,
         status[j] # "completed", status'[j] = "completed"
  PROVE  \E w \in Workers : Complete(w) /\ cur[w] = j
<1> USE DEF LockInv, TypeOK, rows
<1>1. CASE \E k \in Jobs : Submit(k)
  BY <1>1 DEF Submit
<1>2. ASSUME NEW w \in Workers, Advance(w)
      PROVE  Complete(w) /\ cur[w] = j
  <2>1. CASE ReleaseStale(w)
    BY <2>1 DEF ReleaseStale, ReleasedStatus
  <2>2. CASE Claim(w)
    BY <2>2 DEF Claim
  <2>3. CASE Reset(w)
    BY <2>3 DEF Reset, Flush
  <2>4. CASE Bury(w)
    BY <2>4 DEF Bury, FlushUnlocked, Flush
  <2>5. CASE Complete(w)
    BY <2>5 DEF Complete, FlushUnlocked
  <2>6. CASE \/ Pick(w) \/ NothingToPick(w) \/ ClaimLost(w) \/ Start(w)
             \/ TouchBefore(w) \/ OpenChannel(w) \/ Transcribe(w)
             \/ TranscribeFails(w) \/ TouchAfter(w) \/ WriteChannel(w)
             \/ CheckChannels(w) \/ Reported(w) \/ LoadFailed(w)
    BY <2>6 DEF Pick, NothingToPick, ClaimLost, Start, TouchBefore, OpenChannel,
       Transcribe, TranscribeFails, TouchAfter, WriteChannel, CheckChannels,
       Reported, LoadFailed
  <2> QED
    BY <1>2, <2>1, <2>2, <2>3, <2>4, <2>5, <2>6 DEF Advance
<1>3. ASSUME NEW w \in Workers, IdleBeat(w) \/ Raise(w) \/ Stop(w) \/ Boot(w)
      PROVE  FALSE
  BY <1>3 DEF IdleBeat, Raise, Stop, Halt, Boot
<1>4. CASE Tick
  BY <1>4 DEF Tick
<1> QED
  BY <1>1, <1>2, <1>3, <1>4 DEF Next

\* What makes the transcript of a completed job whole.
WholeInv == LockInv /\ Progress /\ CompletedIsWhole

\* A job becomes completed only where the worker has written every channel, and
\* nobody writes one afterwards.
LEMMA WholeStep ==
  ASSUME Timely, WholeInv, [Next]_vars
  PROVE  WholeInv'
<1>1. LockInv'
  BY LockStep DEF WholeInv
<1>2. Progress'
  BY ProgressStep DEF WholeInv
<1>3. CASE UNCHANGED vars
  BY <1>1, <1>2, <1>3 DEF WholeInv, CompletedIsWhole, vars, rows, content
<1>4. ASSUME Next, NEW j \in Jobs, status'[j] = "completed"
      PROVE  \E w \in Workers : \A c \in Channels :
                 chan'[j][c] = "completed" /\ words'[j][c] = w
  <2>1. CASE status[j] = "completed"
    <3>1. chan'[j] = chan[j] /\ words'[j] = words[j]
      BY <1>4, <2>1, FinalStep DEF WholeInv, Terminal, Kept
    <3> QED
      BY <2>1, <3>1 DEF WholeInv, CompletedIsWhole
  <2>2. CASE status[j] # "completed"
    <3>1. PICK w \in Workers : Complete(w) /\ cur[w] = j
      BY <1>4, <2>2, CompletionStep DEF WholeInv
    <3>2. pc[w] = "completing" /\ chan' = chan /\ words' = words
      BY <3>1 DEF Complete, content
    <3> QED
      BY <3>1, <3>2 DEF WholeInv, Progress, Written
  <2> QED
    BY <2>1, <2>2
<1> QED
  BY <1>1, <1>2, <1>3, <1>4 DEF WholeInv, CompletedIsWhole

\* A completed job shows, for every channel, the words of one attempt.
THEOREM TranscriptIsWhole ==
  ASSUME Timely
  PROVE  Spec => []CompletedIsWhole
<1>1. Init => WholeInv
  BY InitLock DEF Init, WholeInv, Progress, CompletedIsWhole, InLoop
<1>2. WholeInv /\ [Next]_vars => WholeInv'
  BY WholeStep
<1>3. WholeInv => CompletedIsWhole
  BY DEF WholeInv
<1> QED
  BY <1>1, <1>2, <1>3, PTL DEF Spec

-----------------------------------------------------------------------------

\* What makes the count of failures exact.
RetryInv == LockInv /\ DeadLetterExact

\* A failure is counted once, from the count in the row, by the worker that
\* holds the lock; a release of a stale lock counts nothing.
LEMMA RetryStep ==
  ASSUME Timely, RetryInv, [Next]_vars
  PROVE  RetryInv'
<1>1. LockInv'
  BY LockStep DEF RetryInv
<1> USE QueueAssumption DEF RetryInv, LockInv, TypeOK, DeadLetterExact
<1>2. CASE UNCHANGED vars
  BY <1>1, <1>2 DEF vars, rows
<1>3. CASE \E j \in Jobs : Submit(j)
  BY <1>1, <1>3 DEF Submit
<1>4. ASSUME NEW w \in Workers, Bury(w) PROVE RetryInv'
  <2>1. cur[w] \in Jobs /\ seen[w] = Loaded(cur[w])
    BY <1>4 DEF Bury, HasJob, Fresh, Busy
  <2>2. status[cur[w]] \in {"processing", "completed"}
    BY <1>4, <2>1 DEF Bury, Busy, Holds, StillReporting, Recoverable
  <2>3. retryCount' = [retryCount EXCEPT ![cur[w]] = retryCount[cur[w]] + 1]
    BY <1>4, <2>1 DEF Bury, Loaded, NextRetryCount
  <2>4. status' = [status EXCEPT ![cur[w]] =
            IF retryCount[cur[w]] + 1 <= MaxRetries THEN "retry_wait"
                                                    ELSE "dead_letter"]
    <3>1. /\ seen[w].status \notin {"retry_wait", "dead_letter"}
          /\ seen[w].retryCount = retryCount[cur[w]]
      BY <2>1, <2>2 DEF Loaded
    <3> QED
      BY <1>4, <3>1 DEF Bury, FlushUnlocked, Flush, NextRetryCount, MayRetry
  <2>5. retryCount[cur[w]] \in Nat /\ retryCount[cur[w]] < MaxRetries + 1
    BY <2>1, <2>2
  <2> QED
    BY <1>1, <2>1, <2>3, <2>4, <2>5
<1>5. ASSUME NEW w \in Workers, ReleaseStale(w) \/ Claim(w) PROVE RetryInv'
  BY <1>1, <1>5 DEF ReleaseStale, ReleasedStatus, StaleLock, Claim, Claimable, Candidates
<1>6. ASSUME NEW w \in Workers, Reset(w) \/ Complete(w) PROVE RetryInv'
  <2>1. cur[w] \in Jobs /\ seen[w] = Loaded(cur[w]) /\ lockedBy[cur[w]] = w
    BY <1>6 DEF Reset, Complete, HasJob, Fresh, Holds, StillReporting, Busy
  <2>2. status[cur[w]] = "processing"
    BY <2>1 DEF Recoverable
  <2> QED
    BY <1>1, <1>6, <2>1, <2>2 DEF Reset, Complete, FlushUnlocked, Flush, Loaded
<1>7. ASSUME NEW w \in Workers,
             \/ Pick(w) \/ NothingToPick(w) \/ ClaimLost(w) \/ Start(w)
             \/ TouchBefore(w) \/ OpenChannel(w) \/ Transcribe(w)
             \/ TranscribeFails(w) \/ TouchAfter(w) \/ WriteChannel(w)
             \/ CheckChannels(w) \/ Reported(w) \/ LoadFailed(w)
             \/ IdleBeat(w) \/ Raise(w) \/ Stop(w) \/ Boot(w)
      PROVE  UNCHANGED <<status, retryCount>>
  BY <1>7 DEF rows, Pick, NothingToPick, ClaimLost, Start, TouchBefore,
     OpenChannel, Transcribe, TranscribeFails, TouchAfter, WriteChannel,
     CheckChannels, Reported, LoadFailed, IdleBeat, Raise, Stop, Halt, Boot
<1>8. CASE Tick
  BY <1>1, <1>8 DEF Tick
<1> QED
  BY <1>1, <1>2, <1>3, <1>4, <1>5, <1>6, <1>7, <1>8 DEF Next, Advance

\* A job is dead-lettered by exactly its failure number MaxRetries + 1.
THEOREM RetriesAreCounted ==
  ASSUME Timely
  PROVE  Spec => []DeadLetterExact
<1>1. Init => RetryInv
  BY InitLock, QueueAssumption DEF Init, RetryInv, DeadLetterExact
<1>2. RetryInv /\ [Next]_vars => RetryInv'
  BY RetryStep
<1>3. RetryInv => DeadLetterExact
  BY DEF RetryInv
<1> QED
  BY <1>1, <1>2, <1>3, PTL DEF Spec

-----------------------------------------------------------------------------

\* With SKIP LOCKED a picked row is held until it is claimed: nobody else picks
\* or changes it.  No bound on the speed of the workers is needed.
PickHeld == \A w \in Workers : pc[w] = "picked" =>
    /\ Claimable(cur[w])
    /\ wait[cur[w]] = 0
    /\ \A v \in Workers : pc[v] = "picked" /\ cur[v] = cur[w] => v = w

\* The pick under SKIP LOCKED, without any assumption on the speed of workers.
PickInv == TypeOK /\ HasJob /\ PickHeld

\* Between the pick and the claim of a worker, the row lock keeps every other
\* transaction off the picked job.
LEMMA PickStep ==
  ASSUME SkipLocked, PickInv, [Next]_vars
  PROVE  PickInv'
<1>t. TypeOK' /\ HasJob'
  BY TypeStep DEF PickInv
<1>b. /\ pc \in [Workers -> PcSet]
      /\ cur \in [Workers -> Jobs \cup {NoJob}]
      /\ status \in [Jobs -> JobStatus]
      /\ lockedBy \in [Jobs -> Workers \cup {NoWorker}]
      /\ wait \in [Jobs -> Nat]
  BY DEF PickInv, TypeOK
<1>h. \A w \in Workers : pc[w] = "picked" => cur[w] \in Jobs
  BY DEF PickInv, HasJob
<1>k. PickHeld
  BY DEF PickInv
<1> SUFFICES PickHeld'
  BY <1>t DEF PickInv
<1> USE QueueAssumption, <1>b, <1>h, <1>k DEF PickHeld, Claimable, Candidates
<1>1. ASSUME NEW j \in Jobs, Submit(j) PROVE PickHeld'
  BY <1>1 DEF rows, locals, Submit
<1>2. ASSUME NEW w \in Workers, IdleBeat(w) PROVE PickHeld'
  BY <1>2 DEF rows, locals, IdleBeat
<1>3. ASSUME NEW w \in Workers, ReleaseStale(w) PROVE PickHeld'
  BY <1>3 DEF rows, locals, ReleaseStale, ReleasedStatus, StaleLock
<1>4. ASSUME NEW w \in Workers, Pick(w) PROVE PickHeld'
  <2>1. PICK j \in Jobs : j \in Eligible /\ cur' = [cur EXCEPT ![w] = j]
    BY <1>4 DEF Pick, Preferred
  <2>2. \A v \in Workers : pc[v] = "picked" => cur[v] # j
    BY <2>1 DEF Eligible, RowFree
  <2>3. Claimable(j) /\ wait[j] = 0
    BY <2>1 DEF Eligible
  <2>4. pc' = [pc EXCEPT ![w] = "picked"] /\ UNCHANGED rows
    BY <1>4 DEF Pick
  <2> QED
    BY <2>1, <2>2, <2>3, <2>4 DEF rows
<1>5. ASSUME NEW w \in Workers, NothingToPick(w) PROVE PickHeld'
  BY <1>5 DEF rows, locals, NothingToPick
<1>6. ASSUME NEW w \in Workers, Claim(w) PROVE PickHeld'
  BY <1>6 DEF rows, locals, Claim
<1>7. ASSUME NEW w \in Workers, ClaimLost(w) PROVE PickHeld'
  BY <1>7 DEF rows, locals, ClaimLost
<1>8. ASSUME NEW w \in Workers, Start(w) PROVE PickHeld'
  BY <1>8 DEF rows, locals, Start
<1>9. ASSUME NEW w \in Workers, Reset(w) PROVE PickHeld'
  BY <1>9 DEF rows, locals, Reset, RowFree
<1>10. ASSUME NEW w \in Workers, TouchBefore(w) PROVE PickHeld'
  BY <1>10 DEF rows, locals, TouchBefore, TouchJob
<1>11. ASSUME NEW w \in Workers, OpenChannel(w) PROVE PickHeld'
  BY <1>11 DEF rows, locals, OpenChannel
<1>12. ASSUME NEW w \in Workers, Transcribe(w) PROVE PickHeld'
  BY <1>12 DEF rows, locals, Transcribe
<1>13. ASSUME NEW w \in Workers, TranscribeFails(w) PROVE PickHeld'
  BY <1>13 DEF rows, locals, TranscribeFails
<1>14. ASSUME NEW w \in Workers, TouchAfter(w) PROVE PickHeld'
  BY <1>14 DEF rows, locals, TouchAfter, TouchJob
<1>15. ASSUME NEW w \in Workers, WriteChannel(w) PROVE PickHeld'
  BY <1>15 DEF rows, locals, WriteChannel
<1>16. ASSUME NEW w \in Workers, CheckChannels(w) PROVE PickHeld'
  BY <1>16 DEF rows, locals, CheckChannels
<1>17. ASSUME NEW w \in Workers, Complete(w) PROVE PickHeld'
  BY <1>17 DEF rows, locals, Complete, FlushUnlocked, RowFree
<1>17a. ASSUME NEW w \in Workers, Reported(w) PROVE PickHeld'
  BY <1>17a DEF rows, locals, Reported, BackToPoll
<1>18. ASSUME NEW w \in Workers, Raise(w) PROVE PickHeld'
  BY <1>18 DEF rows, locals, Raise
<1>19. ASSUME NEW w \in Workers, LoadFailed(w) PROVE PickHeld'
  BY <1>19 DEF rows, locals, LoadFailed
<1>20. ASSUME NEW w \in Workers, Bury(w) PROVE PickHeld'
  BY <1>20 DEF rows, locals, Bury, FlushUnlocked, BackToPoll, RowFree
<1>21. ASSUME NEW w \in Workers, Stop(w) PROVE PickHeld'
  BY <1>21 DEF rows, locals, Stop, Halt
<1>22. ASSUME NEW w \in Workers, Boot(w) PROVE PickHeld'
  BY <1>22 DEF rows, locals, Boot
<1>23. CASE Tick
  BY <1>23 DEF Tick
<1>24. CASE UNCHANGED vars
  BY <1>24 DEF vars, rows, locals
<1> QED
  BY <1>1, <1>2, <1>3, <1>4, <1>5, <1>6, <1>7, <1>8, <1>9, <1>10, <1>11, <1>12, <1>13, <1>14, <1>15, <1>16, <1>17, <1>17a, <1>18, <1>19, <1>20, <1>21, <1>22, <1>23, <1>24 DEF Next, Advance

\* The only step that locks a job is a claim, of a job whose back-off has passed.
LEMMA LockTaken ==
  ASSUME SkipLocked, PickInv, Next, NEW j \in Jobs,
         lockedBy[j] = NoWorker, lockedBy'[j] # NoWorker
  PROVE  wait[j] = 0
<1> USE DEF PickInv, TypeOK, rows
<1>1. CASE \E k \in Jobs : Submit(k)
  BY <1>1 DEF Submit
<1>2. ASSUME NEW w \in Workers, Claim(w) PROVE wait[j] = 0
  BY <1>2 DEF Claim, PickHeld, HasJob
<1>3. ASSUME NEW w \in Workers, ReleaseStale(w) \/ Complete(w) \/ Bury(w)
      PROVE  wait[j] = 0
  BY <1>3 DEF ReleaseStale, Complete, Bury, FlushUnlocked, Flush
<1>4. ASSUME NEW w \in Workers,
             \/ Pick(w) \/ NothingToPick(w) \/ ClaimLost(w) \/ Start(w) \/ Reset(w)
             \/ TouchBefore(w) \/ OpenChannel(w) \/ Transcribe(w)
             \/ TranscribeFails(w) \/ TouchAfter(w) \/ WriteChannel(w)
             \/ CheckChannels(w) \/ Reported(w) \/ LoadFailed(w)
             \/ IdleBeat(w) \/ Raise(w) \/ Stop(w) \/ Boot(w)
      PROVE  FALSE
  BY <1>4 DEF Pick, NothingToPick, ClaimLost, Start, Reset,
     TouchBefore, OpenChannel, Transcribe, TranscribeFails, TouchAfter, WriteChannel,
     CheckChannels, Reported, LoadFailed, IdleBeat, Raise, Stop, Halt, Boot
<1>5. CASE Tick
  BY <1>5 DEF Tick
<1> QED
  BY <1>1, <1>2, <1>3, <1>4, <1>5 DEF Next, Advance

\* With SKIP LOCKED a job in retry_wait is never taken before its back-off has
\* passed, however slow or dead the workers are.
THEOREM BackoffIsKept ==
  ASSUME SkipLocked
  PROVE  Spec => BackoffKept
<1>1. Init => PickInv
  BY InitType DEF Init, PickInv, PickHeld
<1>2. PickInv /\ [Next]_vars => PickInv'
  BY PickStep
<1>3. PickInv /\ [Next]_vars =>
        [\A j \in Jobs : lockedBy[j] = NoWorker /\ lockedBy'[j] # NoWorker
           => wait[j] = 0]_vars
  BY LockTaken
<1> QED
  BY <1>1, <1>2, <1>3, PTL DEF Spec, BackoffKept

-----------------------------------------------------------------------------
(* The order of the picks.                                                 *)

\* Ranks are compared from the left: a smaller first component decides, and a
\* smaller second one does when the first ones are equal.
LEMMA PrecedesLeft ==
  ASSUME NEW a, NEW b, a[1] < b[1] \/ (a[1] = b[1] /\ a[2] < b[2])
  PROVE  Precedes(a, b)
<1>1. CASE a[1] < b[1]
  <2>1. 1 \in 1 .. 3 /\ \A k \in 1 .. (1 - 1) : a[k] = b[k]
    OBVIOUS
  <2> QED
    BY <1>1, <2>1 DEF Precedes
<1>2. CASE a[1] = b[1] /\ a[2] < b[2]
  <2>1. 2 \in 1 .. 3 /\ \A k \in 1 .. (2 - 1) : a[k] = b[k]
    BY <1>2
  <2> QED
    BY <1>2, <2>1 DEF Precedes
<1> QED
  BY <1>1, <1>2

\* The running jobs of a tenant are counted by a natural number.
LEMMA RunningType == Running \in [Tenants -> Nat]
<1>1. ASSUME NEW t \in Tenants
      PROVE  Cardinality({j \in Jobs : status[j] = "processing" /\ TenantOf[j] = t}) \in Nat
  <2>1. {j \in Jobs : status[j] = "processing" /\ TenantOf[j] = t} \subseteq Jobs
    OBVIOUS
  <2> QED
    BY <2>1, PickAssumption, FS_Subset, FS_CardinalityType
<1> QED
  BY <1>1 DEF Running

\* Only the pick of worker w leads it from the release to a picked job.
LEMMA PicksPreferred ==
  ASSUME TypeOK, Next, NEW w \in Workers, NEW j \in Jobs, Picks(w, j)
  PROVE  Preferred(j, Eligible, Running)
<1> USE DEF Picks
<1>b. pc \in [Workers -> PcSet] /\ cur \in [Workers -> Jobs \cup {NoJob}]
  BY DEF TypeOK
<1>1. ASSUME NEW v \in Workers, Pick(v) PROVE Preferred(j, Eligible, Running)
  BY <1>1, <1>b DEF Pick
<1>2. ASSUME NEW v \in Workers,
             \/ ReleaseStale(v) \/ NothingToPick(v) \/ Claim(v) \/ ClaimLost(v)
             \/ Start(v) \/ Reset(v) \/ TouchBefore(v) \/ OpenChannel(v)
             \/ Transcribe(v) \/ TranscribeFails(v) \/ TouchAfter(v)
      PROVE  FALSE
  BY <1>2, <1>b DEF ReleaseStale, NothingToPick, Claim, ClaimLost, Start, Reset,
     TouchBefore, OpenChannel, Transcribe, TranscribeFails, TouchAfter
<1>3. ASSUME NEW v \in Workers,
             \/ WriteChannel(v) \/ CheckChannels(v) \/ Complete(v) \/ Reported(v)
             \/ LoadFailed(v)
             \/ Bury(v) \/ IdleBeat(v) \/ Raise(v) \/ Stop(v) \/ Boot(v)
      PROVE  FALSE
  BY <1>3, <1>b DEF WriteChannel, CheckChannels, Complete, Reported, LoadFailed, Bury,
     BackToPoll, IdleBeat, Raise, Stop, Halt, Boot, locals
<1>4. ASSUME (\E k \in Jobs : Submit(k)) \/ Tick PROVE FALSE
  BY <1>4 DEF Submit, Tick, locals
<1> QED
  BY <1>1, <1>2, <1>3, <1>4 DEF Next, Advance

\* Under the Postgres statement the picked job is the most urgent of its tenant.
LEMMA NoneMoreUrgent ==
  ASSUME SkipLocked, TypeOK, Next, NEW w \in Workers, NEW j \in Jobs, Picks(w, j)
  PROVE  ~ \E k \in Eligible : TenantOf[k] = TenantOf[j] /\ Priority[k] < Priority[j]
<1> SUFFICES ASSUME NEW k \in Eligible, TenantOf[k] = TenantOf[j], Priority[k] < Priority[j]
             PROVE  FALSE
  OBVIOUS
<1>1. ~ Precedes(PostgresRank(k, Running), PostgresRank(j, Running))
  BY PicksPreferred DEF Preferred, Rank
<1>2. /\ PostgresRank(k, Running)[1] = PostgresRank(j, Running)[1]
      /\ PostgresRank(k, Running)[2] < PostgresRank(j, Running)[2]
  BY DEF PostgresRank
<1> QED
  BY <1>1, <1>2, PrecedesLeft

\* Under the Postgres statement no job is picked before a more urgent one of its
\* tenant that could be picked as well.
THEOREM UrgentJobsFirst ==
  ASSUME SkipLocked
  PROVE  Spec => UrgentFirst
<1>1. TypeOK /\ HasJob /\ [Next]_vars =>
        [\A w \in Workers, j \in Jobs : Picks(w, j) =>
            ~ \E k \in Eligible : TenantOf[k] = TenantOf[j]
                                  /\ Priority[k] < Priority[j]]_vars
  BY NoneMoreUrgent
<1>2. Init => TypeOK /\ HasJob
  BY InitType
<1>3. TypeOK /\ HasJob /\ [Next]_vars => TypeOK' /\ HasJob'
  BY TypeStep
<1> QED
  BY <1>1, <1>2, <1>3, PTL DEF Spec, UrgentFirst

\* No tenant with a job to pick is served less than that of the picked job.
LEMMA NoneServedLess ==
  ASSUME TypeOK, Next, NEW w \in Workers, NEW j \in Jobs, Picks(w, j), NEW k \in Eligible
  PROVE  Running[TenantOf[j]] <= Running[TenantOf[k]]
<1>1. ~ Precedes(Rank(k, Running), Rank(j, Running))
  BY PicksPreferred DEF Preferred
<1>2. ~ (Rank(k, Running)[1] < Rank(j, Running)[1])
  BY <1>1, PrecedesLeft
<1>3. /\ Rank(k, Running)[1] = Running[TenantOf[k]]
      /\ Rank(j, Running)[1] = Running[TenantOf[j]]
  BY DEF Rank, PostgresRank, PortableRank
<1>4. k \in Jobs
  BY DEF Eligible
<1>5. Running[TenantOf[k]] \in Nat /\ Running[TenantOf[j]] \in Nat
  BY <1>4, RunningType, PickAssumption
<1> QED
  BY <1>2, <1>3, <1>5

\* Both picks prefer the tenants with fewer running jobs.
THEOREM TenantsShare == Spec => FairShare
<1>1. TypeOK /\ HasJob /\ [Next]_vars =>
        [\A w \in Workers, j \in Jobs : Picks(w, j) =>
            \A k \in Eligible : Running[TenantOf[j]] <= Running[TenantOf[k]]]_vars
  BY NoneServedLess
<1>2. Init => TypeOK /\ HasJob
  BY InitType
<1>3. TypeOK /\ HasJob /\ [Next]_vars => TypeOK' /\ HasJob'
  BY TypeStep
<1> QED
  BY <1>1, <1>2, <1>3, PTL DEF Spec, FairShare

-----------------------------------------------------------------------------
(* The refinement of JobContract.                                          *)

\* All that the refinement of JobContract needs.
Inv == WholeInv /\ DeadLetterExact

\* The invariants the refinement rests on are inductive together.
LEMMA InvStep ==
  ASSUME Timely, Inv, [Next]_vars
  PROVE  Inv'
  BY WholeStep, RetryStep DEF Inv, WholeInv, RetryInv

\* The result that the refinement shows for job j.
Result(j) == IF status[j] = "completed" THEN Author(j) ELSE NoWorker

\* A busy worker is on job j.
On(w, j) == pc[w] \in Busy /\ cur[w] = j

\* Whoever is busy on a completed job reports on it.
ReportersAreBusy ==
    \A j \in Jobs : Reporters(j) =
        {w \in Workers : status[j] = "completed" /\ On(w, j)}

\* Of a completed job, the lock is gone.
LEMMA ReportersKnown == LockInv => ReportersAreBusy
<1> SUFFICES ASSUME LockInv, NEW j \in Jobs, NEW w \in Workers
             PROVE  StillReporting(w, j) <=> status[j] = "completed" /\ On(w, j)
  BY DEF ReportersAreBusy, Reporters
<1>1. StillReporting(w, j) => status[j] = "completed" /\ On(w, j)
  BY DEF StillReporting, On, Busy
<1>2. status[j] = "completed" /\ On(w, j) => StillReporting(w, j)
  BY QueueAssumption DEF LockInv, Holds, Recoverable, On
<1> QED
  BY <1>1, <1>2

LEMMA ReportersKnownNext == LockInv' => ReportersAreBusy'
  BY ReportersKnown, PTL

\* Nobody but the holder of the lock owns a job that is not completed.
LEMMA OwnerLocked ==
  ASSUME LockInv, NEW j \in Jobs, status[j] # "completed"
  PROVE  Owner(j) = lockedBy[j]
  BY DEF Owner, Reporters, StillReporting

\* A busy worker owns its job.
LEMMA OwnerBusy ==
  ASSUME LockInv, NEW w \in Workers, pc[w] \in Busy
  PROVE  Owner(cur[w]) = w
<1>0. cur[w] \in Jobs
  BY DEF LockInv, HasJob
<1>1. CASE status[cur[w]] = "completed"
  <2>1. Reporters(cur[w]) = {w}
    BY <1>0, <1>1, ReportersKnown DEF ReportersAreBusy, On, LockInv, Exclusive
  <2>2. Reporters(cur[w]) # {} /\ \A v \in Reporters(cur[w]) : v = w
    BY <2>1
  <2> QED
    BY <2>2 DEF Owner
<1>2. CASE status[cur[w]] # "completed"
  <2>1. lockedBy[cur[w]] = w
    BY <1>2 DEF LockInv, Holds, StillReporting
  <2> QED
    BY <1>0, <1>2, <2>1, OwnerLocked
<1> QED
  BY <1>1, <1>2

\* The owner of a job is the same when its row is and the busy worker on it is.
LEMMA OwnerStays ==
  ASSUME LockInv, LockInv', NEW j \in Jobs,
         status'[j] = status[j], lockedBy'[j] = lockedBy[j],
         status[j] # "completed" \/ \A w \in Workers : On(w, j)' <=> On(w, j)
  PROVE  Owner(j)' = Owner(j)
<1>1. Reporters(j)' = Reporters(j)
  BY ReportersKnown, ReportersKnownNext DEF ReportersAreBusy
<1> QED
  BY <1>1 DEF Owner

\* Every busy worker owns its job.
BusyOwn == \A w \in Workers : pc[w] \in Busy => Owner(cur[w]) = w

LEMMA AllBusyOwn == LockInv => BusyOwn
  BY OwnerBusy DEF BusyOwn

LEMMA AllBusyOwnNext == LockInv' => BusyOwn'
  BY AllBusyOwn, PTL

\* What the contract says of job j.
View(j) == <<Contracted(status[j]), Owner(j), retryCount[j], Result(j)>>

\* A terminal job whose transcript stays, and any job whose row and worker stay.
SameFor(j) ==
    /\ status'[j] = status[j] /\ lockedBy'[j] = lockedBy[j]
    /\ retryCount'[j] = retryCount[j]
    /\ status[j] = "completed" => /\ chan'[j] = chan[j] /\ words'[j] = words[j]
                                  /\ \A w \in Workers : On(w, j)' <=> On(w, j)

\* A job whose row and worker do not change looks the same to the contract.
LEMMA ViewStays ==
  ASSUME Inv, Inv', NEW j \in Jobs, SameFor(j)
  PROVE  View(j)' = View(j)
<1>1. Owner(j)' = Owner(j)
  BY OwnerStays DEF Inv, WholeInv, SameFor
<1>2. Result(j)' = Result(j)
  BY DEF Result, Author, SameFor
<1> QED
  BY <1>1, <1>2 DEF View, SameFor

\* The variables of the contract are the views of the jobs.
LEMMA ContractStutter ==
  ASSUME Inv, Inv', \A j \in Jobs : View(j)' = View(j)
  PROVE  UNCHANGED Contract!cvars
<1>1. \A j \in Jobs : /\ Contracted(status[j])' = Contracted(status[j])
                      /\ Owner(j)' = Owner(j)
                      /\ retryCount'[j] = retryCount[j]
                      /\ Result(j)' = Result(j)
  BY DEF View
<1>2. retryCount' = retryCount
  <2>1. retryCount \in [Jobs -> Nat] /\ retryCount' \in [Jobs -> Nat]
    BY DEF Inv, WholeInv, LockInv, TypeOK
  <2> QED
    BY <1>1, <2>1
<1> QED
  BY <1>1, <1>2 DEF Contract!cvars, Result

\* A worker that leaves its try block, or ends, lets go of the job it has completed.
LEMMA LeavesJob ==
  ASSUME Inv, Inv', NEW w \in Workers, UNCHANGED rows, UNCHANGED content,
         pc'[w] \notin Busy,
         \A v \in Workers : v # w => pc'[v] = pc[v] /\ cur'[v] = cur[v]
  PROVE  Contract!Next \/ UNCHANGED Contract!cvars
<1>1. \A j \in Jobs : /\ status'[j] = status[j] /\ lockedBy'[j] = lockedBy[j]
                      /\ retryCount'[j] = retryCount[j]
                      /\ chan'[j] = chan[j] /\ words'[j] = words[j]
  BY DEF rows, content
<1>2. CASE pc[w] \notin Busy \/ status[cur[w]] # "completed"
  <2>1. \A j \in Jobs : SameFor(j)
    BY <1>1, <1>2 DEF SameFor, On
  <2> QED
    BY <2>1, ViewStays, ContractStutter
<1>3. ASSUME NEW j \in Jobs, pc[w] \in Busy, cur[w] = j, status[j] = "completed"
      PROVE  Contract!LetGo(j)
  <2>1. \A k \in Jobs \ {j} : SameFor(k)
    BY <1>1, <1>3 DEF SameFor, On
  <2>2. \A k \in Jobs \ {j} : View(k)' = View(k)
    BY <2>1, ViewStays
  <2>3. Owner(j) = w /\ w # NoWorker
    BY <1>3, OwnerBusy, QueueAssumption DEF Inv, WholeInv
  <2>4. Owner(j)' = NoWorker
    <3>1. \A v \in Workers : ~ On(v, j)'
      BY <1>3 DEF On, Inv, WholeInv, LockInv, Exclusive
    <3>2. Reporters(j)' = {}
      BY <3>1, ReportersKnownNext DEF ReportersAreBusy, Inv, WholeInv
    <3>3. lockedBy'[j] = NoWorker
      BY <1>1, <1>3 DEF Inv, WholeInv, LockInv, Recoverable
    <3> QED
      BY <3>2, <3>3 DEF Owner
  <2>5. Contracted(status[j])' = "done" /\ Contracted(status[j]) = "done"
    BY <1>1, <1>3 DEF Contracted, Candidates
  <2>6. Result(j)' = Result(j) /\ retryCount' = retryCount
    BY <1>1 DEF Result, Author, rows
  <2>7. /\ [k \in Jobs |-> Contracted(status[k])]' = [k \in Jobs |-> Contracted(status[k])]
        /\ [k \in Jobs |-> Owner(k)]' = [[k \in Jobs |-> Owner(k)] EXCEPT ![j] = NoWorker]
        /\ [k \in Jobs |-> Result(k)]' = [k \in Jobs |-> Result(k)]
    BY <2>2, <2>4, <2>5, <2>6 DEF View
  <2> QED
    BY <2>3, <2>5, <2>6, <2>7 DEF Contract!LetGo, Result
<1>4. CASE pc[w] \in Busy /\ status[cur[w]] = "completed"
  <2>1. cur[w] \in Jobs
    BY <1>4 DEF Inv, WholeInv, LockInv, HasJob
  <2> QED
    BY <1>3, <1>4, <2>1 DEF Contract!Next
<1> QED
  BY <1>2, <1>4

\* A step of the queue keeps the transcript of a completed job.
LEMMA TranscriptStays ==
  ASSUME Timely, Inv, Next, NEW j \in Jobs, status[j] = "completed"
  PROVE  chan'[j] = chan[j] /\ words'[j] = words[j]
  BY FinalStep DEF Inv, WholeInv, Terminal, Kept

\* A step of a worker that stays busy on its job, or idle, and leaves the rows alone.
LEMMA QuietStep ==
  ASSUME Timely, Inv, Inv', Next, UNCHANGED <<status, lockedBy, retryCount>>,
         \A j \in Jobs, w \in Workers : On(w, j)' <=> On(w, j)
  PROVE  UNCHANGED Contract!cvars
<1>1. \A j \in Jobs : SameFor(j)
  BY TranscriptStays DEF SameFor
<1> QED
  BY <1>1, ViewStays, ContractStutter

\* The commit of _mark_job_success publishes the transcript of the worker.
LEMMA CompletePublishes ==
  ASSUME Timely, Inv, Inv', NEW w \in Workers, Complete(w), Next, NEW j \in Jobs, j = cur[w]
  PROVE  Contract!Publish(j)
<1>1. pc[w] = "completing" /\ chan' = chan /\ words' = words /\ retryCount' = retryCount
  BY DEF Complete, content
<1>2. /\ cur[w] \in Jobs /\ lockedBy[cur[w]] = w /\ status[cur[w]] = "processing"
      /\ seen[w] = Loaded(cur[w])
  BY <1>1, QueueAssumption
     DEF Busy, Inv, WholeInv, LockInv, HasJob, Holds, StillReporting, Fresh, Recoverable
<1>3. seen[w].status = "processing" /\ seen[w].lockedBy = w /\ w # NoWorker
  BY <1>2, QueueAssumption DEF Loaded
<1>4. /\ status' = [status EXCEPT ![cur[w]] = "completed"]
      /\ lockedBy' = [lockedBy EXCEPT ![cur[w]] = NoWorker]
      /\ pc' = [pc EXCEPT ![w] = "reporting"] /\ cur' = cur
  BY <1>3 DEF Complete, FlushUnlocked, Flush
<1>t. /\ status \in [Jobs -> JobStatus] /\ pc \in [Workers -> PcSet]
      /\ lockedBy \in [Jobs -> Workers \cup {NoWorker}]
      /\ retryCount \in [Jobs -> Nat]
  BY DEF Inv, WholeInv, LockInv, TypeOK
<1>5. \A k \in Jobs \ {j} : View(k)' = View(k)
  <2>1. \A k \in Jobs \ {j} : SameFor(k)
    BY <1>1, <1>4, <1>t DEF SameFor, On, Busy
  <2> QED
    BY <2>1, ViewStays
<1>6. Owner(j) = w /\ Owner(j)' = w
  <2>1. pc'[w] \in Busy /\ cur'[w] = j
    BY <1>4, <1>t DEF Busy
  <2>2. Owner(cur[w])' = w
    BY <2>1, AllBusyOwnNext DEF BusyOwn, Inv, WholeInv
  <2>3. Owner(j)' = Owner(cur[w])'
    BY <1>4 DEF Owner, Reporters, StillReporting
  <2> QED
    BY <1>1, <2>2, <2>3, OwnerBusy DEF Inv, WholeInv, Busy
<1>7. Result(j)' = w
  <2>1. \A c \in Channels : chan[j][c] = "completed" /\ words[j][c] = w
    BY <1>1 DEF Inv, WholeInv, Progress, Written
  <2>2. 1 \in Channels
    BY Values
  <2>3. Author(j)' = w
    BY <1>1, <2>1, <2>2 DEF Author
  <2>4. status'[j] = "completed"
    BY <1>2, <1>4, <1>t
  <2> QED
    BY <2>3, <2>4 DEF Result
<1>8. Contracted(status[j]) = "running" /\ Contracted(status[j])' = "done"
  BY <1>2, <1>4, <1>t DEF Contracted, Candidates
<1>9. /\ [k \in Jobs |-> Contracted(status[k])]' =
            [[k \in Jobs |-> Contracted(status[k])] EXCEPT ![j] = "done"]
      /\ [k \in Jobs |-> Owner(k)]' = [k \in Jobs |-> Owner(k)]
      /\ [k \in Jobs |-> Result(k)]' = [[k \in Jobs |-> Result(k)] EXCEPT ![j] = Owner(j)]
  BY <1>5, <1>6, <1>7, <1>8 DEF View
<1> QED
  BY <1>1, <1>8, <1>9 DEF Contract!Publish, Result

\* The commit of _mark_job_failure_with_retry counts one failure of the job, running
\* or published.
LEMMA BuryFails ==
  ASSUME Timely, Inv, Inv', NEW w \in Workers, Bury(w), Next, NEW j \in Jobs, j = cur[w]
  PROVE  Contract!Fail(j)
<1>1. pc[w] = "burying" /\ pc' = [pc EXCEPT ![w] = "poll"] /\ cur' = [cur EXCEPT ![w] = NoJob]
  BY DEF Bury, BackToPoll
<1>2. /\ cur[w] \in Jobs /\ seen[w] = Loaded(cur[w])
      /\ status[cur[w]] \in {"processing", "completed"}
  BY <1>1, QueueAssumption
     DEF Busy, Inv, WholeInv, LockInv, HasJob, Holds, StillReporting, Fresh, Recoverable
<1>t. /\ status \in [Jobs -> JobStatus] /\ pc \in [Workers -> PcSet]
      /\ cur \in [Workers -> Jobs \cup {NoJob}]
      /\ lockedBy \in [Jobs -> Workers \cup {NoWorker}]
      /\ retryCount \in [Jobs -> Nat]
  BY DEF Inv, WholeInv, LockInv, TypeOK
<1>3. /\ seen[w].retryCount = retryCount[cur[w]] /\ seen[w].status = status[cur[w]]
      /\ seen[w].lockedBy = lockedBy[cur[w]]
  BY <1>2 DEF Loaded
<1>4. /\ retryCount' = [retryCount EXCEPT ![cur[w]] = retryCount[cur[w]] + 1]
      /\ status' = [status EXCEPT ![cur[w]] =
            IF retryCount[cur[w]] < MaxRetries THEN "retry_wait" ELSE "dead_letter"]
  <2>1. MayRetry(NextRetryCount(retryCount[cur[w]])) <=> retryCount[cur[w]] < MaxRetries
    BY <1>2, <1>t, QueueAssumption DEF MayRetry, NextRetryCount
  <2> QED
    BY <1>2, <1>3, <2>1 DEF Bury, FlushUnlocked, Flush, NextRetryCount
<1>5. lockedBy' = [lockedBy EXCEPT ![cur[w]] = NoWorker]
  BY <1>3 DEF Bury, FlushUnlocked, Flush
<1>c. chan' = chan /\ words' = words
  BY DEF Bury, content
<1>6. \A k \in Jobs \ {j} : View(k)' = View(k)
  <2>1. \A k \in Jobs \ {j} : SameFor(k)
    BY <1>1, <1>4, <1>5, <1>c, <1>t, QueueAssumption DEF SameFor, On, Busy
  <2> QED
    BY <2>1, ViewStays
<1>7. Owner(j) = w /\ w # NoWorker
  BY <1>1, OwnerBusy, QueueAssumption DEF Inv, WholeInv, Busy
<1>8. /\ status'[j] = IF retryCount[j] < MaxRetries THEN "retry_wait" ELSE "dead_letter"
      /\ lockedBy'[j] = NoWorker
  BY <1>4, <1>5, <1>t
<1>9. Owner(j)' = NoWorker /\ Result(j)' = NoWorker
  BY <1>8 DEF Owner, Reporters, StillReporting, Result
<1>10. Contracted(status[j])' = IF retryCount[j] < MaxRetries THEN "waiting" ELSE "dead"
  BY <1>8 DEF Contracted, Candidates
<1>11. /\ [k \in Jobs |-> Contracted(status[k])]' =
            [[k \in Jobs |-> Contracted(status[k])] EXCEPT ![j] =
                IF retryCount[j] < MaxRetries THEN "waiting" ELSE "dead"]
       /\ [k \in Jobs |-> Owner(k)]' = [[k \in Jobs |-> Owner(k)] EXCEPT ![j] = NoWorker]
       /\ [k \in Jobs |-> Result(k)]' = [[k \in Jobs |-> Result(k)] EXCEPT ![j] = NoWorker]
  BY <1>6, <1>9, <1>10 DEF View
<1> QED
  BY <1>4, <1>7, <1>11 DEF Contract!Fail, Result

\* Every step of the queue is a step of the contract or changes nothing of it.
LEMMA ContractStep ==
  ASSUME Timely, Inv, [Next]_vars
  PROVE  [Contract!Next]_(Contract!cvars)
<1>i. Inv'
  BY InvStep
<1>0. CASE UNCHANGED vars
  <2>1. \A j \in Jobs : SameFor(j)
    BY <1>0 DEF vars, rows, content, locals, SameFor, On
  <2> QED
    BY <1>i, <2>1, ViewStays, ContractStutter
<1> SUFFICES ASSUME Next PROVE Contract!Next \/ UNCHANGED Contract!cvars
  BY <1>0
<1>t. /\ status \in [Jobs -> JobStatus] /\ pc \in [Workers -> PcSet]
      /\ cur \in [Workers -> Jobs \cup {NoJob}]
      /\ lockedBy \in [Jobs -> Workers \cup {NoWorker}]
      /\ retryCount \in [Jobs -> Nat]
  BY DEF Inv, WholeInv, LockInv, TypeOK
<1>1. ASSUME NEW j \in Jobs, Submit(j) PROVE Contract!Next
  <2>1. status[j] = "absent" /\ status' = [status EXCEPT ![j] = "queued"]
    BY <1>1 DEF Submit
  <2>2. UNCHANGED <<lockedBy, retryCount, pc, cur, chan, words>>
    BY <1>1 DEF Submit, locals, content
  <2>3. \A k \in Jobs \ {j} : View(k)' = View(k)
    <3>1. \A k \in Jobs \ {j} : SameFor(k)
      BY <2>1, <2>2, <1>t DEF SameFor, On
    <3> QED
      BY <1>i, <3>1, ViewStays
  <2>4. /\ Owner(j)' = Owner(j) /\ Result(j)' = Result(j)
        /\ Contracted(status[j]) = "new" /\ Contracted(status[j])' = "waiting"
    BY <2>1, <2>2, <1>t DEF Owner, Reporters, StillReporting, Result, Contracted, Candidates
  <2>5. /\ [k \in Jobs |-> Contracted(status[k])]' =
              [[k \in Jobs |-> Contracted(status[k])] EXCEPT ![j] = "waiting"]
        /\ [k \in Jobs |-> Owner(k)]' = [k \in Jobs |-> Owner(k)]
        /\ [k \in Jobs |-> Result(k)]' = [k \in Jobs |-> Result(k)]
    BY <2>3, <2>4 DEF View
  <2>6. Contract!Submit(j)
    BY <2>2, <2>4, <2>5 DEF Contract!Submit, Result
  <2> QED
    BY <2>6 DEF Contract!Next
<1>2. ASSUME NEW w \in Workers, ReleaseStale(w) PROVE Contract!Next
  <2> DEFINE S == {j \in Jobs : StaleLock(j)}
  <2>1. \A j \in S : status[j] = "processing"
    BY DEF StaleLock, Inv, WholeInv, LockInv, Recoverable
  <2>2. /\ status' = [j \in Jobs |-> IF j \in S THEN "retry_wait" ELSE status[j]]
        /\ lockedBy' = [j \in Jobs |-> IF j \in S THEN NoWorker ELSE lockedBy[j]]
        /\ UNCHANGED <<retryCount, cur, chan, words>>
    BY <1>2, <2>1 DEF ReleaseStale, ReleasedStatus, content
  <2>3. pc[w] = "poll" /\ pc' = [pc EXCEPT ![w] = "released"]
    BY <1>2 DEF ReleaseStale
  <2> HIDE DEF S
  <2>4. S \in SUBSET Jobs
    BY DEF S
  <2>5. \A k \in Jobs \ S : View(k)' = View(k)
    <3>1. \A k \in Jobs \ S : SameFor(k)
      BY <2>2, <2>3, <1>t DEF SameFor, On, Busy
    <3> QED
      BY <1>i, <3>1, ViewStays
  <2>6. \A k \in S : /\ Contracted(status[k]) = "running" /\ Contracted(status[k])' = "waiting"
                     /\ Owner(k)' = NoWorker /\ Result(k)' = Result(k)
    BY <2>1, <2>2, <2>4 DEF Owner, Reporters, StillReporting, Result, Contracted, Candidates
  <2>7. /\ [k \in Jobs |-> Contracted(status[k])]' =
              [k \in Jobs |-> IF k \in S THEN "waiting" ELSE Contracted(status[k])]
        /\ [k \in Jobs |-> Owner(k)]' =
              [k \in Jobs |-> IF k \in S THEN NoWorker ELSE Owner(k)]
        /\ [k \in Jobs |-> Result(k)]' = [k \in Jobs |-> Result(k)]
    BY <2>4, <2>5, <2>6 DEF View
  <2>8. Contract!GiveBack(S)
    BY <2>2, <2>4, <2>6, <2>7 DEF Contract!GiveBack, Result
  <2> QED
    BY <2>4, <2>8 DEF Contract!Next
<1>3. ASSUME NEW w \in Workers, Claim(w) PROVE Contract!Next
  <2>1. cur[w] \in Jobs /\ status[cur[w]] \in Candidates
    BY <1>3 DEF Claim, Claimable, Inv, WholeInv, LockInv, HasJob
  <2>2. /\ status' = [status EXCEPT ![cur[w]] = "processing"]
        /\ lockedBy' = [lockedBy EXCEPT ![cur[w]] = w]
        /\ pc' = [pc EXCEPT ![w] = "acquired"]
        /\ UNCHANGED <<retryCount, cur, chan, words>>
    BY <1>3 DEF Claim, content
  <2>3. ASSUME NEW j \in Jobs, j = cur[w]
        PROVE  Contract!Start(j, w)
    <3>1. \A k \in Jobs \ {j} : SameFor(k)
      BY <2>2, <2>3, <1>t DEF SameFor, On
    <3>2. \A k \in Jobs \ {j} : View(k)' = View(k)
      BY <1>i, <3>1, ViewStays
    <3>3. /\ Contracted(status[j]) = "waiting" /\ Contracted(status[j])' = "running"
          /\ Owner(j)' = w /\ Result(j)' = Result(j)
      BY <2>1, <2>2, <2>3, <1>t
         DEF Owner, Reporters, StillReporting, Result, Contracted, Candidates
    <3>4. /\ [k \in Jobs |-> Contracted(status[k])]' =
                [[k \in Jobs |-> Contracted(status[k])] EXCEPT ![j] = "running"]
          /\ [k \in Jobs |-> Owner(k)]' = [[k \in Jobs |-> Owner(k)] EXCEPT ![j] = w]
          /\ [k \in Jobs |-> Result(k)]' = [k \in Jobs |-> Result(k)]
      BY <3>2, <3>3 DEF View
    <3> QED
      BY <2>2, <3>3, <3>4 DEF Contract!Start, Result
  <2> QED
    BY <2>1, <2>3 DEF Contract!Next
<1>4. ASSUME NEW w \in Workers, Complete(w) \/ Bury(w) PROVE Contract!Next
  <2>1. cur[w] \in Jobs
    BY <1>4 DEF Complete, Bury, Busy, Inv, WholeInv, LockInv, HasJob
  <2> QED
    BY <1>i, <1>4, <2>1, CompletePublishes, BuryFails DEF Contract!Next
<1>5. ASSUME NEW w \in Workers, Reported(w) \/ Stop(w)
      PROVE  Contract!Next \/ UNCHANGED Contract!cvars
  <2>1. UNCHANGED rows /\ UNCHANGED content
    BY <1>5 DEF Reported, Stop, Halt
  <2>2. /\ pc'[w] \notin Busy
        /\ \A v \in Workers : v # w => pc'[v] = pc[v] /\ cur'[v] = cur[v]
    BY <1>5, <1>t DEF Reported, BackToPoll, Stop, Halt, Busy
  <2> QED
    BY <1>i, <2>1, <2>2, LeavesJob
<1>6. ASSUME NEW w \in Workers, Reset(w) PROVE UNCHANGED Contract!cvars
  <2>1. status[cur[w]] = "processing" /\ seen[w] = Loaded(cur[w]) /\ pc[w] = "resetting"
    BY <1>6, QueueAssumption
       DEF Reset, Busy, Inv, WholeInv, LockInv, HasJob, Holds, StillReporting, Fresh, Recoverable
  <2>2. UNCHANGED <<status, lockedBy, retryCount>>
    BY <1>6, <2>1, <1>t DEF Reset, Flush, Loaded
  <2>3. \A j \in Jobs, v \in Workers : On(v, j)' <=> On(v, j)
    BY <1>6, <2>1, <1>t DEF Reset, On, Busy
  <2> QED
    BY <1>i, <2>2, <2>3, QuietStep
<1>7. ASSUME NEW w \in Workers, Pick(w) \/ NothingToPick(w) \/ ClaimLost(w) \/ IdleBeat(w) \/ Boot(w)
      PROVE  UNCHANGED Contract!cvars
  <2>1. UNCHANGED <<status, lockedBy, retryCount>>
    BY <1>7 DEF Pick, NothingToPick, ClaimLost, IdleBeat, Boot, rows
  <2>2. /\ pc'[w] \notin Busy /\ pc[w] \notin Busy
        /\ \A v \in Workers : v # w => pc'[v] = pc[v] /\ cur'[v] = cur[v]
    BY <1>7, <1>t DEF Pick, NothingToPick, ClaimLost, IdleBeat, Boot, Busy, locals
  <2>3. \A j \in Jobs, v \in Workers : On(v, j)' <=> On(v, j)
    BY <2>2 DEF On
  <2> QED
    BY <1>i, <2>1, <2>3, QuietStep
<1>8. ASSUME NEW w \in Workers,
             \/ Start(w) \/ TouchBefore(w) \/ OpenChannel(w) \/ Transcribe(w)
             \/ TranscribeFails(w) \/ TouchAfter(w) \/ WriteChannel(w)
             \/ CheckChannels(w) \/ LoadFailed(w) \/ Raise(w)
      PROVE  UNCHANGED Contract!cvars
  <2>1. UNCHANGED <<status, lockedBy, retryCount, cur>>
    BY <1>8 DEF Start, TouchBefore, OpenChannel, Transcribe, TranscribeFails,
       TouchAfter, WriteChannel, CheckChannels, LoadFailed, Raise, rows
  <2>2. pc[w] \in Busy
    BY <1>8 DEF Start, TouchBefore, OpenChannel, Transcribe, TranscribeFails,
       TouchAfter, WriteChannel, CheckChannels, LoadFailed, Raise, Busy
  <2>3. pc'[w] \in Busy /\ \A v \in Workers : v # w => pc'[v] = pc[v]
    BY <1>8, <1>t DEF Start, TouchBefore, OpenChannel, Transcribe, TranscribeFails,
       TouchAfter, WriteChannel, CheckChannels, LoadFailed, Raise, Busy
  <2>4. \A j \in Jobs, v \in Workers : On(v, j)' <=> On(v, j)
    BY <2>1, <2>2, <2>3 DEF On
  <2> QED
    BY <1>i, <2>1, <2>4, QuietStep
<1>9. CASE Tick
  <2>1. UNCHANGED <<status, lockedBy, retryCount, pc, cur>>
    BY <1>9 DEF Tick
  <2>2. \A j \in Jobs, v \in Workers : On(v, j)' <=> On(v, j)
    BY <2>1 DEF On
  <2> QED
    BY <1>i, <2>1, <2>2, QuietStep
<1> QED
  BY <1>1, <1>2, <1>3, <1>4, <1>5, <1>6, <1>7, <1>8, <1>9 DEF Next, Advance

\* Nothing is locked, failed or shown when no job was submitted.
LEMMA InitContract == Init => Contract!Init
<1> SUFFICES ASSUME Init PROVE Contract!Init
  OBVIOUS
<1>1. \A j \in Jobs : status[j] = "absent"
  BY DEF Init
<1>2. lockedBy = [j \in Jobs |-> NoWorker] /\ retryCount = [j \in Jobs |-> 0]
  BY DEF Init
<1>3. \A j \in Jobs : Contracted(status[j]) = "new"
  BY <1>1 DEF Contracted, Candidates
<1>4. \A j \in Jobs : status[j] # "completed" /\ Owner(j) = NoWorker
  BY <1>1, <1>2 DEF Owner, Reporters, StillReporting
<1>5. [j \in Jobs |-> Contracted(status[j])] = [j \in Jobs |-> "new"]
  BY <1>3
<1>6. [j \in Jobs |-> IF status[j] = "completed" THEN Author(j) ELSE NoWorker]
      = [j \in Jobs |-> NoWorker]
  BY <1>4
<1>7. [j \in Jobs |-> Owner(j)] = [j \in Jobs |-> NoWorker]
  BY <1>4
<1> QED
  BY <1>2, <1>5, <1>6, <1>7 DEF Contract!Init

\* The locks, time-outs and transactions of the queue and the workers together
\* implement JobContract.
THEOREM ContractIsKept ==
  ASSUME Timely
  PROVE  Spec => KeepsContract
<1>1. Init => Inv
  BY InitLock, QueueAssumption
     DEF Init, Inv, WholeInv, Progress, CompletedIsWhole, DeadLetterExact, InLoop
<1>2. Inv /\ [Next]_vars => Inv'
  BY InvStep
<1>3. Init => Contract!Init
  BY InitContract
<1>4. Inv /\ [Next]_vars => [Contract!Next]_(Contract!cvars)
  BY ContractStep
<1> QED
  BY <1>1, <1>2, <1>3, <1>4, PTL DEF Spec, KeepsContract, Contract!Spec

===========================================================================
