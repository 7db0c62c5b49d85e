------------------------------ MODULE JobQueue ------------------------------
(***************************************************************************)
(* Transcription jobs, the workers that process them and the database rows *)
(* they share: backend/worker.py with app/services/queueing.py and         *)
(* app/services/job_service.py.                                            *)
(*                                                                         *)
(* An action is one committed database transaction of one worker (or of    *)
(* the API, for Submit), with the local computation up to the next one.    *)
(* A transaction that loads a row with db.get and writes it back at commit *)
(* is two actions: another transaction may commit in between, and the ORM  *)
(* then writes only the columns whose new value differs from the loaded    *)
(* one (Flush).                                                            *)
(*                                                                         *)
(* Time is counted in units.  lockAge is the time since jobs.locked_at     *)
(* (capped just above the time-out), wait the time left until              *)
(* jobs.next_attempt_at, since the time for which a busy worker has not    *)
(* renewed a lock.  A busy worker renews within MaxStep units: the bound   *)
(* on one transcription of one channel plus the database work around it.   *)
(***************************************************************************)
EXTENDS FairPick

CONSTANTS
    Workers, NoWorker, NoJob,
    NumChannels,   \* channels of every job
    MaxRetries,    \* jobs.max_retries
    Backoff,       \* JOB_RETRY_BACKOFF_SECONDS
    LockTimeout,   \* lock_timeout_seconds of release_stale_locks
    MaxStep,       \* bound on the time between two lock renewals
    MaxStops       \* bound on the number of worker processes that end

\* backoff_sec before the attempt after failure n.
Delay(n) == Backoff * (2 ^ (n - 1))

ASSUME QueueAssumption ==
    /\ NoWorker \notin Workers
    /\ NoJob \notin Jobs
    /\ NumChannels \in Nat \ {0}
    /\ MaxRetries \in Nat
    /\ Backoff \in Nat
    /\ LockTimeout \in Nat
    /\ MaxStep \in Nat \ {0}
    /\ MaxStops \in Nat
    /\ \A n \in 1 .. MaxRetries : Delay(n) \in Nat

VARIABLES
    status,      \* jobs.status ("absent": no row yet)
    lockedBy,    \* jobs.locked_by_worker
    lockAge,     \* now - jobs.locked_at
    wait,        \* jobs.next_attempt_at - now, 0 when NULL or past
    retryCount,  \* jobs.retry_count
    chan,        \* job_channels.status
    words,       \* whose words are in transcript_words, per channel
    beat,        \* worker_heartbeats: status and active_job_id
    pc, cur, ch, \* where a worker is, on which job, on which channel
    seen,        \* the job row as the open session loaded it
    since,       \* time since a busy worker acquired or touched
    stops        \* worker processes that have ended so far

rows    == <<status, lockedBy, lockAge, wait, retryCount>>
content == <<chan, words>>
locals  == <<pc, cur, ch, seen, since>>
vars    == <<rows, content, beat, locals, stops>>

Channels == 1 .. NumChannels

\* Mutant: a dead-lettered job is offered again.
CandidatesWithDead == {"queued", "retry_wait", "dead_letter"}

Candidates == {"queued", "retry_wait"}    \* QUEUED_CANDIDATE_STATUSES
Terminal   == {"completed", "dead_letter"}
JobStatus  == {"absent", "processing"} \cup Candidates \cup Terminal
ChanStatus == {"queued", "processing", "completed", "failed"}

\* Inside the try block of run_worker: a job was returned by acquire_next_job.
Busy == {"acquired", "resetting", "touching", "opening", "transcribing",
         "renewing", "writing", "finishing", "completing", "reporting",
         "failing", "burying"}
PcSet == {"down", "poll", "released", "picked"} \cup Busy

Snapshot == [status: JobStatus, lockedBy: Workers \cup {NoWorker}, retryCount: Nat]
NoSnapshot == [status |-> "absent", lockedBy |-> NoWorker, retryCount |-> 0]
Loaded(j) == [status |-> status[j], lockedBy |-> lockedBy[j],
              retryCount |-> retryCount[j]]

Idle == [status |-> "idle", job |-> NoJob]
Processing(j) == [status |-> "processing", job |-> j]
NoBeat == [status |-> "none", job |-> NoJob]

TypeOK ==
    /\ status \in [Jobs -> JobStatus]
    /\ lockedBy \in [Jobs -> Workers \cup {NoWorker}]
    /\ lockAge \in [Jobs -> 0 .. (LockTimeout + 1)]
    /\ wait \in [Jobs -> Nat]
    /\ retryCount \in [Jobs -> Nat]
    /\ chan \in [Jobs -> [Channels -> ChanStatus]]
    /\ words \in [Jobs -> [Channels -> Workers \cup {NoWorker}]]
    /\ beat \in [Workers -> [status: {"none", "idle", "processing"},
                             job: Jobs \cup {NoJob}]]
    /\ pc \in [Workers -> PcSet]
    /\ cur \in [Workers -> Jobs \cup {NoJob}]
    /\ ch \in [Workers -> Channels]
    /\ seen \in [Workers -> Snapshot]
    /\ since \in [Workers -> 0 .. MaxStep]
    /\ stops \in 0 .. MaxStops

Init ==
    /\ status = [j \in Jobs |-> "absent"]
    /\ lockedBy = [j \in Jobs |-> NoWorker]
    /\ lockAge = [j \in Jobs |-> 0]
    /\ wait = [j \in Jobs |-> 0]
    /\ retryCount = [j \in Jobs |-> 0]
    /\ chan = [j \in Jobs |-> [c \in Channels |-> "queued"]]
    /\ words = [j \in Jobs |-> [c \in Channels |-> NoWorker]]
    /\ beat = [w \in Workers |-> NoBeat]
    /\ pc = [w \in Workers |-> "down"]
    /\ cur = [w \in Workers |-> NoJob]
    /\ ch = [w \in Workers |-> 1]
    /\ seen = [w \in Workers |-> NoSnapshot]
    /\ since = [w \in Workers |-> 0]
    /\ stops = 0

-----------------------------------------------------------------------------
(* The ORM unit of work and the locks of the Postgres statement.           *)

\* The column after a commit that assigns new to a row loaded with old.
Flush(old, new, now) == IF new = old THEN now ELSE new

\* Mutant: the pick holds no row lock.
NeverLocked(j) == TRUE

\* FOR UPDATE holds the row from the pick to the commit of the claim.
RowFree(j) == ~ \E v \in Workers : SkipLocked /\ pc[v] = "picked" /\ cur[v] = j

\* status := s and locked_by_worker, locked_at := NULL, flushed by w.
FlushUnlocked(w, s) ==
    LET j == cur[w]
        holder == Flush(seen[w].lockedBy, NoWorker, lockedBy[j])
    IN  /\ status' = [status EXCEPT ![j] = Flush(seen[w].status, s, @)]
        /\ lockedBy' = [lockedBy EXCEPT ![j] = holder]
        /\ lockAge' = [lockAge EXCEPT ![j] = IF holder = NoWorker THEN 0 ELSE @]

-----------------------------------------------------------------------------
(* The API: create_job_for_file.                                           *)

Submit(j) ==
    /\ status[j] = "absent"
    /\ \A k \in Jobs : QueuedAt[k] < QueuedAt[j] => status[k] # "absent"
    /\ status' = [status EXCEPT ![j] = "queued"]
    /\ UNCHANGED <<lockedBy, lockAge, wait, retryCount, content, beat, locals, stops>>

-----------------------------------------------------------------------------
(* Polling: the loop of run_worker up to a successful acquire_next_job.    *)

IdleBeat(w) ==
    /\ pc[w] = "poll"
    /\ beat' = [beat EXCEPT ![w] = Idle]
    /\ UNCHANGED <<rows, content, locals, stops>>

\* Mutant: a lock expires at the time-out, not after it.
ExpiresEarly(j) == lockedBy[j] # NoWorker /\ lockAge[j] >= LockTimeout

StaleLock(j) == lockedBy[j] # NoWorker /\ lockAge[j] > LockTimeout

\* Mutant: the release forgets the status.
SameStatus(s) == s

\* Mutant: the release sets a status that jobs do not have.
FailedStatus(s) == IF s = "processing" THEN "failed" ELSE s

\* CASE status = 'processing' THEN 'retry_wait' ELSE status.
ReleasedStatus(s) == IF s = "processing" THEN "retry_wait" ELSE s

ReleaseStale(w) ==
    /\ pc[w] = "poll"
    /\ status' = [j \in Jobs |-> IF StaleLock(j) THEN ReleasedStatus(status[j])
                                                 ELSE status[j]]
    /\ lockedBy' = [j \in Jobs |-> IF StaleLock(j) THEN NoWorker ELSE lockedBy[j]]
    /\ lockAge' = [j \in Jobs |-> IF StaleLock(j) THEN 0 ELSE lockAge[j]]
    /\ pc' = [pc EXCEPT ![w] = "released"]
    /\ UNCHANGED <<wait, retryCount, content, beat, cur, ch, seen, since, stops>>

Eligible == {j \in Jobs : status[j] \in Candidates /\ lockedBy[j] = NoWorker
                                                   /\ wait[j] = 0 /\ RowFree(j)}

Running == [t \in Tenants |->
    Cardinality({j \in Jobs : status[j] = "processing" /\ TenantOf[j] = t})]

Pick(w) ==
    /\ pc[w] = "released"
    /\ \E j \in Jobs :
          /\ Preferred(j, Eligible, Running)
          /\ cur' = [cur EXCEPT ![w] = j]
    /\ pc' = [pc EXCEPT ![w] = "picked"]
    /\ UNCHANGED <<rows, content, beat, ch, seen, since, stops>>

NothingToPick(w) ==
    /\ pc[w] = "released"
    /\ Eligible = {}
    /\ pc' = [pc EXCEPT ![w] = "poll"]
    /\ UNCHANGED <<rows, content, beat, cur, ch, seen, since, stops>>

\* The condition of the UPDATE that takes the lock.
Claimable(j) == lockedBy[j] = NoWorker /\ status[j] \in Candidates

Claim(w) ==
    /\ pc[w] = "picked"
    /\ Claimable(cur[w])
    /\ status' = [status EXCEPT ![cur[w]] = "processing"]
    /\ lockedBy' = [lockedBy EXCEPT ![cur[w]] = w]
    /\ lockAge' = [lockAge EXCEPT ![cur[w]] = 0]
    /\ since' = [since EXCEPT ![w] = 0]
    /\ pc' = [pc EXCEPT ![w] = "acquired"]
    /\ UNCHANGED <<wait, retryCount, content, beat, cur, ch, seen, stops>>

ClaimLost(w) ==
    /\ pc[w] = "picked"
    /\ ~ Claimable(cur[w])
    /\ cur' = [cur EXCEPT ![w] = NoJob]
    /\ pc' = [pc EXCEPT ![w] = "poll"]
    /\ UNCHANGED <<rows, content, beat, ch, seen, since, stops>>

-----------------------------------------------------------------------------
(* process_job.                                                            *)

\* upsert_worker_heartbeat, then the load of the first transaction.
Start(w) ==
    /\ pc[w] = "acquired"
    /\ beat' = [beat EXCEPT ![w] = Processing(cur[w])]
    /\ seen' = [seen EXCEPT ![w] = Loaded(cur[w])]
    /\ pc' = [pc EXCEPT ![w] = "resetting"]
    /\ UNCHANGED <<rows, content, cur, ch, since, stops>>

\* _reset_job_channels_for_retry and status := "processing", committed.
Reset(w) ==
    LET j == cur[w] IN
    /\ pc[w] = "resetting"
    /\ RowFree(j)
    /\ chan' = [chan EXCEPT ![j] = [c \in Channels |-> "queued"]]
    /\ words' = [words EXCEPT ![j] = [c \in Channels |-> NoWorker]]
    /\ status' = [status EXCEPT ![j] = Flush(seen[w].status, "processing", @)]
    /\ seen' = [seen EXCEPT ![w] = NoSnapshot]
    /\ ch' = [ch EXCEPT ![w] = 1]
    /\ pc' = [pc EXCEPT ![w] = "touching"]
    /\ UNCHANGED <<lockedBy, lockAge, wait, retryCount, beat, cur, since, stops>>

\* Mutant: the lock is not renewed.
TouchNothing(w) ==
    /\ lockAge' = lockAge
    /\ since' = [since EXCEPT ![w] = 0]

\* touch_job_heartbeat: UPDATE ... WHERE locked_by_worker = w; no row matched
\* is not an error.
TouchJob(w) ==
    /\ lockAge' = [lockAge EXCEPT ![cur[w]] = IF lockedBy[cur[w]] = w THEN 0 ELSE @]
    /\ since' = [since EXCEPT ![w] = 0]

TouchBefore(w) ==
    /\ pc[w] = "touching"
    /\ TouchJob(w)
    /\ pc' = [pc EXCEPT ![w] = "opening"]
    /\ UNCHANGED <<status, lockedBy, wait, retryCount, content, beat, cur, ch,
                   seen, stops>>

OpenChannel(w) ==
    /\ pc[w] = "opening"
    /\ beat' = [beat EXCEPT ![w] = Processing(cur[w])]
    /\ chan' = [chan EXCEPT ![cur[w]][ch[w]] = "processing"]
    /\ pc' = [pc EXCEPT ![w] = "transcribing"]
    /\ UNCHANGED <<rows, words, cur, ch, seen, since, stops>>

Transcribe(w) ==
    /\ pc[w] = "transcribing"
    /\ pc' = [pc EXCEPT ![w] = "renewing"]
    /\ UNCHANGED <<rows, content, beat, cur, ch, seen, since, stops>>

TranscribeFails(w) ==
    /\ pc[w] = "transcribing"
    /\ chan' = [chan EXCEPT ![cur[w]][ch[w]] = "failed"]
    /\ ch' = [ch EXCEPT ![w] = 1]
    /\ pc' = [pc EXCEPT ![w] = "failing"]
    /\ UNCHANGED <<rows, words, beat, cur, seen, since, stops>>

TouchAfter(w) ==
    /\ pc[w] = "renewing"
    /\ TouchJob(w)
    /\ pc' = [pc EXCEPT ![w] = "writing"]
    /\ UNCHANGED <<status, lockedBy, wait, retryCount, content, beat, cur, ch,
                   seen, stops>>

\* The transcript of the channel, committed with its words.
WriteChannel(w) ==
    /\ pc[w] = "writing"
    /\ chan' = [chan EXCEPT ![cur[w]][ch[w]] = "completed"]
    /\ words' = [words EXCEPT ![cur[w]][ch[w]] = w]
    /\ \/ /\ ch[w] < NumChannels
          /\ ch' = [ch EXCEPT ![w] = @ + 1]
          /\ pc' = [pc EXCEPT ![w] = "touching"]
       \/ /\ ch[w] = NumChannels
          /\ ch' = [ch EXCEPT ![w] = 1]
          /\ pc' = [pc EXCEPT ![w] = "finishing"]
    /\ UNCHANGED <<rows, beat, cur, seen, since, stops>>

HasFailedChannel(j) == \E c \in Channels : chan[j][c] = "failed"

\* The load of the last transaction: the job row, then any failed channel.
CheckChannels(w) ==
    /\ pc[w] = "finishing"
    /\ \/ /\ HasFailedChannel(cur[w])
          /\ pc' = [pc EXCEPT ![w] = "failing"]
          /\ UNCHANGED seen
       \/ /\ ~ HasFailedChannel(cur[w])
          /\ pc' = [pc EXCEPT ![w] = "completing"]
          /\ seen' = [seen EXCEPT ![w] = Loaded(cur[w])]
    /\ UNCHANGED <<rows, content, beat, cur, ch, since, stops>>

\* A worker that goes back to the top of the loop of run_worker.
BackToPoll(w) ==
    /\ cur' = [cur EXCEPT ![w] = NoJob]
    /\ ch' = [ch EXCEPT ![w] = 1]
    /\ seen' = [seen EXCEPT ![w] = NoSnapshot]
    /\ since' = [since EXCEPT ![w] = 0]
    /\ pc' = [pc EXCEPT ![w] = "poll"]

\* _mark_job_success, committed.  The worker is still in the try block.
Complete(w) ==
    /\ pc[w] = "completing"
    /\ RowFree(cur[w])
    /\ FlushUnlocked(w, "completed")
    /\ seen' = [seen EXCEPT ![w] = NoSnapshot]
    /\ pc' = [pc EXCEPT ![w] = "reporting"]
    /\ UNCHANGED <<wait, retryCount, content, beat, cur, ch, since, stops>>

\* record_job_success and the log entry, the last statements of the try block.
\* The heartbeat row keeps "processing".
Reported(w) ==
    /\ pc[w] = "reporting"
    /\ BackToPoll(w)
    /\ UNCHANGED <<rows, content, beat, stops>>

-----------------------------------------------------------------------------
(* The except branch of run_worker.                                        *)

\* Any other exception in the try block: a missing input file, an error of
\* the database or of the alignment, or, after the job was completed, of the
\* report on it.
Raise(w) ==
    /\ pc[w] \in Busy \ {"failing", "burying"}
    /\ seen' = [seen EXCEPT ![w] = NoSnapshot]
    /\ ch' = [ch EXCEPT ![w] = 1]
    /\ pc' = [pc EXCEPT ![w] = "failing"]
    /\ UNCHANGED <<rows, content, beat, cur, since, stops>>

LoadFailed(w) ==
    /\ pc[w] = "failing"
    /\ seen' = [seen EXCEPT ![w] = Loaded(cur[w])]
    /\ pc' = [pc EXCEPT ![w] = "burying"]
    /\ UNCHANGED <<rows, content, beat, cur, ch, since, stops>>

\* The attempt number that is recorded, from the count that was loaded.
NextRetryCount(n) == n + 1

\* Mutant: one retry less.
OneRetryLess(n) == n < MaxRetries

MayRetry(n) == n <= MaxRetries

\* _mark_job_failure_with_retry and the idle heartbeat, in one commit.
Bury(w) ==
    LET j == cur[w]
        n == NextRetryCount(seen[w].retryCount)
    IN  /\ pc[w] = "burying"
        /\ RowFree(j)
        /\ FlushUnlocked(w, IF MayRetry(n) THEN "retry_wait" ELSE "dead_letter")
        /\ retryCount' = [retryCount EXCEPT ![j] = n]
        /\ wait' = [wait EXCEPT ![j] = IF MayRetry(n) THEN Delay(n) ELSE 0]
        /\ beat' = [beat EXCEPT ![w] = Idle]
        /\ BackToPoll(w)
        /\ UNCHANGED <<content, stops>>

-----------------------------------------------------------------------------
(* Processes and time.                                                     *)

\* A worker process is gone.  An open transaction is lost, committed rows stay.
Halt(w) ==
    /\ pc[w] # "down"
    /\ cur' = [cur EXCEPT ![w] = NoJob]
    /\ ch' = [ch EXCEPT ![w] = 1]
    /\ seen' = [seen EXCEPT ![w] = NoSnapshot]
    /\ since' = [since EXCEPT ![w] = 0]
    /\ pc' = [pc EXCEPT ![w] = "down"]
    /\ UNCHANGED <<rows, content, beat>>

\* A crash, a signal, or the end of a run with --once or --max-jobs.
Stop(w) ==
    /\ stops < MaxStops
    /\ stops' = stops + 1
    /\ Halt(w)

\* A process with this worker id is started.
Boot(w) ==
    /\ pc[w] = "down"
    /\ pc' = [pc EXCEPT ![w] = "poll"]
    /\ UNCHANGED <<rows, content, beat, cur, ch, seen, since, stops>>

Older(j) == IF lockAge[j] > LockTimeout THEN lockAge[j] ELSE lockAge[j] + 1

Tick ==
    /\ \A w \in Workers : pc[w] \in Busy => since[w] < MaxStep
    /\ lockAge' = [j \in Jobs |-> IF lockedBy[j] = NoWorker THEN 0 ELSE Older(j)]
    /\ wait' = [j \in Jobs |-> IF wait[j] > 0 THEN wait[j] - 1 ELSE 0]
    /\ since' = [w \in Workers |-> IF pc[w] \in Busy THEN since[w] + 1 ELSE 0]
    /\ UNCHANGED <<status, lockedBy, retryCount, content, beat, pc, cur, ch, seen, stops>>

-----------------------------------------------------------------------------

\* The steps a running worker takes by itself.
Advance(w) ==
    \/ ReleaseStale(w) \/ Pick(w) \/ NothingToPick(w) \/ Claim(w) \/ ClaimLost(w)
    \/ Start(w) \/ Reset(w) \/ TouchBefore(w) \/ OpenChannel(w)
    \/ Transcribe(w) \/ TranscribeFails(w) \/ TouchAfter(w) \/ WriteChannel(w)
    \/ CheckChannels(w) \/ Complete(w) \/ Reported(w) \/ LoadFailed(w) \/ Bury(w)

Next ==
    \/ \E j \in Jobs : Submit(j)
    \/ \E w \in Workers : Advance(w) \/ IdleBeat(w) \/ Raise(w) \/ Stop(w) \/ Boot(w)
    \/ Tick

Spec == Init /\ [][Next]_vars

\* A running worker goes on, a stopped one is started again (restart:
\* unless-stopped), time passes.  Nothing obliges a user to submit.
Fairness ==
    /\ \A w \in Workers : WF_vars(Advance(w)) /\ WF_vars(Boot(w))
    /\ WF_vars(Tick)

FairSpec == Spec /\ Fairness

-----------------------------------------------------------------------------
(* Properties.                                                             *)

\* The assumption on which the lock time-out rests: a live worker renews its
\* lock in time.  Nothing in the code enforces it.
Timely == MaxStep <= LockTimeout

\* Two live workers never process the same job (queueing.py: the conditional
\* UPDATE, the lock time-out and the renewals of worker.py together).
Exclusive ==
    \A v, w \in Workers :
        pc[v] \in Busy /\ pc[w] \in Busy /\ cur[v] = cur[w] => v = w

\* A job shown as processing carries a lock and a locked job is processing:
\* release_stale_locks sees locked jobs only and acquire_next_job unlocked
\* waiting ones only, so a job outside both is never worked on again.
Recoverable ==
    \A j \in Jobs : status[j] = "processing" <=> lockedBy[j] # NoWorker

\* A completed job has every channel completed, all by the worker of one
\* attempt: no attempt leaves a part of its transcript to another one.
CompletedIsWhole ==
    \A j \in Jobs : status[j] = "completed" =>
        \E w \in Workers : \A c \in Channels :
            chan[j][c] = "completed" /\ words[j][c] = w

\* A job is dead-lettered by its failure number MaxRetries + 1 and by no other
\* (_mark_job_failure_with_retry).
DeadLetterExact ==
    \A j \in Jobs :
        /\ retryCount[j] <= MaxRetries + 1
        /\ status[j] = "dead_letter" <=> retryCount[j] = MaxRetries + 1

\* The worker that completed j and has not left its try block yet: an exception
\* in the report on the job would fail it (worker.py, the except of run_worker).
StillReporting(w, j) ==
    /\ pc[w] \in {"reporting", "failing", "burying"} /\ cur[w] = j
    /\ status[j] = "completed"

\* What a user was shown as the outcome stays: no crash, time-out or other worker
\* changes the transcript of a terminal job, and nothing but a failed report of
\* the worker that completed it takes its status back.
TerminalIsFinal ==
    [][\A j \in Jobs : status[j] \in Terminal =>
          /\ chan'[j] = chan[j] /\ words'[j] = words[j]
          /\ \/ status'[j] = status[j]
             \/ \E w \in Workers : StillReporting(w, j) /\ pc'[w] = "poll"]_vars

\* No worker takes a job before its next_attempt_at.
BackoffKept ==
    [][\A j \in Jobs : lockedBy[j] = NoWorker /\ lockedBy'[j] # NoWorker
          => wait[j] = 0]_vars

\* What a pick offers to worker w.
Picks(w, j) == pc[w] = "released" /\ pc'[w] = "picked" /\ cur'[w] = j

\* app.js: "a smaller number is an earlier place in the queue (1 is the most
\* urgent)".  No job is picked while a more urgent job of the same tenant could
\* be picked.
UrgentFirst ==
    [][\A w \in Workers, j \in Jobs : Picks(w, j) =>
          ~ \E k \in Eligible : TenantOf[k] = TenantOf[j] /\ Priority[k] < Priority[j]]_vars

\* STAGE_4_STATUS.md: "Fair candidate pick".  No tenant gets another worker while
\* a tenant with fewer running jobs, crashed ones included, has a job to pick.
FairShare ==
    [][\A w \in Workers, j \in Jobs : Picks(w, j) =>
          \A k \in Eligible : Running[TenantOf[j]] <= Running[TenantOf[k]]]_vars

\* Every submitted job is completed or dead-lettered in the end, and for good,
\* when finitely many worker processes die.
Settles ==
    \A j \in Jobs : <>[](status[j] \in Terminal \cup {"absent"})

-----------------------------------------------------------------------------
(* Refinement of JobContract.                                              *)

Contracted(s) ==
    CASE s = "absent" -> "new"
      [] s \in Candidates -> "waiting"
      [] s = "processing" -> "running"
      [] s = "completed" -> "done"
      [] OTHER -> "dead"

\* The one author of a complete transcript.
Author(j) ==
    IF \A c \in Channels : chan[j][c] = "completed" /\ words[j][c] = words[j][1]
    THEN words[j][1] ELSE NoWorker

\* The worker that may still change job j: the holder of its lock, and after the
\* completion, which takes the lock away, the worker that reports it.
Reporters(j) == {w \in Workers : StillReporting(w, j)}
Owner(j) ==
    IF Reporters(j) = {} THEN lockedBy[j] ELSE CHOOSE w \in Reporters(j) : TRUE

Contract == INSTANCE JobContract WITH
    state <- [j \in Jobs |-> Contracted(status[j])],
    owner <- [j \in Jobs |-> Owner(j)],
    failures <- retryCount,
    result <- [j \in Jobs |-> IF status[j] = "completed" THEN Author(j)
                                                         ELSE NoWorker]

\* Locks, time-outs, retries and transactions together keep the promise of
\* JobContract.
KeepsContract == Contract!Spec

=============================================================================
