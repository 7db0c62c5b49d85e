# Verification of heb_transcription

TLA+ specifications of the transcription service in this repository, the TLC
configurations that check them on small instances, and TLAPS proofs. The code is
the reference: every definition names, in `PROJECT.json` under `map`, the lines it
models.

    tlc -workers 2 -config JobQueue_safe.cfg MCJobQueue.tla
    tlapm JobQueueProofs.tla

## 1. The system

Paths are relative to `backend/` unless they begin with `scripts/`.

| Component | State | Operations | Interacts with |
|---|---|---|---|
| Jobs API (`app/api/routes_jobs.py`, `app/services/job_service.py`, `media.py`) | rows `jobs`, `job_channels`; uploaded files | upload, scan of a directory, list, read, export, playback | queue (inserts rows), timestamp repair (on read) |
| Job queue (`app/services/queueing.py`) | `status`, `locked_by_worker`, `locked_at`, `next_attempt_at` of a job | `release_stale_locks`, `acquire_next_job` (Postgres statement or portable pick), `touch_job_heartbeat` | all workers share the rows |
| Worker (`worker.py`) | local: the job, the channel, the loaded rows; shared: rows, channels, words, heartbeat | `run_worker`, `process_job`, success, failure with retry or dead letter | queue, engine, alignment, diarization, heartbeats |
| Worker manager (`worker_manager.py`, `resource_manager.py`) | list of child processes, two cooldown times | tick: cleanup, measure, spawn, stop; `finally` | worker processes, queue depth |
| Heartbeats (`app/services/heartbeat.py`) | rows `worker_heartbeats` | upsert, count of online workers | workers write, API reads |
| Transcription (`transcription_engine.py`, `alignment.py`, `diarization.py`, `hebrew_text.py`) | the loaded model | transcribe a channel, align, label speakers | worker |
| Timestamp repair (`timestamp_repair.py`) | word rows of a finished job | detect speech, judge, rebuild | Jobs API on read |
| Exports (`exports.py`) | none | TXT, SRT, DOCX of the words | Jobs API |
| Authentication (`security.py`, `routes_auth.py`, `deps.py`) | users, tokens | bootstrap, log in, log out, resolve | every route, the socket |
| Live updates (`routes_ws.py`) | open sockets | a payload every two seconds | browser |
| Browser client (`app/static/app.js`) | token, selected job, timers, socket | log in/out, list, select, poll, play | API, socket |
| Rate limiter (`middleware/production.py`) | recent request times per client | allow | every route |
| Metrics, health, dashboard | per-process counters | read-only aggregates | rows |
| Watchdog (`scripts/local/idle_shutdown_watchdog.py`) | pid files, time of last activity | check, terminate services | jobs table, processes |
| Backups (`scripts/ops/backup_*.py`, `restore_sqlite.py`) | backup files and metadata | copy, retention, restore drill | database file |
| Reports (`scripts/ops/*`), model selection (`scripts/bakeoff`), load tests | none | one-shot | files, HTTP |

What is hard in it:

* several worker processes and the API share rows through short transactions, and a
  worker's work on a job spans many of them. Nothing but the lock columns keeps two
  workers apart, and the last transaction of an attempt does not look at them;
* a lock expires by time while a long call (a transcription) runs;
* workers crash, are killed by the manager (`terminate`, whatever they do), and are
  restarted;
* the two implementations of the pick differ: one holds a row lock, the other relies
  on a conditional `UPDATE`;
* failures come back through a second session that loads the row again;
* the manager decides on counts that change while it acts;
* in the browser, answers arrive late and out of order.

What makes each component correct, in a sentence: a job is worked on by one live
worker at a time, is never lost, settles, and shows one whole transcript (queue and
worker); a retry waits its back-off and the failures are counted exactly (worker);
urgent jobs and waiting tenants are served first (pick); every process is listed,
the cap holds and no lock stays behind (manager); the view shows the newest state of
the selected job (client); a client that waits `Retry-After` is served (limiter);
words stay in order within their channel (alignment, repair, exports); a stopped
token opens nothing (authentication); an active system is not shut down (watchdog);
the newest backups are kept and restorable (backups).

## 2. Modules

| Module | Models |
|---|---|
| `FairPick` | the order of the picks: `ORDER BY` of `_acquire_next_job_postgres` (`PostgresRank`) and of `_pick_fair_candidate` with its stable sort (`PortableRank`) |
| `JobQueue` | API submission, the queue, the workers, crashes and time |
| `JobContract` | the abstract specification: a job waits, is run by one owner, and is published, failed (counted) or given back (uncounted) |
| `ManagedQueue` | `JobQueue` composed with the manager process |
| `JobView` | the browser's selected job: selection, list, upload, polling |
| `WordTimes` | the alignment of one channel (`alignment.py`), as operators on integer times |
| `SpeechEngine` | the detection of speech, the words of the model's answers, their tests and scores (`transcription_engine.py`) |
| `Subtitles` | speakers and exports (`diarization.py`, `exports.py`) |
| `Transcript` | an attempt on a job from its audio to its rows, and the reads that repair its times (`transcribe_channel`, `process_job`, `timestamp_repair.py`); extends the three above |
| `RateLimiter` | the sliding window and a client that obeys it (`middleware/production.py`) |
| `IdleWatchdog` | the watchdog beside API and worker (`idle_shutdown_watchdog.py`) |
| `Backups` | scheduler, retention, drill, restore (`scripts/ops`) |
| `LiveUpdates` | the payload of a socket while jobs move (`routes_ws.py`) |
| `Heartbeats` | the times of a worker's beats and who counts as online (`worker.py`, `heartbeat.py`) |
| `Accounts` | bootstrap, log-in, log-out, expiry (`routes_auth.py`, `security.py`) |
| `Tables` | writing one entry of a table, for `Backups` and `Accounts` |
| `JobQueueProofs`, `ManagedQueueProofs` | theorems about `JobQueue` and `ManagedQueue` and their proofs |
| `JobViewProofs`, `RateLimiterProofs` | theorems about `JobView` and `RateLimiter` |
| `ServiceProofs` | theorems about `IdleWatchdog`, `LiveUpdates`, `Heartbeats`, `Accounts` and `Backups` |
| `WordTimesProofs`, `TranscriptProofs` | lemmas about the operators on words and speech, and the theorems about `Transcript` |
| `SharedLemmas` | division, subsequences and recursive functions, for the proofs |
| `MCJobQueue`, `MCManagedQueue`, `MCServices` | the instances for TLC |

### JobQueue: state and actions

`status`, `lockedBy`, `lockAge`, `wait`, `retryCount` are columns of `jobs`
(`locked_at` as the time since, `next_attempt_at` as the time until), `chan` is
`job_channels.status`, `words` says which worker's words are in `transcript_words`,
`beat` is the heartbeat row. `pc`, `cur`, `ch`, `seen`, `since` are where a worker
process is: the step, the job, the channel, the row its open session has loaded, and
the time since it took or renewed its lock.

An action is one committed transaction. The sessions are made with
`expire_on_commit=False, autoflush=False` (`app/database.py:23`): a transaction that
does `db.get` and writes at commit is two actions, load and commit, and the commit
writes only what differs from the loaded values (`Flush`). The worker goes through

    poll -ReleaseStale-> released -Pick-> picked -Claim-> acquired -Start-> resetting
      -Reset-> touching -TouchBefore-> opening -OpenChannel-> transcribing
      -Transcribe-> renewing -TouchAfter-> writing -WriteChannel-> touching (next channel)
      | finishing -CheckChannels-> completing -Complete-> reporting -Reported-> poll

and, by `TranscribeFails` or `Raise` from any of the steps of the `try` block,
through `failing -LoadFailed-> burying -Bury-> poll`. `reporting` is the rest of that
block after the completion is committed (`worker.py:234-247`: metrics and a log entry):
an exception there fails the completed job, whose row goes back to `retry_wait` or on to
`dead_letter`. `Stop` and `Boot` are the end and the start of a process at any point;
`Tick` lets time pass.

`JobContract` says what that means for a user: a job is published by its owner and is
final when the owner lets go of it (`LetGo`); until then that owner, and no one else,
may still fail it. `Owner` of the refinement is the holder of the lock, and after the
completion, which takes the lock away, the worker that reports it.

Abstractions: one number of channels, one `MaxRetries` (the column, or the setting
the column is filled from) and one back-off for all jobs; the columns
`started_at`, `completed_at`, `last_heartbeat_at` and the error texts are left out, as
are the times and loads in the heartbeat rows; channel rows are written without
`Flush`, since only an attempt that has reset them writes them; a missing input file
and every other exception is `Raise`; the two queries of the portable pick (the counts
and the candidates) read the rows in one step.

`Pick` and `Claim` are separate for both implementations. In the Postgres statement
the row is locked from one to the other: others skip it (`Eligible`) and updates wait
(`RowFree`). Without `SKIP LOCKED` nothing is held.

### ManagedQueue

A tick of `run_manager` is `Measure` (cleanup, snapshot, queue depth, desired number,
cooldowns), then workers are started (`Spawn`, `Enlist`) or stopped (`PopLast`,
`StopPopped`) until the list has the desired length, then `Sleep`. A process runs from
`Popen` on and is appended afterwards; it is popped first and stopped afterwards. In
between it is in `hand`. `Leave` is an interrupt, an exception or `--max-ticks` at any of
these points: the `finally` block (`StopFirst`, `Gone`) stops what is on the list, and a
worker in the hand is `lost`. `KillManager` ends the manager without that block, or
within it. `BootManager` is a new manager process, which knows nothing of lost workers.
Workers run, crash and finish in between. `_stop_worker` ends a worker in one step
wherever it is; that it may fail (a `kill` that raises) is `KillManager` during the
`finally` block. Process ids are fresh in the code; the model uses an id again once its
process has ended and is not listed.

### JobView

`sel`, `timer`, `inflight` are `state.selectedJob`, `selectedJobPollTimer` and
`selectedJobPollInFlight`; `net` holds the open requests with the answer the server
gave, which waits there until it is delivered. JavaScript runs a handler from one
`await` to the next without interruption, so each such part is an action: the user's
(`Click`, `Refresh`, `Upload`, `Reload`) and the timer's (`PollTick`) send, `Serve`
answers with the row as it is then, and `UploadDone`, `ListDone`, `SelectDone`,
`PollDone` are what follows an `await`; `Fail` ends a handler there. A row is a version
number, the last of which is terminal; that a late failure of the worker takes a row out
of its terminal status again is left out (the page has stopped polling it, and shows it
as ended until the next selection). `loadJobs` selects the selected job again
(`Resync`), unless a date filter has taken it out of the list. `InOrder` says that
requests are served and answered in the order they were sent, which neither HTTP nor
the server's thread pool ensures. Texts, the completion notice, the player and the
socket (which carries queue counts only) are left out.

### Transcript, with WordTimes, SpeechEngine and Subtitles

Times are whole units, `Sec` of them a second (40 in the run, so that the code's 0.05 s,
0.04 s and 0.35 s are whole or nearly); the code's floats are rounded to six digits. A
word is a token with a start and an end, which are `None` when the model gave none, and
token 0 is a blank text. The answers of the model, and the log of ffmpeg's
`silencedetect`, are inputs; a call may fail instead.

    extracting -Extract-> probing -Probe-> primary -PrimaryPass-> refining -RefinedPass|RefinedFails->
      checking -NoSegmentPass|SegmentPass|SegmentFails-> aligning -SettleWord*->
      -StoreChannel-> extracting (next channel) | done -Read-> done

and `LoadFails`, `ExtractFails`, `ProbeFails`, `PrimaryFails` or `WorkerEnds` to
`failed`, from which `Retry` starts again with empty channels. The `try` whose `finally`
removes the temporary file begins only after the extraction, the probes and the start of
the sampler (`transcription_engine.py:376-407`), so `ExtractFails` and `ProbeFails` leave
the file; `WorkerEnds` is a kill, or an exception of something else, at any step.
`SettleWord` is one turn of the loop of `_stabilize_timestamps`; the rest of the
alignment, the speakers and the transaction are `StoreChannel`.

`Read` is `GET /jobs/{id}`: for each channel ffmpeg may work, fail, or work without an
answer of ffprobe. A repair deletes the words of the channel and appends the new ones to
the list that was loaded before. A flush does not take deleted rows out of a loaded
list, and the second load in the same session (`routes_jobs.py:281`) does not load it
again. So `shown` has both lists, `kept` and `added`, and `Answer` is the two of them sorted by
`seq`: each old word followed by the repaired one of its number. `get_db` never commits,
so the rows keep the old words. Left out: the choice of chunk lengths and beams, resource
sampling, diagnostics, clean-up of Hebrew text, and the temporary files of a repair.

### The services around it

`RateLimiter`: `events` is `_events`; `served`, `retryAt` and `refusals` are history, of
one client that is alone on its key and does not ask again before `Retry-After`. Time is
in half-seconds, so that the rounding down to full seconds shows.

`IdleWatchdog`: a turn of the loop is `LookAndSleep`, `LookAndStop` or
`NothingToWatch`; `KillApi` and `KillWorker` are `terminate_services`. The database may
be locked, which counts as active. `SubmitLocal`, `EndLocal` and `ReopenLocal` are what
the API and the worker do to jobs, a failure after the end included; services stopped by
hand and the clock are external.

`Backups`: `files` maps the second in a file's name to the version it holds, `Torn` when
it is not whole. The scheduler begins a copy, ends it, removes old files and drills, and
may end and start again anywhere (`SchedulerRestarts`). The operator makes copies by
hand and restores, and may break off anywhere (`BreakOff`). SQLite's backup leaves what a
file held until it is done; `copy2` does not. The application is assumed to be
stopped during a restore; nothing in the script ensures it.

`LiveUpdates`: one action for each of the six counts of `_build_payload`, with
submissions and moves of jobs between them. A job that was begun may move from any
status to any other, as it may in `JobQueue` by releases, late failures and workers that
have lost their lock. `Heartbeats`: `lastIdle` is `last_heartbeat` of `run_worker`; the
status a beat carries is `beat` in `JobQueue`. `Accounts`: the two transactions of
`bootstrap`, `login`, `logout`; `Resolves` is what every request and every new socket
asks once.

## 3. What is checked

| Run | Instance | Shows |
|---|---|---|
| `queue_safe` | 3 jobs of 2 tenants, 2 workers, 1 channel, `SKIP LOCKED`, 1 retry, 1 crash, failed reports, `MaxStep = LockTimeout = 1` | types, exclusion, no orphaned row, whole transcripts, exact counts, outcomes that only their own worker can take back, back-off, the order of the picks, refinement of `JobContract` |
| `queue_live` | 1 job, 2 workers, 2 channels, portable pick, 2 crashes, `MaxStep = LockTimeout = 2`, fair | exclusion and one author over two channels without row locks; the job settles |
| `queue_slow` | 1 job, `MaxStep = 2 > LockTimeout = 1` | **violation**: two workers on one job |
| `queue_race` | 1 job, portable pick, no crash | **violation**: a job taken inside its back-off |
| `queue_urgent` | 3 jobs, portable pick | **violation**: an urgent job passed over |
| `manager_pool` | 2 jobs, cap of 1 worker, no minimum, no cooldown, 1 crash of a worker or 1 interruption or kill of the manager and a new one | no stray process between any two steps of the manager but what a kill, or an interruption with a worker in the hand, leaves behind; the cap holds for the others |
| `manager_live` | 2 jobs, 1 to 2 workers, `--min-workers 1`, fair | locks of killed workers are released, jobs settle |
| `manager_zero` | 1 job, `--min-workers 0`, fair | **violation**: the lock of a killed worker stays for ever |
| `view_inorder` | 2 jobs, 3 user actions, 1 failed request, answers in order, fair | the shown job changes only by a selection; polling never stops early, blocks itself or runs on; the end is shown |
| `view_late` | 1 job, 2 user actions, answers in any order, fair | **violation**: a finished job shown as unfinished for ever |
| `services` | the components beside the queue, each alone (`part`) | words follow one another, none is lost, and placed words lie in speech; speech agrees with the log; exports are whole; temporary files, windows, retries, late jobs, backups, restores, counts, beats and log-ins (below) |
| `repaired_read` | the instance of `services`, reads that repair | **violation**: an answer with old and repaired words together |

The properties of `services`:

* `WordsInTime`, `WordsKept`, `OnlyInSpeech`, `SpeechIsNotSilence`, `ExportsFaithful`: for
  times that are missing, zero, backwards, beyond the end or collapsed, and every choice
  of calls that succeed or fail, what is stored, what a repair adds to an answer and
  what the exports hold is the text that was said, in order, within the recording. An
  answer has each word once, or, after a repair, each twice in a row (`WordsKept`); those
  of the stored and of the repaired words are in time, those of such an answer together
  are not (`repaired_read`);
* `ExportsFaithful` also says that a subtitle has one speaker, no long pause and at most
  `CueSize` words, that the SRT file holds all subtitles sorted by their times and nothing
  else when every channel has words, and that a speaker has one group in TXT and DOCX;
* `SpeechIsNotSilence` compares the detected speech with the log unit by unit: no segment
  holds a silent unit, and no loud run of 0.03 s or more is left out, unless the whole
  recording is taken for speech because nothing else is;
* `WavsAccounted`: a temporary file stays behind only where an attempt ends outside the
  `try` block or is killed in it, one at most for each such attempt;
* `WindowRespected`, `RetryIsServed`: no window holds too many served requests, and a
  client that obeys `Retry-After` is refused at most twice in a row;
* `OnlyLateJobsCutOff`: a shutdown cuts off only jobs submitted or reopened after the last
  look;
* `NewestBackupKept`, `RestoreKeepsOld`: the newest finished backup goes only when
  `KeepLast` files have later names; what a restore replaces is still somewhere;
* `NoneMissed`: a job in the list of a payload is missing from its counts only if it was
  submitted or moved back since the first of them, and is counted once if it stayed;
* `MissingOnlyInLongChannels`: a live worker is counted as offline only in or just after
  a channel longer than the grace;
* `AccountsUsable`: whoever is answered "completed" can log in, and a session ends by its
  own log-out or time only.

Bounds. `MaxStops` (ends of worker processes), `MaxEnds` (interruptions and kills of the
manager), `MaxRetries`, `MaxStep` and the number of jobs and workers are the only bounds,
beside `NoFailureOfThree` in `queue_safe` (once the third job is there, no attempt has
failed) and `OneTrouble` in `manager_pool` (a crash of a worker or an end of the manager,
not both). Time is not bounded, because ages stop just above the
time-out and waiting times count down. Two workers are enough for every conflict over a
row the code can have, since every transaction touches the rows of one job; a second job
brings a release of several locks at once, and the second and third the order of picks;
two channels bring attempts that are partly written. With `MaxStep = LockTimeout` a
renewal can come at the very last unit.

In `JobView` the bounds are `MaxActs`, `MaxFails` and `Final` (2: an unfinished and a
terminal version tell an old answer from a new one). Three actions are enough for a
selection, a second one that overlaps with its polls, and a refresh, an upload or a
reload beside them.

In `services`: a recording of 2 s or 12 s, one or two channels (the second with two
answers only, since channels share nothing but the loop), two attempts; nine first
answers, among them one for each way times can be wrong, so that every branch of the
alignment and of the choice of passes is taken. The sizes 40, 30 and 400 of the engine
become 4, 3 and 5, and a subtitle has 2 words, so that answers of up to five words reach
them. A window of 2 s with limits 1 and 2 over 4 s lets times leave the window while
others are in it. The watchdog has two jobs and looks about five times; backups have
three seconds, two versions and keep one file, the smallest number at which a torn file
pushes out a whole one. One worker beats for 16 s with a grace of 5 s; two jobs and all
six counts; three bootstraps, of which two want one name and one has blanks around it.
The parts share no variable, so one run checks each of them alone, without fairness: all
its properties are safety. `LastUnit`, `LastSecond`, `EndOfTime`, `LastVersion`,
`Midnight`, `LastHour` and `MaxAttempts` are bounds only; at them, and when a
transcript has failed for good, a part stops, so deadlock is not checked there.

Assumption of the passing queue runs and of most theorems: `Timely`, a live worker
renews its lock, or ends its report, within the time-out (900 s). Nothing enforces it: `queue_slow` shows
what happens otherwise, and `TerminalIsFinal` and `Recoverable` fail then as well.

Fairness. A running worker goes on (`Advance`): `run_worker` is a loop whose calls
return or raise. A stopped worker is started again (`Boot`): the compose files run it
with `restart: unless-stopped` (`docker-compose.enterprise.yml:56`). Time passes. In
`ManagedQueue` the manager's loop goes on and is itself restarted
(`docker-compose.yml:42`); workers are started by it only. `Raise`, `Stop`,
submissions and heartbeats have no fairness: they may always or never happen.
`Settles` holds because failures are bounded by the retries and crashes by `MaxStops`.
With unboundedly many crashes it would fail: a release as stale counts no failure and
sets no back-off, so a job that kills its worker each time never becomes a dead letter.

In `JobView` the server answers, answers arrive and the interval fires; the user's
actions, the workers' progress and failures have no fairness. `FollowsToEnd` needs
failures to be finitely many, as the comment at `app/static/app.js:627` supposes.

Deadlock is checked in the runs of the queue and the manager, where the clock and the
pollers never stop; a page on which nobody clicks and nothing polls rests, so the
`JobView` runs do not check it.

### Disagreements between documents and code

1. `queue_slow`: `docs/STAGE_STATUS.md:63` promises that locks and stale-lock release
   prevent duplicate processing. The lock is renewed only before and after the
   transcription of a channel; a longer one is processed twice.
2. `queue_race`: `docs/STAGE_4_STATUS.md:8` promises retries with exponential
   back-off. The portable `UPDATE` checks lock and status but not `next_attempt_at`
   again, so a worker whose pick is outdated takes the job inside its back-off
   (Postgres with `ENABLE_POSTGRES_SKIP_LOCKED=false`; on SQLite after a release that
   changed rows, whose commit ends the write transaction).
3. `queue_urgent`: the form (`app/static/app.js:346`) says that a smaller number is an
   earlier place. On SQLite `_pick_fair_candidate` sorts by priority and then again by
   `(running count, queued_at)`, which leaves the priority to break exact ties only.
4. `manager_zero`: `docs/STAGE_4_STATUS.md:7` promises the release of stale locks.
   `_queue_depth` counts waiting jobs only, so with the default minimum of 0 the worker
   of the only job is killed when the scale-down cooldown ends, and a processing job
   calls for no worker that could release its lock. The compose file passes
   `--min-workers 1`, and `manager_live` shows that this is enough.
5. `view_late`: `TRANSCRIPTION_SYSTEM_MASTER_PLAN_HE.md:21` lists progress in real time
   among the live updates. A click on the job that is already shown (or a refresh) can
   overtake an open poll; when the answer to the click is the finished row, polling
   stops, and then the older answer of the poll puts the unfinished row back
   (`app/static/app.js:609`), which nothing updates any more.
6. `repaired_read`: `docs/STAGE_3_STATUS.md:46-47` lists "Player + transcript sync by word
   timestamp" and "Active spoken word highlight". The answer of a read that repairs holds
   the old words of a channel and the repaired ones together
   (`app/services/timestamp_repair.py:239-254`), each text twice and overlapping in time.

### What else the models show

Not disagreements with a document, but worth knowing:

1. A repair takes its words from `payload["raw"]`. When the segment pass was selected,
   `raw` still holds the chunks of an earlier pass (`transcription_engine.py:489`, `516`),
   so a repaired read can show other words than were stored. `WordsKept` excludes this
   case; without the exclusion TLC finds it.
2. A repair is never committed (`routes_jobs.py:276`): it is computed, with ffmpeg, at
   every read, and the exports show the words without it.
3. An exception in the metrics or the log entry after a job was completed
   (`worker.py:234-247`) fails the completed job: it is retried, which drops its transcript,
   or becomes a dead letter that has one. A page that saw it completed does not poll it
   any more.
4. An interrupt between `Popen` and `append`, or between `pop` and the end of
   `_stop_worker`, leaves one worker that the `finally` block does not stop; a manager that
   is killed leaves all. The next manager starts others beside them.
5. `alignment.py:233` moves the end of the last word to the duration, so the test for a
   severe collapse (`alignment.py:250`) fires for stored words only if they all begin
   late. Words that really are spoken only in the last 15 % of a recording are judged
   unreliable and repaired at every read.
6. TXT and DOCX group the words of a channel by speaker: with two speakers the order of
   the turns is lost, and only the order within a speaker is kept.
7. A channel whose duration ffprobe cannot tell has no detected speech, and its words are
   spread evenly over the duration of the job.
8. The first retry after `Retry-After` may come too early, the second does not.
9. The retention counts unfinished files and copies of a half-restored database like any
   backup; the count of cycles towards a drill starts again with the scheduler; a drill
   fails when its file has been pushed out by a command of the operator; two restores
   within one second use the same `pre_restore` file.
10. The watchdog does not see a job that begins and ends between two looks.
11. A job may be counted in two statuses of one payload, and one that is submitted
    between the counts, or goes from `retry_wait` back to `processing`, in none.
12. Two bootstraps with different names that overlap both succeed. A bootstrap sent past
    the client with blanks around the tenant's name succeeds, but `login` trims the name
    and never finds it (`routes_auth.py:29`, `48`). The client's log-out
    (`app/static/app.js`, `logout`) forgets the token without calling `/auth/logout`, so
    the server accepts it until it expires; an open socket goes on in either case.

## 4. What is proved

`JobQueueProofs` proves, for every number of jobs, workers, channels, retries and
crashes and every time-out:

| Theorem | Assumes | Says |
|---|---|---|
| `TypeCorrect` | | `Spec => []TypeOK` |
| `LockInvariance` | `Timely` | the lock protocol `LockInv` |
| `MutualExclusion` | `Timely` | `Spec => []Exclusive` |
| `NothingOrphaned` | `Timely` | `Spec => []Recoverable` |
| `OutcomeIsFinal` | `Timely` | `Spec => TerminalIsFinal` |
| `TranscriptIsWhole` | `Timely` | `Spec => []CompletedIsWhole` |
| `RetriesAreCounted` | `Timely` | `Spec => []DeadLetterExact` |
| `BackoffIsKept` | `SkipLocked` | `Spec => BackoffKept` |
| `UrgentJobsFirst` | `SkipLocked` | `Spec => UrgentFirst` |
| `TenantsShare` | | `Spec => FairShare` |
| `ContractIsKept` | `Timely` | `Spec => Contract!Spec` |

The argument. `Exclusive` is not inductive: it says nothing of the lock. `LockInv`
adds that a busy worker holds the lock of its job, unless it has completed it, and that the
lock is exactly as old as the worker's own clock says (`Holds`), so with `Timely` it is never stale; that what
an open session has loaded is still in the row (`Fresh`), so a commit overwrites
nothing; and that processing and locked rows are the same (`Recoverable`). A terminal
row is then unlocked and no candidate, so no worker reaches it but the one that has just
completed it (`FinalStep`).
`Progress` adds which channels the current attempt has written; with exclusion nobody
else touches them, which gives `CompletedIsWhole`. The refinement maps a claim to
`Start`, `Complete` to `Publish`, `Bury` to `Fail`, a release to `GiveBack` of the set
of stale jobs, the end of a report (or of the process in it) to `LetGo`, and everything
else to a stutter. `BackoffKept` needs no assumption on
the speed of workers: `PickHeld` says that a row lock keeps a picked job as it was.

`JobViewProofs` proves, for every number of jobs, versions, user actions and failures:

| Theorem | Assumes | Says |
|---|---|---|
| `ViewTypeCorrect` | | `VSpec => []VTypeOK` |
| `PollingEnds` | | `VSpec => []NoIdlePolling` |
| `PollingGoesOn` | | `VSpec => []FlagIsLive` |
| `SelectionIsKept` | | `VSpec => OnlyAskedFor` |
| `OpenIsWatched` | `[][~ OvertakenPoll]_vvars` | `VSpec => []WatchedWhileOpen` |

All hold for answers in any order, which the passing run does not cover. An unfinished row
may lose its timer in one way only: the answer of a poll with an unfinished row arrives
after a selection has shown the finished one (`OvertakenPoll`), which is what `view_late`
shows. The theorem says that in every other run, whatever the order of the answers, an
unfinished row on the screen has its timer.

`ManagedQueueProofs` proves, for every number of jobs, workers and channels and all
settings of the manager:

| Theorem | Assumes | Says |
|---|---|---|
| `ManagerTypeCorrect` | | `MSpec => []MTypeOK` |
| `NoWorkerIsStray` | | `MSpec => []NoStray` |
| `CapIsKept` | | `MSpec => []WithinCap` |
| `ManagedExclusion` | `Timely` | `MSpec => []Exclusive` |
| `ManagedContract` | `Timely` | `MSpec => KeepsContract` |
| `ManagedQueueKept` | `Timely` | `MSpec => [](Recoverable /\ CompletedIsWhole /\ DeadLetterExact)` |
| `ManagedOutcomeIsFinal` | `Timely` | `MSpec => TerminalIsFinal` |
| `ManagedBackoff` | `SkipLocked` | `MSpec => BackoffKept` |
| `ManagedUrgentFirst` | `SkipLocked` | `MSpec => UrgentFirst` |
| `ManagedTenantsShare` | | `MSpec => FairShare` |

Neither `NoStray` nor `WithinCap` is inductive. `PoolInv` adds that no process is in the
list twice (`NoTwice`), that every running one is on it, in the hand or lost
(`RunningKnown`), that a worker in the hand is not on the list (`HandHeld`), that the list
and the hand together are not longer than the greater of the cap and the minimum, and the
number a tick is scaling to is not either (`Room`), and that an interruption has lost one
worker at most (`LostCounted`). That the cap then holds for the processes is a counting
argument over the list. The theorems from `ManagedExclusion` on carry the results of
`JobQueueProofs` over to the larger system: a step of the manager is a step of the queue,
or ends one worker without a crash being counted (`QueueSteps`), and that disturbs neither
the invariants (`HaltStep`, `HaltKeepsPicks`) nor the picks (`HaltPicksNothing`).

`RateLimiterProofs` and `ServiceProofs` prove, for any keys, jobs, tokens, files and
durations:

| Theorem | Assumes | Says |
|---|---|---|
| `WindowKept` | | `RLSpec => []WindowRespected` |
| `RetriesServed` | | `RLSpec => []RetryIsServed` |
| `LateJobsOnly` | | `WDSpec => []OnlyLateJobsCutOff` |
| `PayloadsMissNone` | | `LUSpec => []NoneMissed` |
| `LivingAreCounted` | `BeatsInTime` | `HBSpec => []MissingOnlyInLongChannels` |
| `AccountsStayUsable` | | `ACSpec => []AccountsUsable` |
| `NewestBackupStays` | | `BKSpec => []NewestBackupKept` |
| `OldContentIsKept` | | `BKSpec => []RestoreKeepsOld` |

`WindowRespected` speaks of all requests ever served, the code of those it remembers:
`RLInv` says that the served times are sorted, that a remembered time is a served one
and a forgotten one has left the window (`Remembered`), and that a request and the one
`Limit` places later are more than a window apart (`Apart`), which is what a full window
would contradict. `ComesBack` bounds when a client that was refused returns.
`BeatsInTime` says that the grace is long enough for a beat and a sleep of a polling
worker, as the settings of `config.py` are (a beat every 5 s, a sleep of 1 s, a grace of
15 s). `BKInv` says that the newest finished backup is safe between
any two steps of an overlapping copy, retention and drill; `RestoreInv` follows the old
content through the steps of a restore.

`WordTimesProofs` and `TranscriptProofs` prove, for any answers of the model, any logs,
any number of channels and attempts:

| Theorem | Assumes | Says |
|---|---|---|
| `AttemptTypeCorrect` | | `TSpec => []TTypeOK` |
| `TemporaryFilesCounted` | | `TSpec => []WavsAccounted` |
| `EveryWordKept` | | `TSpec => []WordsKept` |
| `PlacedWithinSpeech` | | `TSpec => []OnlyInSpeech` |
| `SpeechIsHeard` | | `TSpec => []SpeechIsNotSilence` |
| `TimesInOrder` | | `TSpec => [](WordsHaveRoom => WordsInTime)` |
| `ExportsHoldWords` | | `TSpec => []ExportsFaithful` |
| `SharesAddUp` | | the shares of the segments add up to the words |

`AttemptInv` carries, from the extraction to the read, what is known of the audio
(`AudioKnown`), of the candidate and its payload (`CandidateKnown`: its words are the
spoken ones of the payload unless the segment pass replaced them), of the loop of the
stabilization (`Settling`: every settled word lies after the one before and leaves a
shortest step for each word that follows), of the files, and of each row (`RowKnown`).
The steps of the argument are lemmas on the operators:

* every way of placing the words keeps their tokens: `StabilizedWords`, `EvenSlots`,
  `SegmentsPlace`, `AlignedWords`, `DiarizedWords`, `RepairedWords`; old and repaired words
  sorted by their numbers are the old ones, each followed by its repair (`RepairedAnswer`);
* `SharesAddUp`: the rounded-down shares plus one word each for the largest remainders
  are all the words, since fewer are left over than there are segments; a segment gets
  no more words than it has units when all of the speech has enough;
* `SilencesAreQuiet`, `BetweenIsLoud`, `LieTogether`: a unit is in a silence exactly when
  the event before it says so, in the swept speech exactly when it is in no silence, and
  a run of loud units lies in one segment because two segments have a gap between them.
  Detected segments are therefore `Apart`, and `_normalize_speech_segments` leaves them
  as they are (`SegmentsKept`);
* `CuesHold`, `GroupsHold`, `SrtHolds`: subtitles put one after another are the words, a
  new one begins whenever `Tight` would break; the groups are one for each speaker with
  what `SaidBy` says of it; inserting each entry after those that are not later keeps all
  of them, in order. They hold for any words with times and tokens, and `RowsOfInv`
  says that the rows of an attempt have such words.

`WordsHaveRoom` says that time is fine enough: a second has at least 20 units, a
recording at least 10, and there are no more words in a channel than units in the
recording and in its speech. Without it an integer grid cannot give each word a unit of
its own, whatever the code does; the code rounds to six decimals, so that a unit is a
microsecond and the condition excludes no recording with fewer than a million words per
second. TLC checks `WordsInTime` without it on its instance.

No theorem needs more of the constants than the named assumptions of the modules
(`PickAssumption`, `QueueAssumption`, `ManagerAssumption`, `ViewAssumption`,
`LimiterAssumption`, `WatchdogAssumption`, `BackupAssumption`, `BeatAssumption`,
`AccountsAssumption`, `TimeAssumption`, `EngineAssumption`, `CueAssumption`,
`TranscriptAssumption`, `AnswerAssumption`, `LogAssumption`), which TLC evaluates in the
runs. `AnswerAssumption` gives the answers of the model their types, with any times or
none; `LogAssumption` says that `silencedetect` writes its events in the order of their
times, starts and ends in turn.

How recursion is treated. Loops are recursive functions over `0 .. n`. `SharedLemmas`
proves once that such a function exists and takes its turns (`Recursion`, `TableSequence`),
and that a set which contains 0 and each successor contains all (`SetInduction`,
`TurnByTurn`): induction over a set named in the proof, since a lemma over an operator
cannot be instantiated by the provers. Each loop of the code then has one lemma that
names the sequence of its states (`SettledWords`, `ThoseTurns`, `SortedTurns`, `ReadTurns`,
`SweptTurns`, `CueTurns`, `TimeTurns`, `GroupTurns`, `ListTurns`), and the facts about it are proved turn by turn.

What stays model-checked: `Settles`, `LocksReleased` and `FollowsToEnd`, since liveness
under fairness is beyond TLAPS. Every invariant and every action property of a passing
run has a theorem; `WordsInTime` under `WordsHaveRoom`, the queue's under `Timely` or
`SkipLocked` where the table says so.

## 5. Plan

What is left, in this order:

1. The steps that `LocksReleased` and `Settles` rest on, as theorems about `JobQueue`:
   a release leaves no stale lock behind, and a worker that fails a job
   frees it with a back-off or ends it.
2. The condition under which the manager's `--min-workers 0` does release the locks of
   killed workers, stated and checked beside the violation of `manager_zero`.

## 6. Not modelled

* model inference, loading, chunk sizes and the clean-up of Hebrew text: no control that
  a property could be about, or a numeric library;
* upload storage, listing, playback and streaming of audio: files and queries;
* dashboard, metrics and health: aggregates that are computed for the answer;
* reports, release and preflight checks, migration, bake-off and load tests: one-shot
  scripts without a state of their own;
* configuration and schema migration: they run once before everything else, and the
  settings are the constants of the modules;
* the client's log-in form, socket, player and layout.
