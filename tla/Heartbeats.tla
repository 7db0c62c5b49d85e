----------------------------- MODULE Heartbeats -----------------------------
(***************************************************************************)
(* The beats of a worker in time, and who is counted as online             *)
(* (run_worker and process_job of backend/worker.py,                       *)
(* backend/app/services/heartbeat.py).  The statuses a beat carries are in *)
(* JobQueue.  Steps other than a sleep and a channel take less than a      *)
(* second.                                                                 *)
(***************************************************************************)
EXTENDS Integers, FiniteSetsExt

CONSTANTS
    BeatEvery,     \* worker_heartbeat_seconds
    IdleSleep,     \* worker_idle_sleep_seconds, rounded up
    GraceSetting,  \* worker_online_grace_seconds
    Never,         \* no beat yet
    Midnight       \* bound on the time

ASSUME BeatAssumption ==
    /\ BeatEvery \in Nat /\ IdleSleep \in Nat \ {0}
    /\ GraceSetting \in Nat /\ Midnight \in Nat /\ Never \notin Int

VARIABLES
    nowSec,     \* the time
    busy,       \* "no", "channel" (being transcribed), or "dead"
    channelAt,  \* when that channel was begun
    lastIdle,   \* last_heartbeat: the last beat of the loop
    sleepsTill, \* the end of the worker's sleep
    updatedAt   \* updated_at of its row

hbvars == <<nowSec, busy, channelAt, lastIdle, sleepsTill, updatedAt>>

HBInit ==
    /\ nowSec = 0 /\ busy = "no" /\ channelAt = 0
    /\ lastIdle = 0 - BeatEvery /\ sleepsTill = 0 /\ updatedAt = Never

\* The first lines of the loop: a beat when the last one of the loop is old.
BeatDue == nowSec - lastIdle >= BeatEvery

LoopBeat ==
    /\ lastIdle' = IF BeatDue THEN nowSec ELSE lastIdle
    /\ updatedAt' = IF BeatDue THEN nowSec ELSE updatedAt

\* A turn that finds no job.
FindNoJob ==
    /\ busy = "no" /\ nowSec >= sleepsTill
    /\ LoopBeat
    /\ sleepsTill' = nowSec + IdleSleep
    /\ UNCHANGED <<nowSec, busy, channelAt>>

\* A turn that finds one: a beat for the job, and one before the first channel.
FindJob ==
    /\ busy = "no" /\ nowSec >= sleepsTill
    /\ lastIdle' = IF BeatDue THEN nowSec ELSE lastIdle
    /\ updatedAt' = nowSec
    /\ busy' = "channel"
    /\ channelAt' = nowSec
    /\ UNCHANGED <<nowSec, sleepsTill>>

\* Mutant: only the first channel of a job has a beat.
NoBeatBetween == UNCHANGED updatedAt

\* The beat before each channel.
ChannelBeat == updatedAt' = nowSec

NextChannel ==
    /\ busy = "channel"
    /\ channelAt' = nowSec
    /\ ChannelBeat
    /\ UNCHANGED <<nowSec, busy, lastIdle, sleepsTill>>

\* The job has ended; only a failure writes a beat.  The next turn follows at once.
JobEnds ==
    /\ busy = "channel"
    /\ busy' = "no"
    /\ sleepsTill' = nowSec
    /\ updatedAt' \in {updatedAt, nowSec}
    /\ UNCHANGED <<nowSec, channelAt, lastIdle>>

Dies ==
    /\ busy # "dead"
    /\ busy' = "dead"
    /\ UNCHANGED <<nowSec, channelAt, lastIdle, sleepsTill, updatedAt>>

\* A worker that is awake makes its turn before the next second.
TimePasses ==
    /\ nowSec < Midnight
    /\ busy = "no" => nowSec < sleepsTill
    /\ nowSec' = nowSec + 1
    /\ UNCHANGED <<busy, channelAt, lastIdle, sleepsTill, updatedAt>>

HBNext ==
    \/ FindNoJob \/ FindJob \/ NextChannel \/ JobEnds \/ Dies \/ TimePasses

HBSpec == HBInit /\ [][HBNext]_hbvars

\* _online_threshold_seconds, and the condition of count_online_workers.
OnlineThreshold == Max({5, GraceSetting})
CountedOnline == updatedAt # Never /\ updatedAt >= nowSec - OnlineThreshold

-----------------------------------------------------------------------------

\* Once it has begun, a worker that lives is missing from the count only while it is
\* in a channel that takes longer than the grace, or has just left it.
MissingOnlyInLongChannels ==
    updatedAt # Never /\ ~ CountedOnline =>
        \/ busy = "dead"
        \/ nowSec - channelAt > OnlineThreshold /\ (busy = "channel" \/ sleepsTill = nowSec)

=============================================================================
