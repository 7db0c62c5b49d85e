---------------------------- MODULE IdleWatchdog ----------------------------
(***************************************************************************)
(* The watchdog that stops the local services when no job is active        *)
(* (scripts/local/idle_shutdown_watchdog.py), beside an API that takes     *)
(* jobs and a worker that ends them.                                       *)
(***************************************************************************)
EXTENDS Integers, FiniteSets

CONSTANTS
    LocalJobs,      \* jobs that may be submitted
    IdleFor,        \* seconds without an active job after which it stops them
    CheckEvery,     \* seconds between two looks
    LastSecond      \* bound on the time

ASSUME WatchdogAssumption ==
    IdleFor \in Nat \ {0} /\ CheckEvery \in Nat \ {0} /\ LastSecond \in Nat

VARIABLES
    time,       \* time.monotonic()
    lastActive, \* last_active_ts
    dog,        \* "asleep", "checked" (it will stop them), "stopping" (the API is killed), "gone"
    wakes,      \* when the sleep ends
    running,    \* the services that run
    active,     \* jobs that are queued, processing or waiting for a retry
    ended,      \* jobs that were active and are not
    unlooked,   \* jobs that became active after the last look
    cutOff      \* jobs that were active when the services were stopped

wdvars == <<time, lastActive, dog, wakes, running, active, ended, unlooked, cutOff>>

WDInit ==
    /\ time = 0 /\ lastActive = 0 /\ dog = "asleep" /\ wakes = 0
    /\ running = {"api", "worker"}
    /\ active \in SUBSET LocalJobs
    /\ ended = {} /\ unlooked = {} /\ cutOff = {}

\* Mutant: an error of the database is read as no active job.
CountedJobs(answers) == answers /\ active # {}

\* has_active_jobs: the database answers, or it is locked and that counts as active.
HasActiveJobs(answers) == ~ answers \/ active # {}

\* A turn of the loop that ends in a sleep.
LookAndSleep ==
    /\ dog = "asleep" /\ time >= wakes /\ running # {}
    /\ \E answers \in BOOLEAN :
          IF HasActiveJobs(answers) THEN lastActive' = time
          ELSE time - lastActive < IdleFor /\ UNCHANGED lastActive
    /\ wakes' = time + CheckEvery
    /\ unlooked' = {}
    /\ UNCHANGED <<time, dog, running, active, ended, cutOff>>

\* The turn that finds it idle for long enough.
LookAndStop ==
    /\ dog = "asleep" /\ time >= wakes /\ running # {}
    /\ \E answers \in BOOLEAN : ~ HasActiveJobs(answers)
    /\ time - lastActive >= IdleFor
    /\ dog' = "checked"
    /\ unlooked' = {}
    /\ UNCHANGED <<time, lastActive, wakes, running, active, ended, cutOff>>

\* terminate_services: the API first, then the worker.
KillApi ==
    /\ dog = "checked"
    /\ running' = running \ {"api"}
    /\ dog' = "stopping"
    /\ UNCHANGED <<time, lastActive, wakes, active, ended, unlooked, cutOff>>

KillWorker ==
    /\ dog = "stopping"
    /\ running' = {}
    /\ cutOff' = active
    /\ dog' = "gone"
    /\ UNCHANGED <<time, lastActive, wakes, active, ended, unlooked>>

\* Neither service runs: the watchdog ends too.
NothingToWatch ==
    /\ dog = "asleep" /\ time >= wakes /\ running = {}
    /\ dog' = "gone"
    /\ UNCHANGED <<time, lastActive, wakes, running, active, ended, unlooked, cutOff>>

\* create_job_for_file, for the API.
SubmitLocal(j) ==
    /\ "api" \in running /\ j \notin active \cup ended
    /\ active' = active \cup {j}
    /\ unlooked' = unlooked \cup {j}
    /\ UNCHANGED <<time, lastActive, dog, wakes, running, ended, cutOff>>

\* The worker ends a job.
EndLocal(j) ==
    /\ "worker" \in running /\ j \in active
    /\ active' = active \ {j}
    /\ ended' = ended \cup {j}
    /\ UNCHANGED <<time, lastActive, dog, wakes, running, unlooked, cutOff>>

\* A failure after the end sets it to wait for a retry (the except of run_worker).
ReopenLocal(j) ==
    /\ "worker" \in running /\ j \in ended
    /\ active' = active \cup {j}
    /\ ended' = ended \ {j}
    /\ unlooked' = unlooked \cup {j}
    /\ UNCHANGED <<time, lastActive, dog, wakes, running, cutOff>>

\* External: a service is stopped by hand.
StopService(s) ==
    /\ s \in running
    /\ running' = running \ {s}
    /\ UNCHANGED <<time, lastActive, dog, wakes, active, ended, unlooked, cutOff>>

SecondPasses ==
    /\ time < LastSecond
    /\ time' = time + 1
    /\ UNCHANGED <<lastActive, dog, wakes, running, active, ended, unlooked, cutOff>>

WDNext ==
    \/ LookAndSleep \/ LookAndStop \/ KillApi \/ KillWorker \/ NothingToWatch
    \/ SecondPasses
    \/ \E j \in LocalJobs : SubmitLocal(j) \/ EndLocal(j) \/ ReopenLocal(j)
    \/ \E s \in {"api", "worker"} : StopService(s)

WDSpec == WDInit /\ [][WDNext]_wdvars

-----------------------------------------------------------------------------

\* A job is cut off by the shutdown only if it was submitted or reopened between the
\* last look and the end of the services: what was active at that look, also behind a
\* locked database, keeps them running.
OnlyLateJobsCutOff == cutOff \subseteq unlooked

=============================================================================
