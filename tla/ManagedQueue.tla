---------------------------- MODULE ManagedQueue ----------------------------
(***************************************************************************)
(* The worker manager (backend/worker_manager.py) around the queue of      *)
(* JobQueue: one manager process that starts and stops the workers of a    *)
(* node from the number of waiting jobs.                                   *)
(*                                                                         *)
(* A tick of run_manager is Measure, which fixes the desired number of     *)
(* workers, and then two actions per worker that is started or stopped: a  *)
(* process is started before it is on the list, and off the list before it *)
(* is stopped.  In between it is in the manager's hand, and an exception   *)
(* or an interrupt there leaves it running with nobody to stop it.         *)
(* Measured values may be outdated when the workers are changed.           *)
(***************************************************************************)
EXTENDS JobQueue, Sequences

CONSTANTS
    MinWorkers,      \* --min-workers
    TargetQueue,     \* AUTOSCALE_TARGET_QUEUE_PER_WORKER
    HardCap,         \* AUTOSCALE_MAX_WORKERS_PER_NODE
    Recommended,     \* what ResourceManager may recommend
    UpCooldown,      \* AUTOSCALE_SCALE_UP_COOLDOWN_SECONDS
    DownCooldown,    \* AUTOSCALE_SCALE_DOWN_COOLDOWN_SECONDS
    MaxEnds          \* bound on the interruptions and kills of managers

ASSUME ManagerAssumption ==
    /\ IsFiniteSet(Workers) /\ IsFiniteSet(Jobs)
    /\ MinWorkers \in Nat /\ MinWorkers <= Cardinality(Workers)
    /\ TargetQueue \in Nat
    /\ HardCap \in 1 .. Cardinality(Workers)
    /\ Recommended \subseteq Nat \ {0} /\ Recommended # {}
    /\ UpCooldown \in Nat /\ DownCooldown \in Nat
    /\ MaxEnds \in Nat

VARIABLES
    pool,      \* the list of managed workers, in the order of their start
    hand,      \* the worker just started or just taken off the list
    lost,      \* running workers that no manager knows any more
    desired,   \* the target of the current tick
    mpc,       \* where run_manager is
    upCool,    \* time until a scale-up is allowed again
    downCool,  \* time until a scale-down is allowed again
    leaves,    \* interruptions of the manager so far
    kills      \* kills of the manager so far

mvars == <<pool, hand, lost, desired, mpc, upCool, downCool, leaves, kills>>
allvars == <<vars, mvars>>

Larger(a, b) == IF a > b THEN a ELSE b
Smaller(a, b) == IF a < b THEN a ELSE b

InPool(w) == \E i \in 1 .. Len(pool) : pool[i] = w

MTypeOK ==
    /\ TypeOK
    /\ pool \in Seq(Workers)
    /\ hand \in Workers \cup {NoWorker}
    /\ lost \in SUBSET Workers
    /\ desired \in 0 .. Larger(MinWorkers, HardCap)
    /\ mpc \in {"asleep", "scaling", "starting", "ending", "stopping", "gone"}
    /\ upCool \in 0 .. UpCooldown
    /\ downCool \in 0 .. DownCooldown
    /\ leaves \in 0 .. MaxEnds
    /\ kills \in 0 .. MaxEnds

MInit ==
    /\ Init
    /\ pool = <<>>
    /\ hand = NoWorker
    /\ lost = {}
    /\ desired = 0
    /\ mpc = "gone"
    /\ upCool = 0
    /\ downCool = 0
    /\ leaves = 0
    /\ kills = 0

\* _queue_depth: jobs that are being processed do not count.
Counted == {"queued", "retry_wait"}
QueueDepth == Cardinality({j \in Jobs : status[j] \in Counted})

\* math.ceil(depth / target) for a depth of at least 0.
CeilDiv(a, b) == (a + b - 1) \div b

\* Mutant: the cap of the node is forgotten.
DesiredUncapped(depth, recommended) == CeilDiv(depth, Larger(1, TargetQueue))

\* Mutant: the larger of the two caps counts.
DesiredLooseCap(depth, recommended) ==
    Smaller(CeilDiv(depth, Larger(1, TargetQueue)), Larger(recommended, HardCap))

\* _compute_desired_workers.
Desired(depth, recommended) ==
    LET target == Larger(1, TargetQueue)
        cap    == Larger(1, Smaller(recommended, Larger(1, HardCap)))
    IN  Smaller(CeilDiv(depth, target), cap)

\* Mutant: --min-workers is ignored.
IgnoresMin(d) == d

AtLeastMin(d) == Larger(MinWorkers, d)

\* Both cooldowns of run_manager keep the pool as it is.
Damped(want, size) ==
    IF (want > size /\ upCool > 0) \/ (want < size /\ downCool > 0) THEN size ELSE want

\* run_manager starts with an empty list and no cooldown.
BootManager ==
    /\ mpc = "gone"
    /\ mpc' = "asleep"
    /\ upCool' = 0
    /\ downCool' = 0
    /\ UNCHANGED <<vars, pool, hand, lost, desired, leaves, kills>>

\* The loop of _cleanup_dead_workers: the first n of the list without the dead ones.
Cleaned[n \in 0 .. Len(pool)] ==
    IF n = 0 THEN <<>>
    ELSE IF pc[pool[n]] = "down" THEN Cleaned[n - 1]
    ELSE Append(Cleaned[n - 1], pool[n])

\* _cleanup_dead_workers, the snapshots and the desired number of workers.
Measure ==
    LET alive == Cleaned[Len(pool)]
    IN  /\ mpc = "asleep"
        /\ pool' = alive
        /\ \E r \in Recommended :
              desired' = Damped(AtLeastMin(Desired(QueueDepth, r)), Len(alive))
        /\ mpc' = "scaling"
        /\ UNCHANGED <<vars, hand, lost, upCool, downCool, leaves, kills>>

\* _spawn_worker gives every process an id of its own; the model uses the id
\* of a worker that has ended and that no list holds any more.
Unused(w) == ~ InPool(w) /\ pc[w] = "down"

\* subprocess.Popen: the process runs.  (Workers bounds how many run at a time.)
Spawn ==
    /\ mpc = "scaling"
    /\ Len(pool) < desired
    /\ \E w \in Workers :
          /\ Unused(w)
          /\ Boot(w)
          /\ hand' = w
          /\ lost' = lost \ {w}
    /\ mpc' = "starting"
    /\ UNCHANGED <<pool, desired, upCool, downCool, leaves, kills>>

\* workers.append.
Enlist ==
    /\ mpc = "starting"
    /\ pool' = Append(pool, hand)
    /\ hand' = NoWorker
    /\ upCool' = UpCooldown
    /\ mpc' = "scaling"
    /\ UNCHANGED <<vars, lost, desired, downCool, leaves, kills>>

\* _stop_worker: terminate ends a worker at once, whatever it is doing.
StopWorker(w) ==
    \/ pc[w] = "down" /\ UNCHANGED vars
    \/ Halt(w) /\ UNCHANGED stops

\* workers.pop(): the worker that was started last is off the list, and runs.
PopLast ==
    /\ mpc = "scaling"
    /\ Len(pool) > desired
    /\ pool' = SubSeq(pool, 1, Len(pool) - 1)
    /\ hand' = pool[Len(pool)]
    /\ mpc' = "ending"
    /\ UNCHANGED <<vars, lost, desired, upCool, downCool, leaves, kills>>

StopPopped ==
    /\ mpc = "ending"
    /\ StopWorker(hand)
    /\ hand' = NoWorker
    /\ downCool' = DownCooldown
    /\ mpc' = "scaling"
    /\ UNCHANGED <<pool, lost, desired, upCool, leaves, kills>>

Sleep ==
    /\ mpc = "scaling"
    /\ Len(pool) = desired
    /\ mpc' = "asleep"
    /\ UNCHANGED <<vars, pool, hand, lost, desired, upCool, downCool, leaves, kills>>

\* The running ones of the workers S are nobody's any more.
Lose(S) == lost' = lost \cup {w \in S : pc[w] # "down"}

\* KeyboardInterrupt, an exception or --max-ticks: the finally block will stop
\* every worker of the list, and that in the hand is not on it.
Leave ==
    /\ mpc \in {"asleep", "scaling", "starting", "ending"}
    /\ leaves + kills < MaxEnds
    /\ leaves' = leaves + 1
    /\ Lose(Workers \cap {hand})
    /\ hand' = NoWorker
    /\ mpc' = "stopping"
    /\ UNCHANGED <<vars, pool, desired, upCool, downCool, kills>>

\* Mutant: the finally block drops the list without stopping anyone.
DropFirst ==
    /\ mpc = "stopping"
    /\ pool # <<>>
    /\ pool' = Tail(pool)
    /\ UNCHANGED <<vars, hand, lost, desired, mpc, upCool, downCool, leaves, kills>>

StopFirst ==
    /\ mpc = "stopping"
    /\ pool # <<>>
    /\ StopWorker(Head(pool))
    /\ pool' = Tail(pool)
    /\ UNCHANGED <<hand, lost, desired, mpc, upCool, downCool, leaves, kills>>

Gone ==
    /\ mpc = "stopping"
    /\ pool = <<>>
    /\ mpc' = "gone"
    /\ desired' = 0
    /\ UNCHANGED <<vars, pool, hand, lost, upCool, downCool, leaves, kills>>

\* SIGTERM, a kill, or an interrupt during the finally block: no worker that is
\* left on the list or in the hand is stopped.
KillManager ==
    /\ mpc # "gone"
    /\ leaves + kills < MaxEnds
    /\ kills' = kills + 1
    /\ Lose({w \in Workers : InPool(w) \/ w = hand})
    /\ pool' = <<>>
    /\ hand' = NoWorker
    /\ mpc' = "gone"
    /\ desired' = 0
    /\ UNCHANGED <<vars, upCool, downCool, leaves>>

MTick ==
    /\ Tick
    /\ upCool' = Larger(0, upCool - 1)
    /\ downCool' = Larger(0, downCool - 1)
    /\ UNCHANGED <<pool, hand, lost, desired, mpc, leaves, kills>>

ManagerStep ==
    \/ BootManager \/ Measure \/ Spawn \/ Enlist \/ PopLast \/ StopPopped \/ Sleep
    \/ StopFirst \/ Gone

\* A worker starts only as a child of the manager.
WorkerStep ==
    /\ \/ \E j \in Jobs : Submit(j)
       \/ \E w \in Workers : Advance(w) \/ IdleBeat(w) \/ Raise(w) \/ Stop(w)
    /\ UNCHANGED mvars

MNext == WorkerStep \/ ManagerStep \/ Leave \/ KillManager \/ MTick

MSpec == MInit /\ [][MNext]_allvars

\* The manager's loop, the loops of the workers it runs, and time go on.
MFairSpec ==
    /\ MSpec
    /\ WF_allvars(ManagerStep)
    /\ \A w \in Workers : WF_allvars(Advance(w) /\ UNCHANGED mvars)
    /\ WF_allvars(MTick)

-----------------------------------------------------------------------------

\* The manager knows every process it has started: a worker that runs is on its list,
\* once, or in its hand, or was left behind by a manager that was killed or interrupted;
\* and an interruption leaves behind no more than the one worker in the hand, since
\* the finally block of run_manager stops the others.
NoStray ==
    /\ \A w \in Workers : pc[w] # "down" => InPool(w) \/ w = hand \/ w \in lost
    /\ \A i, k \in 1 .. Len(pool) : pool[i] = pool[k] => i = k
    /\ mpc = "gone" => pool = <<>>
    /\ kills = 0 => Cardinality(lost) <= leaves

\* AUTOSCALE_MAX_WORKERS_PER_NODE holds for the processes that run, not only for
\* the desired number, unless --min-workers asks for more or an interrupted manager
\* has left some behind.
WithinCap ==
    Cardinality({w \in Workers \ lost : pc[w] # "down"}) <= Larger(MinWorkers, HardCap)

\* STAGE_4_STATUS.md: "worker locks and stale-lock release".  A lock whose
\* worker is no longer there is released in the end.
LocksReleased ==
    \A j \in Jobs :
        (lockedBy[j] # NoWorker /\ \A w \in Workers : cur[w] # j)
            ~> lockedBy[j] = NoWorker

=============================================================================
