---------------------------- MODULE JobContract ----------------------------
(***************************************************************************)
(* What the queue and the workers promise together about a job, without    *)
(* locks, heartbeats, time or transactions: it waits, one worker at a time *)
(* works on it, an attempt ends by publishing the transcript of that       *)
(* worker, by a failure that is counted, or by being given back uncounted; *)
(* after MaxRetries counted retries a failure is final.  A published       *)
(* transcript is final once its worker has let go of the job: until then   *)
(* that worker, and no other, may still take it back as a failure.         *)
(***************************************************************************)
EXTENDS Integers

CONSTANTS Jobs, Workers, NoWorker, MaxRetries

VARIABLES
    state,     \* of a job: "new", "waiting", "running", "done", "dead"
    owner,     \* the worker that runs it, or has published it and not let go
    failures,  \* counted failures
    result     \* whose transcript a done job shows

cvars == <<state, owner, failures, result>>

Init ==
    /\ state = [j \in Jobs |-> "new"]
    /\ owner = [j \in Jobs |-> NoWorker]
    /\ failures = [j \in Jobs |-> 0]
    /\ result = [j \in Jobs |-> NoWorker]

Submit(j) ==
    /\ state[j] = "new"
    /\ state' = [state EXCEPT ![j] = "waiting"]
    /\ UNCHANGED <<owner, failures, result>>

Start(j, w) ==
    /\ state[j] = "waiting"
    /\ state' = [state EXCEPT ![j] = "running"]
    /\ owner' = [owner EXCEPT ![j] = w]
    /\ UNCHANGED <<failures, result>>

Publish(j) ==
    /\ state[j] = "running"
    /\ state' = [state EXCEPT ![j] = "done"]
    /\ result' = [result EXCEPT ![j] = owner[j]]
    /\ UNCHANGED <<owner, failures>>

LetGo(j) ==
    /\ state[j] = "done"
    /\ owner[j] # NoWorker
    /\ owner' = [owner EXCEPT ![j] = NoWorker]
    /\ UNCHANGED <<state, failures, result>>

\* Of a running job, or of one that was published a moment ago.
Fail(j) ==
    /\ owner[j] # NoWorker
    /\ failures' = [failures EXCEPT ![j] = @ + 1]
    /\ state' = [state EXCEPT ![j] = IF failures[j] < MaxRetries THEN "waiting"
                                                                 ELSE "dead"]
    /\ owner' = [owner EXCEPT ![j] = NoWorker]
    /\ result' = [result EXCEPT ![j] = NoWorker]

\* Jobs whose owners are gone wait again.
GiveBack(S) ==
    /\ \A j \in S : state[j] = "running"
    /\ state' = [j \in Jobs |-> IF j \in S THEN "waiting" ELSE state[j]]
    /\ owner' = [j \in Jobs |-> IF j \in S THEN NoWorker ELSE owner[j]]
    /\ UNCHANGED <<failures, result>>

Next ==
    \/ \E j \in Jobs : Submit(j) \/ Publish(j) \/ LetGo(j) \/ Fail(j)
    \/ \E j \in Jobs, w \in Workers : Start(j, w)
    \/ \E S \in SUBSET Jobs : GiveBack(S)

Spec == Init /\ [][Next]_cvars

=============================================================================
