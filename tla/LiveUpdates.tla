---------------------------- MODULE LiveUpdates ----------------------------
(***************************************************************************)
(* The updates of a tenant over its socket (backend/app/api/routes_ws.py). *)
(* A payload is built by one query for each status, one after another, and *)
(* jobs are submitted and move between them: each query sees what is       *)
(* committed when it runs.                                                 *)
(***************************************************************************)
EXTENDS Integers, Sequences, FiniteSets

CONSTANT TenantJobs    \* the jobs that the tenant may submit

VARIABLES
    state,    \* the status of each job, "absent" before it is submitted
    socket,   \* "closed", "open", or "building" a payload
    asked,    \* the queries of this payload that have run
    counted,  \* counted[k]: the jobs that its k-th query found
    recent,   \* the statuses when it asks for its list of recent jobs
    moved,    \* jobs that were submitted or have moved since its first query
    behind    \* those that were submitted or have moved to an earlier status

luvars == <<state, socket, asked, counted, recent, moved, behind>>

\* The statuses in the order in which they are queried.
QueryOrder == <<"queued", "processing", "retry_wait", "completed", "failed", "dead_letter">>

Position(s) == CHOOSE k \in DOMAIN QueryOrder : QueryOrder[k] = s

NoCounts == [k \in DOMAIN QueryOrder |-> {}]

LUInit ==
    /\ state = [j \in TenantJobs |-> "absent"]
    /\ socket = "closed" /\ asked = 0 /\ counted = NoCounts
    /\ recent = <<>> /\ moved = {} /\ behind = {}

\* tenant_ws: the token is looked up once; without a user the socket is closed.
Connect ==
    /\ socket = "closed"
    /\ socket' = "open"
    /\ UNCHANGED <<state, asked, counted, recent, moved, behind>>

\* Every two seconds a payload is begun.
BeginPayload ==
    /\ socket = "open"
    /\ socket' = "building"
    /\ asked' = 0 /\ counted' = NoCounts /\ recent' = <<>>
    /\ UNCHANGED <<state, moved, behind>>

\* What the k-th query of _build_payload finds.
FoundBy(k) == {j \in TenantJobs : state[j] = QueryOrder[k]}

\* Mutant: the queries run in the opposite order.
LastToFirst == Len(QueryOrder) - asked

\* The query that is next.
Query == asked + 1

CountNext ==
    /\ socket = "building" /\ asked < Len(QueryOrder)
    /\ asked' = asked + 1
    /\ counted' = [counted EXCEPT ![Query] = FoundBy(Query)]
    /\ moved' = IF asked = 0 THEN {} ELSE moved
    /\ behind' = IF asked = 0 THEN {} ELSE behind
    /\ UNCHANGED <<state, socket, recent>>

\* The count of online workers and the list of recent jobs come last; the payload
\* is sent.
SendPayload ==
    /\ socket = "building" /\ asked = Len(QueryOrder)
    /\ recent' = state
    /\ socket' = "open"
    /\ UNCHANGED <<state, asked, counted, moved, behind>>

\* WebSocketDisconnect.
Disconnect ==
    /\ socket # "closed"
    /\ socket' = "closed"
    /\ UNCHANGED <<state, asked, counted, recent, moved, behind>>

\* create_job_for_file, in another request.
SubmitJob(j) ==
    /\ state[j] = "absent"
    /\ state' = [state EXCEPT ![j] = "queued"]
    /\ moved' = moved \cup {j} /\ behind' = behind \cup {j}
    /\ UNCHANGED <<socket, asked, counted, recent>>

\* The moves of JobQueue.  A queued job is claimed; after that a release as stale, a
\* failure, an end, a failure after the end, and the writes of a worker that has lost
\* its lock take it from any of these statuses to any other one.
Begun == {"processing", "retry_wait", "completed", "dead_letter"}
Moves == {<<"queued", "processing">>} \cup {m \in Begun \X Begun : m[1] # m[2]}

Move(j) ==
    /\ \E m \in Moves : m[1] = state[j] /\ state' = [state EXCEPT ![j] = m[2]]
    /\ moved' = moved \cup {j}
    /\ behind' = IF Position(state'[j]) < Position(state[j]) THEN behind \cup {j} ELSE behind
    /\ UNCHANGED <<socket, asked, counted, recent>>

LUNext ==
    \/ Connect \/ BeginPayload \/ CountNext \/ SendPayload \/ Disconnect
    \/ \E j \in TenantJobs : SubmitJob(j) \/ Move(j)

LUSpec == LUInit /\ [][LUNext]_luvars

-----------------------------------------------------------------------------

CountsOf(j) == {k \in DOMAIN QueryOrder : j \in counted[k]}

\* The numbers of a payload need not add up: a job that moves on while they are
\* counted may be counted twice, and one that is submitted in between is in the list
\* and in no count.  But of the jobs that were there at the first query one is missing
\* only if it has moved back since then, as from retry_wait to processing, and one
\* that has not moved is counted exactly once, as the status the list finds.
NoneMissed ==
    recent # <<>> =>
        \A j \in TenantJobs :
            recent[j] # "absent" =>
                /\ j \in behind \/ CountsOf(j) # {}
                /\ j \in moved \/ CountsOf(j) = {Position(recent[j])}

=============================================================================
