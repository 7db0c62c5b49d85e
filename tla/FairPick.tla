------------------------------ MODULE FairPick ------------------------------
(***************************************************************************)
(* The order in which waiting jobs are offered to workers                  *)
(* (backend/app/services/queueing.py).  Two implementations exist: the     *)
(* Postgres statement with FOR UPDATE SKIP LOCKED and the portable Python  *)
(* pick.  Both count, per tenant, the jobs that are being processed; they  *)
(* differ in the place of the priority.                                    *)
(***************************************************************************)
EXTENDS Integers, FiniteSets

CONSTANTS
    Jobs,        \* ids of the jobs
    Tenants,     \* ids of the tenants
    TenantOf,    \* jobs.tenant_id
    Priority,    \* jobs.priority, a smaller number is more urgent
    QueuedAt,    \* jobs.queued_at
    SkipLocked   \* TRUE: Postgres with ENABLE_POSTGRES_SKIP_LOCKED

ASSUME PickAssumption ==
    /\ IsFiniteSet(Jobs)
    /\ TenantOf \in [Jobs -> Tenants]
    /\ Priority \in [Jobs -> Int]
    /\ QueuedAt \in [Jobs -> Nat]
    /\ SkipLocked \in BOOLEAN

\* Mutant: the priority comes after the time.
LatePriority(j, running) == <<running[TenantOf[j]], QueuedAt[j], Priority[j]>>

\* Mutant: no tenant is held back.
IgnoreTenants(j, running) == <<0, Priority[j], QueuedAt[j]>>

\* ORDER BY running_count, priority, queued_at of the SQL statement.
PostgresRank(j, running) == <<running[TenantOf[j]], Priority[j], QueuedAt[j]>>

\* ORDER BY priority, queued_at and then a stable sort by
\* (running_count, queued_at): the priority only breaks ties of queued_at.
PortableRank(j, running) == <<running[TenantOf[j]], QueuedAt[j], Priority[j]>>

Rank(j, running) ==
    IF SkipLocked THEN PostgresRank(j, running) ELSE PortableRank(j, running)

Precedes(a, b) ==
    \E i \in 1 .. 3 : a[i] < b[i] /\ \A k \in 1 .. (i - 1) : a[k] = b[k]

\* j may be the first row of the candidates S.
Preferred(j, S, running) ==
    /\ j \in S
    /\ \A k \in S : ~ Precedes(Rank(k, running), Rank(j, running))

=============================================================================
