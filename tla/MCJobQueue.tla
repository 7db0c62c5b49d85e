----------------------------- MODULE MCJobQueue -----------------------------
(* Instances of JobQueue for TLC.                                          *)
EXTENDS JobQueue, TLC

CONSTANTS j1, j2, j3, t1, t2

\* One job of one tenant.
OneTenantOf == (j1 :> t1)
OnePriority == (j1 :> 100)
OneQueuedAt == (j1 :> 0)

\* Two jobs of one tenant, the later one more urgent, and one of another tenant.
ThreeTenantOf == (j1 :> t1 @@ j2 :> t1 @@ j3 :> t2)
ThreePriority == (j1 :> 100 @@ j2 :> 10 @@ j3 :> 100)
ThreeQueuedAt == (j1 :> 0 @@ j2 :> 1 @@ j3 :> 2)

\* A bound: once the third job is there, no attempt has failed.
NoFailureOfThree == status[j3] # "absent" => \A j \in Jobs : retryCount[j] = 0

WorkerSymmetry == Permutations(Workers)

=============================================================================
