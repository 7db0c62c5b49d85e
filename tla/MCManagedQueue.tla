--------------------------- MODULE MCManagedQueue ---------------------------
(* Instances of ManagedQueue for TLC.                                      *)
EXTENDS ManagedQueue, TLC

CONSTANTS j1, j2, t1

OneTenantOf == (j1 :> t1)
OnePriority == (j1 :> 100)
OneQueuedAt == (j1 :> 0)

\* Two jobs of one tenant, queued one after the other.
TwoTenantOf == (j1 :> t1 @@ j2 :> t1)
TwoPriority == (j1 :> 100 @@ j2 :> 100)
TwoQueuedAt == (j1 :> 0 @@ j2 :> 1)

\* A bound: one worker crashes, or the manager is interrupted or killed once.
OneTrouble == stops + leaves + kills <= 1

WorkerSymmetry == Permutations(Workers)

=============================================================================
