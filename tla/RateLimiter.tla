---------------------------- MODULE RateLimiter ----------------------------
(***************************************************************************)
(* The sliding-window rate limiter                                         *)
(* (backend/app/middleware/production.py).  A key is a client and one of   *)
(* the two limiters: <<client, "auth">> for /auth/login, <<client,         *)
(* "default">> for the rest; /health, /metrics and /static pass without    *)
(* being counted.  A client here obeys Retry-After.                        *)
(*                                                                         *)
(* dispatch runs on the event loop and does not wait before it has its     *)
(* answer, so a request is one step.  A second has Fine units of time.     *)
(***************************************************************************)
EXTENDS Integers, Sequences, FiniteSets, FiniteSetsExt

CONSTANTS
    Clients,    \* client addresses
    Fine,       \* units of time in a second
    Window,     \* rate_limit_window_seconds, in units
    MostOf,     \* MostOf[kind]: the requests that limiter allows in a window
    LastUnit    \* bound on the time

Kinds == {"auth", "default"}
Keys == Clients \X Kinds

ASSUME LimiterAssumption ==
    /\ Fine \in Nat \ {0} /\ LastUnit \in Nat
    /\ Window \in Nat /\ Window >= Fine /\ Window % Fine = 0
    /\ MostOf \in [Kinds -> Nat \ {0}]

VARIABLES
    clock,      \* time.time()
    events,     \* _events: the times of a key that are remembered
    served,     \* all times at which a request of the key was served
    retryAt,    \* the time before which a client that was refused does not ask again
    refusals    \* refusals of the key since it was served

rlvars == <<clock, events, served, retryAt, refusals>>

RLInit ==
    /\ clock = 0
    /\ events = [k \in Keys |-> <<>>]
    /\ served = [k \in Keys |-> <<>>]
    /\ retryAt = [k \in Keys |-> 0]
    /\ refusals = [k \in Keys |-> 0]

\* The loop of allow: times before the window leave at the front.
Dropped(k) ==
    CHOOSE n \in 0 .. Len(events[k]) :
        /\ \A i \in 1 .. n : events[k][i] < clock - Window
        /\ n < Len(events[k]) => events[k][n + 1] >= clock - Window

Live(k) == SubSeq(events[k], Dropped(k) + 1, Len(events[k]))

\* Mutant: one request too many.
OverFull(k) == Len(Live(k)) > MostOf[k[2]]

Full(k) == Len(Live(k)) >= MostOf[k[2]]

\* Mutant: less than a second is rounded to nothing.
WholeSeconds(k) == (Live(k)[1] + Window - clock) \div Fine

\* Retry-After: full seconds until the oldest time leaves, one at least.
RetryAfter(k) == Max({1, (Live(k)[1] + Window - clock) \div Fine})

\* SlidingWindowRateLimiter.allow, as dispatch calls it.
Allow(k) ==
    /\ clock >= retryAt[k]
    /\ ~ Full(k)
    /\ events' = [events EXCEPT ![k] = Append(Live(k), clock)]
    /\ served' = [served EXCEPT ![k] = Append(@, clock)]
    /\ refusals' = [refusals EXCEPT ![k] = 0]
    /\ retryAt' = [retryAt EXCEPT ![k] = 0]
    /\ UNCHANGED clock

Refuse(k) ==
    /\ clock >= retryAt[k]
    /\ Full(k)
    /\ events' = [events EXCEPT ![k] = Live(k)]
    /\ retryAt' = [retryAt EXCEPT ![k] = clock + Fine * RetryAfter(k)]
    /\ refusals' = [refusals EXCEPT ![k] = @ + 1]
    /\ UNCHANGED <<clock, served>>

ClockTicks ==
    /\ clock < LastUnit
    /\ clock' = clock + 1
    /\ UNCHANGED <<events, served, retryAt, refusals>>

RLNext == ClockTicks \/ \E k \in Keys : Allow(k) \/ Refuse(k)

RLSpec == RLInit /\ [][RLNext]_rlvars

-----------------------------------------------------------------------------

\* No window, wherever it begins, holds more served requests of a key than its
\* limiter allows, whatever the limiter has forgotten in the meantime.
WindowRespected ==
    \A k \in Keys : \A i \in DOMAIN served[k] :
        Cardinality({j \in DOMAIN served[k] :
            served[k][j] \in served[k][i] .. served[k][i] + Window}) <= MostOf[k[2]]

\* A client that is alone on its key and waits as Retry-After says is served at
\* its second retry at the latest.  (The first may come too early: the seconds are
\* rounded down, and a time exactly one window old still counts.)
RetryIsServed == \A k \in Keys : refusals[k] <= 2

=============================================================================
