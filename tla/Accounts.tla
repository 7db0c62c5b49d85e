------------------------------ MODULE Accounts ------------------------------
(***************************************************************************)
(* Tenants, their first users and their tokens (backend/app/security.py,   *)
(* api/routes_auth.py, api/deps.py): requests to create the first tenant   *)
(* that overlap, log-ins, log-outs and tokens that expire.  A request is   *)
(* given by what it asks for, [name, secret]; secret stands for the e-mail *)
(* address and the password.                                               *)
(***************************************************************************)
EXTENDS Integers, Tables

CONSTANTS
    Bootstraps,   \* requests to bootstrap
    Wanted,       \* Wanted[b]: the name and the secret of a request
    Trimmed,      \* Trimmed[n]: the name without the blanks around it
    RawTokens,      \* raw tokens, which are never used twice
    TokenTtl,     \* token_ttl_hours
    LastHour      \* bound on the time

ASSUME AccountsAssumption ==
    /\ TokenTtl \in Nat \ {0} /\ LastHour \in Nat
    /\ \A b \in Bootstraps : Trimmed[Trimmed[Wanted[b].name]] = Trimmed[Wanted[b].name]

VARIABLES
    hour,       \* the time
    secrets,    \* the tenants by name, each with the secret of its user
    asks,       \* bootstrap requests: "unsent", "checked", "completed", "refused", "failed"
    issued,     \* the rows api_tokens: [name, until, revoked]
    leftBy      \* tokens whose holder has logged out

acvars == <<hour, secrets, asks, issued, leftBy>>

ACInit ==
    /\ hour = 0
    /\ secrets = <<>> /\ issued = <<>>
    /\ asks = [b \in Bootstraps |-> "unsent"]
    /\ leftBy = {}

\* The first query of bootstrap: is there a user?
CheckNoUsers(b) ==
    /\ asks[b] = "unsent"
    /\ asks' = [asks EXCEPT ![b] = IF secrets = <<>> THEN "checked" ELSE "refused"]
    /\ UNCHANGED <<hour, secrets, issued, leftBy>>

\* Mutant: a tenant of that name is taken over.
AnyName(name) == TRUE

\* tenants.name is unique.
NameIsFree(name) == name \notin DOMAIN secrets

\* The rest of bootstrap, one transaction: tenant and user are inserted, or the
\* name is taken and both are rolled back.
CreateTenant(b) ==
    /\ asks[b] = "checked"
    /\ LET w == Wanted[b]
       IN  IF NameIsFree(w.name)
           THEN /\ secrets' = Put(secrets, w.name, w.secret)
                /\ asks' = [asks EXCEPT ![b] = "completed"]
           ELSE asks' = [asks EXCEPT ![b] = "failed"] /\ UNCHANGED secrets
    /\ UNCHANGED <<hour, issued, leftBy>>

\* The tenant that a log-in with this name and secret finds.
LogsInAs(name, secret) ==
    {n \in DOMAIN secrets : n = Trimmed[name] /\ secrets[n] = secret}

\* issue_access_token.
NewToken(n) == [name |-> n, until |-> hour + TokenTtl, revoked |-> FALSE]

\* login.
Login(b, t) ==
    /\ t \notin DOMAIN issued
    /\ \E n \in LogsInAs(Wanted[b].name, Wanted[b].secret) :
          issued' = Put(issued, t, NewToken(n))
    /\ UNCHANGED <<hour, secrets, asks, leftBy>>

\* revoke_token: this token only, which may be revoked or expired already.
Revoked(t) == [issued EXCEPT ![t].revoked = TRUE]

\* logout.
Logout(t) ==
    /\ t \in DOMAIN issued
    /\ issued' = Revoked(t)
    /\ leftBy' = leftBy \cup {t}
    /\ UNCHANGED <<hour, secrets, asks>>

HourPasses ==
    /\ hour < LastHour
    /\ hour' = hour + 1
    /\ UNCHANGED <<secrets, asks, issued, leftBy>>

\* resolve_token_user, with which every request and every socket begins.
Resolves(t) == t \in DOMAIN issued /\ ~ issued[t].revoked /\ issued[t].until > hour

ACNext ==
    \/ \E b \in Bootstraps : CheckNoUsers(b) \/ CreateTenant(b)
    \/ \E b \in Bootstraps, t \in RawTokens : Login(b, t)
    \/ \E t \in RawTokens : Logout(t)
    \/ HourPasses

ACSpec == ACInit /\ [][ACNext]_acvars

-----------------------------------------------------------------------------

CompletedCanLogIn ==
    \A b \in Bootstraps :
        asks[b] = "completed" /\ Wanted[b].name = Trimmed[Wanted[b].name] =>
            LogsInAs(Wanted[b].name, Wanted[b].secret) = {Wanted[b].name}

SessionsLast ==
    \A t \in DOMAIN issued :
        Resolves(t) <=> t \notin leftBy /\ hour < issued[t].until

\* Bootstraps may overlap, and then more than one may be answered "completed": each
\* that is, with a name without blanks around it (the client trims them), can log
\* in to its own tenant, and a session ends by its own log-out or time only.
AccountsUsable == CompletedCanLogIn /\ SessionsLast

=============================================================================
