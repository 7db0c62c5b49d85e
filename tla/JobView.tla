------------------------------ MODULE JobView ------------------------------
(***************************************************************************)
(* The browser client (app.js): the selected job, the timer that polls it  *)
(* and the requests that are under way.  The server answers GET /jobs/{id} *)
(* with the row as it is then; the answer is used when it arrives.         *)
(*                                                                         *)
(* A job's row goes through the versions 1, ..., Final, of which the last   *)
(* is a terminal one (JobQueue is the server's side); version 0 says that  *)
(* the job was not uploaded yet.  A row that a failure after its end takes *)
(* out of the terminal version again is left out: the page has stopped its *)
(* timer there, and shows the job as ended until it is selected again.     *)
(***************************************************************************)
EXTENDS Naturals, SequencesExt

CONSTANTS
    Jobs,      \* the jobs of the tenant
    NoJob,     \* nothing selected, or no upload
    Final,      \* the terminal version of a row
    InOrder,   \* answers are computed and arrive in the order of the requests
    MaxActs,   \* bound on what the user does
    MaxFails   \* bound on requests that fail

ASSUME ViewAssumption ==
    /\ NoJob \notin Jobs
    /\ Final \in Nat \ {0}
    /\ InOrder \in BOOLEAN
    /\ MaxActs \in Nat
    /\ MaxFails \in Nat

VARIABLES
    srv,       \* the version of each row
    sel,       \* state.selectedJob: the job and the version shown
    timer,     \* state.selectedJobPollTimer is set
    inflight,  \* state.selectedJobPollInFlight
    net,       \* the open requests, in the order in which they were sent
    acts,      \* what the user has done so far
    fails      \* requests that have failed so far

vvars == <<srv, sel, timer, inflight, net, acts, fails>>

Nothing == [job |-> NoJob, ver |-> 0]

\* "sync" is the selectJob of loadJobs, "select" any other.  up is the job of the
\* upload whose handler waits for the request, ver the answer (0: none yet).
Requests ==
    [kind : {"poll", "select", "sync"}, job : Jobs, up : Jobs \cup {NoJob}, ver : 0 .. Final]
        \cup [kind : {"list"}, job : {NoJob}, up : Jobs \cup {NoJob}, ver : {0, 1}]
        \cup [kind : {"upload"}, job : Jobs, up : Jobs, ver : {0, 1}]

VTypeOK ==
    /\ srv \in [Jobs -> 0 .. Final]
    /\ sel \in [job : Jobs, ver : 1 .. Final] \cup {Nothing}
    /\ timer \in BOOLEAN
    /\ inflight \in BOOLEAN
    /\ net \in Seq(Requests)
    /\ acts \in 0 .. MaxActs
    /\ fails \in 0 .. MaxFails

VInit ==
    /\ srv \in [Jobs -> {0, 1}]
    /\ sel = Nothing
    /\ timer = FALSE
    /\ inflight = FALSE
    /\ net = <<>>
    /\ acts = 0
    /\ fails = 0

Ask(kind, job, up) == [kind |-> kind, job |-> job, up |-> up, ver |-> 0]

\* Mutant: a row counts as terminal while it is still processed.
EndedEarly(v) == v + 1 >= Final

\* isTerminalStatus.
Ended(v) == v = Final

\* The upload button is disabled until the handler has returned.
Uploading == \E i \in DOMAIN net : net[i].up # NoJob

-----------------------------------------------------------------------------
(* The user.                                                               *)

Acting == acts < MaxActs /\ acts' = acts + 1

\* A click on a job of the list: selectJob up to its await.
Click(j) ==
    /\ Acting
    /\ srv[j] > 0
    /\ net' = Append(net, Ask("select", j, NoJob))
    /\ UNCHANGED <<srv, sel, timer, inflight, fails>>

\* refreshAll and the date filter: loadJobs up to its await.
Refresh ==
    /\ Acting
    /\ net' = Append(net, Ask("list", NoJob, NoJob))
    /\ UNCHANGED <<srv, sel, timer, inflight, fails>>

\* createJobByUpload up to its first await.
Upload(j) ==
    /\ Acting
    /\ srv[j] = 0
    /\ ~ Uploading
    /\ net' = Append(net, Ask("upload", j, j))
    /\ UNCHANGED <<srv, sel, timer, inflight, fails>>

\* logout, or a reload by hand: the page starts anew and sees no old answer.
Reload ==
    /\ Acting
    /\ sel' = Nothing
    /\ timer' = FALSE
    /\ inflight' = FALSE
    /\ net' = <<>>
    /\ UNCHANGED <<srv, fails>>

-----------------------------------------------------------------------------
(* The server and the network.                                             *)

\* The workers change a row.
Progress(j) ==
    /\ srv[j] \in 1 .. Final - 1
    /\ srv' = [srv EXCEPT ![j] = @ + 1]
    /\ UNCHANGED <<sel, timer, inflight, net, acts, fails>>

Answer(m) == IF m.kind \in {"list", "upload"} THEN 1 ELSE srv[m.job]

Serve(i) ==
    /\ net[i].ver = 0
    /\ InOrder => \A k \in 1 .. i - 1 : net[k].ver # 0
    /\ net' = [net EXCEPT ![i].ver = Answer(net[i])]
    /\ srv' = IF net[i].kind = "upload" THEN [srv EXCEPT ![net[i].job] = 1] ELSE srv
    /\ UNCHANGED <<sel, timer, inflight, acts, fails>>

Arrived(i, kinds) ==
    /\ net[i].kind \in kinds
    /\ net[i].ver # 0
    /\ InOrder => i = 1

Others(i) == RemoveAt(net, i)

\* Mutant: a failed poll leaves the flag set (no finally).
FlagStays(m) == inflight

\* The finally of pollSelectedJobOnce.
FlagAfter(m) == IF m.kind = "poll" THEN FALSE ELSE inflight

\* A request fails, before or after the server has done its part: the handler
\* ends at its await.
Fail(i) ==
    /\ fails < MaxFails
    /\ fails' = fails + 1
    /\ net' = Others(i)
    /\ inflight' = FlagAfter(net[i])
    /\ UNCHANGED <<srv, sel, timer, acts>>

-----------------------------------------------------------------------------
(* Handlers, from the await that an answer ends to the next await.         *)

UploadDone(i) ==
    /\ Arrived(i, {"upload"})
    /\ net' = Append(Others(i), Ask("list", NoJob, net[i].up))
    /\ UNCHANGED <<srv, sel, timer, inflight, acts, fails>>

\* The last await of createJobByUpload.
ThenUploaded(up) == IF up = NoJob THEN <<>> ELSE <<Ask("select", up, up)>>

\* Mutant: no test that a job is selected.
SyncAlways(up) == {<<Ask("sync", sel.job, up)>>}

\* loadJobs selects the selected job again when it is in the list; a date filter
\* may have taken it out.
Resync(up) ==
    {ThenUploaded(up)} \cup
        IF sel.job = NoJob THEN {} ELSE {<<Ask("sync", sel.job, up)>>}

ListDone(i) ==
    /\ Arrived(i, {"list"})
    /\ \E next \in Resync(net[i].up) : net' = Others(i) \o next
    /\ UNCHANGED <<srv, sel, timer, inflight, acts, fails>>

\* selectJob after its await, with startSelectedJobPolling.
SelectDone(i) ==
    /\ Arrived(i, {"select", "sync"})
    /\ sel' = [job |-> net[i].job, ver |-> net[i].ver]
    /\ timer' = ~ Ended(net[i].ver)
    /\ inflight' = FALSE
    /\ net' = Others(i) \o
                 IF net[i].kind = "sync" THEN ThenUploaded(net[i].up) ELSE <<>>
    /\ UNCHANGED <<srv, acts, fails>>

\* The interval of startSelectedJobPolling and pollSelectedJobOnce up to its await.
PollTick ==
    /\ timer
    /\ ~ inflight
    /\ sel.job # NoJob
    /\ IF Ended(sel.ver)
       THEN timer' = FALSE /\ UNCHANGED <<inflight, net>>
       ELSE /\ inflight' = TRUE
            /\ net' = Append(net, Ask("poll", sel.job, NoJob))
            /\ UNCHANGED timer
    /\ UNCHANGED <<srv, sel, acts, fails>>

\* Mutant: the answer is not compared with the selection.
AnyAnswer(m) == TRUE

IsForSelected(m) == m.job = sel.job

\* Mutant: the timer is left running after the last answer.
KeepsRunning(m) == timer

TimerAfter(m) == timer /\ (IsForSelected(m) => ~ Ended(m.ver))

\* pollSelectedJobOnce after its await.
PollDone(i) ==
    /\ Arrived(i, {"poll"})
    /\ sel' = IF IsForSelected(net[i])
              THEN [job |-> net[i].job, ver |-> net[i].ver] ELSE sel
    /\ timer' = TimerAfter(net[i])
    /\ inflight' = FlagAfter(net[i])
    /\ net' = Others(i)
    /\ UNCHANGED <<srv, acts, fails>>

Deliver(i) == UploadDone(i) \/ ListDone(i) \/ SelectDone(i) \/ PollDone(i)

User == Refresh \/ Reload \/ \E j \in Jobs : Click(j) \/ Upload(j)

VNext ==
    \/ User
    \/ PollTick
    \/ \E j \in Jobs : Progress(j)
    \/ \E i \in DOMAIN net : Serve(i) \/ Deliver(i) \/ Fail(i)

VSpec == VInit /\ [][VNext]_vvars

\* The server answers, answers arrive, and the interval fires.
VFairSpec ==
    /\ VSpec
    /\ WF_vvars(\E i \in DOMAIN net : Serve(i))
    /\ WF_vvars(\E i \in DOMAIN net : Deliver(i))
    /\ WF_vvars(PollTick)

-----------------------------------------------------------------------------

\* As long as the row shown is not terminal, the timer that will bring the next
\* one is set, whatever was selected, refreshed or lost in between.
WatchedWhileOpen == sel.job # NoJob /\ sel.ver < Final => timer

\* The timer stops with the terminal row, so pollSelectedJobOnce never meets a
\* terminal row.
NoIdlePolling == timer => sel.job # NoJob /\ sel.ver < Final

\* The flag that holds back further polls is set only while a poll is open whose
\* end will reset it: polling cannot block itself.
FlagIsLive == inflight => \E i \in DOMAIN net : net[i].kind = "poll"

\* Another job is shown only as the answer to a selection of that job, never
\* because of a poll of the job that was selected before.
OnlyAskedFor ==
    [][sel'.job \notin {sel.job, NoJob} =>
          \E i \in DOMAIN net :
              net[i].kind \in {"select", "sync"} /\ net[i].job = sel'.job]_vvars

\* TRANSCRIPTION_SYSTEM_MASTER_PLAN_HE.md: progress of the transcription in real
\* time.  When the selected job is finished, the view shows it in the end, or
\* another job was selected.
FollowsToEnd ==
    \A j \in Jobs :
        (sel.job = j /\ srv[j] = Final) ~> (sel.job # j \/ sel.ver = Final)

=============================================================================
