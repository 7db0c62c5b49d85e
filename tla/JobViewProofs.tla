--------------------------- MODULE JobViewProofs ---------------------------
(***************************************************************************)
(* Proofs about JobView, for any number of jobs, versions, user actions    *)
(* and failures.                                                           *)
(***************************************************************************)
EXTENDS JobView, TLAPS

\* What taking one request off the open ones leaves.
LEMMA Removed ==
    ASSUME NEW S, NEW s \in Seq(S), NEW i \in DOMAIN s
    PROVE  /\ RemoveAt(s, i) \in Seq(S)
           /\ Len(RemoveAt(s, i)) = Len(s) - 1
           /\ \A k \in DOMAIN RemoveAt(s, i) :
                 /\ k \in DOMAIN s
                 /\ k + 1 \in DOMAIN s
                 /\ RemoveAt(s, i)[k] = IF k < i THEN s[k] ELSE s[k + 1]
<1> DEFINE before == SubSeq(s, 1, i - 1)
           after  == SubSeq(s, i + 1, Len(s))
<1>1. /\ i \in 1 .. Len(s)
      /\ Len(s) \in Nat
  OBVIOUS
<1>2. /\ before \in Seq(S)
      /\ Len(before) = i - 1
      /\ \A k \in 1 .. i - 1 : before[k] = s[k]
  BY <1>1
<1>3. /\ after \in Seq(S)
      /\ Len(after) = Len(s) - i
      /\ \A k \in 1 .. Len(s) - i : after[k] = s[k + i]
  BY <1>1
<1>4. RemoveAt(s, i) = before \o after
  BY DEF RemoveAt
<1> HIDE DEF before, after
<1>5. /\ before \o after \in Seq(S)
      /\ Len(before \o after) = Len(s) - 1
  BY <1>1, <1>2, <1>3
<1>6. ASSUME NEW k \in 1 .. Len(s) - 1
      PROVE  (before \o after)[k] = IF k < i THEN s[k] ELSE s[k + 1]
  <2>1. CASE k < i
    <3>1. k \in 1 .. i - 1
      BY <2>1, <1>1
    <3>2. (before \o after)[k] = before[k]
      BY <3>1, <1>1, <1>2, <1>3
    <3> QED
      BY <2>1, <3>1, <3>2, <1>2
  <2>2. CASE k >= i
    <3>1. (before \o after)[k] = after[k - (i - 1)]
      <4>1. k \in Len(before) + 1 .. Len(before) + Len(after)
        <5>1. Len(before) = i - 1 /\ Len(after) = Len(s) - i
          BY <1>2, <1>3
        <5>2. k \in (i - 1) + 1 .. (i - 1) + (Len(s) - i)
          BY <2>2, <1>1
        <5> QED
          BY <5>1, <5>2
      <4>2. \A n \in Len(before) + 1 .. Len(before) + Len(after) :
               (before \o after)[n] = after[n - Len(before)]
        <5>1. before \in Seq(S) /\ after \in Seq(S)
          BY <1>2, <1>3
        <5> QED
          BY <5>1
      <4>3. Len(before) = i - 1
        BY <1>2
      <4> QED
        BY <4>1, <4>2, <4>3
    <3>2. k - (i - 1) \in 1 .. Len(s) - i /\ k - (i - 1) + i = k + 1
      <4>1. i \in Int /\ k \in Int /\ Len(s) \in Int /\ k <= Len(s) - 1 /\ i <= k
        BY <2>2, <1>1
      <4> QED
        BY <4>1
    <3>3. after[k - (i - 1)] = s[k - (i - 1) + i]
      BY <3>2, <1>3
    <3>4. ~ (k < i)
      BY <2>2, <1>1
    <3> QED
      BY <3>1, <3>2, <3>3, <3>4
  <2>3. k < i \/ k >= i
    BY <1>1
  <2> QED
    BY <2>1, <2>2, <2>3
<1>7. DOMAIN (before \o after) = 1 .. Len(s) - 1
  BY <1>5
<1>8. \A k \in 1 .. Len(s) - 1 : k \in DOMAIN s /\ k + 1 \in DOMAIN s
  BY <1>1
<1> QED
  BY <1>4, <1>5, <1>6, <1>7, <1>8

\* The fields of an open request.
LEMMA Fields ==
    ASSUME NEW m \in Requests
    PROVE  /\ m.kind \in {"poll", "select", "sync", "list", "upload"}
           /\ m.kind # "list" => m.job \in Jobs
           /\ m.up \in Jobs \cup {NoJob}
           /\ m.ver \in 0 .. Final
           /\ m.kind \in {"list", "upload"} => m.ver \in {0, 1}
BY ViewAssumption DEF Requests

\* Every request that is sent is one of Requests.
LEMMA Sent ==
    ASSUME NEW j \in Jobs, NEW u \in Jobs \cup {NoJob}
    PROVE  /\ \A kind \in {"poll", "select", "sync"} : Ask(kind, j, u) \in Requests
           /\ Ask("upload", j, j) \in Requests
BY ViewAssumption DEF Requests, Ask

\* So is the request of loadJobs.
LEMMA ListSent ==
    ASSUME NEW u \in Jobs \cup {NoJob}
    PROVE  Ask("list", NoJob, u) \in Requests
BY ViewAssumption DEF Requests, Ask

\* An answer is a value of its request's type.
LEMMA AnswerType ==
    ASSUME VTypeOK, NEW m \in Requests
    PROVE  [m EXCEPT !.ver = Answer(m)] \in Requests
<1>1. CASE m.kind \in {"list", "upload"}
  BY <1>1 DEF Answer, Requests
<1>2. CASE m.kind \in {"poll", "select", "sync"}
  <2>1. m \in [kind : {"poll", "select", "sync"}, job : Jobs,
               up : Jobs \cup {NoJob}, ver : 0 .. Final]
    BY <1>2 DEF Requests
  <2>2. Answer(m) \in 0 .. Final
    BY <1>2, <2>1 DEF Answer, VTypeOK
  <2> QED
    BY <2>1, <2>2 DEF Requests
<1> QED
  BY <1>1, <1>2, Fields

\* createJobByUpload ends with a well-formed request.
LEMMA FollowUp ==
    ASSUME NEW u \in Jobs \cup {NoJob}
    PROVE  ThenUploaded(u) \in Seq(Requests)
BY Sent DEF ThenUploaded

\* loadJobs goes on with well-formed requests.
LEMMA ResyncType ==
    ASSUME VTypeOK, NEW u \in Jobs \cup {NoJob}
    PROVE  Resync(u) \subseteq Seq(Requests)
<1>1. CASE sel.job = NoJob
  BY <1>1, FollowUp DEF Resync
<1>2. CASE sel.job # NoJob
  <2>1. sel.job \in Jobs
    BY <1>2 DEF VTypeOK, Nothing
  <2>2. Ask("sync", sel.job, u) \in Requests
    BY <2>1, Sent
  <2> QED
    BY <1>2, <2>2, FollowUp DEF Resync
<1> QED
  BY <1>1, <1>2

-----------------------------------------------------------------------------

\* The first states are well-formed, with no timer and no flag.
LEMMA ViewInit == VInit => VTypeOK /\ NoIdlePolling /\ FlagIsLive
<1> SUFFICES ASSUME VInit
             PROVE  VTypeOK /\ NoIdlePolling /\ FlagIsLive
  OBVIOUS
<1>1. {0, 1} \subseteq 0 .. Final
  BY ViewAssumption
<1>2. srv \in [Jobs -> 0 .. Final]
  BY <1>1 DEF VInit
<1>3. net \in Seq(Requests)
  BY DEF VInit
<1>4. timer = FALSE /\ inflight = FALSE
  BY DEF VInit
<1>5. NoIdlePolling /\ FlagIsLive
  BY <1>4 DEF NoIdlePolling, FlagIsLive
<1>6. sel = Nothing /\ acts \in 0 .. MaxActs /\ fails \in 0 .. MaxFails
  BY ViewAssumption DEF VInit
<1> QED
  BY <1>2, <1>3, <1>4, <1>5, <1>6 DEF VTypeOK

\* Every step keeps the types.
LEMMA ViewType == VTypeOK /\ [VNext]_vvars => VTypeOK'
<1> SUFFICES ASSUME VTypeOK, [VNext]_vvars
             PROVE  VTypeOK'
  OBVIOUS
<1> USE ViewAssumption
<1>1. CASE Refresh
  BY <1>1, ListSent DEF Refresh, Acting, VTypeOK
<1>2. CASE Reload
  <2>1. net' \in Seq(Requests)
    BY <1>2 DEF Reload
  <2>2. timer' \in BOOLEAN /\ inflight' \in BOOLEAN
    BY <1>2 DEF Reload
  <2>3. acts' \in 0 .. MaxActs
    BY <1>2 DEF Reload, Acting, VTypeOK
  <2>4. sel' = Nothing /\ UNCHANGED <<srv, fails>>
    BY <1>2 DEF Reload
  <2> QED
    BY <2>1, <2>2, <2>3, <2>4 DEF VTypeOK
<1>3. ASSUME NEW j \in Jobs, Click(j)
      PROVE  VTypeOK'
  BY <1>3, Sent DEF Click, Acting, VTypeOK
<1>4. ASSUME NEW j \in Jobs, Upload(j)
      PROVE  VTypeOK'
  BY <1>4, Sent DEF Upload, Acting, VTypeOK
<1>5. CASE PollTick
  <2>1. sel.job \in Jobs
    BY <1>5 DEF PollTick, VTypeOK, Nothing
  <2>2. Ask("poll", sel.job, NoJob) \in Requests
    BY <2>1, Sent
  <2>3. net' \in Seq(Requests)
    <3>1. net \in Seq(Requests)
      BY DEF VTypeOK
    <3>2. net' \in {net, Append(net, Ask("poll", sel.job, NoJob))}
      BY <1>5 DEF PollTick
    <3> QED
      BY <2>2, <3>1, <3>2
  <2>4. timer' \in BOOLEAN /\ inflight' \in BOOLEAN
    BY <1>5 DEF PollTick, VTypeOK
  <2> QED
    BY <1>5, <2>3, <2>4 DEF PollTick, VTypeOK
<1>6. ASSUME NEW j \in Jobs, Progress(j)
      PROVE  VTypeOK'
  BY <1>6 DEF Progress, VTypeOK
<1>7. ASSUME NEW i \in DOMAIN net, Serve(i)
      PROVE  VTypeOK'
  <2>1. net[i] \in Requests /\ net \in Seq(Requests)
    BY DEF VTypeOK
  <2>2. net' = [net EXCEPT ![i] = [net[i] EXCEPT !.ver = Answer(net[i])]]
    BY <1>7 DEF Serve
  <2>3. net' \in Seq(Requests)
    BY <2>1, <2>2, AnswerType
  <2>4. srv' \in [Jobs -> 0 .. Final]
    <3>1. 1 \in 0 .. Final
      OBVIOUS
    <3> QED
      BY <1>7, <3>1 DEF Serve, VTypeOK
  <2> QED
    BY <1>7, <2>3, <2>4 DEF Serve, VTypeOK
<1>8. ASSUME NEW i \in DOMAIN net
      PROVE  /\ net[i] \in Requests
             /\ Others(i) \in Seq(Requests)
  BY Removed DEF Others, VTypeOK
<1>9. ASSUME NEW i \in DOMAIN net, Fail(i)
      PROVE  VTypeOK'
  <2>1. inflight' \in BOOLEAN
    BY <1>9 DEF Fail, FlagAfter, VTypeOK
  <2>2. fails' \in 0 .. MaxFails
    BY <1>9 DEF Fail, VTypeOK
  <2> QED
    BY <1>8, <1>9, <2>1, <2>2 DEF Fail, VTypeOK
<1>10. ASSUME NEW i \in DOMAIN net, UploadDone(i)
       PROVE  VTypeOK'
  <2>1. net[i].up \in Jobs \cup {NoJob}
    BY <1>8, Fields
  <2>2. Ask("list", NoJob, net[i].up) \in Requests
    BY <2>1, ListSent
  <2> QED
    BY <1>8, <1>10, <2>2 DEF UploadDone, VTypeOK
<1>11. ASSUME NEW i \in DOMAIN net, ListDone(i)
       PROVE  VTypeOK'
  <2>1. net[i].up \in Jobs \cup {NoJob}
    BY <1>8, Fields
  <2>2. Resync(net[i].up) \subseteq Seq(Requests)
    BY <2>1, ResyncType
  <2>3. net' \in Seq(Requests)
    BY <1>8, <1>11, <2>2 DEF ListDone
  <2> QED
    BY <1>11, <2>3 DEF ListDone, VTypeOK
<1>12. ASSUME NEW i \in DOMAIN net, SelectDone(i)
       PROVE  VTypeOK'
  <2>1. /\ net[i].up \in Jobs \cup {NoJob}
        /\ net[i].job \in Jobs
        /\ net[i].ver \in 1 .. Final
    BY <1>8, <1>12, Fields DEF SelectDone, Arrived
  <2>2. net' \in Seq(Requests)
    BY <1>8, <1>12, <2>1, FollowUp DEF SelectDone
  <2> QED
    BY <1>12, <2>1, <2>2 DEF SelectDone, VTypeOK
<1>13. ASSUME NEW i \in DOMAIN net, PollDone(i)
       PROVE  VTypeOK'
  <2>1. net[i].job \in Jobs /\ net[i].ver \in 1 .. Final
    BY <1>8, <1>13, Fields DEF PollDone, Arrived
  <2> QED
    BY <1>8, <1>13, <2>1 DEF PollDone, FlagAfter, TimerAfter, VTypeOK
<1>14. CASE UNCHANGED vvars
  BY <1>14 DEF vvars, VTypeOK
<1> QED
  BY <1>1, <1>2, <1>3, <1>4, <1>5, <1>6, <1>7, <1>9, <1>10, <1>11, <1>12, <1>13, <1>14
  DEF VNext, User, Deliver

\* Rows, the selection and every open request keep their types.
THEOREM ViewTypeCorrect == VSpec => []VTypeOK
BY ViewInit, ViewType, PTL DEF VSpec

-----------------------------------------------------------------------------

\* Where the selection, the timer and the flag can change.
LEMMA Touches ==
    ASSUME [VNext]_vvars
    PROVE  \/ UNCHANGED <<sel, timer, inflight>>
           \/ Reload
           \/ PollTick
           \/ \E i \in DOMAIN net : Fail(i) \/ SelectDone(i) \/ PollDone(i)
BY DEF VNext, User, Deliver, vvars, Refresh, Click, Upload, Progress, Serve, UploadDone,
       ListDone

\* Every step keeps the timer off a terminal row.
LEMMA IdleStep == VTypeOK /\ NoIdlePolling /\ [VNext]_vvars => NoIdlePolling'
<1> SUFFICES ASSUME VTypeOK, NoIdlePolling, [VNext]_vvars, timer'
             PROVE  sel'.job # NoJob /\ sel'.ver < Final
  BY DEF NoIdlePolling
<1>1. CASE UNCHANGED <<sel, timer, inflight>>
  BY <1>1 DEF NoIdlePolling
<1>2. CASE Reload
  BY <1>2 DEF Reload
<1>3. CASE PollTick
  <2>1. timer /\ sel' = sel
    BY <1>3 DEF PollTick
  <2> QED
    BY <2>1 DEF NoIdlePolling
<1>4. ASSUME NEW i \in DOMAIN net, Fail(i)
      PROVE  sel'.job # NoJob /\ sel'.ver < Final
  <2>1. timer /\ sel' = sel
    BY <1>4 DEF Fail
  <2> QED
    BY <2>1 DEF NoIdlePolling
<1>5. ASSUME NEW i \in DOMAIN net, SelectDone(i)
      PROVE  sel'.job # NoJob /\ sel'.ver < Final
  <2>1. net[i] \in Requests /\ net[i].kind # "list"
    BY <1>5 DEF SelectDone, Arrived, VTypeOK
  <2>2. net[i].ver # Final
    BY <1>5 DEF SelectDone, Ended
  <2>3. net[i].job \in Jobs /\ net[i].ver \in 0 .. Final
    BY <2>1, Fields
  <2>4. sel'.job = net[i].job /\ sel'.ver = net[i].ver
    BY <1>5 DEF SelectDone
  <2> QED
    BY <2>2, <2>3, <2>4, ViewAssumption
<1>6. ASSUME NEW i \in DOMAIN net, PollDone(i)
      PROVE  sel'.job # NoJob /\ sel'.ver < Final
  <2>1. timer /\ (net[i].job = sel.job => net[i].ver # Final)
    BY <1>6 DEF PollDone, TimerAfter, IsForSelected, Ended
  <2>2. sel.job # NoJob /\ sel.ver < Final
    BY <2>1 DEF NoIdlePolling
  <2>3. CASE net[i].job = sel.job
    <3>1. net[i].ver \in 0 .. Final
      BY Fields DEF VTypeOK
    <3>2. sel'.job = net[i].job /\ sel'.ver = net[i].ver
      BY <1>6, <2>3 DEF PollDone, IsForSelected
    <3> QED
      BY <2>1, <2>2, <2>3, <3>1, <3>2, ViewAssumption
  <2>4. CASE net[i].job # sel.job
    BY <1>6, <2>2, <2>4 DEF PollDone, IsForSelected
  <2> QED
    BY <2>3, <2>4
<1> QED
  BY <1>1, <1>2, <1>3, <1>4, <1>5, <1>6, Touches

\* The timer stops with the terminal row, in whatever order answers arrive.
THEOREM PollingEnds == VSpec => []NoIdlePolling
<1>1. VInit => VTypeOK /\ NoIdlePolling
  BY ViewInit
<1>2. VTypeOK /\ NoIdlePolling /\ [VNext]_vvars => VTypeOK' /\ NoIdlePolling'
  BY ViewType, IdleStep
<1> QED
  BY <1>1, <1>2, PTL DEF VSpec

-----------------------------------------------------------------------------

\* A poll that is not the one taken off is still there.
LEMMA StillOpen ==
    ASSUME VTypeOK, NEW i \in DOMAIN net, NEW k \in DOMAIN net, k # i
    PROVE  \E n \in DOMAIN Others(i) : Others(i)[n] = net[k]
<1>1. net \in Seq(Requests)
  BY DEF VTypeOK
<1>2. /\ Others(i) \in Seq(Requests)
      /\ Len(Others(i)) = Len(net) - 1
      /\ \A n \in DOMAIN Others(i) : Others(i)[n] = IF n < i THEN net[n] ELSE net[n + 1]
  BY <1>1, Removed DEF Others
<1>3. i \in 1 .. Len(net) /\ k \in 1 .. Len(net) /\ Len(net) \in Nat
  BY <1>1
<1>4. DOMAIN Others(i) = 1 .. Len(net) - 1
  BY <1>2
<1>5. CASE k < i
  <2>1. k \in DOMAIN Others(i)
    BY <1>3, <1>4, <1>5
  <2> QED
    BY <1>2, <1>5, <2>1
<1>6. CASE i < k
  <2>1. k - 1 \in DOMAIN Others(i)
    BY <1>3, <1>4, <1>6
  <2>2. ~ (k - 1 < i) /\ (k - 1) + 1 = k
    BY <1>3, <1>6
  <2> QED
    BY <1>2, <2>1, <2>2
<1> QED
  BY <1>3, <1>5, <1>6

\* What is still open stays open when more is sent.
LEMMA SentLater ==
    ASSUME NEW s \in Seq(Requests), NEW t \in Seq(Requests)
    PROVE  \A n \in DOMAIN s : n \in DOMAIN (s \o t) /\ (s \o t)[n] = s[n]
OBVIOUS

PollOpen(s) == \E n \in DOMAIN s : s[n].kind = "poll"

\* Neither sending more nor the end of another request closes a poll.
LEMMA PollStays ==
    ASSUME VTypeOK, PollOpen(net)
    PROVE  /\ \A m \in Requests : PollOpen(Append(net, m))
           /\ \A i \in DOMAIN net, t \in Seq(Requests) :
                 net[i].kind # "poll" =>
                     PollOpen(Others(i)) /\ PollOpen(Others(i) \o t)
<1>1. net \in Seq(Requests)
  BY DEF VTypeOK
<1>2. PICK k \in DOMAIN net : net[k].kind = "poll"
  BY DEF PollOpen
<1>3. ASSUME NEW m \in Requests
      PROVE  PollOpen(Append(net, m))
  <2>1. k \in DOMAIN Append(net, m) /\ Append(net, m)[k] = net[k]
    BY <1>1
  <2> QED
    BY <1>2, <2>1 DEF PollOpen
<1>4. ASSUME NEW i \in DOMAIN net, NEW t \in Seq(Requests), net[i].kind # "poll"
      PROVE  PollOpen(Others(i)) /\ PollOpen(Others(i) \o t)
  <2>1. PICK n \in DOMAIN Others(i) : Others(i)[n] = net[k]
    BY <1>2, <1>4, StillOpen
  <2>2. Others(i) \in Seq(Requests)
    BY <1>1, Removed DEF Others
  <2>3. n \in DOMAIN (Others(i) \o t) /\ (Others(i) \o t)[n] = net[k]
    BY <2>1, <2>2, SentLater
  <2> QED
    BY <1>2, <2>1, <2>3 DEF PollOpen
<1> QED
  BY <1>3, <1>4

\* Every step keeps a poll open for a set flag.
LEMMA FlagStep == VTypeOK /\ FlagIsLive /\ [VNext]_vvars => FlagIsLive'
<1> SUFFICES ASSUME VTypeOK, FlagIsLive, [VNext]_vvars, inflight'
             PROVE  PollOpen(net')
  BY DEF FlagIsLive, PollOpen
<1>1. net \in Seq(Requests) /\ (inflight => PollOpen(net))
  BY DEF VTypeOK, FlagIsLive, PollOpen
<1>2. CASE Refresh
  BY <1>1, <1>2, PollStays, ListSent DEF Refresh
<1>3. CASE Reload
  BY <1>3 DEF Reload
<1>4. ASSUME NEW j \in Jobs, Click(j)
      PROVE  PollOpen(net')
  BY <1>1, <1>4, PollStays, Sent DEF Click
<1>5. ASSUME NEW j \in Jobs, Upload(j)
      PROVE  PollOpen(net')
  BY <1>1, <1>5, PollStays, Sent DEF Upload
<1>6. CASE PollTick
  <2>1. CASE Ended(sel.ver)
    BY <1>1, <1>6, <2>1 DEF PollTick
  <2>2. CASE ~ Ended(sel.ver)
    <3>1. net' = Append(net, Ask("poll", sel.job, NoJob))
      BY <1>6, <2>2 DEF PollTick
    <3>2. Len(net) + 1 \in DOMAIN net' /\ net'[Len(net) + 1] = Ask("poll", sel.job, NoJob)
      BY <1>1, <3>1
    <3> QED
      BY <3>2 DEF PollOpen, Ask
  <2> QED
    BY <2>1, <2>2
<1>7. ASSUME NEW j \in Jobs, Progress(j)
      PROVE  PollOpen(net')
  BY <1>1, <1>7 DEF Progress
<1>8. ASSUME NEW i \in DOMAIN net, Serve(i)
      PROVE  PollOpen(net')
  <2>1. PICK k \in DOMAIN net : net[k].kind = "poll"
    BY <1>1, <1>8 DEF Serve, PollOpen
  <2>2. net' = [net EXCEPT ![i] = [net[i] EXCEPT !.ver = Answer(net[i])]]
    BY <1>8 DEF Serve
  <2>3. net[i] \in Requests
    BY <1>1
  <2>4. [net[i] EXCEPT !.ver = Answer(net[i])].kind = net[i].kind
    BY <2>3 DEF Requests
  <2>5. k \in DOMAIN net' /\ net'[k].kind = "poll"
    BY <1>1, <2>1, <2>2, <2>4
  <2> QED
    BY <2>5 DEF PollOpen
<1>9. ASSUME NEW i \in DOMAIN net, Fail(i)
      PROVE  PollOpen(net')
  <2>1. net[i].kind # "poll" /\ inflight
    BY <1>9 DEF Fail, FlagAfter
  <2> QED
    BY <1>1, <1>9, <2>1, PollStays DEF Fail
<1>10. ASSUME NEW i \in DOMAIN net, UploadDone(i) \/ ListDone(i)
       PROVE  PollOpen(net')
  <2>1. inflight /\ net[i].kind # "poll"
    BY <1>10 DEF UploadDone, ListDone, Arrived
  <2>2. PICK t : net' = Others(i) \o t /\ t \in Seq(Requests)
    <3>1. Others(i) \in Seq(Requests) /\ net[i] \in Requests
      BY <1>1, Removed DEF Others
    <3>2. net[i].up \in Jobs \cup {NoJob}
      BY <3>1, Fields
    <3>3. CASE UploadDone(i)
      <4>1. Ask("list", NoJob, net[i].up) \in Requests
        BY <3>2, ListSent
      <4>2. Append(Others(i), Ask("list", NoJob, net[i].up))
              = Others(i) \o <<Ask("list", NoJob, net[i].up)>>
        BY <3>1, <4>1
      <4>3. net' = Others(i) \o <<Ask("list", NoJob, net[i].up)>>
        BY <3>3, <4>2 DEF UploadDone
      <4>4. <<Ask("list", NoJob, net[i].up)>> \in Seq(Requests)
        BY <4>1
      <4> QED
        BY <4>3, <4>4
    <3>4. CASE ListDone(i)
      BY <3>2, <3>4, ResyncType DEF ListDone
    <3> QED
      BY <1>10, <3>3, <3>4
  <2> QED
    BY <1>1, <2>1, <2>2, PollStays
<1>11. ASSUME NEW i \in DOMAIN net, SelectDone(i)
       PROVE  PollOpen(net')
  BY <1>11 DEF SelectDone
<1>12. ASSUME NEW i \in DOMAIN net, PollDone(i)
       PROVE  PollOpen(net')
  BY <1>12 DEF PollDone, Arrived, FlagAfter
<1>13. CASE UNCHANGED vvars
  BY <1>1, <1>13 DEF vvars
<1> QED
  BY <1>2, <1>3, <1>4, <1>5, <1>6, <1>7, <1>8, <1>9, <1>10, <1>11, <1>12, <1>13
  DEF VNext, User, Deliver

\* Polling never blocks itself: a set flag has an open poll whose end resets it.
THEOREM PollingGoesOn == VSpec => []FlagIsLive
<1>1. VInit => VTypeOK /\ FlagIsLive
  BY ViewInit
<1>2. VTypeOK /\ FlagIsLive /\ [VNext]_vvars => VTypeOK' /\ FlagIsLive'
  BY ViewType, FlagStep
<1> QED
  BY <1>1, <1>2, PTL DEF VSpec

\* Only an answered selection of a job puts it on the screen, in whatever order
\* answers arrive.
THEOREM SelectionIsKept == VSpec => OnlyAskedFor
<1> DEFINE Asked == sel'.job \notin {sel.job, NoJob} =>
                        \E i \in DOMAIN net :
                            net[i].kind \in {"select", "sync"} /\ net[i].job = sel'.job
<1>1. [VNext]_vvars => [Asked]_vvars
  <2> SUFFICES ASSUME [VNext]_vvars
               PROVE  Asked
    OBVIOUS
  <2>1. CASE UNCHANGED <<sel, timer, inflight>>
    BY <2>1
  <2>2. CASE Reload
    BY <2>2 DEF Reload, Nothing
  <2>3. CASE PollTick
    BY <2>3 DEF PollTick
  <2>4. ASSUME NEW i \in DOMAIN net, Fail(i)
        PROVE  Asked
    BY <2>4 DEF Fail
  <2>5. ASSUME NEW i \in DOMAIN net, SelectDone(i)
        PROVE  Asked
    BY <2>5 DEF SelectDone, Arrived
  <2>6. ASSUME NEW i \in DOMAIN net, PollDone(i)
        PROVE  Asked
    <3>1. sel'.job = sel.job
      BY <2>6 DEF PollDone, IsForSelected
    <3> QED
      BY <3>1
  <2> QED
    BY <2>1, <2>2, <2>3, <2>4, <2>5, <2>6, Touches
<1> QED
  BY <1>1, PTL DEF VSpec, OnlyAskedFor

-----------------------------------------------------------------------------
(* The watch on an open row.                                               *)

\* A poll of the selected job brings a row that is not terminal after a selection has
\* shown the terminal one.
OvertakenPoll ==
    \E i \in DOMAIN net :
        PollDone(i) /\ IsForSelected(net[i]) /\ Ended(sel.ver) /\ ~ Ended(net[i].ver)

LEMMA WatchStep ==
    VTypeOK /\ WatchedWhileOpen /\ [VNext]_vvars /\ [~ OvertakenPoll]_vvars => WatchedWhileOpen'
<1> SUFFICES ASSUME VTypeOK, WatchedWhileOpen, [VNext]_vvars, [~ OvertakenPoll]_vvars,
                    sel'.job # NoJob, sel'.ver < Final
             PROVE  timer'
  BY DEF WatchedWhileOpen
<1>1. CASE UNCHANGED <<sel, timer, inflight>>
  BY <1>1 DEF WatchedWhileOpen
<1>2. CASE Reload
  BY <1>2 DEF Reload, Nothing
<1>3. CASE PollTick
  <2>1. sel' = sel
    BY <1>3 DEF PollTick
  <2>2. ~ Ended(sel.ver)
    BY <2>1, ViewAssumption DEF Ended
  <2> QED
    BY <1>3, <2>2, Zenon DEF PollTick
<1>4. ASSUME NEW i \in DOMAIN net, Fail(i)
      PROVE  timer'
  BY <1>4 DEF Fail, WatchedWhileOpen
<1>5. ASSUME NEW i \in DOMAIN net, SelectDone(i)
      PROVE  timer'
  <2>1. sel'.ver = net[i].ver
    BY <1>5 DEF SelectDone
  <2>2. ~ Ended(net[i].ver)
    BY <2>1, ViewAssumption DEF Ended
  <2> QED
    BY <1>5, <2>2, Zenon DEF SelectDone
<1>6. ASSUME NEW i \in DOMAIN net, PollDone(i)
      PROVE  timer'
  <2>1. timer' = (timer /\ (IsForSelected(net[i]) => ~ Ended(net[i].ver)))
    BY <1>6 DEF PollDone, TimerAfter
  <2>2. CASE ~ IsForSelected(net[i])
    <3>1. sel' = sel
      BY <1>6, <2>2 DEF PollDone
    <3> QED
      BY <2>1, <2>2, <3>1 DEF WatchedWhileOpen
  <2>3. CASE IsForSelected(net[i])
    <3>1. sel'.job = net[i].job /\ sel'.ver = net[i].ver /\ net[i].job = sel.job
      BY <1>6, <2>3 DEF PollDone, IsForSelected
    <3>2. ~ Ended(net[i].ver)
      BY <3>1, ViewAssumption DEF Ended
    <3>3. ~ Ended(sel.ver)
      <4>1. CASE ~ OvertakenPoll
        BY <1>6, <2>3, <3>2, <4>1 DEF OvertakenPoll
      <4>2. CASE UNCHANGED vvars
        <5>1. sel' = sel
          BY <4>2 DEF vvars
        <5> QED
          BY <5>1, ViewAssumption DEF Ended
      <4> QED
        BY <4>1, <4>2
    <3>4. sel.ver < Final
      <4>1. sel.ver \in 0 .. Final
        BY ViewAssumption DEF VTypeOK, Nothing
      <4> QED
        BY <3>3, <4>1, ViewAssumption DEF Ended
    <3> QED
      BY <2>1, <3>1, <3>2, <3>4 DEF WatchedWhileOpen
  <2> QED
    BY <2>2, <2>3
<1> QED
  BY <1>1, <1>2, <1>3, <1>4, <1>5, <1>6, Touches

\* In whatever order answers are computed and arrive, and whatever fails: the only way
\* by which an unfinished row on the screen loses its timer is a poll that a selection
\* of the same job has overtaken (pollSelectedJobOnce uses any answer for it).  Without
\* such a poll an unfinished row is always watched.
THEOREM OpenIsWatched == VSpec /\ [][~ OvertakenPoll]_vvars => []WatchedWhileOpen
<1>1. VInit => WatchedWhileOpen
  BY DEF VInit, WatchedWhileOpen, Nothing
<1> QED
  BY <1>1, WatchStep, ViewTypeCorrect, PTL DEF VSpec

=============================================================================
