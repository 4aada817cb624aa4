---------------------------- MODULE BulkTaskProofs ----------------------------
(***************************************************************************)
(* Proofs about BulkTask, for every set of URLs, every list, every size of *)
(* the window and every mix of outcomes.                                   *)
(***************************************************************************)
EXTENDS BulkTask, TLAPS, FiniteSetTheorems, SequenceTheorems

\* job_id_map leads from every position to a position that holds the same URL.
MapOK ==
  /\ \A u \in Urls : lastOf[u] # 0 =>
        lastOf[u] \in Positions /\ pending[lastOf[u]] = u
  /\ \A i \in Positions : lastOf[pending[i]] # 0

LEMMA JobOfPosition ==
  ASSUME TypeOK, MapOK, NEW i \in Positions
  PROVE  JobOf(i) \in Mapped
BY DEF TypeOK, MapOK, JobOf, Mapped, Positions

LEMMA FunctionIsSeq ==
  ASSUME NEW S, NEW n \in Nat, NEW f \in [1..n -> S]
  PROVE  f \in Seq(S) /\ Len(f) = n
BY SeqDef

\* The rows a task adds, one for each position of its list.
LEMMA NewJobs ==
  ASSUME TypeOK
  PROVE  LET new == [i \in Positions |-> NewJob(pending[i])]
         IN  new \in Seq(Job) /\ Len(new) = Len(pending)
<1> DEFINE new == [i \in Positions |-> NewJob(pending[i])]
<1>1. Len(pending) \in Nat /\ \A i \in Positions : pending[i] \in Urls
  BY DEF TypeOK, Positions
<1>2. \A i \in Positions : NewJob(pending[i]) \in Job
  BY <1>1 DEF NewJob, Job, JobStatus
<1>3. new \in [1..Len(pending) -> Job]
  BY <1>2 DEF Positions
<1> QED BY <1>1, <1>3, FunctionIsSeq

\* An assignment to any index, inside the sequence or not, keeps its type.
LEMMA ExceptIsSeq ==
  ASSUME NEW S, NEW seq \in Seq(S), NEW i, NEW e \in S
  PROVE  [seq EXCEPT ![i] = e] \in Seq(S) /\ Len([seq EXCEPT ![i] = e]) = Len(seq)
<1>1. seq \in [1..Len(seq) -> S] /\ Len(seq) \in Nat
  BY LenProperties
<1>2. [seq EXCEPT ![i] = e] \in [1..Len(seq) -> S]
  BY <1>1
<1> QED BY <1>1, <1>2, FunctionIsSeq

LEMMA SettledJobType ==
  ASSUME NEW job \in Job, NEW status \in JobStatus
  PROVE  [job EXCEPT !.status = status] \in Job
BY DEF Job

LEMMA InitType == Init => TypeOK /\ MapOK
<1> SUFFICES ASSUME Init PROVE TypeOK /\ MapOK
  OBVIOUS
<1> USE SitesAssumption, RunsAssumption DEF Init
<1>1. TypeOK
  <2>1. sites \in [Urls -> Site]
    OBVIOUS
  <2>2. lastOf \in [Urls -> Nat] /\ scanned \in 0..Len(input)
    OBVIOUS
  <2>3. runs \in 0..MaxRuns
    OBVIOUS
  <2>4. /\ jobs \in Seq(Job) /\ input \in Seq(Urls) /\ pending \in Seq(Urls)
        /\ thread \in Seq(ThreadState)
        /\ outcome \in Seq(AllOutcomes \cup {"none", "skipped"})
    OBVIOUS
  <2>5. /\ active \subseteq Positions /\ ready \subseteq Positions
        /\ results \subseteq Positions
        /\ success \subseteq Positions /\ failure \subseteq Positions
    OBVIOUS
  <2>6. /\ pc \in ControlState /\ base \in Nat /\ next \in Nat \ {0}
    BY DEF ControlState, Idle
  <2>7. force \in BOOLEAN /\ event \in BOOLEAN
    BY Zenon
  <2> HIDE DEF Init
  <2> QED BY <2>1, <2>2, <2>3, <2>4, <2>5, <2>6, <2>7 DEF TypeOK
<1>2. MapOK
  BY DEF MapOK, Positions
<1> QED BY <1>1, <1>2

LEMMA RowType ==
  ASSUME NEW site \in Site, NEW o \in AllOutcomes
  PROVE  SitesAfter(site, o) \subseteq Site
<1>1. \A st \in {"ok", "unreachable", "blocked", "failure", NULL} :
         Mark(site, st) \in Site
  BY DEF Site, Mark
<1>2. Saved("ok", "llm") \in Site /\ Saved("blocked", "llm") \in Site
  BY DEF Site, Saved
<1> QED BY <1>1, <1>2 DEF SitesAfter, AllOutcomes

LEMMA StatusType ==
  ASSUME TypeOK, NEW ps, NEW status \in JobStatus
  PROVE  /\ SetStatus(ps, status) \in Seq(Job)
         /\ Len(SetStatus(ps, status)) = Len(jobs)
<1>1. jobs \in Seq(Job) /\ DOMAIN jobs = 1..Len(jobs)
  BY DEF TypeOK
<1>2. \A j \in DOMAIN jobs : jobs[j] \in Job /\ [jobs[j] EXCEPT !.status = status] \in Job
  <2> TAKE j \in DOMAIN jobs
  <2>1. jobs[j] \in Job
    BY <1>1
  <2> QED BY <2>1, SettledJobType
<1>3. SetStatus(ps, status) \in [1..Len(jobs) -> Job]
  BY <1>1, <1>2 DEF SetStatus
<1> QED BY <1>1, <1>3, FunctionIsSeq

LEMMA NextType == TypeOK /\ MapOK /\ [Next]_vars => TypeOK' /\ MapOK'
<1> SUFFICES ASSUME TypeOK, MapOK, [Next]_vars PROVE TypeOK' /\ MapOK'
  OBVIOUS
<1> USE DEF ControlState, Idle, Positions, task, pool, tally
<1>1. ASSUME NEW list \in Inputs, NEW forced \in BOOLEAN, Receive(list, forced)
      PROVE  TypeOK' /\ MapOK'
  <2>1. list \in Seq(Urls) /\ runs' \in 0..MaxRuns
    BY <1>1, UrlsAssumption, RunsAssumption DEF Receive, TypeOK
  <2>3. Len(jobs) \in Nat /\ 0 \in 0..Len(list) /\ Len(list) \in Nat
    BY <2>1 DEF TypeOK
  <2>4. lastOf' \in [Urls -> Nat]
    BY <1>1 DEF Receive
  <2>5. /\ pending' \in Seq(Urls) /\ thread' \in Seq(ThreadState)
        /\ outcome' \in Seq(AllOutcomes \cup {"none", "skipped"})
    BY <1>1, EmptySeq DEF Receive
  <2>7. force' \in BOOLEAN /\ event' \in BOOLEAN
    BY <1>1, Zenon DEF Receive
  <2>8. /\ pc' \in ControlState /\ base' \in Nat /\ next' \in Nat \ {0}
        /\ input' \in Seq(Urls) /\ scanned' \in 0..Len(input')
        /\ sites' \in [Urls -> Site] /\ jobs' \in Seq(Job)
    BY <1>1, <2>1, <2>3 DEF Receive, TypeOK
  <2>9. /\ active' \subseteq Positions' /\ ready' \subseteq Positions'
        /\ results' \subseteq Positions'
        /\ success' \subseteq Positions' /\ failure' \subseteq Positions'
    BY <1>1 DEF Receive
  <2>6. TypeOK'
    BY <2>1, <2>4, <2>5, <2>7, <2>8, <2>9 DEF TypeOK
  <2>2. MapOK'
    BY <1>1 DEF Receive, MapOK
  <2> QED BY <2>2, <2>6
<1>2. CASE ScanUrl
  <2> DEFINE u == input[scanned + 1]
  <2>1. u \in Urls
    BY <1>2 DEF ScanUrl, TypeOK
  <2>2. CASE ~force /\ TtlCheckRaises(sites[u], AwareTimestamps)
    BY <1>2, <2>2 DEF ScanUrl, TypeOK, MapOK
  <2>3. CASE ~(~force /\ TtlCheckRaises(sites[u], AwareTimestamps))
             /\ ~(force \/ NeedsAnalysis(sites[u]))
    <3>1. /\ scanned' = scanned + 1 /\ scanned < Len(input)
          /\ UNCHANGED <<pending, lastOf, pc, sites, jobs, runs, input, force, base, pool, tally>>
      BY <1>2, <2>3 DEF ScanUrl
    <3>2. scanned' \in 0..Len(input)
      BY <3>1 DEF TypeOK
    <3>3. TypeOK'
      BY <3>1, <3>2 DEF TypeOK
    <3>4. MapOK'
      BY <3>1 DEF MapOK
    <3> QED BY <3>3, <3>4
  <2>4. CASE ~(~force /\ TtlCheckRaises(sites[u], AwareTimestamps))
             /\ (force \/ NeedsAnalysis(sites[u]))
    <3>1. /\ pending' = Append(pending, u)
          /\ lastOf' = [lastOf EXCEPT ![u] = Len(pending) + 1]
          /\ scanned' = scanned + 1
          /\ UNCHANGED <<sites, jobs, runs, pc, input, force, base, pool, tally>>
      BY <1>2, <2>4 DEF ScanUrl
    <3>2. /\ pending' \in Seq(Urls) /\ Len(pending') = Len(pending) + 1
          /\ \A i \in 1..Len(pending) : pending'[i] = pending[i]
          /\ pending'[Len(pending) + 1] = u
      BY <3>1, <2>1 DEF TypeOK
    <3>5. Len(pending) \in Nat /\ Positions \subseteq Positions'
      BY <3>1, <3>2 DEF TypeOK
    <3>6. scanned' \in 0..Len(input') /\ lastOf' \in [Urls -> Nat]
      BY <1>2, <3>1, <3>5 DEF ScanUrl, TypeOK
    <3>7. /\ active' \subseteq Positions' /\ ready' \subseteq Positions'
          /\ results' \subseteq Positions'
          /\ success' \subseteq Positions' /\ failure' \subseteq Positions'
      BY <3>1, <3>5 DEF TypeOK
    <3>3. TypeOK'
      BY <3>1, <3>2, <3>6, <3>7 DEF TypeOK
    <3>8. ASSUME NEW w \in Urls, lastOf'[w] # 0
          PROVE  lastOf'[w] \in Positions' /\ pending'[lastOf'[w]] = w
      <4>1. CASE w = u
        <5>1. lastOf'[w] = Len(pending) + 1
          BY <3>1, <4>1 DEF TypeOK
        <5> QED BY <5>1, <4>1, <3>2, <3>5
      <4>2. CASE w # u
        <5>1. lastOf'[w] = lastOf[w]
          BY <3>1, <4>2 DEF TypeOK
        <5>2. lastOf[w] \in Positions /\ pending[lastOf[w]] = w
          BY <3>8, <5>1 DEF MapOK
        <5> QED BY <5>1, <5>2, <3>2, <3>5
      <4> QED BY <4>1, <4>2
    <3>9. ASSUME NEW i \in Positions' PROVE lastOf'[pending'[i]] # 0
      <4>1. CASE i \in Positions
        <5>1. pending'[i] = pending[i] /\ pending[i] \in Urls /\ lastOf[pending[i]] # 0
          <6>1. i \in 1..Len(pending)
            BY <4>1
          <6>2. pending'[i] = pending[i]
            BY <6>1, <3>2
          <6>3. pending[i] \in Urls /\ lastOf[pending[i]] # 0
            BY <6>1 DEF TypeOK, MapOK
          <6> QED BY <6>2, <6>3
        <5> QED BY <5>1, <3>1, <3>5 DEF TypeOK
      <4>2. CASE i \notin Positions
        <5>1. i = Len(pending) + 1
          BY <3>2, <3>5, <4>2
        <5>2. pending'[i] = u
          BY <5>1, <3>2
        <5> QED BY <5>2, <3>1, <3>5, <2>1 DEF TypeOK
      <4> QED BY <4>1, <4>2
    <3>4. MapOK'
      BY <3>8, <3>9 DEF MapOK
    <3> QED BY <3>3, <3>4
  <2> QED BY <2>2, <2>3, <2>4
<1>3. CASE CreateJobs
  <2> DEFINE new == [i \in Positions |-> NewJob(pending[i])]
  <2>0. Len(pending) \in Nat /\ \A i \in Positions : pending[i] \in Urls
    BY DEF TypeOK
  <2>1. new \in Seq(Job)
    BY NewJobs
  <2>2. jobs' \in Seq(Job)
    BY <1>3, <2>1 DEF CreateJobs, TypeOK
  <2>3. thread' \in Seq(ThreadState)
    <3>1. thread' \in [1..Len(pending) -> ThreadState]
      BY <1>3 DEF CreateJobs, ThreadState
    <3> QED BY <2>0, <3>1, FunctionIsSeq
  <2>5. outcome' \in Seq(AllOutcomes \cup {"none", "skipped"})
    <3>1. outcome' \in [1..Len(pending) -> AllOutcomes \cup {"none", "skipped"}]
      BY <1>3 DEF CreateJobs
    <3> QED BY <2>0, <3>1, FunctionIsSeq
  <2>6. TypeOK'
    BY <1>3, <2>2, <2>3, <2>5 DEF CreateJobs, TypeOK
  <2>4. MapOK'
    BY <1>3 DEF CreateJobs, MapOK
  <2> QED BY <2>4, <2>6
<1>4. CASE MarkProcessing
  <2>1. jobs' \in Seq(Job)
    BY <1>4, StatusType DEF MarkProcessing, JobStatus
  <2> QED BY <1>4, <2>1 DEF MarkProcessing, TypeOK, MapOK
<1>5. CASE OpenWindow
  <2>0. Len(pending) \in Nat
    BY DEF TypeOK
  <2>1. thread' \in Seq(ThreadState)
    <3>1. thread' \in [1..Len(pending) -> ThreadState]
      BY <1>5 DEF OpenWindow, ThreadState
    <3> QED BY <2>0, <3>1, FunctionIsSeq
  <2>2. active' \subseteq Positions /\ next' \in Nat \ {0}
    BY <1>5, <2>0, ConcurrencyAssumption DEF OpenWindow
  <2> QED BY <1>5, <2>1, <2>2 DEF OpenWindow, TypeOK, MapOK
<1>6. CASE Wait
  BY <1>6 DEF Wait, TypeOK, MapOK
<1>7. ASSUME NEW i \in ready, Collect(i)
      PROVE  TypeOK' /\ MapOK'
  <2>1. i \in Positions /\ JobOf(i) \in Positions
    BY <1>7, JobOfPosition DEF TypeOK, Mapped
  <2>2. /\ active' \subseteq Positions /\ thread' \in Seq(ThreadState)
        /\ next' \in Nat \ {0}
    <3>1. CASE ~event /\ next \in Positions
      <4>1. [thread EXCEPT ![next] = "submitted"] \in Seq(ThreadState)
        BY ExceptIsSeq DEF TypeOK, ThreadState
      <4>2. /\ active' = (active \ {i}) \cup {next} /\ next' = next + 1
            /\ thread' = [thread EXCEPT ![next] = "submitted"]
        BY <1>7, <3>1 DEF Collect, SubmitNext
      <4> QED BY <3>1, <4>1, <4>2 DEF TypeOK
    <3>2. CASE ~(~event /\ next \in Positions)
      BY <1>7, <3>2 DEF Collect, SubmitNext, TypeOK
    <3> QED BY <3>1, <3>2
  <2>3. /\ results' \subseteq Positions /\ success' \subseteq Positions
        /\ failure' \subseteq Positions
    BY <1>7, <2>1 DEF Collect, TypeOK
  <2>4. TypeOK'
    BY <1>7, <2>2, <2>3 DEF Collect, TypeOK
  <2>5. MapOK'
    BY <1>7 DEF Collect, MapOK
  <2> QED BY <2>4, <2>5
<1>8. ASSUME NEW i \in ready, CollectFatal(i)
      PROVE  TypeOK' /\ MapOK'
  BY <1>8 DEF CollectFatal, TypeOK, MapOK
<1>9. CASE CloseWindow
  <2>1. {JobOf(i) : i \in next..Len(pending)} \subseteq Positions
    <3> SUFFICES ASSUME NEW i \in next..Len(pending) PROVE JobOf(i) \in Positions
      OBVIOUS
    <3>1. i \in Positions
      BY DEF TypeOK
    <3> QED BY <3>1, JobOfPosition DEF Mapped
  <2>3. failure' \subseteq Positions
    BY <1>9, <2>1 DEF CloseWindow, TypeOK
  <2>4. next' \in Nat \ {0}
    BY <1>9 DEF CloseWindow, TypeOK
  <2>2. TypeOK'
    BY <1>9, <2>3, <2>4 DEF CloseWindow, TypeOK
  <2> QED BY <1>9, <2>2 DEF CloseWindow, MapOK
<1>10. CASE UpdateJobs
  <2>0. jobs \in Seq(Job) /\ DOMAIN jobs = 1..Len(jobs) /\ Len(jobs) \in Nat
    BY DEF TypeOK
  <2>1. jobs' \in Seq(Job)
    <3>1. \A j \in DOMAIN jobs : /\ [jobs[j] EXCEPT !.status = "failed"] \in Job
                                /\ [jobs[j] EXCEPT !.status = "success"] \in Job
                                /\ jobs[j] \in Job
      <4> TAKE j \in DOMAIN jobs
      <4>1. jobs[j] \in Job
        BY <2>0
      <4> QED BY <4>1, SettledJobType DEF JobStatus
    <3>2. jobs' \in [1..Len(jobs) -> Job]
      BY <1>10, <2>0, <3>1 DEF UpdateJobs
    <3> QED BY <2>0, <3>2, FunctionIsSeq
  <2> QED BY <1>10, <2>1 DEF UpdateJobs, TypeOK, MapOK
<1>11. CASE WriteResults
  BY <1>11 DEF WriteResults, TypeOK, MapOK
<1>12. ASSUME NEW i \in Positions, CheckEvent(i) \/ BeginCall(i)
       PROVE  TypeOK' /\ MapOK'
  <2>1. /\ [thread EXCEPT ![i] = "finished"] \in Seq(ThreadState)
        /\ [thread EXCEPT ![i] = "cleared"] \in Seq(ThreadState)
        /\ [thread EXCEPT ![i] = "calling"] \in Seq(ThreadState)
    BY ExceptIsSeq DEF TypeOK, ThreadState
  <2>2. [outcome EXCEPT ![i] = "skipped"] \in Seq(AllOutcomes \cup {"none", "skipped"})
    BY ExceptIsSeq DEF TypeOK
  <2> QED BY <1>12, <2>1, <2>2 DEF CheckEvent, BeginCall, TypeOK, MapOK
<1>13. ASSUME NEW i \in Positions, NEW o \in Outcomes, EndCall(i, o)
       PROVE  TypeOK' /\ MapOK'
  <2>1. o \in AllOutcomes /\ pending[i] \in Urls
    BY OutcomesAssumption DEF TypeOK
  <2>2. sites' \in [Urls -> Site]
    BY <1>13, <2>1, RowType DEF EndCall, TypeOK
  <2>3. thread' \in Seq(ThreadState) /\ outcome' \in Seq(AllOutcomes \cup {"none", "skipped"})
        /\ event' \in BOOLEAN
    <3>1. /\ [thread EXCEPT ![i] = "finished"] \in Seq(ThreadState)
          /\ [thread EXCEPT ![i] = "signalled"] \in Seq(ThreadState)
      BY ExceptIsSeq DEF TypeOK, ThreadState
    <3>2. [outcome EXCEPT ![i] = o] \in Seq(AllOutcomes \cup {"none", "skipped"})
      BY <2>1, ExceptIsSeq DEF TypeOK
    <3> QED BY <1>13, <3>1, <3>2 DEF EndCall, TypeOK
  <2> QED BY <1>13, <2>2, <2>3 DEF EndCall, TypeOK, MapOK
<1>14. ASSUME NEW i \in Positions, ReturnFromQuota(i)
       PROVE  TypeOK' /\ MapOK'
  <2>1. [thread EXCEPT ![i] = "finished"] \in Seq(ThreadState)
    BY ExceptIsSeq DEF TypeOK, ThreadState
  <2> QED BY <1>14, <2>1 DEF ReturnFromQuota, TypeOK, MapOK
<1>15. CASE Interrupt
  BY <1>15 DEF Interrupt, TypeOK, MapOK
<1>16. CASE PoolShutDown
  BY <1>16 DEF PoolShutDown, TypeOK, MapOK
<1>17. CASE WorkerLost
  BY <1>17 DEF WorkerLost, TypeOK, MapOK
<1>18. ASSUME NEW u \in Urls, TtlPasses(u)
       PROVE  TypeOK' /\ MapOK'
  <2>1. sites' \in [Urls -> Site]
    BY <1>18 DEF TtlPasses, TypeOK, Site, Expired
  <2> QED BY <1>18, <2>1 DEF TtlPasses, TypeOK, MapOK
<1>19. CASE UNCHANGED vars
  BY <1>19 DEF vars, TypeOK, MapOK
<1> QED
  BY <1>1, <1>2, <1>3, <1>4, <1>5, <1>6, <1>7, <1>8, <1>9, <1>10, <1>11,
     <1>12, <1>13, <1>14, <1>15, <1>16, <1>17, <1>18, <1>19
  DEF Next, Main, Thread

LEMMA TypeAndMap == Spec => [](TypeOK /\ MapOK)
BY InitType, NextType, PTL DEF Spec

\* Every value a task works with stays in its range: in particular all three
\* maps of the task (job_id_map, success_map, failure_map) hold positions of its
\* own list only.
THEOREM TypeCorrect == Spec => []TypeOK
BY TypeAndMap, PTL

-----------------------------------------------------------------------------
(* Why no job of the map is dropped.  In the loop every URL submitted so far *)
(* is either in flight or its job is in one of the two maps, and a URL that  *)
(* was never submitted is left only to a window that is not empty or to the  *)
(* event, after which the rest of the list is put into failure_map.          *)

InTask == pc \in {"mark", "open", "dispatch", "aborting", "update", "write"}

OwnJobs == /\ pc = "scan" => Len(jobs) = base
           /\ InTask \/ pc = "done" => Len(jobs) = base + Len(pending)

OwnFutures ==
  InTask => /\ Len(pending) # 0
            /\ Len(thread) = Len(pending) /\ Len(outcome) = Len(pending)

FreshJobs ==
  InTask /\ pc # "write" => \A j \in DOMAIN jobs : j > base => ~Settled(jobs[j])

Told(i) == JobOf(i) \in success \cup failure

NothingDropped ==
  pc = "dispatch" =>
    /\ next <= Len(pending) + 1
    /\ \A i \in Positions : i < next => i \in active \/ Told(i)
    /\ event \/ next > Len(pending) \/ active # {}

AllTold == pc = "update" => \A i \in Positions : Told(i)

JobInv == /\ OwnJobs /\ OwnFutures /\ FreshJobs /\ NothingDropped /\ AllTold
          /\ MappedJobsSettled

LEMMA InitJobs == Init => JobInv
BY DEF Init, JobInv, OwnJobs, OwnFutures, FreshJobs, NothingDropped, AllTold,
       MappedJobsSettled, InTask

\* What a step that leaves the jobs and the main thread's variables alone keeps.
LEMMA FrameJobs ==
  ASSUME JobInv, UNCHANGED <<jobs, pc, pending, lastOf, base, next, active,
                             success, failure>>,
         event => event', Len(thread') = Len(thread), Len(outcome') = Len(outcome)
  PROVE  JobInv'
BY DEF JobInv, OwnJobs, OwnFutures, FreshJobs, NothingDropped, AllTold, InTask,
       MappedJobsSettled, Told, JobOf, Mapped, Positions, Settled

\* Between two tasks nothing is promised about the loop.
LEMMA EndedJobs ==
  ASSUME pc' \in {"raised", "rejected", "lost"}
  PROVE  JobInv'
BY DEF JobInv, OwnJobs, OwnFutures, FreshJobs, NothingDropped, AllTold, InTask,
       MappedJobsSettled

LEMMA NextJobs ==
  TypeOK /\ TypeOK' /\ MapOK /\ JobInv /\ [Next]_vars => JobInv'
<1> SUFFICES ASSUME TypeOK, TypeOK', MapOK, JobInv, [Next]_vars PROVE JobInv'
  OBVIOUS
<1> USE DEF task, pool, tally
<1>0. /\ Len(pending) \in Nat /\ Len(jobs) \in Nat /\ base \in Nat /\ next \in Nat \ {0}
      /\ jobs \in Seq(Job) /\ DOMAIN jobs = 1..Len(jobs)
      /\ thread \in Seq(ThreadState)
      /\ outcome \in Seq(AllOutcomes \cup {"none", "skipped"})
  BY DEF TypeOK
<1>1. ASSUME NEW list \in Inputs, NEW forced \in BOOLEAN, Receive(list, forced)
      PROVE  JobInv'
  BY <1>1 DEF Receive, JobInv, OwnJobs, OwnFutures, FreshJobs, NothingDropped,
              AllTold, InTask, MappedJobsSettled
<1>2. CASE ScanUrl
  <2>1. pc' = "rejected" \/ (pc' = "scan" /\ pc = "scan" /\ UNCHANGED <<jobs, base>>)
    BY <1>2 DEF ScanUrl
  <2>2. CASE pc' = "rejected"
    BY <2>2, EndedJobs
  <2>3. CASE pc' = "scan" /\ pc = "scan" /\ UNCHANGED <<jobs, base>>
    BY <2>3 DEF JobInv, OwnJobs, OwnFutures, FreshJobs, NothingDropped,
                AllTold, InTask, MappedJobsSettled
  <2> QED BY <2>1, <2>2, <2>3
<1>3. CASE CreateJobs
  <2> DEFINE new == [i \in Positions |-> NewJob(pending[i])]
  <2>1. new \in Seq(Job) /\ Len(new) = Len(pending)
    BY NewJobs
  <2>2. base = Len(jobs) /\ jobs' = jobs \o new /\ UNCHANGED <<pending, base, lastOf>>
    BY <1>3 DEF CreateJobs, JobInv, OwnJobs
  <2>3. Len(jobs') = base + Len(pending) /\ DOMAIN jobs' = 1..Len(jobs')
    <3> HIDE DEF new
    <3>1. Len(jobs \o new) = Len(jobs) + Len(new)
      BY <2>1, <1>0, ConcatProperties
    <3>2. Len(jobs') = base + Len(pending)
      BY <3>1, <2>1, <2>2
    <3>3. DOMAIN jobs' = 1..Len(jobs')
      BY DEF TypeOK
    <3> QED BY <3>2, <3>3
  <2>4. ASSUME NEW j \in DOMAIN jobs', j > base PROVE ~Settled(jobs'[j])
    <3> HIDE DEF new
    <3>0. j \in Len(jobs)+1 .. Len(jobs)+Len(new)
      BY <2>1, <2>2, <2>3, <2>4, <1>0
    <3>1. jobs'[j] = new[j - base] /\ j - base \in Positions
      BY <3>0, <2>1, <2>2, <1>0 DEF Positions
    <3> QED BY <3>1 DEF NewJob, Settled, new
  <2>5. Len(thread') = Len(pending) /\ Len(outcome') = Len(pending)
    BY <1>3, <1>0 DEF CreateJobs, Positions
  <2>6. \/ pc' = "done" /\ Len(pending) = 0
        \/ pc' = "mark" /\ Len(pending) # 0
    BY <1>3, EmptySeq DEF CreateJobs, TypeOK
  <2>7. CASE pc' = "done" /\ Len(pending) = 0
    BY <2>2, <2>3, <2>7 DEF JobInv, OwnJobs, OwnFutures, FreshJobs, NothingDropped,
       AllTold, InTask, MappedJobsSettled, Mapped, Positions
  <2>8. CASE pc' = "mark" /\ Len(pending) # 0
    BY <2>2, <2>3, <2>4, <2>5, <2>8 DEF JobInv, OwnJobs, OwnFutures, FreshJobs,
       NothingDropped, AllTold, InTask, MappedJobsSettled
  <2> QED BY <2>6, <2>7, <2>8
<1>4. CASE MarkProcessing
  <2>1. jobs' = SetStatus(Mapped, "processing") /\ Len(jobs') = Len(jobs)
    BY <1>4, StatusType DEF MarkProcessing, JobStatus
  <2>2. jobs' \in Seq(Job) /\ DOMAIN jobs' = DOMAIN jobs
    BY <2>1, <1>0 DEF TypeOK
  <2>3. \A j \in DOMAIN jobs : j > base => ~Settled(jobs[j])
    BY <1>4 DEF MarkProcessing, JobInv, FreshJobs, InTask
  <2>4. \A j \in DOMAIN jobs' : j > base => ~Settled(jobs'[j])
    <3> TAKE j \in DOMAIN jobs'
    <3>1. CASE j - base \in Mapped
      <4>1. jobs'[j].status = "processing"
        BY <2>1, <2>2, <3>1, <1>0 DEF SetStatus, Job
      <4> QED BY <4>1 DEF Settled
    <3>2. CASE j - base \notin Mapped
      <4>1. jobs'[j] = jobs[j]
        BY <2>1, <2>2, <3>2 DEF SetStatus
      <4> QED BY <4>1, <2>2, <2>3 DEF Settled
    <3> QED BY <3>1, <3>2
  <2>5. /\ pc = "mark" /\ pc' = "open"
        /\ UNCHANGED <<pending, lastOf, base, thread, outcome>>
    BY <1>4 DEF MarkProcessing
  <2> QED BY <2>1, <2>4, <2>5 DEF JobInv, OwnJobs, OwnFutures, FreshJobs,
       NothingDropped, AllTold, InTask, MappedJobsSettled
<1>5. CASE OpenWindow
  <2>1. Len(pending) # 0 /\ Len(outcome) = Len(pending) /\ pc = "open" /\ pc' = "dispatch"
    BY <1>5 DEF OpenWindow, JobInv, OwnFutures, InTask
  <2>2. Len(thread') = Len(pending)
    BY <1>5, <1>0 DEF OpenWindow, Positions
  <2>3. UNCHANGED <<jobs, pending, lastOf, base, success, failure, outcome>>
    BY <1>5 DEF OpenWindow
  <2>4. NothingDropped'
    <3>1. /\ active' = {i \in Positions : i <= Concurrency}
          /\ next' = IF Len(pending) <= Concurrency THEN Len(pending) + 1
                                                    ELSE Concurrency + 1
      BY <1>5 DEF OpenWindow
    <3>2. 1 \in active'
      BY <3>1, <2>1, <1>0, ConcurrencyAssumption DEF Positions
    <3>3. /\ next' <= Len(pending) + 1
          /\ \A i \in Positions : i < next' => i \in active'
      BY <3>1, <1>0, ConcurrencyAssumption DEF Positions
    <3> QED BY <2>3, <3>2, <3>3 DEF NothingDropped, Positions
  <2> QED BY <2>1, <2>2, <2>3, <2>4 DEF JobInv, OwnJobs, OwnFutures, FreshJobs,
       AllTold, InTask, MappedJobsSettled
<1>6. CASE Wait
  BY <1>6, FrameJobs DEF Wait
<1>7. ASSUME NEW i \in ready, Collect(i)
      PROVE  JobInv'
  <2>1. /\ pc = "dispatch" /\ pc' = "dispatch"
        /\ UNCHANGED <<jobs, base, pending, lastOf, outcome, event>>
        /\ success' \cup failure' = (success \cup failure) \cup {JobOf(i)}
    BY <1>7 DEF Collect
  <2>2. CASE ~event /\ next \in Positions
    <3>1. /\ active' = (active \ {i}) \cup {next} /\ next' = next + 1
          /\ thread' = [thread EXCEPT ![next] = "submitted"]
      BY <1>7, <2>2 DEF Collect, SubmitNext
    <3>2. Len(thread') = Len(thread)
      BY <3>1, ExceptIsSeq, <1>0 DEF ThreadState
    <3>3. NothingDropped'
      <4>1. next' <= Len(pending) + 1 /\ active' # {}
        BY <3>1, <2>2, <1>0 DEF Positions
      <4>2. ASSUME NEW k \in Positions, k < next'
            PROVE  k \in active' \/ JobOf(k) \in success' \cup failure'
        <5>1. k = next \/ k < next
          BY <3>1, <4>2, <1>0 DEF Positions
        <5>2. k < next => k \in active \/ JobOf(k) \in success \cup failure
          BY <2>1 DEF JobInv, NothingDropped, Told
        <5> QED BY <5>1, <5>2, <2>1, <3>1
      <4> QED BY <4>1, <4>2, <2>1 DEF NothingDropped, Told, JobOf, Positions
    <3> QED BY <2>1, <3>2, <3>3 DEF JobInv, OwnJobs, OwnFutures, FreshJobs,
         AllTold, InTask, MappedJobsSettled
  <2>3. CASE ~(~event /\ next \in Positions)
    <3>1. active' = active \ {i} /\ UNCHANGED <<thread, next>>
      BY <1>7, <2>3 DEF Collect, SubmitNext
    <3>3. NothingDropped'
      <4>1. next <= Len(pending) + 1 /\ (event \/ next > Len(pending))
        BY <2>1, <2>3, <1>0 DEF JobInv, NothingDropped, Positions
      <4>2. ASSUME NEW k \in Positions, k < next
            PROVE  k \in active' \/ JobOf(k) \in success' \cup failure'
        <5>1. k \in active \/ JobOf(k) \in success \cup failure
          BY <2>1, <4>2 DEF JobInv, NothingDropped, Told
        <5> QED BY <5>1, <2>1, <3>1
      <4> QED BY <3>1, <4>1, <4>2, <2>1 DEF NothingDropped, Told, JobOf, Positions
    <3> QED BY <2>1, <3>1, <3>3 DEF JobInv, OwnJobs, OwnFutures, FreshJobs,
         AllTold, InTask, MappedJobsSettled
  <2> QED BY <2>2, <2>3
<1>8. ASSUME NEW i \in ready, CollectFatal(i)
      PROVE  JobInv'
  BY <1>8 DEF CollectFatal, JobInv, OwnJobs, OwnFutures, FreshJobs,
       NothingDropped, AllTold, InTask, MappedJobsSettled
<1>9. CASE CloseWindow
  <2>1. /\ pc = "dispatch" /\ pc' = "update" /\ active = {}
        /\ UNCHANGED <<jobs, base, pending, lastOf, thread, outcome, success>>
        /\ failure' = IF event THEN failure \cup {JobOf(i) : i \in next..Len(pending)}
                               ELSE failure
    BY <1>9 DEF CloseWindow
  <2>2. /\ \A i \in Positions : i < next => Told(i)
        /\ event \/ next > Len(pending)
    BY <2>1 DEF JobInv, NothingDropped
  <2>3. ASSUME NEW i \in Positions PROVE JobOf(i) \in success' \cup failure'
    <3>1. CASE i < next
      BY <3>1, <2>1, <2>2 DEF Told
    <3>2. CASE ~(i < next)
      <4>1. event /\ i \in next..Len(pending)
        BY <3>2, <2>2, <1>0 DEF Positions
      <4> QED BY <4>1, <2>1
    <3> QED BY <3>1, <3>2
  <2>4. AllTold'
    BY <2>1, <2>3 DEF AllTold, Told, JobOf, Positions
  <2> QED BY <2>1, <2>4 DEF JobInv, OwnJobs, OwnFutures, FreshJobs,
         NothingDropped, InTask, MappedJobsSettled
<1>10. CASE UpdateJobs
  <2>1. /\ pc = "update" /\ pc' = "write"
        /\ UNCHANGED <<base, pending, lastOf, thread, outcome, success, failure>>
        /\ jobs' = [j \in DOMAIN jobs |->
                IF j - base \in failure THEN [jobs[j] EXCEPT !.status = "failed"]
                ELSE IF j - base \in success
                THEN [jobs[j] EXCEPT !.status = "success"]
                ELSE jobs[j]]
    BY <1>10 DEF UpdateJobs
  <2>2. Len(jobs') = Len(jobs) /\ Len(jobs) = base + Len(pending)
    BY <2>1, <1>0 DEF JobInv, OwnJobs, InTask
  <2>3. ASSUME NEW p \in Mapped PROVE Settled(jobs'[base + p])
    <3>1. p \in Positions /\ p \in success \cup failure
      BY <2>1 DEF JobInv, AllTold, Told, Mapped
    <3>2. base + p \in DOMAIN jobs /\ (base + p) - base = p
      BY <3>1, <2>2, <1>0 DEF Positions
    <3>3. jobs[base + p] \in Job
      BY <3>2, <1>0
    <3>4. jobs'[base + p].status \in {"success", "failed"}
      BY <3>1, <3>2, <3>3, <2>1 DEF Job
    <3> QED BY <3>4 DEF Settled
  <2>4. MappedJobsSettled'
    BY <2>1, <2>3 DEF MappedJobsSettled, Mapped, JobOf, Positions
  <2> QED BY <2>1, <2>2, <2>4 DEF JobInv, OwnJobs, OwnFutures, FreshJobs,
         NothingDropped, AllTold, InTask
<1>11. CASE WriteResults
  BY <1>11 DEF WriteResults, JobInv, OwnJobs, OwnFutures, FreshJobs, NothingDropped,
       AllTold, InTask, MappedJobsSettled, Mapped, JobOf, Positions, Settled
<1>12. ASSUME NEW i \in Positions, CheckEvent(i) \/ BeginCall(i)
       PROVE  JobInv'
  <2>1. Len(thread') = Len(thread) /\ Len(outcome') = Len(outcome)
    BY <1>12, <1>0, ExceptIsSeq DEF CheckEvent, BeginCall, ThreadState
  <2> QED BY <1>12, <2>1, FrameJobs DEF CheckEvent, BeginCall
<1>13. ASSUME NEW i \in Positions, NEW o \in Outcomes, EndCall(i, o)
       PROVE  JobInv'
  <2>1. o \in AllOutcomes
    BY OutcomesAssumption
  <2>2. Len(thread') = Len(thread) /\ Len(outcome') = Len(outcome)
    BY <1>13, <1>0, <2>1, ExceptIsSeq DEF EndCall, ThreadState
  <2>3. event => event'
    BY <1>13 DEF EndCall
  <2> QED BY <1>13, <2>2, <2>3, FrameJobs DEF EndCall
<1>14. ASSUME NEW i \in Positions, ReturnFromQuota(i)
       PROVE  JobInv'
  <2>1. Len(thread') = Len(thread)
    BY <1>14, <1>0, ExceptIsSeq DEF ReturnFromQuota, ThreadState
  <2> QED BY <1>14, <2>1, FrameJobs DEF ReturnFromQuota
<1>15. CASE Interrupt
  BY <1>15 DEF Interrupt, JobInv, OwnJobs, OwnFutures, FreshJobs, NothingDropped,
       AllTold, InTask, MappedJobsSettled, Idle
<1>16. CASE PoolShutDown
  BY <1>16, EndedJobs DEF PoolShutDown
<1>17. CASE WorkerLost
  BY <1>17, EndedJobs DEF WorkerLost
<1>18. ASSUME NEW u \in Urls, TtlPasses(u)
       PROVE  JobInv'
  BY <1>18, FrameJobs DEF TtlPasses
<1>19. CASE UNCHANGED vars
  BY <1>19, FrameJobs DEF vars
<1> QED
  BY <1>1, <1>2, <1>3, <1>4, <1>5, <1>6, <1>7, <1>8, <1>9, <1>10, <1>11,
     <1>12, <1>13, <1>14, <1>15, <1>16, <1>17, <1>18, <1>19
  DEF Next, Main, Thread

LEMMA BulkInv == Spec => [](TypeOK /\ MapOK /\ JobInv)
<1>1. TypeOK /\ MapOK /\ JobInv /\ [Next]_vars => TypeOK' /\ MapOK' /\ JobInv'
  BY NextType, NextJobs
<1> QED BY <1>1, InitType, InitJobs, PTL DEF Spec

\* When a task ends normally every job its map knows is settled, whatever the
\* list, the size of the window, the order in which the threads finish and the
\* moment at which the quota ends.
THEOREM JobsAreSettled == Spec => []MappedJobsSettled
<1>1. JobInv => MappedJobsSettled
  BY DEF JobInv
<1> QED BY <1>1, BulkInv, PTL

-----------------------------------------------------------------------------
(* The window never holds more futures than the pool has threads.          *)

\* A future at work is one the loop knows of, and a future the loop was told
\* about has finished: taking it makes room for exactly one more.
WindowInv ==
  PoolRuns => /\ AtWork \subseteq active
              /\ Cardinality(active) <= Concurrency
              /\ \A i \in ready : thread[i] = "finished"
              /\ pc = "dispatch" => /\ ready \subseteq active
                                    /\ \A k \in active : k < next

\* Before the window opens nothing has been handed to a thread.
NotReady == pc \in {"scan", "mark", "open"} => ready = {}

LEMMA InitWindow == Init => NotReady /\ WindowInv
BY DEF Init, NotReady, WindowInv, PoolRuns

LEMMA ActiveFinite ==
  ASSUME TypeOK
  PROVE  IsFiniteSet(active) /\ Cardinality(active) \in Nat
<1>1. IsFiniteSet(Positions)
  BY FS_Interval DEF TypeOK, Positions
<1>2. IsFiniteSet(active)
  BY <1>1, FS_Subset DEF TypeOK
<1> QED BY <1>2, FS_CardinalityType

\* A thread at work that takes a step of its own stays known to the loop.
LEMMA AtWorkMoves ==
  ASSUME TypeOK, JobInv, NotReady, WindowInv, PoolRuns, NEW i \in AtWork, NEW st,
         thread' = [thread EXCEPT ![i] = st],
         UNCHANGED <<pc, pending, active, ready, next>>
  PROVE  NotReady' /\ WindowInv'
<1>1. DOMAIN thread = Positions /\ ready \subseteq Positions /\ i \in Positions
  BY DEF TypeOK, PoolRuns, JobInv, OwnFutures, InTask, Positions, AtWork
<1>2. AtWork' \subseteq AtWork
  BY <1>1 DEF AtWork, Positions
<1>3. \A k \in ready : thread'[k] = "finished"
  <2> TAKE k \in ready
  <2>1. thread[k] = "finished" /\ k # i
    BY DEF WindowInv, AtWork
  <2> QED BY <2>1, <1>1
<1> QED BY <1>2, <1>3 DEF NotReady, WindowInv, PoolRuns

LEMMA WindowStep ==
  TypeOK /\ TypeOK' /\ JobInv /\ NotReady /\ WindowInv /\ [Next]_vars
    => NotReady' /\ WindowInv'
<1> SUFFICES ASSUME TypeOK, TypeOK', JobInv, NotReady, WindowInv, [Next]_vars
             PROVE  NotReady' /\ WindowInv'
  OBVIOUS
<1> USE DEF task, pool, tally
<1>0. /\ thread \in Seq(ThreadState) /\ DOMAIN thread = 1..Len(thread)
      /\ next \in Nat \ {0} /\ active \subseteq Positions /\ ready \subseteq Positions
      /\ Len(pending) \in Nat /\ Concurrency \in Nat \ {0}
  BY ConcurrencyAssumption DEF TypeOK
<1>a. PoolRuns => DOMAIN thread = Positions
  BY <1>0 DEF PoolRuns, JobInv, OwnFutures, InTask, Positions
<1>b. IsFiniteSet(active) /\ Cardinality(active) \in Nat
  BY ActiveFinite
<1>1. ASSUME NEW list \in Inputs, NEW forced \in BOOLEAN, Receive(list, forced)
      PROVE  NotReady' /\ WindowInv'
  BY <1>1 DEF Receive, NotReady, WindowInv, PoolRuns
<1>2. CASE OpenWindow
  <2>1. ready' = {} /\ pc' = "dispatch" /\ UNCHANGED pending
    BY <1>2 DEF OpenWindow, NotReady
  <2>2. /\ active' = {i \in Positions : i <= Concurrency}
        /\ thread' = [i \in Positions |-> IF i <= Concurrency THEN "submitted" ELSE "none"]
    BY <1>2 DEF OpenWindow
  <2>3. AtWork' \subseteq active'
    BY <2>1, <2>2 DEF AtWork, Positions
  <2>4. Cardinality(active') <= Concurrency
    <3>1. active' \subseteq 1..Concurrency
      BY <2>2 DEF Positions
    <3>2. IsFiniteSet(1..Concurrency) /\ Cardinality(1..Concurrency) = Concurrency
      <4>1. 1 \in Int /\ Concurrency \in Int
        BY <1>0
      <4>2. /\ IsFiniteSet(1..Concurrency)
            /\ Cardinality(1..Concurrency) =
                 IF 1 > Concurrency THEN 0 ELSE Concurrency - 1 + 1
        BY <4>1, FS_Interval, Zenon
      <4> QED BY <4>2, <1>0
    <3>3. Cardinality(active') <= Cardinality(1..Concurrency)
      BY <3>1, <3>2, FS_Subset
    <3> QED BY <3>2, <3>3
  <2>5. \A k \in active' : k < next'
    BY <1>2, <2>2, <1>0 DEF OpenWindow, Positions
  <2> QED BY <2>1, <2>3, <2>4, <2>5 DEF NotReady, WindowInv
<1>3. CASE Wait
  <2>1. /\ ready' = {i \in active : thread[i] = "finished"}
        /\ UNCHANGED <<pc, active, thread, pending, next>> /\ pc = "dispatch"
    BY <1>3 DEF Wait
  <2> QED BY <2>1 DEF NotReady, WindowInv, PoolRuns, AtWork, Positions
<1>4. ASSUME NEW i \in ready, Collect(i)
      PROVE  NotReady' /\ WindowInv'
  <2>1. /\ pc = "dispatch" /\ UNCHANGED <<pc, pending>> /\ ready' = ready \ {i}
        /\ i \in active /\ thread[i] = "finished" /\ PoolRuns
        /\ AtWork \subseteq active /\ Cardinality(active) <= Concurrency
        /\ ready \subseteq active /\ \A k \in ready : thread[k] = "finished"
        /\ \A k \in active : k < next
    BY <1>4 DEF Collect, WindowInv, PoolRuns
  <2>2. IsFiniteSet(active \ {i}) /\ Cardinality(active \ {i}) = Cardinality(active) - 1
    BY <2>1, <1>b, FS_RemoveElement
  <2>3. CASE ~event /\ next \in Positions
    <3>1. /\ active' = (active \ {i}) \cup {next}
          /\ thread' = [thread EXCEPT ![next] = "submitted"] /\ next' = next + 1
      BY <1>4, <2>3 DEF Collect, SubmitNext
    <3>2. Cardinality(active') <= Concurrency
      <4> DEFINE rest == active \ {i}
      <4>1. IsFiniteSet(rest) /\ Cardinality(rest) = Cardinality(active) - 1
        BY <2>2
      <4>2. Cardinality(rest \cup {next}) \in {Cardinality(rest), Cardinality(rest) + 1}
        BY <4>1, FS_AddElement
      <4> QED BY <4>1, <4>2, <3>1, <2>1, <1>b, <1>0
    <3>3. AtWork' \subseteq active'
      BY <3>1, <2>1, <1>a DEF AtWork, Positions
    <3>4. \A k \in ready' : thread'[k] = "finished" /\ k \in active'
      <4> TAKE k \in ready'
      <4>1. k \in active /\ k # i /\ k # next /\ thread[k] = "finished"
        BY <2>1, <1>0
      <4>2. thread'[k] = thread[k]
        BY <4>1, <3>1, <2>1, <1>a, <1>0
      <4> QED BY <4>1, <4>2, <3>1
    <3>5. \A k \in active' : k < next'
      BY <3>1, <2>1, <1>0 DEF Positions
    <3> QED BY <2>1, <3>2, <3>3, <3>4, <3>5 DEF NotReady, WindowInv, PoolRuns
  <2>4. CASE ~(~event /\ next \in Positions)
    <3>1. active' = active \ {i} /\ UNCHANGED <<thread, next>>
      BY <1>4, <2>4 DEF Collect, SubmitNext
    <3>2. Cardinality(active') <= Concurrency
      BY <3>1, <2>1, <2>2, <1>b, <1>0
    <3> QED BY <3>1, <3>2, <2>1 DEF NotReady, WindowInv, PoolRuns, AtWork, Positions
  <2> QED BY <2>3, <2>4
<1>5. ASSUME NEW i \in ready, CollectFatal(i)
      PROVE  NotReady' /\ WindowInv'
  <2>1. /\ pc = "dispatch" /\ pc' = "aborting" /\ UNCHANGED <<pending, thread, ready>>
        /\ active' \in {active, active \ {i}} /\ thread[i] = "finished"
        /\ AtWork \subseteq active /\ Cardinality(active) <= Concurrency
        /\ \A k \in ready : thread[k] = "finished"
    BY <1>5 DEF CollectFatal, WindowInv, PoolRuns
  <2>2. AtWork' \subseteq active'
    BY <2>1 DEF AtWork, Positions
  <2>3. Cardinality(active') <= Concurrency
    <3>1. CASE active' = active
      BY <2>1, <3>1
    <3>2. CASE active' = active \ {i}
      <4>1. Cardinality(active \ {i}) \in {Cardinality(active), Cardinality(active) - 1}
        BY <1>b, FS_RemoveElement
      <4> QED BY <4>1, <3>2, <2>1, <1>b, <1>0
    <3> QED BY <2>1, <3>1, <3>2
  <2> QED BY <2>1, <2>2, <2>3 DEF NotReady, WindowInv
<1>6. ASSUME NEW i \in Positions, CheckEvent(i) \/ BeginCall(i) \/ ReturnFromQuota(i)
      PROVE  NotReady' /\ WindowInv'
  <2>1. /\ PoolRuns /\ UNCHANGED <<pc, pending, active, ready, next>>
        /\ i \in AtWork
        /\ \E st \in {"finished", "cleared", "calling"} :
              thread' = [thread EXCEPT ![i] = st]
    BY <1>6 DEF CheckEvent, BeginCall, ReturnFromQuota, AtWork
  <2> QED BY <2>1, AtWorkMoves
<1>7. ASSUME NEW i \in Positions, NEW o \in Outcomes, EndCall(i, o)
      PROVE  NotReady' /\ WindowInv'
  <2>1. /\ PoolRuns /\ UNCHANGED <<pc, pending, active, ready, next>>
        /\ i \in AtWork
        /\ \/ thread' = [thread EXCEPT ![i] = "finished"]
           \/ thread' = [thread EXCEPT ![i] = "signalled"]
    BY <1>7 DEF EndCall, AtWork
  <2> QED BY <2>1, AtWorkMoves
<1>8. CASE Interrupt
  BY <1>8 DEF Interrupt, NotReady, WindowInv, PoolRuns, AtWork, Positions, Idle
<1>9. CASE ScanUrl \/ CreateJobs \/ MarkProcessing
  <2>1. pc' \in {"rejected", "scan", "mark", "open", "done"} /\ ready' = {}
    BY <1>9 DEF ScanUrl, CreateJobs, MarkProcessing, NotReady
  <2> QED BY <2>1 DEF NotReady, WindowInv, PoolRuns
<1>10. CASE CloseWindow \/ UpdateJobs \/ WriteResults \/ PoolShutDown \/ WorkerLost
  <2>1. pc' \in {"update", "write", "done", "raised", "lost"}
    BY <1>10 DEF CloseWindow, UpdateJobs, WriteResults, PoolShutDown, WorkerLost
  <2> QED BY <2>1 DEF NotReady, WindowInv, PoolRuns
<1>11. CASE UNCHANGED <<pc, pending, active, ready, thread, next>>
  BY <1>11 DEF NotReady, WindowInv, PoolRuns, AtWork, Positions
<1> QED
  BY <1>1, <1>2, <1>3, <1>4, <1>5, <1>6, <1>7, <1>8, <1>9, <1>10, <1>11
  DEF Next, Main, Thread, TtlPasses, vars

LEMMA WindowAlways == Spec => [](NotReady /\ WindowInv)
BY BulkInv, InitWindow, WindowStep, PTL DEF Spec

\* No more threads are at work than the pool has, although the loop submits new
\* URLs while the futures of earlier rounds are still running: so the pool of
\* database connections needs no more than Concurrency for them.
THEOREM WindowIsBounded == Spec => []WindowBounded
<1>1. Spec => [](TypeOK /\ MapOK /\ JobInv)
  BY BulkInv
<1>2. Spec => [](NotReady /\ WindowInv)
  BY WindowAlways
<1>3. TypeOK /\ WindowInv => WindowBounded
  <2> SUFFICES ASSUME TypeOK, WindowInv, PoolRuns
               PROVE  Cardinality(AtWork) <= Concurrency
    BY DEF WindowBounded
  <2>1. /\ IsFiniteSet(active) /\ Cardinality(active) \in Nat
        /\ AtWork \subseteq active /\ Cardinality(active) <= Concurrency
    BY ActiveFinite DEF WindowInv
  <2>2. /\ IsFiniteSet(AtWork) /\ Cardinality(AtWork) <= Cardinality(active)
    BY <2>1, FS_Subset
  <2>3. Cardinality(AtWork) \in Nat
    BY <2>2, FS_CardinalityType
  <2> QED BY <2>1, <2>2, <2>3, ConcurrencyAssumption
<1> QED BY <1>1, <1>2, <1>3, PTL

-----------------------------------------------------------------------------
(* How many calls meet the spent quota.                                    *)

Refused == {i \in DOMAIN outcome : outcome[i] = "quota"}

\* Those whose call goes on, whatever the event has become.
Committed == {i \in DOMAIN thread : thread[i] \in {"cleared", "calling"}}

\* The thread that is refused first sets the event while it is one of at most
\* Concurrency at work; from then on nobody joins those it finds committed.
RefusedInv ==
  /\ pc \in {"mark", "open"} => Refused = {}
  /\ PoolRuns => IF event THEN Cardinality(Refused \cup Committed) <= Concurrency
                          ELSE Refused = {}
  /\ Cardinality(Refused) <= Concurrency

LEMMA RefusedFinite ==
  ASSUME TypeOK
  PROVE  /\ IsFiniteSet(Refused) /\ Cardinality(Refused) \in Nat
         /\ IsFiniteSet(Refused \cup Committed)
         /\ Cardinality(Refused \cup Committed) \in Nat
<1>1. IsFiniteSet(1..Len(outcome)) /\ IsFiniteSet(1..Len(thread))
  BY FS_Interval DEF TypeOK
<1>2. Refused \subseteq 1..Len(outcome) /\ Committed \subseteq 1..Len(thread)
  BY DEF TypeOK, Refused, Committed
<1>3. IsFiniteSet(Refused) /\ IsFiniteSet(Committed)
  BY <1>1, <1>2, FS_Subset
<1>4. IsFiniteSet(Refused \cup Committed)
  BY <1>3, FS_Union
<1> QED BY <1>3, <1>4, FS_CardinalityType

LEMMA NobodyRefused ==
  ASSUME Refused' = {}, PoolRuns' => Committed' = {}
  PROVE  RefusedInv'
<1>1. Cardinality({}) = 0 /\ Concurrency \in Nat \ {0}
  BY FS_EmptySet, ConcurrencyAssumption
<1>2. Cardinality(Refused') <= Concurrency
  BY <1>1
<1>3. PoolRuns' => Cardinality((Refused \cup Committed)') <= Concurrency
  BY <1>1
<1> QED BY <1>2, <1>3 DEF RefusedInv

LEMMA NoMoreRefused ==
  ASSUME TypeOK, RefusedInv, PoolRuns' => PoolRuns, pc' \notin {"mark", "open"},
         event' = event, Refused' \subseteq Refused,
         PoolRuns => Committed' \subseteq Committed
  PROVE  RefusedInv'
<1>1. /\ IsFiniteSet(Refused) /\ Cardinality(Refused) \in Nat
      /\ IsFiniteSet(Refused \cup Committed)
      /\ Cardinality(Refused \cup Committed) \in Nat
      /\ Concurrency \in Nat
  BY RefusedFinite, ConcurrencyAssumption
<1>2. Cardinality(Refused') <= Concurrency
  <2>1. Cardinality(Refused') <= Cardinality(Refused) /\ IsFiniteSet(Refused')
    BY <1>1, FS_Subset
  <2>2. Cardinality(Refused') \in Nat
    BY <2>1, FS_CardinalityType
  <2> QED BY <1>1, <2>1, <2>2 DEF RefusedInv
<1>3. ASSUME PoolRuns', event
      PROVE  Cardinality((Refused \cup Committed)') <= Concurrency
  <2>1. (Refused \cup Committed)' \subseteq Refused \cup Committed
    BY <1>3
  <2>2. /\ Cardinality((Refused \cup Committed)') <= Cardinality(Refused \cup Committed)
        /\ IsFiniteSet((Refused \cup Committed)')
    BY <1>1, <2>1, FS_Subset
  <2>3. Cardinality((Refused \cup Committed)') \in Nat
    BY <2>2, FS_CardinalityType
  <2> QED BY <1>1, <1>3, <2>2, <2>3 DEF RefusedInv
<1>4. ASSUME PoolRuns', ~event PROVE Refused' = {}
  BY <1>4 DEF RefusedInv
<1> QED BY <1>2, <1>3, <1>4 DEF RefusedInv

LEMMA RefusedStep ==
  TypeOK /\ JobInv /\ WindowInv /\ RefusedInv /\ [Next]_vars => RefusedInv'
<1> SUFFICES ASSUME TypeOK, JobInv, WindowInv, RefusedInv, [Next]_vars
             PROVE  RefusedInv'
  OBVIOUS
<1> USE DEF task, pool, tally
<1>0. /\ thread \in Seq(ThreadState) /\ DOMAIN thread = 1..Len(thread)
      /\ DOMAIN outcome = 1..Len(outcome)
      /\ PoolRuns => DOMAIN thread = Positions /\ DOMAIN outcome = Positions
  BY DEF TypeOK, PoolRuns, JobInv, OwnFutures, InTask, Positions
<1>1. ASSUME NEW list \in Inputs, NEW forced \in BOOLEAN, Receive(list, forced)
      PROVE  RefusedInv'
  BY <1>1, NobodyRefused DEF Receive, Refused, PoolRuns
<1>2. CASE CreateJobs
  BY <1>2, NobodyRefused DEF CreateJobs, Refused, PoolRuns
<1>3. CASE MarkProcessing \/ OpenWindow
  <2>1. Refused' = {}
    BY <1>3 DEF MarkProcessing, OpenWindow, RefusedInv, Refused
  <2>2. PoolRuns' => Committed' = {}
    BY <1>3 DEF MarkProcessing, OpenWindow, PoolRuns, Committed
  <2> QED BY <2>1, <2>2, NobodyRefused
<1>4. ASSUME NEW i \in ready, Collect(i)
      PROVE  RefusedInv'
  <2>1. /\ pc = "dispatch" /\ UNCHANGED <<pc, event, outcome>>
        /\ \/ thread' = thread
           \/ next \in Positions /\ thread' = [thread EXCEPT ![next] = "submitted"]
    BY <1>4 DEF Collect, SubmitNext
  <2>2. Committed' \subseteq Committed /\ Refused' = Refused
    BY <2>1, <1>0 DEF Committed, Refused, PoolRuns
  <2> QED BY <2>1, <2>2, NoMoreRefused DEF PoolRuns
<1>5. ASSUME NEW i \in Positions, CheckEvent(i)
      PROVE  RefusedInv'
  <2>1. PoolRuns /\ UNCHANGED <<pc, event>>
    BY <1>5 DEF CheckEvent
  <2>2. CASE event
    <3>1. /\ thread' = [thread EXCEPT ![i] = "finished"]
          /\ outcome' = [outcome EXCEPT ![i] = "skipped"]
      BY <1>5, <2>2 DEF CheckEvent
    <3>2. Committed' \subseteq Committed /\ Refused' \subseteq Refused
      BY <3>1, <1>0 DEF Committed, Refused
    <3> QED BY <2>1, <3>2, NoMoreRefused DEF PoolRuns
  <2>3. CASE ~event
    <3>1. Refused' = {} /\ ~event'
      BY <1>5, <2>1, <2>3 DEF CheckEvent, RefusedInv, Refused
    <3>2. Cardinality({}) = 0 /\ Concurrency \in Nat
      BY FS_EmptySet, ConcurrencyAssumption
    <3>3. Cardinality(Refused') <= Concurrency
      BY <3>1, <3>2
    <3> QED BY <3>1, <3>3 DEF RefusedInv
  <2> QED BY <2>2, <2>3
<1>6. ASSUME NEW i \in Positions, BeginCall(i) \/ ReturnFromQuota(i)
      PROVE  RefusedInv'
  <2>1. /\ PoolRuns /\ UNCHANGED <<pc, event, outcome>>
        /\ \/ thread[i] = "cleared" /\ thread' = [thread EXCEPT ![i] = "calling"]
           \/ thread' = [thread EXCEPT ![i] = "finished"]
    BY <1>6 DEF BeginCall, ReturnFromQuota
  <2>2. Committed' \subseteq Committed /\ Refused' = Refused
    BY <2>1, <1>0 DEF Committed, Refused
  <2> QED BY <2>1, <2>2, NoMoreRefused DEF PoolRuns
<1>7. ASSUME NEW i \in Positions, NEW o \in Outcomes, EndCall(i, o)
      PROVE  RefusedInv'
  <2>1. /\ PoolRuns /\ pc' = pc /\ thread[i] = "calling" /\ i \in Committed
        /\ outcome' = [outcome EXCEPT ![i] = o]
        /\ \E st \in {"finished", "signalled"} : thread' = [thread EXCEPT ![i] = st]
    BY <1>7, <1>0 DEF EndCall, Committed
  <2>2. Committed' \subseteq Committed \ {i}
    BY <2>1, <1>0 DEF Committed
  <2>3. Refused' \subseteq Refused \cup {i}
    BY <2>1, <1>0 DEF Refused
  <2>4. CASE o # "quota"
    <3>1. event' = event /\ Refused' \subseteq Refused
      BY <1>7, <2>1, <2>4, <1>0 DEF EndCall, Refused
    <3> QED BY <2>1, <2>2, <3>1, NoMoreRefused DEF PoolRuns
  <2>5. CASE o = "quota"
    <3> DEFINE several == IF event THEN Refused \cup Committed ELSE AtWork
    <3>1. IsFiniteSet(several) /\ Cardinality(several) \in Nat
          /\ Cardinality(several) <= Concurrency /\ Concurrency \in Nat
      <4>1. CASE event
        BY <4>1, <2>1, RefusedFinite, ConcurrencyAssumption DEF RefusedInv
      <4>2. CASE ~event
        <5>1. /\ IsFiniteSet(active) /\ Cardinality(active) \in Nat
              /\ AtWork \subseteq active /\ Cardinality(active) <= Concurrency
          BY <2>1, ActiveFinite DEF WindowInv
        <5>2. IsFiniteSet(AtWork) /\ Cardinality(AtWork) <= Cardinality(active)
          BY <5>1, FS_Subset
        <5>3. Cardinality(AtWork) \in Nat
          BY <5>2, FS_CardinalityType
        <5> QED BY <4>2, <5>1, <5>2, <5>3, ConcurrencyAssumption
      <4> QED BY <4>1, <4>2
    <3>2. Refused' \cup Committed' \subseteq several
      <4>1. CASE event
        BY <4>1, <2>1, <2>2, <2>3
      <4>2. CASE ~event
        <5>1. Refused = {}
          BY <4>2, <2>1 DEF RefusedInv
        <5>2. Committed \subseteq AtWork
          BY <2>1, <1>0 DEF Committed, AtWork
        <5> QED BY <4>2, <5>1, <5>2, <2>1, <2>2, <2>3
      <4> QED BY <4>1, <4>2
    <3> HIDE DEF several
    <3>3. /\ IsFiniteSet((Refused \cup Committed)')
          /\ Cardinality((Refused \cup Committed)') <= Cardinality(several)
      BY <3>1, <3>2, FS_Subset
    <3>4. IsFiniteSet(Refused') /\ Cardinality(Refused') <= Cardinality(several)
      BY <3>1, <3>2, FS_Subset
    <3>5. Cardinality(Refused') \in Nat /\ Cardinality((Refused \cup Committed)') \in Nat
      BY <3>3, <3>4, FS_CardinalityType
    <3>6. /\ Cardinality(Refused') <= Concurrency
          /\ Cardinality((Refused \cup Committed)') <= Concurrency
      BY <3>1, <3>3, <3>4, <3>5
    <3>7. event' /\ pc' \notin {"mark", "open"}
      BY <1>7, <2>1, <2>5 DEF EndCall, PoolRuns
    <3> QED BY <3>6, <3>7 DEF RefusedInv
  <2> QED BY <2>4, <2>5
<1>8. ASSUME UNCHANGED <<event, outcome, thread>>, PoolRuns' => PoolRuns,
             pc' \notin {"mark", "open"}
      PROVE  RefusedInv'
  BY <1>8, NoMoreRefused DEF Refused, Committed
<1>9. CASE \/ ScanUrl \/ Wait \/ CloseWindow \/ UpdateJobs \/ WriteResults
           \/ Interrupt \/ PoolShutDown \/ WorkerLost \/ \E i \in ready : CollectFatal(i)
  <2>1. UNCHANGED <<event, outcome, thread>>
    BY <1>9
    DEF ScanUrl, Wait, CloseWindow, UpdateJobs, WriteResults, Interrupt, PoolShutDown,
        WorkerLost, CollectFatal
  <2>2. (PoolRuns' => PoolRuns) /\ pc' \notin {"mark", "open"}
    BY <1>9
    DEF ScanUrl, Wait, CloseWindow, UpdateJobs, WriteResults, Interrupt, PoolShutDown,
        WorkerLost, CollectFatal, PoolRuns
  <2> QED BY <2>1, <2>2, <1>8
<1>10. CASE UNCHANGED <<pc, event, outcome, thread>>
  BY <1>10 DEF RefusedInv, Refused, Committed, PoolRuns
<1> QED
  BY <1>1, <1>2, <1>3, <1>4, <1>5, <1>6, <1>7, <1>9, <1>10
  DEF Next, Main, Thread, TtlPasses, vars

\* The event bounds what the quota costs: a call that has passed the check when
\* another sets the event may still be refused, but in a whole task no more calls
\* are refused than the window holds, however long the list is.
THEOREM QuotaCostsOneWindow == Spec => []RefusalsWithinWindow
<1>1. Init => RefusedInv
  <2> SUFFICES ASSUME Init PROVE RefusedInv
    OBVIOUS
  <2>1. Refused = {} /\ ~PoolRuns /\ pc = "idle"
    BY DEF Init, Refused, PoolRuns
  <2>2. Cardinality({}) = 0 /\ Concurrency \in Nat
    BY FS_EmptySet, ConcurrencyAssumption
  <2>3. Cardinality(Refused) <= Concurrency
    BY <2>1, <2>2
  <2> QED BY <2>1, <2>3 DEF RefusedInv
<1>2. RefusedInv => RefusalsWithinWindow
  BY DEF RefusedInv, Refused, RefusalsWithinWindow
<1> QED BY <1>1, <1>2, RefusedStep, BulkInv, WindowAlways, PTL DEF Spec

-----------------------------------------------------------------------------
(* The loop never waits for a future nobody will finish.                   *)

\* A future the loop waits for was handed to a thread.
HandedInv == pc = "dispatch" => \A i \in active : thread[i] # "none"

LEMMA HandedStep ==
  TypeOK /\ JobInv /\ HandedInv /\ [Next]_vars => HandedInv'
<1> SUFFICES ASSUME TypeOK, JobInv, HandedInv, [Next]_vars, pc' = "dispatch"
             PROVE  \A i \in active' : thread'[i] # "none"
  BY DEF HandedInv
<1> USE DEF task, pool, tally
<1>0. /\ active \subseteq Positions /\ next \in Nat \ {0}
      /\ PoolRuns => DOMAIN thread = Positions
  BY DEF TypeOK, PoolRuns, JobInv, OwnFutures, InTask, Positions
<1>1. CASE OpenWindow
  BY <1>1 DEF OpenWindow, Positions
<1>2. ASSUME NEW i \in ready, Collect(i)
      PROVE  \A k \in active' : thread'[k] # "none"
  <2>1. pc = "dispatch" /\ \A k \in active : thread[k] # "none"
    BY <1>2 DEF Collect, HandedInv
  <2>2. \/ active' \subseteq active /\ thread' = thread
        \/ /\ next \in Positions /\ active' \subseteq active \cup {next}
           /\ thread' = [thread EXCEPT ![next] = "submitted"]
    BY <1>2 DEF Collect, SubmitNext
  <2> QED BY <2>1, <2>2, <1>0 DEF PoolRuns
<1>3. ASSUME NEW i \in Positions, NEW st \in ThreadState \ {"none"}, PoolRuns,
             pc' = pc, active' = active, thread' = [thread EXCEPT ![i] = st]
      PROVE  \A k \in active' : thread'[k] # "none"
  BY <1>0, <1>3 DEF HandedInv
<1>4. ASSUME NEW i \in Positions, Thread(i)
      PROVE  \A k \in active' : thread'[k] # "none"
  BY <1>3, <1>4 DEF Thread, CheckEvent, BeginCall, EndCall, ReturnFromQuota, ThreadState
<1>5. CASE UNCHANGED <<pc, active, thread>>
  BY <1>5 DEF HandedInv
<1> QED
  BY <1>1, <1>2, <1>4, <1>5
  DEF Next, Main, Receive, ScanUrl, CreateJobs, MarkProcessing, Wait, CloseWindow,
      CollectFatal, UpdateJobs, WriteResults, PoolShutDown, Interrupt, WorkerLost,
      TtlPasses, vars, Idle

\* The safety half of TaskEnds: wherever the quota or an exception has left the
\* loop, what it waits for is at work or has finished.
THEOREM BulkNeverStalls == Spec => []NeverStalls
<1>1. Init => HandedInv
  BY DEF Init, HandedInv
<1>2. TypeOK /\ JobInv /\ HandedInv => NeverStalls
  <2> SUFFICES ASSUME TypeOK, JobInv, HandedInv, pc \notin Idle, ~MainCanGo
               PROVE  PoolRuns /\ AtWork # {}
    BY DEF NeverStalls
  <2>1. pc \in {"dispatch", "aborting"}
    BY DEF TypeOK, ControlState, MainCanGo
  <2>2. \A i \in Positions : thread[i] \in ThreadState
    BY <2>1 DEF TypeOK, JobInv, OwnFutures, InTask, Positions
  <2>3. CASE pc = "dispatch"
    <3>1. PICK i \in active : thread[i] # "finished"
      BY <2>3 DEF MainCanGo
    <3>2. i \in Positions /\ thread[i] # "none"
      BY <2>3 DEF HandedInv, TypeOK
    <3>3. i \in AtWork
      BY <2>2, <3>1, <3>2 DEF AtWork, ThreadState
    <3> QED BY <2>1, <3>3 DEF PoolRuns
  <2>4. CASE pc = "aborting"
    <3>1. PICK i \in Positions : thread[i] \notin {"none", "finished"}
      BY <2>4 DEF MainCanGo
    <3>2. i \in AtWork
      BY <2>2, <3>1 DEF AtWork, ThreadState
    <3> QED BY <2>1, <3>2 DEF PoolRuns
  <2> QED BY <2>1, <2>3, <2>4
<1> QED BY <1>1, <1>2, HandedStep, BulkInv, PTL DEF Spec

-----------------------------------------------------------------------------
(* What a job tells.  In a list without repetitions the map leads every    *)
(* position to itself, so that a future tells of its own job.              *)

NoRepeat(s) == \A i, j \in DOMAIN s : s[i] = s[j] => i = j

LEMMA DistinctMeansNoRepeat ==
  ASSUME TypeOK
  PROVE  DistinctUrls <=> NoRepeat(input)
<1> DEFINE named == {input[i] : i \in DOMAIN input}
<1>1. /\ DOMAIN input = 1..Len(input) /\ Len(input) \in Nat
      /\ input = [i \in 1..Len(input) |-> input[i]]
  BY DEF TypeOK
<1>2. input \in Surjection(1..Len(input), named)
  BY <1>1 DEF Surjection
<1>3. IsFiniteSet(1..Len(input)) /\ Cardinality(1..Len(input)) = Len(input)
  <2>1. 1 \in Int /\ Len(input) \in Int
    BY <1>1
  <2>2. /\ IsFiniteSet(1..Len(input))
        /\ Cardinality(1..Len(input)) =
             IF 1 > Len(input) THEN 0 ELSE Len(input) - 1 + 1
    BY <2>1, FS_Interval, Zenon
  <2> QED BY <2>2, <1>1
<1>4. Cardinality(named) = Len(input) <=> input \in Injection(1..Len(input), named)
  <2>1. Cardinality(named) = Cardinality(1..Len(input))
          <=> input \in Injection(1..Len(input), named)
    BY <1>2, <1>3, FS_Surjection
  <2> QED BY <2>1, <1>3
<1>5. input \in Injection(1..Len(input), named) <=> NoRepeat(input)
  BY <1>1 DEF Injection, IsInjective, NoRepeat
<1> QED BY <1>4, <1>5 DEF DistinctUrls

\* What is analysed comes from the part of the list gone through, once each.
ScanInv ==
  /\ \A i \in Positions : \E k \in 1..scanned : pending[i] = input[k]
  /\ NoRepeat(input) => NoRepeat(pending)

LEMMA OwnJob ==
  ASSUME TypeOK, MapOK, ScanInv, NoRepeat(input), NEW i \in Positions
  PROVE  JobOf(i) = i
<1>1. JobOf(i) \in Positions /\ pending[JobOf(i)] = pending[i]
  BY DEF TypeOK, MapOK, JobOf, Positions
<1>2. DOMAIN pending = Positions
  BY DEF TypeOK, Positions
<1> QED BY <1>1, <1>2 DEF ScanInv, NoRepeat

LEMMA ScanStep ==
  TypeOK /\ ScanInv /\ [Next]_vars => ScanInv'
<1> SUFFICES ASSUME TypeOK, ScanInv, [Next]_vars PROVE ScanInv'
  OBVIOUS
<1>1. ASSUME NEW list \in Inputs, NEW forced \in BOOLEAN, Receive(list, forced)
      PROVE  ScanInv'
  BY <1>1 DEF Receive, ScanInv, Positions, NoRepeat
<1>2. CASE ScanUrl
  <2> DEFINE u == input[scanned + 1]
  <2>0. /\ scanned \in Nat /\ scanned < Len(input) /\ Len(input) \in Nat
        /\ DOMAIN input = 1..Len(input) /\ DOMAIN pending = 1..Len(pending)
        /\ Len(pending) \in Nat /\ pending \in Seq(Urls) /\ u \in Urls
    BY <1>2 DEF ScanUrl, TypeOK
  <2>1. CASE UNCHANGED <<pending, input>> /\ scanned' \in {scanned, scanned + 1}
    <3>1. 1..scanned \subseteq 1..scanned'
      BY <2>0, <2>1
    <3> QED BY <2>1, <3>1 DEF ScanInv, Positions, NoRepeat
  <2>2. CASE /\ pending' = Append(pending, u) /\ input' = input
             /\ scanned' = scanned + 1
    <3>1. /\ Len(pending') = Len(pending) + 1 /\ DOMAIN pending' = 1..Len(pending')
          /\ \A i \in 1..Len(pending) : pending'[i] = pending[i]
          /\ pending'[Len(pending) + 1] = u
      BY <2>0, <2>2
    <3>2. \A i \in Positions' : i \in Positions \/ i = Len(pending) + 1
      BY <2>0, <3>1 DEF Positions
    <3>3. ASSUME NEW i \in Positions' PROVE \E k \in 1..scanned' : pending'[i] = input'[k]
      <4>1. CASE i \in Positions
        <5>1. PICK k \in 1..scanned : pending[i] = input[k]
          BY <4>1 DEF ScanInv
        <5>2. k \in 1..scanned' /\ pending'[i] = pending[i]
          BY <2>0, <2>2, <3>1, <4>1 DEF Positions
        <5> QED BY <5>1, <5>2, <2>2
      <4>2. CASE i = Len(pending) + 1
        <5>1. scanned + 1 \in 1..scanned'
          BY <2>0, <2>2
        <5> QED BY <5>1, <4>2, <3>1, <2>2
      <4> QED BY <4>1, <4>2, <3>2
    <3>4. ASSUME NoRepeat(input'), NEW i \in 1..Len(pending) PROVE pending[i] # u
      <4>1. PICK k \in 1..scanned : pending[i] = input[k]
        BY DEF ScanInv, Positions
      <4>2. k \in DOMAIN input /\ scanned + 1 \in DOMAIN input /\ k # scanned + 1
        BY <2>0
      <4> QED BY <4>1, <4>2, <3>4, <2>2 DEF NoRepeat
    <3>5. NoRepeat(input') => NoRepeat(pending')
      <4> SUFFICES ASSUME NoRepeat(input'), NEW i \in DOMAIN pending',
                          NEW j \in DOMAIN pending', pending'[i] = pending'[j]
                   PROVE  i = j
        BY DEF NoRepeat
      <4>1. /\ i \in 1..Len(pending) \/ i = Len(pending) + 1
            /\ j \in 1..Len(pending) \/ j = Len(pending) + 1
        BY <2>0, <3>1
      <4>2. NoRepeat(pending)
        BY <2>2 DEF ScanInv
      <4> QED BY <4>1, <4>2, <3>1, <3>4, <2>0 DEF NoRepeat
    <3> QED BY <3>3, <3>5 DEF ScanInv
  <2> QED BY <1>2, <2>1, <2>2 DEF ScanUrl
<1>3. CASE UNCHANGED <<input, scanned, pending>>
  BY <1>3 DEF ScanInv, Positions, NoRepeat
<1> QED
  BY <1>1, <1>2, <1>3
  DEF Next, Main, Thread, CreateJobs, MarkProcessing, OpenWindow, Wait, Collect,
      CollectFatal, CloseWindow, UpdateJobs, WriteResults, CheckEvent, BeginCall, EndCall,
      ReturnFromQuota, Interrupt, PoolShutDown, WorkerLost, TtlPasses, vars, task

Unmet(i) == thread[i] \in {"none", "submitted", "cleared", "calling"}

\* A future tells nothing before its thread has been at work, the maps are
\* empty before the window opens, and then hold futures that have finished.
FutureInv ==
  /\ pc \in {"scan", "mark", "open"} => success = {} /\ failure = {}
  /\ InTask => \A i \in Positions : Unmet(i) => outcome[i] = "none"
  /\ pc \in {"mark", "open"} => \A i \in Positions : thread[i] = "none"
  /\ pc = "dispatch" => \A i \in Positions : i >= next => thread[i] = "none"

\* A future that has told something is with the thread that found it.
LEMMA ThreadsInTask ==
  ASSUME TypeOK, JobInv, InTask
  PROVE  DOMAIN thread = Positions /\ DOMAIN outcome = Positions
BY DEF TypeOK, JobInv, OwnFutures, Positions

LEMMA FutureStep ==
  TypeOK /\ TypeOK' /\ JobInv /\ FutureInv /\ [Next]_vars => FutureInv'
<1> SUFFICES ASSUME TypeOK, TypeOK', JobInv, FutureInv, [Next]_vars PROVE FutureInv'
  OBVIOUS
<1> USE DEF task, pool, tally
<1>0. /\ next \in Nat \ {0} /\ Len(pending) \in Nat /\ Concurrency \in Nat \ {0}
      /\ InTask => DOMAIN thread = Positions /\ DOMAIN outcome = Positions
  <2>1. InTask => DOMAIN thread = Positions /\ DOMAIN outcome = Positions
    BY ThreadsInTask
  <2> QED BY <2>1, ConcurrencyAssumption DEF TypeOK
<1>1. ASSUME NEW list \in Inputs, NEW forced \in BOOLEAN, Receive(list, forced)
      PROVE  FutureInv'
  BY <1>1 DEF Receive, FutureInv, InTask
<1>2. CASE ScanUrl
  <2>1. pc = "scan" /\ pc' \in {"scan", "rejected"} /\ UNCHANGED <<success, failure>>
    BY <1>2 DEF ScanUrl
  <2> QED BY <2>1 DEF FutureInv, InTask
<1>3. CASE CreateJobs
  <2>1. /\ pc = "scan" /\ pc' \in {"done", "mark"} /\ UNCHANGED <<success, failure, pending>>
        /\ thread' = [i \in Positions |-> "none"]
        /\ outcome' = [i \in Positions |-> "none"]
    BY <1>3 DEF CreateJobs
  <2> QED BY <2>1 DEF FutureInv, InTask, Positions
<1>4. CASE MarkProcessing
  BY <1>4 DEF MarkProcessing, FutureInv, InTask, Positions, Unmet
<1>5. CASE OpenWindow
  <2>1. /\ pc = "open" /\ pc' = "dispatch" /\ UNCHANGED <<pending, outcome>>
        /\ thread' = [i \in Positions |-> IF i <= Concurrency THEN "submitted" ELSE "none"]
        /\ next' = IF Len(pending) <= Concurrency THEN Len(pending) + 1
                                                  ELSE Concurrency + 1
    BY <1>5 DEF OpenWindow
  <2>2. \A i \in Positions : outcome[i] = "none"
    BY <2>1 DEF FutureInv, InTask, Unmet
  <2>3. \A i \in Positions : i >= next' => thread'[i] = "none"
    BY <2>1, <1>0 DEF Positions
  <2> QED BY <2>1, <2>2, <2>3 DEF FutureInv, Positions
<1>6. CASE Wait
  BY <1>6 DEF Wait, FutureInv, InTask, Positions, Unmet
<1>7. ASSUME NEW i \in ready, Collect(i)
      PROVE  FutureInv'
  <2>1. pc = "dispatch" /\ pc' = "dispatch" /\ UNCHANGED <<pending, outcome>>
    BY <1>7 DEF Collect
  <2>2. CASE ~event /\ next \in Positions
    <3>1. next' = next + 1 /\ thread' = [thread EXCEPT ![next] = "submitted"]
      BY <1>7, <2>2 DEF Collect, SubmitNext
    <3>2. thread[next] = "none" /\ outcome[next] = "none"
      BY <2>1, <2>2, <1>0 DEF FutureInv, InTask, Unmet
    <3>3. \A k \in Positions : k # next => thread'[k] = thread[k]
      BY <3>1, <2>1, <1>0 DEF InTask
    <3>4. \A k \in Positions : k >= next' => k >= next /\ k # next
      BY <3>1, <1>0 DEF Positions
    <3> QED BY <2>1, <3>1, <3>2, <3>3, <3>4 DEF FutureInv, InTask, Unmet, Positions
  <2>3. CASE ~(~event /\ next \in Positions)
    <3>1. UNCHANGED <<thread, next>>
      BY <1>7, <2>3 DEF Collect, SubmitNext
    <3> QED BY <2>1, <3>1 DEF FutureInv, InTask, Unmet, Positions
  <2> QED BY <2>2, <2>3
<1>8. ASSUME NEW i \in ready, CollectFatal(i)
      PROVE  FutureInv'
  BY <1>8 DEF CollectFatal, FutureInv, InTask, Unmet, Positions
<1>9. CASE CloseWindow \/ UpdateJobs
  <2>1. /\ InTask /\ pc' \in {"update", "write"}
        /\ UNCHANGED <<thread, outcome, pending>>
    BY <1>9 DEF CloseWindow, UpdateJobs, InTask
  <2> QED BY <2>1 DEF FutureInv, Unmet, Positions
<1>10. ASSUME NEW i \in Positions, NEW st \in ThreadState,
              PoolRuns, UNCHANGED <<pc, pending, next, success, failure>>,
              thread[i] # "none",
              thread' = [thread EXCEPT ![i] = st],
              \/ outcome' = outcome /\ (Unmet(i) \/ st = "finished")
              \/ st \in {"finished", "signalled"} /\ \E o : outcome' = [outcome EXCEPT ![i] = o]
       PROVE  FutureInv'
  <2>1. InTask /\ pc \in {"dispatch", "aborting"}
    BY <1>10 DEF PoolRuns, InTask
  <2>2. /\ \A k \in Positions : k # i => thread'[k] = thread[k] /\ outcome'[k] = outcome[k]
        /\ thread'[i] = st
    BY <1>0, <1>10, <2>1
  <2>3. ~(st \in {"none", "submitted", "cleared", "calling"}) \/ outcome'[i] = "none"
    BY <1>10, <2>1 DEF FutureInv
  <2>4. pc = "dispatch" => i < next
    BY <1>10, <1>0 DEF FutureInv, Positions
  <2> QED BY <2>1, <2>2, <2>3, <2>4, <1>0, <1>10 DEF FutureInv, InTask, Unmet, Positions
<1>11. ASSUME NEW i \in Positions, CheckEvent(i) \/ BeginCall(i)
       PROVE  FutureInv'
  BY <1>11, <1>10 DEF CheckEvent, BeginCall, Unmet, ThreadState
<1>12. ASSUME NEW i \in Positions, NEW o \in Outcomes, EndCall(i, o)
       PROVE  FutureInv'
  BY <1>12, <1>10 DEF EndCall, ThreadState
<1>13. ASSUME NEW i \in Positions, ReturnFromQuota(i)
       PROVE  FutureInv'
  BY <1>13, <1>10 DEF ReturnFromQuota, ThreadState
<1>14. CASE Interrupt
  BY <1>14 DEF Interrupt, FutureInv, InTask, Unmet, Positions, Idle
<1>15. CASE WriteResults \/ PoolShutDown \/ WorkerLost
  <2>1. pc' \in {"done", "raised", "lost"}
    BY <1>15 DEF WriteResults, PoolShutDown, WorkerLost
  <2> QED BY <2>1 DEF FutureInv, InTask
<1>16. CASE UNCHANGED <<pc, pending, next, thread, outcome, success, failure>>
  BY <1>16 DEF FutureInv, InTask, Unmet, Positions
<1> QED
  BY <1>1, <1>2, <1>3, <1>4, <1>5, <1>6, <1>7, <1>8, <1>9, <1>11, <1>12, <1>13,
     <1>14, <1>15, <1>16
  DEF Next, Main, Thread, TtlPasses, vars

\* When the positions of the list are those of the map, either map of results
\* holds what the futures came to.
TellInv ==
  NoRepeat(input) =>
    /\ pc = "dispatch" => \A i \in success \cup failure : thread[i] = "finished"
    /\ pc \in {"dispatch", "update"} => /\ \A i \in success : outcome[i] = "saved"
                                        /\ \A i \in failure : outcome[i] # "saved"
    /\ pc \in {"write", "done"} =>
         \A i \in Positions :
           jobs[base + i].status = (IF outcome[i] = "saved" THEN "success" ELSE "failed")

LEMMA TellStep ==
  TypeOK /\ TypeOK' /\ MapOK /\ JobInv /\ WindowInv /\ ScanInv /\ FutureInv /\ TellInv
    /\ [Next]_vars => TellInv'
<1> SUFFICES ASSUME TypeOK, TypeOK', MapOK, JobInv, WindowInv, ScanInv, FutureInv,
                    TellInv, [Next]_vars
             PROVE  TellInv'
  OBVIOUS
<1> USE DEF task, pool, tally
<1>0. /\ next \in Nat \ {0} /\ Len(pending) \in Nat /\ base \in Nat
      /\ jobs \in Seq(Job) /\ DOMAIN jobs = 1..Len(jobs) /\ Len(jobs) \in Nat
      /\ success \subseteq Positions /\ failure \subseteq Positions
      /\ ready \subseteq Positions
  BY DEF TypeOK
<1>a. InTask => DOMAIN thread = Positions /\ DOMAIN outcome = Positions
  BY ThreadsInTask
<1>b. NoRepeat(input) => \A i \in Positions : JobOf(i) = i
  BY OwnJob
<1>1. CASE pc' \in {"scan", "mark", "open", "aborting", "raised", "rejected", "lost"}
  BY <1>1 DEF TellInv
<1>2. CASE CreateJobs
  <2>1. pc' = "mark" \/ (pc' = "done" /\ pending' = <<>>)
    BY <1>2 DEF CreateJobs
  <2> QED BY <2>1, <1>1, EmptySeq DEF TellInv, CreateJobs, Positions
<1>3. CASE OpenWindow
  <2>1. pc' = "dispatch" /\ success' = {} /\ failure' = {}
    BY <1>3 DEF OpenWindow, FutureInv
  <2> QED BY <2>1 DEF TellInv
<1>4. CASE Wait
  BY <1>4 DEF Wait, TellInv, NoRepeat, Positions
<1>5. ASSUME NEW i \in ready, Collect(i)
      PROVE  TellInv'
  <2> SUFFICES ASSUME NoRepeat(input')
               PROVE  /\ \A k \in success' \cup failure' : thread'[k] = "finished"
                      /\ \A k \in success' : outcome'[k] = "saved"
                      /\ \A k \in failure' : outcome'[k] # "saved"
    BY <1>5 DEF TellInv, Collect
  <2>1. pc = "dispatch" /\ UNCHANGED <<input, pending, outcome>> /\ NoRepeat(input)
    BY <1>5 DEF Collect, NoRepeat
  <2>2. thread[i] = "finished" /\ JobOf(i) = i
    BY <2>1, <1>0, <1>b DEF WindowInv, PoolRuns
  <2>3. /\ \A k \in success \cup failure : thread[k] = "finished"
        /\ \A k \in success : outcome[k] = "saved"
        /\ \A k \in failure : outcome[k] # "saved"
    BY <2>1 DEF TellInv
  <2>4. \/ outcome[i] = "saved" /\ success' = success \cup {i} /\ failure' = failure
        \/ outcome[i] # "saved" /\ failure' = failure \cup {i} /\ success' = success
    BY <1>5, <2>2 DEF Collect
  <2>5. \A k \in Positions : thread[k] = "finished" => thread'[k] = "finished"
    <3>1. CASE ~event /\ next \in Positions
      <4>1. thread' = [thread EXCEPT ![next] = "submitted"]
        BY <1>5, <3>1 DEF Collect, SubmitNext
      <4>2. thread[next] = "none"
        BY <2>1, <3>1, <1>0 DEF FutureInv
      <4> QED BY <4>1, <4>2
    <3>2. CASE ~(~event /\ next \in Positions)
      BY <1>5, <3>2 DEF Collect, SubmitNext
    <3> QED BY <3>1, <3>2
  <2> QED BY <2>1, <2>2, <2>3, <2>4, <2>5, <1>0
<1>6. CASE CloseWindow
  <2> SUFFICES ASSUME NoRepeat(input')
               PROVE  /\ \A k \in success' : outcome'[k] = "saved"
                      /\ \A k \in failure' : outcome'[k] # "saved"
    BY <1>6 DEF TellInv, CloseWindow
  <2>1. /\ pc = "dispatch" /\ UNCHANGED <<input, pending, outcome, success>>
        /\ NoRepeat(input)
        /\ failure' = IF event THEN failure \cup {JobOf(i) : i \in next..Len(pending)}
                               ELSE failure
    BY <1>6 DEF CloseWindow, NoRepeat
  <2>2. \A i \in next..Len(pending) : JobOf(i) = i /\ outcome[i] = "none"
    <3> TAKE i \in next..Len(pending)
    <3>1. i \in Positions /\ i >= next
      BY <1>0 DEF Positions
    <3>2. thread[i] = "none"
      BY <3>1, <2>1 DEF FutureInv
    <3>3. outcome[i] = "none"
      BY <3>1, <3>2, <2>1 DEF FutureInv, InTask, Unmet
    <3> QED BY <3>1, <3>3, <2>1, <1>b
  <2>3. /\ \A k \in success : outcome[k] = "saved"
        /\ \A k \in failure : outcome[k] # "saved"
    BY <2>1 DEF TellInv
  <2> QED BY <2>1, <2>2, <2>3
<1>7. CASE UpdateJobs
  <2> SUFFICES ASSUME NoRepeat(input'), NEW i \in Positions'
               PROVE  jobs'[base' + i].status
                        = (IF outcome'[i] = "saved" THEN "success" ELSE "failed")
    BY <1>7 DEF TellInv, UpdateJobs
  <2>1. /\ pc = "update" /\ UNCHANGED <<input, pending, outcome, base>>
        /\ NoRepeat(input) /\ i \in Positions
        /\ jobs' = [j \in DOMAIN jobs |->
                IF j - base \in failure THEN [jobs[j] EXCEPT !.status = "failed"]
                ELSE IF j - base \in success
                THEN [jobs[j] EXCEPT !.status = "success"]
                ELSE jobs[j]]
    BY <1>7 DEF UpdateJobs, NoRepeat, Positions
  <2>2. i \in success \cup failure
    BY <2>1, <1>b DEF JobInv, AllTold, Told
  <2>3. i \in success => outcome[i] = "saved"
    BY <2>1 DEF TellInv
  <2>4. i \in failure => outcome[i] # "saved"
    BY <2>1 DEF TellInv
  <2>5. Len(jobs) = base + Len(pending)
    BY <2>1 DEF JobInv, OwnJobs, InTask
  <2>6. base + i \in DOMAIN jobs /\ (base + i) - base = i
    BY <2>5, <2>1, <1>0 DEF Positions
  <2>7. jobs[base + i] \in Job
    BY <2>6, <1>0
  <2>8. jobs'[base + i].status = IF i \in failure THEN "failed" ELSE "success"
    BY <2>1, <2>2, <2>6, <2>7 DEF Job
  <2> QED BY <2>1, <2>2, <2>3, <2>4, <2>8
<1>8. CASE WriteResults
  BY <1>8 DEF WriteResults, TellInv, NoRepeat, Positions
<1>9. ASSUME NEW i \in Positions, NEW st \in ThreadState,
             PoolRuns, UNCHANGED <<pc, input, pending, success, failure>>,
             thread[i] # "finished",
             thread' = [thread EXCEPT ![i] = st],
             outcome' = outcome \/ \E o : outcome' = [outcome EXCEPT ![i] = o]
      PROVE  TellInv'
  <2> SUFFICES ASSUME NoRepeat(input'), pc' = "dispatch"
               PROVE  /\ \A k \in success' \cup failure' : thread'[k] = "finished"
                      /\ \A k \in success' : outcome'[k] = "saved"
                      /\ \A k \in failure' : outcome'[k] # "saved"
    BY <1>9 DEF TellInv, PoolRuns
  <2>1. /\ \A k \in success \cup failure : thread[k] = "finished"
        /\ \A k \in success : outcome[k] = "saved"
        /\ \A k \in failure : outcome[k] # "saved"
    BY <1>9 DEF TellInv, NoRepeat
  <2>2. \A k \in success \cup failure : thread'[k] = thread[k] /\ outcome'[k] = outcome[k]
    <3>1. \A k \in success \cup failure : k # i /\ k \in Positions
      BY <2>1, <1>9, <1>0
    <3>2. DOMAIN thread = Positions /\ DOMAIN outcome = Positions
      BY <1>9, <1>a DEF PoolRuns, InTask
    <3>3. \A k \in Positions : k # i => outcome'[k] = outcome[k]
      BY <3>2, <1>9
    <3> QED BY <3>1, <3>2, <3>3, <1>9
  <2> QED BY <2>1, <2>2, <1>9
<1>10. ASSUME NEW i \in Positions, CheckEvent(i) \/ BeginCall(i)
       PROVE  TellInv'
  BY <1>10, <1>9 DEF CheckEvent, BeginCall, ThreadState
<1>11. ASSUME NEW i \in Positions, NEW o \in Outcomes, EndCall(i, o)
       PROVE  TellInv'
  BY <1>11, <1>9 DEF EndCall, ThreadState
<1>12. ASSUME NEW i \in Positions, ReturnFromQuota(i)
       PROVE  TellInv'
  BY <1>12, <1>9 DEF ReturnFromQuota, ThreadState
<1>13. CASE UNCHANGED <<jobs, pc, input, pending, base, thread, outcome, success, failure>>
  BY <1>13 DEF TellInv, NoRepeat, Positions
<1>14. CASE MarkProcessing \/ Interrupt \/ PoolShutDown \/ WorkerLost
  <2>1. pc' \in {"open", "aborting", "raised", "lost"}
    BY <1>14 DEF MarkProcessing, Interrupt, PoolShutDown, WorkerLost
  <2> QED BY <2>1, <1>1
<1>15. ASSUME NEW list \in Inputs, NEW forced \in BOOLEAN, Receive(list, forced)
       PROVE  TellInv'
  BY <1>1, <1>15 DEF Receive
<1>16. CASE ScanUrl
  <2>1. pc' \in {"scan", "rejected"}
    BY <1>16 DEF ScanUrl
  <2> QED BY <2>1, <1>1
<1>17. ASSUME NEW i \in ready, CollectFatal(i)
       PROVE  TellInv'
  BY <1>1, <1>17 DEF CollectFatal
<1> QED
  BY <1>2, <1>3, <1>4, <1>5, <1>6, <1>7, <1>8, <1>10, <1>11, <1>12, <1>13, <1>14,
     <1>15, <1>16, <1>17
  DEF Next, Main, Thread, TtlPasses, vars

-----------------------------------------------------------------------------
(* What a later task takes up again.                                       *)

\* What a task that is not forced has left out is as the preflight found it.
AwaitInv ==
  /\ pc = "scan" => outcome = <<>>
  /\ ~force /\ NoRepeat(input) =>
       \A i \in Positions : LeftOut(i) => NeedsAnalysis(sites[pending[i]])

LEMMA AnalysedIsNotNeeded ==
  ASSUME NEW site, NeedsAnalysis(site)
  PROVE  ~Complete(site)
BY DEF NeedsAnalysis, Complete, Exists, IsFailedAnalysis, NULL

\* Time makes no site less in need of its analysis.
LEMMA TimeAsksForMore ==
  ASSUME NEW site \in Site, NeedsAnalysis(site)
  PROVE  NeedsAnalysis(Expired(site))
BY DEF NeedsAnalysis, Expired, Site, Exists, IsFailedAnalysis, IsUnreachableBlocked

LEMMA AwaitStep ==
  TypeOK /\ TypeOK' /\ JobInv /\ ScanInv /\ FutureInv /\ AwaitInv /\ [Next]_vars
    => AwaitInv'
<1> SUFFICES ASSUME TypeOK, TypeOK', JobInv, ScanInv, FutureInv, AwaitInv, [Next]_vars
             PROVE  AwaitInv'
  OBVIOUS
<1> USE DEF task, pool, tally
<1>0. /\ Len(pending) \in Nat /\ sites \in [Urls -> Site] /\ pending \in Seq(Urls)
      /\ DOMAIN pending = Positions
  BY DEF TypeOK, Positions
<1>a. InTask => DOMAIN thread = Positions /\ DOMAIN outcome = Positions
  BY ThreadsInTask
<1>b. \A i \in Positions : pending[i] \in Urls
  BY <1>0 DEF Positions
<1>c. InTask => \A i \in Positions : Unmet(i) => LeftOut(i)
  BY DEF FutureInv, LeftOut
<1>1. ASSUME NEW list \in Inputs, NEW forced \in BOOLEAN, Receive(list, forced)
      PROVE  AwaitInv'
  BY <1>1 DEF Receive, AwaitInv, Positions
<1>2. CASE ScanUrl
  <2> DEFINE u == input[scanned + 1]
  <2>1. /\ pc = "scan" /\ UNCHANGED <<sites, input, force, outcome>> /\ outcome = <<>>
        /\ \/ pending' = pending
           \/ pending' = Append(pending, u) /\ (force \/ NeedsAnalysis(sites[u]))
    BY <1>2 DEF ScanUrl, AwaitInv
  <2> SUFFICES ASSUME ~force', NoRepeat(input'), NEW i \in Positions'
               PROVE  NeedsAnalysis(sites'[pending'[i]])
    BY <2>1 DEF AwaitInv
  <2>2. \A k \in Positions : NeedsAnalysis(sites[pending[k]])
    BY <2>1 DEF AwaitInv, NoRepeat, LeftOut
  <2>3. CASE pending' = pending
    BY <2>1, <2>2, <2>3 DEF Positions
  <2>4. CASE pending' = Append(pending, u) /\ NeedsAnalysis(sites[u])
    <3>1. /\ i \in Positions \/ i = Len(pending) + 1
          /\ \A k \in Positions : pending'[k] = pending[k]
          /\ pending'[Len(pending) + 1] = u
      <4>1. u \in Urls
        BY <1>2 DEF ScanUrl, TypeOK
      <4> QED BY <1>0, <2>4, <4>1 DEF Positions
    <3> QED BY <2>1, <2>2, <2>4, <3>1
  <2> QED BY <2>1, <2>3, <2>4
<1>3. CASE CreateJobs
  <2>1. pc = "scan" /\ pc' \in {"done", "mark"} /\ UNCHANGED <<sites, force, input, pending>>
    BY <1>3 DEF CreateJobs
  <2>2. \A i \in Positions : LeftOut(i)
    BY <2>1 DEF AwaitInv, LeftOut
  <2> QED BY <2>1, <2>2 DEF AwaitInv, Positions, NoRepeat
<1>4. ASSUME pc' # "scan", UNCHANGED <<sites, force, input, pending>>,
             \A i \in Positions : LeftOut(i)' => LeftOut(i)
      PROVE  AwaitInv'
  BY <1>4 DEF AwaitInv, Positions, NoRepeat
<1>5. CASE \/ MarkProcessing \/ OpenWindow \/ Wait \/ CloseWindow \/ UpdateJobs
           \/ WriteResults \/ Interrupt \/ PoolShutDown \/ WorkerLost
  <2>1. pc' # "scan" /\ UNCHANGED <<sites, force, input, pending, outcome>>
    <3>1. UNCHANGED <<sites, force, input, pending, outcome>>
      BY <1>5
      DEF MarkProcessing, OpenWindow, Wait, CloseWindow, UpdateJobs, WriteResults,
          Interrupt, PoolShutDown, WorkerLost
    <3>2. pc' # "scan"
      BY <1>5
      DEF MarkProcessing, OpenWindow, Wait, CloseWindow, UpdateJobs, WriteResults,
          Interrupt, PoolShutDown, WorkerLost
    <3> QED BY <3>1, <3>2
  <2> QED BY <2>1, <1>4 DEF LeftOut
<1>7. ASSUME NEW i \in ready, Collect(i)
      PROVE  AwaitInv'
  BY <1>7, <1>4 DEF Collect, LeftOut
<1>8. ASSUME NEW i \in ready, CollectFatal(i)
      PROVE  AwaitInv'
  BY <1>8, <1>4 DEF CollectFatal, LeftOut
<1>9. ASSUME NEW i \in Positions, CheckEvent(i) \/ BeginCall(i) \/ ReturnFromQuota(i)
      PROVE  AwaitInv'
  <2>1. InTask /\ pc' = pc /\ pc # "scan" /\ UNCHANGED <<sites, force, input, pending>>
    BY <1>9 DEF CheckEvent, BeginCall, ReturnFromQuota, PoolRuns, InTask
  <2>2. CASE outcome' = outcome
    BY <2>1, <2>2, <1>4 DEF LeftOut
  <2>3. CASE outcome' = [outcome EXCEPT ![i] = "skipped"] /\ thread[i] = "submitted"
    <3>1. LeftOut(i)
      BY <2>1, <2>3, <1>c DEF Unmet
    <3>2. \A k \in Positions : k # i => (LeftOut(k)' <=> LeftOut(k))
      BY <2>1, <2>3, <1>a DEF LeftOut
    <3> QED BY <2>1, <3>1, <3>2, <1>4
  <2> QED BY <1>9, <2>2, <2>3 DEF CheckEvent, BeginCall, ReturnFromQuota
<1>10. ASSUME NEW i \in Positions, NEW o \in Outcomes, EndCall(i, o)
       PROVE  AwaitInv'
  <2>1. /\ InTask /\ pc' = pc /\ pc # "scan" /\ UNCHANGED <<force, input, pending>>
        /\ outcome' = [outcome EXCEPT ![i] = o] /\ thread[i] = "calling"
    BY <1>10 DEF EndCall, PoolRuns, InTask
  <2>2. PICK row \in SitesAfter(sites[pending[i]], o) :
          sites' = [sites EXCEPT ![pending[i]] = row]
    BY <1>10 DEF EndCall
  <2>3. LeftOut(i)
    BY <2>1, <1>c DEF Unmet
  <2> SUFFICES ASSUME ~force', NoRepeat(input'), NEW k \in Positions, LeftOut(k)'
               PROVE  NeedsAnalysis(sites'[pending[k]])
    BY <2>1 DEF AwaitInv, Positions
  <2>4. CASE k = i
    <3>1. o \in {"none", "skipped", "quota", "transient", "not saved"}
      BY <2>1, <2>4, <1>a DEF LeftOut
    <3>2. o \notin {"saved", "gone", "denied", "silent"}
      BY <3>1
    <3>3. row = sites[pending[i]]
      BY <2>2, <3>2, Zenon DEF SitesAfter
    <3>4. sites' = sites
      BY <2>2, <3>3, <1>0, <1>b
    <3> QED BY <2>1, <2>3, <2>4, <3>4 DEF AwaitInv, NoRepeat
  <2>5. CASE k # i
    <3>1. pending[k] # pending[i]
      BY <2>1, <2>5, <1>0 DEF ScanInv, NoRepeat
    <3>2. sites'[pending[k]] = sites[pending[k]]
      BY <2>2, <3>1, <1>0, <1>b
    <3>3. LeftOut(k)
      BY <2>1, <2>5, <1>a DEF LeftOut
    <3> QED BY <2>1, <3>2, <3>3 DEF AwaitInv, NoRepeat
  <2> QED BY <2>4, <2>5
<1>11. ASSUME NEW u \in Urls, TtlPasses(u)
       PROVE  AwaitInv'
  <2>1. /\ UNCHANGED <<pc, force, input, pending, outcome>>
        /\ sites' = [sites EXCEPT ![u] = Expired(sites[u])]
    BY <1>11 DEF TtlPasses
  <2>2. \A w \in Urls : NeedsAnalysis(sites[w]) => NeedsAnalysis(sites'[w])
    BY <2>1, <1>0, TimeAsksForMore
  <2> QED BY <2>1, <2>2, <1>b DEF AwaitInv, LeftOut, Positions, NoRepeat
<1>12. CASE UNCHANGED vars
  BY <1>12 DEF vars, AwaitInv, LeftOut, Positions, NoRepeat
<1> QED
  BY <1>1, <1>2, <1>3, <1>5, <1>7, <1>8, <1>9, <1>10, <1>11, <1>12
  DEF Next, Main, Thread

-----------------------------------------------------------------------------
(* How the rows of the jobs move.                                          *)

\* The rows of a task's jobs until they are settled.
StatusInv ==
  /\ success \cup failure \subseteq Mapped
  /\ pc = "mark" => \A p \in Positions : jobs[base + p].status = "pending"
  /\ pc \in {"open", "dispatch", "update"} =>
       \A p \in Mapped : jobs[base + p].status = "processing"

LEMMA StatusStep ==
  TypeOK /\ TypeOK' /\ MapOK /\ JobInv /\ FutureInv /\ StatusInv /\ [Next]_vars
    => StatusInv'
<1> SUFFICES ASSUME TypeOK, TypeOK', MapOK, JobInv, FutureInv, StatusInv, [Next]_vars
             PROVE  StatusInv'
  OBVIOUS
<1> USE DEF task, pool, tally
<1>0. /\ Len(pending) \in Nat /\ base \in Nat /\ next \in Nat \ {0}
      /\ jobs \in Seq(Job) /\ DOMAIN jobs = 1..Len(jobs) /\ Len(jobs) \in Nat
      /\ ready \subseteq Positions
  BY DEF TypeOK
<1>1. ASSUME NEW list \in Inputs, NEW forced \in BOOLEAN, Receive(list, forced)
      PROVE  StatusInv'
  BY <1>1 DEF Receive, StatusInv
<1>2. CASE ScanUrl
  BY <1>2 DEF ScanUrl, FutureInv, StatusInv
<1>3. CASE CreateJobs
  <2> DEFINE new == [i \in Positions |-> NewJob(pending[i])]
  <2>1. new \in Seq(Job) /\ Len(new) = Len(pending)
    BY NewJobs
  <2>2. /\ base = Len(jobs) /\ jobs' = jobs \o new
        /\ UNCHANGED <<pending, base, lastOf, success, failure>>
        /\ pc' \in {"done", "mark"}
    BY <1>3 DEF CreateJobs, JobInv, OwnJobs
  <2>3. ASSUME NEW p \in Positions PROVE jobs'[base + p].status = "pending"
    <3> HIDE DEF new
    <3>1. base + p \in Len(jobs)+1 .. Len(jobs)+Len(new) /\ (base + p) - Len(jobs) = p
      BY <2>1, <2>2, <1>0 DEF Positions
    <3>2. jobs'[base + p] = new[p]
      BY <3>1, <2>1, <2>2, <1>0
    <3> QED BY <3>2 DEF NewJob, new
  <2> QED BY <2>2, <2>3 DEF StatusInv, Mapped, JobOf, Positions
<1>4. CASE MarkProcessing
  <2>1. /\ jobs' = SetStatus(Mapped, "processing") /\ pc = "mark" /\ pc' = "open"
        /\ UNCHANGED <<pending, base, lastOf, success, failure>>
    BY <1>4 DEF MarkProcessing
  <2>2. ASSUME NEW p \in Mapped PROVE jobs'[base + p].status = "processing"
    <3>1. base + p \in DOMAIN jobs /\ (base + p) - base = p
      BY <2>1, <1>0 DEF JobInv, OwnJobs, InTask, Mapped, Positions
    <3>2. jobs[base + p] \in Job
      BY <3>1, <1>0
    <3> QED BY <2>1, <3>1, <3>2 DEF SetStatus, Job
  <2> QED BY <2>1, <2>2 DEF StatusInv, Mapped, JobOf, Positions
<1>5. ASSUME NEW i \in ready, Collect(i)
      PROVE  StatusInv'
  <2>1. JobOf(i) \in Mapped
    BY <1>0, JobOfPosition
  <2> QED BY <1>5, <2>1 DEF Collect, StatusInv, Mapped, JobOf, Positions
<1>6. ASSUME NEW i \in ready, CollectFatal(i)
      PROVE  StatusInv'
  BY <1>6 DEF CollectFatal, StatusInv, Mapped, JobOf, Positions
<1>7. CASE CloseWindow
  <2>1. {JobOf(i) : i \in next..Len(pending)} \subseteq Mapped
    <3> SUFFICES ASSUME NEW i \in next..Len(pending) PROVE JobOf(i) \in Mapped
      OBVIOUS
    <3>1. i \in Positions
      BY <1>0 DEF Positions
    <3> QED BY <3>1, JobOfPosition
  <2>2. /\ pc = "dispatch" /\ pc' = "update" /\ UNCHANGED <<jobs, pending, base, lastOf, success>>
        /\ failure' \subseteq failure \cup {JobOf(i) : i \in next..Len(pending)}
    BY <1>7 DEF CloseWindow
  <2> QED BY <2>1, <2>2 DEF StatusInv, Mapped, JobOf, Positions
<1>8. CASE \/ UpdateJobs \/ WriteResults \/ Interrupt \/ PoolShutDown \/ WorkerLost
  <2>1. /\ UNCHANGED <<pending, lastOf, success, failure>>
        /\ pc' \in {"write", "done", "aborting", "raised", "lost"}
    BY <1>8 DEF UpdateJobs, WriteResults, Interrupt, PoolShutDown, WorkerLost
  <2> QED BY <2>1 DEF StatusInv, Mapped, JobOf, Positions
<1>9. CASE OpenWindow
  BY <1>9 DEF OpenWindow, StatusInv, Mapped, JobOf, Positions
<1>10. CASE UNCHANGED <<jobs, pc, pending, base, lastOf, success, failure>>
  BY <1>10 DEF StatusInv, Mapped, JobOf, Positions
<1> QED
  BY <1>1, <1>2, <1>3, <1>4, <1>5, <1>6, <1>7, <1>8, <1>9, <1>10
  DEF Next, Main, Thread, Wait, CheckEvent, BeginCall, EndCall, ReturnFromQuota, TtlPasses, vars

LEMMA InitTold == Init => ScanInv /\ FutureInv /\ TellInv /\ AwaitInv /\ StatusInv
BY DEF Init, ScanInv, FutureInv, TellInv, AwaitInv, StatusInv, InTask, Positions, NoRepeat

LEMMA ToldInv ==
  Spec => [](/\ TypeOK /\ MapOK /\ JobInv /\ WindowInv
             /\ ScanInv /\ FutureInv /\ TellInv /\ AwaitInv /\ StatusInv)
<1>1. Spec => [](TypeOK /\ MapOK /\ JobInv /\ WindowInv)
  BY BulkInv, WindowAlways, PTL
<1>2. TypeOK /\ TypeOK' /\ MapOK /\ JobInv /\ WindowInv
        /\ ScanInv /\ FutureInv /\ TellInv /\ AwaitInv /\ StatusInv /\ [Next]_vars
      => ScanInv' /\ FutureInv' /\ TellInv' /\ AwaitInv' /\ StatusInv'
  BY ScanStep, FutureStep, TellStep, AwaitStep, StatusStep
<1> QED BY <1>1, <1>2, InitTold, PTL DEF Spec

\* When no URL occurs twice, the job of a URL tells what became of its own
\* analysis, whatever the order in which the futures were collected and wherever
\* the quota ended the run.
THEOREM JobsTellOutcome == Spec => []JobTellsOutcome
<1>1. TypeOK /\ TellInv => JobTellsOutcome
  BY DistinctMeansNoRepeat DEF TellInv, JobTellsOutcome
<1> QED BY <1>1, ToldInv, PTL

-----------------------------------------------------------------------------
(* The steps of a task run out.                                            *)

\* The URLs to analyse are some of those read, so that no count of those left
\* out is negative.
ReadInv == Len(pending) <= scanned

LEMMA ReadStep ==
  ASSUME TypeOK, ReadInv, [Next]_vars
  PROVE  ReadInv'
<1> USE DEF task, pool, tally
<1>1. Len(pending) \in Nat /\ scanned \in Nat /\ pending \in Seq(Urls) /\ input \in Seq(Urls)
      /\ Len(input) \in Nat
  BY DEF TypeOK
<1>2. ASSUME NEW list \in Inputs, NEW forced \in BOOLEAN, Receive(list, forced)
      PROVE  ReadInv'
  <2>1. pending' = <<>> /\ scanned' = 0
    BY <1>2 DEF Receive
  <2>2. Len(pending') = 0
    BY <2>1
  <2> QED BY <2>1, <2>2 DEF ReadInv
<1>3. CASE ScanUrl
  <2>1. CASE UNCHANGED <<scanned, pending>>
    BY <2>1 DEF ReadInv
  <2>2. CASE scanned' = scanned + 1 /\ pending' = pending
    BY <1>1, <2>2 DEF ReadInv
  <2>3. CASE scanned' = scanned + 1 /\ pending' = Append(pending, input[scanned + 1])
                                    /\ scanned < Len(input)
    <3>1. input[scanned + 1] \in Urls
      BY <1>1, <2>3
    <3>2. Len(pending') = Len(pending) + 1
      BY <1>1, <2>3, <3>1
    <3> QED BY <1>1, <2>3, <3>2 DEF ReadInv
  <2> QED BY <1>3, <2>1, <2>2, <2>3 DEF ScanUrl
<1>4. CASE UNCHANGED <<scanned, pending>>
  BY <1>4 DEF ReadInv
<1> QED
  BY <1>2, <1>3, <1>4
  DEF Next, Main, CreateJobs, MarkProcessing, OpenWindow, Wait, CloseWindow, Collect,
      CollectFatal, UpdateJobs, WriteResults, PoolShutDown, Thread, CheckEvent, BeginCall, EndCall,
      ReturnFromQuota, Interrupt, WorkerLost, TtlPasses, vars

LEMMA FutureIs ==
  ASSUME NEW i
  PROVE  /\ FutureLeft(i) \in 0..7 /\ FutureLeft(i)' \in 0..7
         /\ pc \in {"scan", "mark", "open"} => FutureLeft(i) = 7
         /\ pc' \in {"scan", "mark", "open"} => FutureLeft(i)' = 7
         /\ pc' \notin {"scan", "mark", "open", "dispatch", "aborting"} => FutureLeft(i)' = 0
<1>1. FutureLeft(i) \in 0..7
  BY DEF FutureLeft
<1>2. FutureLeft(i)' \in 0..7
  BY DEF FutureLeft
<1>3. pc \in {"scan", "mark", "open"} => FutureLeft(i) = 7
  BY DEF FutureLeft
<1>4. pc' \in {"scan", "mark", "open"} => FutureLeft(i)' = 7
  BY DEF FutureLeft
<1>5. pc' \notin {"scan", "mark", "open", "dispatch", "aborting"} => FutureLeft(i)' = 0
  BY DEF FutureLeft, PoolRuns
<1> QED BY <1>1, <1>2, <1>3, <1>4, <1>5

\* The main thread leaves a stage for a later one.
LEMMA StageEnds ==
  ASSUME TypeOK, pc \notin Idle, UNCHANGED <<input, scanned>> \/ pc' # "scan",
         StageLeft' < StageLeft, pc' # "scan",
         \/ pc \in {"scan", "mark", "open"}
         \/ pc' \notin {"scan", "mark", "open", "dispatch", "aborting"}
         \/ \A i \in DOMAIN input : FutureLeft(i)' <= FutureLeft(i)
  PROVE  NothingGrows /\ SomethingShrinks
<1>1. ListLeft' <= ListLeft
  <2>1. ListLeft' = 0
    BY DEF ListLeft
  <2>2. ListLeft \in Nat
    BY DEF ListLeft, TypeOK
  <2> QED BY <2>1, <2>2
<1>2. \A i \in DOMAIN input : FutureLeft(i)' <= FutureLeft(i)
  BY FutureIs
<1>3. StageLeft \in Int /\ StageLeft' \in Int
  BY DEF StageLeft
<1>4. StageLeft' <= StageLeft
  BY <1>3
<1> QED BY <1>1, <1>2, <1>4 DEF NothingGrows, SomethingShrinks

LEMMA MainComesNearer ==
  ASSUME TypeOK, pc \notin Idle,
         \/ CreateJobs \/ MarkProcessing \/ OpenWindow \/ CloseWindow \/ UpdateJobs
         \/ WriteResults \/ PoolShutDown \/ Interrupt \/ WorkerLost
         \/ \E i \in ready : CollectFatal(i)
  PROVE  NothingGrows /\ SomethingShrinks
<1>1. pc \in ControlState
  BY DEF TypeOK
<1>2. pc' # "scan" /\ StageLeft' < StageLeft
  BY <1>1 DEF CreateJobs, MarkProcessing, OpenWindow, CloseWindow, UpdateJobs, WriteResults,
     PoolShutDown, Interrupt, WorkerLost, CollectFatal, StageLeft, Idle, ControlState
<1>3. CASE pc' \in {"dispatch", "aborting"} /\ pc \notin {"scan", "mark", "open"}
  <2>1. /\ pc = "dispatch" /\ pc' = "aborting" /\ UNCHANGED <<thread, ready>>
        /\ active' \subseteq active
    BY <1>3 DEF CreateJobs, MarkProcessing, OpenWindow, CloseWindow, UpdateJobs,
       WriteResults, PoolShutDown, Interrupt, WorkerLost, CollectFatal, Idle, pool
  <2>2. ASSUME NEW i \in DOMAIN input PROVE FutureLeft(i)' <= FutureLeft(i)
    BY <2>1 DEF FutureLeft, PoolRuns
  <2> QED BY <1>2, <2>2, StageEnds
<1>4. CASE pc \in {"scan", "mark", "open"} \/ pc' \notin {"scan", "mark", "open", "dispatch", "aborting"}
  BY <1>2, <1>4, StageEnds
<1>5. pc' \in {"mark", "open"} => pc \in {"scan", "mark", "open"}
  BY DEF CreateJobs, MarkProcessing, OpenWindow, CloseWindow, UpdateJobs,
     WriteResults, PoolShutDown, Interrupt, WorkerLost, CollectFatal, Idle
<1> QED BY <1>2, <1>3, <1>4, <1>5

LEMMA ScanComesNearer ==
  ASSUME TypeOK, ScanUrl
  PROVE  NothingGrows /\ SomethingShrinks
<1>1. pc = "scan" /\ scanned \in Nat /\ scanned < Len(input) /\ Len(input) \in Nat
      /\ input' = input
  BY DEF ScanUrl, TypeOK
<1>2. CASE pc' = "rejected"
  <2>1. StageLeft' < StageLeft
    BY <1>1, <1>2 DEF StageLeft
  <2>2. pc \notin Idle
    BY <1>1 DEF Idle
  <2> QED BY <1>1, <1>2, <2>1, <2>2, StageEnds
<1>3. CASE pc' = pc /\ scanned' = scanned + 1
  <2>1. ListLeft = Len(input) - scanned /\ ListLeft' = Len(input) - (scanned + 1)
    BY <1>1, <1>3 DEF ListLeft
  <2>2. ListLeft' < ListLeft /\ ListLeft' <= ListLeft
    BY <1>1, <2>1
  <2>3. StageLeft' <= StageLeft
    BY <1>1, <1>3 DEF StageLeft
  <2>4. ASSUME NEW i \in DOMAIN input PROVE FutureLeft(i)' <= FutureLeft(i)
    BY <1>1, <1>3, FutureIs
  <2> QED BY <2>2, <2>3, <2>4 DEF NothingGrows, SomethingShrinks
<1> QED BY <1>2, <1>3 DEF ScanUrl

\* A future comes nearer to being collected, and no other goes back.
LEMMA FutureComesNearer ==
  ASSUME TypeOK, ReadInv, UNCHANGED <<pc, input, scanned>>, PoolRuns,
         \A k \in DOMAIN input : FutureLeft(k)' <= FutureLeft(k),
         NEW i \in Positions, FutureLeft(i)' < FutureLeft(i)
  PROVE  NothingGrows /\ SomethingShrinks
<1>1. i \in DOMAIN input
  BY DEF TypeOK, ReadInv, Positions
<1>2. StageLeft' <= StageLeft
  BY DEF StageLeft
<1>3. ListLeft' <= ListLeft
  BY DEF ListLeft, PoolRuns
<1> QED BY <1>1, <1>2, <1>3 DEF NothingGrows, SomethingShrinks

LEMMA WaitComesNearer ==
  ASSUME TypeOK, JobInv, ReadInv, Wait
  PROVE  NothingGrows /\ SomethingShrinks
<1>1. /\ pc = "dispatch" /\ pc' = "dispatch" /\ ready = {} /\ PoolRuns
      /\ UNCHANGED <<input, scanned, pending, thread, active>>
      /\ ready' = {i \in active : thread[i] = "finished"}
  BY DEF Wait, task, PoolRuns
<1>2. DOMAIN thread = Positions /\ active \subseteq Positions
  BY <1>1, ThreadsInTask DEF TypeOK, InTask
<1>3. PICK i \in active : thread[i] = "finished"
  BY DEF Wait
<1>4. \A k \in DOMAIN input : FutureLeft(k)' <= FutureLeft(k)
  BY <1>1 DEF FutureLeft, PoolRuns
<1>5. FutureLeft(i) = 2 /\ FutureLeft(i)' = 1
  BY <1>1, <1>2, <1>3 DEF FutureLeft, PoolRuns
<1>6. FutureLeft(i)' < FutureLeft(i) /\ i \in Positions
  BY <1>2, <1>5
<1> QED BY <1>1, <1>4, <1>6, FutureComesNearer

LEMMA CollectComesNearer ==
  ASSUME TypeOK, JobInv, WindowInv, FutureInv, ReadInv, NEW i \in ready, Collect(i)
  PROVE  NothingGrows /\ SomethingShrinks
<1>1. /\ pc = "dispatch" /\ pc' = "dispatch" /\ PoolRuns
      /\ UNCHANGED <<input, scanned, pending>> /\ ready' = ready \ {i}
      /\ \/ active' = active \ {i} /\ thread' = thread
         \/ /\ next \in Positions /\ active' = (active \ {i}) \cup {next}
            /\ thread' = [thread EXCEPT ![next] = "submitted"]
  BY DEF Collect, SubmitNext, task, PoolRuns
<1>2. DOMAIN thread = Positions /\ active \subseteq Positions
  BY <1>1, ThreadsInTask DEF TypeOK, InTask
<1>3. /\ thread[i] = "finished" /\ i \in active /\ i < next /\ next \in Nat
      /\ next \in Positions => thread[next] = "none"
      /\ i \in Positions
  BY <1>1, <1>2 DEF WindowInv, FutureInv, TypeOK
<1>4. i # next
  BY <1>3
<1>5. FutureLeft(i) = 1 /\ FutureLeft(i)' = 0
  BY <1>1, <1>2, <1>3, <1>4 DEF FutureLeft, PoolRuns
<1>6. ASSUME NEW k \in DOMAIN input PROVE FutureLeft(k)' <= FutureLeft(k)
  <2>1. CASE k = i
    BY <1>5, <2>1
  <2>2. CASE k # i /\ (k # next \/ (thread' = thread /\ active' = active \ {i}))
    BY <1>1, <1>2, <2>2 DEF FutureLeft, PoolRuns
  <2>3. CASE k = next /\ next \in Positions
    <3>1. FutureLeft(k) = 7
      BY <1>1, <1>2, <1>3, <2>3 DEF FutureLeft, PoolRuns
    <3> QED BY <3>1, FutureIs
  <2> QED BY <1>1, <2>1, <2>2, <2>3
<1>7. FutureLeft(i)' < FutureLeft(i)
  BY <1>5
<1> QED BY <1>1, <1>3, <1>6, <1>7, FutureComesNearer

LEMMA ThreadComesNearer ==
  ASSUME TypeOK, JobInv, ReadInv, NEW i \in Positions, Thread(i)
  PROVE  NothingGrows /\ SomethingShrinks
<1>1. /\ PoolRuns /\ UNCHANGED <<pc, input, scanned, pending, active, ready>>
      /\ \/ thread[i] = "submitted" /\ thread' = [thread EXCEPT ![i] = "cleared"]
         \/ thread[i] = "cleared" /\ thread' = [thread EXCEPT ![i] = "calling"]
         \/ thread[i] = "calling" /\ thread' = [thread EXCEPT ![i] = "signalled"]
         \/ /\ thread[i] \in {"submitted", "calling", "signalled"}
            /\ thread' = [thread EXCEPT ![i] = "finished"]
  BY DEF Thread, CheckEvent, BeginCall, EndCall, ReturnFromQuota, task
<1>2. DOMAIN thread = Positions
  BY <1>1, ThreadsInTask DEF InTask, PoolRuns
<1>3. FutureLeft(i)' < FutureLeft(i)
  BY <1>1, <1>2 DEF FutureLeft, PoolRuns
<1>4. ASSUME NEW k \in DOMAIN input PROVE FutureLeft(k)' <= FutureLeft(k)
  <2>1. CASE k = i
    BY <1>3, <2>1, FutureIs
  <2>2. CASE k # i
    BY <1>1, <1>2, <2>2 DEF FutureLeft, PoolRuns
  <2> QED BY <2>1, <2>2
<1> QED BY <1>1, <1>3, <1>4, FutureComesNearer

\* With BulkNeverStalls, the safety half of TaskEnds: whatever a thread tells and
\* wherever an exception strikes, no future is handed out or met twice, and
\* there are at most six steps for the task and eight for each of its URLs.
THEOREM BulkStepsRunOut == Spec => StepsRunOut
<1>1. Init => ReadInv
  BY DEF Init, ReadInv
<1>2. TypeOK /\ JobInv /\ WindowInv /\ FutureInv /\ ReadInv /\ [Next]_vars =>
        [pc \notin Idle =>
           NothingGrows /\ (SomethingShrinks \/ UNCHANGED <<jobs, pc, task, pool, tally>>)]_vars
  <2> SUFFICES ASSUME TypeOK, JobInv, WindowInv, FutureInv, ReadInv, Next, pc \notin Idle
               PROVE  /\ NothingGrows
                      /\ SomethingShrinks \/ UNCHANGED <<jobs, pc, task, pool, tally>>
    OBVIOUS
  <2>1. ASSUME NEW u \in Urls, TtlPasses(u)
        PROVE  NothingGrows /\ UNCHANGED <<jobs, pc, task, pool, tally>>
    <3>1. UNCHANGED <<jobs, pc, task, pool, tally>>
      BY <2>1 DEF TtlPasses
    <3>2. UNCHANGED <<pc, input, scanned, thread, ready, active>>
      BY <3>1 DEF task, pool
    <3>3. StageLeft' <= StageLeft
      BY <3>2 DEF StageLeft
    <3>4. ListLeft' <= ListLeft
      BY <3>2 DEF ListLeft, TypeOK
    <3>5. \A i \in DOMAIN input : FutureLeft(i)' <= FutureLeft(i)
      BY <3>2 DEF FutureLeft, PoolRuns
    <3> QED BY <3>1, <3>3, <3>4, <3>5 DEF NothingGrows
  <2>2. \A list \in Inputs, forced \in BOOLEAN : ~Receive(list, forced)
    BY DEF Receive
  <2>3. CASE Main \/ Interrupt \/ WorkerLost
    BY <2>3, ScanComesNearer, MainComesNearer, WaitComesNearer, CollectComesNearer DEF Main
  <2>4. CASE \E i \in Positions : Thread(i)
    BY <2>4, ThreadComesNearer
  <2> QED BY <2>1, <2>2, <2>3, <2>4 DEF Next
<1>3. TypeOK /\ ReadInv /\ [Next]_vars => ReadInv'
  BY ReadStep
<1> QED BY <1>1, <1>2, <1>3, ToldInv, PTL DEF Spec, StepsRunOut

-----------------------------------------------------------------------------
(* The report.  What it counts are the keys of two maps and what is left of  *)
(* a subtraction, so that it adds up to the list only if the two maps share   *)
(* no key, leave out none, and a URL that succeeded was counted once.         *)

CountInv ==
  /\ InTask \/ pc = "done" => scanned = Len(input)
  /\ pc \in {"scan", "mark", "open"} => results = {}
  /\ NoRepeat(input) =>
       /\ pc \in {"dispatch", "update", "write", "done"} => results = success
       /\ pc \in {"write", "done"} => /\ success \cap failure = {}
                                      /\ success \cup failure = Positions

LEMMA CountStep ==
  TypeOK /\ TypeOK' /\ MapOK /\ JobInv /\ ScanInv /\ FutureInv /\ TellInv /\ CountInv
    /\ [Next]_vars => CountInv'
<1> SUFFICES ASSUME TypeOK, TypeOK', MapOK, JobInv, ScanInv, FutureInv, TellInv,
                    CountInv, [Next]_vars
             PROVE  CountInv'
  OBVIOUS
<1> USE DEF task, pool, tally
<1>a. NoRepeat(input) => \A i \in Positions : JobOf(i) = i
  BY OwnJob
<1>b. ready \subseteq Positions /\ success \subseteq Positions /\ failure \subseteq Positions
  BY DEF TypeOK
<1>1. ASSUME NEW list \in Inputs, NEW forced \in BOOLEAN, Receive(list, forced)
      PROVE  CountInv'
  BY <1>1 DEF Receive, CountInv, InTask
<1>2. CASE ScanUrl
  <2>1. pc = "scan" /\ pc' \in {"scan", "rejected"} /\ results' = results
    BY <1>2 DEF ScanUrl
  <2> QED BY <2>1 DEF CountInv, InTask
<1>3. CASE CreateJobs
  <2>1. /\ pc = "scan" /\ scanned' = Len(input') /\ pc' \in {"done", "mark"}
        /\ pc' = "done" => pending' = <<>>
        /\ results' = {} /\ success' = {} /\ failure' = {}
    BY <1>3 DEF CreateJobs, FutureInv, CountInv
  <2>2. pc' = "done" => Positions' = {}
    BY <2>1, EmptySeq DEF Positions
  <2> QED BY <2>1, <2>2 DEF CountInv
<1>4. CASE MarkProcessing
  BY <1>4 DEF MarkProcessing, CountInv, InTask
<1>5. CASE OpenWindow
  <2>1. /\ pc = "open" /\ pc' = "dispatch" /\ UNCHANGED <<scanned, input>>
        /\ results' = {} /\ success' = {}
    BY <1>5 DEF OpenWindow, FutureInv, CountInv
  <2> QED BY <2>1 DEF CountInv, InTask
<1>6. CASE Wait \/ CloseWindow
  <2>1. /\ pc = "dispatch" /\ pc' \in {"dispatch", "update"}
        /\ UNCHANGED <<scanned, input, results, success>>
    BY <1>6 DEF Wait, CloseWindow
  <2> QED BY <2>1 DEF CountInv, InTask, NoRepeat
<1>7. ASSUME NEW i \in ready, Collect(i)
      PROVE  CountInv'
  <2>1. pc = "dispatch" /\ pc' = "dispatch" /\ UNCHANGED <<scanned, input>>
    BY <1>7 DEF Collect
  <2>2. NoRepeat(input) => JobOf(i) = i /\ results = success
    BY <2>1, <1>a, <1>b DEF CountInv
  <2>3. \/ results' = results \cup {i} /\ success' = success \cup {JobOf(i)}
        \/ results' = results /\ success' = success
    BY <1>7 DEF Collect
  <2>4. NoRepeat(input) => results' = success'
    BY <2>2, <2>3
  <2> QED BY <2>1, <2>4 DEF CountInv, InTask, NoRepeat
<1>8. CASE UpdateJobs
  <2>1. /\ pc = "update" /\ pc' = "write"
        /\ UNCHANGED <<scanned, input, pending, results, success, failure>>
    BY <1>8 DEF UpdateJobs
  <2>2. ASSUME NoRepeat(input)
        PROVE  success \cap failure = {} /\ success \cup failure = Positions
    <3>1. \A i \in Positions : i \in success \cup failure
      BY <2>1, <2>2, <1>a DEF JobInv, AllTold, Told
    <3>2. /\ \A i \in success : outcome[i] = "saved"
          /\ \A i \in failure : outcome[i] # "saved"
      BY <2>1, <2>2 DEF TellInv
    <3> QED BY <3>1, <3>2, <1>b
  <2>3. NoRepeat(input') = NoRepeat(input) /\ Positions' = Positions
    BY <2>1 DEF NoRepeat, Positions
  <2> QED BY <2>1, <2>2, <2>3 DEF CountInv, InTask
<1>9. CASE WriteResults
  <2>1. /\ pc = "write" /\ pc' = "done"
        /\ UNCHANGED <<scanned, input, pending, results, success, failure>>
    BY <1>9 DEF WriteResults
  <2> QED BY <2>1 DEF CountInv, InTask, NoRepeat, Positions
<1>10. ASSUME pc' \in {"aborting", "raised", "lost"}, UNCHANGED <<scanned, input>>,
              pc' = "aborting" => pc = "dispatch"
       PROVE  CountInv'
  BY <1>10 DEF CountInv, InTask
<1>11. CASE Interrupt \/ PoolShutDown \/ WorkerLost
  <2>1. /\ pc' \in {"aborting", "raised", "lost"} /\ UNCHANGED <<scanned, input>>
        /\ pc' = "aborting" => pc = "dispatch"
    BY <1>11 DEF Interrupt, PoolShutDown, WorkerLost
  <2> QED BY <2>1, <1>10
<1>12. ASSUME NEW i \in ready, CollectFatal(i)
       PROVE  CountInv'
  BY <1>12, <1>10 DEF CollectFatal
<1>13. CASE UNCHANGED <<pc, scanned, input, pending, results, success, failure>>
  BY <1>13 DEF CountInv, InTask, NoRepeat, Positions
<1> QED
  BY <1>1, <1>2, <1>3, <1>4, <1>5, <1>6, <1>7, <1>8, <1>9, <1>11, <1>12, <1>13
  DEF Next, Main, Thread, CheckEvent, BeginCall, EndCall, ReturnFromQuota, TtlPasses, vars

LEMMA AddsUp ==
  ASSUME NEW s \in Nat, NEW f \in Nat, NEW n \in Nat, NEW m \in Nat, n = s + f
  PROVE  s + (m - n) + f = m
OBVIOUS

\* When no URL occurs twice, the counts a task that ends normally reports add up
\* to its list: what it analysed, what it left out and what failed, wherever the
\* quota ended the window and whatever was collected last.
THEOREM ReportAddsUp == Spec => []CountsAddUp
<1>1. Init => CountInv
  BY DEF Init, CountInv, InTask, NoRepeat, Positions
<1>2. TypeOK /\ TypeOK' /\ MapOK /\ JobInv /\ ScanInv /\ FutureInv /\ TellInv
        /\ CountInv /\ [Next]_vars => CountInv'
  BY CountStep
<1>3. TypeOK /\ CountInv => CountsAddUp
  <2> SUFFICES ASSUME TypeOK, CountInv, pc = "done", DistinctUrls
               PROVE  Cardinality(results) + Skipped + Cardinality(failure) = Len(input)
    BY DEF CountsAddUp, Report
  <2>1. NoRepeat(input)
    BY DistinctMeansNoRepeat
  <2>2. /\ scanned = Len(input) /\ results = success
        /\ success \cap failure = {} /\ success \cup failure = Positions
    BY <2>1 DEF CountInv
  <2>3. Len(pending) \in Nat /\ Len(input) \in Nat
    BY DEF TypeOK
  <2>4. IsFiniteSet(Positions) /\ Cardinality(Positions) = Len(pending)
    <3>1. 1 \in Int /\ Len(pending) \in Int
      BY <2>3
    <3>2. /\ IsFiniteSet(1..Len(pending))
          /\ Cardinality(1..Len(pending)) =
               IF 1 > Len(pending) THEN 0 ELSE Len(pending) - 1 + 1
      BY <3>1, FS_Interval, Zenon
    <3> QED BY <3>2, <2>3 DEF Positions
  <2>5. IsFiniteSet(success) /\ IsFiniteSet(failure)
    BY <2>2, <2>4, FS_Subset
  <2>6. Cardinality(success \cup failure)
          = Cardinality(success) + Cardinality(failure) - Cardinality(success \cap failure)
    BY <2>5, FS_Union
  <2>7. Cardinality(success \cap failure) = 0
    BY <2>2, FS_EmptySet
  <2>8. Cardinality(success) \in Nat /\ Cardinality(failure) \in Nat
    BY <2>5, FS_CardinalityType
  <2>9. PICK s \in Nat, f \in Nat, n \in Nat, m \in Nat :
          /\ s = Cardinality(success) /\ f = Cardinality(failure)
          /\ n = Len(pending) /\ m = Len(input)
    BY <2>8, <2>3
  <2>10. n = s + f
    <3>1. Cardinality(success \cup failure) = n
      BY <2>2, <2>4, <2>9
    <3> QED BY <3>1, <2>6, <2>7, <2>9
  <2>11. /\ Cardinality(results) = s /\ Skipped = m - n
         /\ Cardinality(failure) = f /\ Len(input) = m
    BY <2>2, <2>9 DEF Skipped
  <2>12. s + (m - n) + f = m
    BY <2>10, AddsUp
  <2> QED BY <2>11, <2>12, Zenon
<1> QED BY <1>1, <1>2, <1>3, ToldInv, PTL DEF Spec

LEMMA BeginsInTask ==
  ASSUME TypeOK, [Next]_vars, NEW i \in Positions, BeginsCall(i)
  PROVE  InTask
<1> USE DEF BeginsCall, task, pool, tally
<1>1. ASSUME NEW list \in Inputs, NEW forced \in BOOLEAN, Receive(list, forced)
      PROVE  InTask
  BY <1>1 DEF Receive
<1>2. CASE CreateJobs
  <2>1. thread' = [k \in Positions |-> "none"]
    BY <1>2 DEF CreateJobs
  <2> QED BY <2>1
<1>3. CASE OpenWindow
  BY <1>3 DEF OpenWindow, InTask
<1>4. ASSUME NEW k \in ready, Collect(k)
      PROVE  InTask
  BY <1>4 DEF Collect, InTask
<1>5. ASSUME NEW k \in Positions, CheckEvent(k) \/ BeginCall(k) \/ ReturnFromQuota(k)
      PROVE  InTask
  BY <1>5 DEF CheckEvent, BeginCall, ReturnFromQuota, PoolRuns, InTask
<1>6. ASSUME NEW k \in Positions, NEW o \in Outcomes, EndCall(k, o)
      PROVE  InTask
  BY <1>6 DEF EndCall, PoolRuns, InTask
<1>7. CASE UNCHANGED thread
  BY <1>7
<1> QED
  BY <1>1, <1>2, <1>3, <1>4, <1>5, <1>6, <1>7
  DEF Next, Main, Thread, ScanUrl, MarkProcessing, Wait, CollectFatal,
      CloseWindow, UpdateJobs, WriteResults, Interrupt, PoolShutDown, WorkerLost,
      TtlPasses, vars

\* Whatever ends a task that is not forced, the quota, an exception or the death
\* of its worker, and wherever its threads are at that moment: what it has left
\* out is left as the preflight of a later task takes it up.
THEOREM LeftOutStaysOpen == Spec => []LeftOutIsTakenAgain
<1>1. TypeOK /\ AwaitInv => LeftOutIsTakenAgain
  BY DistinctMeansNoRepeat DEF AwaitInv, LeftOutIsTakenAgain
<1> QED BY <1>1, ToldInv, PTL

\* A task that is not forced begins no call for a site that is already analysed
\* and open: what the threads of a task that died have saved is not paid for
\* again, even though the preflight looks at the table long before the call.
THEOREM CompleteStays == Spec => CompleteIsNotRepeated
<1>1. TypeOK /\ FutureInv /\ AwaitInv /\ [Next]_vars =>
        [\A i \in Positions :
           BeginsCall(i) /\ ~force /\ DistinctUrls => ~Complete(sites[pending[i]])]_thread
  <2> SUFFICES ASSUME TypeOK, FutureInv, AwaitInv, [Next]_vars, NEW i \in Positions,
                      BeginsCall(i), ~force, DistinctUrls
               PROVE  ~Complete(sites[pending[i]])
    OBVIOUS
  <2>1. InTask
    BY BeginsInTask
  <2>2. NoRepeat(input)
    BY DistinctMeansNoRepeat
  <2>3. LeftOut(i)
    BY <2>1 DEF BeginsCall, Unmet, FutureInv, LeftOut
  <2> QED BY <2>2, <2>3, AnalysedIsNotNeeded DEF AwaitInv
<1> QED BY <1>1, ToldInv, PTL DEF Spec, CompleteIsNotRepeated

\* What a step does to the rows of analysis_job.
JobMoves ==
  /\ DOMAIN jobs \subseteq DOMAIN jobs'
  /\ \A j \in DOMAIN jobs' :
       IF j \in DOMAIN jobs
       THEN \/ <<jobs[j].status, jobs'[j].status>> \in Lifecycle!Moves
            \/ jobs'[j].status = jobs[j].status
       ELSE jobs'[j].status = "pending"

LEMMA JobMovesStep ==
  TypeOK /\ TypeOK' /\ JobInv /\ StatusInv /\ [Next]_vars => JobMoves
<1> SUFFICES ASSUME TypeOK, TypeOK', JobInv, StatusInv, [Next]_vars PROVE JobMoves
  OBVIOUS
<1>0. /\ Len(pending) \in Nat /\ base \in Nat /\ Positions = 1..Len(pending)
      /\ jobs \in Seq(Job) /\ DOMAIN jobs = 1..Len(jobs) /\ Len(jobs) \in Nat
  BY DEF TypeOK, Positions
<1>1. CASE CreateJobs
  <2> DEFINE new == [i \in Positions |-> NewJob(pending[i])]
  <2>1. new \in Seq(Job) /\ Len(new) = Len(pending)
    BY NewJobs
  <2>2. \A i \in 1..Len(new) : new[i].status = "pending"
    BY <2>1, <1>0 DEF NewJob
  <2>3. jobs' = jobs \o new
    BY <1>1 DEF CreateJobs
  <2> HIDE DEF new
  <2>4. DOMAIN jobs' = 1..(Len(jobs) + Len(new))
    <3>1. Len(jobs') = Len(jobs) + Len(new)
      BY <2>1, <2>3, <1>0, ConcatProperties
    <3>2. DOMAIN jobs' = 1..Len(jobs')
      BY DEF TypeOK
    <3> QED BY <3>1, <3>2
  <2>5. \A j \in DOMAIN jobs : jobs'[j] = jobs[j] /\ j \in DOMAIN jobs'
    BY <2>1, <2>3, <2>4, <1>0
  <2>6. ASSUME NEW j \in DOMAIN jobs', j \notin DOMAIN jobs
        PROVE  jobs'[j].status = "pending"
    <3>1. j \in Len(jobs)+1 .. Len(jobs)+Len(new) /\ j - Len(jobs) \in 1..Len(new)
      BY <2>1, <2>4, <2>6, <1>0
    <3>2. jobs'[j] = new[j - Len(jobs)]
      BY <3>1, <2>1, <2>3, <1>0
    <3> QED BY <3>1, <3>2, <2>2
  <2> QED BY <2>5, <2>6 DEF JobMoves
<1>2. CASE MarkProcessing
  <2>1. /\ pc = "mark"
        /\ jobs' = [j \in DOMAIN jobs |->
                      IF j - base \in Mapped THEN [jobs[j] EXCEPT !.status = "processing"]
                      ELSE jobs[j]]
    BY <1>2 DEF MarkProcessing, SetStatus
  <2>2. ASSUME NEW j \in DOMAIN jobs, j - base \in Mapped
        PROVE  jobs[j].status = "pending" /\ jobs'[j].status = "processing"
    <3>1. j - base \in Positions /\ base + (j - base) = j
      BY <2>2, <1>0 DEF Mapped
    <3>2. jobs[j].status = "pending"
      BY <2>1, <3>1 DEF StatusInv
    <3>3. jobs[j] \in Job
      BY <1>0
    <3> QED BY <2>1, <2>2, <3>2, <3>3 DEF Job
  <2> QED BY <2>1, <2>2 DEF JobMoves, Lifecycle!Moves
<1>3. CASE UpdateJobs
  <2>1. /\ pc = "update"
        /\ jobs' = [j \in DOMAIN jobs |->
                IF j - base \in failure THEN [jobs[j] EXCEPT !.status = "failed"]
                ELSE IF j - base \in success
                THEN [jobs[j] EXCEPT !.status = "success"]
                ELSE jobs[j]]
    BY <1>3 DEF UpdateJobs
  <2>2. ASSUME NEW j \in DOMAIN jobs, j - base \in success \cup failure
        PROVE  jobs[j].status = "processing" /\ jobs'[j].status \in {"success", "failed"}
    <3>1. j - base \in Mapped /\ base + (j - base) = j
      BY <2>2, <1>0 DEF StatusInv
    <3>2. jobs[j].status = "processing"
      BY <2>1, <3>1 DEF StatusInv
    <3>3. jobs[j] \in Job
      BY <1>0
    <3> QED BY <2>1, <2>2, <3>2, <3>3 DEF Job
  <2> QED BY <2>1, <2>2 DEF JobMoves, Lifecycle!Moves
<1>4. CASE UNCHANGED jobs
  BY <1>4 DEF JobMoves
<1>5. CreateJobs \/ MarkProcessing \/ UpdateJobs \/ UNCHANGED jobs
  BY DEF Next, Main, Thread, Receive, ScanUrl, OpenWindow, Wait, Collect,
         CollectFatal, CloseWindow, WriteResults, CheckEvent, BeginCall, EndCall,
         ReturnFromQuota, Interrupt, PoolShutDown, WorkerLost, TtlPasses, vars,
         task, pool, tally
<1> QED BY <1>1, <1>2, <1>3, <1>4, <1>5

\* The rows of the jobs of bulk tasks move as JobLifecycle promises a poller,
\* across tasks that end, fail or die: each step of the code is a step of the
\* diagram for all jobs of its commit, or none.
THEOREM BulkRefinesLifecycle == Spec => JobsFollowLifecycle
<1> DEFINE shown == [j \in 1..MaxJobs |->
                       IF j \in DOMAIN jobs THEN jobs[j].status ELSE "none"]
<1>1. Init => Lifecycle!Init
  BY DEF Init, Lifecycle!Init
<1>2. TypeOK' /\ JobMoves => [Lifecycle!Next]_shown
  <2> SUFFICES ASSUME TypeOK', JobMoves PROVE Lifecycle!Next
    OBVIOUS
  <2>1. \A j \in DOMAIN jobs' : jobs'[j].status \in Lifecycle!JobState
    <3>1. \A j \in DOMAIN jobs' : jobs'[j] \in Job
      BY DEF TypeOK
    <3> QED BY <3>1 DEF Job, JobStatus, Lifecycle!JobState
  <2>2. shown' \in [1..MaxJobs -> Lifecycle!JobState]
    BY <2>1 DEF Lifecycle!JobState
  <2>3. ASSUME NEW j \in 1..MaxJobs
        PROVE  <<shown[j], shown'[j]>> \in Lifecycle!Moves \/ shown'[j] = shown[j]
    <3>1. CASE j \in DOMAIN jobs
      BY <3>1 DEF JobMoves
    <3>2. CASE j \notin DOMAIN jobs /\ j \in DOMAIN jobs'
      BY <3>2 DEF JobMoves, Lifecycle!Moves
    <3>3. CASE j \notin DOMAIN jobs /\ j \notin DOMAIN jobs'
      BY <3>3
    <3> QED BY <3>1, <3>2, <3>3
  <2> QED BY <2>2, <2>3 DEF Lifecycle!Next
<1>3. TypeOK /\ TypeOK' /\ JobInv /\ StatusInv /\ [Next]_vars
      => [Lifecycle!Next]_shown
  BY <1>2, JobMovesStep
<1> QED BY <1>1, <1>3, ToldInv, PTL DEF Spec, JobsFollowLifecycle, Lifecycle!Spec
=============================================================================
