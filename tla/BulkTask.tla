------------------------------- MODULE BulkTask -------------------------------
(***************************************************************************)
(* analyze_urls_bulk (workers/analyze_task.py) with its preflight          *)
(* (workers/bulk_preflight.py), its thread pool and the update of its jobs *)
(* (workers/job_status.py).                                                *)
(*                                                                         *)
(* The task keeps at most BATCH_CONCURRENCY analyses in flight: it submits *)
(* a first window, waits until some have finished, and submits one more    *)
(* URL for each result it takes, until a thread meets the API's quota and  *)
(* sets the event that ends the run early.  Threads save what they find at *)
(* once; the jobs are settled together at the end, so a task that dies in  *)
(* between leaves analysed sites and unsettled jobs.                       *)
(*                                                                         *)
(* URLs are identities: the list a task receives is the list of its        *)
(* normalised URLs, in which two spellings of one site are one URL twice.  *)
(* Jobs are numbered in the order of their creation; the future of the     *)
(* i-th URL to analyse is i.                                               *)
(***************************************************************************)
EXTENDS Integers, Sequences, FiniteSets, SiteRecord

CONSTANTS
  Urls,             \* the identities of the sites
  Inputs,           \* the lists a task may receive
  InitialSites,     \* the rows the table may hold before the first task
  Outcomes,         \* how an analysis may end, a subset of AllOutcomes
  Concurrency,      \* BATCH_CONCURRENCY
  MaxRuns,          \* bound: tasks received one after the other
  MaxJobs,          \* bound: the jobs JobsFollowLifecycle looks at
  AwareTimestamps   \* does the database give back timestamps with a zone?

\* saved: the analysis is in the table.   not saved: rejected or rolled back.
\* gone: marked unreachable, or blocked if the URL spells so.   denied: marked
\* blocked, unreachable, or with no status.   quota: the event is set.
\* transient: nothing but an error.   silent: gone, but marked with no status
\* and returned without an error.
\* raises: mark_site_status raised and the future holds the exception.
\* (Module LlmCall derives these from the exceptions of the API.)
AllOutcomes == {"saved", "not saved", "gone", "denied", "quota", "transient",
                "silent", "raises"}

ASSUME UrlsAssumption == Inputs \subseteq Seq(Urls)
ASSUME SitesAssumption == InitialSites \subseteq Site
ASSUME OutcomesAssumption == Outcomes \subseteq AllOutcomes
ASSUME ConcurrencyAssumption == Concurrency \in Nat \ {0}
ASSUME RunsAssumption == MaxRuns \in Nat
ASSUME JobsAssumption == MaxJobs \in Nat
ASSUME AwareAssumption == AwareTimestamps \in BOOLEAN

VARIABLES
  sites,     \* the table ai_site
  jobs,      \* the table analysis_job, in order of creation
  runs,      \* tasks received so far
  pc,        \* where the main thread is
  input,     \* the normalised URLs of the task
  force,     \* force_reanalyze
  scanned,   \* URLs of the input the preflight has gone through
  pending,   \* pending_urls
  lastOf,    \* job_id_map: the last position of a URL in pending, 0 if none
  base,      \* jobs that existed before this task's
  next,      \* the position pending_iter yields next
  active,    \* active_futures
  ready,     \* the futures of the last wait() that are not yet processed
  thread,    \* the state of each future
  outcome,   \* what each future's analysis came to
  event,     \* rate_limit_event
  results,   \* the futures in batch_results
  success,   \* the keys of success_map, as positions in pending
  failure    \* the keys of failure_map

task  == <<input, force, scanned, pending, lastOf, base>>
pool  == <<next, active, ready, thread, outcome, event>>
tally == <<results, success, failure>>
vars  == <<sites, jobs, runs, pc, task, pool, tally>>

Positions == 1..Len(pending)

\* The job a future reports for: the one job_id_map holds for its URL.
JobOf(i) == lastOf[pending[i]]

\* The jobs in the map, as positions.
Mapped == {p \in Positions : JobOf(p) = p}

Idle == {"idle", "done", "raised", "rejected", "lost"}

Init ==
  /\ sites \in [Urls -> InitialSites]
  /\ jobs = <<>> /\ runs = 0 /\ pc = "idle"
  /\ input = <<>> /\ force = FALSE /\ scanned = 0
  /\ pending = <<>> /\ lastOf = [u \in Urls |-> 0] /\ base = 0
  /\ next = 1 /\ active = {} /\ ready = {}
  /\ thread = <<>> /\ outcome = <<>> /\ event = FALSE
  /\ results = {} /\ success = {} /\ failure = {}

-----------------------------------------------------------------------------
(* Preflight: prepare_bulk_urls                                            *)

\* A worker that is free takes a task from the queue.
Receive(list, forced) ==
  /\ pc \in Idle /\ runs < MaxRuns
  /\ runs' = runs + 1 /\ pc' = "scan"
  /\ input' = list /\ force' = forced /\ scanned' = 0
  /\ pending' = <<>> /\ lastOf' = [u \in Urls |-> 0] /\ base' = Len(jobs)
  /\ next' = 1 /\ active' = {} /\ ready' = {}
  /\ thread' = <<>> /\ outcome' = <<>> /\ event' = FALSE
  /\ results' = {} /\ success' = {} /\ failure' = {}
  /\ UNCHANGED <<sites, jobs>>

\* Faulty variant: only what the rules analysed is skipped.
NeedsAnalysisRuleKept(site) ==
  /\ ~IsUnreachableBlocked(site)
  /\ \/ ~Exists(site) \/ IsFailedAnalysis(site)
     \/ site.analyzer \in {NULL, "llm"}

NeedsAnalysis(site) ==
  /\ ~IsUnreachableBlocked(site)
  /\ \/ ~Exists(site) \/ IsFailedAnalysis(site)
     \/ site.analyzer \in {NULL, "rule"}

\* One URL of the list: left out, or appended to pending_urls together with
\* its job.  The jobs stay in the session until the commit.
ScanUrl ==
  /\ pc = "scan" /\ scanned < Len(input)
  /\ LET u == input[scanned + 1]
     IN  IF ~force /\ TtlCheckRaises(sites[u], AwareTimestamps)
         THEN pc' = "rejected" /\ UNCHANGED <<scanned, pending, lastOf>>
         ELSE /\ scanned' = scanned + 1
              /\ IF force \/ NeedsAnalysis(sites[u])
                 THEN /\ pending' = Append(pending, u)
                      /\ lastOf' = [lastOf EXCEPT ![u] = Len(pending) + 1]
                 ELSE UNCHANGED <<pending, lastOf>>
              /\ UNCHANGED pc
  /\ UNCHANGED <<sites, jobs, runs, input, force, base, pool, tally>>

Skipped == scanned - Len(pending)

NewJob(u) == [url |-> u, status |-> "pending"]

CreateJobs ==
  /\ pc = "scan" /\ scanned = Len(input)
  /\ jobs' = jobs \o [i \in Positions |-> NewJob(pending[i])]
  /\ pc' = IF pending = <<>> THEN "done" ELSE "mark"
  /\ thread' = [i \in Positions |-> "none"]
  /\ outcome' = [i \in Positions |-> "none"]
  /\ UNCHANGED <<sites, runs, task, next, active, ready, event, tally>>

-----------------------------------------------------------------------------
(* The main thread                                                         *)

\* Faulty variant: positions are taken for jobs.
SetStatusNoBase(ps, status) ==
  [j \in DOMAIN jobs |->
     IF j \in ps THEN [jobs[j] EXCEPT !.status = status] ELSE jobs[j]]

\* Jobs of this task change status by position.
SetStatus(ps, status) ==
  [j \in DOMAIN jobs |->
     IF j - base \in ps THEN [jobs[j] EXCEPT !.status = status] ELSE jobs[j]]

\* _mark_jobs_processing
MarkProcessing ==
  /\ pc = "mark"
  /\ jobs' = SetStatus(Mapped, "processing")
  /\ pc' = "open"
  /\ UNCHANGED <<sites, runs, task, pool, tally>>

\* Faulty variant: the window is larger than the pool.
OpenWindowWide ==
  /\ pc = "open"
  /\ active' = {i \in Positions : i <= Concurrency + 1}
  /\ thread' = [i \in Positions |-> IF i <= Concurrency + 1 THEN "submitted" ELSE "none"]
  /\ next' = IF Len(pending) <= Concurrency + 1 THEN Len(pending) + 1
                                                ELSE Concurrency + 2
  /\ pc' = "dispatch"
  /\ UNCHANGED <<sites, jobs, runs, task, ready, outcome, event, tally>>

\* The first window.
OpenWindow ==
  /\ pc = "open"
  /\ active' = {i \in Positions : i <= Concurrency}
  /\ thread' = [i \in Positions |-> IF i <= Concurrency THEN "submitted" ELSE "none"]
  /\ next' = IF Len(pending) <= Concurrency THEN Len(pending) + 1
                                            ELSE Concurrency + 1
  /\ pc' = "dispatch"
  /\ UNCHANGED <<sites, jobs, runs, task, ready, outcome, event, tally>>

\* wait(active_futures, FIRST_COMPLETED)
Wait ==
  /\ pc = "dispatch" /\ ready = {}
  /\ \E i \in active : thread[i] = "finished"
  /\ ready' = {i \in active : thread[i] = "finished"}
  /\ UNCHANGED <<sites, jobs, runs, pc, task, next, active, thread, outcome,
                 event, tally>>

\* future.result() raises what the thread raised, and a result of None has no
\* site_id: either ends the loop with the futures still running.
Fatal(i) == outcome[i] \in {"silent", "raises"}

CollectFatal(i) ==
  /\ pc = "dispatch" /\ i \in ready /\ Fatal(i)
  /\ pc' = "aborting"
  /\ active' = IF outcome[i] = "raises" THEN active ELSE active \ {i}
  /\ results' = IF outcome[i] = "silent" THEN results \cup {i} ELSE results
  /\ UNCHANGED <<sites, jobs, runs, task, next, ready, thread, outcome, event,
                 success, failure>>

\* Faulty variant: the end of the list is not noticed.
SubmitNextPastEnd(remaining) ==
  IF ~event
  THEN /\ active' = remaining \cup {next}
       /\ thread' = [thread EXCEPT ![next] = "submitted"]
       /\ next' = next + 1
  ELSE active' = remaining /\ UNCHANGED <<thread, next>>

\* One more URL for each result, unless the quota is spent.
SubmitNext(remaining) ==
  IF ~event /\ next \in Positions
  THEN /\ active' = remaining \cup {next}
       /\ thread' = [thread EXCEPT ![next] = "submitted"]
       /\ next' = next + 1
  ELSE active' = remaining /\ UNCHANGED <<thread, next>>

\* Faulty variant: the future stays in active_futures.
CollectKeeps(i) ==
  /\ pc = "dispatch" /\ i \in ready /\ ~Fatal(i)
  /\ ready' = ready \ {i}
  /\ IF outcome[i] = "saved"
     THEN /\ results' = results \cup {i}
          /\ success' = success \cup {JobOf(i)}
          /\ UNCHANGED failure
     ELSE failure' = failure \cup {JobOf(i)} /\ UNCHANGED <<results, success>>
  /\ SubmitNext(active)
  /\ UNCHANGED <<sites, jobs, runs, pc, task, outcome, event>>

\* Faulty variant: a transient error has an empty text and is not seen.
CollectErrorless(i) ==
  /\ pc = "dispatch" /\ i \in ready /\ ~Fatal(i)
  /\ ready' = ready \ {i}
  /\ IF outcome[i] \in {"saved", "transient"}
     THEN /\ results' = results \cup {i}
          /\ success' = success \cup {JobOf(i)}
          /\ UNCHANGED failure
     ELSE failure' = failure \cup {JobOf(i)} /\ UNCHANGED <<results, success>>
  /\ SubmitNext(active \ {i})
  /\ UNCHANGED <<sites, jobs, runs, pc, task, outcome, event>>

Collect(i) ==
  /\ pc = "dispatch" /\ i \in ready /\ ~Fatal(i)
  /\ ready' = ready \ {i}
  /\ IF outcome[i] = "saved"
     THEN /\ results' = results \cup {i}
          /\ success' = success \cup {JobOf(i)}
          /\ UNCHANGED failure
     ELSE failure' = failure \cup {JobOf(i)} /\ UNCHANGED <<results, success>>
  /\ SubmitNext(active \ {i})
  /\ UNCHANGED <<sites, jobs, runs, pc, task, outcome, event>>

\* Faulty variant: the URLs never submitted are forgotten.
CloseWindowForget ==
  /\ pc = "dispatch" /\ active = {}
  /\ next' = Len(pending) + 1
  /\ pc' = "update"
  /\ UNCHANGED <<sites, jobs, runs, task, active, ready, thread, outcome, event,
                 results, success, failure>>

\* After the loop: what the quota left in pending_iter has failed as well.
CloseWindow ==
  /\ pc = "dispatch" /\ active = {}
  /\ failure' = IF event THEN failure \cup {JobOf(i) : i \in next..Len(pending)}
                         ELSE failure
  /\ next' = IF event THEN Len(pending) + 1 ELSE next
  /\ pc' = "update"
  /\ UNCHANGED <<sites, jobs, runs, task, active, ready, thread, outcome, event,
                 results, success>>

\* update_job_statuses: one commit, first the successes, then the failures.
UpdateJobs ==
  /\ pc = "update"
  /\ jobs' = [j \in DOMAIN jobs |->
                IF j - base \in failure THEN [jobs[j] EXCEPT !.status = "failed"]
                ELSE IF j - base \in success
                THEN [jobs[j] EXCEPT !.status = "success"]
                ELSE jobs[j]]
  /\ pc' = "write"
  /\ UNCHANGED <<sites, runs, task, pool, tally>>

\* write_batch, and the counts the task returns.
WriteResults ==
  /\ pc = "write" /\ pc' = "done"
  /\ UNCHANGED <<sites, jobs, runs, task, pool, tally>>

Report == [analyzed |-> Cardinality(results), skipped |-> Skipped,
           failed   |-> Cardinality(failure)]

-----------------------------------------------------------------------------
(* A thread of the pool: _analyze_one.  Shutting the pool down waits for   *)
(* the threads, and for the futures they have not started yet.             *)

PoolRuns == pc \in {"dispatch", "aborting"}

\* A thread looks at the event once: when the quota is known to be spent it
\* returns without a call.
CheckEvent(i) ==
  /\ PoolRuns /\ i \in Positions /\ thread[i] = "submitted"
  /\ IF event
     THEN /\ thread'  = [thread EXCEPT ![i] = "finished"]
          /\ outcome' = [outcome EXCEPT ![i] = "skipped"]
     ELSE thread' = [thread EXCEPT ![i] = "cleared"] /\ UNCHANGED outcome
  /\ UNCHANGED <<sites, jobs, runs, pc, task, next, active, ready, event, tally>>

\* detect_and_save, with all its attempts.  Since the thread looked, another one
\* may have set the event: the call is made all the same.
BeginCall(i) ==
  /\ PoolRuns /\ i \in Positions /\ thread[i] = "cleared"
  /\ thread' = [thread EXCEPT ![i] = "calling"]
  /\ UNCHANGED <<sites, jobs, runs, pc, task, next, active, ready, outcome,
                 event, tally>>

\* Faulty variant: a site the quota kept from its analysis is marked.
SitesAfterMarkedByQuota(site, o) ==
  CASE o = "saved"  -> {Saved("ok", "llm"), Saved("blocked", "llm")}
    [] o = "gone"   -> {Mark(site, "unreachable"), Mark(site, "blocked")}
    [] o \in {"denied", "quota"} ->
         {Mark(site, st) : st \in {"blocked", "unreachable", NULL}}
    [] o = "silent" -> {Mark(site, NULL)}
    [] OTHER        -> {site}

\* What an analysis that ended with `o' may leave in the row of its site.
SitesAfter(site, o) ==
  CASE o = "saved"  -> {Saved("ok", "llm"), Saved("blocked", "llm")}
    [] o = "gone"   -> {Mark(site, "unreachable"), Mark(site, "blocked")}
    [] o = "denied" -> {Mark(site, st) : st \in {"blocked", "unreachable", NULL}}
    [] o = "silent" -> {Mark(site, NULL)}
    [] OTHER        -> {site}

\* Faulty variant: the thread that meets the quota does not tell the others.
EndCallUntold(i, o) ==
  /\ PoolRuns /\ i \in Positions /\ thread[i] = "calling"
  /\ outcome' = [outcome EXCEPT ![i] = o]
  /\ \E row \in SitesAfter(sites[pending[i]], o) :
        sites' = [sites EXCEPT ![pending[i]] = row]
  /\ thread' = [thread EXCEPT ![i] = "finished"]
  /\ UNCHANGED <<jobs, runs, pc, task, next, active, ready, event, tally>>

\* The call comes back, and the row is written in a session of its own.  The
\* thread that meets the quota sets the event before it returns.
EndCall(i, o) ==
  /\ PoolRuns /\ i \in Positions /\ thread[i] = "calling"
  /\ outcome' = [outcome EXCEPT ![i] = o]
  /\ \E row \in SitesAfter(sites[pending[i]], o) :
        sites' = [sites EXCEPT ![pending[i]] = row]
  /\ IF o = "quota"
     THEN event' = TRUE /\ thread' = [thread EXCEPT ![i] = "signalled"]
     ELSE thread' = [thread EXCEPT ![i] = "finished"] /\ UNCHANGED event
  /\ UNCHANGED <<jobs, runs, pc, task, next, active, ready, tally>>

ReturnFromQuota(i) ==
  /\ PoolRuns /\ i \in Positions /\ thread[i] = "signalled"
  /\ thread' = [thread EXCEPT ![i] = "finished"]
  /\ UNCHANGED <<sites, jobs, runs, pc, task, next, active, ready, outcome,
                 event, tally>>

-----------------------------------------------------------------------------
(* Failures of the task itself, and time                                   *)

\* The soft time limit or an error of the database is raised in the main
\* thread.  Inside the pool's block it waits for the threads first.
Interrupt ==
  /\ pc \notin Idle \cup {"aborting"}
  /\ pc' = IF pc = "dispatch" THEN "aborting" ELSE "raised"
  /\ UNCHANGED <<sites, jobs, runs, task, pool, tally>>

PoolShutDown ==
  /\ pc = "aborting"
  /\ \A i \in Positions : thread[i] \in {"none", "finished"}
  /\ pc' = "raised"
  /\ UNCHANGED <<sites, jobs, runs, task, pool, tally>>

\* The hard time limit or the death of the worker: every thread dies with it.
\* The message was acknowledged when the task began, so nobody repeats it.
WorkerLost ==
  /\ pc \notin Idle
  /\ pc' = "lost"
  /\ UNCHANGED <<sites, jobs, runs, task, pool, tally>>

TtlPasses(u) ==
  /\ sites[u].since = "within"
  /\ sites' = [sites EXCEPT ![u] = Expired(@)]
  /\ UNCHANGED <<jobs, runs, pc, task, pool, tally>>

-----------------------------------------------------------------------------
Main == \/ ScanUrl \/ CreateJobs \/ MarkProcessing \/ OpenWindow
        \/ Wait \/ CloseWindow \/ UpdateJobs \/ WriteResults \/ PoolShutDown
        \/ \E i \in ready : Collect(i) \/ CollectFatal(i)

Thread(i) == \/ CheckEvent(i) \/ BeginCall(i) \/ ReturnFromQuota(i)
             \/ \E o \in Outcomes : EndCall(i, o)

Next == \/ \E list \in Inputs, forced \in BOOLEAN : Receive(list, forced)
        \/ Main
        \/ \E i \in Positions : Thread(i)
        \/ Interrupt \/ WorkerLost
        \/ \E u \in Urls : TtlPasses(u)

Spec == Init /\ [][Next]_vars

\* A call of the API comes back or the hard limit ends it, and nothing else
\* keeps a thread or the main thread from its next step.  Nothing makes tasks
\* arrive, time pass or workers die.
LongestInput == UNION {DOMAIN list : list \in Inputs}
Fairness == /\ WF_vars(Main)
            /\ \A i \in LongestInput : WF_vars(i \in Positions /\ Thread(i))

FairSpec == Spec /\ Fairness

-----------------------------------------------------------------------------
ThreadState == {"none", "submitted", "cleared", "calling", "signalled", "finished"}
JobStatus == {"pending", "processing", "success", "failed"}
Job == [url : Urls, status : JobStatus]
ControlState == Idle \cup {"scan", "mark", "open", "dispatch", "aborting",
                           "update", "write"}
Settled(job) == job.status \in {"success", "failed"}

TypeOK ==
  /\ sites \in [Urls -> Site]
  /\ jobs \in Seq(Job)
  /\ runs \in 0..MaxRuns
  /\ pc \in ControlState
  /\ input \in Seq(Urls) /\ force \in BOOLEAN
  /\ scanned \in 0..Len(input)
  /\ pending \in Seq(Urls)
  /\ lastOf \in [Urls -> Nat]
  /\ base \in Nat
  /\ next \in Nat \ {0}
  /\ active \subseteq Positions /\ ready \subseteq Positions
  /\ thread \in Seq(ThreadState)
  /\ outcome \in Seq(AllOutcomes \cup {"none", "skipped"})
  /\ event \in BOOLEAN
  /\ results \subseteq Positions
  /\ success \subseteq Positions /\ failure \subseteq Positions

AtWork == {i \in Positions :
             thread[i] \in {"submitted", "cleared", "calling", "signalled"}}

\* Every future in flight has a thread of its own: the window slides by one
\* and never runs ahead of the pool, so that a URL the quota can still spare
\* is not submitted, and no submitted one waits for a thread (which is why
\* CheckEvent need not ask for a free one).
WindowBounded ==
  PoolRuns => Cardinality(AtWork) <= Concurrency

\* When the task ends normally, every job the map knows is settled, whatever
\* the order in which the threads finished and wherever the quota ended: none
\* was dropped between the window, the results and the rest of the list.
MappedJobsSettled ==
  pc \in {"write", "done"} => \A p \in Mapped : Settled(jobs[base + p])

\* When no URL occurs twice, a job's final status tells what became of the
\* analysis of its own URL.
DistinctUrls == Cardinality({input[i] : i \in DOMAIN input}) = Len(input)

JobTellsOutcome ==
  pc \in {"write", "done"} /\ DistinctUrls =>
    \A i \in Positions :
      jobs[base + i].status = (IF outcome[i] = "saved" THEN "success" ELSE "failed")

\* When no URL occurs twice, the counts in the report add up to the list.
CountsAddUp ==
  pc = "done" /\ DistinctUrls =>
    Report.analyzed + Report.skipped + Report.failed = Len(input)

\* However the threads stand when the quota is spent, whoever of them has looked
\* at the event already or is still in a call, and whichever results the main
\* thread takes meanwhile: no more calls of a task meet the spent quota than the
\* window holds.
RefusalsWithinWindow ==
  Cardinality({i \in DOMAIN outcome : outcome[i] = "quota"}) <= Concurrency

\* What was to be analysed and has come to nothing for a reason that passes: it
\* was not begun, skipped, refused for the quota, or not saved.
LeftOut(i) ==
  \/ i \notin DOMAIN outcome
  \/ outcome[i] \in {"none", "skipped", "quota", "transient", "not saved"}

\* Whatever ends a task, the quota, an exception or the death of the worker, at
\* any point of its threads: a URL it has left out is still one that the
\* preflight of a later task takes up.
LeftOutIsTakenAgain ==
  ~force /\ DistinctUrls =>
    \A i \in Positions : LeftOut(i) => NeedsAnalysis(sites[pending[i]])

BeginsCall(i) == /\ i \in DOMAIN thread /\ i \in DOMAIN thread'
                 /\ thread[i] = "cleared" /\ thread'[i] = "calling"

\* A task that died has lost nothing of what its threads had saved: a later
\* task that does not force it never analyses a complete site again.
CompleteIsNotRepeated ==
  [][\A i \in Positions :
       BeginsCall(i) /\ ~force /\ DistinctUrls => ~Complete(sites[pending[i]])]_thread

\* The table of jobs as a function, "none" where no row has been inserted yet.
Lifecycle ==
  INSTANCE JobLifecycle
    WITH Jobs   <- 1..MaxJobs,
         status <- [j \in 1..MaxJobs |->
                      IF j \in DOMAIN jobs THEN jobs[j].status ELSE "none"]

\* The status a poller of a bulk job sees moves as JobLifecycle promises,
\* across tasks that fail, die and follow one another.
JobsFollowLifecycle == Lifecycle!Spec

\* A task that is not interrupted comes to an end: the pool drains whatever
\* its threads meet, and the loop never waits for a future nobody will finish.
TaskEnds == pc \notin Idle ~> pc \in Idle

\* The main thread is not blocked: it is outside wait() and the pool's exit, or
\* what it waits for there is the case.
MainCanGo ==
  \/ pc \in {"scan", "mark", "open", "update", "write"}
  \/ /\ pc = "dispatch"
     /\ active = {} \/ ready # {} \/ \E i \in active : thread[i] = "finished"
  \/ pc = "aborting" /\ \A i \in Positions : thread[i] \in {"none", "finished"}

\* The main thread of a task that has not ended can go on, or a thread of the
\* pool is at work for it: wait() is never called for futures of which none
\* was handed to a thread.
NeverStalls == pc \notin Idle => MainCanGo \/ (PoolRuns /\ AtWork # {})

\* How far the task is from its end, in three parts: the main thread, the list
\* it reads, and each future, which may still have to be handed to a thread, look
\* at the event, begin, call, signal the quota, be met by wait() and be collected.
StageLeft ==
  CASE pc = "scan"     -> 6
    [] pc = "mark"     -> 5
    [] pc = "open"     -> 4
    [] pc = "dispatch" -> 3
    [] pc = "update"   -> 2
    [] pc \in {"write", "aborting"} -> 1
    [] OTHER           -> 0

ListLeft == IF pc = "scan" THEN Len(input) - scanned ELSE 0

FutureLeft(i) ==
  IF pc \in {"scan", "mark", "open"} THEN 7
  ELSE IF ~PoolRuns \/ i \notin DOMAIN thread THEN 0
  ELSE CASE thread[i] = "none"      -> 7
         [] thread[i] = "submitted" -> 6
         [] thread[i] = "cleared"   -> 5
         [] thread[i] = "calling"   -> 4
         [] thread[i] = "signalled" -> 3
         [] OTHER -> IF i \in ready THEN 1 ELSE IF i \in active THEN 2 ELSE 0

NothingGrows ==
  /\ StageLeft' <= StageLeft /\ ListLeft' <= ListLeft
  /\ \A i \in DOMAIN input : FutureLeft(i)' <= FutureLeft(i)

SomethingShrinks ==
  \/ StageLeft' < StageLeft \/ ListLeft' < ListLeft
  \/ \E i \in DOMAIN input : FutureLeft(i)' < FutureLeft(i)

\* Every step of a task and its threads, and whatever strikes it, takes one part
\* nearer to its end and none away from it.  Time alone leaves all as they are.
StepsRunOut ==
  [][pc \notin Idle =>
       NothingGrows /\ (SomethingShrinks \/ UNCHANGED <<jobs, pc, task, pool, tally>>)]_vars

-----------------------------------------------------------------------------
(* What the documents say and the code does not do.                        *)

\* ARCHITECTURE.md, step 5 of the bulk task: the jobs are set to success or
\* failed together.  A job whose URL occurs again is not in the map.
EveryJobSettled ==
  pc = "done" => \A j \in DOMAIN jobs : j > base => Settled(jobs[j])

\* ARCHITECTURE.md, the TTL: a site past it becomes subject to analysis again,
\* so the preflight's look at it adds it to the list.
PastTtlIsAnalysed ==
  [][scanned' = scanned + 1 =>
       LET u == input[scanned + 1]
       IN  sites[u].status = "unreachable" /\ sites[u].since = "past"
             => lastOf'[u] = Len(pending')]_scanned

\* ARCHITECTURE.md, the TTL: a site within it is left out of the analysis,
\* and the rest of the list is analysed.
TtlNeverRejects == pc # "rejected"
=============================================================================
