------------------------------- MODULE BatchFlow -------------------------------
(***************************************************************************)
(* POST /analyze (api/analyze_routes.py), the task analyze_urls_batch it   *)
(* starts (workers/analyze_task.py) and what GET /jobs/{job_id}            *)
(* (api/job_routes.py) shows of its jobs.                                  *)
(*                                                                         *)
(* A request is answered from the jobs that succeeded before, or gets new  *)
(* jobs that are committed before the message for the worker is published. *)
(* The batch submits all its URLs at once to a pool of threads and settles *)
(* its jobs together when the last thread has finished.  Several requests  *)
(* and batches are under way at the same time, for the same URLs.          *)
(***************************************************************************)
EXTENDS Integers, Sequences, FiniteSets, SiteRecord

CONSTANTS
  Urls,          \* the identities of the sites
  Lists,         \* the lists a request may name, normalised
  InitialSites,  \* the rows the table may hold at first
  Requests,      \* the requests made
  Outcomes,      \* how a thread's analysis may end
  Concurrency,   \* BATCH_CONCURRENCY
  Postgres,      \* PostgreSQL, or SQLite?
  MaxJobs        \* bound: the jobs JobsFollowLifecycle looks at

\* As in BulkTask; the quota is a transient error to a batch, which has no
\* event to set.
AllOutcomes == {"saved", "not saved", "gone", "denied", "transient", "silent",
                "raises"}

ASSUME ListsAssumption == Lists \subseteq Seq(Urls)
ASSUME SitesAssumption == InitialSites \subseteq Site
ASSUME OutcomesAssumption == Outcomes \subseteq AllOutcomes
ASSUME ConcurrencyAssumption == Concurrency \in Nat \ {0}
ASSUME PostgresAssumption == Postgres \in BOOLEAN
ASSUME JobsAssumption == MaxJobs \in Nat

VARIABLES
  sites,     \* the table ai_site
  jobs,      \* the table analysis_job, in order of creation
  stage,     \* how far each request and its task have come
  list,      \* the URLs of the request
  force,     \* force_reanalyze
  analysed,  \* existing_map: its rows that a language model analysed
  looked,    \* URLs of the list the handler has gone through
  pending,   \* pending_urls
  base,      \* jobs that existed before the request's own
  thread,    \* the state of each future
  outcome    \* what each future's analysis came to

request == <<list, force, analysed, looked, pending, base>>
pool    == <<thread, outcome>>
vars    == <<sites, jobs, stage, request, pool>>

AtApi  == {"new", "looking", "committed"}
AtTask == {"queued", "running", "aborting"}
Over   == {"answered", "done", "unsent", "raised", "lost"}

Positions(r) == 1..Len(pending[r])
JobAt(r, i)  == base[r] + i

\* job_id_map: of two equal URLs the later position.
LastOf(r, i) ==
  CHOOSE p \in Positions(r) :
    /\ pending[r][p] = pending[r][i]
    /\ \A q \in Positions(r) : pending[r][q] = pending[r][i] => q <= p

Init ==
  /\ sites \in [Urls -> InitialSites]
  /\ jobs = <<>>
  /\ stage = [r \in Requests |-> "new"]
  /\ list \in [Requests -> Lists]
  /\ force \in [Requests -> BOOLEAN]
  /\ analysed = [r \in Requests |-> {}]
  /\ looked = [r \in Requests |-> 0]
  /\ pending = [r \in Requests |-> <<>>]
  /\ base = [r \in Requests |-> 0]
  /\ thread = [r \in Requests |-> <<>>]
  /\ outcome = [r \in Requests |-> <<>>]

Enter(r, place) == stage' = [stage EXCEPT ![r] = place]

-----------------------------------------------------------------------------
(* The handler of POST /analyze                                            *)

\* The rows of the list are read at once, unless the request forces.
ReadSites(r) ==
  /\ stage[r] = "new"
  /\ analysed' = [analysed EXCEPT ![r] =
                    {u \in Urls : ~force[r] /\ sites[u].analyzer \notin {NULL, "rule"}}]
  /\ Enter(r, "looking")
  /\ UNCHANGED <<sites, jobs, list, force, looked, pending, base, pool>>

\* _try_cache_hit: a language model had analysed it, and a job tells of it.
CacheHit(r, u) ==
  /\ u \in analysed[r]
  /\ \E j \in DOMAIN jobs :
        jobs[j].url = u /\ jobs[j].site /\ jobs[j].status = "success"

\* One URL of the list: answered, or appended to pending_urls with its job.
\* The jobs stay in the session until the commit.
LookUp(r) ==
  /\ stage[r] = "looking" /\ looked[r] < Len(list[r])
  /\ looked' = [looked EXCEPT ![r] = @ + 1]
  /\ LET u == list[r][looked[r] + 1]
     IN  pending' = IF CacheHit(r, u) THEN pending
                    ELSE [pending EXCEPT ![r] = Append(@, u)]
  /\ UNCHANGED <<sites, jobs, stage, list, force, analysed, base, pool>>

NewJob(u) == [url |-> u, status |-> "pending", site |-> FALSE]

CommitJobs(r) ==
  /\ stage[r] = "looking" /\ looked[r] = Len(list[r])
  /\ jobs' = jobs \o [i \in Positions(r) |-> NewJob(pending[r][i])]
  /\ base' = [base EXCEPT ![r] = Len(jobs)]
  /\ Enter(r, "committed")
  /\ UNCHANGED <<sites, list, force, analysed, looked, pending, pool>>

\* analyze_urls_batch.delay
Publish(r) ==
  /\ stage[r] = "committed"
  /\ Enter(r, IF pending[r] = <<>> THEN "answered" ELSE "queued")
  /\ UNCHANGED <<sites, jobs, request, pool>>

\* The API ends, or the broker refuses the message, after the commit.
PublishFails(r) ==
  /\ stage[r] = "committed" /\ pending[r] # <<>>
  /\ Enter(r, "unsent")
  /\ UNCHANGED <<sites, jobs, request, pool>>

-----------------------------------------------------------------------------
(* The task                                                                *)

Own(r) == {JobAt(r, i) : i \in Positions(r)}

\* Faulty variant: the filter on the ids is missing.
BeginAll(r) ==
  /\ stage[r] = "queued"
  /\ jobs' = [j \in DOMAIN jobs |-> [jobs[j] EXCEPT !.status = "processing"]]
  /\ thread' = [thread EXCEPT ![r] = [i \in Positions(r) |-> "submitted"]]
  /\ outcome' = [outcome EXCEPT ![r] = [i \in Positions(r) |-> "none"]]
  /\ Enter(r, "running")
  /\ UNCHANGED <<sites, request>>

\* The jobs are looked up by the strings of the message, which the column
\* type can bind on PostgreSQL only.
Begin(r) ==
  /\ stage[r] = "queued"
  /\ IF Postgres
     THEN /\ jobs' = [j \in DOMAIN jobs |->
                        IF j \in Own(r) THEN [jobs[j] EXCEPT !.status = "processing"]
                        ELSE jobs[j]]
          /\ thread' = [thread EXCEPT ![r] = [i \in Positions(r) |-> "submitted"]]
          /\ outcome' = [outcome EXCEPT ![r] = [i \in Positions(r) |-> "none"]]
          /\ Enter(r, "running")
     ELSE Enter(r, "raised") /\ UNCHANGED <<jobs, pool>>
  /\ UNCHANGED <<sites, request>>

PoolRuns(r) == stage[r] \in {"running", "aborting"}
AtWork(r)   == {i \in DOMAIN thread[r] : thread[r][i] = "calling"}

\* _analyze_one, without an event.
StartThread(r, i) ==
  /\ PoolRuns(r) /\ i \in Positions(r) /\ thread[r][i] = "submitted"
  /\ Cardinality(AtWork(r)) < Concurrency
  /\ thread' = [thread EXCEPT ![r][i] = "calling"]
  /\ UNCHANGED <<sites, jobs, stage, request, outcome>>

SitesAfter(site, o) ==
  CASE o = "saved"  -> {Saved("ok", "llm"), Saved("blocked", "llm")}
    [] o = "gone"   -> {Mark(site, "unreachable"), Mark(site, "blocked")}
    [] o = "denied" -> {Mark(site, st) : st \in {"blocked", "unreachable", NULL}}
    [] o = "silent" -> {Mark(site, NULL)}
    [] OTHER        -> {site}

EndCall(r, i, o) ==
  /\ PoolRuns(r) /\ i \in Positions(r) /\ thread[r][i] = "calling"
  /\ thread' = [thread EXCEPT ![r][i] = "finished"]
  /\ outcome' = [outcome EXCEPT ![r][i] = o]
  /\ \E row \in SitesAfter(sites[pending[r][i]], o) :
        sites' = [sites EXCEPT ![pending[r][i]] = row]
  /\ UNCHANGED <<jobs, stage, request>>

Finished(r) == \A i \in Positions(r) : thread[r][i] = "finished"

\* The positions whose job the maps hold under an error, and under none.
\* A result of None without an error enters success_map without a site.
Failures(r)  == {LastOf(r, i) : i \in {k \in Positions(r) :
                                outcome[r][k] \notin {"saved", "silent"}}}
Successes(r) == {LastOf(r, i) : i \in {k \in Positions(r) :
                                outcome[r][k] \in {"saved", "silent"}}}

\* future.result() raises in the collecting loop; the pool waits for the rest.
CollectRaises(r) ==
  /\ stage[r] = "running"
  /\ \E i \in Positions(r) : outcome[r][i] = "raises"
  /\ Enter(r, "aborting")
  /\ UNCHANGED <<sites, jobs, request, pool>>

\* Faulty variant: a job whose site has a row has succeeded.
UpdateJobsAsSuccess(r) ==
  /\ stage[r] = "running" /\ Finished(r)
  /\ \A i \in Positions(r) : outcome[r][i] # "raises"
  /\ jobs' = [j \in DOMAIN jobs |->
                IF j \in Own(r) /\ Exists(sites[jobs[j].url])
                THEN [jobs[j] EXCEPT !.status = "success", !.site = TRUE]
                ELSE jobs[j]]
  /\ Enter(r, "done")
  /\ UNCHANGED <<sites, request, pool>>

\* update_job_statuses, first the successes, then the failures.  Of two equal
\* URLs that both succeeded, the one collected last leaves its site_id.
UpdateJobs(r) ==
  /\ stage[r] = "running" /\ Finished(r)
  /\ \A i \in Positions(r) : outcome[r][i] # "raises"
  /\ \E last \in [Successes(r) -> Positions(r)] :
       /\ \A p \in Successes(r) : /\ LastOf(r, last[p]) = p
                                  /\ outcome[r][last[p]] \in {"saved", "silent"}
       /\ jobs' = [j \in DOMAIN jobs |->
            LET p == j - base[r]
            IN  [jobs[j] EXCEPT
                   !.status = IF p \in Failures(r) THEN "failed"
                              ELSE IF p \in Successes(r) THEN "success" ELSE @,
                   !.site   = IF p \in Successes(r)
                              THEN outcome[r][last[p]] = "saved" ELSE @]]
  /\ Enter(r, "done")
  /\ UNCHANGED <<sites, request, pool>>

\* The soft time limit or an error of the database.
Interrupt(r) ==
  /\ stage[r] \in {"queued", "running"}
  /\ Enter(r, IF stage[r] = "running" THEN "aborting" ELSE "raised")
  /\ UNCHANGED <<sites, jobs, request, pool>>

PoolShutDown(r) ==
  /\ stage[r] = "aborting" /\ Finished(r)
  /\ Enter(r, "raised")
  /\ UNCHANGED <<sites, jobs, request, pool>>

\* The hard time limit, or the worker's end; the message is acknowledged.
WorkerLost(r) ==
  /\ stage[r] \in {"running", "aborting"}
  /\ Enter(r, "lost")
  /\ UNCHANGED <<sites, jobs, request, pool>>

TtlPasses(u) ==
  /\ sites[u].since = "within"
  /\ sites' = [sites EXCEPT ![u] = Expired(@)]
  /\ UNCHANGED <<jobs, stage, request, pool>>

Handler(r) == ReadSites(r) \/ LookUp(r) \/ CommitJobs(r) \/ Publish(r)
Main(r)    == Begin(r) \/ CollectRaises(r) \/ UpdateJobs(r) \/ PoolShutDown(r)
Thread(r)  == \E i \in Positions(r) :
                StartThread(r, i) \/ \E o \in Outcomes : EndCall(r, i, o)

Next == \/ \E r \in Requests : \/ Handler(r) \/ PublishFails(r) \/ Main(r)
                               \/ Thread(r) \/ Interrupt(r) \/ WorkerLost(r)
        \/ \E u \in Urls : TtlPasses(u)

Spec == Init /\ [][Next]_vars

\* A worker takes the message, calls come back, and the main thread goes on.
FairSpec == /\ Spec
            /\ \A r \in Requests : WF_vars(Handler(r)) /\ WF_vars(Main(r))
                                                       /\ WF_vars(Thread(r))

-----------------------------------------------------------------------------
JobStatus == {"pending", "processing", "success", "failed"}
Job == [url : Urls, status : JobStatus, site : BOOLEAN]
Settled(job) == job.status \in {"success", "failed"}

TypeOK ==
  /\ sites \in [Urls -> Site]
  /\ jobs \in Seq(Job)
  /\ stage \in [Requests -> AtApi \cup AtTask \cup Over]
  /\ list \in [Requests -> Lists] /\ force \in [Requests -> BOOLEAN]
  /\ analysed \in [Requests -> SUBSET Urls] /\ looked \in [Requests -> Nat]
  /\ pending \in [Requests -> Seq(Urls)]
  /\ base \in [Requests -> Nat]
  /\ \A r \in Requests :
       /\ Own(r) \subseteq DOMAIN jobs \/ stage[r] \in {"new", "looking"}
       /\ Cardinality(AtWork(r)) <= Concurrency

DistinctUrls(r) ==
  Cardinality({list[r][i] : i \in DOMAIN list[r]}) = Len(list[r])

\* When no URL occurs twice, a batch that ends normally leaves each of its jobs
\* with what became of its own URL, and later batches leave it so.
JobTellsOutcome ==
  \A r \in Requests : DistinctUrls(r) /\ stage[r] = "done" =>
    \A i \in Positions(r) :
      jobs[JobAt(r, i)].status =
        (IF outcome[r][i] \in {"saved", "silent"} THEN "success" ELSE "failed")

\* What GET /jobs shows of a job: its result is there if a site is referred to.
ShowsResult(job) == job.status = "success" /\ job.site

\* A site a successful job refers to has been analysed by a language model,
\* whatever other batches have marked it since: the poller gets an analysis.
ResultIsAnalysis ==
  \A j \in DOMAIN jobs :
    ShowsResult(jobs[j]) => sites[jobs[j].url].analyzer = "llm"

\* The table of jobs as a function, "none" where no row has been inserted yet.
Lifecycle ==
  INSTANCE JobLifecycle
    WITH Jobs   <- 1..MaxJobs,
         status <- [j \in 1..MaxJobs |->
                      IF j \in DOMAIN jobs THEN jobs[j].status ELSE "none"]

\* The status a poller sees moves as JobLifecycle promises, while two batches
\* update the table.
JobsFollowLifecycle == Lifecycle!Spec

\* Every task ends, with more URLs than threads as well.
TasksEnd == \A r \in Requests : stage[r] \in AtTask ~> stage[r] \in Over

Submitted(r) == {i \in DOMAIN thread[r] : thread[r][i] = "submitted"}

\* A task is not blocked: a worker may take it, a thread of its pool has a call
\* under way or a place for one, or all threads are through.
CanGo(r) ==
  \/ stage[r] = "queued"
  \/ PoolRuns(r) /\ AtWork(r) # {}
  \/ PoolRuns(r) /\ Submitted(r) # {} /\ Cardinality(AtWork(r)) < Concurrency
  \/ PoolRuns(r) /\ Finished(r)

\* A task that has not ended can go on, whatever its pool has come to.
NeverStalls == \A r \in Requests : stage[r] \in AtTask => CanGo(r)

\* The steps a task has before it at most: two for each call, and its own.
StepsLeft(r) ==
  CASE stage[r] = "queued"   -> 2 * Len(pending[r]) + 3
    [] stage[r] = "running"  -> 2 * Cardinality(Submitted(r)) + Cardinality(AtWork(r)) + 2
    [] stage[r] = "aborting" -> 2 * Cardinality(Submitted(r)) + Cardinality(AtWork(r)) + 1
    [] OTHER                 -> 0

\* Every step of a task and of its threads, and whatever strikes it, brings it
\* nearer to its end; no other request takes it further away.
StepsRunOut ==
  [][\A r \in Requests :
       stage[r] \in AtTask =>
         \/ StepsLeft(r)' < StepsLeft(r)
         \/ StepsLeft(r)' = StepsLeft(r) /\ UNCHANGED <<stage[r], thread[r]>>]_vars

-----------------------------------------------------------------------------
(* What the documents say and the code does not do.                        *)

\* job_routes.py: the analysis is returned with a job that has succeeded.
SuccessShowsResult ==
  \A j \in DOMAIN jobs : jobs[j].status = "success" => ShowsResult(jobs[j])

\* ARCHITECTURE.md, step 4 of the batch: each job becomes success or failed.
EveryJobSettled ==
  \A r \in Requests : stage[r] = "done" =>
    \A i \in Positions(r) : Settled(jobs[JobAt(r, i)])

\* CLASSIFIER_MODES.md, the TTL: an unreachable site is not analysed again
\* within it.
TtlIsRespected ==
  [][\A r \in Requests : \A i \in Positions(r) :
       /\ stage[r] \in {"running", "aborting"} /\ stage'[r] = stage[r]
       /\ thread[r][i] = "submitted" /\ thread'[r][i] = "calling"
       /\ ~force[r]
         => ~IsUnreachableBlocked(sites[pending[r][i]])]_<<stage, thread>>
=============================================================================
