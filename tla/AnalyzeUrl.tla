------------------------------ MODULE AnalyzeUrl ------------------------------
(***************************************************************************)
(* analyze_url (workers/analyze_task.py): the task that analyses one URL   *)
(* for one job and asks Celery to run it again after a failure that may    *)
(* pass.  Several jobs for the same site run at the same time.             *)
(*                                                                         *)
(* A job and its task meet in three places that no transaction joins: the  *)
(* row of the job, the row of the site and the message in the queue.  The  *)
(* message is acknowledged before the task begins, and the next one is     *)
(* published after the row of the job says "pending" again.                *)
(***************************************************************************)
EXTENDS Integers, SiteRecord

CONSTANTS
  Jobs,           \* the jobs, all for the same site
  InitialSites,   \* the rows the site may have at first
  MaxRetries,     \* max_retries of the task
  Postgres,       \* PostgreSQL, or SQLite?
  Interruptible   \* where the soft time limit or an error of the database
                  \* may strike, a subset of Running

\* Where a task can be between two steps.  The first line is the body of the
\* try statement, the second its except clauses.
Body     == {"begin", "check", "analyse", "settle", "returning"}
Handlers == {"mark", "fail", "transient", "error", "final", "fail final",
             "republish"}
Running  == Body \cup Handlers
Over     == {"ended", "raised", "lost"}

ASSUME RetriesAssumption == MaxRetries \in Nat
ASSUME SitesAssumption == InitialSites \subseteq Site
ASSUME PostgresAssumption == Postgres \in BOOLEAN
ASSUME InterruptAssumption == Interruptible \subseteq Running

VARIABLES
  site,      \* the row of ai_site
  job,       \* the status of each job, "none" if it has no row
  force,     \* request_source = "force"
  message,   \* the retries in the job's message, NoMessage if none is queued
  attempt,   \* self.request.retries
  pc         \* where the job's task is, "idle" between two runs of it

vars == <<site, job, force, message, attempt, pc>>

NoMessage == -1
Outcomes  == {"saved", "not saved", "final", "transient"}

Init ==
  /\ site \in InitialSites
  /\ job \in [Jobs -> {"none", "pending"}]
  /\ force \in [Jobs -> BOOLEAN]
  /\ message = [j \in Jobs |-> 0]
  /\ attempt = [j \in Jobs |-> 0]
  /\ pc = [j \in Jobs |-> "idle"]

Go(j, place)       == pc' = [pc EXCEPT ![j] = place]
SetJob(j, status)  == job' = [job EXCEPT ![j] = status]

-----------------------------------------------------------------------------
(* The body                                                                *)

\* A worker takes the message and acknowledges it.
Deliver(j) ==
  /\ pc[j] = "idle" /\ message[j] # NoMessage
  /\ attempt' = [attempt EXCEPT ![j] = message[j]]
  /\ message' = [message EXCEPT ![j] = NoMessage]
  /\ Go(j, "begin")
  /\ UNCHANGED <<site, job, force>>

\* Faulty variant: the job is not marked as processing.
BeginUnmarked(j) ==
  /\ pc[j] = "begin"
  /\ Go(j, IF job[j] = "none" THEN "ended" ELSE "check")
  /\ UNCHANGED <<site, job, force, message, attempt>>

Begin(j) ==
  /\ pc[j] = "begin"
  /\ IF job[j] = "none" THEN Go(j, "ended") /\ UNCHANGED job
                        ELSE Go(j, "check") /\ SetJob(j, "processing")
  /\ UNCHANGED <<site, force, message, attempt>>

\* What is known of the site may settle the job: it failed if the site is
\* unreachable and inside its TTL, it succeeded if anything but the rules has
\* written the row, a mark of mark_site_status included.
CheckCache(j) ==
  /\ pc[j] = "check"
  /\ \/ /\ \/ force[j] \/ ~Exists(site)
           \/ /\ ~TtlCheckRaises(site, Postgres) /\ ~IsUnreachableBlocked(site)
              /\ IsFailedAnalysis(site) \/ site.analyzer = "rule"
        /\ Go(j, "analyse") /\ UNCHANGED job
     \/ /\ ~force[j] /\ Exists(site)
        /\ \/ /\ TtlCheckRaises(site, Postgres)
              /\ Go(j, "error") /\ UNCHANGED job
           \/ /\ ~TtlCheckRaises(site, Postgres) /\ IsUnreachableBlocked(site)
              /\ Go(j, "returning") /\ SetJob(j, "failed")
           \/ /\ ~TtlCheckRaises(site, Postgres) /\ ~IsUnreachableBlocked(site)
              /\ ~IsFailedAnalysis(site) /\ site.analyzer # "rule"
              /\ Go(j, "returning") /\ SetJob(j, "success")
  /\ UNCHANGED <<site, force, message, attempt>>

\* get_llm_analyzer and detect_and_save.  Without a result AnalysisError is
\* raised; the domain exceptions have except clauses of their own.
Analyse(j, o) ==
  /\ pc[j] = "analyse"
  /\ site' \in IF o = "saved" THEN {Saved("ok", "llm"), Saved("blocked", "llm")}
                              ELSE {site}
  /\ Go(j, CASE o = "saved"     -> "settle"
             [] o = "not saved" -> "error"
             [] o = "final"     -> "mark"
             [] o = "transient" -> "transient")
  /\ UNCHANGED <<job, force, message, attempt>>

SettleSuccess(j) ==
  /\ pc[j] = "settle"
  /\ SetJob(j, "success") /\ Go(j, "returning")
  /\ UNCHANGED <<site, force, message, attempt>>

\* Building the result reads the rows again, which the commit has expired.
ReturnResult(j) ==
  /\ pc[j] = "returning" /\ Go(j, "ended")
  /\ UNCHANGED <<site, job, force, message, attempt>>

-----------------------------------------------------------------------------
(* The except clauses                                                      *)

\* A site that is gone and an access that is denied differ in the status the
\* policy gives them, and the policy reads it from a text that holds the URL.
FinalStatus == {"unreachable", "blocked", NULL}

\* mark_site_status, in a session of its own.
MarkSite(j) ==
  /\ pc[j] = "mark"
  /\ \E status \in FinalStatus : site' = Mark(site, status)
  /\ Go(j, "fail")
  /\ UNCHANGED <<job, force, message, attempt>>

\* The handler looks its job up by the string it was called with, which the
\* column type can bind on PostgreSQL only.
FailJob(j) ==
  /\ pc[j] = "fail"
  /\ IF Postgres THEN SetJob(j, "failed") /\ Go(j, "ended")
                 ELSE Go(j, "raised") /\ UNCHANGED job
  /\ UNCHANGED <<site, force, message, attempt>>

\* Faulty variant: one retry more than the decorator allows.
RetriesLeftOneMore(j) == attempt[j] <= MaxRetries

RetriesLeft(j) == attempt[j] < MaxRetries

\* Faulty variant: the last failure leaves the job to a retry as well.
HandleTransientPending(j) ==
  /\ pc[j] = "transient"
  /\ IF ~Postgres THEN Go(j, "raised") /\ UNCHANGED job
     ELSE SetJob(j, "pending")
          /\ Go(j, IF RetriesLeft(j) THEN "republish" ELSE "ended")
  /\ UNCHANGED <<site, force, message, attempt>>

HandleTransient(j) ==
  /\ pc[j] = "transient"
  /\ IF ~Postgres THEN Go(j, "raised") /\ UNCHANGED job
     ELSE IF RetriesLeft(j) THEN SetJob(j, "pending") /\ Go(j, "republish")
     ELSE SetJob(j, "failed") /\ Go(j, "ended")
  /\ UNCHANGED <<site, force, message, attempt>>

\* The clause for every other exception looks its job up by UUID.
HandleError(j) ==
  /\ pc[j] = "error"
  /\ IF job[j] = "none"
     THEN Go(j, IF RetriesLeft(j) THEN "republish" ELSE "ended") /\ UNCHANGED job
     ELSE IF RetriesLeft(j) THEN SetJob(j, "pending") /\ Go(j, "republish")
     ELSE Go(j, "final") /\ UNCHANGED job
  /\ UNCHANGED <<site, force, message, attempt>>

\* The final failure marks the site before the job's own commit.
MarkFailure(j) ==
  /\ pc[j] = "final"
  /\ site' = Mark(site, "failure")
  /\ Go(j, "fail final")
  /\ UNCHANGED <<job, force, message, attempt>>

FailFinally(j) ==
  /\ pc[j] = "fail final"
  /\ SetJob(j, "failed") /\ Go(j, "ended")
  /\ UNCHANGED <<site, force, message, attempt>>

\* Faulty variant: the count of retries is not carried over.
RepublishUncounted(j) ==
  /\ pc[j] = "republish"
  /\ message' = [message EXCEPT ![j] = attempt[j]]
  /\ Go(j, "idle")
  /\ UNCHANGED <<site, job, force, attempt>>

\* self.retry
Republish(j) ==
  /\ pc[j] = "republish"
  /\ message' = [message EXCEPT ![j] = attempt[j] + 1]
  /\ Go(j, "idle")
  /\ UNCHANGED <<site, job, force, attempt>>

-----------------------------------------------------------------------------
(* What happens to a task from outside                                     *)

\* An exception inside the body reaches the last except clause; inside an
\* except clause (mark_site_status, the commit, the broker) it ends the task.
\* What was not committed is gone.
Interrupt(j) ==
  /\ pc[j] \in Interruptible
  /\ Go(j, IF pc[j] \in Body THEN "error" ELSE "raised")
  /\ UNCHANGED <<site, job, force, message, attempt>>

\* The hard time limit, or the worker's end.
WorkerLost(j) ==
  /\ pc[j] \in Running
  /\ Go(j, "lost")
  /\ UNCHANGED <<site, job, force, message, attempt>>

TtlPasses ==
  /\ site.since = "within"
  /\ site' = Expired(site)
  /\ UNCHANGED <<job, force, message, attempt, pc>>

Step(j) ==
  \/ Deliver(j) \/ Begin(j) \/ CheckCache(j) \/ SettleSuccess(j) \/ ReturnResult(j)
  \/ \E o \in Outcomes : Analyse(j, o)
  \/ MarkSite(j) \/ FailJob(j) \/ HandleTransient(j)
  \/ HandleError(j) \/ MarkFailure(j) \/ FailFinally(j) \/ Republish(j)

Next == \/ \E j \in Jobs : Step(j) \/ Interrupt(j) \/ WorkerLost(j)
        \/ TtlPasses

Spec == Init /\ [][Next]_vars

\* Workers take the messages in the queue, and a task is always in a call
\* that comes back or that the time limits end.
FairSpec == Spec /\ \A j \in Jobs : WF_vars(Step(j))

-----------------------------------------------------------------------------
Settled(status) == status \in {"success", "failed"}

TypeOK ==
  /\ site \in Site
  /\ job \in [Jobs -> {"none", "pending", "processing", "success", "failed"}]
  /\ force \in [Jobs -> BOOLEAN]
  /\ message \in [Jobs -> 0..MaxRetries \cup {NoMessage}]
  /\ attempt \in [Jobs -> 0..MaxRetries]
  /\ pc \in [Jobs -> {"idle"} \cup Running \cup Over]

\* A job that is not settled has a task at work on it or a message that will
\* start one, unless its task was killed or raised out of an except clause:
\* no path through the handlers ends without deciding the job.
UnsettledIsAttended ==
  \A j \in Jobs :
    job[j] \in {"pending", "processing"} =>
      message[j] # NoMessage \/ pc[j] \in Running \cup {"raised", "lost"}

\* However marks and analyses of concurrent jobs follow each other, a TTL that
\* has begun is never begun anew: it passes, or an analysis ends it.
TtlNotRestarted ==
  [][site.since = "past" => site'.since # "within"]_site

Lifecycle == INSTANCE JobLifecycle WITH status <- job

\* An exception between the commit that settled a job and the end of its run:
\* the last except clause treats the settled job as one that has failed, and
\* either returns it to pending for a retry or, after the last one, fails it.
SetBack(j) ==
  /\ Settled(job[j])
  /\ \/ pc[j] = "error" /\ RetriesLeft(j) /\ job'[j] = "pending"
     \/ pc[j] = "fail final" /\ ~RetriesLeft(j) /\ job'[j] = "failed"

\* The status a poller sees moves as JobLifecycle promises, wherever the time
\* limit strikes, but for one set-back: only the run that settled a job may take
\* that back, to repeat the task or to fail it with its last retry, and once the
\* run is over a settled job is touched by no one.
JobsFollowLifecycle ==
  /\ Lifecycle!Init
  /\ [][\A j \in Jobs : \/ job'[j] = job[j]
                        \/ <<job[j], job'[j]>> \in Lifecycle!Moves
                        \/ SetBack(j)]_job

\* A queued job is worked on until its task ends, after MaxRetries retries at
\* the latest.
TasksEnd == \A j \in Jobs : message[j] # NoMessage ~> pc[j] \in Over

\* How many steps a run of the task has before it at most, interrupted or not.
Distance(place) ==
  CASE place = "idle"                            -> 9
    [] place = "begin"                           -> 8
    [] place = "check"                           -> 7
    [] place = "analyse"                         -> 6
    [] place \in {"settle", "mark", "transient"} -> 5
    [] place \in {"returning", "fail"}           -> 4
    [] place = "error"                           -> 3
    [] place = "final"                           -> 2
    [] place \in {"fail final", "republish"}     -> 1
    [] OTHER                                     -> 0

\* The same for the task with all its retries.
StepsLeft(j) ==
  10 * (MaxRetries - (IF pc[j] = "idle" THEN message[j] ELSE attempt[j]))
    + Distance(pc[j])

\* A task that is not over can go on: it is in the code or in the queue.
NeverStalls ==
  \A j \in Jobs :
    pc[j] \notin Over => pc[j] \in Running \/ (pc[j] = "idle" /\ message[j] # NoMessage)

\* Every step of a task, and whatever strikes it, brings it nearer to its end.
StepsRunOut ==
  [][\A j \in Jobs : Step(j) \/ pc'[j] # pc[j] => StepsLeft(j)' < StepsLeft(j)]_vars

-----------------------------------------------------------------------------
(* What the documents say and the code does not do.                        *)

\* ARCHITECTURE.md, the states of a job: a final failure makes it failed.
FinalFailureIsFailed ==
  \A j \in Jobs : pc[j] = "raised" => job[j] # "processing"

\* The same: a job that has succeeded has reached the end of the diagram.
SuccessIsFinal ==
  [][\A j \in Jobs : job[j] = "success" => job'[j] = "success"]_job
=============================================================================
