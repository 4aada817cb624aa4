# Verification of Searchweb-Dataset-Construction

TLA+ models of the service in `src/`, the TLC configurations that check them on
small instances, and TLAPS proofs about each of its nine state machines for every
value of their constants. Paths such as `workers/analyze_task.py` are relative to
`src/src/`; `ARCHITECTURE.md`, `README.md` and `docs/` are the repository's own documents.

1. [The system](#the-system)
2. [Modules](#modules)
3. [The models, one by one](#the-models-one-by-one)
4. [Runs and bounds](#runs-and-bounds)
5. [Fairness](#fairness)
6. [Proofs](#proofs)
7. [Where the documents and the code differ](#where-the-documents-and-the-code-differ)
8. [What is not modelled](#what-is-not-modelled)
9. [Plan](#plan)

## The system

The service decides whether a web site is an AI tool, by a language model or by
rules, and stores the result. A FastAPI process takes requests, a Celery worker
runs tasks from a Redis queue, a database keeps sites and jobs, and JSON files
carry lists of URLs in and results out.

| Component | State it keeps | Operations | What makes it correct |
|---|---|---|---|
| Error policy (`core/error_policy.py`) | none | `classify_api_error`, `get_policy` | An error leads to the mark, the retries and the signal its kind stands for, also when it is classified a second time from a text that quotes a URL. |
| Gemini analyzer (`ai/gemini_analyzer.py`) | attempts of one call | `_generate` with tenacity, `_raise_typed_error` | Whatever errors the attempts met, a transient failure leaves no trace on a site. |
| Site record (`db/models/ai_site.py`, `workers/job_status.py`) | status, analyzer, `unreachable_since` | `mark_site_status`, TTL test, save | The TTL of seven days runs once from the first detection. |
| Storage (`db/site_service.py`) | row, categories, tags | `detect_and_save` in a transaction | Concurrent saves of a site do not leave half of an analysis; every session ends. |
| Bulk task (`workers/analyze_task.py`, `workers/bulk_preflight.py`) | the window of futures, quota event, result maps | `analyze_urls_bulk` | Every URL is analysed, left out or failed, once; a spent quota costs no more calls than the window holds; what was saved before a crash is not paid for again, and what was left out is taken up. |
| Batch flow (`api/analyze_routes.py`, `analyze_urls_batch`, `api/job_routes.py`) | jobs | `POST /analyze`, the task, `GET /jobs/{id}` | A poller sees a job move forward only, and a success is an analysis of its URL. |
| Single-URL task (`analyze_url`) | job, site, message | the task with Celery's retries | A job that is not settled has somebody working on it. |
| Rule route (`api/rule_routes.py`) | none; the site's row | `POST /rule/classify` | Rules do not overwrite the language model; the answer from a row is no better than the evaluation it comes from. |
| Rule pipeline (`rule/pipeline.py`, `rule/analyzer.py`) | the context handed from step to step | eight steps, the dict to store | A site is called curated only on what its pages show; one that blocks the crawl is tried again. |
| Rule classifiers (`rule/classifiers/`) | none | candidates, signals, gate, criteria, score, status, review | The thresholds, the weights and the gates fit together; which pages are read does not depend on the order of the fetches. |
| Batch and result files (`core/batch_file.py`, `core/result_writer.py`) | files | `extract_urls`, `write_batch` | A result file is the source of the next round: what is done is done, what failed comes again. |
| Page fetcher (`rule/fetchers/page_fetcher.py`) | browsers, sessions, a shared switch | `fetch`, `fetch_many`, `close` | No browser is forgotten, and rendering does not spoil a page. |
| Prompts, parsers, configuration | none | functions of text | not modelled |

The components meet in these places:

- The API commits jobs and then publishes a message; a worker acknowledges the
  message and then works on it. Nothing joins the database and the queue, so a
  crash on either side leaves jobs that nobody attends.
- A task runs one thread per URL. Threads save sites in sessions of their own;
  the main thread settles all jobs at the end. Threads share the quota event.
- Tasks, single-URL tasks and the rule route write the same row of `ai_site`,
  each in a transaction under READ COMMITTED, and `mark_site_status` writes it
  in another session than the analysis it belongs to.
- The result file of one task is read by the next.
- An evaluation by the rules leaves in the row a part of what it found (`hard_pass`,
  `total_score`, `review_required`, `is_ai_tool`) and not its status; a later
  request rebuilds an answer from that part.
- The threads of the page fetcher share the list of all browsers and the right
  to close them.

What is hard: the order in which threads finish, the race of marks and saves,
the quota met in the middle of a window, tasks that die at a time limit between
two commits, an exception that is classified twice, redirects that make two
fetches one page, and a verdict that hangs on a sum of five confidences, three
gates, a review and a cache. The hazards, each at
its line and with the properties that cover it, are in `PROJECT.json`.

## Modules

| Module | Models | Uses |
|---|---|---|
| `ErrorPolicy` | the classification and the policies, as operators | |
| `LlmCall` | one URL from the SDK's exception to the result of `_analyze_one` | `ErrorPolicy` |
| `SiteRecord` | marks, TTL and completeness of one row, as operators | |
| `JobLifecycle` | abstract: what a job promises its poller | |
| `BulkTask` | `analyze_urls_bulk` with preflight, window, quota, update of jobs | `SiteRecord`, `JobLifecycle` |
| `BatchFlow` | `POST /analyze`, `analyze_urls_batch`, `GET /jobs` | `SiteRecord`, `JobLifecycle` |
| `AnalyzeUrl` | `analyze_url`, its handlers and retries | `SiteRecord`, `JobLifecycle` |
| `SiteStore` | concurrent transactions on one site | |
| `ResultFile` | reader and writer of the files over several rounds | |
| `PageFetcher` | fetching, browsers and closing in one run of the pipeline | |
| `RuleVerdict` | the gate, the criteria, the score, the status, the review and the trust in a row, as operators | |
| `RuleRoute` | `POST /rule/classify`: row or pipeline, step by step, and the save; workers between requests | `RuleVerdict` |
| `PageCollection` | the first step of the pipeline: links, candidates, the pool, the pages kept | `RuleVerdict` |
| `LlmCallProofs`, `BulkTaskProofs`, `BatchFlowProofs`, `AnalyzeUrlProofs`, `RuleRouteProofs`, `PageFetcherProofs`, `PageCollectionProofs` | theorems, each about the module it is named after and the operators that one uses | |
| `StorageProofs` | theorems about `SiteStore` and `ResultFile`, the two places an analysis is stored | |

An `MC` module with the name of each state machine holds the values TLC uses.
`BulkTask`, `BatchFlow` and `AnalyzeUrl` instantiate `JobLifecycle` with the
table of jobs as `status` ("none" for a row not yet inserted). For the first two
its specification is the property `JobsFollowLifecycle`: they implement
one abstract specification, and a task that repeats or skips a move of a job
does not. `AnalyzeUrl` does not implement it; its property of that name allows the
moves of `JobLifecycle` and one more, the set-back described below. `BulkTask` and `BatchFlow`, whose tables grow, look at the first
`MaxJobs` rows; runs check it for the rows of their instances, and the theorems
hold for every such number.

Definitions with a comment "Faulty variant" are not part of any specification.
They are the mistakes against which the properties were tried: each property of
each passing run is violated when the named variant takes the place of the
definition after it (`PROJECT.json`, "mutants").

## The models, one by one

**ErrorPolicy, LlmCall.** `ClassifyApiError` follows the order of the tests in
`classify_api_error`: type, then gRPC status or HTTP code, then words in the
text. A text is the set of those words it contains. `_raise_typed_error` builds
a text from a fixed phrase with a code and from the URL, so a domain exception
has the words of its code and those of the URL, and `get_policy` in the except
clauses of `_analyze_one` classifies that text again. `LlmCall` has one action
per frame an exception passes. It derives the outcomes that `BulkTask` and
`BatchFlow` take as given.

**SiteRecord.** The row is its status, its analyzer (none, rule, llm) and
`unreachable_since`, which is NULL, within the TTL or past it. `Mark` keeps the
first detection, as the code does; `Saved` clears it.

**BulkTask.** `sites` and `jobs` are the two tables. A task is received from
the queue, scans its list (`ScanUrl`, one URL at a time as the code reads them),
creates its jobs and, in the same commit, `job_id_map` (`lastOf`, which holds
the last position of a URL, as the dictionary does), marks the jobs, opens the
window, waits, collects one future at a time and submits one more, closes the
window and settles the jobs. A thread looks at the event (`CheckEvent`), begins its
call (`BeginCall`), ends it with what it saves or marks (`EndCall`) and returns, as
steps of its own: between the look and the call another thread may set the event,
and a call that is under way, with whatever attempts it has left, goes on. The soft time limit is `Interrupt`, the hard one
and the death of the worker are `WorkerLost`; the pool's exit waits for its
threads (`PoolShutDown`). Bound: `MaxRuns`, the number of tasks received.

**BatchFlow.** Several requests go through the handler: `ReadSites` reads the
rows of the whole list at once, `LookUp` takes the URLs one by one, then come
`CommitJobs` and `Publish` or `PublishFails`. Each request that has URLs left gets
a task whose pool has fewer threads than it has URLs. `UpdateJobs` is the one
commit at the end.

**AnalyzeUrl.** Several jobs of one site. Each step between two commits is an
action, each except clause with its own look-up of the job is one as well: the
handlers look the job up by the string of the message, which SQLite's column
type refuses. `Interruptible` names the places where an exception from outside
may strike: between two places an exception in the body reaches the last except
clause, and in an except clause it ends the task. The place after the commit that
settles a job (`ReturnResult`) is one of them, so the last except clause may find
a job that has succeeded.

**SiteStore.** A session works statement by statement, with autoflush off as in
`db/session.py`: it reads the row, deletes the categories, then the tags; the commit
flushes the new categories, the row of the site and the new tags, in this order,
as no `relationship()` ties the three classes and the unit of work sorts
them by table. Labels are the categories and the tags; each has a kind
(`Category`, `Tag`), and the rows of one kind are inserted in one step. A DELETE sees
what was committed when it began and waits for whoever deletes the same rows;
the UPDATE sets the columns that differ from what the session read; an INSERT
waits for a rival with an equal unique key. `BreakDeadlock` is the database
ending one transaction of a cycle. `stale` is a history variable: it tells
whether another session has committed since this one read the row.

**ResultFile.** Files are named by the second in which their task began, which
is all that differs in the code's names. An element of a file is a string, an
object with "url" or one with "link", and its mark. A task is sent from a file or
from an upload that is never stored (`Send`), reads the clock and drops what the
table has an analysis of (`BeginRound`), analyses its URLs in any order
(`Analyse`), reads the source again (`ReadSource`, whose error leaves an empty
list), puts its entries into the array, results before failures, one turn of the
two loops per step (`PutEntry`), and opens, dumps and closes the file
(`OpenOutput`, `Dump`). Opening truncates; a dump that fails, meets another task's
or dies half way leaves a file that is not JSON, which the next reader takes for
an empty list. Tasks run side by side. Bounds: `MaxTasks`, `MaxClock`; `MaxUrls`
is the cap of 500, set to 2 so that it cuts.

**PageFetcher.** A page is whether it is ok, whether it is a challenge and
whether it has content, which is what `_choose_better_result` compares. Each
thread has a browser in a thread-local place, all are in a shared list, a
failed launch and a browser that cannot run close all of them, and closing a
browser of another thread may fail in silence. `voidedBy` is a history field.

**RuleVerdict.** What the words of a page say is an input: counts of keywords
for the gate, flags for the signals, the score of the best sentence for the
description. Everything decided from there on is the code's arithmetic with its
constants from `rule/config.py`: confidences are thousandths and weights
hundredths, so a score is exact where the code adds floats. The float sums
agree with it at every threshold but for a description whose exact score is
0.55 or 0.75, which may fall just short; 549 and 749 among the scores stand for
that. The criteria of a site that is not an AI site carry confidence 1 and fail;
the confidence of a failed criterion counts for nothing but the review of the
description and the trust score of the row, as in the code.

**RuleRoute.** One action per step of `DEFAULT_PIPELINE_STEPS`, in that order,
except that score, review and summary are one action with the save
(`JudgeAndSave`): they work on the context alone. What a step leaves in the
context and no later step reads is dropped. `Fetch` keeps of the pages how the
home page ended, how many others were ok, refused or failed, and whether a page
that is ok is left among those kept: a candidate that ends at the home page's
URL takes its place. `Fail` is an exception in any step. `LlmSaves` and
`MarkSite` are the workers between two requests; during one they are the
subject of `SiteStore`. `verdict` is a history variable, the evaluation the
row comes from. Bound: `MaxEvaluations`, the runs of the pipeline.

**PageCollection.** URLs are numbers, after `normalize_url_simple`; what the
words of a link say is its set of kinds, and `Seeds` are the three URLs the code
knows for one company's hosts. The step is a row of loops over links, seeds,
probes, candidates of each kind, fetches and pages: `phase` names the loop and
`at` counts its turns, one turn being one action, as order decides what the
limits cut. Each fetch of the pool ends at the URL asked or, redirected, at one
of `EndsAt`, with a page, a refusal or another error (a status of 404 or 500 keeps
the URL it was led to, an exception the one that was asked), and the fetches end
in any order. `Keep` is the assignment to the dictionary by final URL. A link to the home page itself is a candidate
like any other in the code as in the model: the page it brings replaces the home
page among the pages kept.

## Runs and bounds

| Run | Asks | Instance |
|---|---|---|
| `LlmCall` | which marks, errors and signals can a call leave | 14 exceptions, 7 sets of words in a URL, 3 attempts |
| `BulkTask_window` | window, quota and jobs; does the task end | lists of 0 to 3 URLs, one with a URL twice; window 2; all outcomes |
| `BulkTask_rerun` | a second task after one that may have died | 2 URLs, 7 rows, 2 tasks |
| `BatchFlow_two` | two requests that share a URL | 2 URLs, pool of 1; an analysis is saved, finds the site gone, or raises |
| `AnalyzeUrl_two` | two jobs of one site; do the retries run out | 7 rows, 1 retry, PostgreSQL, interrupted anywhere |
| `SiteStore_four` | concurrent saves and a mark; do the sessions end | 3 savers and 1 mark, categories and tags that collide in pairs |
| `ResultFile_rounds` | two tasks over a file and its outputs, side by side | 2 sources of 4 and 3 entries, cap 2, 2 tasks, 2 seconds |
| `PageFetcher_two` | browsers of several threads, the choice of the page; does the run end | home page, 2 candidates, 2 threads |
| `RuleRoute_one` | what the gates, the score, the review and the row let through together | one evaluation, requests and workers before and after it; counts of keywords past every bound of the gate, 5 sets of other pages, 6 scores of a sentence |
| `PageCollection_pool` | which pages the evaluation sees; does the step end | 7 URLs, 21 lists of links, 2 pages per kind, 5 in all, pool of 2, two URLs that redirect |

Two more runs, in [their own section](#where-the-documents-and-the-code-differ),
end in a counterexample. `BatchFlow_one.cfg` is a further configuration, run by
hand and not part of `PROJECT.json`: one request, every outcome, a list with or
without a repetition, for `TypeOK`, `JobTellsOutcome` and the liveness property
`TasksEnd`; it passes.

The types of `LlmCall`, `SiteStore`, `PageFetcher` and `ResultFile`,
`JobTellsOutcome` of `BatchFlow`, `CountsAddUp` of `BulkTask` and what is said
[below](#no-system-stalls) of steps that remain are proved and in no run; each
holds in the configurations above when added to them. The runs spend their time
on the properties that say more. Every inductive invariant of the proofs was
checked as an invariant of a run before it was proved.

Why these are enough: the window needs one URL that waits, two in flight and
the event between two results, which three URLs and a window of two give. A
repeated URL needs a place before and one after another URL. Two jobs or two
requests are the least that race, and no action looks at more than one other.
In `SiteStore` the longest cycle of waits needs the row, a label inserted and a
label deleted, hence three savers. In `ResultFile` the second task reads what
the first has written; a third would read a file of the same shape. The
values of `RuleRoute_one` lie on both sides of every comparison of the code, and one
evaluation is enough since an evaluation reads nothing of the one before
it but the decision to skip it; the theorems cover the rest. In `PageCollection`
five places are the least at which 60% of the candidates is a whole number, and
with two places for each of four kinds both limits cut: of three pricing links one
is left over, and one kind after another fills the five places. In `PageFetcher` the main thread and one
more suffice for every conflict over the shared list, and the second is there to
be closed while it launches.

`CHECK_DEADLOCK FALSE` stands in every configuration but those of `RuleRoute` and
`PageCollection`: these systems stop when the work is done. That they do not stop
earlier is what the liveness properties say (`TaskEnds` of `BulkTask`, `TasksEnd` of `AnalyzeUrl` and
`BatchFlow`, `SessionsEnd`, `PipelineEnds`, `CollectionEnds`).

Three runs leave out what a configuration below refutes. `AnalyzeUrl_two` is on
PostgreSQL: `AnalyzeUrl_sqlite.cfg` takes the other database. `BulkTask_window`
and `BulkTask_rerun` read timestamps without a zone: `BulkTask_aware.cfg` takes
the others.

What the runs show, apart from types:

- `TransientLeavesSite`, `QuotaEventIsQuotaError`: however the attempts mix
  kinds of errors and whatever the URL spells, a transient failure writes
  nothing, and the event is raised for the quota and nothing else. `PlainUrlKeepsStatus` and
  `OnlyKeywordUrlHidesFailure` delimit what the second classification spoils.
- `WindowBounded`, `MappedJobsSettled`, `JobTellsOutcome`: the accounting of the
  bulk task holds in every order of results, wherever the quota ends it.
- `RefusalsWithinWindow`: calls do begin after the quota is spent, by threads that
  had looked at the event before; in a whole task no more are refused than
  the window holds.
- `CompleteIsNotRepeated`, `LeftOutIsTakenAgain`: wherever a task dies, a later
  one does not pay again for what was saved and takes up what was left out.
- `UnsettledIsAttended`, `TtlNotRestarted`: no path through the handlers of
  `analyze_url` ends without deciding its job, and no order of marks makes a
  TTL begin anew.
- `JobsFollowLifecycle` of `AnalyzeUrl`: jobs move as `JobLifecycle` promises but
  for one move, which it names (`SetBack`): after an interrupt between the commit of a
  success and the return, the last except clause sets the job back to pending, or
  fails it when no retry is left. That the document does not allow this move is
  what `AnalyzeUrl_late.cfg` shows; the property says that there is no other.
- `LastAnalysisComplete`, `LabelsAreOfSaved`, `AloneReplacesAll`: what
  concurrent saves cannot break. What they can break is a finding below.
- `ResultIsAnalysis`: a result shown with a job is an analysis, whatever other
  batches have marked since.
- `OutputTellsTask`, `RoundTrip`: whatever other tasks read and write meanwhile,
  the file of a task that is alone in its second tells what became of each of its
  URLs and keeps what it read of the others; and from a file that was written the
  next round takes what failed and leaves what is done, up to entries that are
  not objects with "link" or occur twice.
- `BrowsersAreAttended`, `OnlyForeignClosedRemain`, `RenderingNeverWorsens`:
  what survives the shared closing.
- `OneDriverPerPage`: whatever launches fail and whoever closes a thread's browser
  meanwhile, no page costs more than one driver, so that the drivers of failed
  launches, which nobody registers, are no more than the pages fetched.
- `ReviewedIsNeverCurated`: however a site comes to be called curated, by a new
  evaluation or from the row of an old one, and whatever workers do to the row
  in between, the evaluation was sure of an AI site, was not blocked, found a
  use and a description, and asked for no review. It relates the answer to an
  evaluation whose status the row does not keep.
- `CuratedIsGrounded`: the weights and the gates together ask for documents, a
  policy and prices that are more than a sales contact.
- `BlockedIsTakenAgain`: no verdict on a crawl that was blocked is served, not
  even one of "not an AI site", for which the review gate says nothing: the
  criteria fail, so the row is not trusted.
- `EveryKindIsSampled`, `LostOnlyToOwnUrl`, `RefusalsAreCounted`: the first links of
  a kind are fetched unless the limit in all is reached with first links of kinds
  not behind it, so neither a long kind, nor a link of several kinds, nor the probes
  crowd out another kind; a page is lost to a later fetch of the same final URL only; refusals at URLs of their own count
  as the documents say.

## Fairness

Weak fairness on the steps of a task's main thread and of its threads: a call
of the API, of `requests` or of Playwright has a timeout and comes back, and a
thread that can run does. In `AnalyzeUrl`, the delivery of a queued message is
among a job's steps: workers take messages as long as there are any. In
`SiteStore`, a session goes on with its statements, and the database detects
deadlocks (PostgreSQL's `deadlock_timeout`). In `PageCollection` the one thread
or the pool goes on, each request having a time limit (`timeout_sec`).
`RuleRoute` states no fairness and no liveness. Nothing makes requests or tasks
arrive, time pass, workers die or interrupts strike: none of these has
fairness, and none is needed.

## Proofs

The theorems hold for every value of the constants: any number of URLs, jobs,
requests, sessions, threads, retries and evaluations. They rest on the
assumptions the modules name for their constants and on nothing else. These
assumptions are types but for three. `RawErrorsAssumption` of `LlmCall` says
that the SDK raises no exception of the domain's own types, which it does not
know. `RowsAssumption` of `SiteStore` says that no saver has written the row
before it begins, and `RowsAssumption` of `RuleRoute` that a row of the rules
that is there at first was written before the columns a trusted one needs, and
has NULL in them.

Each proof has the same form: an invariant that is kept by every step, proved
with one step per action and closed with PTL, and the property drawn from it.
What the invariant has to add to the property is the argument why the code is
right; it is given below for each module. "By TLC" names the run that checks
the same property on an instance.

### One call

| Theorem (`LlmCallProofs`) | States | By TLC |
|---|---|---|
| `CallTypes` | `Spec => []TypeOK` | |
| `TransientSpares` | `Spec => []TransientLeavesSite` | `LlmCall` |
| `EventIsQuota` | `Spec => []QuotaEventIsQuotaError` | `LlmCall` |
| `PlainUrlStatus` | `Spec => []PlainUrlKeepsStatus` | `LlmCall` |
| `OnlyKeywordsHide` | `Spec => []OnlyKeywordUrlHidesFailure` | `LlmCall` |

`CallInv` says of each frame what the exception in it still carries of the
error it began as. That is a matter of the two classifications, so most of the
work is in lemmas about `ErrorPolicy`: `KindOfError` (every exception has a
kind), `CodesReadBack` (the text made for a gone site or a denied access is read
back as its kind whatever the URL adds, all but the unfulfilled precondition),
`RereadType` (a second reading still ends in a status of the policy or none).
`FailedState` sums up what a failure can have left when it is over, and the
four properties about failures follow from it.

### The bulk task

| Theorem (`BulkTaskProofs`) | States | By TLC |
|---|---|---|
| `TypeCorrect` | `Spec => []TypeOK` | `BulkTask_window` |
| `JobsAreSettled` | `Spec => []MappedJobsSettled` | `BulkTask_window` |
| `WindowIsBounded` | `Spec => []WindowBounded` | `BulkTask_window` |
| `QuotaCostsOneWindow` | `Spec => []RefusalsWithinWindow` | `BulkTask_window` |
| `LeftOutStaysOpen` | `Spec => []LeftOutIsTakenAgain` | `BulkTask_rerun` |
| `JobsTellOutcome` | `Spec => []JobTellsOutcome` | `BulkTask_window` |
| `CompleteStays` | `Spec => CompleteIsNotRepeated` | `BulkTask_rerun` |
| `BulkRefinesLifecycle` | `Spec => JobsFollowLifecycle` | `BulkTask_rerun` |
| `ReportAddsUp` | `Spec => []CountsAddUp` | by hand, added to `BulkTask_window.cfg` |

`TypeOK` is not inductive by itself: `success` and `failure` are sets of
positions that come out of `lastOf`, so `MapOK` (the map leads from each
position to a position with the same URL) goes with it.

`JobInv` adds what the loop knows in the middle. `OwnJobs` and `OwnFutures` say
how many jobs and futures the task has, `FreshJobs` that its jobs are not
settled before the update. `NothingDropped` is the heart: a position before
`next` is in flight or in a result map, and while URLs are left and the quota is
not exhausted something is in flight to bring them in. It is not visible in
`MappedJobsSettled`, which speaks of the end only. `AllTold` carries it to the
moment the window has closed.

`WindowIsBounded` needs `WindowInv`: while the pool runs, whatever is at work is
an active future, at most `Concurrency` futures are active, and a result that
waits to be collected is an active one that has finished, so that the slot it
gives back is its own. The steps count with the library's theorems on finite
sets.

`QuotaCostsOneWindow` is about a check that is stale when the call begins.
`RefusedInv` counts the calls refused together with those that have passed the
check (`Committed`): before the event is set none is refused, at the first
refusal both are among the futures at work, and afterwards nobody passes the check.

`JobsTellOutcome` follows a result from the thread to the row. `ScanInv` says
that a list without repetitions gives a scan without them, so that `lastOf`
leads each position to itself (`OwnJob`); `FutureInv` that a future tells
nothing before its thread has been at work; `TellInv` that the result maps hold
what the finished futures came to, and the rows what the maps held. Without the
hypothesis on the list the property is false, which `BulkTask_jobs` shows.

`CompleteStays` and `LeftOutStaysOpen` relate a call to the rows earlier tasks
have left. `AwaitInv` says that a site whose call is still to come, or has come to
nothing for a reason that passes, is one the preflight would take: the scan took
it, nobody else saves or marks it meanwhile, and such a call leaves the row
alone. The first theorem draws from it that the site is not complete when its call
begins, the second that it is open when the task is over.

`BulkRefinesLifecycle` shows that `Init` implies `JobLifecycle`'s `Init` and that
every step is one of its steps or leaves the rows alone. `StatusInv` tells the
status of a task's rows from where the task is, so that marking moves them from
pending only, and settling from processing.

`ReportAddsUp` is about a report that counts the keys of two maps and subtracts.
`CountInv` gives what makes the counts a partition of the list: without a
repeated URL, the results written are those in the map of successes, and when the
window has closed the two maps share no position and leave out none.
`NothingDropped` is what leaves none out.

### The batch flow

| Theorem (`BatchFlowProofs`) | States | By TLC |
|---|---|---|
| `BatchTypes` | `Spec => []TypeOK` | by hand, `BatchFlow_one.cfg` |
| `ResultsAreAnalyses` | `Spec => []ResultIsAnalysis` | `BatchFlow_two` |
| `JobsTellOutcome` | `Spec => []JobTellsOutcome` | by hand, `BatchFlow_one.cfg` |
| `BatchRefinesLifecycle` | `Spec => JobsFollowLifecycle` | `BatchFlow_two` |

Here any number of requests and tasks run side by side. `RequestInv(r)` is the
invariant of one request (its scan, its jobs, their status, its pool), and
`Apart` says that the rows of two requests do not overlap, since the API appends
in one commit. The proof of a step of `r` shows `RequestInv(r)'` and that the
step is one of `Frame(r)`; `OthersKeep` then gives `RequestInv(q)'` for every
other `q`, and `Assemble` puts both together. What lasts is the result: sites
are shared, and `ResultIsAnalysis` is kept only because a mark does not touch
the columns of an analysis. The last position of a URL is a greatest number of
a finite set, which comes from the well-foundedness of the order of the natural
numbers (`GreatestPosition`).

### The single-URL task

| Theorem (`AnalyzeUrlProofs`) | States | By TLC |
|---|---|---|
| `UrlTypes` | `Spec => []TypeOK` | `AnalyzeUrl_two` |
| `UnsettledAttended` | `Spec => []UnsettledIsAttended` | `AnalyzeUrl_two` |
| `TtlKept` | `Spec => TtlNotRestarted` | `AnalyzeUrl_two` |
| `UrlMovesJobs` | `Spec => JobsFollowLifecycle` | `AnalyzeUrl_two` |

`TaskInv` says that a task is idle exactly while its message waits in the queue,
that a message is published again only below the limit of retries, and which
status a job may have at each place of the code (`JobAt`). The theorems hold on
either database and wherever an exception strikes. `UrlMovesJobs` is not the
refinement of `JobLifecycle`, which the code does not implement: an exception
between the commit of a success and the return makes the last except clause set
the job back. The property names that move and the place it is made from; the
theorem says that every other change of a row is a move of `JobLifecycle`.

### Storage

| Theorem (`StorageProofs`) | States | By TLC |
|---|---|---|
| `SaveTypes` | `Spec => []TypeOK` | by hand, added to `SiteStore_four.cfg` |
| `LastIsComplete` | `Spec => []LastAnalysisComplete` | `SiteStore_four` |
| `SavedOwnLabels` | `Spec => []LabelsAreOfSaved` | `SiteStore_four` |
| `AloneReplaces` | `Spec => AloneReplacesAll` | `SiteStore_four` |
| `RoundTypes` | `RoundSpec => []RoundTypeOK` | by hand, added to `ResultFile_rounds.cfg` |
| `OutputAlwaysTellsTask` | `RoundSpec => []OutputTellsTask` | `ResultFile_rounds` |
| `RoundsTakeUp` | `RoundSpec => RoundTrip` | `ResultFile_rounds` |

`SaveInv` has three parts. For each session: it has inserted its own labels or
none, it holds the row's lock exactly where the code has flushed its UPDATE, and
what it has read was committed by a session that is through. For two sessions,
`DeletedOnce`: no label is deleted by both, because the later DELETE waited and
then found the label gone; a committed DELETE therefore never takes away what
another still counts on. For the tables, the properties themselves.
`LastAnalysisComplete` survives because a saver that deletes the labels of the
last one also writes `last`, or aborts.

`AloneReplaces` needs `Fresh(x)`: as long as no other session has committed since
`x` read the row, what it read, deletes and writes is the committed state, so
that writing the differing columns (`WrittenFresh`) gives its whole row.

Of the files, `RoundInv` follows each task. While it merges (`MergeInv`), of the
entries put so far the last for a link stands in the array (`PutsStand`), the
entries of other links are those it read, and a link that stood in the source
once, as an object with "link", still does. Each is kept by one turn of the loop,
whichever entry the turn replaces, so that no induction over the array is needed.
When the loops are through, all results and failures have been put and the
failures last, which is `OutputTellsTask` for the array. `FileInv` takes it to
the file: what no other task has a claim to is empty while it is written and the
array afterwards. `RoundsTakeUp` reads the array as the next round would; for a
URL of another batch it needs that what the reader takes is determined by the set
of entries, not by their order.

### The rules

| Theorem (`RuleRouteProofs`) | States | By TLC |
|---|---|---|
| `RouteTypes` | `Spec => []TypeOK` | `RuleRoute_one` |
| `RouteReviews` | `Spec => []ReviewedIsNeverCurated` | `RuleRoute_one` |
| `RouteGrounds` | `Spec => []CuratedIsGrounded` | `RuleRoute_one` |
| `RouteRetakesBlocked` | `Spec => []BlockedIsTakenAgain` | `RuleRoute_one` |
| `MoreEvidenceStaysAi` | more evidence for an AI site never takes "ai" back | |
| `ThresholdNeedsFour` | 85 points need the four heavy criteria passed | |
| `AnalysisPassesValidation` | what the analyzer hands over passes `_validate_analysis` | |

`ReviewedIsNeverCurated` speaks of an answer, and the answer from a row depends
on an evaluation that may be many steps past. `RouteInv` therefore adds
`TrustedRowIsClean` (a trusted row of the rules that says AI site stands for an
evaluation with nothing to review), `BlockedRowIsOfRules` (the evaluation of a
blocked site is the one behind a row of the rules) and `CriteriaTellScope` (what
the gate left out reaches the verdict with every criterion failed, which is why
a blocked site without a review is not trusted either). `JudgeStep` carries them
over the save by `EvaluationFacts`, `OtherSteps` over the rest.

`ThresholdNeedsFour` is what `CuratedIsGrounded` rests on, and it says something
about the code by itself: the two reasons the review gate keeps for a curated
site without documents or policy can never be given, and the minimum of 0.30
behind the threshold could only stop a criterion that passed with less, which
none does (they pass with 0.85 or more). `MoreEvidenceStaysAi` has no
counterpart for the border: a weak keyword more can take an uncertain site to
either side.

### The page fetcher

| Theorem (`PageFetcherProofs`) | States | By TLC |
|---|---|---|
| `FetcherTypes` | `Spec => []TypeOK` | by hand, added to `PageFetcher_two.cfg` |
| `NoBrowserIsForgotten` | `Spec => []BrowsersAreAttended` | `PageFetcher_two` |
| `DriversAreBounded` | `Spec => []OneDriverPerPage` | `PageFetcher_two` |
| `CloseLeavesForeign` | `Spec => []OnlyForeignClosedRemain` | `PageFetcher_two` |
| `RenderingKeepsPages` | `Spec => []RenderingNeverWorsens` | `PageFetcher_two` |

`PlaceInv(t)` says what a thread holds at each place: while it launches, a
browser of its own that is not whole yet; a set of browsers it shuts down only
while it shuts. `SharedInv` says that the shared list has no half-launched
browser, that each whole one is in the list or with a thread that shuts it down,
and that a running one whose entry is void was voided by another thread than its
owner. `PhaseInv` says that once the main thread closes the fetcher nobody else
is at work. The remaining processes of `CloseLeavesForeign` are those that
`PageFetcher_close` shows; the theorem says that there are no others.
`DriversAreBounded` counts: the drivers started and the fetches that may still
start one are no more than the pages begun (`BrowsersCounted`), since a thread
that loses its browser, or whose launch fails, does not come back to launch for
the same page.

### The collection of pages

| Theorem (`PageCollectionProofs`) | States | By TLC |
|---|---|---|
| `CollectTypes` | `Spec => []TypeOK` | `PageCollection_pool` |
| `KindsAreSampled` | `Spec => []EveryKindIsSampled` | `PageCollection_pool` |
| `CandidatesAreFetched` | when the pool is through, as many pages as candidates | |
| `LostToOwnUrl` | `Spec => []LostOnlyToOwnUrl` | `PageCollection_pool` |
| `RefusalsCount` | `Spec => []RefusalsAreCounted` | `PageCollection_pool` |

What a loop computes for every input needs induction over data when the loop is
a fold, and none when its turns are steps: then it is an invariant like any
other. `MergeInv` says after each turn that the kinds before `turn` are sampled
whole, that the offers before `at` are candidates, and that nothing but first
links of the kinds up to `turn` is, so that where the total ends the merge it was
reached with those (`FullMergeSampled`). `PoolInv` counts: each candidate begun is in a thread
or fetched. `KeepInv` says that the dictionary holds for each URL the last page
read there; `LostToOwnUrl` is that invariant at the end. `RefusalsCount` needs
in addition that with distinct final URLs counting entries of the dictionary is
counting fetches (`CountsByUrl`). `CandidatesAreFetched` is the safety half of
`CollectionEnds`.

### No system stalls

Each liveness property of a run says that a system ends. It rests on fairness,
which the prover cannot handle, and on two facts that are safety: until the end
somebody can go on, and there is an end to going on. These are proved.

| Theorem | Of | States |
|---|---|---|
| `BulkNeverStalls`, `BulkStepsRunOut` | `TaskEnds` of `BulkTask` | `Spec => []NeverStalls`: the main thread is not blocked, or a thread is at work for it; `Spec => StepsRunOut`: at most six steps for the task and eight for each URL |
| `UrlNeverStalls`, `UrlStepsRunOut` | `TasksEnd` of `AnalyzeUrl` | `Spec => []NeverStalls`; `Spec => StepsRunOut`: at most 10 steps for each retry and 9 |
| `BatchNeverStalls`, `BatchStepsRunOut` | `TasksEnd` of `BatchFlow` | `Spec => []NeverStalls`; `Spec => StepsRunOut`: two steps for each URL and three |
| `SessionsNeverStall`, `SessionsAdvance` | `SessionsEnd` | `Spec => []NobodyStalls`; `Spec => OneAdvances`: at most eleven steps for each session |
| `FetcherNeverStalls`, `FetcherStepsRunOut` | `PipelineEnds` | `Spec => []NeverStalls`: a thread can go on, or the phase can end; `Spec => StepsRunOut`: three phases, and at most `Candidates + 7` steps for each page after it is taken |
| `CollectionNeverStalls`, `CollectionStepsRunOut` | `CollectionEnds` | `Spec => []NeverStalls`; `Spec => StepsRunOut`: the loops left and the turns left in the one under way; with `CandidatesAreFetched` for its second half |

What a system needs to go on is written out as a guard (`MainCanGo`, `CanGo`,
`PhaseCanEnd`); on the instances of the runs TLC has found the guards to hold
exactly where the actions are enabled. The arguments:

- `wait()` of the bulk task is for futures that a thread has been given
  (`HandedInv`), so that one is at work or has finished. What is left is counted
  in three parts: the stage of the main thread, the list it reads, and for each
  position its future, which is handed out, looks at the event, begins, calls,
  signals the quota, is met by `wait()` and is collected. None of these happens twice, and a step takes
  one part nearer to its end without taking another away from it, also when an
  exception or the worker's end strikes.
- A session waits for a lock, a DELETE or a unique key of one that is not through
  (`WaitsForRunning`). If all that are not through wait, they are themselves the
  circle of waits the database breaks. A session never steps back, as nothing is
  tried again.
- A task of one URL is in the code or in the queue. A retry takes it back to the
  beginning of the code with one retry fewer, every other step further on, also
  when an exception or the worker's end strikes.
- A batch whose threads are not through has a call under way, or a free thread
  for one that waits. Other requests do not touch its pool.
- A browser belongs to one of the pages fetched (`BrowsersCounted`, above), so
  that the numbers `ShutOne` goes through leave out none, and a thread that shuts
  down browsers finishes, whoever closed them before. For the same reason a
  failure that takes the whole shared list leaves its thread fewer steps than it
  had.
- The collection is one loop after another. What a loop goes through grows in
  those before it only (`LoopInv`), and a candidate counts two turns: it takes a
  thread and is brought in.

### Only model-checked

- Liveness itself: `TaskEnds` of `BulkTask`, `TasksEnd` of `AnalyzeUrl` and
  `BatchFlow`, `SessionsEnd`, `PipelineEnds`, `CollectionEnds`. The prover has
  neither ENABLED nor rules for fairness; the theorems of the last section are
  what they rest on otherwise.
- What is refuted: the two runs and the configurations of the next section.

## Where the documents and the code differ

Two are runs of `PROJECT.json`, whose findings quote the lines of the document
and of the code. TLC ends each with a counterexample.

| Run | In short |
|---|---|
| `SiteStore_reach` | a mark that meets a save is left without its timestamp |
| `RuleRoute_cached` | a site evaluated as rejected or incubating is answered as curated by the next request |

The others are configurations to run by hand,
`tlc -config <configuration>.cfg <module>`. Most have one property, which is
violated; one called `documents` lists several, each of which is violated: leave
one at a time. The comment before the property says which behaviour of the code
it is about.

| Configuration | Property | Module | In short |
|---|---|---|---|
| `LlmCall_documents` | `PreconditionIsBlocked` | `MCLlmCall` | an unfulfilled precondition marks the site unreachable |
| `LlmCall_documents` | `FailureIsReported` | `MCLlmCall` | a gone site whose URL has a keyword counts as a success |
| `LlmCall_documents` | `UnknownIsFailure` | `MCLlmCall` | an unknown error marks nothing |
| `BulkTask_jobs` | `EveryJobSettled` | `MCBulkTask` | of two equal URLs the first job is never settled |
| `BulkTask_past` | `PastTtlIsAnalysed` | `MCBulkTask` | past its TTL a site with an LLM analysis is skipped |
| `BulkTask_aware` | `TtlNeverRejects` | `MCBulkTask` | on PostgreSQL the TTL test raises and rejects the list |
| `AnalyzeUrl_sqlite` | `FinalFailureIsFailed` | `MCAnalyzeUrl` | on SQLite a final failure leaves its job processing |
| `AnalyzeUrl_late` | `SuccessIsFinal` | `MCAnalyzeUrl` | an exception after the commit sets a success back to pending |
| `SiteStore_labels` | `SaveReplacesLabels` | `MCSiteStore` | two saves leave the union of their labels |
| `SiteStore_llm` | `LlmResultIsKept` | `MCSiteStore` | the rules overwrite an LLM analysis saved meanwhile |
| `BatchFlow_documents` | `EveryJobSettled` | `MCBatchFlow` | of two equal URLs in a request the first job is never settled |
| `BatchFlow_documents` | `SuccessShowsResult` | `MCBatchFlow` | a success without a result |
| `BatchFlow_documents` | `TtlIsRespected` | `MCBatchFlow` | `POST /analyze` does not look at the TTL |
| `ResultFile_documents` | `ProcessedIsSkipped` | `MCResultFile` | an analysed "url" entry is taken again in each round |
| `ResultFile_documents` | `OutputIsNewFile` | `MCResultFile` | two tasks that begin in one second share a file |
| `ResultFile_documents` | `SourceIsBase` | `MCResultFile` | entries that are strings vanish from the output |
| `ResultFile_documents` | `CompletionMakesFile` | `MCResultFile` | a task without URLs makes no file |
| `PageFetcher_better` | `BetterPageIsReturned` | `MCPageFetcher` | an empty rendering replaces a challenge page |
| `PageFetcher_close` | `CloseLeavesNothing` | `MCPageFetcher` | processes remain after `close` |
| `PageCollection_denial` | `DenialIsRecognised` | `MCPageCollection` | candidates that end at one URL count once, so 60% of refused ones may pass for less |

Two more claims are stated at the end of `RuleRoute` and violated when they take
the place of the property in `RuleRoute_cached.cfg`:

- `BlockedIsHeld`: docs/CLASSIFIER_MODES.md:86 says that a blocked site is
  "incubating" instead of "rejected", with a reason for the review. The step
  (`rule/pipeline.py:159`) does so only if the home page failed and no criterion
  passed, and the review gate gives no reason for a site that is not an AI site.
- `ServedIsAnalysed`: ARCHITECTURE.md:575 calls what is returned for another
  analyzer than the rules a result of the language model. The route
  (`api/rule_routes.py:93`) also takes the row `mark_site_status` makes, which
  has no analyzer and was never analysed.

## What is not modelled

- What the classifiers match in a text: keywords, regular expressions, the score
  of a sentence, whether a page is one of prices or documents. They are
  sequential functions of strings; the models take their results as inputs.
  Categories, tags, summaries and the other texts of an analysis.
- Response parsing, prompts and URL normalisation.
- Two requests for one site side by side in `RuleRoute`: `SiteStore` has the
  save that is overtaken.
- The estimate of collected candidates (`discovery_signals.py:93`) counts a URL
  once for each of its kinds, so fewer probes are made than places are left.
  The model does the same (`Collected`); no document says otherwise.
- `.txt` sources, path checks, uploads' encoding; the form of responses.
- The connection pool's limits, redelivery by Redis (messages are acknowledged when
  their task begins), retries inside
  `requests`, delays between attempts.
- Migrations, containers, configuration, the archived renderer.
- The composition of the result file with the table and the bulk task: the
  preflight appears in `ResultFile` as a set of analysed sites. That entries it
  leaves out are not marked in the output, and keep filling the first places
  under the cap of 500, is listed as a hazard without a property.

## Plan

Done, in this order: the error policy and one call; the bulk task; the abstract
job; the single-URL task; storage; the batch flow; the files; the page fetcher;
the rules and their route; the collection of pages. Proved: every safety
property of a run, the refinement of `JobLifecycle` by two tasks and the one
exception of the third, and that
each system with a liveness property can go on until its end and has no more than
a bounded number of steps until then.

Next, more of the system:

1. A composition of `ResultFile` and `BulkTask`'s preflight for the starvation
   behind the cap.
2. `SiteStore` with SQLite's single writer beside PostgreSQL's row locks.
