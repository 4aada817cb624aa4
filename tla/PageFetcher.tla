------------------------------ MODULE PageFetcher ------------------------------
(***************************************************************************)
(* PageFetcher (rule/fetchers/page_fetcher.py) during one run of the rule  *)
(* pipeline (run_quality_pipeline, step_fetch_and_collect_pages): the main *)
(* thread fetches the home page, a pool of threads the candidate pages,    *)
(* and the main thread closes the fetcher.                                 *)
(*                                                                         *)
(* Every page is requested over HTTP and rendered in a browser when the    *)
(* answer looks poor.  A thread keeps a session and a browser of its own,  *)
(* but the lists of both, the flag that rendering is possible, and the     *)
(* right to close everything are shared by all threads.                    *)
(*                                                                         *)
(* A page is what the choice between two of them looks at: whether it is   *)
(* ok, whether it is a challenge, and how rich it is.                      *)
(***************************************************************************)
EXTENDS Integers, Sequences, FiniteSets

CONSTANTS
  Workers,      \* the threads of fetch_many
  Candidates,   \* the number of candidate pages
  Answers,      \* the pages requests may get
  Renderings    \* the pages a browser may render, a subset of Rendered

Main == "main"
Threads == {Main} \cup Workers

ASSUME WorkersAssumption == IsFiniteSet(Workers) /\ Main \notin Workers

VARIABLES
  enabled,      \* playwright_enabled
  browsers,     \* the drivers started, in order, with what their dict holds
  registered,   \* _playwright_resources, as positions in browsers
  own,          \* playwright_resource of the thread, 0 if none
  sessions,     \* the session of each thread
  pc,           \* where each thread is
  req, pw,      \* the two pages of each thread's fetch
  closing,      \* the resources a thread still has to shut down
  todo,         \* candidate pages not taken by a thread
  phase,        \* of the pipeline: home, candidates, closing, closed
  results       \* the pages returned, each with the two it was chosen from

resources == <<browsers, registered, own, closing>>
pages == <<req, pw>>
pool == <<todo, phase, results>>
vars == <<enabled, resources, sessions, pc, pages, pool>>

Page == [ok : BOOLEAN, challenge : BOOLEAN, rich : 0..1]
NoPage == [ok |-> FALSE, challenge |-> FALSE, rich |-> 0]

\* A rendered challenge is never ok; a page that is neither is thin.
Rendered == {p \in Page : (p.challenge => ~p.ok) /\ (~p.ok /\ ~p.challenge => p.rich = 0)}

\* half: the driver runs, the browser is not there yet.   whole: the dict has
\* a context, a browser and a driver.   void: its entries are None.
\* voidedBy: the thread that set them to None, none before (history).
Browser == [owner : Threads, dict : {"half", "whole", "void"}, running : BOOLEAN,
            voidedBy : Threads \cup {"none"}]

ASSUME CandidatesAssumption == Candidates \in Nat
ASSUME PagesAssumption == Answers \subseteq Page /\ Renderings \subseteq Rendered

-------------------------------------------------------------------------------
\* Faulty variant: the rendered page unless only the other is ok.
ChooseRendered(r, p) == IF r.ok /\ ~p.ok /\ ~r.challenge THEN r ELSE p

\* _choose_better_result.
Choose(r, p) ==
  IF r.ok # p.ok THEN (IF p.ok THEN p ELSE r)
  ELSE IF r.challenge # p.challenge THEN (IF r.challenge THEN p ELSE r)
  ELSE IF p.rich > r.rich THEN p ELSE r

Init ==
  /\ enabled \in BOOLEAN
  /\ browsers = <<>> /\ registered = {}
  /\ own = [t \in Threads |-> 0]
  /\ sessions = [t \in Threads |-> "none"]
  /\ pc = [t \in Threads |-> IF t = Main THEN "request" ELSE "idle"]
  /\ req = [t \in Threads |-> NoPage] /\ pw = [t \in Threads |-> NoPage]
  /\ closing = [t \in Threads |-> {}]
  /\ todo = Candidates
  /\ phase = "home"
  /\ results = {}

Go(t, place) == pc' = [pc EXCEPT ![t] = place]

\* A thread takes a candidate: the main thread itself when there is one only.
Take(t) ==
  /\ pc[t] = "idle" /\ phase = "candidates" /\ todo > 0
  /\ IF Candidates > 1 /\ Workers # {} THEN t \in Workers ELSE t = Main
  /\ todo' = todo - 1
  /\ Go(t, "request")
  /\ UNCHANGED <<enabled, resources, sessions, pages, phase, results>>

\* _fetch_with_requests, with the session of the thread, made on its first use.
Request(t, page) ==
  /\ pc[t] = "request"
  /\ sessions' = [sessions EXCEPT ![t] = "open"]
  /\ req' = [req EXCEPT ![t] = page]
  /\ Go(t, "decide")
  /\ UNCHANGED <<enabled, resources, pw, pool>>

\* A page that is not ok, or a challenge, is rendered in any case; another one
\* when it looks thin.
NeedsPlaywright(t, thin) == ~req[t].ok \/ req[t].challenge \/ thin

Return(t, page) ==
  /\ results' = results \cup {[page |-> page, req |-> req[t], pw |-> pw[t]]}
  /\ req' = [req EXCEPT ![t] = NoPage] /\ pw' = [pw EXCEPT ![t] = NoPage]
  /\ Go(t, "idle")

Plain(t) ==
  /\ pc[t] = "decide"
  /\ ~enabled \/ \E thin \in BOOLEAN : ~NeedsPlaywright(t, thin)
  /\ Return(t, req[t])
  /\ UNCHANGED <<enabled, resources, sessions, todo, phase>>

Render(t) ==
  /\ pc[t] = "decide"
  /\ enabled /\ \E thin \in BOOLEAN : NeedsPlaywright(t, thin)
  /\ Go(t, "acquire")
  /\ UNCHANGED <<enabled, resources, sessions, pages, pool>>

\* The flag may have fallen since: the answer is "unavailable".
Unavailable(t) ==
  /\ pc[t] = "acquire"
  /\ ~enabled
  /\ Return(t, req[t])
  /\ UNCHANGED <<enabled, resources, sessions, todo, phase>>

Whole(t) == own[t] # 0 /\ browsers[own[t]].dict = "whole"

Reuse(t) ==
  /\ pc[t] = "acquire"
  /\ enabled /\ Whole(t)
  /\ Go(t, "open")
  /\ UNCHANGED <<enabled, resources, sessions, pages, pool>>

\* sync_playwright().start().
StartDriver(t) ==
  /\ pc[t] = "acquire"
  /\ enabled /\ ~Whole(t)
  /\ browsers' = Append(browsers, [owner |-> t, dict |-> "half", running |-> TRUE,
                                   voidedBy |-> "none"])
  /\ own' = [own EXCEPT ![t] = Len(browsers')]
  /\ Go(t, "launch")
  /\ UNCHANGED <<enabled, registered, closing, sessions, pages, pool>>

\* Faulty variant: the thread keeps its browser to itself.
LaunchUnregistered(t) ==
  /\ pc[t] = "launch"
  /\ browsers' = [browsers EXCEPT ![own[t]].dict = "whole"]
  /\ Go(t, "open")
  /\ UNCHANGED <<enabled, registered, own, closing, sessions, pages, pool>>

Launch(t) ==
  /\ pc[t] = "launch"
  /\ browsers' = [browsers EXCEPT ![own[t]].dict = "whole"]
  /\ registered' = registered \cup {own[t]}
  /\ Go(t, "open")
  /\ UNCHANGED <<enabled, own, closing, sessions, pages, pool>>

\* _close_playwright_resources: the list is taken and cleared under the lock.
TakeAll(t, place) ==
  /\ closing' = [closing EXCEPT ![t] = registered]
  /\ registered' = {}
  /\ Go(t, place)

\* Faulty variant: a launch that failed is tried again for the same page.
LaunchFailsRetries(t) ==
  /\ pc[t] = "launch"
  /\ own' = [own EXCEPT ![t] = 0]
  /\ Go(t, "acquire")
  /\ UNCHANGED <<enabled, browsers, registered, closing, sessions, pages, pool>>

\* The launch, or the start of the driver, raises.  The resource was not
\* stored, so nothing stops the driver.
LaunchFails(t) ==
  /\ pc[t] = "launch"
  /\ enabled' \in {enabled, FALSE}
  /\ TakeAll(t, "shut")
  /\ own' = [own EXCEPT ![t] = 0]
  /\ UNCHANGED <<browsers, sessions, pages, pool>>

\* _shutdown_playwright_resource.  A browser answers only the thread that
\* started it: the exception another thread gets is swallowed.  The entries of
\* the dict are set to None all the same, and with them None nothing is closed.
Shutdown(i, t) ==
  IF browsers[i].dict = "void" THEN {browsers}
  ELSE {[browsers EXCEPT ![i].dict = "void", ![i].voidedBy = t, ![i].running = running] :
          running \in IF browsers[i].owner = t THEN {FALSE} ELSE BOOLEAN}

ShutOne(t, i) ==
  /\ pc[t] \in {"shut", "close"} /\ i \in closing[t]
  /\ browsers' \in Shutdown(i, t)
  /\ closing' = [closing EXCEPT ![t] = @ \ {i}]
  /\ UNCHANGED <<enabled, registered, own, sessions, pc, pages, pool>>

\* Every failure that closes all ends in the page of requests.
ShutEnds(t) ==
  /\ pc[t] = "shut" /\ closing[t] = {}
  /\ own' = [own EXCEPT ![t] = 0]
  /\ Return(t, req[t])
  /\ UNCHANGED <<enabled, browsers, registered, closing, sessions, todo, phase>>

\* new_page and goto up to content.  It takes the context from the dict and a
\* browser that still runs.
Open(t, page) ==
  /\ pc[t] = "open"
  /\ browsers[own[t]].dict = "whole" /\ browsers[own[t]].running
  /\ pw' = [pw EXCEPT ![t] = page]
  /\ Go(t, "choose")
  /\ UNCHANGED <<enabled, resources, sessions, req, pool>>

\* Faulty variant: the page is opened again until it answers.
TimesOutRetries(t) ==
  /\ pc[t] = "open" /\ browsers[own[t]].dict = "whole"
  /\ Go(t, "acquire")
  /\ UNCHANGED <<enabled, resources, sessions, pages, pool>>

\* PlaywrightTimeoutError keeps the browser.
TimesOut(t) ==
  /\ pc[t] = "open" /\ browsers[own[t]].dict = "whole"
  /\ Go(t, "choose")
  /\ UNCHANGED <<enabled, resources, sessions, pages, pool>>

\* Any other exception, such as the one a void dict causes, closes it.
Breaks(t) ==
  /\ pc[t] = "open"
  /\ registered' = registered \ {own[t]}
  /\ browsers' \in Shutdown(own[t], t)
  /\ own' = [own EXCEPT ![t] = 0]
  /\ Go(t, "choose")
  /\ UNCHANGED <<enabled, closing, sessions, pages, pool>>

\* Unless its text says that browsers cannot run: then all are closed.
BreaksForAll(t) ==
  /\ pc[t] = "open"
  /\ enabled' = FALSE
  /\ TakeAll(t, "shut")
  /\ UNCHANGED <<browsers, own, sessions, pages, pool>>

ChoosePage(t) ==
  /\ pc[t] = "choose"
  /\ Return(t, Choose(req[t], pw[t]))
  /\ UNCHANGED <<enabled, resources, sessions, todo, phase>>

-------------------------------------------------------------------------------
(***************************************************************************)
(* The pipeline.                                                           *)
(***************************************************************************)
StartCandidates ==
  /\ phase = "home" /\ pc[Main] = "idle"
  /\ phase' = "candidates"
  /\ UNCHANGED <<enabled, resources, sessions, pc, pages, todo, results>>

\* Faulty variant: the results are not waited for.
BeginCloseEarly ==
  /\ phase = "candidates" /\ todo = 0 /\ pc[Main] = "idle"
  /\ phase' = "closing"
  /\ TakeAll(Main, "close")
  /\ UNCHANGED <<enabled, browsers, own, sessions, pages, todo, results>>

\* The pool has joined its threads; a later step may raise, the fetcher is
\* closed all the same.
BeginClose ==
  /\ phase = "candidates" /\ todo = 0 /\ \A t \in Threads : pc[t] = "idle"
  /\ phase' = "closing"
  /\ TakeAll(Main, "close")
  /\ UNCHANGED <<enabled, browsers, own, sessions, pages, todo, results>>

CloseEnds ==
  /\ pc[Main] = "close" /\ closing[Main] = {}
  /\ phase' = "closed"
  /\ own' = [own EXCEPT ![Main] = 0]
  /\ sessions' = [t \in Threads |-> IF sessions[t] = "open" THEN "closed" ELSE sessions[t]]
  /\ Go(Main, "idle")
  /\ UNCHANGED <<enabled, browsers, registered, closing, pages, todo, results>>

Step(t) ==
  \/ Take(t) \/ (\E page \in Answers : Request(t, page)) \/ Plain(t) \/ Render(t)
  \/ Unavailable(t) \/ Reuse(t) \/ StartDriver(t) \/ Launch(t) \/ LaunchFails(t)
  \/ (\E i \in 1..Candidates + 1 : ShutOne(t, i)) \/ ShutEnds(t)
  \/ (\E page \in Renderings : Open(t, page)) \/ TimesOut(t) \/ Breaks(t)
  \/ BreaksForAll(t) \/ ChoosePage(t)

Next ==
  \/ \E t \in Threads : Step(t)
  \/ StartCandidates
  \/ BeginClose
  \/ CloseEnds

Spec == Init /\ [][Next]_vars

\* Each call returns: requests and Playwright have timeouts.
FairSpec ==
  /\ Spec
  /\ \A t \in Threads : WF_vars(Step(t))
  /\ WF_vars(StartCandidates) /\ WF_vars(BeginClose) /\ WF_vars(CloseEnds)

-------------------------------------------------------------------------------
(***************************************************************************)
(* Properties                                                              *)
(***************************************************************************)
TypeOK ==
  /\ enabled \in BOOLEAN
  /\ browsers \in Seq(Browser)
  /\ registered \subseteq DOMAIN browsers
  /\ own \in [Threads -> {0} \cup DOMAIN browsers]
  /\ sessions \in [Threads -> {"none", "open", "closed"}]
  /\ pc \in [Threads -> {"idle", "request", "decide", "acquire", "launch", "open",
                         "shut", "choose", "close"}]
  /\ req \in [Threads -> Page] /\ pw \in [Threads -> Page]
  /\ closing \in [Threads -> SUBSET DOMAIN browsers]
  /\ todo \in 0..Candidates
  /\ phase \in {"home", "candidates", "closing", "closed"}
  /\ results \subseteq [page : Page, req : Page, pw : Page]

\* A browser is never forgotten: whoever has launched one, and whichever other
\* threads close everything meanwhile, it is in the shared list or its
\* shutdown was tried or is about to be (lines 317-321, 401-417).
BrowsersAreAttended ==
  \A i \in DOMAIN browsers :
    browsers[i].dict = "whole" =>
      i \in registered \/ \E t \in Threads : i \in closing[t]

\* After close the only processes left are drivers whose launch failed and
\* browsers that another thread than their own has tried to close; every
\* session is closed (lines 373, 376-399, 419-429).
OnlyForeignClosedRemain ==
  phase = "closed" =>
    /\ \A t \in Threads : sessions[t] # "open"
    /\ \A i \in DOMAIN browsers :
         browsers[i].running =>
           browsers[i].dict = "half" \/ browsers[i].voidedBy # browsers[i].owner

\* Rendering never makes a page worse, except for one that is a challenge and
\* not ok: what is returned is ok if either page is, and a rendering that
\* failed, be it because another thread closed the browser in the middle,
\* leaves the page of requests (lines 53-75, 631-643).
RenderingNeverWorsens ==
  \A r \in results :
    /\ r.req.ok \/ r.pw.ok => r.page.ok
    /\ r.pw = NoPage /\ (r.req.challenge => r.req.ok) => r.page = r.req

\* A page costs one driver at most, whatever is taken away from its thread while
\* it is fetched and whichever launches fail: so many processes, and no more,
\* can be left of the launches that failed after the driver had started, which
\* nobody registers (_get_or_create_playwright_resource).
OneDriverPerPage == Len(browsers) + todo <= Candidates + 1

\* The pipeline gets its pages and closes the fetcher, whatever the threads do
\* to each other's browsers.
PipelineEnds == <>(phase = "closed")

\* Thread t does not have to wait.  A request gets its answer, an error at
\* least; what a thread has to shut down is among the browsers ShutOne knows.
CanGo(t) ==
  \/ pc[t] \in {"request", "decide", "acquire", "launch", "open", "choose"}
  \/ pc[t] \in {"shut", "close"} /\ closing[t] \cap (1..Candidates + 1) # {}
  \/ pc[t] = "shut" /\ closing[t] = {}
  \/ /\ pc[t] = "idle" /\ phase = "candidates" /\ todo > 0
     /\ IF Candidates > 1 /\ Workers # {} THEN t \in Workers ELSE t = Main

PhaseCanEnd ==
  \/ phase = "home" /\ pc[Main] = "idle"
  \/ phase = "candidates" /\ todo = 0 /\ \A t \in Threads : pc[t] = "idle"
  \/ phase = "closing" /\ closing[Main] = {}

\* Until the fetcher is closed there is always somebody who can go on: taking
\* the browsers away from each other leaves nobody waiting, and nobody is sent
\* to shut down a browser the pages asked for cannot account for.
NeverStalls ==
  phase # "closed" => PhaseCanEnd \/ \E t \in Threads : CanGo(t)

\* The steps thread t has at most until its page is returned, or all is closed.
TurnsLeft(t) ==
  CASE pc[t] = "request" -> Candidates + 7
    [] pc[t] = "decide"  -> Candidates + 6
    [] pc[t] = "acquire" -> Candidates + 5
    [] pc[t] = "launch"  -> Candidates + 4
    [] pc[t] = "open"    -> Candidates + 3
    [] pc[t] = "choose"  -> 1
    [] pc[t] \in {"shut", "close"} -> Cardinality(closing[t]) + 1
    [] OTHER -> 0

PhasesLeft ==
  CASE phase = "home"       -> 3
    [] phase = "candidates" -> 2
    [] phase = "closing"    -> 1
    [] OTHER                -> 0

\* Every step ends a phase, takes a page, or brings its thread nearer to the end
\* of its page and no other thread further away, whichever browsers it has to
\* shut down.
StepsRunOut ==
  [][\/ PhasesLeft' < PhasesLeft
     \/ PhasesLeft' = PhasesLeft /\ todo' < todo
     \/ /\ PhasesLeft' = PhasesLeft /\ todo' = todo
        /\ \E t \in Threads :
             /\ TurnsLeft(t)' < TurnsLeft(t)
             /\ \A u \in Threads \ {t} : TurnsLeft(u)' = TurnsLeft(u)]_vars

\* The docstring of fetch (line 52): the better of the two pages is returned,
\* so a page with a content is not given up for an empty one.
BetterPageIsReturned ==
  \A r \in results : r.page.rich = 0 => r.req.rich = 0

\* The docstring of close (line 420): the resources are cleaned up.
CloseLeavesNothing ==
  phase = "closed" => \A i \in DOMAIN browsers : ~browsers[i].running

===============================================================================
