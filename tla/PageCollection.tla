---------------------------- MODULE PageCollection ----------------------------
(***************************************************************************)
(* The first step of the rules' pipeline (step_fetch_and_collect_pages,    *)
(* rule/pipeline.py): from the home page's links to the pages the other    *)
(* steps read.  The links are sorted into kinds, a few of each kind become *)
(* candidates (_collect_candidate_urls, rule/classifiers/                  *)
(* discovery_signals.py), a pool of threads fetches them, and what they    *)
(* found is kept by the URL a fetch ended at.  How one page is fetched is  *)
(* the subject of PageFetcher.                                             *)
(*                                                                         *)
(* URLs are what normalize_url_simple leaves of them.  What the words of a *)
(* link and its host say of it is the link's set of kinds.                 *)
(***************************************************************************)
EXTENDS RuleVerdict, Sequences, Functions

CONSTANTS
  Urls, Home,
  LinkLists,     \* the sequences of links a home page may have
  Seeds,         \* the URLs known for the host, each with its kind
  Probes,        \* fallback_probe_paths on this host
  EndsAt,        \* where the answer to a URL may come from
  MaxPerKind, MaxTotal,
  PoolSize       \* threads that fetch candidates

PageKinds == <<"pricing", "docs", "policy", "product">>
Kinds == Range(PageKinds) \cup {"probe"}

Link == [url : Urls, kinds : SUBSET Range(PageKinds)]

ASSUME HomeAssumption == Home \in Urls /\ EndsAt \in [Urls -> SUBSET Urls]
ASSUME LinksAssumption == \A links \in LinkLists : links \in Seq(Link)
ASSUME SeedsAssumption == Seeds \in Seq([url : Urls, kind : Kinds]) /\ Probes \in Seq(Urls)
ASSUME LimitsAssumption ==
  MaxPerKind \in Nat \ {0} /\ MaxTotal \in Nat \ {0} /\ PoolSize \in Nat \ {0}

VARIABLES
  phase,    \* the loop under way
  at,       \* how many elements it has gone through
  home,     \* the home page
  links,    \* its links
  kinds,    \* the URLs of each kind, in the order they were met
  turn,     \* the kind being merged
  planned,  \* ordered: the URLs to fetch
  running,  \* the fetches of the pool's threads
  fetched,  \* the pages, in the order in which the fetches ended
  pages     \* all_pages: the outcome kept for each URL, "none" without one

found   == <<home, links>>
choice  == <<kinds, turn, planned>>
fetches == <<running, fetched>>
vars    == <<phase, at, found, choice, fetches, pages>>

Phases == {"home", "links", "seeds", "probes", "merge", "fetch", "keep", "done"}
\* A refusal is a 403: of a candidate in any case, of the home page only when it
\* was not rendered to a text all the same.
Outcomes == {"ok", "denied", "failed"}
Page == [url : Urls, outcome : Outcomes]

\* What a fetch may bring: a page, a refusal or another error from the URL the
\* request was led to; when it raised, a failed page at the URL that was asked.
Answers(u) == [url : EndsAt[u] \cup {u}, outcome : Outcomes]

Init ==
  /\ phase = "home" /\ at = 0
  /\ home = [url |-> Home, outcome |-> "failed"] /\ links = <<>>
  /\ kinds = [k \in Kinds |-> <<>>] /\ turn = 1 /\ planned = <<>>
  /\ running = {} /\ fetched = <<>> /\ pages = [u \in Urls |-> "none"]

\* A loop takes its next element, or has taken all; another loop begins.
Take(loop, s)   == phase = loop /\ at < Len(s) /\ at' = at + 1 /\ UNCHANGED phase
Passed(loop, s) == phase = loop /\ at = Len(s)
Enter(loop)     == phase' = loop /\ at' = 0

-------------------------------------------------------------------------------
(* Candidates                                                              *)

AddUrl(s, u) == IF u \in Range(s) THEN s ELSE Append(s, u)

FetchHome ==
  /\ phase = "home" /\ Enter("links")
  /\ home' \in Answers(Home)
  /\ IF home'.outcome = "ok" THEN links' \in LinkLists ELSE links' = <<>>
  /\ UNCHANGED <<choice, fetches, pages>>

ReadLink ==
  /\ Take("links", links)
  /\ LET link == links[at + 1]
     IN  kinds' = [k \in Kinds |-> IF k \in link.kinds THEN AddUrl(kinds[k], link.url)
                                   ELSE kinds[k]]
  /\ UNCHANGED <<found, turn, planned, fetches, pages>>

AddTo(kind, u) ==
  /\ kinds' = [kinds EXCEPT ![kind] = AddUrl(@, u)]
  /\ UNCHANGED <<found, turn, planned, fetches, pages>>

AddSeed  == Take("seeds", Seeds) /\ AddTo(Seeds[at + 1].kind, Seeds[at + 1].url)
AddProbe == Take("probes", Probes) /\ AddTo("probe", Probes[at + 1])

\* estimated_collected counts a URL once for each of its kinds.
Collected ==
  Len(kinds["pricing"]) + Len(kinds["docs"]) + Len(kinds["policy"]) + Len(kinds["product"])

FewLinks == home.outcome # "ok" \/ Collected < (IF MaxTotal < 4 THEN MaxTotal ELSE 4)

NextLoop ==
  /\ \/ Passed("links", links) /\ Enter("seeds")
     \/ Passed("seeds", Seeds) /\ Enter(IF FewLinks THEN "probes" ELSE "merge")
     \/ Passed("probes", Probes) /\ Enter("merge")
  /\ UNCHANGED <<found, choice, fetches, pages>>

\* Faulty variant: no limit for a kind.
SampleAll(s) == s

Sample(s) == SubSeq(s, 1, IF Len(s) < MaxPerKind THEN Len(s) ELSE MaxPerKind)

\* merge is called for every kind in turn and for the probes after them.
Offered == IF turn > Len(PageKinds) THEN kinds["probe"] ELSE Sample(kinds[PageKinds[turn]])
Full    == Len(planned) >= MaxTotal

MergeUrl ==
  /\ ~Full /\ Take("merge", Offered)
  /\ planned' = AddUrl(planned, Offered[at + 1])
  /\ UNCHANGED <<found, kinds, turn, fetches, pages>>

MergeNextKind ==
  /\ ~Full /\ Passed("merge", Offered) /\ turn <= Len(PageKinds)
  /\ Enter("merge") /\ turn' = turn + 1
  /\ UNCHANGED <<found, kinds, planned, fetches, pages>>

EndMerge ==
  /\ phase = "merge" /\ Enter("fetch")
  /\ Full \/ (Passed("merge", Offered) /\ turn > Len(PageKinds))
  /\ UNCHANGED <<found, choice, fetches, pages>>

-------------------------------------------------------------------------------
(* Fetching                                                                *)

\* A free thread of fetch_many takes the next candidate.
StartFetch ==
  /\ Cardinality(running) < PoolSize /\ Take("fetch", planned)
  /\ running' = running \cup {planned[at + 1]}
  /\ UNCHANGED <<found, choice, fetched, pages>>

\* Faulty variant: a fetch that raises leaves no page.
EndFetchLost(u, page) ==
  /\ phase = "fetch" /\ u \in running
  /\ running' = running \ {u}
  /\ fetched' = IF page.outcome = "failed" THEN fetched ELSE Append(fetched, page)
  /\ UNCHANGED <<phase, at, found, choice, pages>>

\* as_completed yields the pages as their fetches end; one that raises is
\* made a failed page.
EndFetch(u, page) ==
  /\ phase = "fetch" /\ u \in running
  /\ running' = running \ {u} /\ fetched' = Append(fetched, page)
  /\ UNCHANGED <<phase, at, found, choice, pages>>

\* Faulty variant: what came first stays.
KeepFirst(page) ==
  pages' = IF pages[page.url] = "none" THEN [pages EXCEPT ![page.url] = page.outcome]
           ELSE pages

\* Faulty variant: a refusal is kept by the name it has in the site's row.
KeepStatus(page) ==
  pages' = [pages EXCEPT ![page.url] = IF page.outcome = "denied" THEN "blocked"
                                       ELSE page.outcome]

\* The later page at a URL takes the place of the earlier one.
Keep(page) == pages' = [pages EXCEPT ![page.url] = page.outcome]

KeepHome ==
  /\ Passed("fetch", planned) /\ running = {} /\ Enter("keep")
  /\ Keep(home)
  /\ UNCHANGED <<found, choice, fetches>>

KeepPage == Take("keep", fetched) /\ Keep(fetched[at + 1]) /\ UNCHANGED <<found, choice, fetches>>

PagesKept == Passed("keep", fetched) /\ Enter("done") /\ UNCHANGED <<found, choice, fetches, pages>>

Finished == phase = "done" /\ UNCHANGED vars

Step ==
  \/ FetchHome \/ ReadLink \/ AddSeed \/ AddProbe \/ NextLoop
  \/ MergeUrl \/ MergeNextKind \/ EndMerge
  \/ StartFetch \/ KeepHome \/ KeepPage \/ PagesKept
  \/ \E u \in Urls : \E page \in Answers(u) : EndFetch(u, page)

Next == Step \/ Finished

Spec == Init /\ [][Next]_vars

\* The threads go on, and every request has a time limit.
FairSpec == Spec /\ WF_vars(Step)

-------------------------------------------------------------------------------
\* What _extract_structured_signals makes of refusals.
OtherUrls == {u \in Urls \ {home.url} : pages[u] # "none"}

Count(outcome) == Cardinality({u \in OtherUrls : pages[u] = outcome})

Blocked ==
  MassDenied([ok |-> home.outcome = "ok", denied |-> home.outcome = "denied"],
             [ok |-> Count("ok"), denied |-> Count("denied"), failed |-> Count("failed")])

-------------------------------------------------------------------------------
TypeOK ==
  /\ phase \in Phases /\ at \in Nat /\ home \in Page
  /\ links \in Seq(Link) /\ kinds \in [Kinds -> Seq(Urls)]
  /\ turn \in 1..Len(PageKinds) + 1 /\ planned \in Seq(Urls)
  /\ running \subseteq Urls /\ fetched \in Seq(Page)
  /\ pages \in [Urls -> Outcomes \cup {"none"}]

\* The URLs of the t-th kind that the limit for a kind leaves.
First(t) == LET s == kinds[PageKinds[t]]
            IN  {s[i] : i \in {j \in 1..MaxPerKind : j <= Len(s)}}

\* The first links of every kind are fetched, unless the limit in all is reached
\* with first links of kinds that are not behind it: neither a long kind nor the
\* probes crowd out another kind, nor does a URL of two kinds take two places.
EveryKindIsSampled ==
  phase \in {"fetch", "keep", "done"} =>
    /\ IsInjective(planned) /\ Len(planned) <= MaxTotal
    /\ \A t \in 1..Len(PageKinds) :
         \/ First(t) \subseteq Range(planned)
         \/ /\ Len(planned) = MaxTotal
            /\ Range(planned) \subseteq UNION {First(s) : s \in 1..t}

\* The home page is kept first.
PageAt(i) == IF i = 0 THEN home ELSE fetched[i]

\* A page that shows text is lost to a later fetch that ended at its URL and
\* to nothing else: not to the order in which the threads of the pool are
\* done with other URLs.
LostOnlyToOwnUrl ==
  phase = "done" =>
    \A i \in 0..Len(fetched) :
      /\ pages[PageAt(i).url] # "none"
      /\ pages[PageAt(i).url] # PageAt(i).outcome =>
           \E j \in i + 1..Len(fetched) : PageAt(j).url = PageAt(i).url

\* With the home page and three candidates in five refused, every one at its
\* own URL, the site counts as blocked.
RefusalsAreCounted ==
  phase = "done" /\ home.outcome = "denied" /\ Len(fetched) >= 4
    /\ IsInjective([i \in DOMAIN fetched |-> fetched[i].url])
    /\ (\A i \in DOMAIN fetched : fetched[i].url # home.url)
    /\ 10 * Cardinality({i \in DOMAIN fetched : fetched[i].outcome = "denied"}) >= 6 * Len(fetched)
    => Blocked

\* The step ends with all candidates fetched.
CollectionEnds == <>(phase = "done" /\ Len(fetched) = Len(planned))

\* A loop has not run past its end, and the pool has a fetch under way, a place
\* for one that waits, or nothing left.
CanGo ==
  \/ phase = "home"
  \/ phase = "links" /\ at <= Len(links)
  \/ phase = "seeds" /\ at <= Len(Seeds)
  \/ phase = "probes" /\ at <= Len(Probes)
  \/ phase = "merge" /\ at <= Len(Offered)
  \/ phase = "fetch" /\ running # {}
  \/ phase = "fetch" /\ at < Len(planned) /\ Cardinality(running) < PoolSize
  \/ phase = "fetch" /\ at = Len(planned) /\ running = {}
  \/ phase = "keep" /\ at <= Len(fetched)

\* The step can go on until its pages are kept.
NeverStalls == phase # "done" => CanGo

\* The loops that are left, one for each kind to merge, and the turns left in
\* the one under way; a candidate takes a thread and is brought in.
LoopsLeft ==
  CASE phase = "home"   -> 7 + Len(PageKinds)
    [] phase = "links"  -> 6 + Len(PageKinds)
    [] phase = "seeds"  -> 5 + Len(PageKinds)
    [] phase = "probes" -> 4 + Len(PageKinds)
    [] phase = "merge"  -> 4 + Len(PageKinds) - turn
    [] phase = "fetch"  -> 2
    [] phase = "keep"   -> 1
    [] OTHER            -> 0

TurnsLeft ==
  CASE phase = "links"  -> Len(links) - at
    [] phase = "seeds"  -> Len(Seeds) - at
    [] phase = "probes" -> Len(Probes) - at
    [] phase = "merge"  -> Len(Offered) - at
    [] phase = "fetch"  -> 2 * (Len(planned) - at) + Cardinality(running)
    [] phase = "keep"   -> Len(fetched) - at
    [] OTHER            -> 0

\* Every turn brings the loop under way or the step nearer to its end, also
\* when what a loop goes through was made longer by those before it.
StepsRunOut ==
  [][phase # "done" =>
       \/ LoopsLeft' < LoopsLeft
       \/ LoopsLeft' = LoopsLeft /\ TurnsLeft' < TurnsLeft]_vars

-------------------------------------------------------------------------------
(* What the documents say and the code does not do.                        *)

\* CLASSIFIER_MODES.md: a home page refused and 60% of four or more candidate
\* URLs refused are a blocked site.
DenialIsRecognised ==
  phase = "done" /\ home.outcome = "denied" /\ Len(fetched) >= 4
    /\ 10 * Cardinality({i \in DOMAIN fetched : fetched[i].outcome = "denied"}) >= 6 * Len(fetched)
    => Blocked
=============================================================================
