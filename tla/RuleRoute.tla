------------------------------ MODULE RuleRoute ------------------------------
(***************************************************************************)
(* POST /rule/classify (api/rule_routes.py) for one site: the answer from  *)
(* the stored row, or the pipeline of the rules (rule/pipeline.py), one    *)
(* action per step, and the save of what it found (rule/analyzer.py,       *)
(* db/site_service.py).  Between requests a worker may store an analysis   *)
(* of the language model or mark the site; what happens when it does so    *)
(* during a request is the subject of SiteStore.                           *)
(*                                                                         *)
(* What the pages show is chosen by the step that reads it.                *)
(***************************************************************************)
EXTENDS RuleVerdict

CONSTANTS
  KeywordHits,     \* the counts of keywords the texts may hold
  OtherPages,      \* how many candidate pages were ok, denied or failed
  DescScores,      \* the scores a best sentence may have
  CategoryHits,    \* the counts for the best category
  UsePlaywright,   \* may a page be rendered in a browser at all?
  MarkStatuses,    \* the statuses a worker marks a site with
  InitialRows,     \* the rows the site may have at first
  MaxEvaluations   \* bound on the runs of the pipeline

ASSUME BoundAssumption == MaxEvaluations \in Nat
ASSUME DescScoresAssumption == DescScores \subseteq 0..1000
ASSUME MarksAssumption == MarkStatuses \subseteq {"unreachable", "blocked", "failure"}
ASSUME UsePlaywrightAssumption == UsePlaywright \in BOOLEAN
ASSUME HitsAssumption ==
  KeywordHits \subseteq [strong : Nat, weak : Nat, nonStrong : Nat, nonWeak : Nat,
                         explicit : BOOLEAN]
ASSUME PagesAssumption == OtherPages \subseteq [ok : Nat, denied : Nat, failed : Nat]

VARIABLES
  stage,          \* the next step of the pipeline, "idle" between requests
  site,           \* the row of the site
  fetched,        \* the pages: home page, others, whether any page shows text
  extracted,      \* the structured signals
  scope,          \* scope_decision and its confidence
  uncategorized,  \* the taxonomy found no category
  criteria,       \* the five criteria
  verdict,        \* the evaluation the row comes from, if the rules wrote it
  answer,         \* the last answer of the route
  evaluations     \* runs of the pipeline so far

found == <<fetched, extracted, scope, uncategorized, criteria>>
vars == <<stage, site, found, verdict, answer, evaluations>>

Row == [analyzer : {"none", "null", "rule", "llm"},
        status   : {"absent", "ok", "unreachable", "blocked", "failure"},
        isAi     : BOOLEAN, scored : BOOLEAN, hardPass : BOOLEAN,
        review   : BOOLEAN, total : 0..MaxScore]

NoRow == [analyzer |-> "none", status |-> "absent", isAi |-> FALSE, scored |-> FALSE,
          hardPass |-> FALSE, review |-> FALSE, total |-> 0]

\* The rules' rows of before the columns a trusted one needs.
ASSUME RowsAssumption ==
  InitialRows \subseteq {r \in Row : r.analyzer = "rule" => ~r.scored}

Home == [ok : BOOLEAN, denied : BOOLEAN, challenge : BOOLEAN]
NoPage == [ok |-> FALSE, denied |-> FALSE, challenge |-> FALSE]
NoPages == [ok |-> 0, denied |-> 0, failed |-> 0]
Fetched == [home : Home, others : OtherPages \cup {NoPages}, shown : BOOLEAN]
NothingFetched == [home |-> NoPage, others |-> NoPages, shown |-> FALSE]

Signals == {"pricing", "docs", "contact sales", "FAQ", "license"}
Policies == {"none", "terms", "privacy"}
WaysToUse == {"text", "link", "install"}

Extracted == [homeOk : BOOLEAN, shown : BOOLEAN, pricing : BOOLEAN, docs : BOOLEAN,
              policy : Policies, contactOnly : BOOLEAN,
              faqOnly : BOOLEAN, license : BOOLEAN, blocked : BOOLEAN]
NothingExtracted ==
  [homeOk |-> FALSE, shown |-> FALSE, pricing |-> FALSE, docs |-> FALSE, policy |-> "none",
   contactOnly |-> FALSE, faqOnly |-> FALSE, license |-> FALSE, blocked |-> FALSE]

Assessed == [decision : Scopes, confidence : 0..1000]
NoScope == [decision |-> "non_ai", confidence |-> 0]
NoCriteria == [c \in Criteria |-> Judged(FALSE, 0)]
Answer == [kind : {"none", "cached", "fresh", "error"}, status : Statuses]
NoAnswer == [kind |-> "none", status |-> "rejected"]

\* An evaluation, as much of it as the properties ask about.
Verdict == [scope : Scopes, blocked : BOOLEAN, uncategorized : BOOLEAN, usable : BOOLEAN,
            desc : 0..1000, docs : BOOLEAN, policy : BOOLEAN, contactOnly : BOOLEAN,
            reviewed : BOOLEAN, final : Statuses]
NoVerdict ==
  [scope |-> "non_ai", blocked |-> FALSE, uncategorized |-> FALSE, usable |-> FALSE,
   desc |-> 0, docs |-> FALSE, policy |-> FALSE, contactOnly |-> FALSE,
   reviewed |-> FALSE, final |-> "rejected"]

Init ==
  /\ stage = "idle" /\ site \in InitialRows
  /\ fetched = NothingFetched /\ extracted = NothingExtracted /\ scope = NoScope
  /\ uncategorized = FALSE /\ criteria = NoCriteria
  /\ verdict = NoVerdict /\ answer = NoAnswer /\ evaluations = 0

-------------------------------------------------------------------------------
(* The route                                                               *)

\* Any analyzer but the rules' counts as the language model.
ServedFromRow(row) ==
  row.analyzer # "none" /\ (row.analyzer # "rule" \/ Trustworthy(row))

\* Faulty variant: the status of the crawl is taken for the verdict's.
CachedStatusOfCrawl(row) == row.status

\* _build_cached_response.
CachedStatus(row) == IF row.isAi THEN "curated" ELSE "rejected"

AnswerFromRow ==
  /\ stage = "idle" /\ ServedFromRow(site)
  /\ answer' = [kind |-> "cached", status |-> CachedStatus(site)]
  /\ UNCHANGED <<stage, site, found, verdict, evaluations>>

BeginPipeline ==
  /\ stage = "idle" /\ ~ServedFromRow(site)
  /\ evaluations < MaxEvaluations /\ evaluations' = evaluations + 1
  /\ stage' = "fetch" /\ answer' = NoAnswer
  /\ UNCHANGED <<site, found, verdict>>

-------------------------------------------------------------------------------
(* The pipeline                                                            *)

\* step_fetch_and_collect_pages.  The pages are kept by their final URL: a
\* candidate that ends at the home page's takes its place there, so a home
\* page that is ok need not be among the pages that show text.
Fetch ==
  /\ stage = "fetch" /\ stage' = "extract"
  /\ \E home \in Home, others \in OtherPages, replaced \in BOOLEAN :
       /\ home.denied => ~home.ok
       /\ fetched' = [home |-> home, others |-> others,
                      shown |-> others.ok > 0 \/ (home.ok /\ ~replaced)]
  /\ UNCHANGED <<site, extracted, scope, uncategorized, criteria, verdict, answer, evaluations>>

\* step_extract_signals: only pages that are ok have any.
Extract ==
  /\ stage = "extract" /\ stage' = "scope"
  /\ \E signals \in SUBSET Signals, policy \in Policies :
       /\ ~fetched.shown => signals = {} /\ policy = "none"
       /\ extracted' =
            [homeOk |-> fetched.home.ok, shown |-> fetched.shown,
             pricing |-> "pricing" \in signals, docs |-> "docs" \in signals, policy |-> policy,
             contactOnly |-> "contact sales" \in signals, faqOnly |-> "FAQ" \in signals,
             license |-> "license" \in signals,
             blocked |-> AntiBotBlocked(fetched.home, fetched.others)]
  /\ fetched' = NothingFetched
  /\ UNCHANGED <<site, scope, uncategorized, criteria, verdict, answer, evaluations>>

ScopesFor(hits) ==
  {[decision |-> Scope(h, d), confidence |-> ScopeConfidence(h, d)] : h \in hits, d \in SUBSET Hints}

AnyScope   == ScopesFor(KeywordHits)
BlankScope == ScopesFor({h \in KeywordHits : AiScore(h) = 0 /\ NonAiScore(h) = 0})

\* step_assess_ai_scope; the pages that show nothing hold no keyword.
AssessScope ==
  /\ stage = "scope" /\ stage' = "taxonomy"
  /\ scope' \in IF extracted.shown THEN AnyScope ELSE BlankScope
  /\ UNCHANGED <<site, fetched, extracted, uncategorized, criteria, verdict, answer, evaluations>>

\* step_classify_taxonomy, skipped for a site that is not an AI site.
ClassifyTaxonomy ==
  /\ stage = "taxonomy" /\ stage' = "criteria"
  /\ \E top \in CategoryHits :
       /\ ~extracted.shown => top.body = 0 /\ top.links = 0
       /\ top.header <= top.body
       /\ uncategorized' = (scope.decision # "non_ai" /\ Uncategorized(top))
  /\ UNCHANGED <<site, fetched, extracted, scope, criteria, verdict, answer, evaluations>>

\* step_evaluate_criteria.  Without a page that shows text only the words of
\* the home page itself can tell how to use the site, and only its own
\* summary speaks for the description.
EvaluateCriteria ==
  /\ stage = "criteria" /\ stage' = "status"
  /\ \E use \in SUBSET WaysToUse, score \in DescScores :
       /\ ~extracted.shown => use \subseteq (IF extracted.homeOk THEN {"text"} ELSE {})
                              /\ score <= 100
       /\ "install" \in use => extracted.docs
       /\ criteria' = BuildCriteria(extracted, scope.decision, use, score)
  /\ UNCHANGED <<site, fetched, extracted, scope, uncategorized, verdict, answer, evaluations>>

\* step_score_and_predict_status and step_review_and_finalize_status.
Evaluation(unrendered) ==
  LET predicted == BufferedStatus(criteria, extracted, scope.decision)
      reasons   == ReviewReasons(criteria, extracted, scope.decision, uncategorized,
                                 unrendered, predicted)
  IN [scope |-> scope.decision, confidence |-> scope.confidence,
      blocked |-> extracted.blocked, criteria |-> criteria, total |-> TotalScore(criteria),
      reasons |-> reasons, final |-> FinalStatus(predicted, reasons)]

Remember(e) ==
  [scope |-> e.scope, blocked |-> e.blocked, uncategorized |-> uncategorized,
   usable |-> e.criteria["usable_now"].passed,
   desc |-> e.criteria["clear_function_desc"].confidence,
   docs |-> e.criteria["has_docs_or_help"].passed,
   policy |-> e.criteria["has_privacy_or_data_policy"].passed,
   contactOnly |-> extracted.contactOnly, reviewed |-> e.reasons # {}, final |-> e.final]

Forget ==
  /\ fetched' = NothingFetched /\ extracted' = NothingExtracted /\ scope' = NoScope
  /\ uncategorized' = FALSE /\ criteria' = NoCriteria

\* Faulty variant: a blocked site is stored like any other.
SavedRowOk(e) ==
  LET a == AnalysisOf(e)
  IN [analyzer |-> "rule", status |-> "ok", isAi |-> a.isAi, scored |-> TRUE,
      hardPass |-> a.hardPass, review |-> a.review, total |-> a.total]

\* _save_site.
SavedRow(e) ==
  LET a == AnalysisOf(e)
  IN [analyzer |-> "rule", status |-> IF a.blocked THEN "blocked" ELSE "ok",
      isAi |-> a.isAi, scored |-> TRUE,
      hardPass |-> a.hardPass, review |-> a.review, total |-> a.total]

\* Status, review and summary, which nothing outside can come between, and
\* the row: stored if the analysis is valid, and answered with the outcome.
JudgeAndSave ==
  /\ stage = "status" /\ stage' = "idle"
  /\ \E unrendered \in {FALSE, UsePlaywright} : \E e \in {Evaluation(unrendered)} :
       IF Valid(AnalysisOf(e))
       THEN /\ site' = SavedRow(e) /\ verdict' = Remember(e)
            /\ answer' = [kind |-> "fresh", status |-> e.final]
       ELSE /\ answer' = [kind |-> "error", status |-> "rejected"]
            /\ UNCHANGED <<site, verdict>>
  /\ Forget /\ UNCHANGED evaluations

\* An exception in a step or in the database: detect_and_save rolls back and
\* returns nothing, and the route answers 500.
Fail ==
  /\ stage # "idle" /\ stage' = "idle"
  /\ answer' = [kind |-> "error", status |-> "rejected"]
  /\ Forget /\ UNCHANGED <<site, verdict, evaluations>>

-------------------------------------------------------------------------------
(* The workers                                                             *)

\* The bulk task analyses every row the rules wrote.
LlmSaves(isAi, status) ==
  /\ stage = "idle"
  /\ site' = [NoRow EXCEPT !.analyzer = "llm", !.status = status, !.isAi = isAi]
  /\ verdict' = NoVerdict /\ answer' = NoAnswer
  /\ UNCHANGED <<stage, found, evaluations>>

\* mark_site_status; a row it makes has no analyzer.
MarkSite(status) ==
  /\ stage = "idle"
  /\ site' = IF site.analyzer = "none"
             THEN [NoRow EXCEPT !.analyzer = "null", !.status = status]
             ELSE [site EXCEPT !.status = status]
  /\ answer' = NoAnswer
  /\ UNCHANGED <<stage, found, verdict, evaluations>>

-------------------------------------------------------------------------------
Step ==
  \/ Fetch \/ Extract \/ AssessScope \/ ClassifyTaxonomy
  \/ EvaluateCriteria \/ JudgeAndSave \/ Fail

Next ==
  \/ AnswerFromRow \/ BeginPipeline \/ Step
  \/ \E isAi \in BOOLEAN, status \in {"ok", "blocked"} : LlmSaves(isAi, status)
  \/ \E status \in MarkStatuses : MarkSite(status)

Spec == Init /\ [][Next]_vars

-------------------------------------------------------------------------------
Stages == {"idle", "fetch", "extract", "scope", "taxonomy", "criteria", "status"}

TypeOK ==
  /\ stage \in Stages /\ site \in Row
  /\ fetched \in Fetched
  /\ extracted \in Extracted
  /\ scope \in Assessed
  /\ uncategorized \in BOOLEAN
  /\ criteria \in [Criteria -> Criterion]
  /\ verdict \in Verdict
  /\ answer \in Answer
  /\ evaluations \in 0..MaxEvaluations

\* By whichever way the route calls a site the rules judged curated, from a
\* new evaluation or from the row of an old one, that evaluation had taken
\* it for an AI site beyond doubt, got through to its pages, found a way to
\* use it and a plain description, and asked for no review.
ReviewedIsNeverCurated ==
  answer.kind # "none" /\ answer.status = "curated" /\ site.analyzer = "rule" =>
    /\ verdict.scope = "ai" /\ ~verdict.blocked /\ ~verdict.uncategorized
    /\ verdict.usable /\ verdict.desc >= 750 /\ ~verdict.reviewed

\* An evaluation that ends as curated found documents and a policy, and not
\* only a sales contact where prices should be: the score alone cannot make
\* up for either.
CuratedIsGrounded ==
  verdict.final = "curated" => verdict.docs /\ verdict.policy /\ ~verdict.contactOnly

\* A site that blocked the crawl is evaluated anew by the next request,
\* whatever the gate made of the little that was seen, and its row says so.
BlockedIsTakenAgain ==
  verdict.blocked => ~ServedFromRow(site) /\ site.status # "ok"

-------------------------------------------------------------------------------
(* What the documents say and the code does not do.                        *)

\* ARCHITECTURE.md, on a trusted row: the result in the database is returned
\* as it is.
CachedVerdictIsStored ==
  answer.kind = "cached" /\ site.analyzer = "rule" => answer.status = verdict.final

\* CLASSIFIER_MODES.md: a blocked site is held instead of rejected, with a
\* reason for the review.
BlockedIsHeld == verdict.blocked => verdict.final # "rejected" /\ verdict.reviewed

\* ARCHITECTURE.md: what is returned for another analyzer than the rules is
\* the result of the language model.
ServedIsAnalysed == answer.kind = "cached" => site.analyzer \in {"rule", "llm"}
=============================================================================
