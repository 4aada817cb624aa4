----------------------------- MODULE RuleVerdict -----------------------------
(***************************************************************************)
(* What the rules make of a site once its pages are there, as functions:   *)
(* the gate for AI sites (rule/classifiers/ai_scope_classifier.py), the    *)
(* test for a blocked crawl (discovery_signals.py), the five criteria and  *)
(* their score (criteria_evaluator.py), the review (status_policy.py) and  *)
(* the row that is stored (rule/analyzer.py).                              *)
(*                                                                         *)
(* Confidences are in thousandths, weights in hundredths, so a score is in *)
(* thousandths of a point.  The sums of the code are floating point.  They *)
(* come out exact at every threshold but two: a description whose exact    *)
(* score is 550 or 750 may fall just short of it, which is 549 and 749.    *)
(***************************************************************************)
EXTENDS Integers, FiniteSets

Statuses == {"curated", "incubating", "rejected"}
Scopes == {"ai", "uncertain", "non_ai"}

-------------------------------------------------------------------------------
(* The gate.  `h' counts the keywords found: strong and weak ones for an AI *)
(* site, strong and weak ones against; h.explicit tells whether one of the  *)
(* weak ones names AI itself.  `d' is what the domain hints at.             *)

Hints == {"brand", "tld"}

AiScore(h)    == 2 * h.strong + h.weak
NonAiScore(h) == 2 * h.nonStrong + h.nonWeak
Margin(h)     == AiScore(h) - NonAiScore(h)

AiByContent(h) ==
  \/ h.strong >= 2 /\ Margin(h) >= 1
  \/ h.strong >= 1 /\ (h.weak >= 1 \/ Margin(h) >= 1) /\ NonAiScore(h) <= 4
  \/ h.strong = 0 /\ h.explicit /\ h.weak >= 3 /\ Margin(h) >= 3 /\ NonAiScore(h) <= 1

AiByDomain(h, d) ==
  \/ "brand" \in d /\ (h.strong >= 1 \/ Margin(h) >= 1 \/ NonAiScore(h) <= 3)
  \/ "tld" \in d /\ (h.strong >= 1 \/ (h.weak >= 2 /\ NonAiScore(h) <= 2))

IsAi(h, d) == AiByContent(h) \/ AiByDomain(h, d)

UncertainNonAiCap == 6
Borderline(h, d) ==
  \/ AiScore(h) > 0 /\ Margin(h) \in -1..2 /\ NonAiScore(h) <= UncertainNonAiCap
  \/ "brand" \in d /\ AiScore(h) = 0 /\ NonAiScore(h) <= UncertainNonAiCap + 1

Scope(h, d) ==
  CASE IsAi(h, d)                      -> "ai"
    [] ~IsAi(h, d) /\ Borderline(h, d) -> "uncertain"
    [] OTHER                           -> "non_ai"

ScopeConfidence(h, d) ==
  CASE Scope(h, d) = "ai"        -> IF h.strong >= 2 THEN 970 ELSE 880
    [] Scope(h, d) = "uncertain" -> 620
    [] OTHER -> IF AiScore(h) = 0 THEN 960 ELSE IF Margin(h) <= -2 THEN 900 ELSE 820

\* The category with the most keywords, in body, header and links, has to
\* reach a score of 1.0; the header's words are in the body as well.
Uncategorized(top) == 10 * top.body + 15 * top.header + 7 * top.links < 10

-------------------------------------------------------------------------------
(* Signals of the pages.                                                   *)

PageCount(others) == others.ok + others.denied + others.failed

\* Faulty variant: 60% is not enough.
MassDeniedMore(home, others) ==
  /\ ~home.ok /\ home.denied
  /\ PageCount(others) >= 4 /\ 10 * others.denied > 6 * PageCount(others)

MassDenied(home, others) ==
  /\ ~home.ok /\ home.denied
  /\ PageCount(others) >= 4 /\ 10 * others.denied >= 6 * PageCount(others)

\* A challenge is recognised in the error or the text of the home page.
AntiBotBlocked(home, others) == home.challenge \/ MassDenied(home, others)

-------------------------------------------------------------------------------
(* The criteria.  The confidence of one that fails is only reported, but   *)
(* for the description's, which the review looks at.                       *)

Criteria == {"usable_now", "clear_function_desc", "has_pricing",
             "has_docs_or_help", "has_privacy_or_data_policy"}
Criterion == [passed : BOOLEAN, confidence : 0..1000]

Criteria5(usable, desc, pricing, docs, policy) ==
  [c \in Criteria |->
     CASE c = "usable_now"          -> usable
       [] c = "clear_function_desc" -> desc
       [] c = "has_pricing"         -> pricing
       [] c = "has_docs_or_help"    -> docs
       [] OTHER                     -> policy]

Judged(passed, confidence) == [passed |-> passed, confidence |-> confidence]

\* `use' is the ways to use the site at once that were found: a word in the
\* text, a link, an installation guide.  "coming soon" decides nothing: with
\* a way to use the site it is overruled, without one the site fails anyway.
UsableNow(use) ==
  Judged(use # {}, CASE "text" \in use -> 950 [] use = {} -> 700 [] OTHER -> 900)

\* The score of the best sentence is the confidence.
ClearFunctionDesc(score) == Judged(score >= 550, score)

HasPricing(ex) ==
  CASE ex.pricing                                         -> Judged(TRUE, 950)
    [] ~ex.pricing /\ ex.contactOnly                      -> Judged(FALSE, 800)
    [] ~ex.pricing /\ ~ex.contactOnly /\ ex.license       -> Judged(TRUE, 700)
    [] OTHER                                              -> Judged(FALSE, 850)

HasDocs(ex) == Judged(ex.docs, 900)

HasPolicy(ex) ==
  Judged(ex.policy # "none",
         CASE ex.policy = "privacy" -> 950 [] ex.policy = "terms" -> 850 [] OTHER -> 900)

BuildCriteria(ex, scope, use, score) ==
  IF scope = "non_ai" THEN [c \in Criteria |-> Judged(FALSE, 1000)]
  ELSE Criteria5(UsableNow(use), ClearFunctionDesc(score),
                 HasPricing(ex), HasDocs(ex), HasPolicy(ex))

PassedCount(cs) == Cardinality({c \in Criteria : cs[c].passed})
HardPass(cs) == cs["usable_now"].passed /\ cs["clear_function_desc"].passed

-------------------------------------------------------------------------------
(* Score and status.                                                       *)

\* Faulty variant: what failed counts with its confidence.
CriterionScoreAlways(c) == c.confidence

CriterionScore(c) == IF c.passed THEN c.confidence ELSE 0

TotalScore(cs) ==
    30 * CriterionScore(cs["usable_now"])
  + 25 * CriterionScore(cs["clear_function_desc"])
  + 20 * CriterionScore(cs["has_docs_or_help"])
  + 20 * CriterionScore(cs["has_privacy_or_data_policy"])
  +  5 * CriterionScore(cs["has_pricing"])

MaxScore            == 100000
CuratedThreshold    == 85000
IncubatingThreshold == 65000

PredictStatus(cs, scope) ==
  LET score(c) == CriterionScore(cs[c])
      total    == TotalScore(cs)
  IN CASE scope = "uncertain" -> "incubating"
       [] scope # "uncertain" /\ (score("usable_now") < 600 \/ score("clear_function_desc") < 500)
            -> "rejected"
       [] OTHER -> IF total >= CuratedThreshold
                   THEN IF score("has_docs_or_help") < 300
                           \/ score("has_privacy_or_data_policy") < 300
                        THEN "incubating" ELSE "curated"
                   ELSE IF total >= IncubatingThreshold THEN "incubating" ELSE "rejected"

\* A site rejected with nothing to go by, because it blocks the crawl, is held.
BufferedStatus(cs, ex, scope) ==
  IF ex.blocked /\ ~ex.homeOk /\ PassedCount(cs) = 0 /\ PredictStatus(cs, scope) = "rejected"
  THEN "incubating" ELSE PredictStatus(cs, scope)

Reasons == {"scope uncertain", "vague description", "contact sales only", "FAQ only",
            "blocked", "not rendered", "uncategorized", "no docs", "no policy"}

\* What asks for a review by hand; nothing does when the gate left the site
\* out.  `unrendered': only the plain request's poor page was to be had.
ReviewReasons(cs, ex, scope, uncategorized, unrendered, predicted) ==
  IF scope = "non_ai" THEN {}
  ELSE {r \in Reasons :
          \/ r = "scope uncertain"    /\ scope = "uncertain"
          \/ r = "vague description"  /\ cs["clear_function_desc"].confidence < 750
          \/ r = "contact sales only" /\ ex.contactOnly
          \/ r = "FAQ only"           /\ ex.faqOnly
          \/ r = "blocked"            /\ ex.blocked
          \/ r = "not rendered"       /\ unrendered
          \/ r = "uncategorized"      /\ uncategorized
          \/ r = "no docs"   /\ predicted = "curated" /\ ~cs["has_docs_or_help"].passed
          \/ r = "no policy" /\ predicted = "curated" /\ ~cs["has_privacy_or_data_policy"].passed}

FinalStatus(predicted, reasons) ==
  IF predicted = "curated" /\ reasons # {} THEN "incubating" ELSE predicted

-------------------------------------------------------------------------------
(* The analysis and its row.                                               *)

\* round(x / 1000 points), within 1..10; a half goes to the even neighbour.
OutOfTen(points) ==
  LET q == points \div 10000
      r == points % 10000
      n == IF r > 5000 \/ (r = 5000 /\ q % 2 = 1) THEN q + 1 ELSE q
  IN IF n < 1 THEN 1 ELSE IF n > 10 THEN 10 ELSE n

\* _map_to_analysis_dict, without the texts.
AnalysisOf(v) ==
  [isAi     |-> v.scope \in {"ai", "uncertain"},
   confidence |-> v.confidence,
   utility  |-> OutOfTen(v.total),
   trust    |-> OutOfTen(100 * v.criteria["has_privacy_or_data_policy"].confidence),
   hardPass |-> HardPass(v.criteria), total |-> v.total,
   review   |-> v.reasons # {}, blocked |-> v.blocked]

\* _validate_analysis: a blocked site is stored whatever else is there.
Valid(a) ==
  a.blocked \/ (a.confidence \in 0..1000 /\ a.utility \in 0..10 /\ a.trust \in 0..10)

CacheScoreThreshold == 60000

\* Faulty variant: the review is not asked about.
TrustworthyUnreviewed(row) ==
  row.scored /\ row.hardPass /\ row.total >= CacheScoreThreshold

\* _is_trustworthy_rule_cache; the columns of an old row are NULL.
Trustworthy(row) ==
  row.scored /\ row.hardPass /\ ~row.review /\ row.total >= CacheScoreThreshold
=============================================================================
