--------------------------- MODULE RuleRouteProofs ---------------------------
(***************************************************************************)
(* What TLAPS proves of the rules and of the route that serves them.       *)
(*                                                                         *)
(* The lemmas on the operators of RuleVerdict come first.  The invariant   *)
(* that makes the route's three properties inductive, RouteInv, adds to    *)
(* them what the pipeline carries between its steps (the criteria of a     *)
(* site the gate left out all fail) and what the row keeps between         *)
(* requests (a trusted row stands for an evaluation with nothing to        *)
(* review).                                                                *)
(***************************************************************************)
EXTENDS RuleRoute, TLAPS

Hits == [strong : Nat, weak : Nat, nonStrong : Nat, nonWeak : Nat, explicit : BOOLEAN]

\* As many keywords for an AI site, and as few against, or better.
AtLeast(h2, h1) ==
  /\ h2.strong >= h1.strong /\ h2.weak >= h1.weak
  /\ h2.nonStrong <= h1.nonStrong /\ h2.nonWeak <= h1.nonWeak
  /\ h1.explicit => h2.explicit

-------------------------------------------------------------------------------
(* The gate and the score                                                  *)

\* More keywords for an AI site, fewer against it and more hints of the
\* domain never take a site the gate let in for an AI site out again, whatever
\* the counts (_infer_ai_site_scope).
THEOREM MoreEvidenceStaysAi ==
  ASSUME NEW h1 \in Hits, NEW h2 \in Hits, NEW d1 \in SUBSET Hints, NEW d2 \in SUBSET Hints,
         AtLeast(h2, h1), d1 \subseteq d2, Scope(h1, d1) = "ai"
  PROVE  Scope(h2, d2) = "ai"
<1>1. IsAi(h1, d1)
  BY DEF Scope
<1>2. /\ AiScore(h2) >= AiScore(h1) /\ NonAiScore(h2) <= NonAiScore(h1)
      /\ Margin(h2) >= Margin(h1)
      /\ AiScore(h1) \in Nat /\ NonAiScore(h1) \in Nat /\ Margin(h1) \in Int
      /\ AiScore(h2) \in Nat /\ NonAiScore(h2) \in Nat /\ Margin(h2) \in Int
  BY DEF AtLeast, Hits, AiScore, NonAiScore, Margin
<1>3. CASE AiByContent(h1)
  <2>1. AiByContent(h2)
    BY <1>2, <1>3 DEF AiByContent, AtLeast, Hits
  <2> QED
    BY <2>1 DEF IsAi, Scope
<1>4. CASE AiByDomain(h1, d1)
  <2>1. AiByDomain(h2, d2)
    BY <1>2, <1>4 DEF AiByDomain, AtLeast, Hits
  <2> QED
    BY <2>1 DEF IsAi, Scope
<1> QED
  BY <1>1, <1>3, <1>4 DEF IsAi

LEMMA ScopeType ==
  ASSUME NEW h, NEW d
  PROVE  [decision |-> Scope(h, d), confidence |-> ScopeConfidence(h, d)]
            \in Assessed
<1>1. Scope(h, d) \in Scopes
  BY DEF Scope, Scopes
<1>2. ScopeConfidence(h, d) \in 0..1000
  BY <1>1 DEF ScopeConfidence, Scopes
<1> QED
  BY <1>1, <1>2 DEF Assessed

LEMMA ScoreAt ==
  ASSUME NEW cs \in [Criteria -> Criterion], NEW c \in Criteria
  PROVE  /\ CriterionScore(cs[c]) \in Nat /\ CriterionScore(cs[c]) <= 1000
         /\ CriterionScore(cs[c]) > 0 => cs[c].passed
<1>1. cs[c].confidence \in Nat /\ cs[c].confidence <= 1000
  <2>1. cs[c] \in Criterion
    OBVIOUS
  <2> QED
    BY <2>1 DEF Criterion
<1>2. CASE cs[c].passed
  <2>1. CriterionScore(cs[c]) = cs[c].confidence
    BY <1>2 DEF CriterionScore
  <2> QED
    BY <1>1, <1>2, <2>1
<1>3. CASE ~cs[c].passed
  <2>1. CriterionScore(cs[c]) = 0
    BY <1>3 DEF CriterionScore
  <2> QED
    BY <2>1
<1> QED
  BY <1>2, <1>3

LEMMA CriterionFields ==
  ASSUME NEW c \in Criterion
  PROVE  c.passed \in BOOLEAN /\ c.confidence \in 0..1000
BY DEF Criterion

LEMMA CriteriaNames ==
  /\ "usable_now" \in Criteria /\ "clear_function_desc" \in Criteria
  /\ "has_pricing" \in Criteria /\ "has_docs_or_help" \in Criteria
  /\ "has_privacy_or_data_policy" \in Criteria
BY DEF Criteria

\* The weighted sum of the scores, as arithmetic.
LEMMA WeightedSum ==
  ASSUME NEW u \in Nat, NEW f \in Nat, NEW d \in Nat, NEW p \in Nat, NEW r \in Nat,
         u <= 1000, f <= 1000, d <= 1000, p <= 1000, r <= 1000
  PROVE  /\ 30 * u + 25 * f + 20 * d + 20 * p + 5 * r \in Nat
         /\ 30 * u + 25 * f + 20 * d + 20 * p + 5 * r <= 100000
         /\ 30 * u + 25 * f + 20 * d + 20 * p + 5 * r >= 85000
              => (u >= 250 /\ f >= 250 /\ d >= 250 /\ p >= 250)
BY SMT

LEMMA TotalScoreType ==
  ASSUME NEW cs \in [Criteria -> Criterion]
  PROVE  TotalScore(cs) \in 0..MaxScore
<1> DEFINE u == CriterionScore(cs["usable_now"])
           f == CriterionScore(cs["clear_function_desc"])
           d == CriterionScore(cs["has_docs_or_help"])
           p == CriterionScore(cs["has_privacy_or_data_policy"])
           r == CriterionScore(cs["has_pricing"])
<1>1. /\ u \in Nat /\ f \in Nat /\ d \in Nat /\ p \in Nat /\ r \in Nat
      /\ u <= 1000 /\ f <= 1000 /\ d <= 1000 /\ p <= 1000 /\ r <= 1000
  BY CriteriaNames, ScoreAt
<1>2. TotalScore(cs) = 30 * u + 25 * f + 20 * d + 20 * p + 5 * r
  BY DEF TotalScore
<1> HIDE DEF u, f, d, p, r
<1>3. TotalScore(cs) \in Nat /\ TotalScore(cs) <= 100000
  BY <1>1, <1>2, WeightedSum
<1>4. MaxScore \in Nat /\ TotalScore(cs) <= MaxScore
  BY <1>3 DEF MaxScore
<1> QED
  BY <1>3, <1>4

\* No other criterion makes up for documents, a policy, a way to use the site
\* or a description: a score that reaches the threshold of a curated site has
\* all four of them passed, so the gates on documents and policy that come
\* after the threshold in _predict_status never meet a site without them.
THEOREM ThresholdNeedsFour ==
  ASSUME NEW cs \in [Criteria -> Criterion], TotalScore(cs) >= CuratedThreshold
  PROVE  /\ cs["has_docs_or_help"].passed /\ cs["has_privacy_or_data_policy"].passed
         /\ cs["usable_now"].passed /\ cs["clear_function_desc"].passed
         /\ CriterionScore(cs["has_docs_or_help"]) >= 250
         /\ CriterionScore(cs["has_privacy_or_data_policy"]) >= 250
<1> DEFINE u == CriterionScore(cs["usable_now"])
           f == CriterionScore(cs["clear_function_desc"])
           d == CriterionScore(cs["has_docs_or_help"])
           p == CriterionScore(cs["has_privacy_or_data_policy"])
           r == CriterionScore(cs["has_pricing"])
<1>1. /\ u \in Nat /\ f \in Nat /\ d \in Nat /\ p \in Nat /\ r \in Nat
      /\ u <= 1000 /\ f <= 1000 /\ d <= 1000 /\ p <= 1000 /\ r <= 1000
  BY CriteriaNames, ScoreAt
<1>2. 30 * u + 25 * f + 20 * d + 20 * p + 5 * r >= 85000
  BY DEF TotalScore, CuratedThreshold
<1> HIDE DEF u, f, d, p, r
<1>3. u >= 250 /\ f >= 250 /\ d >= 250 /\ p >= 250
  BY <1>1, <1>2, WeightedSum
<1> USE DEF u, f, d, p, r
<1> QED
  BY <1>3, CriteriaNames, ScoreAt

\* What a site predicted curated has: it was not held for its scope and it
\* reached the threshold with a way to use it and a description.
LEMMA PredictedCurated ==
  ASSUME NEW cs \in [Criteria -> Criterion], NEW sc \in Scopes,
         PredictStatus(cs, sc) = "curated"
  PROVE  /\ sc # "uncertain"
         /\ cs["usable_now"].passed /\ cs["clear_function_desc"].passed
         /\ cs["has_docs_or_help"].passed /\ cs["has_privacy_or_data_policy"].passed
<1>1. sc # "uncertain"
  BY DEF PredictStatus
<1>2. TotalScore(cs) >= CuratedThreshold
  BY <1>1 DEF PredictStatus
<1> QED
  BY <1>1, <1>2, ThresholdNeedsFour

LEMMA PredictStatusType ==
  ASSUME NEW cs, NEW sc
  PROVE  PredictStatus(cs, sc) \in Statuses
BY DEF PredictStatus, Statuses

LEMMA BufferedCurated ==
  ASSUME NEW cs, NEW ex, NEW sc
  PROVE  /\ BufferedStatus(cs, ex, sc) \in Statuses
         /\ BufferedStatus(cs, ex, sc) = "curated" => PredictStatus(cs, sc) = "curated"
BY PredictStatusType DEF BufferedStatus, Statuses

\* A site let through by the gate and without a reason for a review.
LEMMA NoReason ==
  ASSUME NEW cs \in [Criteria -> Criterion], NEW ex \in Extracted, NEW sc \in Scopes,
         NEW uncat \in BOOLEAN, NEW unrend \in BOOLEAN, NEW pred \in Statuses,
         sc # "non_ai",
         ReviewReasons(cs, ex, sc, uncat, unrend, pred) = {}
  PROVE  /\ sc = "ai" /\ ~ex.blocked /\ ~ex.contactOnly /\ ~uncat
         /\ cs["clear_function_desc"].confidence >= 750
<1>1. /\ sc # "uncertain" /\ ~(cs["clear_function_desc"].confidence < 750)
      /\ ~ex.contactOnly /\ ~ex.blocked /\ ~uncat
  BY DEF ReviewReasons, Reasons
<1>2. cs["clear_function_desc"].confidence \in 0..1000
  <2>1. cs["clear_function_desc"] \in Criterion
    BY CriteriaNames
  <2> QED
    BY <2>1, CriterionFields
<1>4. cs["clear_function_desc"].confidence >= 750
  <2>1. PICK x \in 0..1000 : x = cs["clear_function_desc"].confidence
    BY <1>2
  <2>2. ~(x < 750)
    BY <1>1, <2>1
  <2>3. x >= 750
    BY <2>2
  <2> QED
    BY <2>1, <2>3
<1>5. sc = "ai"
  BY <1>1 DEF Scopes
<1> QED
  BY <1>1, <1>4, <1>5

\* What the review asks for.
LEMMA BlockedIsAReason ==
  ASSUME NEW cs, NEW ex, NEW sc, NEW uncat, NEW unrend, NEW pred,
         sc # "non_ai", ex.blocked
  PROVE  ReviewReasons(cs, ex, sc, uncat, unrend, pred) # {}
<1>1. "blocked" \in ReviewReasons(cs, ex, sc, uncat, unrend, pred)
  BY DEF ReviewReasons, Reasons
<1> QED
  BY <1>1

LEMMA OutOfTenType == ASSUME NEW points \in Nat PROVE OutOfTen(points) \in 1..10
<1>1. points \div 10000 \in Int
  OBVIOUS
<1> QED
  BY <1>1 DEF OutOfTen

\* The promise of _map_to_analysis_dict: whatever the criteria say, its
\* analysis passes _validate_analysis, so a run of the pipeline that ends is
\* always stored.
THEOREM AnalysisPassesValidation ==
  ASSUME NEW e, e.criteria \in [Criteria -> Criterion], e.confidence \in 0..1000,
         e.total = TotalScore(e.criteria)
  PROVE  Valid(AnalysisOf(e))
<1> DEFINE trusted == e.criteria["has_privacy_or_data_policy"].confidence
<1>1. e.total \in Nat
  BY TotalScoreType
<1>2. trusted \in 0..1000
  <2>1. e.criteria["has_privacy_or_data_policy"] \in Criterion
    BY CriteriaNames
  <2> QED
    BY <2>1, CriterionFields
<1>3. \A x \in 0..1000 : 100 * x \in Nat
  OBVIOUS
<1>4. OutOfTen(e.total) \in 1..10
  BY <1>1, OutOfTenType
<1>5. OutOfTen(100 * trusted) \in 1..10
  BY <1>2, <1>3, OutOfTenType
<1>6. /\ AnalysisOf(e).confidence \in 0..1000
      /\ AnalysisOf(e).utility \in 1..10 /\ AnalysisOf(e).trust \in 1..10
  BY <1>4, <1>5 DEF AnalysisOf
<1> QED
  BY <1>6 DEF Valid

-------------------------------------------------------------------------------
(* The invariant                                                           *)

\* Between the criteria and the status: what the gate left out has failed
\* everything.
CriteriaTellScope ==
  stage = "status" /\ scope.decision = "non_ai" => \A c \in Criteria : ~criteria[c].passed

\* Only a row of the rules that stands for an evaluation with nothing to
\* review is trusted and says AI site.
TrustedRowIsClean ==
  site.analyzer = "rule" /\ Trustworthy(site) /\ site.isAi =>
    /\ verdict.scope = "ai" /\ ~verdict.blocked /\ ~verdict.uncategorized
    /\ verdict.usable /\ verdict.desc >= 750 /\ ~verdict.reviewed

\* The evaluation of a blocked site is the one behind a row of the rules.
BlockedRowIsOfRules == verdict.blocked => site.analyzer = "rule"

RouteInv ==
  /\ TypeOK /\ CriteriaTellScope /\ TrustedRowIsClean /\ BlockedRowIsOfRules
  /\ ReviewedIsNeverCurated /\ CuratedIsGrounded /\ BlockedIsTakenAgain

-------------------------------------------------------------------------------
(* What a step of the judgement gives                                      *)

LEMMA EvaluationFacts ==
  ASSUME TypeOK, CriteriaTellScope, stage = "status", NEW u \in BOOLEAN
  PROVE  /\ Evaluation(u).scope = scope.decision /\ Evaluation(u).scope \in Scopes
         /\ Evaluation(u).blocked = extracted.blocked
         /\ Evaluation(u).criteria = criteria /\ Evaluation(u).final \in Statuses
         /\ Evaluation(u).total = TotalScore(criteria)
         /\ (Evaluation(u).reasons = {} /\ Evaluation(u).scope # "non_ai")
              => /\ scope.decision = "ai" /\ ~extracted.blocked /\ ~uncategorized
                 /\ ~extracted.contactOnly
                 /\ criteria["clear_function_desc"].confidence >= 750
         /\ Evaluation(u).final = "curated"
              => /\ Evaluation(u).reasons = {} /\ Evaluation(u).scope # "non_ai"
                 /\ criteria["usable_now"].passed
                 /\ criteria["has_docs_or_help"].passed
                 /\ criteria["has_privacy_or_data_policy"].passed
         /\ extracted.blocked
              => Evaluation(u).scope = "non_ai" \/ Evaluation(u).reasons # {}
<1> DEFINE sc == scope.decision
           pred == BufferedStatus(criteria, extracted, sc)
           rs == ReviewReasons(criteria, extracted, sc, uncategorized, u, pred)
<1>1. /\ criteria \in [Criteria -> Criterion] /\ sc \in Scopes /\ extracted \in Extracted
      /\ uncategorized \in BOOLEAN
  BY DEF TypeOK, Assessed
<1>2. /\ Evaluation(u).scope = sc /\ Evaluation(u).blocked = extracted.blocked
      /\ Evaluation(u).criteria = criteria /\ Evaluation(u).total = TotalScore(criteria)
      /\ Evaluation(u).reasons = rs /\ Evaluation(u).final = FinalStatus(pred, rs)
  BY DEF Evaluation
<1>3. pred \in Statuses /\ (pred = "curated" => PredictStatus(criteria, sc) = "curated")
  BY BufferedCurated
<1> HIDE DEF sc, pred
<1>4. FinalStatus(pred, rs) \in Statuses
  BY <1>3 DEF FinalStatus, Statuses
<1>5. rs = {} /\ sc # "non_ai"
        => /\ sc = "ai" /\ ~extracted.blocked /\ ~uncategorized /\ ~extracted.contactOnly
           /\ criteria["clear_function_desc"].confidence >= 750
  BY <1>1, <1>3, NoReason
<1>6. extracted.blocked => sc = "non_ai" \/ rs # {}
  BY BlockedIsAReason
<1> HIDE DEF rs
<1>7. ASSUME FinalStatus(pred, rs) = "curated"
      PROVE  /\ rs = {} /\ sc # "non_ai" /\ criteria["usable_now"].passed
             /\ criteria["has_docs_or_help"].passed
             /\ criteria["has_privacy_or_data_policy"].passed
  <2>1. pred = "curated" /\ rs = {}
    BY <1>7 DEF FinalStatus
  <2>2. /\ criteria["usable_now"].passed /\ criteria["has_docs_or_help"].passed
        /\ criteria["has_privacy_or_data_policy"].passed
    BY <1>1, <1>3, <2>1, PredictedCurated
  <2>3. sc # "non_ai"
    BY <2>2, CriteriaNames DEF CriteriaTellScope, sc
  <2> QED
    BY <2>1, <2>2, <2>3
<1> QED
  BY <1>1, <1>2, <1>4, <1>5, <1>6, <1>7 DEF sc

-------------------------------------------------------------------------------
(* The steps                                                               *)

LEMMA BuildCriteriaType ==
  ASSUME NEW ex \in Extracted, NEW sc \in Scopes, NEW use \in SUBSET WaysToUse,
         NEW score \in 0..1000
  PROVE  /\ BuildCriteria(ex, sc, use, score) \in [Criteria -> Criterion]
         /\ sc = "non_ai" => \A c \in Criteria : ~BuildCriteria(ex, sc, use, score)[c].passed
<1>1. Judged(FALSE, 1000) \in Criterion
  BY DEF Judged, Criterion
<1>2. CASE sc = "non_ai"
  BY <1>1, <1>2 DEF BuildCriteria, Judged
<1>3. CASE sc # "non_ai"
  <2>1. UsableNow(use) \in Criterion
    BY DEF UsableNow, Judged, Criterion
  <2>2. ClearFunctionDesc(score) \in Criterion
    BY DEF ClearFunctionDesc, Judged, Criterion
  <2>3. HasPricing(ex) \in Criterion
    BY DEF HasPricing, Judged, Criterion, Extracted
  <2>4. HasDocs(ex) \in Criterion
    BY DEF HasDocs, Judged, Criterion, Extracted
  <2>5. HasPolicy(ex) \in Criterion
    BY DEF HasPolicy, Judged, Criterion, Extracted, Policies
  <2> QED
    BY <1>3, <2>1, <2>2, <2>3, <2>4, <2>5 DEF BuildCriteria, Criteria5
<1> QED
  BY <1>2, <1>3

LEMMA NoRowType == NoRow \in Row
<1>1. MaxScore \in Nat
  BY DEF MaxScore
<1>2. 0 \in 0..MaxScore
  BY <1>1
<1> QED
  BY <1>2 DEF NoRow, Row

\* The values of the variables before the step that sets them.
LEMMA Defaults ==
  /\ NothingFetched \in Fetched /\ NothingExtracted \in Extracted /\ NoScope \in Assessed
  /\ NoCriteria \in [Criteria -> Criterion] /\ NoVerdict \in Verdict /\ NoAnswer \in Answer
<1>1. NothingFetched \in Fetched
  BY DEF NothingFetched, Fetched, NoPage, Home
<1>2. NothingExtracted \in Extracted
  BY DEF NothingExtracted, Extracted, Policies
<1>3. NoScope \in Assessed
  BY DEF NoScope, Assessed, Scopes
<1>4. NoCriteria \in [Criteria -> Criterion]
  BY DEF NoCriteria, Judged, Criterion
<1>5. NoVerdict \in Verdict
  BY DEF NoVerdict, Verdict, Scopes, Statuses
<1>6. NoAnswer \in Answer
  BY DEF NoAnswer, Answer, Statuses
<1> QED
  BY <1>1, <1>2, <1>3, <1>4, <1>5, <1>6

LEMMA RouteInit == Init => RouteInv
<1> SUFFICES ASSUME Init PROVE RouteInv
  OBVIOUS
<1>2. site \in Row /\ (site.analyzer = "rule" => ~Trustworthy(site))
  BY RowsAssumption DEF Init, Trustworthy
<1>3. TypeOK
  <2>1. evaluations \in 0..MaxEvaluations
    BY BoundAssumption DEF Init
  <2> QED
    BY <1>2, <2>1, Defaults DEF Init, TypeOK, Stages
<1>4. /\ CriteriaTellScope /\ TrustedRowIsClean /\ BlockedRowIsOfRules
      /\ ReviewedIsNeverCurated /\ CuratedIsGrounded /\ BlockedIsTakenAgain
  BY <1>2 DEF Init, CriteriaTellScope, TrustedRowIsClean, BlockedRowIsOfRules,
              ReviewedIsNeverCurated, CuratedIsGrounded, BlockedIsTakenAgain,
              NoVerdict, NoAnswer
<1> QED
  BY <1>3, <1>4 DEF RouteInv

\* The parts of the invariant that only look at the row, the evaluation
\* behind it and the answer.
RowInv ==
  /\ TrustedRowIsClean /\ BlockedRowIsOfRules
  /\ ReviewedIsNeverCurated /\ CuratedIsGrounded /\ BlockedIsTakenAgain

LEMMA RowInvUnchanged ==
  ASSUME RowInv, UNCHANGED <<site, verdict>>,
         answer' = answer \/ answer'.kind = "none" \/ answer'.status = "rejected"
  PROVE  RowInv'
BY DEF RowInv, TrustedRowIsClean, BlockedRowIsOfRules, ReviewedIsNeverCurated,
       CuratedIsGrounded, BlockedIsTakenAgain

LEMMA JudgeStep == RouteInv /\ JudgeAndSave => RouteInv'
<1> SUFFICES ASSUME RouteInv, JudgeAndSave PROVE RouteInv'
  OBVIOUS
<1>1. PICK u \in {FALSE, UsePlaywright} : \E e \in {Evaluation(u)} :
        IF Valid(AnalysisOf(e))
        THEN /\ site' = SavedRow(e) /\ verdict' = Remember(e)
             /\ answer' = [kind |-> "fresh", status |-> e.final]
        ELSE /\ answer' = [kind |-> "error", status |-> "rejected"]
             /\ UNCHANGED <<site, verdict>>
  BY DEF JudgeAndSave
<1> DEFINE e == Evaluation(u)
<1>2. u \in BOOLEAN
  BY UsePlaywrightAssumption
<1>3. /\ e.scope = scope.decision /\ e.scope \in Scopes /\ e.blocked = extracted.blocked
      /\ e.criteria = criteria /\ e.final \in Statuses /\ e.total = TotalScore(criteria)
      /\ (e.reasons = {} /\ e.scope # "non_ai")
           => /\ scope.decision = "ai" /\ ~extracted.blocked /\ ~uncategorized
              /\ ~extracted.contactOnly /\ criteria["clear_function_desc"].confidence >= 750
      /\ e.final = "curated"
           => /\ e.reasons = {} /\ e.scope # "non_ai" /\ criteria["usable_now"].passed
              /\ criteria["has_docs_or_help"].passed
              /\ criteria["has_privacy_or_data_policy"].passed
      /\ extracted.blocked => e.scope = "non_ai" \/ e.reasons # {}
  BY <1>2, EvaluationFacts DEF RouteInv, JudgeAndSave
<1> HIDE DEF e
<1>4. /\ criteria \in [Criteria -> Criterion] /\ extracted \in Extracted
      /\ uncategorized \in BOOLEAN /\ TotalScore(criteria) \in 0..MaxScore
  BY TotalScoreType DEF RouteInv, TypeOK
<1>5. /\ criteria["usable_now"] \in Criterion /\ criteria["clear_function_desc"] \in Criterion
      /\ criteria["has_docs_or_help"] \in Criterion
      /\ criteria["has_privacy_or_data_policy"] \in Criterion
  BY <1>4, CriteriaNames
<1>6. Remember(e) \in Verdict
  <2>1. /\ criteria["usable_now"].passed \in BOOLEAN
        /\ criteria["clear_function_desc"].confidence \in 0..1000
        /\ criteria["has_docs_or_help"].passed \in BOOLEAN
        /\ criteria["has_privacy_or_data_policy"].passed \in BOOLEAN
    BY <1>5, CriterionFields
  <2>2. extracted.blocked \in BOOLEAN /\ extracted.contactOnly \in BOOLEAN
    BY <1>4 DEF Extracted
  <2> QED BY <1>3, <1>4, <2>1, <2>2 DEF Remember, Verdict
<1>7. SavedRow(e) \in Row
  <2>1. e.total \in 0..MaxScore /\ HardPass(e.criteria) \in BOOLEAN
    BY <1>3, <1>4, <1>5, CriterionFields DEF HardPass
  <2>2. SavedRow(e) =
          [analyzer |-> "rule", status |-> IF e.blocked THEN "blocked" ELSE "ok",
           isAi |-> e.scope \in {"ai", "uncertain"}, scored |-> TRUE,
           hardPass |-> HardPass(e.criteria), review |-> e.reasons # {},
           total |-> e.total]
    BY DEF SavedRow, AnalysisOf
  <2> QED BY <2>1, <2>2 DEF Row
<1>9. (/\ site' = SavedRow(e) /\ verdict' = Remember(e)
       /\ answer' = [kind |-> "fresh", status |-> e.final])
      \/ (answer' = [kind |-> "error", status |-> "rejected"] /\ UNCHANGED <<site, verdict>>)
  BY <1>1 DEF e
<1>10. TypeOK'
  <2>1. site' \in Row /\ verdict' \in Verdict
    BY <1>6, <1>7, <1>9 DEF RouteInv, TypeOK
  <2>2. answer' \in Answer
    BY <1>3, <1>9 DEF Answer, Statuses
  <2> QED
    BY Defaults, <2>1, <2>2 DEF RouteInv, TypeOK, JudgeAndSave, Forget, Stages
<1>11. CriteriaTellScope'
  BY DEF JudgeAndSave, CriteriaTellScope
<1>12. CASE answer'.kind = "error" /\ answer'.status = "rejected" /\ UNCHANGED <<site, verdict>>
  BY <1>10, <1>11, <1>12, RowInvUnchanged DEF RouteInv, RowInv
<1>13. CASE /\ site' = SavedRow(e) /\ verdict' = Remember(e)
            /\ answer' = [kind |-> "fresh", status |-> e.final]
  <2>1. /\ site'.analyzer = "rule" /\ site'.scored
        /\ site'.isAi = (scope.decision \in {"ai", "uncertain"})
        /\ site'.status = IF extracted.blocked THEN "blocked" ELSE "ok"
        /\ site'.hardPass = HardPass(criteria) /\ site'.review = (e.reasons # {})
    BY <1>3, <1>13 DEF SavedRow, AnalysisOf
  <2>2. /\ verdict'.scope = scope.decision /\ verdict'.blocked = extracted.blocked
        /\ verdict'.uncategorized = uncategorized
        /\ verdict'.usable = criteria["usable_now"].passed
        /\ verdict'.desc = criteria["clear_function_desc"].confidence
        /\ verdict'.docs = criteria["has_docs_or_help"].passed
        /\ verdict'.policy = criteria["has_privacy_or_data_policy"].passed
        /\ verdict'.contactOnly = extracted.contactOnly
        /\ verdict'.reviewed = (e.reasons # {}) /\ verdict'.final = e.final
    BY <1>3, <1>13 DEF Remember
  <2> DEFINE Clean ==
        /\ verdict'.scope = "ai" /\ ~verdict'.blocked /\ ~verdict'.uncategorized
        /\ verdict'.usable /\ verdict'.desc >= 750 /\ ~verdict'.reviewed
  <2>c. ASSUME e.reasons = {}, e.scope # "non_ai", criteria["usable_now"].passed
        PROVE  Clean
    <3>1. /\ scope.decision = "ai" /\ ~extracted.blocked /\ ~uncategorized
          /\ criteria["clear_function_desc"].confidence >= 750
      BY <1>3, <2>c
    <3>2. verdict'.scope = "ai" /\ verdict'.desc >= 750
      BY <2>2, <3>1
    <3>3. ~verdict'.blocked
      BY <2>2, <3>1, Zenon
    <3>4. ~verdict'.uncategorized
      BY <2>2, <3>1, Zenon
    <3>5. verdict'.usable
      BY <2>2, <2>c, Zenon
    <3>6. ~verdict'.reviewed
      BY <2>2, <2>c, Zenon
    <3> QED
      BY <3>2, <3>3, <3>4, <3>5, <3>6
  <2>3. TrustedRowIsClean'
    <3> SUFFICES ASSUME (site.analyzer = "rule" /\ Trustworthy(site) /\ site.isAi)'
                 PROVE  Clean
      BY DEF TrustedRowIsClean
    <3>1. ~site'.review /\ site'.hardPass
      BY DEF Trustworthy
    <3>2. e.reasons = {}
      BY <2>1, <3>1, Zenon
    <3>3. criteria["usable_now"].passed
      BY <2>1, <3>1, Zenon DEF HardPass
    <3>4. e.scope # "non_ai"
      BY <1>3, <2>1
    <3> HIDE DEF Clean
    <3> QED
      BY <2>c, <3>2, <3>3, <3>4
  <2>4. BlockedRowIsOfRules'
    BY <2>1 DEF BlockedRowIsOfRules
  <2>5. ReviewedIsNeverCurated'
    <3> SUFFICES ASSUME answer'.status = "curated" PROVE Clean
      BY DEF ReviewedIsNeverCurated
    <3>1. e.final = "curated"
      BY <1>13
    <3> HIDE DEF Clean
    <3> QED
      BY <1>3, <2>c, <3>1
  <2>6. CuratedIsGrounded'
    BY <1>3, <2>2 DEF CuratedIsGrounded
  <2>7. BlockedIsTakenAgain'
    <3> SUFFICES ASSUME extracted.blocked
                 PROVE  ~Trustworthy(site)'  /\ site'.status # "ok"
      BY <2>1, <2>2 DEF BlockedIsTakenAgain, ServedFromRow
    <3>1. CASE e.scope = "non_ai"
      BY <1>3, <2>1, <3>1, CriteriaNames
         DEF RouteInv, CriteriaTellScope, JudgeAndSave, HardPass, Trustworthy
    <3>2. CASE e.reasons # {}
      BY <2>1, <3>2 DEF Trustworthy
    <3> QED
      BY <1>3, <2>1, <3>1, <3>2
  <2> QED
    BY <1>10, <1>11, <2>3, <2>4, <2>5, <2>6, <2>7 DEF RouteInv
<1> QED
  BY <1>9, <1>12, <1>13

LEMMA OtherSteps ==
  ASSUME RouteInv,
         \/ AnswerFromRow \/ BeginPipeline \/ Fetch \/ Extract \/ AssessScope
         \/ ClassifyTaxonomy \/ EvaluateCriteria \/ Fail
         \/ \E isAi \in BOOLEAN, status \in {"ok", "blocked"} : LlmSaves(isAi, status)
         \/ \E status \in MarkStatuses : MarkSite(status)
  PROVE  RouteInv'
<1> USE DEF RouteInv
<1>1. CASE AnswerFromRow
  <2>1. CachedStatus(site) \in Statuses
    BY DEF CachedStatus, Statuses
  <2>2. TypeOK'
    BY <1>1, <2>1 DEF AnswerFromRow, TypeOK, Answer, found
  <2>3. ReviewedIsNeverCurated'
    <3> SUFFICES ASSUME answer'.status = "curated", site.analyzer = "rule"
                 PROVE  ReviewedIsNeverCurated'
      BY <1>1 DEF AnswerFromRow, ReviewedIsNeverCurated
    <3>1. site.isAi /\ Trustworthy(site)
      BY <1>1 DEF AnswerFromRow, CachedStatus, ServedFromRow
    <3> QED
      BY <1>1, <3>1 DEF AnswerFromRow, TrustedRowIsClean, ReviewedIsNeverCurated
  <2> QED
    BY <1>1, <2>2, <2>3
       DEF AnswerFromRow, found, CriteriaTellScope, TrustedRowIsClean, BlockedRowIsOfRules,
           CuratedIsGrounded, BlockedIsTakenAgain
<1>2. CASE BeginPipeline
  <2>1. TypeOK'
    BY <1>2, Defaults, BoundAssumption DEF BeginPipeline, TypeOK, Stages, found
  <2>2. RowInv'
    BY <1>2, RowInvUnchanged DEF BeginPipeline, NoAnswer, RowInv
  <2> QED
    BY <1>2, <2>1, <2>2 DEF BeginPipeline, CriteriaTellScope, RowInv
<1>3. CASE Fetch
  <2>1. TypeOK'
    BY <1>3 DEF Fetch, TypeOK, Fetched, Stages
  <2>2. RowInv'
    BY <1>3, RowInvUnchanged DEF Fetch, RowInv
  <2> QED
    BY <1>3, <2>1, <2>2 DEF Fetch, CriteriaTellScope, RowInv
<1>4. CASE Extract
  <2>1. extracted' \in Extracted
    <3>1. PICK signals \in SUBSET Signals, policy \in Policies :
            extracted' =
              [homeOk |-> fetched.home.ok, shown |-> fetched.shown,
               pricing |-> "pricing" \in signals, docs |-> "docs" \in signals,
               policy |-> policy, contactOnly |-> "contact sales" \in signals,
               faqOnly |-> "FAQ" \in signals, license |-> "license" \in signals,
               blocked |-> AntiBotBlocked(fetched.home, fetched.others)]
      BY <1>4 DEF Extract
    <3>2. fetched.home.ok \in BOOLEAN /\ fetched.shown \in BOOLEAN
      BY DEF TypeOK, Fetched, Home
    <3>3. AntiBotBlocked(fetched.home, fetched.others) \in BOOLEAN
      BY DEF AntiBotBlocked
    <3> DEFINE Has(x)  == x \in signals
               Blocked == AntiBotBlocked(fetched.home, fetched.others)
    <3>4. \A x : Has(x) \in BOOLEAN
      OBVIOUS
    <3>5. Blocked \in BOOLEAN
      BY <3>3
    <3>6. extracted' =
            [homeOk |-> fetched.home.ok, shown |-> fetched.shown,
             pricing |-> Has("pricing"), docs |-> Has("docs"),
             policy |-> policy, contactOnly |-> Has("contact sales"),
             faqOnly |-> Has("FAQ"), license |-> Has("license"), blocked |-> Blocked]
      BY <3>1
    <3> HIDE DEF Has, Blocked
    <3> QED
      BY <3>2, <3>4, <3>5, <3>6 DEF Extracted
  <2>2. TypeOK'
    BY <1>4, <2>1, Defaults DEF Extract, TypeOK, Stages
  <2>3. RowInv'
    BY <1>4, RowInvUnchanged DEF Extract, RowInv
  <2> QED
    BY <1>4, <2>2, <2>3 DEF Extract, CriteriaTellScope, RowInv
<1>5. CASE AssessScope
  <2>1. scope' \in Assessed
    BY <1>5, ScopeType DEF AssessScope, AnyScope, BlankScope, ScopesFor
  <2>2. TypeOK'
    BY <1>5, <2>1 DEF AssessScope, TypeOK, Stages
  <2>3. RowInv'
    BY <1>5, RowInvUnchanged DEF AssessScope, RowInv
  <2> QED
    BY <1>5, <2>2, <2>3 DEF AssessScope, CriteriaTellScope, RowInv
<1>6. CASE ClassifyTaxonomy
  <2>1. uncategorized' \in BOOLEAN
    BY <1>6 DEF ClassifyTaxonomy
  <2>2. TypeOK'
    BY <1>6, <2>1 DEF ClassifyTaxonomy, TypeOK, Stages
  <2>3. RowInv'
    BY <1>6, RowInvUnchanged DEF ClassifyTaxonomy, RowInv
  <2> QED
    BY <1>6, <2>2, <2>3 DEF ClassifyTaxonomy, CriteriaTellScope, RowInv
<1>7. CASE EvaluateCriteria
  <2>1. PICK use \in SUBSET WaysToUse, score \in DescScores :
          criteria' = BuildCriteria(extracted, scope.decision, use, score)
    BY <1>7 DEF EvaluateCriteria
  <2>2. extracted \in Extracted /\ scope.decision \in Scopes /\ score \in 0..1000
    BY DescScoresAssumption DEF TypeOK, Assessed
  <2> DEFINE built == BuildCriteria(extracted, scope.decision, use, score)
  <2>3. /\ built \in [Criteria -> Criterion]
        /\ scope.decision = "non_ai" => \A c \in Criteria : ~built[c].passed
    BY <2>2, BuildCriteriaType, ZenonT(30)
  <2>4. criteria' = built
    BY <2>1
  <2> HIDE DEF built
  <2>5. /\ criteria' \in [Criteria -> Criterion]
        /\ scope.decision = "non_ai" => \A c \in Criteria : ~criteria'[c].passed
    BY <2>3, <2>4
  <2>6. TypeOK'
    BY <1>7, <2>5 DEF EvaluateCriteria, TypeOK, Stages
  <2>7. RowInv'
    BY <1>7, RowInvUnchanged DEF EvaluateCriteria, RowInv
  <2> QED
    BY <1>7, <2>5, <2>6, <2>7 DEF EvaluateCriteria, CriteriaTellScope, RowInv
<1>8. CASE Fail
  <2>1. answer' \in Answer
    BY <1>8 DEF Fail, Answer, Statuses
  <2>2. TypeOK'
    BY <1>8, <2>1, Defaults DEF Fail, Forget, TypeOK, Stages
  <2>3. RowInv'
    BY <1>8, RowInvUnchanged DEF Fail, RowInv
  <2> QED
    BY <1>8, <2>2, <2>3 DEF Fail, CriteriaTellScope, RowInv
<1>9. ASSUME NEW isAi \in BOOLEAN, NEW status \in {"ok", "blocked"}, LlmSaves(isAi, status)
      PROVE  RouteInv'
  <2>1. site' \in Row /\ site'.analyzer = "llm"
    BY <1>9, NoRowType DEF LlmSaves, Row
  <2>2. TypeOK'
    BY <1>9, <2>1, Defaults DEF LlmSaves, TypeOK, found
  <2> QED
    BY <1>9, <2>1, <2>2
       DEF LlmSaves, found, NoVerdict, NoAnswer, CriteriaTellScope, TrustedRowIsClean,
           BlockedRowIsOfRules, ReviewedIsNeverCurated, CuratedIsGrounded, BlockedIsTakenAgain
<1>10. ASSUME NEW status \in MarkStatuses, MarkSite(status)
       PROVE  RouteInv'
  <2>1. status \in {"unreachable", "blocked", "failure"}
    BY MarksAssumption
  <2>2. CASE site.analyzer = "none"
    <3>1. site' \in Row /\ site'.analyzer = "null"
      BY <1>10, <2>1, <2>2, NoRowType DEF MarkSite, Row
    <3>2. TypeOK'
      BY <1>10, <3>1, Defaults DEF MarkSite, TypeOK, found
    <3> QED
      BY <1>10, <2>2, <3>1, <3>2
         DEF MarkSite, found, NoAnswer, CriteriaTellScope, TrustedRowIsClean,
             BlockedRowIsOfRules, ReviewedIsNeverCurated, CuratedIsGrounded,
             BlockedIsTakenAgain
  <2>3. CASE site.analyzer # "none"
    <3>1. /\ site' \in Row /\ site'.analyzer = site.analyzer /\ site'.isAi = site.isAi
          /\ Trustworthy(site') = Trustworthy(site) /\ site'.status = status
      BY <1>10, <2>1, <2>3 DEF MarkSite, TypeOK, Row, Trustworthy
    <3>2. TypeOK'
      BY <1>10, <3>1, Defaults DEF MarkSite, TypeOK, found
    <3>3. TrustedRowIsClean' /\ BlockedRowIsOfRules'
      BY <1>10, <3>1 DEF MarkSite, TrustedRowIsClean, BlockedRowIsOfRules
    <3>4. BlockedIsTakenAgain'
      BY <1>10, <2>1, <3>1 DEF MarkSite, BlockedIsTakenAgain, ServedFromRow
    <3> QED
      BY <1>10, <3>2, <3>3, <3>4
         DEF MarkSite, found, NoAnswer, CriteriaTellScope, ReviewedIsNeverCurated,
             CuratedIsGrounded
  <2> QED
    BY <2>2, <2>3
<1> QED
  BY <1>1, <1>2, <1>3, <1>4, <1>5, <1>6, <1>7, <1>8, <1>9, <1>10

LEMMA RouteStutter == RouteInv /\ UNCHANGED vars => RouteInv'
BY DEF RouteInv, vars, found, TypeOK, CriteriaTellScope, TrustedRowIsClean,
       BlockedRowIsOfRules, ReviewedIsNeverCurated, CuratedIsGrounded, BlockedIsTakenAgain

\* The invariant holds for every choice of pages, keywords, scores and marks,
\* and for any number of evaluations.
THEOREM RouteInvariant == Spec => []RouteInv
<1>1. RouteInv /\ [Next]_vars => RouteInv'
  BY OtherSteps, JudgeStep, RouteStutter DEF Next, Step
<1> QED
  BY <1>1, RouteInit, PTL DEF Spec

\* The types of the route's state.
THEOREM RouteTypes == Spec => []TypeOK
BY RouteInvariant, PTL DEF RouteInv

\* The route never calls a site curated that the rules had put up for review.
THEOREM RouteReviews == Spec => []ReviewedIsNeverCurated
BY RouteInvariant, PTL DEF RouteInv

\* What the pipeline calls curated has documents and a policy.
THEOREM RouteGrounds == Spec => []CuratedIsGrounded
BY RouteInvariant, PTL DEF RouteInv

\* A blocked site is evaluated anew by the next request.
THEOREM RouteRetakesBlocked == Spec => []BlockedIsTakenAgain
BY RouteInvariant, PTL DEF RouteInv
=============================================================================
