------------------------------ MODULE MCSiteStore ------------------------------
(***************************************************************************)
(* Instances of SiteStore: a classification by rules that read the row     *)
(* early, a worker thread, the single-URL task and a mark.  The analyses   *)
(* share a title, a category or a tag in pairs, so that an equal value can *)
(* hide a change and collide in the unique constraint of either kind.      *)
(***************************************************************************)
EXTENDS SiteStore

Result(title, analyzer, status, ls) ==
  [title |-> title, analyzer |-> analyzer, status |-> status, labels |-> ls]

Analyses ==
  [rule   |-> Result("t", "rule", "ok", {Category("a"), Tag("a")}),
   thread |-> Result("u", "llm", "ok", {Category("a"), Tag("b")}),
   single |-> Result("t", "llm", "blocked", {Category("c"), Tag("b")})]

Two   == {"rule", "thread"}
Pair  == {"rule", "single"}
Three == {"rule", "thread", "single"}

MCAnalysis(s) == [x \in s |-> Analyses[x]]
AnalysisOfTwo   == MCAnalysis(Two)
AnalysisOfPair  == MCAnalysis(Pair)
AnalysisOfThree == MCAnalysis(Three)
EarlyOfTwo   == {"rule"}
EarlyOfPair  == Pair
EarlyOfThree == {"rule", "single"}
Marks == [mark |-> "unreachable"]
NoMarks == [x \in {} |-> NULL]

Rows ==
  {NoRow,
   [title |-> "initial", analyzer |-> "rule", status |-> "ok", since |-> NULL,
    last |-> "initial"],
   [title |-> NULL, analyzer |-> NULL, status |-> "failure", since |-> "set",
    last |-> NULL],
   [title |-> "initial", analyzer |-> "llm", status |-> "unreachable",
    since |-> "set", last |-> "initial"]}
=============================================================================
