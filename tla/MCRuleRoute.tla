----------------------------- MODULE MCRuleRoute -----------------------------
(***************************************************************************)
(* Instances of RuleRoute.  The counts of keywords reach past every bound  *)
(* of the gate, the candidate pages both sides of the share that counts as *)
(* a mass of refusals, and the scores of a description both thresholds and *)
(* the values just short of them.                                          *)
(***************************************************************************)
EXTENDS RuleRoute

MCKeywordHits ==
  {h \in [strong : 0..2, weak : 0..3, nonStrong : 0..3, nonWeak : 0..2, explicit : BOOLEAN] :
     h.explicit => h.weak > 0}

MCOtherPages ==
  {[ok |-> o, denied |-> d, failed |-> f] :
     <<o, d, f>> \in {<<0, 0, 0>>, <<1, 3, 1>>, <<2, 2, 0>>, <<0, 3, 0>>, <<0, 4, 0>>}}

MCDescScores == {100, 549, 550, 749, 750, 1000}

MCCategoryHits == [body : 0..1, header : 0..1, links : 0..2]

\* No row, a row of the rules without the columns, one a worker marked, and
\* one of the language model.
MCRows ==
  {NoRow,
   [NoRow EXCEPT !.analyzer = "rule", !.status = "ok", !.isAi = TRUE],
   [NoRow EXCEPT !.analyzer = "null", !.status = "unreachable"],
   [NoRow EXCEPT !.analyzer = "llm", !.status = "ok", !.isAi = TRUE]}
=============================================================================
