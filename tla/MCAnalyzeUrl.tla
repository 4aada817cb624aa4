----------------------------- MODULE MCAnalyzeUrl -----------------------------
(***************************************************************************)
(* Instances of AnalyzeUrl: two jobs for one site, so that the marks of    *)
(* one meet the analysis of the other, with one retry each.                *)
(***************************************************************************)
EXTENDS AnalyzeUrl, TLC

CONSTANTS j1, j2

Row(status, analyzer, since) ==
  [status |-> status, analyzer |-> analyzer, since |-> since]

MCSites ==
  {NoSite, Row("ok", "llm", NULL), Row("ok", "rule", NULL),
   Row("unreachable", NULL, "within"), Row("unreachable", "llm", "past"),
   Row("failure", NULL, NULL), Row("unreachable", "llm", NULL)}

Everywhere == Running

Nowhere == {}

=============================================================================
