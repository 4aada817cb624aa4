------------------------------ MODULE MCBulkTask ------------------------------
(***************************************************************************)
(* Instances of BulkTask: three URLs at most and a window of two, so that  *)
(* one URL waits while two are in flight and the quota can end the run     *)
(* with a URL not yet submitted.                                           *)
(***************************************************************************)
EXTENDS BulkTask, TLC

CONSTANTS a, b, c

\* The rows a table can hold: analysed, ruled, marked without an analysis,
\* and marked after one.
Row(status, analyzer, since) ==
  [status |-> status, analyzer |-> analyzer, since |-> since]

Fresh == {NoSite}
Known == {NoSite, Row("ok", "llm", NULL), Row("unreachable", NULL, "within")}
Table == Known \cup
  {Row("ok", "rule", NULL), Row("blocked", "llm", NULL),
   Row("unreachable", "llm", "past"), Row(NULL, NULL, NULL)}

Distinct == {<<a, b, c>>}
Repeated == {<<a, b, a>>}
Pairs    == {<<a, b>>}
Mixed    == {<<>>, <<a, b>>, <<a, a>>, <<a, b, c>>}
===========================================================================
