------------------------------ MODULE MCBatchFlow ------------------------------
(***************************************************************************)
(* Instances of BatchFlow: two requests that share a URL, a pool smaller   *)
(* than a batch.                                                           *)
(***************************************************************************)
EXTENDS BatchFlow, TLC

CONSTANTS a, b

Row(status, analyzer, since) ==
  [status |-> status, analyzer |-> analyzer, since |-> since]

Fresh == {NoSite}
Ruled == {Row("ok", "rule", NULL)}
Table == {NoSite, Row("ok", "rule", NULL), Row("ok", "llm", NULL),
          Row("unreachable", NULL, "within")}

Distinct == {<<a>>, <<a, b>>}
Repeated == {<<a, a>>}
Either   == Distinct \cup Repeated
===========================================================================
