----------------------------- MODULE SiteRecord -----------------------------
(***************************************************************************)
(* A row of ai_site as the workers see it: its status, who analysed it and *)
(* how long it has been unreachable (db/models/ai_site.py), with the       *)
(* predicates and updates of workers/job_status.py and                     *)
(* workers/bulk_preflight.py.                                              *)
(*                                                                         *)
(* `since' stands for unreachable_since: NULL, "within" the TTL of seven   *)
(* days or "past" it.  An absent row has status "absent".                  *)
(***************************************************************************)

NULL == "null"

Site == [status   : {"absent", "ok", "unreachable", "blocked", "failure", NULL},
         analyzer : {NULL, "rule", "llm"},
         since    : {NULL, "within", "past"}]

NoSite == [status |-> "absent", analyzer |-> NULL, since |-> NULL]
Exists(site) == site.status # "absent"

\* An analysis by a language model that ended with the site open to crawlers.
Complete(site) == site.analyzer = "llm" /\ site.status = "ok"

IsUnreachableBlocked(site) == site.status = "unreachable" /\ site.since = "within"

\* PostgreSQL gives back a timestamp with a zone, and the comparison subtracts
\* it from one without: TypeError.  SQLite gives it back without.
TtlCheckRaises(site, aware) ==
  aware /\ site.status = "unreachable" /\ site.since # NULL

IsFailedAnalysis(site) == site.status \in {"failure", "blocked"}

\* Faulty variant: every mark of an unreachable site restarts its TTL.
MarkRestart(site, status) ==
  [status   |-> status,
   analyzer |-> site.analyzer,
   since    |-> IF status = "unreachable" THEN "within" ELSE site.since]

\* mark_site_status: the first time a site is found unreachable is kept, and
\* kept as well when the status moves on to something else.
Mark(site, status) ==
  [status   |-> status,
   analyzer |-> site.analyzer,
   since    |-> IF status = "unreachable" /\ site.since = NULL
                THEN "within" ELSE site.since]

\* AIDetector._save_site: an analysis overwrites the row and ends the TTL.
Saved(status, analyzer) ==
  [status |-> status, analyzer |-> analyzer, since |-> NULL]

Expired(site) == [site EXCEPT !.since = "past"]
=============================================================================
