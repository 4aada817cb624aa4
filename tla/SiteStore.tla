------------------------------- MODULE SiteStore -------------------------------
(***************************************************************************)
(* One site in the database while several sessions write to it at the same *)
(* time: AIDetector.detect_and_save (db/site_service.py) called by threads *)
(* of a worker, by the single-URL task and by POST /rule/classify          *)
(* (api/rule_routes.py), and mark_site_status (workers/job_status.py).     *)
(*                                                                         *)
(* The transactions are those of PostgreSQL at READ COMMITTED, as the code *)
(* uses them through a session with autoflush off (db/session.py):         *)
(*   - a row is read when it is queried and not read again;                *)
(*   - the DELETE of the categories and that of the tags run at once; the  *)
(*     INSERTs of the categories, the UPDATE of the site and the INSERTs   *)
(*     of the tags run when the session commits, in this order: no         *)
(*     relationship ties the three classes, so that the unit of work sorts *)
(*     them by the names of their tables;                                  *)
(*   - the UPDATE sets only the columns whose new value differs from the   *)
(*     value the session read;                                             *)
(*   - a writer waits for the transaction that holds the row it needs.     *)
(* Categories and tags are called labels here, of the one or other kind.   *)
(* The rows of one kind are inserted in one step.                          *)
(***************************************************************************)
EXTENDS FiniteSets, Functions

CONSTANTS
  Savers,      \* sessions that save an analysis
  Markers,     \* sessions of mark_site_status
  Analysis,    \* what each saver has to save: title, analyzer, status, labels
               \* (each a kind and a name)
  Early,       \* savers that read the site before the analysis begins
  MarkStatus,  \* the status each marker writes
  InitialRows  \* the rows the site may have at first

ASSUME EarlyAssumption == Early \subseteq Savers
ASSUME DisjointAssumption == Savers \cap Markers = {}

Sessions == Savers \cup Markers

NULL   == "null"
Nobody == "nobody"

Kinds       == {"category", "tag"}
Category(n) == [kind |-> "category", name |-> n]
Tag(n)      == [kind |-> "tag", name |-> n]

SiteStatus == {"ok", "unreachable", "blocked", "failure", NULL}

ASSUME NamesAssumption == {NULL, Nobody, "initial"} \cap Sessions = {}
ASSUME AnalysisAssumption ==
  \A x \in Savers : Analysis[x].analyzer \in {"rule", "llm"}
                    /\ Analysis[x].status \in SiteStatus
                    /\ \A v \in Analysis[x].labels : v.kind \in Kinds
ASSUME MarksAssumption == \A x \in Markers : MarkStatus[x] \in SiteStatus

VARIABLES
  row,        \* the committed row of the site
  labels,     \* the committed labels: a value and the session it comes from
  pc,         \* where each session is
  loaded,     \* the row as each session read it
  snapshot,   \* the labels a session's last DELETE saw when it began
  deleted,    \* labels deleted by a transaction that has not ended
  inserted,   \* labels inserted by a transaction that has not ended
  new,        \* the row a transaction has written and not committed
  lock,       \* the transaction that holds the row of the site
  stale       \* did another session commit since this one read the site?

tx   == <<loaded, snapshot, deleted, inserted, new>>
vars == <<row, labels, pc, tx, lock, stale>>

NoRow  == [title |-> NULL, analyzer |-> NULL, status |-> "absent",
           since |-> NULL, last |-> NULL]
Known(r) == r.status # "absent"

Label(value, by) == [value |-> value, by |-> by]
Values(ls) == {l.value : l \in ls}
OfKind(ls, kind) == {l \in ls : l.value.kind = kind}
FirstLabels == {Category("a"), Tag("a")}

Init ==
  /\ row \in InitialRows
  /\ labels = IF row.last = NULL THEN {} ELSE {Label(v, row.last) : v \in FirstLabels}
  /\ pc = [x \in Sessions |-> "start"]
  /\ loaded = [x \in Sessions |-> NoRow]
  /\ snapshot = [x \in Sessions |-> {}]
  /\ deleted = [x \in Sessions |-> {}]
  /\ inserted = [x \in Sessions |-> {}]
  /\ new = [x \in Sessions |-> NoRow]
  /\ lock = Nobody
  /\ stale = [x \in Sessions |-> FALSE]

Go(x, place) == pc' = [pc EXCEPT ![x] = place]

\* The transaction ends without a trace.
Rollback(x) ==
  /\ lock' = IF lock = x THEN Nobody ELSE lock
  /\ new' = [new EXCEPT ![x] = NoRow]
  /\ deleted' = [deleted EXCEPT ![x] = {}]
  /\ inserted' = [inserted EXCEPT ![x] = {}]
  /\ UNCHANGED <<row, labels, loaded, snapshot, stale>>

\* What the fields of _save_site make of a row.
SavedRow(x) ==
  [title |-> Analysis[x].title, analyzer |-> Analysis[x].analyzer,
   status |-> Analysis[x].status, since |-> NULL, last |-> x]

\* What mark_site_status makes of the row it read.
MarkedRow(x) ==
  [loaded[x] EXCEPT
     !.status = MarkStatus[x],
     !.since  = IF MarkStatus[x] = "unreachable" /\ @ = NULL THEN "set" ELSE @]

\* Faulty variant: the UPDATE leaves unreachable_since alone.
WrittenNoReset(r, want, read) ==
  [c \in DOMAIN r |-> IF want[c] # read[c] /\ c # "since" THEN want[c] ELSE r[c]]

\* The UPDATE of a row `r' by a session that read `read' and wants `want'.
Written(r, want, read) ==
  [c \in DOMAIN r |-> IF want[c] # read[c] THEN want[c] ELSE r[c]]

-----------------------------------------------------------------------------
(* Saving an analysis                                                      *)

\* The single-URL task and /rule/classify look at the row first; the latter
\* goes on only if the row is absent or the rules wrote it, and then only if
\* it does not trust that result.
LooksUpFirst(x) == x \in Early

Load(x) ==
  /\ x \in Savers /\ pc[x] = "start" /\ LooksUpFirst(x)
  /\ loaded' = [loaded EXCEPT ![x] = row]
  /\ stale' = [stale EXCEPT ![x] = FALSE]
  /\ \/ /\ Analysis[x].analyzer = "rule" => ~Known(row) \/ row.analyzer = "rule"
        /\ Go(x, "loaded")
     \/ /\ Analysis[x].analyzer = "rule" /\ Known(row)
        /\ Go(x, "cached")
  /\ UNCHANGED <<row, labels, snapshot, deleted, inserted, new, lock>>

\* _save_site queries the row; one the session holds already stays as read.
Find(x) ==
  /\ x \in Savers /\ pc[x] = IF LooksUpFirst(x) THEN "loaded" ELSE "start"
  /\ IF Known(loaded[x]) THEN UNCHANGED <<loaded, stale>>
     ELSE /\ loaded' = [loaded EXCEPT ![x] = row]
          /\ stale' = [stale EXCEPT ![x] = FALSE]
  /\ Go(x, "found")
  /\ UNCHANGED <<row, labels, snapshot, deleted, inserted, new, lock>>

\* Without a row, an INSERT at once; the unique URL refuses the second one.
InsertSite(x) ==
  /\ pc[x] = "found" /\ ~Known(loaded[x]) /\ lock = Nobody
  /\ IF Known(row)
     THEN Go(x, "none") /\ UNCHANGED <<new, lock>>
     ELSE /\ new' = [new EXCEPT ![x] = SavedRow(x)]
          /\ lock' = x /\ Go(x, "known")
  /\ UNCHANGED <<row, labels, loaded, snapshot, deleted, inserted, stale>>

\* Where a session is while the DELETE of a kind runs, after it, before the
\* INSERTs of the kind and after them.
Deleting     == [category |-> "catDeleting", tag |-> "tagDeleting"]
AfterDelete  == [category |-> "catDeleted", tag |-> "deleted"]
BeforeInsert == [category |-> "deleted", tag |-> "updated"]
AfterInsert  == [category |-> "catInserted", tag |-> "flushed"]

\* The DELETE sees the labels of its kind committed when it begins.
DeleteBegins(x, kind) ==
  /\ \/ kind = "category" /\ pc[x] = "found" /\ Known(loaded[x])
     \/ kind = "category" /\ pc[x] = "known"
     \/ kind = "tag" /\ pc[x] = "catDeleted"
  /\ snapshot' = [snapshot EXCEPT ![x] = OfKind(labels, kind)]
  /\ Go(x, Deleting[kind])
  /\ UNCHANGED <<row, labels, loaded, deleted, inserted, new, lock, stale>>

DeletersOf(x) == {y \in Sessions \ {x} : deleted[y] \cap snapshot[x] # {}}

\* It waits for whoever is deleting the same rows, and passes over those that
\* are gone then.
DeleteEnds(x, kind) ==
  /\ pc[x] = Deleting[kind] /\ DeletersOf(x) = {}
  /\ deleted' = [deleted EXCEPT ![x] = @ \cup (snapshot[x] \cap labels)]
  /\ Go(x, AfterDelete[kind])
  /\ UNCHANGED <<row, labels, loaded, snapshot, inserted, new, lock, stale>>

Mine(x) == Analysis[x].labels
MineOf(x, kind) == {v \in Mine(x) : v.kind = kind}
RivalsOf(x, kind) ==
  {y \in Sessions \ {x} :
     Values(inserted[y] \cup deleted[y]) \cap MineOf(x, kind) # {}}
Refused(x, kind) == Values(labels \ deleted[x]) \cap MineOf(x, kind) # {}

\* Faulty variant: the labels of a kind are committed before the rest.
InsertLabelsAtOnce(x, kind) ==
  /\ pc[x] = BeforeInsert[kind] /\ RivalsOf(x, kind) = {} /\ ~Refused(x, kind)
  /\ labels' = labels \cup {Label(v, x) : v \in MineOf(x, kind)}
  /\ Go(x, AfterInsert[kind])
  /\ UNCHANGED <<row, loaded, snapshot, deleted, inserted, new, lock, stale>>

\* Faulty variant: the transaction is left open when a label is refused.
InsertLabelsNoRollback(x, kind) ==
  /\ pc[x] = BeforeInsert[kind] /\ RivalsOf(x, kind) = {}
  /\ IF Refused(x, kind)
     THEN Go(x, "none") /\ UNCHANGED inserted
     ELSE /\ inserted' = [inserted EXCEPT
                            ![x] = @ \cup {Label(v, x) : v \in MineOf(x, kind)}]
          /\ Go(x, AfterInsert[kind])
  /\ UNCHANGED <<row, labels, loaded, snapshot, deleted, new, lock, stale>>

\* The commit flushes: the categories before the row of the site, the tags
\* after it.  The unique constraint of a kind waits for a transaction that has
\* inserted or deleted an equal label, and refuses a committed one.
InsertLabels(x, kind) ==
  /\ pc[x] = BeforeInsert[kind] /\ RivalsOf(x, kind) = {}
  /\ IF Refused(x, kind)
     THEN Rollback(x) /\ Go(x, "none")
     ELSE /\ inserted' = [inserted EXCEPT
                            ![x] = @ \cup {Label(v, x) : v \in MineOf(x, kind)}]
          /\ Go(x, AfterInsert[kind])
          /\ UNCHANGED <<row, labels, loaded, snapshot, deleted, new, lock, stale>>

\* Faulty variant: _save_site commits the row by itself.
UpdateSiteCommits(x) ==
  /\ pc[x] = "catInserted"
  /\ \/ lock = x /\ UNCHANGED <<row, new, lock>>
     \/ /\ lock = Nobody /\ lock' = x
        /\ new' = [new EXCEPT ![x] = Written(row, SavedRow(x), loaded[x])]
        /\ row' = new'[x]
  /\ Go(x, "updated")
  /\ UNCHANGED <<labels, loaded, snapshot, deleted, inserted, stale>>

UpdateSite(x) ==
  /\ pc[x] = "catInserted"
  /\ \/ lock = x /\ UNCHANGED <<new, lock>>
     \/ /\ lock = Nobody /\ lock' = x
        /\ new' = [new EXCEPT ![x] = Written(row, SavedRow(x), loaded[x])]
  /\ Go(x, "updated")
  /\ UNCHANGED <<row, labels, loaded, snapshot, deleted, inserted, stale>>

Commit(x) ==
  /\ pc[x] = "flushed"
  /\ row' = new[x]
  /\ labels' = (labels \ deleted[x]) \cup inserted[x]
  /\ new' = [new EXCEPT ![x] = NoRow]
  /\ deleted' = [deleted EXCEPT ![x] = {}]
  /\ inserted' = [inserted EXCEPT ![x] = {}]
  /\ lock' = Nobody
  /\ stale' = [y \in Sessions |-> IF y = x THEN stale[x] ELSE TRUE]
  /\ Go(x, "saved")
  /\ UNCHANGED <<loaded, snapshot>>

-----------------------------------------------------------------------------
(* mark_site_status                                                        *)

MarkLoad(x) ==
  /\ x \in Markers /\ pc[x] = "start"
  /\ loaded' = [loaded EXCEPT ![x] = row]
  /\ stale' = [stale EXCEPT ![x] = FALSE]
  /\ Go(x, "marking")
  /\ UNCHANGED <<row, labels, snapshot, deleted, inserted, new, lock>>

\* One statement and the commit: an INSERT, refused if another session has
\* inserted the site, or an UPDATE, unless nothing changes.
MarkCommit(x) ==
  /\ pc[x] = "marking"
  /\ lock = Nobody \/ MarkedRow(x) = loaded[x]
  /\ IF ~Known(loaded[x]) /\ Known(row)
     THEN Go(x, "raised") /\ UNCHANGED <<row, stale>>
     ELSE /\ Go(x, "marked")
          /\ row' = Written(row, MarkedRow(x), loaded[x])
          /\ stale' = [y \in Sessions |-> IF y = x THEN stale[x] ELSE TRUE]
  /\ UNCHANGED <<labels, tx, lock>>

-----------------------------------------------------------------------------
(* Waiting and failing                                                     *)

Over == {"saved", "none", "cached", "marked", "raised"}

WaitsFor(x) ==
  CASE pc[x] = "found" /\ ~Known(loaded[x])                -> {lock} \ {Nobody}
    [] pc[x] \in {"catDeleting", "tagDeleting"}            -> DeletersOf(x)
    [] pc[x] = "deleted"                                   -> RivalsOf(x, "category")
    [] pc[x] = "catInserted"                               -> {lock} \ {Nobody, x}
    [] pc[x] = "updated"                                   -> RivalsOf(x, "tag")
    [] pc[x] = "marking" /\ MarkedRow(x) # loaded[x]       -> {lock} \ {Nobody}
    [] OTHER                                               -> {}

Deadlocked(x) ==
  \E cycle \in SUBSET Sessions :
    x \in cycle /\ \A y \in cycle : WaitsFor(y) \cap cycle # {}

\* The database ends one transaction of a deadlock.
BreakDeadlock(x) ==
  /\ Deadlocked(x)
  /\ Rollback(x) /\ Go(x, IF x \in Savers THEN "none" ELSE "raised")

\* A saver's transaction fails: the connection, a constraint, a time limit.
Fail(x) ==
  /\ x \in Savers /\ pc[x] \notin Over \cup {"start"}
  /\ Rollback(x) /\ Go(x, "none")

Step(x) ==
  \/ Load(x) \/ Find(x) \/ InsertSite(x)
  \/ \E kind \in Kinds :
       DeleteBegins(x, kind) \/ DeleteEnds(x, kind) \/ InsertLabels(x, kind)
  \/ UpdateSite(x) \/ Commit(x)
  \/ MarkLoad(x) \/ MarkCommit(x)

Next == \E x \in Sessions : Step(x) \/ BreakDeadlock(x) \/ Fail(x)

Spec == Init /\ [][Next]_vars

\* Every session goes on with its statements, and the database detects
\* deadlocks.
FairSpec == Spec /\ \A x \in Sessions : WF_vars(Step(x) \/ BreakDeadlock(x))

-----------------------------------------------------------------------------
Titles    == {NULL, "initial"} \cup {Analysis[x].title : x \in Savers}
Writers   == Savers \cup {"initial"}
Row == [title : Titles, analyzer : {NULL, "rule", "llm"},
        status : {"absent"} \cup SiteStatus,
        since : {NULL, "set"}, last : {NULL} \cup Writers]
AllLabels == {Label(v, x) : v \in FirstLabels \cup UNION {Mine(x) : x \in Savers},
                            x \in Writers}
\* The rows of the table before the sessions: written by nobody they know.
ASSUME RowsAssumption ==
  \A r \in InitialRows :
    r \in Row /\ r.last \notin Savers /\ (Known(r) \/ r = NoRow)

Place == {"start", "loaded", "found", "known", "catDeleting", "catDeleted",
          "tagDeleting", "deleted", "catInserted", "updated", "flushed",
          "marking"} \cup Over

TypeOK ==
  /\ row \in Row /\ labels \subseteq AllLabels
  /\ pc \in [Sessions -> Place]
  /\ loaded \in [Sessions -> Row] /\ new \in [Sessions -> Row]
  /\ snapshot \in [Sessions -> SUBSET AllLabels]
  /\ deleted \in [Sessions -> SUBSET labels]
  /\ inserted \in [Sessions -> SUBSET AllLabels]
  /\ lock \in Sessions \cup {Nobody}
  /\ stale \in [Sessions -> BOOLEAN]

\* Whatever else two saves mix up, the analysis whose last_analyzed_at stands
\* in the row has all its categories and tags in the table: a save that was
\* overtaken cannot take away what the overtaker stored.
LastAnalysisComplete ==
  row.last \in Savers => Mine(row.last) \subseteq Values(labels)

\* A transaction that failed leaves nothing behind: labels come from analyses
\* that were reported as saved, or were there before.
LabelsAreOfSaved ==
  \A l \in labels : l.by \in Savers => pc[l.by] = "saved"

\* A save that nobody overtook replaces the row, the TTL mark and the labels
\* as a whole.
AloneReplacesAll ==
  [][\A x \in Savers :
       pc[x] = "flushed" /\ pc'[x] = "saved" /\ ~stale[x]
         => row' = SavedRow(x) /\ Values(labels') = Mine(x)]_vars

\* Every session ends.  Three saves of one site can wait for each other in a
\* circle (one holds the row and wants to insert a label the next is deleting,
\* which wants the row), and it takes the database to end it.
SessionsEnd == \A x \in Sessions : <>(pc[x] \in Over)

\* The statement x has come to does not have to wait.
CanGo(x) ==
  \/ pc[x] \in {"start", "loaded", "known", "catDeleted", "flushed"}
  \/ pc[x] = "found" /\ (Known(loaded[x]) \/ lock = Nobody)
  \/ pc[x] \in {"catDeleting", "tagDeleting"} /\ DeletersOf(x) = {}
  \/ pc[x] = "deleted" /\ RivalsOf(x, "category") = {}
  \/ pc[x] = "catInserted" /\ lock \in {x, Nobody}
  \/ pc[x] = "updated" /\ RivalsOf(x, "tag") = {}
  \/ pc[x] = "marking" /\ (lock = Nobody \/ MarkedRow(x) = loaded[x])

\* While a session is not through, one can go on or the database has a deadlock
\* to end: none waits for a transaction that is over, and a circle of waits is
\* one the detector finds.
NobodyStalls ==
  (\E x \in Sessions : pc[x] \notin Over)
    => \E x \in Sessions : CanGo(x) \/ Deadlocked(x)

\* How far a session has come.
Rank(place) ==
  CASE place = "start"                  -> 0
    [] place \in {"loaded", "marking"}  -> 1
    [] place = "found"                  -> 2
    [] place = "known"                  -> 3
    [] place = "catDeleting"            -> 4
    [] place = "catDeleted"             -> 5
    [] place = "tagDeleting"            -> 6
    [] place = "deleted"                -> 7
    [] place = "catInserted"            -> 8
    [] place = "updated"                -> 9
    [] place = "flushed"                -> 10
    [] OTHER                            -> 11

\* Every step takes one session further and leaves the others where they are:
\* nothing is tried again, so there is an end to the waiting.
OneAdvances ==
  [][\E x \in Sessions : /\ Rank(pc'[x]) > Rank(pc[x])
                         /\ \A y \in Sessions \ {x} : pc'[y] = pc[y]]_vars

-----------------------------------------------------------------------------
(* What the documents say and the code does not do.                        *)

\* site_service.py, _save_categories_and_tags: all labels are deleted, then
\* the analysis' own are stored.
SaveReplacesLabels ==
  [][\A x \in Savers :
       pc[x] = "flushed" /\ pc'[x] = "saved" => Values(labels') = Mine(x)]_vars

\* rule_routes.py: with a result of the language model in the table it is
\* returned, and the rules do not run.
LlmResultIsKept ==
  [][row.analyzer = "llm" => row'.analyzer # "rule"]_row

\* ai_site.py, unreachable_since: NULL means the site can be reached.
NullMeansReachable ==
  row.status = "unreachable" => row.since # NULL
=============================================================================
