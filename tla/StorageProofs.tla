----------------------------- MODULE StorageProofs -----------------------------
(***************************************************************************)
(* Proofs about the two places an analysis is stored: the row of its site  *)
(* with its labels (SiteStore), and the file of its batch (ResultFile).    *)
(*                                                                         *)
(* SiteStore, for any sessions, analyses and initial rows.  The order of   *)
(* the statements is what saves the labels: whoever deletes waits for      *)
(* those that delete the same labels, whoever commits holds the row of the *)
(* site, and a session learns of a commit it did not see only through the  *)
(* history variable `stale'.                                               *)
(*                                                                         *)
(* ResultFile, for any sources, cap, number of tasks and seconds.  A task  *)
(* puts its entries one by one into the array it has read; the entry that  *)
(* stands for a link is the last one put, everything of other links stays, *)
(* and the file is its own as long as no other task has its second.        *)
(***************************************************************************)
EXTENDS SiteStore, ResultFile, TLAPS, FiniteSetTheorems, SequenceTheorems

-----------------------------------------------------------------------------
(* Rows                                                                    *)

Columns == {"title", "analyzer", "status", "since", "last"}

LEMMA RowIff ==
  ASSUME NEW r
  PROVE  r \in Row <=>
           /\ r = [title |-> r["title"], analyzer |-> r["analyzer"],
                   status |-> r["status"], since |-> r["since"], last |-> r["last"]]
           /\ r["title"] \in Titles
           /\ r["analyzer"] \in {NULL, "rule", "llm"}
           /\ r["status"] \in {"absent"} \cup SiteStatus
           /\ r["since"] \in {NULL, "set"}
           /\ r["last"] \in {NULL} \cup Writers
BY DEF Row

LEMMA RowColumns == ASSUME NEW r \in Row PROVE DOMAIN r = Columns
BY DEF Row, Columns

LEMMA RowsEqual ==
  ASSUME NEW r, NEW s \in Row, DOMAIN r = Columns, r = [c \in Columns |-> r[c]],
         \A c \in Columns : r[c] = s[c]
  PROVE  r = s
<1>1. s = [title |-> s["title"], analyzer |-> s["analyzer"], status |-> s["status"],
           since |-> s["since"], last |-> s["last"]]
  BY RowIff
<1>2. r = [title |-> r["title"], analyzer |-> r["analyzer"], status |-> r["status"],
           since |-> r["since"], last |-> r["last"]]
  BY DEF Columns
<1> QED BY <1>1, <1>2 DEF Columns

\* The UPDATE writes a row of the table.
LEMMA WrittenType ==
  ASSUME NEW r \in Row, NEW want \in Row, NEW read \in Row
  PROVE  Written(r, want, read) \in Row
<1> DEFINE w == Written(r, want, read)
<1>1. DOMAIN w = Columns /\ w = [c \in Columns |-> w[c]]
  BY RowColumns DEF Written
<1>2. \A c \in Columns : w[c] = want[c] \/ w[c] = r[c]
  BY RowColumns DEF Written
<1> HIDE DEF w
<1>3. w = [title |-> w["title"], analyzer |-> w["analyzer"],
           status |-> w["status"], since |-> w["since"], last |-> w["last"]]
  BY <1>1 DEF Columns
<1> QED BY <1>2, <1>3, RowIff DEF Columns, w

\* A column whose value the session has not changed keeps what is committed,
\* one it has changed gets its value.
LEMMA WrittenLast ==
  ASSUME NEW r \in Row, NEW want \in Row, NEW read \in Row
  PROVE  Written(r, want, read).last
           = IF want.last # read.last THEN want.last ELSE r.last
BY RowColumns DEF Written, Columns

\* A session that read the committed row writes the row it wants.
LEMMA WrittenFresh ==
  ASSUME NEW r \in Row, NEW want \in Row
  PROVE  Written(r, want, r) = want
<1> DEFINE w == Written(r, want, r)
<1>1. DOMAIN w = Columns /\ w = [c \in Columns |-> w[c]]
  BY RowColumns DEF Written
<1>2. \A c \in Columns : w[c] = want[c]
  BY RowColumns DEF Written
<1> QED BY <1>1, <1>2, RowsEqual

LEMMA NoRowType == NoRow \in Row
BY DEF NoRow, Row, Titles

LEMMA SavedRowType ==
  ASSUME NEW x \in Savers
  PROVE  SavedRow(x) \in Row /\ SavedRow(x).last = x
<1>1. Analysis[x].title \in Titles
  BY DEF Titles
<1>2. Analysis[x].analyzer \in {"rule", "llm"} /\ Analysis[x].status \in SiteStatus
  BY AnalysisAssumption
<1> QED BY <1>1, <1>2 DEF SavedRow, Row, Writers

LEMMA MarkedRowType ==
  ASSUME NEW x \in Markers, loaded[x] \in Row
  PROVE  MarkedRow(x) \in Row /\ MarkedRow(x).last = loaded[x].last
<1>1. MarkStatus[x] \in SiteStatus
  BY MarksAssumption
<1> QED BY <1>1 DEF MarkedRow, Row

-----------------------------------------------------------------------------
(* The inductive invariant                                                 *)

Emptying == {"catDeleted", "tagDeleting", "deleted", "catInserted", "updated", "flushed"}
Holding  == {"known", "catDeleting"} \cup Emptying
Reading  == {"loaded", "found"} \cup Holding

\* What a session that nobody overtook knows.
Fresh(x) ==
  /\ pc[x] \in Reading => loaded[x] = row
  /\ lock = x => new[x] = SavedRow(x)
  /\ pc[x] = "catDeleting" => snapshot[x] = OfKind(labels, "category")
  /\ pc[x] = "tagDeleting" => snapshot[x] = OfKind(labels, "tag")
  /\ pc[x] \in {"catDeleted", "tagDeleting"} => deleted[x] = OfKind(labels, "category")
  /\ pc[x] \in {"deleted", "catInserted", "updated", "flushed"} => deleted[x] = labels

OwnLabels(x) == {Label(v, x) : v \in Mine(x)}
OwnOf(x, kind) == {Label(v, x) : v \in MineOf(x, kind)}

Belongs(x)  == /\ pc[x] \in Reading \cup {"saved"} => x \in Savers
               /\ pc[x] = "marking" => x \in Markers
Deletes(x)  == pc[x] \notin Emptying => deleted[x] = {}
Inserts(x)  ==
  inserted[x] = IF pc[x] = "flushed" THEN OwnLabels(x)
                ELSE IF pc[x] \in {"catInserted", "updated"} THEN OwnOf(x, "category")
                ELSE {}
HoldsRow(x) == lock = x => pc[x] \in Holding /\ new[x].last = x
NeedsRow(x) == pc[x] \in {"known", "updated", "flushed"} => lock = x
Loads(x)    == /\ pc[x] = "start" => loaded[x] = NoRow
               /\ loaded[x].last \in Savers => pc[loaded[x].last] = "saved"

SessionInv(x) ==
  /\ Belongs(x) /\ Deletes(x) /\ Inserts(x)
  /\ HoldsRow(x) /\ NeedsRow(x) /\ Loads(x)
  /\ ~stale[x] => Fresh(x)

\* No label is deleted by two transactions: a committed DELETE would take away
\* from under the other what it has to delete.
DeletedOnce ==
  \A x, y \in Sessions : x # y => deleted[x] \cap deleted[y] = {}

TableInv ==
  /\ row.last \in Savers => pc[row.last] = "saved"
  /\ LastAnalysisComplete
  /\ LabelsAreOfSaved

SaveInv ==
  /\ TypeOK
  /\ \A x \in Sessions : SessionInv(x)
  /\ DeletedOnce
  /\ TableInv

\* What a step of x leaves to the other sessions: what they read, deleted and
\* wrote, their lock, and that a session that has saved has saved.
Frame(x) ==
  /\ \A y \in Sessions \ {x} :
       /\ pc'[y] = pc[y] /\ loaded'[y] = loaded[y] /\ snapshot'[y] = snapshot[y]
       /\ deleted'[y] = deleted[y] /\ inserted'[y] = inserted[y]
       /\ new'[y] = new[y]
       /\ lock' = y <=> lock = y
  /\ pc[x] # "saved"

\* The session overtaken knows it, or there is nothing to know.
Overtakes(x) ==
  \A y \in Sessions \ {x} :
    stale'[y] \/ (stale'[y] = stale[y] /\ row' = row /\ labels' = labels)

LEMMA OthersKeep ==
  ASSUME NEW x \in Sessions, NEW y \in Sessions \ {x}, SessionInv(y),
         Frame(x), Overtakes(x)
  PROVE  SessionInv(y)'
<1>1. /\ pc'[y] = pc[y] /\ loaded'[y] = loaded[y] /\ snapshot'[y] = snapshot[y]
      /\ deleted'[y] = deleted[y] /\ inserted'[y] = inserted[y]
      /\ new'[y] = new[y]
      /\ lock' = y <=> lock = y
  BY DEF Frame
<1>2. Belongs(y)' /\ Deletes(y)'
  BY <1>1 DEF SessionInv, Belongs, Deletes
<1>3. Inserts(y)'
  BY <1>1 DEF SessionInv, Inserts, OwnLabels, OwnOf, MineOf, Mine, Label
<1>4. HoldsRow(y)' /\ NeedsRow(y)'
  BY <1>1 DEF SessionInv, HoldsRow, NeedsRow
<1>5. Loads(y)'
  <2>1. \A z \in Savers : pc[z] = "saved" => pc'[z] = "saved"
    BY DEF Frame, Sessions
  <2> QED BY <1>1, <2>1 DEF SessionInv, Loads
<1>6. ~stale'[y] => Fresh(y)'
  <2> SUFFICES ASSUME ~stale'[y] PROVE Fresh(y)'
    OBVIOUS
  <2>1. ~stale[y] /\ row' = row /\ labels' = labels
    BY DEF Overtakes
  <2>2. SavedRow(y)' = SavedRow(y)
    BY DEF SavedRow
  <2> QED BY <1>1, <2>1, <2>2 DEF SessionInv, Fresh, OfKind
<1> QED BY <1>2, <1>3, <1>4, <1>5, <1>6 DEF SessionInv

\* A step that leaves the table alone.
LEMMA TableKept ==
  ASSUME TableInv, row' = row, labels' = labels,
         \A z \in Savers : pc[z] = "saved" => pc'[z] = "saved"
  PROVE  TableInv'
BY DEF TableInv, LastAnalysisComplete, LabelsAreOfSaved, Values, Mine

LEMMA DeletedKept ==
  ASSUME NEW x \in Sessions, DeletedOnce, deleted \in [Sessions -> SUBSET labels],
         Frame(x), deleted'[x] \in {{}, deleted[x]}
  PROVE  DeletedOnce'
BY DEF DeletedOnce, Frame

LEMMA StepKeeps ==
  ASSUME SaveInv, NEW x \in Sessions, Frame(x), Overtakes(x),
         TypeOK', SessionInv(x)', DeletedOnce', TableInv'
  PROVE  SaveInv'
<1>1. \A y \in Sessions \ {x} : SessionInv(y)'
  BY OthersKeep DEF SaveInv
<1> QED BY <1>1 DEF SaveInv

\* A step that leaves the table alone and deletes nothing, or gives it up.
LEMMA QuietStepKeeps ==
  ASSUME SaveInv, NEW x \in Sessions, Frame(x), row' = row, labels' = labels,
         \A y \in Sessions \ {x} : stale'[y] = stale[y],
         deleted'[x] \in {{}, deleted[x]},
         TypeOK', SessionInv(x)'
  PROVE  SaveInv'
<1>1. Overtakes(x)
  BY DEF Overtakes
<1>2. \A z \in Savers : pc[z] = "saved" => pc'[z] = "saved"
  BY DEF Frame, Sessions
<1>3. TableInv'
  BY <1>2, TableKept DEF SaveInv
<1>4. DeletedOnce'
  BY DeletedKept DEF SaveInv, TypeOK
<1> QED BY <1>1, <1>3, <1>4, StepKeeps

-----------------------------------------------------------------------------
(* The actions                                                             *)

LEMMA NamesApart ==
  ASSUME NEW x \in Sessions
  PROVE  x # NULL /\ x # Nobody /\ x # "initial"
BY NamesAssumption

\* What the three actions that read the row have in common.
LEMMA ReadKeeps ==
  ASSUME SaveInv, NEW x \in Sessions, NEW place \in {"loaded", "cached", "found", "marking"},
         pc[x] \in {"start", "loaded"},
         place \in {"loaded", "found"} => x \in Savers,
         place = "marking" => x \in Markers,
         loaded' = [loaded EXCEPT ![x] = row],
         stale' = [stale EXCEPT ![x] = FALSE],
         Go(x, place),
         UNCHANGED <<row, labels, snapshot, deleted, inserted, new, lock>>
  PROVE  SaveInv'
<1>1. TypeOK'
  BY DEF SaveInv, TypeOK, Go, Place, Over
<1>2. Frame(x)
  BY DEF SaveInv, TypeOK, Go, Frame
<1>3. pc'[x] = place /\ loaded'[x] = row /\ deleted'[x] = deleted[x]
      /\ inserted'[x] = inserted[x]
  BY DEF SaveInv, TypeOK, Go
<1>4. SessionInv(x) /\ TableInv
  BY DEF SaveInv
<1>5. lock # x
  BY <1>4 DEF SessionInv, HoldsRow, Holding, Emptying
<1>6. SessionInv(x)'
  <2>1. Belongs(x)' /\ Deletes(x)' /\ HoldsRow(x)' /\ NeedsRow(x)'
    BY <1>3, <1>4, <1>5
    DEF SessionInv, Belongs, Deletes, HoldsRow, NeedsRow, Reading, Holding, Emptying
  <2>2. Inserts(x)'
    BY <1>3, <1>4 DEF SessionInv, Inserts
  <2>3. Loads(x)'
    <3>1. \A z \in Savers : pc[z] = "saved" => pc'[z] = "saved"
      BY <1>2 DEF Frame, Sessions
    <3> QED BY <1>3, <1>4, <3>1 DEF Loads, TableInv
  <2>4. Fresh(x)'
    BY <1>3, <1>5 DEF Fresh, Emptying
  <2> QED BY <2>1, <2>2, <2>3, <2>4 DEF SessionInv
<1>7. \A y \in Sessions \ {x} : stale'[y] = stale[y]
  BY DEF SaveInv, TypeOK
<1> QED BY <1>1, <1>2, <1>3, <1>6, <1>7, QuietStepKeeps

LEMMA LoadKeeps ==
  ASSUME SaveInv, NEW x \in Sessions, Load(x)
  PROVE  SaveInv'
<1>1. CASE Go(x, "loaded")
  BY <1>1, ReadKeeps DEF Load
<1>2. CASE Go(x, "cached")
  BY <1>2, ReadKeeps DEF Load
<1> QED BY <1>1, <1>2 DEF Load

LEMMA MarkLoadKeeps ==
  ASSUME SaveInv, NEW x \in Sessions, MarkLoad(x)
  PROVE  SaveInv'
BY ReadKeeps DEF MarkLoad

LEMMA FindKeeps ==
  ASSUME SaveInv, NEW x \in Sessions, Find(x)
  PROVE  SaveInv'
<1>1. pc[x] \in {"start", "loaded"} /\ x \in Savers /\ Go(x, "found")
  BY DEF Find
<1>2. CASE ~Known(loaded[x])
  BY <1>1, <1>2, ReadKeeps DEF Find
<1>3. CASE Known(loaded[x])
  <2>1. UNCHANGED <<row, labels, loaded, snapshot, deleted, inserted, new, lock, stale>>
    BY <1>3 DEF Find
  <2>2. pc[x] = "loaded"
    BY <1>1, <1>3 DEF SaveInv, SessionInv, Loads, Known, NoRow
  <2>3. pc' = [pc EXCEPT ![x] = "found"] /\ pc'[x] = "found"
    BY <1>1 DEF Go, SaveInv, TypeOK
  <2>4. TypeOK' /\ Frame(x)
    BY <2>1, <2>2, <2>3 DEF SaveInv, TypeOK, Frame, Place
  <2>5. SessionInv(x)'
    <3>1. SessionInv(x)
      BY DEF SaveInv
    <3>2. lock # x
      BY <2>2, <3>1 DEF SessionInv, HoldsRow, Holding, Emptying
    <3>3. Belongs(x)' /\ Deletes(x)' /\ HoldsRow(x)' /\ NeedsRow(x)' /\ Inserts(x)'
      BY <1>1, <2>1, <2>2, <2>3, <3>1, <3>2
      DEF SessionInv, Belongs, Deletes, HoldsRow, NeedsRow, Inserts, Emptying
    <3>4. Loads(x)'
      BY <2>1, <2>2, <2>3, <2>4, <3>1 DEF SessionInv, Loads, Frame, Sessions
    <3>5. ~stale'[x] => Fresh(x)'
      BY <2>1, <2>2, <2>3, <3>1, <3>2 DEF SessionInv, Fresh, Reading, Holding, Emptying
    <3> QED BY <3>3, <3>4, <3>5 DEF SessionInv
  <2> QED BY <2>1, <2>4, <2>5, QuietStepKeeps
<1> QED BY <1>2, <1>3

\* A transaction that ends without having saved.
LEMMA LeaveKeeps ==
  ASSUME SaveInv, NEW x \in Sessions, NEW place \in {"none", "raised"},
         pc[x] # "saved", Go(x, place),
         lock' = IF lock = x THEN Nobody ELSE lock,
         new' \in {new, [new EXCEPT ![x] = NoRow]},
         deleted' = [deleted EXCEPT ![x] = {}],
         inserted' = [inserted EXCEPT ![x] = {}],
         UNCHANGED <<row, labels, loaded, snapshot, stale>>
  PROVE  SaveInv'
<1>1. TypeOK'
  <2>1. new' \in [Sessions -> Row]
    BY NoRowType DEF SaveInv, TypeOK
  <2> QED BY <2>1 DEF SaveInv, TypeOK, Go, Place, Over
<1>2. /\ pc'[x] = place /\ deleted'[x] = {} /\ inserted'[x] = {} /\ lock' # x
      /\ loaded'[x] = loaded[x]
  BY NamesApart DEF SaveInv, TypeOK, Go
<1>3. Frame(x)
  BY NamesApart DEF SaveInv, TypeOK, Go, Frame
<1>4. SessionInv(x)'
  <2>1. SessionInv(x)
    BY DEF SaveInv
  <2>2. Belongs(x)' /\ Deletes(x)' /\ HoldsRow(x)' /\ NeedsRow(x)' /\ Inserts(x)'
    BY <1>2 DEF Belongs, Deletes, HoldsRow, NeedsRow, Inserts, Reading, Holding, Emptying
  <2>3. Loads(x)'
    BY <1>2, <1>3, <2>1 DEF SessionInv, Loads, Frame, Sessions
  <2>4. Fresh(x)'
    BY <1>2 DEF Fresh, Reading, Holding, Emptying
  <2> QED BY <2>2, <2>3, <2>4 DEF SessionInv
<1> QED BY <1>1, <1>2, <1>3, <1>4, QuietStepKeeps

LEMMA RollbackKeeps ==
  ASSUME SaveInv, NEW x \in Sessions, NEW place \in {"none", "raised"},
         pc[x] # "saved", Rollback(x), Go(x, place)
  PROVE  SaveInv'
BY LeaveKeeps DEF Rollback

LEMMA InsertSiteKeeps ==
  ASSUME SaveInv, NEW x \in Sessions, InsertSite(x)
  PROVE  SaveInv'
<1>1. pc[x] = "found" /\ lock = Nobody /\ SessionInv(x)
  BY DEF InsertSite, SaveInv
<1>2. deleted[x] = {} /\ inserted[x] = {} /\ x \in Savers
  BY <1>1 DEF SessionInv, Deletes, Inserts, Belongs, Emptying, Reading
<1>3. CASE Known(row)
  <2>1. deleted' = [deleted EXCEPT ![x] = {}] /\ inserted' = [inserted EXCEPT ![x] = {}]
    BY <1>2, <1>3 DEF InsertSite, SaveInv, TypeOK
  <2>2. lock' = IF lock = x THEN Nobody ELSE lock
    BY <1>1, <1>3, NamesApart DEF InsertSite
  <2> QED BY <1>1, <1>3, <2>1, <2>2, LeaveKeeps DEF InsertSite
<1>4. CASE ~Known(row)
  <2>1. /\ new' = [new EXCEPT ![x] = SavedRow(x)] /\ lock' = x
        /\ pc' = [pc EXCEPT ![x] = "known"]
        /\ UNCHANGED <<row, labels, loaded, snapshot, deleted, inserted, stale>>
    BY <1>4 DEF InsertSite, Go
  <2>2. TypeOK'
    BY <1>2, <2>1, SavedRowType DEF SaveInv, TypeOK, Place
  <2>3. pc'[x] = "known" /\ new'[x] = SavedRow(x) /\ SavedRow(x).last = x
    BY <1>2, <2>1, SavedRowType DEF SaveInv, TypeOK
  <2>4. Frame(x)
    BY <1>1, <2>1, NamesApart DEF SaveInv, TypeOK, Frame
  <2>5. SessionInv(x)'
    <3>1. Belongs(x)' /\ Deletes(x)' /\ HoldsRow(x)' /\ NeedsRow(x)' /\ Inserts(x)'
      BY <1>2, <2>1, <2>3
      DEF Belongs, Deletes, HoldsRow, NeedsRow, Inserts, Holding, Emptying
    <3>2. Loads(x)'
      BY <1>1, <2>1, <2>3, <2>4 DEF SessionInv, Loads, Frame, Sessions
    <3>3. SavedRow(x)' = SavedRow(x)
      BY DEF SavedRow
    <3>4. ~stale'[x] => Fresh(x)'
      BY <1>1, <2>1, <2>3, <3>3 DEF SessionInv, Fresh, Reading, Emptying
    <3> QED BY <3>1, <3>2, <3>4 DEF SessionInv
  <2> QED BY <2>1, <2>2, <2>4, <2>5, QuietStepKeeps
<1> QED BY <1>3, <1>4

LEMMA DeleteBeginsKeeps ==
  ASSUME SaveInv, NEW x \in Sessions, NEW kind \in Kinds, DeleteBegins(x, kind)
  PROVE  SaveInv'
<1>1. /\ SessionInv(x)
      /\ \/ kind = "category" /\ pc[x] \in {"found", "known"}
         \/ kind = "tag" /\ pc[x] = "catDeleted"
  BY DEF DeleteBegins, SaveInv
<1> DEFINE place == Deleting[kind]
<1>2. /\ snapshot' = [snapshot EXCEPT ![x] = OfKind(labels, kind)]
      /\ pc' = [pc EXCEPT ![x] = place]
      /\ UNCHANGED <<row, labels, loaded, deleted, inserted, new, lock, stale>>
  BY DEF DeleteBegins, Go
<1>3. place = IF kind = "category" THEN "catDeleting" ELSE "tagDeleting"
  BY DEF Deleting, Kinds
<1> HIDE DEF place
<1>4. TypeOK' /\ pc'[x] = place /\ snapshot'[x] = OfKind(labels, kind)
  BY <1>2, <1>3 DEF SaveInv, TypeOK, Place, OfKind
<1>5. Frame(x)
  BY <1>1, <1>2 DEF SaveInv, TypeOK, Frame
<1>6. SessionInv(x)'
  <2>1. x \in Savers /\ inserted[x] = {}
    BY <1>1 DEF SessionInv, Belongs, Inserts, Emptying, Reading, Holding
  <2>2. Belongs(x)' /\ NeedsRow(x)' /\ Inserts(x)'
    BY <1>2, <1>3, <1>4, <2>1 DEF Belongs, NeedsRow, Inserts
  <2>3. Deletes(x)' /\ HoldsRow(x)'
    BY <1>1, <1>2, <1>3, <1>4 DEF SessionInv, Deletes, HoldsRow, Holding, Emptying
  <2>4. Loads(x)'
    BY <1>1, <1>2, <1>3, <1>4, <1>5 DEF SessionInv, Loads, Frame, Sessions
  <2>5. SavedRow(x)' = SavedRow(x)
    BY DEF SavedRow
  <2>6. ~stale'[x] => Fresh(x)'
    BY <1>1, <1>2, <1>3, <1>4, <2>5
    DEF SessionInv, Fresh, Reading, Holding, Emptying, OfKind
  <2> QED BY <2>2, <2>3, <2>4, <2>6 DEF SessionInv
<1> QED BY <1>2, <1>4, <1>5, <1>6, QuietStepKeeps

\* Categories and tags are all the labels there are.
LEMMA LabelsOfKinds ==
  ASSUME labels \subseteq AllLabels
  PROVE  labels = OfKind(labels, "category") \cup OfKind(labels, "tag")
<1> SUFFICES ASSUME NEW l \in labels PROVE l.value.kind \in {"category", "tag"}
  BY DEF OfKind
<1>1. PICK v \in FirstLabels \cup UNION {Mine(z) : z \in Savers}, z \in Writers :
         l = Label(v, z)
  BY DEF AllLabels
<1>2. CASE v \in FirstLabels
  BY <1>1, <1>2 DEF FirstLabels, Label, Category, Tag
<1>3. CASE v \in UNION {Mine(y) : y \in Savers}
  BY <1>1, <1>3, AnalysisAssumption DEF Mine, Label, Kinds
<1> QED BY <1>1, <1>2, <1>3

\* The DELETE takes what it saw and is still there; it has waited for all who
\* delete the same, so that no label is deleted twice.
LEMMA DeleteEndsKeeps ==
  ASSUME SaveInv, NEW x \in Sessions, NEW kind \in Kinds, DeleteEnds(x, kind)
  PROVE  SaveInv'
<1> DEFINE place == AfterDelete[kind]
<1>1. /\ pc[x] = IF kind = "category" THEN "catDeleting" ELSE "tagDeleting"
      /\ place = IF kind = "category" THEN "catDeleted" ELSE "deleted"
      /\ DeletersOf(x) = {} /\ SessionInv(x)
  BY DEF DeleteEnds, SaveInv, Deleting, AfterDelete, Kinds
<1>2. /\ deleted' = [deleted EXCEPT ![x] = deleted[x] \cup (snapshot[x] \cap labels)]
      /\ pc' = [pc EXCEPT ![x] = place]
      /\ UNCHANGED <<row, labels, loaded, snapshot, inserted, new, lock, stale>>
  BY DEF DeleteEnds, Go
<1> HIDE DEF place
<1>3. /\ TypeOK' /\ pc'[x] = place
      /\ deleted'[x] = deleted[x] \cup (snapshot[x] \cap labels)
  BY <1>1, <1>2 DEF SaveInv, TypeOK, Place
<1>4. Frame(x)
  BY <1>1, <1>2 DEF SaveInv, TypeOK, Frame
<1>5. SessionInv(x)'
  <2>1. x \in Savers /\ inserted[x] = {}
    BY <1>1 DEF SessionInv, Belongs, Inserts, Reading, Holding, Emptying
  <2>2. Belongs(x)' /\ Deletes(x)' /\ NeedsRow(x)' /\ Inserts(x)'
    BY <1>1, <1>2, <1>3, <2>1 DEF Belongs, Deletes, NeedsRow, Inserts, Emptying
  <2>3. HoldsRow(x)'
    BY <1>1, <1>2, <1>3 DEF SessionInv, HoldsRow, Holding, Emptying
  <2>4. Loads(x)'
    BY <1>1, <1>2, <1>3, <1>4 DEF SessionInv, Loads, Frame, Sessions
  <2>5. SavedRow(x)' = SavedRow(x)
    BY DEF SavedRow
  <2>6. ~stale'[x] => deleted'[x] = IF kind = "category" THEN OfKind(labels, "category")
                                    ELSE labels
    <3> SUFFICES ASSUME ~stale[x]
                 PROVE  deleted'[x] = IF kind = "category" THEN OfKind(labels, "category")
                                      ELSE labels
      BY <1>2
    <3>1. CASE kind = "category"
      BY <1>1, <1>3, <3>1 DEF SessionInv, Fresh, Deletes, Emptying, OfKind
    <3>2. CASE kind # "category"
      BY <1>1, <1>3, <3>2, LabelsOfKinds DEF SessionInv, Fresh, OfKind, SaveInv, TypeOK
    <3> QED BY <3>1, <3>2
  <2>7. ~stale'[x] => Fresh(x)'
    BY <1>1, <1>2, <1>3, <2>5, <2>6
    DEF SessionInv, Fresh, Reading, Holding, Emptying, OfKind
  <2> QED BY <2>2, <2>3, <2>4, <2>7 DEF SessionInv
<1>6. DeletedOnce'
  <2>1. \A y \in Sessions \ {x} : deleted[y] \cap snapshot[x] = {}
    BY <1>1 DEF DeletersOf
  <2> QED BY <1>3, <1>4, <2>1 DEF SaveInv, DeletedOnce, Frame
<1>7. TableInv' /\ Overtakes(x)
  BY <1>2, <1>4, TableKept DEF SaveInv, Overtakes, Frame, Sessions
<1> QED BY <1>3, <1>4, <1>5, <1>6, <1>7, StepKeeps

\* The flush of the row: whoever holds it after this has the row to itself.
LEMMA UpdateSiteKeeps ==
  ASSUME SaveInv, NEW x \in Sessions, UpdateSite(x)
  PROVE  SaveInv'
<1>1. pc[x] = "catInserted" /\ SessionInv(x)
  BY DEF UpdateSite, SaveInv
<1>2. /\ pc' = [pc EXCEPT ![x] = "updated"]
      /\ UNCHANGED <<row, labels, loaded, snapshot, deleted, inserted, stale>>
  BY DEF UpdateSite, Go
<1>3. x \in Savers /\ inserted[x] = OwnOf(x, "category") /\ loaded[x].last # x
  BY <1>1 DEF SessionInv, Belongs, Inserts, Loads, Reading, Holding, Emptying
<1>4. /\ row \in Row /\ loaded[x] \in Row
      /\ SavedRow(x) \in Row /\ SavedRow(x).last = x
  BY <1>3, SavedRowType DEF SaveInv, TypeOK
<1>5. /\ lock' = x /\ new' \in [Sessions -> Row] /\ new'[x].last = x
      /\ ~stale[x] => new'[x] = SavedRow(x)
      /\ \A y \in Sessions \ {x} : new'[y] = new[y] /\ lock # y
  <2>1. CASE lock = x /\ UNCHANGED <<new, lock>>
    BY <1>1, <2>1 DEF SaveInv, TypeOK, SessionInv, HoldsRow, Fresh
  <2>2. CASE /\ lock = Nobody /\ lock' = x
             /\ new' = [new EXCEPT ![x] = Written(row, SavedRow(x), loaded[x])]
    <3>1. Written(row, SavedRow(x), loaded[x]) \in Row
      BY <1>4, WrittenType
    <3>2. Written(row, SavedRow(x), loaded[x]).last = x
      BY <1>3, <1>4, WrittenLast
    <3>3. ~stale[x] => loaded[x] = row
      BY <1>1 DEF SessionInv, Fresh, Reading, Holding, Emptying
    <3>4. ~stale[x] => Written(row, SavedRow(x), loaded[x]) = SavedRow(x)
      BY <1>4, <3>3, WrittenFresh
    <3> QED BY <2>2, <3>1, <3>2, <3>4, NamesApart DEF SaveInv, TypeOK
  <2> QED BY <2>1, <2>2 DEF UpdateSite
<1>6. TypeOK' /\ pc'[x] = "updated"
  BY <1>2, <1>5 DEF SaveInv, TypeOK, Place
<1>7. Frame(x)
  BY <1>1, <1>2, <1>5 DEF SaveInv, TypeOK, Frame
<1>8. SessionInv(x)'
  <2>1. Belongs(x)' /\ Deletes(x)' /\ NeedsRow(x)' /\ Inserts(x)' /\ HoldsRow(x)'
    BY <1>2, <1>3, <1>5, <1>6
    DEF Belongs, Deletes, NeedsRow, Inserts, OwnOf, MineOf, Mine, Label, HoldsRow,
        Holding, Emptying
  <2>2. Loads(x)'
    BY <1>1, <1>2, <1>6, <1>7 DEF SessionInv, Loads, Frame, Sessions
  <2>3. SavedRow(x)' = SavedRow(x)
    BY DEF SavedRow
  <2>4. ~stale'[x] => Fresh(x)'
    BY <1>1, <1>2, <1>5, <1>6, <2>3
    DEF SessionInv, Fresh, Reading, Holding, Emptying, OfKind
  <2> QED BY <2>1, <2>2, <2>4 DEF SessionInv
<1> QED BY <1>2, <1>6, <1>7, <1>8, QuietStepKeeps

\* What a session inserts of a kind, with what it has inserted before.
LEMMA InsertedOwn ==
  ASSUME NEW x \in Savers
  PROVE  /\ OwnLabels(x) \subseteq AllLabels
         /\ OwnOf(x, "category") \subseteq OwnLabels(x)
         /\ OwnOf(x, "category") \cup OwnOf(x, "tag") = OwnLabels(x)
<1>1. OwnLabels(x) \subseteq AllLabels
  <2> SUFFICES ASSUME NEW v \in Mine(x) PROVE Label(v, x) \in AllLabels
    BY DEF OwnLabels
  <2>1. v \in FirstLabels \cup UNION {Mine(z) : z \in Savers} /\ x \in Writers
    BY DEF Writers
  <2> QED BY <2>1 DEF AllLabels
<1>2. MineOf(x, "category") \cup MineOf(x, "tag") = Mine(x)
  BY AnalysisAssumption DEF MineOf, Mine, Kinds
<1> QED BY <1>1, <1>2 DEF OwnLabels, OwnOf

LEMMA InsertLabelsKeeps ==
  ASSUME SaveInv, NEW x \in Sessions, NEW kind \in Kinds, InsertLabels(x, kind)
  PROVE  SaveInv'
<1> DEFINE place == AfterInsert[kind]
<1>1. /\ pc[x] = IF kind = "category" THEN "deleted" ELSE "updated"
      /\ place = IF kind = "category" THEN "catInserted" ELSE "flushed"
      /\ SessionInv(x)
  BY DEF InsertLabels, SaveInv, BeforeInsert, AfterInsert, Kinds
<1>2. /\ x \in Savers /\ (pc[x] = "updated" => lock = x)
      /\ inserted[x] = IF kind = "category" THEN {} ELSE OwnOf(x, "category")
  BY <1>1 DEF SessionInv, Belongs, NeedsRow, Inserts, Reading, Holding, Emptying
<1>3. CASE ~Refused(x, kind)
  <2>1. /\ inserted' = [inserted EXCEPT ![x] = inserted[x] \cup OwnOf(x, kind)]
        /\ pc' = [pc EXCEPT ![x] = place]
        /\ UNCHANGED <<row, labels, loaded, snapshot, deleted, new, lock, stale>>
    BY <1>3 DEF InsertLabels, Go, OwnOf
  <2> HIDE DEF place
  <2>2. inserted[x] \cup OwnOf(x, kind)
          = IF kind = "category" THEN OwnOf(x, "category") ELSE OwnLabels(x)
    BY <1>2, InsertedOwn DEF Kinds
  <2>3. inserted[x] \cup OwnOf(x, kind) \subseteq AllLabels
    BY <1>2, <2>2, InsertedOwn
  <2>4. TypeOK' /\ pc'[x] = place /\ inserted'[x] = inserted[x] \cup OwnOf(x, kind)
    BY <1>1, <2>1, <2>3 DEF SaveInv, TypeOK, Place
  <2>5. Frame(x)
    BY <1>1, <2>1 DEF SaveInv, TypeOK, Frame
  <2>6. SessionInv(x)'
    <3>1. Belongs(x)' /\ Deletes(x)' /\ NeedsRow(x)' /\ HoldsRow(x)'
      BY <1>1, <1>2, <2>1, <2>4
      DEF SessionInv, Belongs, Deletes, NeedsRow, HoldsRow, Holding, Emptying
    <3>2. Inserts(x)'
      BY <1>1, <2>2, <2>4 DEF Inserts, OwnLabels, OwnOf, MineOf, Mine, Label
    <3>3. Loads(x)'
      BY <1>1, <2>1, <2>4, <2>5 DEF SessionInv, Loads, Frame, Sessions
    <3>4. SavedRow(x)' = SavedRow(x)
      BY DEF SavedRow
    <3>5. ~stale'[x] => Fresh(x)'
      BY <1>1, <2>1, <2>4, <3>4
      DEF SessionInv, Fresh, Reading, Holding, Emptying, OfKind
    <3> QED BY <3>1, <3>2, <3>3, <3>5 DEF SessionInv
  <2> QED BY <2>1, <2>4, <2>5, <2>6, QuietStepKeeps
<1>4. CASE Refused(x, kind)
  <2>1. Rollback(x) /\ Go(x, "none") /\ pc[x] # "saved"
    BY <1>1, <1>4 DEF InsertLabels
  <2> QED BY <2>1, RollbackKeeps
<1> QED BY <1>3, <1>4

\* The commit puts the session's own row and labels in the table, and takes
\* away only labels no other transaction is deleting.
LEMMA CommitKeeps ==
  ASSUME SaveInv, NEW x \in Sessions, Commit(x)
  PROVE  SaveInv'
<1>1. pc[x] = "flushed" /\ SessionInv(x)
  BY DEF Commit, SaveInv
<1>2. /\ x \in Savers /\ lock = x /\ new[x].last = x
      /\ inserted[x] = OwnLabels(x)
  BY <1>1
  DEF SessionInv, Belongs, NeedsRow, HoldsRow, Inserts, Reading, Holding, Emptying
<1>3. /\ row' = new[x] /\ labels' = (labels \ deleted[x]) \cup inserted[x]
      /\ new' = [new EXCEPT ![x] = NoRow] /\ deleted' = [deleted EXCEPT ![x] = {}]
      /\ inserted' = [inserted EXCEPT ![x] = {}] /\ lock' = Nobody
      /\ stale' = [y \in Sessions |-> IF y = x THEN stale[x] ELSE TRUE]
      /\ pc' = [pc EXCEPT ![x] = "saved"]
      /\ UNCHANGED <<loaded, snapshot>>
  BY DEF Commit, Go
<1>4. TypeOK'
  <2>1. deleted' \in [Sessions -> SUBSET labels']
    <3>1. \A y \in Sessions : deleted'[y] \subseteq labels'
      BY <1>3 DEF SaveInv, TypeOK, DeletedOnce
    <3>2. DOMAIN deleted' = Sessions /\ deleted' = [y \in Sessions |-> deleted'[y]]
      BY <1>3 DEF SaveInv, TypeOK
    <3> QED BY <3>1, <3>2
  <2>2. row' \in Row /\ labels' \subseteq AllLabels /\ new' \in [Sessions -> Row]
    BY <1>3, NoRowType DEF SaveInv, TypeOK
  <2>3. /\ pc' \in [Sessions -> Place] /\ loaded' \in [Sessions -> Row]
        /\ snapshot' \in [Sessions -> SUBSET AllLabels]
        /\ inserted' \in [Sessions -> SUBSET AllLabels]
        /\ lock' \in Sessions \cup {Nobody} /\ stale' \in [Sessions -> BOOLEAN]
    BY <1>3 DEF SaveInv, TypeOK, Place, Over
  <2>4. Row' = Row /\ AllLabels' = AllLabels
    BY DEF Row, AllLabels, Titles, Writers, Label, Mine
  <2> QED BY <2>1, <2>2, <2>3 DEF TypeOK
<1>5. pc'[x] = "saved" /\ deleted'[x] = {} /\ inserted'[x] = {}
  BY <1>3 DEF SaveInv, TypeOK
<1>6. Frame(x)
  BY <1>1, <1>2, <1>3, NamesApart DEF SaveInv, TypeOK, Frame
<1>7. Overtakes(x)
  BY <1>3 DEF Overtakes
<1>8. \A z \in Savers : pc[z] = "saved" => pc'[z] = "saved"
  BY <1>6 DEF Frame, Sessions
<1>9. SessionInv(x)'
  <2>1. lock' # x
    BY <1>3, NamesApart
  <2>2. Belongs(x)' /\ Deletes(x)' /\ Inserts(x)' /\ HoldsRow(x)' /\ NeedsRow(x)'
    BY <1>2, <1>5, <2>1 DEF Belongs, Deletes, Inserts, HoldsRow, NeedsRow
  <2>3. Loads(x)'
    BY <1>1, <1>3, <1>5, <1>8 DEF SessionInv, Loads
  <2>4. Fresh(x)'
    BY <1>5, <2>1 DEF Fresh, Reading, Holding, Emptying
  <2> QED BY <2>2, <2>3, <2>4 DEF SessionInv
<1>10. DeletedOnce'
  <2>1. deleted \in [Sessions -> SUBSET labels] /\ DeletedOnce
    BY DEF SaveInv, TypeOK
  <2> QED BY <1>5, <1>6, <2>1, DeletedKept
<1>11. TableInv'
  <2>1. row'.last = x
    BY <1>2, <1>3
  <2>2. \A v \in Mine(x) : Label(v, x) \in labels'
    BY <1>2, <1>3 DEF OwnLabels
  <2>3. Mine(x) \subseteq Values(labels')
    <3>1. \A v \in Mine(x) : Label(v, x).value = v
      BY DEF Label
    <3> QED BY <2>2, <3>1 DEF Values
  <2>4. LabelsAreOfSaved'
    <3> SUFFICES ASSUME NEW l \in labels', l.by \in Savers PROVE pc'[l.by] = "saved"
      BY DEF LabelsAreOfSaved
    <3>1. CASE l \in labels
      BY <1>8, <3>1 DEF SaveInv, TableInv, LabelsAreOfSaved
    <3>2. CASE l \in OwnLabels(x)
      BY <1>5, <3>2 DEF OwnLabels, Label
    <3> QED BY <1>2, <1>3, <3>1, <3>2
  <2>5. LastAnalysisComplete'
    BY <2>1, <2>3 DEF LastAnalysisComplete, Mine, Values
  <2> QED BY <1>5, <2>1, <2>4, <2>5 DEF TableInv
<1> QED BY <1>4, <1>6, <1>7, <1>9, <1>10, <1>11, StepKeeps

\* A mark changes the status and the time of a row, never whose row it is.
LEMMA MarkCommitKeeps ==
  ASSUME SaveInv, NEW x \in Sessions, MarkCommit(x)
  PROVE  SaveInv'
<1>1. pc[x] = "marking" /\ SessionInv(x)
  BY DEF MarkCommit, SaveInv
<1>2. /\ deleted[x] = {} /\ inserted[x] = {} /\ lock # x
      /\ UNCHANGED <<labels, loaded, snapshot, deleted, inserted, new, lock>>
  BY <1>1
  DEF SessionInv, Deletes, Inserts, HoldsRow, Holding, Emptying, MarkCommit, tx
<1>3. CASE ~Known(loaded[x]) /\ Known(row)
  <2>1. deleted' = [deleted EXCEPT ![x] = {}] /\ inserted' = [inserted EXCEPT ![x] = {}]
    BY <1>2 DEF SaveInv, TypeOK
  <2>2. Go(x, "raised") /\ row' = row /\ stale' = stale
    BY <1>3 DEF MarkCommit
  <2> QED BY <1>1, <1>2, <2>1, <2>2, LeaveKeeps
<1>4. CASE Go(x, "marked") /\ x \in Markers
  <2>1. CASE ~(~Known(loaded[x]) /\ Known(row))
    <3>1. /\ row' = Written(row, MarkedRow(x), loaded[x])
          /\ stale' = [y \in Sessions |-> IF y = x THEN stale[x] ELSE TRUE]
      BY <2>1 DEF MarkCommit
    <3>2. row \in Row /\ loaded[x] \in Row
      BY DEF SaveInv, TypeOK
    <3>3. MarkedRow(x) \in Row /\ MarkedRow(x).last = loaded[x].last
      BY <1>4, <3>2, MarkedRowType
    <3>4. row' \in Row
      BY <3>1, <3>2, <3>3, WrittenType
    <3>5. row'.last = row.last
      BY <3>1, <3>2, <3>3, WrittenLast
    <3>6. pc' = [pc EXCEPT ![x] = "marked"] /\ pc'[x] = "marked"
      BY <1>4 DEF Go, SaveInv, TypeOK
    <3>7. TypeOK'
      BY <1>2, <3>1, <3>4, <3>6 DEF SaveInv, TypeOK, Place, Over
    <3>8. Frame(x)
      BY <1>1, <1>2, <3>6 DEF SaveInv, TypeOK, Frame
    <3>9. Overtakes(x)
      BY <3>1 DEF Overtakes
    <3>10. \A z \in Savers : pc[z] = "saved" => pc'[z] = "saved"
      BY <3>8 DEF Frame, Sessions
    <3>11. SessionInv(x)'
      <4>1. Belongs(x)' /\ Deletes(x)' /\ Inserts(x)' /\ HoldsRow(x)' /\ NeedsRow(x)'
        BY <1>2, <3>6
        DEF Belongs, Deletes, Inserts, HoldsRow, NeedsRow, Reading, Holding, Emptying
      <4>2. Loads(x)'
        BY <1>1, <1>2, <3>6, <3>10 DEF SessionInv, Loads
      <4>3. Fresh(x)'
        BY <1>2, <3>6 DEF Fresh, Reading, Holding, Emptying
      <4> QED BY <4>1, <4>2, <4>3 DEF SessionInv
    <3>12. TableInv'
      BY <1>2, <3>5, <3>10
      DEF SaveInv, TableInv, LastAnalysisComplete, LabelsAreOfSaved, Values, Mine
    <3>13. DeletedOnce'
      BY <1>2 DEF SaveInv, DeletedOnce
    <3> QED BY <3>7, <3>8, <3>9, <3>11, <3>12, <3>13, StepKeeps
  <2> QED BY <1>3, <2>1
<1>5. Go(x, "marked") \/ (~Known(loaded[x]) /\ Known(row))
  BY DEF MarkCommit
<1>6. x \in Markers
  BY <1>1 DEF SessionInv, Belongs
<1> QED BY <1>3, <1>4, <1>5, <1>6

\* A session that has saved waits for nobody, so no deadlock ends it.
LEMMA SavedWaitsForNobody ==
  ASSUME NEW x \in Sessions, Deadlocked(x)
  PROVE  pc[x] # "saved"
<1> SUFFICES ASSUME pc[x] = "saved" PROVE FALSE
  OBVIOUS
<1>1. WaitsFor(x) = {}
  BY DEF WaitsFor
<1> QED BY <1>1 DEF Deadlocked

LEMMA InitSaves == ASSUME Init PROVE SaveInv
<1>1. row \in Row /\ row.last \notin Savers
  BY RowsAssumption DEF Init
<1>2. row.last \in {NULL} \cup Writers
  BY <1>1, RowIff
<1>3. labels \subseteq AllLabels /\ \A l \in labels : l.by = row.last
  <2>1. CASE row.last = NULL
    BY <2>1 DEF Init
  <2>2. CASE row.last # NULL
    <3>1. labels = {Label(v, row.last) : v \in FirstLabels} /\ row.last \in Writers
      BY <1>2, <2>2 DEF Init
    <3> QED BY <3>1 DEF AllLabels, Label
  <2> QED BY <2>1, <2>2
<1>4. TypeOK
  BY <1>1, <1>3, NoRowType DEF Init, TypeOK, Place
<1>5. ASSUME NEW x \in Sessions PROVE SessionInv(x)
  <2>1. pc[x] = "start" /\ deleted[x] = {} /\ inserted[x] = {} /\ lock # x
        /\ loaded[x] = NoRow
    BY NamesApart DEF Init
  <2>2. NoRow.last = NULL
    BY DEF NoRow
  <2>3. NULL \notin Savers
    BY NamesAssumption DEF Sessions
  <2> QED
    BY <2>1, <2>2, <2>3
    DEF SessionInv, Belongs, Deletes, Inserts, HoldsRow, NeedsRow, Loads, Fresh,
        Reading, Holding, Emptying
<1>6. DeletedOnce /\ TableInv
  BY <1>1, <1>3
  DEF Init, DeletedOnce, TableInv, LastAnalysisComplete, LabelsAreOfSaved
<1> QED BY <1>4, <1>5, <1>6 DEF SaveInv

LEMMA NextKeeps == ASSUME SaveInv, [Next]_vars PROVE SaveInv'
<1>1. CASE UNCHANGED vars
  BY <1>1
  DEF vars, tx, SaveInv, TypeOK, SessionInv, Belongs, Deletes, Inserts, HoldsRow,
      NeedsRow, Loads, Fresh, DeletedOnce, TableInv, LastAnalysisComplete,
      LabelsAreOfSaved, SavedRow, MineOf, Mine, OwnLabels, OwnOf, Label, OfKind, Values,
      Row, AllLabels, Titles, Writers
<1>2. ASSUME NEW x \in Sessions, Step(x) PROVE SaveInv'
  <2>1. ASSUME NEW kind \in Kinds,
               DeleteBegins(x, kind) \/ DeleteEnds(x, kind) \/ InsertLabels(x, kind)
        PROVE  SaveInv'
    BY <2>1, DeleteBeginsKeeps, DeleteEndsKeeps, InsertLabelsKeeps
  <2> QED
    BY <1>2, <2>1, LoadKeeps, FindKeeps, InsertSiteKeeps, UpdateSiteKeeps,
       CommitKeeps, MarkLoadKeeps, MarkCommitKeeps
    DEF Step
<1>3. ASSUME NEW x \in Sessions, BreakDeadlock(x) PROVE SaveInv'
  <2>1. Rollback(x) /\ pc[x] # "saved"
    BY <1>3, SavedWaitsForNobody DEF BreakDeadlock
  <2>2. Go(x, "none") \/ Go(x, "raised")
    BY <1>3 DEF BreakDeadlock
  <2> QED BY <2>1, <2>2, RollbackKeeps
<1>4. ASSUME NEW x \in Sessions, Fail(x) PROVE SaveInv'
  <2>1. Rollback(x) /\ pc[x] # "saved" /\ Go(x, "none")
    BY <1>4 DEF Fail, Over
  <2> QED BY <2>1, RollbackKeeps
<1> QED BY <1>1, <1>2, <1>3, <1>4 DEF Next

-----------------------------------------------------------------------------
(* What is promised                                                        *)

\* Where the statements about the labels take a session.
LEMMA LabelSteps ==
  ASSUME NEW x \in Sessions, NEW kind \in Kinds, pc \in [Sessions -> Place],
         DeleteBegins(x, kind) \/ DeleteEnds(x, kind) \/ InsertLabels(x, kind)
  PROVE  \E place \in Place :
           /\ Go(x, place)
           /\ \/ pc[x] \in {"found", "known"} /\ place = "catDeleting"
              \/ pc[x] = "catDeleting" /\ place = "catDeleted"
              \/ pc[x] = "catDeleted" /\ place = "tagDeleting"
              \/ pc[x] = "tagDeleting" /\ place = "deleted"
              \/ pc[x] = "deleted" /\ place \in {"catInserted", "none"}
              \/ pc[x] = "updated" /\ place \in {"flushed", "none"}
<1>1. CASE kind = "category"
  <2>1. CASE DeleteBegins(x, kind)
    BY <1>1, <2>1 DEF DeleteBegins, Deleting, Place
  <2>2. CASE DeleteEnds(x, kind)
    BY <1>1, <2>2 DEF DeleteEnds, Deleting, AfterDelete, Place
  <2>3. CASE InsertLabels(x, kind)
    BY <1>1, <2>3 DEF InsertLabels, BeforeInsert, AfterInsert, Place, Over
  <2> QED BY <2>1, <2>2, <2>3
<1>2. CASE kind = "tag"
  <2>1. CASE DeleteBegins(x, kind)
    BY <1>2, <2>1 DEF DeleteBegins, Deleting, Place
  <2>2. CASE DeleteEnds(x, kind)
    BY <1>2, <2>2 DEF DeleteEnds, Deleting, AfterDelete, Place
  <2>3. CASE InsertLabels(x, kind)
    BY <1>2, <2>3 DEF InsertLabels, BeforeInsert, AfterInsert, Place, Over
  <2> QED BY <2>1, <2>2, <2>3
<1> QED BY <1>1, <1>2 DEF Kinds

LEMMA SaveInvariant == Spec => []SaveInv
<1>1. Init => SaveInv
  BY InitSaves
<1>2. SaveInv /\ [Next]_vars => SaveInv'
  BY NextKeeps
<1> QED BY <1>1, <1>2, PTL DEF Spec

\* Types, with what _save_site and mark_site_status may leave in a column, and
\* that a transaction deletes only labels that are in the table.
THEOREM SaveTypes == Spec => []TypeOK
BY SaveInvariant, PTL DEF SaveInv

\* The analysis whose last_analyzed_at stands in the row has all its categories
\* and tags in the table, whatever saves and marks _save_site and
\* mark_site_status interleave.
THEOREM LastIsComplete == Spec => []LastAnalysisComplete
BY SaveInvariant, PTL DEF SaveInv, TableInv

\* A failed detect_and_save leaves no label behind.
THEOREM SavedOwnLabels == Spec => []LabelsAreOfSaved
BY SaveInvariant, PTL DEF SaveInv, TableInv

\* A save nobody overtook replaces the row, the TTL mark and the labels.
THEOREM AloneReplaces == Spec => AloneReplacesAll
<1>1. ASSUME SaveInv, [Next]_vars, NEW x \in Savers,
             pc[x] = "flushed", pc'[x] = "saved", ~stale[x]
      PROVE  row' = SavedRow(x) /\ Values(labels') = Mine(x)
  <2>1. x \in Sessions /\ SessionInv(x)
    BY <1>1 DEF Sessions, SaveInv
  <2>2. PICK y \in Sessions : Step(y) \/ BreakDeadlock(y) \/ Fail(y)
    BY <1>1 DEF Next, vars
  <2>3. \E place \in Place : Go(y, place) /\ (y = x => place = "saved")
    <3>1. \E place \in Place : Go(y, place)
      <4>1. ASSUME NEW kind \in Kinds, DeleteBegins(y, kind) \/ DeleteEnds(y, kind)
                                       \/ InsertLabels(y, kind)
            PROVE  \E place \in Place : Go(y, place)
        BY <1>1, <4>1, LabelSteps DEF SaveInv, TypeOK
      <4> QED
        BY <2>2, <4>1
        DEF Step, Load, Find, InsertSite, UpdateSite, Commit, MarkLoad, MarkCommit,
            BreakDeadlock, Fail, Place, Over
    <3> QED BY <1>1, <2>1, <3>1 DEF Go, SaveInv, TypeOK
  <2>4. y = x
    BY <1>1, <2>1, <2>3 DEF Go, SaveInv, TypeOK
  <2>5. Commit(x)
    <3>1. ~BreakDeadlock(x) /\ ~Fail(x)
      BY <1>1, <2>1 DEF BreakDeadlock, Fail, Go, SaveInv, TypeOK
    <3>2. ASSUME NEW kind \in Kinds, DeleteBegins(x, kind) \/ DeleteEnds(x, kind)
                                     \/ InsertLabels(x, kind)
          PROVE  FALSE
      BY <1>1, <2>1, <3>2, LabelSteps DEF SaveInv, TypeOK, Go
    <3> QED
      BY <1>1, <2>2, <2>4, <3>1, <3>2
      DEF Step, Load, Find, InsertSite, UpdateSite, MarkLoad, MarkCommit
  <2>6. /\ row' = new[x] /\ labels' = (labels \ deleted[x]) \cup inserted[x]
    BY <2>5 DEF Commit
  <2>7. /\ new[x] = SavedRow(x) /\ deleted[x] = labels /\ inserted[x] = OwnLabels(x)
    BY <1>1, <2>1 DEF SessionInv, NeedsRow, Inserts, Fresh, Emptying
  <2>8. Values(OwnLabels(x)) = Mine(x)
    <3>1. \A v \in Mine(x) : Label(v, x).value = v
      BY DEF Label
    <3> QED BY <3>1 DEF Values, OwnLabels
  <2>9. labels' = OwnLabels(x)
    BY <2>6, <2>7
  <2> QED BY <2>6, <2>7, <2>8, <2>9
<1>2. SaveInv /\ [Next]_vars =>
        [\A x \in Savers :
           pc[x] = "flushed" /\ pc'[x] = "saved" /\ ~stale[x]
             => row' = SavedRow(x) /\ Values(labels') = Mine(x)]_vars
  BY <1>1
<1> QED BY <1>2, SaveInvariant, PTL DEF Spec, AloneReplacesAll

-----------------------------------------------------------------------------
(* No session waits for nothing.                                           *)

\* What a session waits for is held by one that is not through.
LEMMA WaitsForRunning ==
  ASSUME SaveInv, NEW x \in Sessions
  PROVE  \A y \in WaitsFor(x) : y \in Sessions /\ pc[y] \notin Over
<1> SUFFICES ASSUME NEW y \in WaitsFor(x) PROVE y \in Sessions /\ pc[y] \notin Over
  OBVIOUS
<1>1. \A z \in Sessions :
        lock = z \/ deleted[z] # {} \/ inserted[z] # {} => pc[z] \notin Over
  <2> TAKE z \in Sessions
  <2>1. SessionInv(z)
    BY DEF SaveInv
  <2> QED BY <2>1 DEF SessionInv, HoldsRow, Deletes, Inserts, Holding, Emptying, Over
<1>2. \/ y = lock /\ y # Nobody
      \/ y \in DeletersOf(x)
      \/ \E kind \in Kinds : y \in RivalsOf(x, kind)
  BY DEF WaitsFor, Kinds
<1>3. CASE y = lock /\ y # Nobody
  BY <1>1, <1>3 DEF SaveInv, TypeOK
<1>4. CASE y \in DeletersOf(x)
  BY <1>1, <1>4 DEF DeletersOf
<1>5. CASE \E kind \in Kinds : y \in RivalsOf(x, kind)
  <2>1. y \in Sessions /\ (deleted[y] # {} \/ inserted[y] # {})
    BY <1>5 DEF RivalsOf, Values
  <2> QED BY <1>1, <2>1
<1> QED BY <1>2, <1>3, <1>4, <1>5

\* A session that is not through and cannot go on waits for another one.
LEMMA BlockedWaits ==
  ASSUME SaveInv, NEW x \in Sessions, pc[x] \notin Over, ~CanGo(x)
  PROVE  WaitsFor(x) # {}
<1>1. pc[x] \in Place /\ lock \in Sessions \cup {Nobody}
  BY DEF SaveInv, TypeOK
<1>2. pc[x] \in {"found", "catDeleting", "tagDeleting", "deleted", "catInserted",
               "updated", "marking"}
  BY <1>1 DEF CanGo, Place
<1>3. CASE pc[x] = "found"
  <2>1. ~Known(loaded[x]) /\ lock # Nobody
    BY <1>3 DEF CanGo
  <2>2. WaitsFor(x) = {lock} \ {Nobody}
    BY <1>3, <2>1 DEF WaitsFor
  <2> QED BY <2>1, <2>2
<1>4. CASE pc[x] \in {"catDeleting", "tagDeleting", "deleted", "updated"}
  BY <1>4 DEF CanGo, WaitsFor
<1>5. CASE pc[x] = "catInserted"
  <2>1. lock \notin {x, Nobody}
    BY <1>5 DEF CanGo
  <2>2. WaitsFor(x) = {lock} \ {Nobody, x}
    BY <1>5 DEF WaitsFor
  <2> QED BY <2>1, <2>2
<1>6. CASE pc[x] = "marking"
  <2>1. lock # Nobody /\ MarkedRow(x) # loaded[x]
    BY <1>6 DEF CanGo
  <2>2. WaitsFor(x) = {lock} \ {Nobody}
    BY <1>6, <2>1 DEF WaitsFor
  <2> QED BY <2>1, <2>2
<1> QED BY <1>2, <1>3, <1>4, <1>5, <1>6

\* The safety half of SessionsEnd.  If all sessions that are not through wait,
\* each waits for one of them, so that together they are a circle the database
\* detects.
THEOREM SessionsNeverStall == Spec => []NobodyStalls
<1>1. SaveInv => NobodyStalls
  <2> SUFFICES ASSUME SaveInv, NEW x \in Sessions, pc[x] \notin Over,
                      \A y \in Sessions : ~CanGo(y)
               PROVE  \E y \in Sessions : Deadlocked(y)
    BY DEF NobodyStalls
  <2> DEFINE left == {y \in Sessions : pc[y] \notin Over}
  <2>1. x \in left /\ left \in SUBSET Sessions
    OBVIOUS
  <2>2. \A y \in left : WaitsFor(y) \cap left # {}
    <3> TAKE y \in left
    <3>1. WaitsFor(y) # {}
      BY BlockedWaits
    <3>2. \A z \in WaitsFor(y) : z \in left
      BY WaitsForRunning
    <3> QED BY <3>1, <3>2
  <2> QED BY <2>1, <2>2 DEF Deadlocked
<1> QED BY <1>1, SaveInvariant, PTL

\* Every step is one of a session that gets further by it, so that none can
\* keep the others waiting by trying again.
THEOREM SessionsAdvance == Spec => OneAdvances
<1>1. ASSUME SaveInv, Next
      PROVE  \E x \in Sessions : /\ Rank(pc'[x]) > Rank(pc[x])
                                 /\ \A y \in Sessions \ {x} : pc'[y] = pc[y]
  <2>1. PICK x \in Sessions : Step(x) \/ BreakDeadlock(x) \/ Fail(x)
    BY <1>1 DEF Next
  <2>2. PICK place : Go(x, place)
    <3>1. ASSUME NEW kind \in Kinds, DeleteBegins(x, kind) \/ DeleteEnds(x, kind)
                                     \/ InsertLabels(x, kind)
          PROVE  \E place : Go(x, place)
      BY <3>1 DEF DeleteBegins, DeleteEnds, InsertLabels
    <3> QED
      BY <2>1, <3>1
      DEF Step, Load, Find, InsertSite, UpdateSite, Commit, MarkLoad, MarkCommit,
          BreakDeadlock, Fail
  <2>3. /\ pc'[x] = place /\ pc[x] \in Place
        /\ \A y \in Sessions \ {x} : pc'[y] = pc[y]
    BY <2>2, <1>1 DEF Go, SaveInv, TypeOK
  <2>4. \A p \in Place \ Over : Rank(p) \in 0..10
    BY DEF Rank, Place, Over
  <2>5. \A p \in Over : Rank(p) = 11
    BY DEF Rank, Over
  <2>6. CASE Step(x)
    <3>1. \/ pc[x] = "start" /\ pc'[x] \in {"loaded", "cached", "found", "marking"}
          \/ pc[x] = "loaded" /\ pc'[x] = "found"
          \/ pc[x] = "found" /\ pc'[x] \in {"none", "known", "catDeleting"}
          \/ pc[x] = "known" /\ pc'[x] = "catDeleting"
          \/ pc[x] = "catDeleting" /\ pc'[x] = "catDeleted"
          \/ pc[x] = "catDeleted" /\ pc'[x] = "tagDeleting"
          \/ pc[x] = "tagDeleting" /\ pc'[x] = "deleted"
          \/ pc[x] = "deleted" /\ pc'[x] \in {"catInserted", "none"}
          \/ pc[x] = "catInserted" /\ pc'[x] = "updated"
          \/ pc[x] = "updated" /\ pc'[x] \in {"flushed", "none"}
          \/ pc[x] = "flushed" /\ pc'[x] = "saved"
          \/ pc[x] = "marking" /\ pc'[x] \in {"raised", "marked"}
      <4>1. ASSUME NEW kind \in Kinds, DeleteBegins(x, kind) \/ DeleteEnds(x, kind)
                                       \/ InsertLabels(x, kind)
            PROVE  \/ pc[x] \in {"found", "known"} /\ pc'[x] = "catDeleting"
                   \/ pc[x] = "catDeleting" /\ pc'[x] = "catDeleted"
                   \/ pc[x] = "catDeleted" /\ pc'[x] = "tagDeleting"
                   \/ pc[x] = "tagDeleting" /\ pc'[x] = "deleted"
                   \/ pc[x] = "deleted" /\ pc'[x] \in {"catInserted", "none"}
                   \/ pc[x] = "updated" /\ pc'[x] \in {"flushed", "none"}
        BY <1>1, <4>1, LabelSteps DEF Go, SaveInv, TypeOK
      <4> QED
        BY <2>6, <4>1, <1>1
        DEF Step, Load, Find, InsertSite, UpdateSite, Commit, MarkLoad, MarkCommit,
            Go, SaveInv, TypeOK
    <3> QED BY <3>1, <2>3 DEF Rank
  <2>7. CASE BreakDeadlock(x) \/ Fail(x)
    <3>1. pc'[x] \in Over
      BY <2>7, <1>1 DEF BreakDeadlock, Fail, Go, SaveInv, TypeOK, Over
    <3>2. pc[x] \notin Over
      <4>1. CASE BreakDeadlock(x)
        <5>1. WaitsFor(x) # {}
          BY <4>1 DEF BreakDeadlock, Deadlocked
        <5> QED BY <5>1 DEF WaitsFor, Over
      <4> QED BY <2>7, <4>1 DEF Fail
    <3>3. Rank(pc[x]) \in 0..10 /\ Rank(pc'[x]) = 11
      BY <3>1, <3>2, <2>3, <2>4, <2>5
    <3> QED BY <3>3, <2>3
  <2> QED BY <2>1, <2>6, <2>7
<1>2. SaveInv /\ [Next]_vars =>
        [\E x \in Sessions : /\ Rank(pc'[x]) > Rank(pc[x])
                             /\ \A y \in Sessions \ {x} : pc'[y] = pc[y]]_vars
  BY <1>1
<1> QED BY <1>2, SaveInvariant, PTL DEF Spec, OneAdvances

-----------------------------------------------------------------------------
(* Sequences and the elements at some of their places                      *)

LEMMA ElementIn ==
  ASSUME NEW S, NEW s \in Seq(S), NEW i \in DOMAIN s
  PROVE  s[i] \in S /\ i \in 1..Len(s)
OBVIOUS

LEMMA AppendedSeq ==
  ASSUME NEW S, NEW s \in Seq(S), NEW e \in S
  PROVE  /\ Append(s, e) \in Seq(S)
         /\ Len(Append(s, e)) = Len(s) + 1
         /\ DOMAIN Append(s, e) = 1..(Len(s) + 1)
         /\ \A i \in DOMAIN s : Append(s, e)[i] = s[i]
         /\ Append(s, e)[Len(s) + 1] = e
OBVIOUS

LEMMA ReplacedSeq ==
  ASSUME NEW S, NEW s \in Seq(S), NEW e \in S, NEW i \in DOMAIN s
  PROVE  /\ [s EXCEPT ![i] = e] \in Seq(S)
         /\ DOMAIN [s EXCEPT ![i] = e] = DOMAIN s
         /\ [s EXCEPT ![i] = e][i] = e
         /\ \A j \in DOMAIN s \ {i} : [s EXCEPT ![i] = e][j] = s[j]
OBVIOUS

LEMMA MadeSeq ==
  ASSUME NEW S, NEW n \in Nat, NEW f \in [1..n -> S]
  PROVE  f \in Seq(S) /\ Len(f) = n /\ DOMAIN f = 1..n
BY SeqDef

\* The ranks of n numbers are 1..n: each has a greater one than those below it,
\* and there are no more ranks than numbers.
LEMMA OrderExists ==
  ASSUME NEW S \in SUBSET Nat, IsFiniteSet(S), NEW k \in 1..Cardinality(S)
  PROVE  \E i \in S : Cardinality({j \in S : j <= i}) = k
<1> DEFINE Upto(i) == {j \in S : j <= i}
           Order == [i \in S |-> Cardinality(Upto(i))]
<1>1. Cardinality(S) \in Nat
  BY FS_CardinalityType
<1>2. ASSUME NEW i \in S
      PROVE  IsFiniteSet(Upto(i)) /\ Cardinality(Upto(i)) \in 1..Cardinality(S)
  <2>1. Upto(i) \in SUBSET S /\ i \in Upto(i)
    OBVIOUS
  <2>2. IsFiniteSet(Upto(i)) /\ Cardinality(Upto(i)) <= Cardinality(S)
    BY <2>1, FS_Subset
  <2>3. Cardinality(Upto(i)) \in Nat /\ Cardinality(Upto(i)) # 0
    <3>1. Cardinality(Upto(i)) = 0 <=> Upto(i) = {}
      BY <2>2, FS_EmptySet
    <3>2. Cardinality(Upto(i)) \in Nat
      BY <2>2, FS_CardinalityType
    <3> QED BY <2>1, <3>1, <3>2
  <2> QED BY <1>1, <2>2, <2>3
<1>3. ASSUME NEW i \in S, NEW j \in S, i < j
      PROVE  Cardinality(Upto(i)) < Cardinality(Upto(j))
  <2>1. Upto(i) \in SUBSET Upto(j) /\ j \in Upto(j) /\ j \notin Upto(i)
    <3>1. \A x \in S : x \in Nat
      OBVIOUS
    <3>2. \A x \in S : x <= i => x <= j
      BY <1>3, <3>1
    <3>3. i < j /\ j <= j /\ ~(j <= i)
      BY <1>3, <3>1
    <3> QED BY <3>2, <3>3
  <2>2. /\ Cardinality(Upto(i)) <= Cardinality(Upto(j))
        /\ Cardinality(Upto(j)) = Cardinality(Upto(i)) => Upto(j) = Upto(i)
    BY <1>2, <2>1, FS_Subset
  <2>3. Upto(j) # Upto(i)
    BY <2>1
  <2> HIDE DEF Upto
  <2>4. Cardinality(Upto(i)) \in Nat /\ Cardinality(Upto(j)) \in Nat
    BY <1>1, <1>2
  <2> QED BY <2>2, <2>3, <2>4
<1>4. Order \in Injection(S, 1..Cardinality(S))
  <2>1. Order \in [S -> 1..Cardinality(S)]
    BY <1>2
  <2>2. ASSUME NEW i \in S, NEW j \in S, Order[i] = Order[j] PROVE i = j
    <3>1. i \in Nat /\ j \in Nat
      OBVIOUS
    <3>2. Cardinality(Upto(i)) = Cardinality(Upto(j))
      BY <2>2
    <3>3. Cardinality(Upto(i)) \in Nat /\ Cardinality(Upto(j)) \in Nat
      BY <1>1, <1>2
    <3> HIDE DEF Upto, Order
    <3>4. ~(i < j) /\ ~(j < i)
      BY <1>3, <3>2, <3>3
    <3> QED BY <3>1, <3>4
  <2> QED BY <2>1, <2>2 DEF Injection, IsInjective
<1>5. IsFiniteSet(1..Cardinality(S)) /\ Cardinality(1..Cardinality(S)) = Cardinality(S)
  <2>1. /\ IsFiniteSet(1..Cardinality(S))
        /\ Cardinality(1..Cardinality(S))
             = IF 1 > Cardinality(S) THEN 0 ELSE Cardinality(S) - 1 + 1
    BY <1>1, FS_Interval
  <2> QED BY <1>1, <2>1
<1>6. Order \in Surjection(S, 1..Cardinality(S))
  <2> HIDE DEF Order
  <2> QED BY <1>4, <1>5, FS_Injection
<1>7. PICK i \in S : Order[i] = k
  <2> HIDE DEF Order
  <2> QED BY <1>6 DEF Surjection
<1> QED BY <1>7

LEMMA ThoseAre ==
  ASSUME NEW S, NEW items \in Seq(S), NEW P \in SUBSET (DOMAIN items)
  PROVE  /\ Those(items, P) \in Seq(S)
         /\ ToSet(Those(items, P)) = {items[i] : i \in P}
<1> DEFINE n == Cardinality(P)
           Order(i) == Cardinality({j \in P : j <= i})
           At(k) == CHOOSE i \in P : Order(i) = k
<1>1. P \in SUBSET (1..Len(items)) /\ Len(items) \in Nat
  OBVIOUS
<1>2. IsFiniteSet(P) /\ P \in SUBSET Nat /\ n \in Nat
  <2>1. IsFiniteSet(1..Len(items))
    BY <1>1, FS_Interval
  <2>2. IsFiniteSet(P)
    BY <1>1, <2>1, FS_Subset
  <2> QED BY <1>1, <2>2, FS_CardinalityType
<1>3. ASSUME NEW k \in 1..n PROVE At(k) \in P /\ Order(At(k)) = k
  <2>1. \E i \in P : Order(i) = k
    BY <1>2, OrderExists
  <2> HIDE DEF Order
  <2> QED BY <2>1
<1>4. ASSUME NEW i \in P PROVE Order(i) \in 1..n /\ At(Order(i)) = i
  <2> DEFINE below == {j \in P : j <= i}
  <2>1. below \in SUBSET P /\ i \in below
    BY <1>2
  <2>2. IsFiniteSet(below) /\ Cardinality(below) <= n
    BY <1>2, <2>1, FS_Subset
  <2>3. Cardinality(below) \in Nat /\ (Cardinality(below) = 0 <=> below = {})
    BY <2>2, FS_CardinalityType, FS_EmptySet
  <2>4. Order(i) \in 1..n
    BY <1>2, <2>1, <2>2, <2>3
  <2>5. At(Order(i)) \in P /\ Order(At(Order(i))) = Order(i)
    BY <1>3, <2>4
  <2>6. ASSUME NEW x \in P, NEW y \in P, x < y PROVE Order(x) # Order(y)
    <3> DEFINE bx == {j \in P : j <= x}
               by == {j \in P : j <= y}
    <3>1. bx \in SUBSET by /\ by \in SUBSET P /\ y \in by /\ y \notin bx
      BY <1>2, <2>6
    <3>2. IsFiniteSet(by)
      BY <1>2, <3>1, FS_Subset
    <3>3. Cardinality(by) = Cardinality(bx) => by = bx
      BY <3>1, <3>2, FS_Subset
    <3> QED BY <3>1, <3>3
  <2> DEFINE a == At(Order(i))
  <2>7. a \in P /\ Order(a) = Order(i)
    BY <2>5
  <2> HIDE DEF a, At, Order
  <2>8. a \in Nat /\ i \in Nat
    BY <1>2, <2>7
  <2>9. ~(a < i) /\ ~(i < a)
    BY <2>6, <2>7
  <2>10. a = i
    BY <2>8, <2>9
  <2> QED BY <2>4, <2>10 DEF a
<1> DEFINE those == [k \in 1..n |-> items[At(k)]]
<1>5. Those(items, P) = those
  BY DEF Those
<1>6. those \in [1..n -> S]
  <2>1. ASSUME NEW k \in 1..n PROVE items[At(k)] \in S
    <3>1. At(k) \in P
      BY <1>3
    <3> HIDE DEF At
    <3> QED BY <3>1
  <2> HIDE DEF At, n
  <2> QED BY <2>1
<1>7. those \in Seq(S) /\ DOMAIN those = 1..n
  <2> HIDE DEF those, n
  <2> QED BY <1>2, <1>6, MadeSeq
<1>8. {those[k] : k \in 1..n} = {items[i] : i \in P}
  <2>1. ASSUME NEW k \in 1..n PROVE those[k] \in {items[i] : i \in P}
    <3>1. At(k) \in P
      BY <1>3
    <3> HIDE DEF At
    <3> QED BY <3>1
  <2>2. ASSUME NEW i \in P PROVE items[i] \in {those[k] : k \in 1..n}
    <3>1. Order(i) \in 1..n /\ At(Order(i)) = i
      BY <1>4
    <3>2. those[Order(i)] = items[i]
      <4> HIDE DEF Order, n
      <4>1. those[Order(i)] = items[At(Order(i))]
        BY <3>1
      <4> HIDE DEF At, those
      <4> QED BY <3>1, <4>1
    <3> HIDE DEF those, Order, n
    <3> QED BY <3>1, <3>2
  <2> HIDE DEF those, n
  <2> QED BY <2>1, <2>2
<1> HIDE DEF those
<1> QED BY <1>5, <1>7, <1>8 DEF ToSet

-----------------------------------------------------------------------------
(* The reader and the writer                                               *)

LEMMA LoadIs ==
  ASSUME NEW file \in File
  PROVE  LoadSource(file) \in Seq(Item)
<1> DEFINE P == {i \in DOMAIN file.items : file.items[i].kind # "string"}
<1>1. file.items \in Seq(Item) /\ P \in SUBSET (DOMAIN file.items)
  BY DEF File
<1>2. Those(file.items, P) \in Seq(Item)
  <2> HIDE DEF P
  <2> QED BY <1>1, ThoseAre
<1> QED BY <1>2 DEF LoadSource

\* The reader takes the link of every unfinished element.
LEMMA ReaderTakes ==
  ASSUME NEW items \in Seq(Item)
  PROVE  /\ ToAnalyse(items) \in Seq(Links)
         /\ Open(items) = {item.link : item \in {item \in ToSet(items) : Unfinished(item)}}
<1> DEFINE P == {i \in DOMAIN items : Unfinished(items[i])}
           open == Those(items, P)
<1>1. open \in Seq(Item) /\ ToSet(open) = {items[i] : i \in P}
  <2>1. P \in SUBSET (DOMAIN items)
    OBVIOUS
  <2> HIDE DEF P
  <2> QED BY <2>1, ThoseAre
<1>2. ToAnalyse(items) = [k \in DOMAIN open |-> open[k].link]
  BY DEF ToAnalyse
<1>3. {items[i] : i \in P} = {item \in ToSet(items) : Unfinished(item)}
  BY DEF ToSet
<1> HIDE DEF open, P
<1>4. ASSUME NEW k \in DOMAIN open PROVE open[k].link \in Links
  <2>1. open[k] \in Item
    BY <1>1
  <2> QED BY <2>1 DEF Item
<1>5. DOMAIN open = 1..Len(open) /\ Len(open) \in Nat
  BY <1>1
<1>6. ToAnalyse(items) \in [1..Len(open) -> Links]
  BY <1>2, <1>4, <1>5
<1>7. ToAnalyse(items) \in Seq(Links)
  BY <1>5, <1>6, MadeSeq
<1>8. Open(items) = {item.link : item \in ToSet(open)}
  BY <1>2 DEF Open, ToSet
<1> QED BY <1>1, <1>3, <1>7, <1>8

LEMMA ExtractIs ==
  ASSUME NEW items \in Seq(Item)
  PROVE  Extract(items) \in Seq(Links)
<1> DEFINE all == ToAnalyse(items)
           n == IF Len(all) > MaxUrls THEN MaxUrls ELSE Len(all)
<1>1. all \in Seq(Links)
  BY ReaderTakes
<1>2. n \in Nat /\ n <= Len(all)
  BY <1>1, BoundsAssumption
<1>3. \A i \in 1..n : all[i] \in Links
  <2> HIDE DEF all
  <2> QED BY <1>1, <1>2
<1>4. SubSeq(all, 1, n) \in Seq(Links)
  <2>1. n \in Int /\ 1 \in Int
    BY <1>2
  <2> HIDE DEF all, n
  <2> QED BY <1>3, <2>1, SubSeqProperties, Zenon
<1> QED BY <1>4 DEF Extract

LEMMA EntryIs ==
  ASSUME NEW l \in Links, NEW mark \in {"ok", "error"}
  PROVE  /\ Entry(l, mark) \in Item
         /\ Entry(l, mark).kind = "link"
         /\ Entry(l, mark).link = l
         /\ Entry(l, mark).mark = mark
BY DEF Entry, Item

LEMMA GreatestPlace ==
  ASSUME NEW n \in Nat, NEW S \in SUBSET (1..n), S # {}
  PROVE  \E x \in S : \A y \in S : y <= x
<1>1. IsFiniteSet(S) /\ S \in SUBSET Nat
  <2>1. IsFiniteSet(1..n)
    BY FS_Interval
  <2>2. IsFiniteSet(S)
    BY <2>1, FS_Subset
  <2> QED BY <2>2
<1>2. Cardinality(S) \in Nat /\ Cardinality(S) # 0
  BY <1>1, FS_CardinalityType, FS_EmptySet
<1>3. PICK x \in S : Cardinality({j \in S : j <= x}) = Cardinality(S)
  BY <1>1, <1>2, OrderExists
<1>4. {j \in S : j <= x} = S
  <2> DEFINE T == {j \in S : j <= x}
  <2>1. T \in SUBSET S
    OBVIOUS
  <2> HIDE DEF T
  <2>2. Cardinality(S) = Cardinality(T)
    BY <1>3 DEF T
  <2>3. S = T
    BY <1>1, <2>1, <2>2, FS_Subset
  <2> QED BY <2>3 DEF T
<1> QED BY <1>4

PutAt(items, e, p) ==
  /\ p \in DOMAIN Put(items, e)
  /\ DOMAIN Put(items, e) = DOMAIN items \cup {p}
  /\ Put(items, e)[p] = e
  /\ \A i \in DOMAIN items \ {p} : Put(items, e)[i] = items[i]
  /\ p \in DOMAIN items => p \in Linked(items, e.link)
  /\ p \notin DOMAIN items => Linked(items, e.link) = {}

\* An entry is put at one place, and every element of another place stays.
LEMMA PutAtOnePlace ==
  ASSUME NEW items \in Seq(Item), NEW e \in Item, e.kind = "link"
  PROVE  Put(items, e) \in Seq(Item) /\ \E p : PutAt(items, e, p)
<1> DEFINE at == Linked(items, e.link)
<1>1. CASE at = {}
  <2>1. Put(items, e) = Append(items, e)
    BY <1>1 DEF Put
  <2>2. /\ Append(items, e) \in Seq(Item)
        /\ DOMAIN Append(items, e) = 1..(Len(items) + 1)
        /\ \A i \in DOMAIN items : Append(items, e)[i] = items[i]
        /\ Append(items, e)[Len(items) + 1] = e
    BY AppendedSeq
  <2>3. PICK p \in Nat : p = Len(items) + 1
    OBVIOUS
  <2>4. /\ DOMAIN items = 1..Len(items) /\ Len(items) \in Nat
        /\ 1..(Len(items) + 1) = DOMAIN items \cup {p} /\ p \notin DOMAIN items
    BY <2>3
  <2> HIDE DEF at
  <2>5. /\ DOMAIN Put(items, e) = DOMAIN items \cup {p}
        /\ Put(items, e)[p] = e
        /\ \A i \in DOMAIN items \ {p} : Put(items, e)[i] = items[i]
    BY <2>1, <2>2, <2>3, <2>4
  <2>6. PutAt(items, e, p)
    BY <1>1, <2>4, <2>5 DEF at, PutAt
  <2> QED BY <2>1, <2>2, <2>6
<1>2. CASE at # {}
  <2>1. at \in SUBSET (1..Len(items)) /\ Len(items) \in Nat
    BY DEF Linked
  <2> DEFINE p == CHOOSE i \in at : \A j \in at : j <= i
  <2>2. p \in at
    <3>1. \E i \in at : \A j \in at : j <= i
      <4> HIDE DEF at
      <4> QED BY <1>2, <2>1, GreatestPlace
    <3> HIDE DEF at
    <3> QED BY <3>1
  <2>3. Put(items, e) = [items EXCEPT ![p] = e]
    BY <1>2 DEF Put
  <2>4. p \in DOMAIN items
    <3> HIDE DEF at, p
    <3> QED BY <2>1, <2>2
  <2> HIDE DEF p
  <2>5. /\ [items EXCEPT ![p] = e] \in Seq(Item)
        /\ DOMAIN [items EXCEPT ![p] = e] = DOMAIN items
        /\ [items EXCEPT ![p] = e][p] = e
        /\ \A j \in DOMAIN items \ {p} : [items EXCEPT ![p] = e][j] = items[j]
    BY <2>4, ReplacedSeq
  <2>6. PutAt(items, e, p)
    BY <1>2, <2>2, <2>3, <2>4, <2>5 DEF PutAt
  <2> QED BY <2>3, <2>5, <2>6
<1> QED BY <1>1, <1>2

\* The entry that was put is there, with its mark.
LEMMA PutIsThere ==
  ASSUME NEW items \in Seq(Item), NEW e \in Item, e.kind = "link"
  PROVE  e.mark \in MarksOf(Put(items, e), e.link)
<1>1. PICK p : PutAt(items, e, p)
  BY PutAtOnePlace
<1> QED BY <1>1 DEF PutAt, MarksOf, Linked

\* The marks of another link are the ones they were.
LEMMA PutKeepsMarks ==
  ASSUME NEW items \in Seq(Item), NEW e \in Item, e.kind = "link",
         NEW l \in Links \ {e.link}, NEW m \in MarksOf(items, l)
  PROVE  m \in MarksOf(Put(items, e), l)
<1>1. PICK i \in Linked(items, l) : m = items[i].mark
  BY DEF MarksOf
<1>2. PICK p : PutAt(items, e, p)
  BY PutAtOnePlace
<1>3. i \in DOMAIN items \ {p}
  BY <1>1, <1>2 DEF PutAt, Linked
<1> QED BY <1>1, <1>2, <1>3 DEF PutAt, MarksOf, Linked

\* Nothing of another link comes or goes.
LEMMA PutKeepsOthers ==
  ASSUME NEW items \in Seq(Item), NEW e \in Item, e.kind = "link",
         NEW x, x.link # e.link
  PROVE  x \in ToSet(Put(items, e)) <=> x \in ToSet(items)
<1>1. PICK p : PutAt(items, e, p)
  BY PutAtOnePlace
<1>2. ASSUME NEW i \in DOMAIN items, x = items[i] PROVE x \in ToSet(Put(items, e))
  <2>1. i # p
    BY <1>1, <1>2 DEF PutAt, Linked
  <2> QED BY <1>1, <1>2, <2>1 DEF PutAt, ToSet
<1>3. ASSUME NEW i \in DOMAIN Put(items, e), x = Put(items, e)[i] PROVE x \in ToSet(items)
  <2>1. i # p
    BY <1>1, <1>3 DEF PutAt
  <2> QED BY <1>1, <1>3, <2>1 DEF PutAt, ToSet
<1> QED BY <1>2, <1>3 DEF ToSet

\* What stood once, as an object with "link", still does.
LEMMA PutKeepsOnce ==
  ASSUME NEW items \in Seq(Item), NEW e \in Item, e.kind = "link",
         NEW l, OnceIn(items, l)
  PROVE  OnceIn(Put(items, e), l)
<1>1. PICK p : PutAt(items, e, p)
  BY PutAtOnePlace
<1> DEFINE after == Put(items, e)
<1> SUFFICES ASSUME NEW i \in DOMAIN after, NEW j \in DOMAIN after,
                    after[i].link = l, after[j].link = l
             PROVE  i = j /\ after[i].kind = "link"
  BY DEF OnceIn
<1>2. \A x, y \in DOMAIN items :
        items[x].link = l /\ items[y].link = l => x = y /\ items[x].kind = "link"
  BY DEF OnceIn
<1> HIDE DEF after
<1>3. /\ DOMAIN after = DOMAIN items \cup {p} /\ after[p] = e
      /\ \A k \in DOMAIN items \ {p} : after[k] = items[k]
  BY <1>1 DEF PutAt, after
<1>4. CASE i # p /\ j # p
  BY <1>2, <1>3, <1>4
<1>5. CASE i = p /\ j = p
  BY <1>3, <1>5
<1>6. ASSUME NEW k \in DOMAIN items \ {p}, items[k].link = l, e.link = l PROVE FALSE
  <2>1. k \in Linked(items, l)
    BY <1>2, <1>6 DEF Linked
  <2>2. p \in DOMAIN items /\ items[p].link = l
    BY <1>1, <1>6, <2>1 DEF PutAt, Linked
  <2> QED BY <1>2, <1>6, <2>2
<1> QED BY <1>3, <1>4, <1>5, <1>6

-----------------------------------------------------------------------------
(* The inductive invariant                                                 *)

Writing == {"merging", "writing", "written"}

\* Of the links that are put, the last entry stands; j is where it was put.
PutsStand(t) ==
  \A k \in 1..tasks[t].put : \E j \in k..tasks[t].put :
    /\ Puts(tasks[t])[j].link = Puts(tasks[t])[k].link
    /\ Puts(tasks[t])[j].mark \in MarksOf(tasks[t].items, Puts(tasks[t])[k].link)

MergeInv(t) ==
  /\ tasks[t].put <= Len(Puts(tasks[t]))
  /\ PutsStand(t)
  /\ Others(tasks[t].items, t) = Others(tasks[t].base, t)
  /\ \A l \in Links : OnceIn(tasks[t].base, l) => OnceIn(tasks[t].items, l)
  /\ tasks[t].source = 0 => tasks[t].base \in {<<>>, LoadSource(files[0])}

\* A file that no other task has a claim to is as its task left it.
FileInv(t) ==
  /\ tasks[t].state = "writing" => files[tasks[t].at] = Empty
  /\ tasks[t].state = "written" => files[tasks[t].at] = Json(tasks[t].items)

TaskInv(t) ==
  /\ tasks[t].left \subseteq DOMAIN tasks[t].urls
  /\ IF tasks[t].state = "queued" THEN tasks[t].at = 0 ELSE tasks[t].at \in 1..MaxClock
  /\ tasks[t].state \in {"queued", "running"} => tasks[t].put = 0
  /\ tasks[t].state \in Writing => MergeInv(t)
  /\ tasks[t].state \in {"writing", "written"} => tasks[t].put = Len(Puts(tasks[t]))
  /\ Alone(t) => FileInv(t)

RoundInv == RoundTypeOK /\ \A t \in DOMAIN tasks : TaskInv(t)

-----------------------------------------------------------------------------
(* What a step changes                                                     *)

LEMMA ChangedTask ==
  ASSUME tasks \in Seq(Task), NEW t \in DOMAIN tasks, NEW after \in Task, Becomes(t, after)
  PROVE  /\ tasks' \in Seq(Task)
         /\ DOMAIN tasks' = DOMAIN tasks
         /\ tasks'[t] = after
         /\ \A u \in DOMAIN tasks \ {t} : tasks'[u] = tasks[u]
BY ReplacedSeq DEF Becomes

LEMMA ChangedFile ==
  ASSUME RoundTypeOK, NEW t \in DOMAIN tasks, tasks[t].at \in 1..MaxClock,
         NEW file \in File, Leaves(t, file)
  PROVE  /\ files' \in [Names -> File]
         /\ files'[0] = files[0]
         /\ files'[tasks[t].at] = file
         /\ \A n \in Names : n # tasks[t].at => files'[n] = files[n]
<1>1. 0 \in Names /\ tasks[t].at \in Names /\ tasks[t].at # 0
  BY BoundsAssumption DEF Names
<1> QED BY <1>1 DEF RoundTypeOK, Leaves

LEMMA FileKinds ==
  /\ Absent \in File /\ Empty \in File /\ Broken \in File
  /\ \A items \in Seq(Item) : Json(items) \in File
BY DEF Absent, Empty, Broken, Json, File

LEMMA TaskFields ==
  ASSUME NEW task \in Task
  PROVE  /\ task.source \in Names \cup {Upload} /\ task.urls \in Seq(Links)
         /\ task.force \in BOOLEAN /\ task.state \in States /\ task.at \in Names
         /\ task.left \in SUBSET Nat
         /\ task.results \in Seq(Links) /\ task.failures \in Seq(Links)
         /\ task.base \in Seq(Item) /\ task.items \in Seq(Item) /\ task.put \in Nat
BY DEF Task

\* What the invariant says of a task is kept by every step that leaves the task
\* and its file alone.
LEMMA SameTask ==
  ASSUME NEW u \in DOMAIN tasks, TaskInv(u), tasks'[u] = tasks[u],
         files'[0] = files[0],
         /\ Alone(u)'
         /\ tasks[u].state \in {"writing", "written"}
         => Alone(u) /\ files'[tasks[u].at] = files[tasks[u].at]
  PROVE  TaskInv(u)'
<1>1. MergeInv(u) => MergeInv(u)'
  BY DEF MergeInv, PutsStand, Others, Batch, Succeeded, Failed
<1>2. Alone(u)' => FileInv(u)'
  BY DEF FileInv, TaskInv
<1> QED BY <1>1, <1>2 DEF TaskInv

\* The steps of a task that write no file.
LEMMA QuietStep ==
  ASSUME RoundInv, NEW t \in DOMAIN tasks, NEW after \in Task, Becomes(t, after),
         UNCHANGED files, table' \subseteq Links, clock' \in 1..MaxClock,
         after.at = tasks[t].at \/ tasks[t].at = 0,
         TaskInv(t)'
  PROVE  RoundInv'
<1>1. /\ tasks' \in Seq(Task) /\ DOMAIN tasks' = DOMAIN tasks /\ tasks'[t] = after
      /\ \A u \in DOMAIN tasks \ {t} : tasks'[u] = tasks[u]
  BY ChangedTask DEF RoundInv, RoundTypeOK
<1>2. RoundTypeOK'
  BY <1>1 DEF RoundInv, RoundTypeOK
<1>3. ASSUME NEW u \in DOMAIN tasks \ {t} PROVE TaskInv(u)'
  <2>1. TaskInv(u) /\ TaskInv(t)
    BY DEF RoundInv
  <2>2. ASSUME Alone(u)', tasks[u].state \in {"writing", "written"} PROVE Alone(u)
    <3>1. tasks[u].at \in 1..MaxClock
      BY <2>1, <2>2 DEF TaskInv
    <3>2. \A w \in DOMAIN tasks \ {u} : tasks'[w].at # tasks[u].at
      BY <1>1, <2>2 DEF Alone
    <3>3. tasks[t].at # tasks[u].at
      BY <1>1, <3>1, <3>2
    <3> QED BY <1>1, <3>2, <3>3 DEF Alone
  <2> QED BY <1>1, <2>1, <2>2, SameTask
<1> QED BY <1>1, <1>2, <1>3 DEF RoundInv

\* The steps of a task that write its file.
LEMMA WritingStep ==
  ASSUME RoundInv, NEW t \in DOMAIN tasks, NEW after \in Task, Becomes(t, after),
         NEW file \in File, Leaves(t, file), UNCHANGED <<table, clock>>,
         tasks[t].at \in 1..MaxClock, after.at = tasks[t].at,
         TaskInv(t)'
  PROVE  RoundInv'
<1>1. /\ tasks' \in Seq(Task) /\ DOMAIN tasks' = DOMAIN tasks /\ tasks'[t] = after
      /\ \A u \in DOMAIN tasks \ {t} : tasks'[u] = tasks[u]
  BY ChangedTask DEF RoundInv, RoundTypeOK
<1>2. /\ files' \in [Names -> File] /\ files'[0] = files[0]
      /\ \A n \in Names : n # tasks[t].at => files'[n] = files[n]
  BY ChangedFile DEF RoundInv
<1>3. RoundTypeOK'
  BY <1>1, <1>2 DEF RoundInv, RoundTypeOK
<1>4. ASSUME NEW u \in DOMAIN tasks \ {t} PROVE TaskInv(u)'
  <2>1. TaskInv(u)
    BY DEF RoundInv
  <2>2. tasks[u].at \in Names
    BY ElementIn, TaskFields DEF RoundInv, RoundTypeOK
  <2>3. ASSUME Alone(u)' PROVE Alone(u) /\ files'[tasks[u].at] = files[tasks[u].at]
    <3>1. \A w \in DOMAIN tasks \ {u} : tasks'[w].at # tasks[u].at
      BY <1>1, <2>3 DEF Alone
    <3>2. tasks[t].at # tasks[u].at
      BY <1>1, <3>1
    <3> QED BY <1>1, <1>2, <2>2, <3>1, <3>2 DEF Alone
  <2> QED BY <1>1, <1>2, <2>1, <2>3, SameTask
<1> QED BY <1>1, <1>3, <1>4 DEF RoundInv

-----------------------------------------------------------------------------
(* The steps                                                               *)

LEMMA TaskIs ==
  ASSUME RoundInv, NEW t \in DOMAIN tasks
  PROVE  tasks[t] \in Task /\ TaskInv(t)
BY ElementIn DEF RoundInv, RoundTypeOK

LEMMA NewTaskFields ==
  ASSUME RoundInv, NEW t \in DOMAIN tasks, NEW after \in Task, Becomes(t, after)
  PROVE  tasks'[t] = after
BY ChangedTask DEF RoundInv, RoundTypeOK

LEMMA BeginKeeps ==
  ASSUME RoundInv, NEW t \in DOMAIN tasks, BeginRound(t)
  PROVE  RoundInv'
<1> DEFINE pending == {i \in DOMAIN tasks[t].urls :
                         tasks[t].force \/ tasks[t].urls[i] \notin table}
           after == [tasks[t] EXCEPT !.at = clock, !.left = pending,
                     !.state = IF pending = {} THEN "skipped" ELSE "running"]
<1>1. tasks[t] \in Task /\ TaskInv(t)
  BY TaskIs
<1>2. pending \in SUBSET Nat /\ pending \subseteq DOMAIN tasks[t].urls
  BY <1>1, TaskFields
<1>3. clock \in 1..MaxClock /\ clock \in Names /\ table \subseteq Links
  BY BoundsAssumption DEF RoundInv, RoundTypeOK, Names
<1>4. Becomes(t, after) /\ UNCHANGED <<files, table, clock>> /\ tasks[t].state = "queued"
  BY DEF BeginRound
<1> HIDE DEF pending
<1>5. after \in Task
  BY <1>1, <1>2, <1>3 DEF Task, States
<1>6. /\ after.put = tasks[t].put /\ after.at = clock /\ after.state \in {"skipped", "running"}
      /\ after.left = pending /\ after.urls = tasks[t].urls
  BY <1>1 DEF Task
<1> HIDE DEF after
<1>7. tasks'[t] = after
  BY <1>4, <1>5, NewTaskFields
<1>8. tasks[t].at = 0 /\ tasks[t].put = 0
  BY <1>1, <1>4 DEF TaskInv
<1>9. TaskInv(t)'
  BY <1>2, <1>3, <1>6, <1>7, <1>8 DEF TaskInv, FileInv, Writing
<1> QED BY <1>3, <1>4, <1>5, <1>8, <1>9, QuietStep

LEMMA AnalyseKeeps ==
  ASSUME RoundInv, NEW t \in DOMAIN tasks, NEW i \in tasks[t].left,
         NEW mark \in {"ok", "error"}, Analyse(t, i, mark)
  PROVE  RoundInv'
<1> DEFINE link == tasks[t].urls[i]
           left == tasks[t].left \ {i}
           saved == [tasks[t] EXCEPT !.left = left, !.results = Append(@, link)]
           failed == [tasks[t] EXCEPT !.left = left, !.failures = Append(@, link)]
<1>1. tasks[t] \in Task /\ TaskInv(t) /\ table \subseteq Links /\ clock \in 1..MaxClock
  BY TaskIs DEF RoundInv, RoundTypeOK
<1>2. link \in Links
  BY <1>1, TaskFields, ElementIn DEF TaskInv
<1>3. left \in SUBSET Nat /\ left \subseteq DOMAIN tasks[t].urls
  BY <1>1, TaskFields DEF TaskInv
<1>4. /\ Append(tasks[t].results, link) \in Seq(Links)
      /\ Append(tasks[t].failures, link) \in Seq(Links)
  <2> HIDE DEF link
  <2> QED BY <1>1, <1>2, TaskFields, AppendedSeq
<1>5. tasks[t].state = "running" /\ UNCHANGED <<files, clock>>
  BY DEF Analyse
<1>6. PICK after \in {saved, failed} : Becomes(t, after) /\ table' \in {table, table \cup {link}}
  BY DEF Analyse
<1> HIDE DEF link, left
<1>7. saved \in Task /\ failed \in Task
  BY <1>1, <1>3, <1>4 DEF Task
<1>8. /\ after.put = tasks[t].put /\ after.at = tasks[t].at /\ after.state = "running"
      /\ after.left = left /\ after.urls = tasks[t].urls
  BY <1>1, <1>5, <1>6 DEF Task
<1> HIDE DEF saved, failed
<1>9. tasks'[t] = after
  BY <1>6, <1>7, NewTaskFields
<1>10. TaskInv(t)'
  BY <1>1, <1>3, <1>5, <1>8, <1>9 DEF TaskInv, FileInv, Writing
<1> QED BY <1>1, <1>2, <1>5, <1>6, <1>7, <1>8, <1>10, QuietStep

LEMMA SourceIsFile ==
  ASSUME RoundInv, NEW task \in Task
  PROVE  SourceOf(task) \in File /\ (task.source = 0 => SourceOf(task) = files[0])
<1>1. task.source \in Names \cup {Upload} /\ files \in [Names -> File]
  BY TaskFields DEF RoundInv, RoundTypeOK
<1>2. task.source # Upload => task.source \in Names
  BY <1>1
<1>3. Upload # 0
  BY DEF Upload
<1> QED BY <1>1, <1>2, <1>3, FileKinds DEF SourceOf

LEMMA PutsAre ==
  ASSUME NEW task \in Task
  PROVE  /\ Len(task.results) \in Nat /\ Len(task.failures) \in Nat
         /\ Len(Puts(task)) = Len(task.results) + Len(task.failures)
         /\ DOMAIN Puts(task) = 1..Len(Puts(task))
         /\ \A k \in 1..Len(Puts(task)) :
              IF k <= Len(task.results)
              THEN task.results[k] \in Links /\ Puts(task)[k] = Entry(task.results[k], "ok")
              ELSE /\ k - Len(task.results) \in 1..Len(task.failures)
                   /\ task.failures[k - Len(task.results)] \in Links
                   /\ Puts(task)[k] = Entry(task.failures[k - Len(task.results)], "error")
<1>1. task.results \in Seq(Links) /\ task.failures \in Seq(Links)
  BY TaskFields
<1>2. PICK r \in Nat, f \in Nat : r = Len(task.results) /\ f = Len(task.failures)
  BY <1>1
<1>3. PICK n \in Nat : n = r + f
  OBVIOUS
<1>4. Puts(task) = [k \in 1..n |-> IF k <= r THEN Entry(task.results[k], "ok")
                                  ELSE Entry(task.failures[k - r], "error")]
  BY <1>2, <1>3 DEF Puts
<1>5. ASSUME NEW k \in 1..n
      PROVE  IF k <= r
             THEN task.results[k] \in Links /\ Puts(task)[k] = Entry(task.results[k], "ok")
             ELSE /\ k - r \in 1..f
                  /\ task.failures[k - r] \in Links
                  /\ Puts(task)[k] = Entry(task.failures[k - r], "error")
  <2>1. Puts(task)[k] = IF k <= r THEN Entry(task.results[k], "ok")
                        ELSE Entry(task.failures[k - r], "error")
    BY <1>4
  <2>2. CASE k <= r
    <3>1. k \in 1..Len(task.results)
      BY <1>2, <2>2
    <3>2. task.results[k] \in Links
      BY <1>1, <3>1
    <3> QED BY <2>1, <2>2, <3>2
  <2>3. CASE ~(k <= r)
    <3>1. k - r \in 1..f
      BY <1>3, <2>3
    <3>2. task.failures[k - r] \in Links
      BY <1>1, <1>2, <3>1
    <3> QED BY <2>1, <2>3, <3>1, <3>2
  <2> QED BY <2>2, <2>3
<1>6. ASSUME NEW k \in 1..n PROVE Puts(task)[k] \in Item
  BY <1>5, EntryIs
<1>7. Puts(task) \in [1..n -> Item]
  BY <1>4, <1>6
<1>8. Len(Puts(task)) = n /\ DOMAIN Puts(task) = 1..n
  BY <1>7, MadeSeq
<1> QED BY <1>2, <1>3, <1>5, <1>8

LEMMA PutsEntry ==
  ASSUME NEW task \in Task, NEW k \in 1..Len(Puts(task))
  PROVE  /\ Puts(task)[k] \in Item
         /\ Puts(task)[k].kind = "link"
         /\ Puts(task)[k].link \in ToSet(task.results) \cup ToSet(task.failures)
<1>1. CASE k <= Len(task.results)
  <2>1. task.results[k] \in Links /\ Puts(task)[k] = Entry(task.results[k], "ok")
    BY <1>1, PutsAre
  <2>2. task.results[k] \in ToSet(task.results)
    BY <1>1, PutsAre, TaskFields DEF ToSet
  <2> QED BY <2>1, <2>2, EntryIs
<1>2. CASE ~(k <= Len(task.results))
  <2>1. /\ k - Len(task.results) \in 1..Len(task.failures)
        /\ task.failures[k - Len(task.results)] \in Links
        /\ Puts(task)[k] = Entry(task.failures[k - Len(task.results)], "error")
    BY <1>2, PutsAre
  <2>2. task.failures[k - Len(task.results)] \in ToSet(task.failures)
    BY <2>1, TaskFields DEF ToSet
  <2> QED BY <2>1, <2>2, EntryIs
<1> QED BY <1>1, <1>2

LEMMA ReadKeepsRound ==
  ASSUME RoundInv, NEW t \in DOMAIN tasks, ReadSource(t)
  PROVE  RoundInv'
<1>1. tasks[t] \in Task /\ TaskInv(t) /\ table \subseteq Links /\ clock \in 1..MaxClock
  BY TaskIs DEF RoundInv, RoundTypeOK
<1>2. PICK read \in {LoadSource(SourceOf(tasks[t])), <<>>} :
        Becomes(t, [tasks[t] EXCEPT !.state = "merging", !.base = read, !.items = read])
  BY DEF ReadSource
<1> DEFINE after == [tasks[t] EXCEPT !.state = "merging", !.base = read, !.items = read]
<1>3. read \in Seq(Item)
  <2>1. LoadSource(SourceOf(tasks[t])) \in Seq(Item)
    BY <1>1, SourceIsFile, LoadIs
  <2>2. <<>> \in Seq(Item)
    OBVIOUS
  <2> QED BY <2>1, <2>2
<1>4. after \in Task
  BY <1>1, <1>3 DEF Task, States
<1>5. /\ after.state = "merging" /\ after.base = read /\ after.items = read
      /\ after.put = tasks[t].put /\ after.at = tasks[t].at /\ after.source = tasks[t].source
      /\ after.left = tasks[t].left /\ after.urls = tasks[t].urls
  BY <1>1 DEF Task
<1>6. Becomes(t, after) /\ UNCHANGED <<files, table, clock>> /\ tasks[t].state = "running"
  BY <1>2 DEF ReadSource
<1> HIDE DEF after
<1>7. tasks'[t] = after
  BY <1>4, <1>6, NewTaskFields
<1>8. after.put = 0 /\ after.at \in 1..MaxClock
  BY <1>1, <1>5, <1>6 DEF TaskInv
<1>9. MergeInv(t)'
  <2>1. Len(Puts(after)) \in Nat
    BY <1>4, PutsAre
  <2>2. PutsStand(t)'
    BY <1>7, <1>8 DEF PutsStand
  <2>3. Others(tasks[t].items, t)' = Others(tasks[t].base, t)'
    BY <1>5, <1>7 DEF Others
  <2>4. after.source = 0 => after.base \in {<<>>, LoadSource(files[0])}
    BY <1>1, <1>5, SourceIsFile
  <2> QED BY <1>5, <1>6, <1>7, <1>8, <2>1, <2>2, <2>3, <2>4 DEF MergeInv
<1>10. TaskInv(t)'
  BY <1>1, <1>5, <1>7, <1>8, <1>9 DEF TaskInv, FileInv
<1> QED BY <1>1, <1>4, <1>5, <1>6, <1>10, QuietStep

LEMMA PutKeepsRound ==
  ASSUME RoundInv, NEW t \in DOMAIN tasks, PutEntry(t)
  PROVE  RoundInv'
<1> DEFINE puts == Puts(tasks[t])
           e == puts[tasks[t].put + 1]
           after == [tasks[t] EXCEPT !.items = Put(@, e), !.put = @ + 1]
<1>1. tasks[t] \in Task /\ TaskInv(t) /\ table \subseteq Links /\ clock \in 1..MaxClock
  BY TaskIs DEF RoundInv, RoundTypeOK
<1>2. /\ tasks[t].state = "merging" /\ tasks[t].put < Len(puts)
      /\ Becomes(t, after) /\ UNCHANGED <<files, table, clock>>
  BY DEF PutEntry
<1>3. tasks[t].put \in Nat /\ tasks[t].items \in Seq(Item) /\ Len(puts) \in Nat
  BY <1>1, TaskFields, PutsAre
<1>4. PICK p \in Nat : p = tasks[t].put + 1
  BY <1>3
<1>5. p \in 1..Len(puts) /\ e = puts[p]
  BY <1>2, <1>3, <1>4
<1>6. e \in Item /\ e.kind = "link" /\ e.link \in Batch(t)
  <2> HIDE DEF e
  <2> QED BY <1>1, <1>5, PutsEntry DEF Batch, Succeeded, Failed
<1> HIDE DEF e
<1>7. Put(tasks[t].items, e) \in Seq(Item)
  BY <1>3, <1>6, PutAtOnePlace
<1>8. after \in Task
  <2>1. tasks[t].put + 1 \in Nat
    BY <1>3
  <2> QED BY <1>1, <1>7, <2>1 DEF Task
<1>9. /\ after.state = "merging" /\ after.base = tasks[t].base /\ after.put = p
      /\ after.items = Put(tasks[t].items, e)
      /\ after.at = tasks[t].at /\ after.source = tasks[t].source
      /\ after.left = tasks[t].left /\ after.urls = tasks[t].urls
      /\ after.results = tasks[t].results /\ after.failures = tasks[t].failures
  BY <1>1, <1>2, <1>4 DEF Task
<1> HIDE DEF after
<1>10. tasks'[t] = after
  BY <1>2, <1>8, NewTaskFields
<1>11. Puts(after) = puts /\ Batch(t)' = Batch(t)
  BY <1>9, <1>10 DEF Puts, Batch, Succeeded, Failed
<1>12. MergeInv(t)
  BY <1>1, <1>2 DEF TaskInv, Writing
<1> HIDE DEF puts
<1>13. ASSUME NEW k \in 1..p
       PROVE  \E j \in k..p : /\ puts[j].link = puts[k].link
                              /\ puts[j].mark \in MarksOf(after.items, puts[k].link)
  <2>1. e.mark \in MarksOf(after.items, e.link)
    BY <1>3, <1>6, <1>9, PutIsThere
  <2>2. p \in k..p
    OBVIOUS
  <2>3. CASE k = p
    BY <1>5, <2>1, <2>2, <2>3
  <2>4. CASE k # p
    <3>1. k \in 1..tasks[t].put
      BY <1>3, <1>4, <2>4
    <3>2. PICK j \in k..tasks[t].put :
            /\ puts[j].link = puts[k].link
            /\ puts[j].mark \in MarksOf(tasks[t].items, puts[k].link)
      BY <1>12, <3>1 DEF MergeInv, PutsStand, puts
    <3>3. j \in k..p
      BY <1>3, <1>4, <3>2
    <3>4. CASE puts[k].link = e.link
      BY <1>5, <2>1, <2>2, <3>4
    <3>5. CASE puts[k].link # e.link
      <4>1. puts[k].link \in Links
        <5>1. k \in 1..Len(puts)
          BY <1>3, <1>5
        <5>2. puts[k] \in Item
          BY <1>1, <5>1, PutsEntry DEF puts
        <5> QED BY <5>2 DEF Item
      <4>2. puts[j].mark \in MarksOf(after.items, puts[k].link)
        BY <1>3, <1>6, <1>9, <3>2, <3>5, <4>1, PutKeepsMarks
      <4> QED BY <3>2, <3>3, <4>2
    <3> QED BY <3>4, <3>5
  <2> QED BY <2>3, <2>4
<1>14. PutsStand(t)'
  BY <1>9, <1>10, <1>11, <1>13 DEF PutsStand
<1>15. Others(tasks[t].items, t)' = Others(tasks[t].base, t)'
  <2>1. ASSUME NEW x, x.link \notin Batch(t)
        PROVE  x \in ToSet(after.items) <=> x \in ToSet(tasks[t].items)
    <3>1. x.link # e.link
      BY <1>6, <2>1
    <3> QED BY <1>3, <1>6, <1>9, <3>1, PutKeepsOthers
  <2>2. {x \in ToSet(after.items) : x.link \notin Batch(t)}
          = {x \in ToSet(tasks[t].items) : x.link \notin Batch(t)}
    BY <2>1
  <2>3. {x \in ToSet(after.items) : x.link \notin Batch(t)} = Others(tasks[t].base, t)
    BY <1>12, <2>2 DEF MergeInv, Others
  <2>4. Others(tasks[t].items, t)' = {x \in ToSet(after.items) : x.link \notin Batch(t)}
    BY <1>10, <1>11 DEF Others
  <2>5. Others(tasks[t].base, t)' = Others(tasks[t].base, t)
    BY <1>9, <1>10, <1>11 DEF Others
  <2> QED BY <2>3, <2>4, <2>5
<1>16. ASSUME NEW l \in Links, OnceIn(after.base, l) PROVE OnceIn(after.items, l)
  <2>1. OnceIn(tasks[t].items, l)
    BY <1>9, <1>12, <1>16 DEF MergeInv
  <2> QED BY <1>3, <1>6, <1>9, <2>1, PutKeepsOnce
<1>17. MergeInv(t)'
  <2>1. after.put <= Len(Puts(after))
    BY <1>3, <1>5, <1>9, <1>11
  <2>2. after.source = 0 => after.base \in {<<>>, LoadSource(files'[0])}
    BY <1>2, <1>9, <1>12 DEF MergeInv
  <2> QED BY <1>10, <1>14, <1>15, <1>16, <2>1, <2>2 DEF MergeInv
<1>18. TaskInv(t)'
  BY <1>1, <1>2, <1>9, <1>10, <1>17 DEF TaskInv, FileInv
<1> QED BY <1>1, <1>2, <1>8, <1>9, <1>18, QuietStep

\* A task that only goes on to another state keeps what it has merged.
LEMMA GoesKeeps ==
  ASSUME RoundInv, NEW t \in DOMAIN tasks, NEW state \in States, Goes(t, state),
         files'[0] = files[0]
  PROVE  \E after \in Task :
           /\ Becomes(t, after) /\ tasks'[t] = after
           /\ after.state = state /\ after.at = tasks[t].at /\ after.items = tasks[t].items
           /\ after.put = tasks[t].put /\ Puts(after) = Puts(tasks[t])
           /\ after.left = tasks[t].left /\ after.urls = tasks[t].urls
           /\ MergeInv(t) => MergeInv(t)'
<1> DEFINE after == [tasks[t] EXCEPT !.state = state]
<1>1. tasks[t] \in Task
  BY TaskIs
<1>2. Becomes(t, after)
  BY DEF Goes
<1>3. after \in Task
  BY <1>1 DEF Task
<1>4. /\ after.state = state /\ after.base = tasks[t].base /\ after.put = tasks[t].put
      /\ after.items = tasks[t].items
      /\ after.at = tasks[t].at /\ after.source = tasks[t].source
      /\ after.left = tasks[t].left /\ after.urls = tasks[t].urls
      /\ after.results = tasks[t].results /\ after.failures = tasks[t].failures
  BY <1>1 DEF Task
<1> HIDE DEF after
<1>5. tasks'[t] = after
  BY <1>2, <1>3, NewTaskFields
<1>6. Puts(after) = Puts(tasks[t])
  BY <1>4 DEF Puts
<1>7. MergeInv(t) => MergeInv(t)'
  BY <1>4, <1>5, <1>6 DEF MergeInv, PutsStand, Others, Batch, Succeeded, Failed
<1> QED BY <1>2, <1>3, <1>4, <1>5, <1>6, <1>7

LEMMA GoneKeeps ==
  ASSUME RoundInv, NEW t \in DOMAIN tasks, NEW state \in {"unwritten", "dead"},
         Goes(t, state), tasks[t].state \in {"running", "merging", "writing"},
         UNCHANGED <<table, clock>>,
         UNCHANGED files \/ (tasks[t].state = "writing" /\ Leaves(t, Broken))
  PROVE  RoundInv'
<1>1. tasks[t] \in Task /\ TaskInv(t) /\ table \subseteq Links /\ clock \in 1..MaxClock
  BY TaskIs DEF RoundInv, RoundTypeOK
<1>2. tasks[t].at \in 1..MaxClock
  BY <1>1 DEF TaskInv
<1>3. files'[0] = files[0]
  BY <1>2, ChangedFile, FileKinds DEF RoundInv
<1>4. PICK after \in Task :
        /\ Becomes(t, after) /\ tasks'[t] = after
        /\ after.state = state /\ after.at = tasks[t].at
        /\ after.left = tasks[t].left /\ after.urls = tasks[t].urls
  BY <1>3, GoesKeeps DEF States
<1>5. TaskInv(t)'
  BY <1>1, <1>2, <1>4 DEF TaskInv, FileInv, Writing
<1>6. CASE UNCHANGED files
  BY <1>1, <1>4, <1>5, <1>6, QuietStep
<1>7. CASE Leaves(t, Broken)
  BY <1>2, <1>4, <1>5, <1>7, FileKinds, WritingStep
<1> QED BY <1>6, <1>7

LEMMA OpenKeeps ==
  ASSUME RoundInv, NEW t \in DOMAIN tasks, OpenOutput(t)
  PROVE  RoundInv'
<1>1. TaskInv(t)
  BY TaskIs
<1>2. /\ tasks[t].state = "merging" /\ tasks[t].put = Len(Puts(tasks[t]))
      /\ Leaves(t, Empty) /\ Goes(t, "writing") /\ UNCHANGED <<table, clock>>
  BY DEF OpenOutput, Merged
<1>3. tasks[t].at \in 1..MaxClock
  BY <1>1, <1>2 DEF TaskInv
<1>4. files'[0] = files[0] /\ files'[tasks[t].at] = Empty
  BY <1>2, <1>3, ChangedFile, FileKinds DEF RoundInv
<1>5. PICK after \in Task :
        /\ Becomes(t, after) /\ tasks'[t] = after
        /\ after.state = "writing" /\ after.at = tasks[t].at
        /\ after.put = tasks[t].put /\ Puts(after) = Puts(tasks[t])
        /\ after.left = tasks[t].left /\ after.urls = tasks[t].urls
        /\ MergeInv(t) => MergeInv(t)'
  BY <1>2, <1>4, GoesKeeps DEF States
<1>6. MergeInv(t)'
  BY <1>1, <1>2, <1>5 DEF TaskInv, Writing
<1>7. FileInv(t)'
  BY <1>4, <1>5 DEF FileInv
<1>8. TaskInv(t)'
  BY <1>1, <1>2, <1>3, <1>5, <1>6, <1>7 DEF TaskInv
<1> QED BY <1>2, <1>3, <1>5, <1>8, FileKinds, WritingStep

LEMMA DumpKeeps ==
  ASSUME RoundInv, NEW t \in DOMAIN tasks, Dump(t)
  PROVE  RoundInv'
<1>1. tasks[t] \in Task /\ TaskInv(t)
  BY TaskIs
<1>2. /\ tasks[t].state = "writing"
      /\ Goes(t, "written") /\ UNCHANGED <<table, clock>>
  BY DEF Dump
<1>3. tasks[t].at \in 1..MaxClock /\ tasks[t].items \in Seq(Item)
  BY <1>1, <1>2, TaskFields DEF TaskInv
<1>4. PICK file \in File :
        /\ Leaves(t, file)
        /\ file # Json(tasks[t].items) => Contested(t)
  BY <1>3, FileKinds DEF Dump
<1>5. files'[0] = files[0] /\ files'[tasks[t].at] = file
  BY <1>3, <1>4, ChangedFile DEF RoundInv
<1>6. PICK after \in Task :
        /\ Becomes(t, after) /\ tasks'[t] = after
        /\ after.state = "written" /\ after.at = tasks[t].at /\ after.items = tasks[t].items
        /\ after.put = tasks[t].put /\ Puts(after) = Puts(tasks[t])
        /\ after.left = tasks[t].left /\ after.urls = tasks[t].urls
        /\ MergeInv(t) => MergeInv(t)'
  BY <1>2, <1>5, GoesKeeps DEF States
<1>7. MergeInv(t)'
  BY <1>1, <1>2, <1>6 DEF TaskInv, Writing
\* Nobody else writes the file of a task that is alone in its second.
<1>8. ASSUME Alone(t)' PROVE FileInv(t)'
  <2>1. Alone(t)
    <3>1. DOMAIN tasks' = DOMAIN tasks /\ \A u \in DOMAIN tasks \ {t} : tasks'[u] = tasks[u]
      BY <1>6, ChangedTask DEF RoundInv, RoundTypeOK
    <3> QED BY <1>6, <1>8, <3>1 DEF Alone
  <2>2. ~Contested(t)
    BY <1>1, <1>2, <2>1 DEF TaskInv, FileInv, Contested, Alone
  <2>3. file = Json(tasks[t].items)
    BY <1>4, <2>2
  <2> QED BY <1>5, <1>6, <2>3 DEF FileInv
<1>9. TaskInv(t)'
  BY <1>1, <1>2, <1>3, <1>6, <1>7, <1>8 DEF TaskInv
<1> QED BY <1>2, <1>3, <1>4, <1>6, <1>9, WritingStep

LEMMA SendKeeps ==
  ASSUME RoundInv, NEW source \in Names \cup {Upload}, NEW items \in Seq(Item),
         NEW force \in BOOLEAN, Send(source, items, force)
  PROVE  RoundInv'
<1> DEFINE after == [source |-> source, urls |-> Extract(items), force |-> force,
                   state |-> "queued", at |-> 0, left |-> {}, results |-> <<>>,
                   failures |-> <<>>, base |-> <<>>, items |-> <<>>, put |-> 0]
<1>1. after \in Task
  <2>1. Extract(items) \in Seq(Links) /\ 0 \in Names /\ "queued" \in States
    BY ExtractIs, BoundsAssumption DEF Names, States
  <2>2. <<>> \in Seq(Links) /\ <<>> \in Seq(Item)
    OBVIOUS
  <2> QED BY <2>1, <2>2 DEF Task
<1>2. /\ after.state = "queued" /\ after.at = 0 /\ after.left = {} /\ after.put = 0
  OBVIOUS
<1>3. tasks' = Append(tasks, after) /\ UNCHANGED <<files, table, clock>>
  BY DEF Send
<1> HIDE DEF after
<1>4. PICK n \in Nat : n = Len(tasks) + 1
  BY DEF RoundInv, RoundTypeOK
<1>5. /\ tasks' \in Seq(Task) /\ DOMAIN tasks' = 1..n /\ DOMAIN tasks = 1..(n - 1)
      /\ \A u \in DOMAIN tasks : tasks'[u] = tasks[u]
      /\ tasks'[n] = after
  BY <1>1, <1>3, <1>4, AppendedSeq DEF RoundInv, RoundTypeOK
<1>6. DOMAIN tasks' = DOMAIN tasks \cup {n}
  BY <1>4, <1>5
<1>7. RoundTypeOK'
  BY <1>3, <1>5 DEF RoundInv, RoundTypeOK
<1>8. TaskInv(n)'
  BY <1>2, <1>5 DEF TaskInv, FileInv, Writing
<1>9. ASSUME NEW u \in DOMAIN tasks PROVE TaskInv(u)'
  <2>1. TaskInv(u) /\ tasks'[u] = tasks[u]
    BY <1>5 DEF RoundInv
  <2>2. Alone(u)' => Alone(u)
    BY <1>5, <1>6 DEF Alone
  <2> QED BY <1>3, <2>1, <2>2, SameTask
<1> QED BY <1>6, <1>7, <1>8, <1>9 DEF RoundInv

-----------------------------------------------------------------------------
(* The theorems                                                            *)

LEMMA RoundInvInit == RoundInit => RoundInv
<1> SUFFICES ASSUME RoundInit PROVE RoundInv
  OBVIOUS
<1>1. PICK items \in Sources : files = [n \in Names |-> IF n = 0 THEN Json(items) ELSE Absent]
  BY DEF RoundInit
<1>2. Json(items) \in File /\ Absent \in File
  BY SourcesAssumption, FileKinds
<1>3. files \in [Names -> File]
  BY <1>1, <1>2
<1>4. table \subseteq Links /\ clock \in 1..MaxClock /\ tasks = <<>>
  BY AnalysedAssumption, BoundsAssumption DEF RoundInit
<1>5. tasks \in Seq(Task) /\ DOMAIN tasks = {}
  BY <1>4
<1> QED BY <1>3, <1>4, <1>5 DEF RoundInv, RoundTypeOK

LEMMA RoundInvStutter == RoundInv /\ UNCHANGED roundVars => RoundInv'
<1> SUFFICES ASSUME RoundInv, UNCHANGED roundVars PROVE RoundInv'
  OBVIOUS
<1>1. files' = files /\ table' = table /\ clock' = clock /\ tasks' = tasks
  BY DEF roundVars
<1>2. RoundTypeOK'
  BY <1>1 DEF RoundInv, RoundTypeOK
<1>3. ASSUME NEW u \in DOMAIN tasks PROVE TaskInv(u)'
  <2>1. Alone(u)' => Alone(u)
    BY <1>1 DEF Alone
  <2> QED BY <1>1, <2>1, SameTask DEF RoundInv
<1> QED BY <1>1, <1>2, <1>3 DEF RoundInv

LEMMA TickKeeps == RoundInv /\ Tick => RoundInv'
<1> SUFFICES ASSUME RoundInv, Tick PROVE RoundInv'
  OBVIOUS
<1>1. files' = files /\ table' = table /\ tasks' = tasks /\ clock' \in 1..MaxClock
  BY BoundsAssumption DEF Tick, RoundInv, RoundTypeOK
<1>2. RoundTypeOK'
  BY <1>1 DEF RoundInv, RoundTypeOK
<1>3. ASSUME NEW u \in DOMAIN tasks PROVE TaskInv(u)'
  <2>1. Alone(u)' => Alone(u)
    BY <1>1 DEF Alone
  <2> QED BY <1>1, <2>1, SameTask DEF RoundInv
<1> QED BY <1>1, <1>2, <1>3 DEF RoundInv

LEMMA RoundInvStep == RoundInv /\ [RoundNext]_roundVars => RoundInv'
<1> SUFFICES ASSUME RoundInv, [RoundNext]_roundVars PROVE RoundInv'
  OBVIOUS
<1>1. CASE UNCHANGED roundVars
  BY <1>1, RoundInvStutter
<1>2. CASE Tick
  BY <1>2, TickKeeps
<1>3. ASSUME NEW force \in BOOLEAN, NEW n \in Names, SendFile(n, force) PROVE RoundInv'
  <2>1. files[n].items \in Seq(Item)
    BY DEF RoundInv, RoundTypeOK, File
  <2> QED BY <1>3, <2>1, SendKeeps DEF SendFile
<1>4. ASSUME NEW force \in BOOLEAN, NEW items \in Sources, SendUpload(items, force)
      PROVE  RoundInv'
  <2>1. items \in Seq(Item)
    BY SourcesAssumption
  <2> QED BY <1>4, <2>1, SendKeeps DEF SendUpload
<1>5. ASSUME NEW t \in DOMAIN tasks, BeginRound(t) PROVE RoundInv'
  BY <1>5, BeginKeeps
<1>6. ASSUME NEW t \in DOMAIN tasks, NEW i \in tasks[t].left, NEW mark \in {"ok", "error"},
             Analyse(t, i, mark)
      PROVE  RoundInv'
  BY <1>6, AnalyseKeeps
<1>7. ASSUME NEW t \in DOMAIN tasks, ReadSource(t) PROVE RoundInv'
  BY <1>7, ReadKeepsRound
<1>8. ASSUME NEW t \in DOMAIN tasks, PutEntry(t) PROVE RoundInv'
  BY <1>8, PutKeepsRound
<1>9. ASSUME NEW t \in DOMAIN tasks, OpenOutput(t) PROVE RoundInv'
  BY <1>9, OpenKeeps
<1>10. ASSUME NEW t \in DOMAIN tasks, OpenFails(t) PROVE RoundInv'
  BY <1>10, GoneKeeps DEF OpenFails, Merged
<1>11. ASSUME NEW t \in DOMAIN tasks, Dump(t) PROVE RoundInv'
  BY <1>11, DumpKeeps
<1>12. ASSUME NEW t \in DOMAIN tasks, DumpFails(t) PROVE RoundInv'
  BY <1>12, GoneKeeps DEF DumpFails
<1>13. ASSUME NEW t \in DOMAIN tasks, Die(t) PROVE RoundInv'
  BY <1>13, GoneKeeps DEF Die
<1> QED BY <1>1, <1>2, <1>3, <1>4, <1>5, <1>6, <1>7, <1>8, <1>9, <1>10, <1>11, <1>12, <1>13
        DEF RoundNext

\* The types, and that one inductive invariant, hold in every round.
LEMMA RoundInvAlways == RoundSpec => []RoundInv
<1>1. RoundInit => RoundInv
  BY RoundInvInit
<1>2. RoundInv /\ [RoundNext]_roundVars => RoundInv'
  BY RoundInvStep
<1> QED BY <1>1, <1>2, PTL DEF RoundSpec

\* For any sources, cap, number of tasks and seconds, the variables of the
\* reader and the writer keep their types.
THEOREM RoundTypes == RoundSpec => []RoundTypeOK
<1>1. RoundInv => RoundTypeOK
  BY DEF RoundInv
<1> QED BY <1>1, RoundInvAlways, PTL

\* What a task that has put everything has in its array.
LEMMA AllIsPut ==
  ASSUME NEW t \in DOMAIN tasks, tasks[t] \in Task, MergeInv(t),
         tasks[t].put = Len(Puts(tasks[t]))
  PROVE  /\ \A l \in Failed(t) : "error" \in MarksOf(tasks[t].items, l)
         /\ \A l \in Batch(t) \ Failed(t) : "ok" \in MarksOf(tasks[t].items, l)
<1> DEFINE puts == Puts(tasks[t])
<1>1. PICK r \in Nat, f \in Nat, n \in Nat :
        r = Len(tasks[t].results) /\ f = Len(tasks[t].failures) /\ n = r + f
  <2>1. PICK r \in Nat, f \in Nat : r = Len(tasks[t].results) /\ f = Len(tasks[t].failures)
    BY PutsAre
  <2>2. PICK n \in Nat : n = r + f
    OBVIOUS
  <2> QED BY <2>1, <2>2
<1>2. Len(puts) = n
  BY <1>1, PutsAre
<1> n = r + f
  BY <1>1
<1>3. ASSUME NEW k \in 1..n
      PROVE  /\ k <= r => puts[k].link = tasks[t].results[k] /\ puts[k].mark = "ok"
             /\ ~(k <= r) => /\ puts[k].link \in Failed(t) /\ puts[k].mark = "error"
                             /\ puts[k].link = tasks[t].failures[k - r]
  <2>1. CASE k <= r
    <3>1. tasks[t].results[k] \in Links /\ puts[k] = Entry(tasks[t].results[k], "ok")
      BY <1>1, <1>2, <2>1, PutsAre
    <3> QED BY <2>1, <3>1, EntryIs
  <2>2. CASE ~(k <= r)
    <3>1. /\ k - r \in 1..f /\ tasks[t].failures[k - r] \in Links
          /\ puts[k] = Entry(tasks[t].failures[k - r], "error")
      BY <1>1, <1>2, <2>2, PutsAre
    <3>2. tasks[t].failures[k - r] \in Failed(t)
      BY <1>1, <3>1, TaskFields DEF Failed, ToSet
    <3> QED BY <2>2, <3>1, <3>2, EntryIs
  <2> QED BY <2>1, <2>2
<1>4. ASSUME NEW k \in 1..n
      PROVE  \E j \in k..n : /\ puts[j].link = puts[k].link
                             /\ puts[j].mark \in MarksOf(tasks[t].items, puts[k].link)
  BY <1>2 DEF MergeInv, PutsStand
<1> HIDE DEF puts
<1>5. ASSUME NEW l \in Failed(t) PROVE "error" \in MarksOf(tasks[t].items, l)
  <2>1. PICK i \in 1..f : l = tasks[t].failures[i]
    BY <1>1, TaskFields DEF Failed, ToSet
  <2>2. PICK k \in 1..n : k = r + i
    <3>1. r + i \in 1..n
      OBVIOUS
    <3> QED BY <3>1
  <2>3. ~(k <= r) /\ k - r = i
    BY <2>2
  <2>4. puts[k].link = l
    BY <1>3, <2>1, <2>3
  <2>5. PICK j \in k..n : puts[j].mark \in MarksOf(tasks[t].items, l)
    BY <1>4, <2>4
  <2>6. j \in 1..n /\ ~(j <= r)
    BY <2>3, <2>5
  <2> QED BY <1>3, <2>5, <2>6
<1>6. ASSUME NEW l \in Batch(t) \ Failed(t) PROVE "ok" \in MarksOf(tasks[t].items, l)
  <2>1. PICK k \in 1..r : l = tasks[t].results[k]
    BY <1>1, TaskFields DEF Batch, Succeeded, ToSet
  <2>2. k \in 1..n /\ k <= r
    <3>1. r <= n
      OBVIOUS
    <3> QED BY <3>1
  <2>3. puts[k].link = l
    BY <1>3, <2>1, <2>2
  <2>4. PICK j \in k..n : puts[j].link = l /\ puts[j].mark \in MarksOf(tasks[t].items, l)
    BY <1>4, <2>2, <2>3
  <2>5. j \in 1..n
    BY <2>2, <2>4
  <2>6. j <= r
    BY <1>3, <1>6, <2>4, <2>5
  <2> QED BY <1>3, <2>4, <2>5, <2>6
<1> QED BY <1>5, <1>6

\* In every behaviour, whatever the other tasks do to the files, a file whose
\* task is alone in its second tells what that task found.
THEOREM OutputAlwaysTellsTask == RoundSpec => []OutputTellsTask
<1>1. RoundInv => OutputTellsTask
  <2> SUFFICES ASSUME RoundInv, NEW t \in DOMAIN tasks, tasks[t].state = "written", Alone(t)
               PROVE  LET out == files[tasks[t].at].items
                      IN  /\ files[tasks[t].at].is = "json"
                          /\ \A l \in Failed(t) : "error" \in MarksOf(out, l)
                          /\ \A l \in Batch(t) \ Failed(t) : "ok" \in MarksOf(out, l)
                          /\ Others(out, t) = Others(tasks[t].base, t)
                          /\ tasks[t].source = 0 =>
                               tasks[t].base \in {<<>>, LoadSource(files[0])}
    BY DEF OutputTellsTask
  <2>1. tasks[t] \in Task /\ TaskInv(t)
    BY TaskIs
  <2>2. MergeInv(t) /\ tasks[t].put = Len(Puts(tasks[t]))
        /\ files[tasks[t].at] = Json(tasks[t].items)
    BY <2>1 DEF TaskInv, FileInv, Writing
  <2>3. files[tasks[t].at].is = "json" /\ files[tasks[t].at].items = tasks[t].items
    BY <2>2 DEF Json
  <2> QED BY <2>1, <2>2, <2>3, AllIsPut DEF MergeInv
<1> QED BY <1>1, RoundInvAlways, PTL

\* A round takes a link from a file exactly if one of its elements is unfinished.
LEMMA OpenIs ==
  ASSUME NEW items \in Seq(Item), NEW l
  PROVE  l \in Open(items) <=> \E x \in ToSet(items) : x.link = l /\ Unfinished(x)
BY ReaderTakes

LEMMA StillOpen ==
  ASSUME NEW items \in Seq(Item), NEW l, "error" \in MarksOf(items, l)
  PROVE  l \in Open(items)
<1>1. PICK i \in DOMAIN items : items[i].link = l /\ items[i].mark = "error"
  BY DEF MarksOf, Linked
<1>2. items[i] \in ToSet(items) /\ Unfinished(items[i])
  BY <1>1 DEF ToSet, Unfinished
<1> QED BY <1>1, <1>2, OpenIs

LEMMA NotOpen ==
  ASSUME NEW items \in Seq(Item), NEW l, "ok" \in MarksOf(items, l), OnceIn(items, l)
  PROVE  l \notin Open(items)
<1>1. PICK i \in DOMAIN items : items[i].link = l /\ items[i].mark = "ok"
  BY DEF MarksOf, Linked
<1>2. ASSUME NEW j \in DOMAIN items, items[j].link = l PROVE ~Unfinished(items[j])
  <2>1. i = j /\ items[j].kind = "link"
    BY <1>1, <1>2 DEF OnceIn
  <2> QED BY <1>1, <2>1 DEF Unfinished
<1>3. \A x \in ToSet(items) : x.link = l => ~Unfinished(x)
  BY <1>2 DEF ToSet
<1> QED BY <1>3, OpenIs

LEMMA OthersWait ==
  ASSUME RoundInv, NEW u \in DOMAIN tasks, NEW after \in Task, Becomes(u, after),
         NEW t \in DOMAIN tasks \ {u}
  PROVE  tasks'[t] = tasks[t]
BY ChangedTask DEF RoundInv, RoundTypeOK

\* Only one step ends the writing with success.
LEMMA OnlyDumpWrites ==
  ASSUME RoundInv, RoundInv', [RoundNext]_roundVars, NEW t \in DOMAIN tasks,
         tasks[t].state = "writing", tasks'[t].state = "written"
  PROVE  Dump(t)
<1>1. /\ tasks \in Seq(Task) /\ tasks[t] \in Task /\ tasks' # tasks
  BY TaskIs DEF RoundInv, RoundTypeOK
<1>2. ASSUME NEW u \in DOMAIN tasks, NEW task, Becomes(u, task), u # t PROVE FALSE
  BY <1>1, <1>2 DEF Becomes
<1>3. ASSUME NEW source, NEW items, NEW force, Send(source, items, force) PROVE FALSE
  <2>1. tasks'[t] = tasks[t]
    BY <1>1, <1>3 DEF Send
  <2> QED BY <2>1
<1>4. ASSUME NEW state, state # "written", Goes(t, state) PROVE FALSE
  BY <1>1, <1>4 DEF Goes, Becomes, Task
<1>5. ~UNCHANGED roundVars /\ ~Tick
  BY <1>1 DEF roundVars, Tick
<1>6. ASSUME NEW force \in BOOLEAN, NEW n \in Names PROVE ~SendFile(n, force)
  BY <1>3 DEF SendFile
<1>7. ASSUME NEW force \in BOOLEAN, NEW items \in Sources PROVE ~SendUpload(items, force)
  BY <1>3 DEF SendUpload
<1>8. ASSUME NEW u \in DOMAIN tasks PROVE ~BeginRound(u)
  BY <1>2 DEF BeginRound
<1>9. ASSUME NEW u \in DOMAIN tasks, NEW i \in tasks[u].left, NEW mark \in {"ok", "error"}
      PROVE  ~Analyse(u, i, mark)
  BY <1>2 DEF Analyse
<1>10. ASSUME NEW u \in DOMAIN tasks PROVE ~ReadSource(u)
  BY <1>2 DEF ReadSource
<1>11. ASSUME NEW u \in DOMAIN tasks PROVE ~PutEntry(u)
  BY <1>2 DEF PutEntry
<1>12. ASSUME NEW u \in DOMAIN tasks PROVE ~OpenOutput(u) /\ ~OpenFails(u)
  BY <1>2 DEF OpenOutput, OpenFails, Merged, Goes
<1>13. ASSUME NEW u \in DOMAIN tasks PROVE ~DumpFails(u) /\ ~Die(u)
  BY <1>2, <1>4 DEF DumpFails, Die, Goes
<1>14. ASSUME NEW u \in DOMAIN tasks, Dump(u) PROVE u = t
  BY <1>2, <1>14 DEF Dump, Goes
<1> QED BY <1>5, <1>6, <1>7, <1>8, <1>9, <1>10, <1>11, <1>12, <1>13, <1>14 DEF RoundNext

\* What is written is the array of the task that writes it.
LEMMA WritesItems ==
  ASSUME RoundInv, RoundInv', [RoundNext]_roundVars, NEW t \in DOMAIN tasks, Writes(t)
  PROVE  files'[tasks[t].at].items = tasks[t].items
<1>1. Dump(t)
  BY OnlyDumpWrites DEF Writes
<1>2. tasks[t] \in Task /\ TaskInv(t) /\ tasks[t].items \in Seq(Item)
  BY TaskIs, TaskFields
<1>3. tasks[t].at \in 1..MaxClock
  BY <1>1, <1>2 DEF Dump, TaskInv
<1>4. PICK file \in {Json(tasks[t].items), Broken} : Leaves(t, file)
  BY <1>1 DEF Dump
<1>5. files'[tasks[t].at] = file
  BY <1>2, <1>3, <1>4, FileKinds, ChangedFile DEF RoundInv
<1>6. file # Broken
  BY <1>5 DEF Writes, Broken
<1> QED BY <1>4, <1>5, <1>6 DEF Json

\* For any sources and any interleaving of the rounds: of what one round
\* writes, the next takes the failures, and of the rest what it would have
\* taken before.
THEOREM RoundsTakeUp == RoundSpec => RoundTrip
<1>1. ASSUME RoundInv, RoundInv', [RoundNext]_roundVars, NEW t \in DOMAIN tasks, Writes(t)
      PROVE  TakesUp(tasks[t].base, files'[tasks[t].at].items, t)
  <2>1. /\ tasks[t] \in Task /\ TaskInv(t)
        /\ tasks[t].items \in Seq(Item) /\ tasks[t].base \in Seq(Item)
        /\ tasks[t].results \in Seq(Links)
    BY <1>1, TaskIs, TaskFields
  <2>2. MergeInv(t) /\ tasks[t].put = Len(Puts(tasks[t]))
    BY <1>1, <2>1 DEF Writes, TaskInv, Writing
  <2>3. /\ \A l \in Failed(t) : "error" \in MarksOf(tasks[t].items, l)
        /\ \A l \in Batch(t) \ Failed(t) : "ok" \in MarksOf(tasks[t].items, l)
    BY <2>1, <2>2, AllIsPut
  <2>4. Failed(t) \subseteq Open(tasks[t].items)
    BY <2>1, <2>3, StillOpen
  <2>5. ASSUME NEW l \in Succeeded(t) \ Failed(t), OnceIn(tasks[t].base, l)
        PROVE  l \notin Open(tasks[t].items)
    <3>1. l \in Links /\ l \in Batch(t) \ Failed(t)
      BY <2>1 DEF Batch, Succeeded, ToSet
    <3>2. OnceIn(tasks[t].items, l)
      BY <2>2, <2>5, <3>1 DEF MergeInv
    <3> QED BY <2>1, <2>3, <3>1, <3>2, NotOpen
  <2>6. ASSUME NEW l \in Links \ Batch(t)
        PROVE  l \in Open(tasks[t].items) <=> l \in Open(tasks[t].base)
    <3>1. \A x : x.link = l => (x \in ToSet(tasks[t].items) <=> x \in ToSet(tasks[t].base))
      <4>1. Others(tasks[t].items, t) = Others(tasks[t].base, t)
        BY <2>2 DEF MergeInv
      <4> QED BY <2>6, <4>1 DEF Others
    <3> QED BY <2>1, <3>1, OpenIs
  <2>7. files'[tasks[t].at].items = tasks[t].items
    BY <1>1, WritesItems
  <2> QED BY <2>4, <2>5, <2>6, <2>7 DEF TakesUp
<1>2. RoundInv /\ RoundInv' /\ [RoundNext]_roundVars
        => [\A t \in DOMAIN tasks :
              Writes(t) => TakesUp(tasks[t].base, files'[tasks[t].at].items, t)]_roundVars
  BY <1>1
<1> QED BY <1>2, RoundInvAlways, PTL DEF RoundSpec, RoundTrip

===============================================================================
