------------------------------ MODULE ResultFile ------------------------------
(***************************************************************************)
(* The files of URLs and results: core/batch_file.py takes the URLs still  *)
(* to analyse from a file, the bulk task analyses them, and                *)
(* core/result_writer.py reads the source again, puts this batch's entries *)
(* into it one by one and writes the whole to a new file, which an         *)
(* operator may submit again.                                              *)
(*                                                                         *)
(* The reader and the writer never meet: what one leaves in a file is all  *)
(* the other knows, in the next round.  Every output of a source carries   *)
(* the name of the source without its timestamp and the second at which    *)
(* its task began, so a file is known here by that second; the source is   *)
(* file 0 and an upload, never stored, is file Upload.                     *)
(*                                                                         *)
(* A URL is its normalised form.  The analyses of a task are those of      *)
(* module BulkTask, reduced to whether the result or an error reaches the  *)
(* file.                                                                   *)
(***************************************************************************)
EXTENDS Integers, Sequences, FiniteSets, SequencesExt

CONSTANTS
  Links,      \* the normalised URLs
  Sources,    \* the contents file 0, or an upload, may have
  Analysed,   \* the sites the table may hold an analysis of at the start
  MaxUrls,    \* _MAX_URLS
  MaxTasks,   \* bound: tasks submitted
  MaxClock    \* bound: seconds

\* An element of the array: a string, an object with "url", or an object with
\* "link".  new: without is_ai_tool.   ok: with it, and no error.
Item == [kind : {"string", "url", "link"}, link : Links, mark : {"new", "ok", "error"}]

\* empty: opened for writing, and nothing written yet.   broken: a write that
\* failed half way or met another; what is left is not JSON.
File == [is : {"absent", "empty", "json", "broken"}, items : Seq(Item)]

Absent == [is |-> "absent", items |-> <<>>]
Empty  == [is |-> "empty",  items |-> <<>>]
Broken == [is |-> "broken", items |-> <<>>]
Json(items) == [is |-> "json", items |-> items]
Entry(l, mark) == [kind |-> "link", link |-> l, mark |-> mark]

ASSUME SourcesAssumption == Sources \subseteq Seq(Item)
ASSUME AnalysedAssumption == Analysed \subseteq SUBSET Links
ASSUME BoundsAssumption ==
  MaxUrls \in Nat \ {0} /\ MaxTasks \in Nat /\ MaxClock \in Nat \ {0}

VARIABLES
  files,   \* the source, and the output of each second
  table,   \* the sites with an analysis of the LLM in ai_site
  clock,   \* the second
  tasks    \* the bulk tasks, in the order of their submission

roundVars == <<files, table, clock, tasks>>

Upload == -1
Names  == 0..MaxClock
States == {"queued", "running", "skipped", "merging", "writing",
           "written", "unwritten", "dead"}

\* left: the places in urls that are not analysed yet.   results, failures: the
\* URLs analysed, in the order of their completion.   base: what was read of
\* the source.   items: the array being made of it, with the first put of the
\* entries.
Task == [source : Names \cup {Upload}, urls : Seq(Links), force : BOOLEAN,
         state : States, at : Names, left : SUBSET Nat,
         results : Seq(Links), failures : Seq(Links),
         base : Seq(Item), items : Seq(Item), put : Nat]

-------------------------------------------------------------------------------
\* The elements at the places of S, in their order.
Those(items, S) ==
  [k \in 1..Cardinality(S) |->
     items[CHOOSE i \in S : Cardinality({j \in S : j <= i}) = k]]

(***************************************************************************)
(* The reader.                                                             *)
(***************************************************************************)

\* Faulty variant: an entry of is_ai_tool = false counts as finished.
UnfinishedUnlessMarked(item) == item.kind = "string" \/ item.mark = "new"

\* An object with is_ai_tool and without an error needs no analysis.
Unfinished(item) == item.kind = "string" \/ item.mark # "ok"

ToAnalyse(items) ==
  LET open == Those(items, {i \in DOMAIN items : Unfinished(items[i])})
  IN  [k \in DOMAIN open |-> open[k].link]

Extract(items) ==
  LET all == ToAnalyse(items)
  IN  SubSeq(all, 1, IF Len(all) > MaxUrls THEN MaxUrls ELSE Len(all))

(***************************************************************************)
(* The writer.                                                             *)
(***************************************************************************)

\* Only objects survive the load; a file that is missing or is not JSON is an
\* empty list.
LoadSource(file) ==
  IF file.is = "json"
  THEN Those(file.items, {i \in DOMAIN file.items : file.items[i].kind # "string"})
  ELSE <<>>

\* The entry link_index gives for l: the last object with that "link".
Linked(items, l) == {i \in DOMAIN items : items[i].kind = "link" /\ items[i].link = l}

Put(items, entry) ==
  LET at == Linked(items, entry.link)
  IN  IF at = {} THEN Append(items, entry)
                 ELSE [items EXCEPT ![CHOOSE i \in at : \A j \in at : j <= i] = entry]

\* Faulty variant: the failures first.
PutsFailuresFirst(task) ==
  [k \in 1..(Len(task.results) + Len(task.failures)) |->
     IF k <= Len(task.failures) THEN Entry(task.failures[k], "error")
     ELSE Entry(task.results[k - Len(task.failures)], "ok")]

\* What is put into the array: the results first, then the failures, which
\* take the place of a result of the same URL.
Puts(task) ==
  [k \in 1..(Len(task.results) + Len(task.failures)) |->
     IF k <= Len(task.results) THEN Entry(task.results[k], "ok")
     ELSE Entry(task.failures[k - Len(task.results)], "error")]

SourceOf(task) == IF task.source = Upload THEN Absent ELSE files[task.source]

-------------------------------------------------------------------------------
RoundInit ==
  /\ \E items \in Sources :
       files = [n \in Names |-> IF n = 0 THEN Json(items) ELSE Absent]
  /\ table \in Analysed
  /\ clock = 1
  /\ tasks = <<>>

Send(source, items, force) ==
  /\ Len(tasks) < MaxTasks
  /\ Extract(items) # <<>>                      \* else 400
  /\ tasks' = Append(tasks,
       [source |-> source, urls |-> Extract(items), force |-> force,
        state |-> "queued", at |-> 0, left |-> {}, results |-> <<>>,
        failures |-> <<>>, base |-> <<>>, items |-> <<>>, put |-> 0])
  /\ UNCHANGED <<files, table, clock>>

\* POST /analyze/batch/file and POST /analyze/batch/upload.
SendFile(n, force) == files[n].is = "json" /\ Send(n, files[n].items, force)
SendUpload(items, force) == Send(Upload, items, force)

\* Task t goes on as task.
Becomes(t, task) == tasks' = [tasks EXCEPT ![t] = task]

\* The task reads the clock, then the preflight drops what has an analysis.
BeginRound(t) ==
  /\ tasks[t].state = "queued"
  /\ LET pending == {i \in DOMAIN tasks[t].urls :
                       tasks[t].force \/ tasks[t].urls[i] \notin table}
     IN  Becomes(t, [tasks[t] EXCEPT !.at = clock, !.left = pending,
                       !.state = IF pending = {} THEN "skipped" ELSE "running"])
  /\ UNCHANGED <<files, table, clock>>

\* One URL is analysed: its site is saved at once, its entry waits.
Analyse(t, i, mark) ==
  /\ tasks[t].state = "running"
  /\ LET link == tasks[t].urls[i]
         left == tasks[t].left \ {i}
     IN  \/ /\ mark = "ok"
            /\ Becomes(t, [tasks[t] EXCEPT !.left = left, !.results = Append(@, link)])
            /\ table' = table \cup {link}
         \/ /\ mark = "error"
            /\ Becomes(t, [tasks[t] EXCEPT !.left = left, !.failures = Append(@, link)])
            /\ UNCHANGED table
  /\ UNCHANGED <<files, clock>>

\* write_batch loads the source, or what a failed read leaves of it: nothing.
ReadSource(t) ==
  /\ tasks[t].state = "running"
  /\ tasks[t].left = {}
  /\ \E read \in {LoadSource(SourceOf(tasks[t])), <<>>} :
       Becomes(t, [tasks[t] EXCEPT !.state = "merging", !.base = read, !.items = read])
  /\ UNCHANGED <<files, table, clock>>

\* One turn of the two loops.
PutEntry(t) ==
  /\ tasks[t].state = "merging"
  /\ tasks[t].put < Len(Puts(tasks[t]))
  /\ LET entry == Puts(tasks[t])[tasks[t].put + 1]
     IN  Becomes(t, [tasks[t] EXCEPT !.items = Put(@, entry), !.put = @ + 1])
  /\ UNCHANGED <<files, table, clock>>

Merged(t) == tasks[t].state = "merging" /\ tasks[t].put = Len(Puts(tasks[t]))

Goes(t, state) == Becomes(t, [tasks[t] EXCEPT !.state = state])
Leaves(t, file) == files' = [files EXCEPT ![tasks[t].at] = file]

\* The file is truncated as it is opened.
OpenOutput(t) ==
  /\ Merged(t)
  /\ Leaves(t, Empty)
  /\ Goes(t, "writing")
  /\ UNCHANGED <<table, clock>>

\* The exception of the directory or the file is logged.
OpenFails(t) ==
  /\ Merged(t)
  /\ Goes(t, "unwritten")
  /\ UNCHANGED <<files, table, clock>>

\* Another task writes, or has written since t opened it, the file of t.
Contested(t) ==
  \/ files[tasks[t].at] # Empty
  \/ \E u \in DOMAIN tasks \ {t} : tasks[u].state = "writing" /\ tasks[u].at = tasks[t].at

\* What two writers leave of one file depends on their buffers.
Dump(t) ==
  /\ tasks[t].state = "writing"
  /\ \/ Leaves(t, Json(tasks[t].items))
     \/ Contested(t) /\ Leaves(t, Broken)
  /\ Goes(t, "written")
  /\ UNCHANGED <<table, clock>>

\* The exception is logged, and what was written by then stays.
DumpFails(t) ==
  /\ tasks[t].state = "writing"
  /\ Leaves(t, Broken)
  /\ Goes(t, "unwritten")
  /\ UNCHANGED <<table, clock>>

\* The worker is killed, or an exception ends the task.
Die(t) ==
  /\ tasks[t].state \in {"running", "merging", "writing"}
  /\ \/ UNCHANGED files
     \/ tasks[t].state = "writing" /\ Leaves(t, Broken)
  /\ Goes(t, "dead")
  /\ UNCHANGED <<table, clock>>

Tick ==
  /\ clock < MaxClock
  /\ clock' = clock + 1
  /\ UNCHANGED <<files, table, tasks>>

RoundNext ==
  \/ \E force \in BOOLEAN :
       \/ \E n \in Names : SendFile(n, force)
       \/ \E items \in Sources : SendUpload(items, force)
  \/ \E t \in DOMAIN tasks :
       \/ BeginRound(t)
       \/ \E i \in tasks[t].left, mark \in {"ok", "error"} : Analyse(t, i, mark)
       \/ ReadSource(t)
       \/ PutEntry(t)
       \/ OpenOutput(t)
       \/ OpenFails(t)
       \/ Dump(t)
       \/ DumpFails(t)
       \/ Die(t)
  \/ Tick

RoundSpec == RoundInit /\ [][RoundNext]_roundVars

-------------------------------------------------------------------------------
(***************************************************************************)
(* Properties                                                              *)
(***************************************************************************)
RoundTypeOK ==
  /\ files \in [Names -> File]
  /\ table \subseteq Links
  /\ clock \in 1..MaxClock
  /\ tasks \in Seq(Task)

Succeeded(t) == ToSet(tasks[t].results)
Failed(t)    == ToSet(tasks[t].failures)
Batch(t)     == Succeeded(t) \cup Failed(t)

\* No other task of this base name began in the same second.
Alone(t) == \A u \in DOMAIN tasks \ {t} : tasks[u].at # tasks[t].at

MarksOf(items, l) == {items[i].mark : i \in Linked(items, l)}
Others(items, t)  == {item \in ToSet(items) : item.link \notin Batch(t)}

\* What a task found stays where it put it, however the later tasks and
\* rounds interleave: as long as no other task began in its second, its file
\* has an error for each URL it failed on, a result for each other URL of its
\* batch, and of the other URLs exactly the objects it read of its source,
\* which are all the source has unless the read failed (result_writer.py:
\* 118-157 against the read and the write of the same file by another task).
OutputTellsTask ==
  \A t \in DOMAIN tasks :
    (tasks[t].state = "written" /\ Alone(t)) =>
      LET out == files[tasks[t].at].items
      IN  /\ files[tasks[t].at].is = "json"
          /\ \A l \in Failed(t) : "error" \in MarksOf(out, l)
          /\ \A l \in Batch(t) \ Failed(t) : "ok" \in MarksOf(out, l)
          /\ Others(out, t) = Others(tasks[t].base, t)
          /\ tasks[t].source = 0 => tasks[t].base \in {<<>>, LoadSource(files[0])}

Writes(t) ==
  tasks[t].state = "writing" /\ tasks'[t].state = "written"
    /\ files'[tasks[t].at].is = "json"

\* The URLs a round without the cap would take.
Open(items) == ToSet(ToAnalyse(items))

OnceIn(items, l) ==
  \A i, j \in DOMAIN items :
    items[i].link = l /\ items[j].link = l => i = j /\ items[i].kind = "link"

TakesUp(source, out, t) ==
  /\ Failed(t) \subseteq Open(out)
  /\ \A l \in Succeeded(t) \ Failed(t) : OnceIn(source, l) => l \notin Open(out)
  /\ \A l \in Links \ Batch(t) : l \in Open(out) <=> l \in Open(source)

\* The reader takes up where the writer left: from a new file it extracts
\* every URL that failed, no URL that was saved and stood in the source once
\* at most, as an object with "link", and a URL of another batch exactly if it
\* would have been extracted from the objects of the source (batch_file.py:95
\* against result_writer.py:52-86).
RoundTrip ==
  [][\A t \in DOMAIN tasks :
       Writes(t) => TakesUp(tasks[t].base, files'[tasks[t].at].items, t)]_roundVars

\* What the repository says of these files.

\* The comment of the reader (batch_file.py:95): what was processed
\* successfully is skipped.
ProcessedIsSkipped ==
  \A t \in DOMAIN tasks :
    tasks[t].state = "written" /\ Alone(t) =>
      Open(files[tasks[t].at].items) \cap Succeeded(t) \subseteq Failed(t)

\* The docstring of the writer (result_writer.py:95): a batch goes to a new
\* file.
OutputIsNewFile ==
  \A t, u \in DOMAIN tasks :
    (tasks[t].state = "written" /\ tasks[u].state = "written" /\ tasks[t].at = tasks[u].at)
      => t = u

\* The docstring of the writer (result_writer.py:97-98): the source is the
\* base, to which the entries of this batch are added or updated.
SourceIsBase ==
  \A t \in DOMAIN tasks :
    tasks[t].state = "written" /\ Alone(t) /\ tasks[t].source = 0 =>
      \A item \in ToSet(files[0].items) :
        \E out \in ToSet(files[tasks[t].at].items) : out.link = item.link

\* The answer of the two routes: after completion a file is made.
CompletionMakesFile ==
  \A t \in DOMAIN tasks :
    tasks[t].state \in {"skipped", "written"} => files[tasks[t].at].is = "json"

===============================================================================
