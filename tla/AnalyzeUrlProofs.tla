--------------------------- MODULE AnalyzeUrlProofs ---------------------------
(***************************************************************************)
(* Proofs about AnalyzeUrl, for every set of jobs, every number of retries *)
(* and wherever the time limits may strike.                                *)
(***************************************************************************)
EXTENDS AnalyzeUrl, TLAPS

Status == {"none", "pending", "processing", "success", "failed"}

\* A task interrupted while it returns has settled its job already.
Spoiled == IF "returning" \in Interruptible THEN {"success", "failed"} ELSE {}

\* What the row of a job may say at each place of its task.
JobAt(place) ==
  CASE place \in {"idle", "begin", "republish"}           -> {"none", "pending"}
    [] place \in {"check", "analyse", "settle", "mark",
                  "fail", "transient"}                    -> {"processing"}
    [] place = "returning"                                -> {"success", "failed"}
    [] place = "error"      -> {"none", "pending", "processing"} \cup Spoiled
    [] place \in {"final", "fail final"}
                            -> {"pending", "processing"} \cup Spoiled
    [] place = "ended"      -> {"none", "success", "failed"}
    [] OTHER                -> Status

\* A message is queued while the task is idle and only then, and the job's row
\* fits the place of the task.
TaskInv ==
  \A j \in Jobs :
    /\ pc[j] = "idle" <=> message[j] # NoMessage
    /\ pc[j] = "republish" => attempt[j] < MaxRetries
    /\ pc[j] \in {"final", "fail final"} => ~(attempt[j] < MaxRetries)
    /\ job[j] \in JobAt(pc[j])

-----------------------------------------------------------------------------
(* Types                                                                   *)

\* The updates of a row yield rows.
LEMMA RowTypes ==
  ASSUME NEW row \in Site
  PROVE  /\ \A status \in FinalStatus \cup {"failure"} : Mark(row, status) \in Site
         /\ Saved("ok", "llm") \in Site /\ Saved("blocked", "llm") \in Site
         /\ Expired(row) \in Site
BY DEF Site, Mark, Saved, Expired, FinalStatus

LEMMA OneMoreRetry ==
  ASSUME NEW n \in 0..MaxRetries, n < MaxRetries
  PROVE  n + 1 \in 0..MaxRetries
BY RetriesAssumption

LEMMA InitInv == Init => TypeOK /\ TaskInv
<1> SUFFICES ASSUME Init PROVE TypeOK /\ TaskInv
  OBVIOUS
<1>1. TypeOK
  <2>1. /\ site \in Site /\ 0 \in 0..MaxRetries
        /\ job \in [Jobs -> {"none", "pending", "processing", "success", "failed"}]
    BY SitesAssumption, RetriesAssumption DEF Init
  <2>2. force \in [Jobs -> BOOLEAN]
    BY Zenon DEF Init
  <2> QED BY <2>1, <2>2 DEF Init, TypeOK
<1>2. TaskInv
  BY DEF Init, TaskInv, NoMessage, JobAt
<1> QED BY <1>1, <1>2

\* A step of a task moves that task alone: its place is a place, and the rest
\* keeps its type.
LEMMA TypeStep ==
  ASSUME TypeOK, TaskInv, [Next]_vars
  PROVE  TypeOK'
<1> USE RetriesAssumption DEF TypeOK, Go, SetJob, Running, Body, Handlers, Over, NoMessage
<1>1. ASSUME NEW j \in Jobs, Deliver(j) PROVE TypeOK'
  BY <1>1 DEF Deliver
<1>2. ASSUME NEW j \in Jobs, Begin(j) PROVE TypeOK'
  BY <1>2 DEF Begin
<1>3. ASSUME NEW j \in Jobs, CheckCache(j) PROVE TypeOK'
  BY <1>3 DEF CheckCache
<1>4. ASSUME NEW j \in Jobs, NEW o \in Outcomes, Analyse(j, o) PROVE TypeOK'
  <2>1. site' \in Site
    BY <1>4, RowTypes DEF Analyse
  <2>2. pc' \in [Jobs -> {"idle"} \cup Running \cup Over]
    BY <1>4 DEF Analyse, Outcomes
  <2> QED BY <1>4, <2>1, <2>2 DEF Analyse
<1>5. ASSUME NEW j \in Jobs, SettleSuccess(j) \/ ReturnResult(j) PROVE TypeOK'
  BY <1>5 DEF SettleSuccess, ReturnResult
<1>6. ASSUME NEW j \in Jobs, MarkSite(j) \/ MarkFailure(j) PROVE TypeOK'
  <2>1. PICK status \in FinalStatus \cup {"failure"} : site' = Mark(site, status)
    BY <1>6 DEF MarkSite, MarkFailure
  <2>2. site' \in Site
    BY <2>1, RowTypes
  <2> QED BY <1>6, <2>2 DEF MarkSite, MarkFailure
<1>7. ASSUME NEW j \in Jobs, FailJob(j) \/ HandleTransient(j) \/ HandleError(j) \/ FailFinally(j)
      PROVE  TypeOK'
  BY <1>7 DEF FailJob, HandleTransient, HandleError, FailFinally
<1>8. ASSUME NEW j \in Jobs, Republish(j) PROVE TypeOK'
  <2>1. pc[j] = "republish" /\ attempt[j] < MaxRetries
    BY <1>8 DEF Republish, TaskInv
  <2>2. attempt[j] \in 0..MaxRetries
    OBVIOUS
  <2>3. attempt[j] + 1 \in 0..MaxRetries
    BY <2>1, <2>2, OneMoreRetry
  <2> QED BY <1>8, <2>3 DEF Republish
<1>9. ASSUME NEW j \in Jobs, Interrupt(j) \/ WorkerLost(j) PROVE TypeOK'
  BY <1>9 DEF Interrupt, WorkerLost
<1>10. CASE TtlPasses
  BY <1>10, RowTypes DEF TtlPasses
<1>11. CASE UNCHANGED vars
  BY <1>11 DEF vars
<1> QED
  BY <1>1, <1>2, <1>3, <1>4, <1>5, <1>6, <1>7, <1>8, <1>9, <1>10, <1>11 DEF Next, Step

-----------------------------------------------------------------------------
(* Where a task can be with its job                                        *)

\* A step that moves one task to a place that suits its row and message.
LEMMA MoveKeepsInv ==
  ASSUME TypeOK, TaskInv, NEW j \in Jobs, NEW place, NEW status,
         pc' = [pc EXCEPT ![j] = place],
         job' = [job EXCEPT ![j] = status], status \in JobAt(place),
         place # "idle", pc[j] # "idle", place = "republish" => attempt[j] < MaxRetries,
         place \in {"final", "fail final"} => ~(attempt[j] < MaxRetries),
         UNCHANGED <<message, attempt>>
  PROVE  TaskInv'
BY DEF TypeOK, TaskInv

LEMMA SameJob ==
  ASSUME TypeOK, NEW j \in Jobs
  PROVE  job = [job EXCEPT ![j] = job[j]]
BY DEF TypeOK

LEMMA InvStep ==
  ASSUME TypeOK, TaskInv, [Next]_vars
  PROVE  TaskInv'
<1> USE DEF Go, SetJob
<1>a. \A j \in Jobs : job[j] \in JobAt(pc[j]) /\ job[j] \in Status
                      /\ job = [job EXCEPT ![j] = job[j]]
  BY SameJob DEF TaskInv, TypeOK, Status
<1>1. ASSUME NEW j \in Jobs, Deliver(j) PROVE TaskInv'
  <2>1. job[j] \in JobAt("begin")
    BY <1>1, <1>a DEF Deliver, JobAt
  <2> QED BY <1>1, <2>1 DEF Deliver, TypeOK, TaskInv, NoMessage
<1>2. ASSUME NEW j \in Jobs, Begin(j) PROVE TaskInv'
  <2>1. CASE job[j] = "none"
    <3>1. pc[j] = "begin" /\ Go(j, "ended") /\ UNCHANGED <<job, message, attempt>>
      BY <1>2, <2>1 DEF Begin
    <3>2. job[j] \in JobAt("ended")
      BY <2>1 DEF JobAt
    <3> QED BY <3>1, <3>2, <1>a, MoveKeepsInv
  <2>2. CASE job[j] # "none"
    BY <1>2, <2>2, MoveKeepsInv DEF Begin, JobAt
  <2> QED BY <2>1, <2>2
<1>3. ASSUME NEW j \in Jobs, CheckCache(j) PROVE TaskInv'
  <2>1. job[j] = "processing" /\ pc[j] = "check"
    BY <1>3, <1>a DEF CheckCache, JobAt
  <2>2. ASSUME NEW place \in {"analyse", "error"}, Go(j, place), UNCHANGED job
        PROVE  TaskInv'
    <3>1. job[j] \in JobAt(place)
      BY <2>1, <2>2 DEF JobAt
    <3>2. UNCHANGED <<message, attempt>>
      BY <1>3 DEF CheckCache
    <3> QED BY <2>1, <2>2, <3>1, <3>2, <1>a, MoveKeepsInv
  <2>3. ASSUME NEW status \in {"success", "failed"}, Go(j, "returning"), SetJob(j, status)
        PROVE  TaskInv'
    BY <1>3, <2>1, <2>3, MoveKeepsInv DEF CheckCache, JobAt
  <2> QED BY <1>3, <2>2, <2>3 DEF CheckCache
<1>4. ASSUME NEW j \in Jobs, NEW o \in Outcomes, Analyse(j, o) PROVE TaskInv'
  <2>1. job[j] = "processing" /\ pc[j] = "analyse" /\ UNCHANGED <<job, message, attempt>>
    BY <1>4, <1>a DEF Analyse, JobAt
  <2>2. PICK place \in {"settle", "error", "mark", "transient"} : Go(j, place)
    BY <1>4 DEF Analyse, Outcomes
  <2>3. job[j] \in JobAt(place)
    BY <2>1, <2>2 DEF JobAt
  <2> QED BY <2>1, <2>2, <2>3, <1>a, MoveKeepsInv
<1>5. ASSUME NEW j \in Jobs, SettleSuccess(j) PROVE TaskInv'
  BY <1>5, MoveKeepsInv DEF SettleSuccess, JobAt
<1>6. ASSUME NEW j \in Jobs, ReturnResult(j) PROVE TaskInv'
  <2>1. job[j] \in JobAt("ended")
    BY <1>6, <1>a DEF ReturnResult, JobAt
  <2> QED BY <1>6, <2>1, <1>a, MoveKeepsInv DEF ReturnResult
<1>7. ASSUME NEW j \in Jobs, MarkSite(j) PROVE TaskInv'
  <2>1. job[j] \in JobAt("fail")
    BY <1>7, <1>a DEF MarkSite, JobAt
  <2> QED BY <1>7, <2>1, <1>a, MoveKeepsInv DEF MarkSite
<1>8. ASSUME NEW j \in Jobs, FailJob(j) PROVE TaskInv'
  <2>1. job[j] \in JobAt("raised") /\ "failed" \in JobAt("ended")
    BY <1>a DEF JobAt
  <2>2. CASE Postgres
    BY <1>8, <2>1, <2>2, MoveKeepsInv DEF FailJob
  <2>3. CASE ~Postgres
    BY <1>8, <2>1, <2>3, <1>a, MoveKeepsInv DEF FailJob
  <2> QED BY <2>2, <2>3
<1>9. ASSUME NEW j \in Jobs, HandleTransient(j) PROVE TaskInv'
  <2>1. /\ job[j] \in JobAt("raised") /\ "failed" \in JobAt("ended")
        /\ "pending" \in JobAt("republish")
    BY <1>a DEF JobAt
  <2>2. CASE ~Postgres
    BY <1>9, <2>1, <2>2, <1>a, MoveKeepsInv DEF HandleTransient
  <2>3. CASE Postgres /\ RetriesLeft(j)
    BY <1>9, <2>1, <2>3, MoveKeepsInv DEF HandleTransient, RetriesLeft
  <2>4. CASE Postgres /\ ~RetriesLeft(j)
    BY <1>9, <2>1, <2>4, MoveKeepsInv DEF HandleTransient
  <2> QED BY <2>2, <2>3, <2>4
<1>10. ASSUME NEW j \in Jobs, HandleError(j) PROVE TaskInv'
  <2>1. CASE job[j] = "none"
    <3>1. job[j] \in JobAt("republish") /\ job[j] \in JobAt("ended")
      BY <2>1 DEF JobAt
    <3>2. CASE RetriesLeft(j)
      BY <1>10, <2>1, <3>1, <3>2, <1>a, MoveKeepsInv DEF HandleError, RetriesLeft
    <3>3. CASE ~RetriesLeft(j)
      BY <1>10, <2>1, <3>1, <3>3, <1>a, MoveKeepsInv DEF HandleError
    <3> QED BY <3>2, <3>3
  <2>2. CASE job[j] # "none"
    <3>1. job[j] \in JobAt("final") /\ "pending" \in JobAt("republish")
      BY <1>10, <2>2, <1>a DEF HandleError, JobAt
    <3>2. CASE RetriesLeft(j)
      BY <1>10, <2>2, <3>1, <3>2, MoveKeepsInv DEF HandleError, RetriesLeft
    <3>3. CASE ~RetriesLeft(j)
      BY <1>10, <2>2, <3>1, <3>3, <1>a, MoveKeepsInv DEF HandleError, RetriesLeft
    <3> QED BY <3>2, <3>3
  <2> QED BY <2>1, <2>2
<1>11. ASSUME NEW j \in Jobs, MarkFailure(j) PROVE TaskInv'
  <2>1. job[j] \in JobAt("fail final")
    BY <1>11, <1>a DEF MarkFailure, JobAt
  <2>2. ~(attempt[j] < MaxRetries)
    BY <1>11 DEF MarkFailure, TaskInv
  <2> QED BY <1>11, <2>1, <2>2, <1>a, MoveKeepsInv DEF MarkFailure
<1>12. ASSUME NEW j \in Jobs, FailFinally(j) PROVE TaskInv'
  BY <1>12, MoveKeepsInv DEF FailFinally, JobAt
<1>13. ASSUME NEW j \in Jobs, Republish(j) PROVE TaskInv'
  <2>1. job[j] \in JobAt("idle")
    BY <1>13, <1>a DEF Republish, JobAt
  <2>2. attempt[j] \in 0..MaxRetries
    BY DEF TypeOK
  <2>3. attempt[j] + 1 # NoMessage
    BY <2>2, RetriesAssumption DEF NoMessage
  <2> QED BY <1>13, <2>1, <2>3 DEF Republish, TypeOK, TaskInv
<1>14. ASSUME NEW j \in Jobs, Interrupt(j) PROVE TaskInv'
  <2>1. pc[j] # "idle" /\ pc[j] \in Running
    BY <1>14, InterruptAssumption DEF Interrupt, Running, Body, Handlers
  <2>2. CASE pc[j] \in Body
    <3>1. job[j] \in JobAt("error")
      BY <1>14, <2>2, <1>a DEF Interrupt, Body, JobAt, Spoiled
    <3> QED BY <1>14, <2>1, <2>2, <3>1, <1>a, MoveKeepsInv DEF Interrupt
  <2>3. CASE pc[j] \notin Body
    <3>1. job[j] \in JobAt("raised")
      BY <1>a DEF JobAt
    <3> QED BY <1>14, <2>1, <2>3, <3>1, <1>a, MoveKeepsInv DEF Interrupt
  <2> QED BY <2>2, <2>3
<1>15. ASSUME NEW j \in Jobs, WorkerLost(j) PROVE TaskInv'
  <2>1. job[j] \in JobAt("lost") /\ pc[j] # "idle"
    BY <1>15, <1>a DEF WorkerLost, JobAt, Running, Body, Handlers
  <2> QED BY <1>15, <2>1, <1>a, MoveKeepsInv DEF WorkerLost
<1>16. CASE TtlPasses \/ UNCHANGED vars
  BY <1>16 DEF TtlPasses, vars, TaskInv
<1> QED
  BY <1>1, <1>2, <1>3, <1>4, <1>5, <1>6, <1>7, <1>8, <1>9, <1>10, <1>11, <1>12,
     <1>13, <1>14, <1>15, <1>16
  DEF Next, Step

LEMMA UrlInv == Spec => [](TypeOK /\ TaskInv)
<1>1. TypeOK /\ TaskInv /\ [Next]_vars => TypeOK' /\ TaskInv'
  BY TypeStep, InvStep
<1> QED BY <1>1, InitInv, PTL DEF Spec

\* Every reachable state of the tasks of one site is well typed: a message never
\* carries more retries than the decorator allows.
THEOREM UrlTypes == Spec => []TypeOK
BY UrlInv, PTL

\* Whichever handlers a task goes through, whatever other tasks do to the site
\* and wherever it is interrupted, an unsettled job has a message or a task at
\* work, unless its task was killed or raised out of a handler.
THEOREM UnsettledAttended == Spec => []UnsettledIsAttended
<1>1. TypeOK /\ TaskInv => UnsettledIsAttended
  <2> SUFFICES ASSUME TypeOK, TaskInv, NEW j \in Jobs, job[j] \in {"pending", "processing"},
                      message[j] = NoMessage
               PROVE  pc[j] \in Running \cup {"raised", "lost"}
    BY DEF UnsettledIsAttended
  <2>1. pc[j] # "idle" /\ pc[j] # "ended"
    BY DEF TaskInv, JobAt
  <2> QED BY <2>1 DEF TypeOK, Over
<1> QED BY <1>1, UrlInv, PTL

-----------------------------------------------------------------------------
(* Steps                                                                   *)

LEMMA TtlStep ==
  ASSUME [Next]_vars, site.since = "past"
  PROVE  site'.since # "within"
<1>1. ASSUME NEW j \in Jobs, NEW o \in Outcomes, Analyse(j, o)
      PROVE  site'.since # "within"
  <2>1. \/ site' = Saved("ok", "llm") \/ site' = Saved("blocked", "llm")
        \/ site' = site
    BY <1>1 DEF Analyse
  <2>2. \A st, by : Saved(st, by).since = NULL
    BY DEF Saved
  <2> QED BY <2>1, <2>2 DEF NULL
<1>2. ASSUME NEW j \in Jobs, MarkSite(j) \/ MarkFailure(j)
      PROVE  site'.since # "within"
  <2>1. \E status : site' = Mark(site, status)
    BY <1>2 DEF MarkSite, MarkFailure
  <2>2. \A status : Mark(site, status).since = site.since
    BY DEF Mark, NULL
  <2> QED BY <2>1, <2>2
<1>3. CASE TtlPasses
  BY <1>3 DEF TtlPasses
<1>4. CASE UNCHANGED site
  BY <1>4
<1> QED
  BY <1>1, <1>2, <1>3, <1>4
  DEF Next, Step, vars, Deliver, Begin, CheckCache, SettleSuccess, ReturnResult,
      FailJob, HandleTransient, HandleError, FailFinally, Republish, Interrupt, WorkerLost

\* However the marks and analyses of any number of jobs follow each other, the
\* seven days of an unreachable site are not begun anew once they have passed.
THEOREM TtlKept == Spec => TtlNotRestarted
<1>1. [Next]_vars => [site.since = "past" => site'.since # "within"]_site
  BY TtlStep
<1> QED BY <1>1, PTL DEF Spec, TtlNotRestarted

-----------------------------------------------------------------------------
(* The retries run out.                                                    *)

LEMMA DistanceType ==
  ASSUME NEW place
  PROVE  Distance(place) \in 0..9
BY DEF Distance

LEMMA Distances ==
  /\ Distance("idle") = 9 /\ Distance("begin") = 8
  /\ Distance("check") = 7 /\ Distance("analyse") = 6
  /\ Distance("settle") = 5 /\ Distance("mark") = 5
  /\ Distance("transient") = 5 /\ Distance("returning") = 4
  /\ Distance("fail") = 4 /\ Distance("error") = 3
  /\ Distance("final") = 2 /\ Distance("fail final") = 1
  /\ Distance("republish") = 1 /\ Distance("ended") = 0
  /\ Distance("raised") = 0 /\ Distance("lost") = 0
BY DEF Distance

\* The retries a task has left, after the message that waits or the run under way.
Ahead(place, m, a) == MaxRetries - (IF place = "idle" THEN m ELSE a)
RetriesAhead(j) == Ahead(pc[j], message[j], attempt[j])

LEMMA AheadIs ==
  ASSUME NEW place, NEW m \in 0..MaxRetries \cup {NoMessage}, NEW a \in 0..MaxRetries,
         place = "idle" => m # NoMessage
  PROVE  Ahead(place, m, a) \in 0..MaxRetries
<1>1. \A n \in 0..MaxRetries : MaxRetries - n \in 0..MaxRetries
  BY RetriesAssumption
<1> QED BY <1>1 DEF Ahead

LEMMA AheadType ==
  (TypeOK /\ TaskInv => \A j \in Jobs : RetriesAhead(j) \in Nat)
    /\ (TypeOK' /\ TaskInv' => \A j \in Jobs : RetriesAhead(j)' \in Nat)
<1>1. ASSUME TypeOK, TaskInv, NEW j \in Jobs
      PROVE  RetriesAhead(j) \in Nat
  <2>1. /\ message[j] \in 0..MaxRetries \cup {NoMessage} /\ attempt[j] \in 0..MaxRetries
        /\ pc[j] = "idle" => message[j] # NoMessage
    BY <1>1 DEF TypeOK, TaskInv
  <2>2. RetriesAhead(j) \in 0..MaxRetries
    BY <2>1, AheadIs DEF RetriesAhead
  <2> QED BY <2>2, RetriesAssumption
<1>2. ASSUME TypeOK', TaskInv', NEW j \in Jobs
      PROVE  RetriesAhead(j)' \in Nat
  <2>1. /\ message'[j] \in 0..MaxRetries \cup {NoMessage} /\ attempt'[j] \in 0..MaxRetries
        /\ pc'[j] = "idle" => message'[j] # NoMessage
    BY <1>2 DEF TypeOK, TaskInv
  <2>2. RetriesAhead(j)' \in 0..MaxRetries
    BY <2>1, AheadIs DEF RetriesAhead
  <2> QED BY <2>2, RetriesAssumption
<1> QED BY <1>1, <1>2

\* Within a run the place comes nearer; a retry costs a run and begins the next.
LEMMA Nearer ==
  ASSUME NEW r \in Nat, NEW d \in 0..9, NEW s \in Nat, NEW e \in 0..9,
         (s = r /\ e < d) \/ (r = s + 1 /\ d # 0)
  PROVE  10 * s + e < 10 * r + d
OBVIOUS

\* A move inside a run.
LEMMA PlaceComesNearer ==
  ASSUME TypeOK, TypeOK', TaskInv, TaskInv', NEW j \in Jobs,
         RetriesAhead(j)' = RetriesAhead(j), Distance(pc'[j]) < Distance(pc[j])
  PROVE  StepsLeft(j)' < StepsLeft(j)
<1>1. PICK r \in Nat, d \in 0..9, s \in Nat, e \in 0..9 :
        r = RetriesAhead(j) /\ d = Distance(pc[j])
        /\ s = RetriesAhead(j)' /\ e = Distance(pc'[j])
  <2>1. RetriesAhead(j) \in Nat /\ RetriesAhead(j)' \in Nat
    BY AheadType, RetriesAssumption
  <2> QED BY <2>1, DistanceType
<1>2. 10 * s + e < 10 * r + d
  BY <1>1, Nearer
<1>3. StepsLeft(j) = 10 * r + d
  BY <1>1 DEF StepsLeft, RetriesAhead, Ahead
<1>4. StepsLeft(j)' = 10 * s + e
  BY <1>1 DEF StepsLeft, RetriesAhead, Ahead
<1> QED BY <1>2, <1>3, <1>4

LEMMA RetryComesNearer ==
  ASSUME TypeOK, TypeOK', TaskInv, TaskInv', NEW j \in Jobs, Republish(j)
  PROVE  StepsLeft(j)' < StepsLeft(j)
<1>0. /\ pc[j] = "republish" /\ pc'[j] = "idle" /\ message'[j] = attempt[j] + 1
      /\ attempt[j] \in Nat /\ MaxRetries \in Nat
  BY RetriesAssumption DEF Republish, Go, TypeOK
<1>1. PICK r \in Nat, d \in 0..9, s \in Nat, e \in 0..9 :
        r = RetriesAhead(j) /\ d = Distance(pc[j])
        /\ s = RetriesAhead(j)' /\ e = Distance(pc'[j])
  <2>1. RetriesAhead(j) \in Nat /\ RetriesAhead(j)' \in Nat
    BY AheadType, RetriesAssumption
  <2> QED BY <2>1, DistanceType
<1>2. r = s + 1 /\ d # 0
  <2>1. r = MaxRetries - attempt[j] /\ s = MaxRetries - (attempt[j] + 1)
    BY <1>0, <1>1 DEF RetriesAhead, Ahead
  <2>2. r = s + 1
    BY <1>0, <2>1
  <2> QED BY <1>0, <1>1, <2>2 DEF Distance
<1>3. 10 * s + e < 10 * r + d
  BY <1>2, Nearer
<1>4. StepsLeft(j) = 10 * r + d
  BY <1>1 DEF StepsLeft, RetriesAhead, Ahead
<1>5. StepsLeft(j)' = 10 * s + e
  BY <1>1 DEF StepsLeft, RetriesAhead, Ahead
<1> QED BY <1>3, <1>4, <1>5

\* The moves of a task from one place in analyze_url to another, interrupts and
\* the loss of its worker included, a retry and a delivery left out.
Move(from, to) ==
  \/ from = "begin" /\ to \in {"check", "ended"}
  \/ from = "check" /\ to \in {"analyse", "error", "returning"}
  \/ from = "analyse" /\ to \in {"settle", "error", "mark", "transient"}
  \/ from = "settle" /\ to = "returning"
  \/ from = "returning" /\ to = "ended"
  \/ from = "mark" /\ to = "fail"
  \/ from = "fail" /\ to \in {"ended", "raised"}
  \/ from = "transient" /\ to \in {"raised", "republish", "ended"}
  \/ from = "error" /\ to \in {"republish", "ended", "final"}
  \/ from = "final" /\ to = "fail final"
  \/ from = "fail final" /\ to = "ended"
  \/ from \in Body /\ to = "error"
  \/ from \in Running /\ to \in {"raised", "lost"}

\* Every such move leaves one place behind it.
LEMMA MovesComeNearer ==
  ASSUME NEW from, NEW to, Move(from, to)
  PROVE  Distance(to) < Distance(from)
<1>1. CASE from = "begin" /\ to \in {"check", "ended"}
  <2>1. /\ Distance("begin") = 8 /\ Distance("check") = 7
        /\ Distance("ended") = 0
    BY Distances
  <2> QED BY <1>1, <2>1
<1>2. CASE from = "check" /\ to \in {"analyse", "error", "returning"}
  <2>1. /\ Distance("check") = 7 /\ Distance("analyse") = 6
        /\ Distance("error") = 3 /\ Distance("returning") = 4
    BY Distances
  <2> QED BY <1>2, <2>1
<1>3. CASE from = "analyse" /\ to \in {"settle", "error", "mark", "transient"}
  <2>1. /\ Distance("analyse") = 6 /\ Distance("settle") = 5
        /\ Distance("error") = 3 /\ Distance("mark") = 5 /\ Distance("transient") = 5
    BY Distances
  <2> QED BY <1>3, <2>1
<1>4. CASE from = "settle" /\ to = "returning"
  <2>1. Distance("settle") = 5 /\ Distance("returning") = 4
    BY Distances
  <2> QED BY <1>4, <2>1
<1>5. CASE from = "returning" /\ to = "ended"
  <2>1. Distance("returning") = 4 /\ Distance("ended") = 0
    BY Distances
  <2> QED BY <1>5, <2>1
<1>6. CASE from = "mark" /\ to = "fail"
  <2>1. Distance("mark") = 5 /\ Distance("fail") = 4
    BY Distances
  <2> QED BY <1>6, <2>1
<1>7. CASE from = "fail" /\ to \in {"ended", "raised"}
  <2>1. /\ Distance("fail") = 4 /\ Distance("ended") = 0
        /\ Distance("raised") = 0
    BY Distances
  <2> QED BY <1>7, <2>1
<1>8. CASE from = "transient" /\ to \in {"raised", "republish", "ended"}
  <2>1. /\ Distance("transient") = 5 /\ Distance("raised") = 0
        /\ Distance("republish") = 1 /\ Distance("ended") = 0
    BY Distances
  <2> QED BY <1>8, <2>1
<1>9. CASE from = "error" /\ to \in {"republish", "ended", "final"}
  <2>1. /\ Distance("error") = 3 /\ Distance("republish") = 1
        /\ Distance("ended") = 0 /\ Distance("final") = 2
    BY Distances
  <2> QED BY <1>9, <2>1
<1>10. CASE from = "final" /\ to = "fail final"
  <2>1. Distance("final") = 2 /\ Distance("fail final") = 1
    BY Distances
  <2>2. Distance(to) = 1 /\ Distance(from) = 2
    BY <1>10, <2>1, Zenon
  <2> QED BY <2>2
<1>11. CASE from = "fail final" /\ to = "ended"
  <2>1. Distance("fail final") = 1 /\ Distance("ended") = 0
    BY Distances
  <2>2. Distance(to) = 0 /\ Distance(from) = 1
    BY <1>11, <2>1, Zenon
  <2> QED BY <2>2
<1>12. CASE from \in Body /\ to = "error"
  <2>1. Distance("error") = 3
    BY Distances
  <2>2. \/ Distance(from) = 8 \/ Distance(from) = 7 \/ Distance(from) = 6
        \/ Distance(from) = 5 \/ Distance(from) = 4
    BY <1>12, Distances, Zenon DEF Body
  <2>3. Distance(to) = 3
    BY <1>12, <2>1
  <2> QED BY <2>2, <2>3
<1>13. CASE from \in Running /\ to \in {"raised", "lost"}
  <2>1. Distance("raised") = 0 /\ Distance("lost") = 0
    BY Distances
  <2>2. \/ Distance(from) = 8 \/ Distance(from) = 7 \/ Distance(from) = 6
        \/ Distance(from) = 5 \/ Distance(from) = 4 \/ Distance(from) = 3
        \/ Distance(from) = 2 \/ Distance(from) = 1
    BY <1>13, Distances, Zenon DEF Running, Body, Handlers
  <2>3. Distance(to) = 0
    BY <1>13, <2>1
  <2> QED BY <2>2, <2>3
<1> QED BY <1>1, <1>2, <1>3, <1>4, <1>5, <1>6, <1>7, <1>8, <1>9, <1>10, <1>11, <1>12, <1>13 DEF Move

LEMMA StepComesNearer ==
  ASSUME TypeOK, TypeOK', TaskInv, TaskInv', NEW j \in Jobs,
         Step(j) \/ Interrupt(j) \/ WorkerLost(j)
  PROVE  StepsLeft(j)' < StepsLeft(j)
<1>1. CASE Republish(j)
  BY <1>1, RetryComesNearer
<1>2. CASE Deliver(j)
  <2>1. /\ pc[j] = "idle" /\ pc'[j] = "begin" /\ attempt'[j] = message[j]
    BY <1>2 DEF Deliver, Go, TypeOK
  <2>2. RetriesAhead(j)' = RetriesAhead(j)
    BY <2>1 DEF RetriesAhead, Ahead
  <2>3. Distance(pc'[j]) < Distance(pc[j])
    BY <2>1 DEF Distance
  <2> QED BY <2>2, <2>3, PlaceComesNearer
<1>3. ASSUME UNCHANGED <<message, attempt>>, pc[j] # "idle", pc'[j] # "idle",
             Distance(pc'[j]) < Distance(pc[j])
      PROVE  StepsLeft(j)' < StepsLeft(j)
  <2>1. RetriesAhead(j)' = RetriesAhead(j)
    BY <1>3 DEF RetriesAhead, Ahead
  <2> QED BY <1>3, <2>1, PlaceComesNearer
<1>4. ASSUME Move(pc[j], pc'[j]), UNCHANGED <<message, attempt>>
      PROVE  StepsLeft(j)' < StepsLeft(j)
  <2>1. Distance(pc'[j]) < Distance(pc[j])
    BY <1>4, MovesComeNearer
  <2>2. pc[j] # "idle" /\ pc'[j] # "idle"
    BY <1>4 DEF Move, Body, Running, Handlers
  <2> QED BY <1>3, <1>4, <2>1, <2>2
<1>5. CASE Begin(j) \/ CheckCache(j) \/ SettleSuccess(j) \/ ReturnResult(j)
  BY <1>4, <1>5 DEF Move, Begin, CheckCache, SettleSuccess, ReturnResult, Go, TypeOK
<1>6. CASE \E o \in Outcomes : Analyse(j, o)
  BY <1>4, <1>6 DEF Move, Analyse, Outcomes, Go, TypeOK
<1>7. CASE MarkSite(j) \/ FailJob(j) \/ HandleTransient(j)
  BY <1>4, <1>7 DEF Move, MarkSite, FailJob, HandleTransient, Go, TypeOK
<1>8. CASE HandleError(j) \/ MarkFailure(j) \/ FailFinally(j)
  BY <1>4, <1>8 DEF Move, HandleError, MarkFailure, FailFinally, Go, TypeOK
<1>9. CASE Interrupt(j) \/ WorkerLost(j)
  <2>1. /\ pc[j] \in Running /\ UNCHANGED <<message, attempt>>
        /\ (pc[j] \in Body /\ pc'[j] = "error") \/ pc'[j] \in {"raised", "lost"}
    BY <1>9, InterruptAssumption DEF Interrupt, WorkerLost, Go, TypeOK
  <2> QED BY <1>4, <2>1 DEF Move
<1> QED BY <1>1, <1>2, <1>5, <1>6, <1>7, <1>8, <1>9 DEF Step

\* The safety half of TasksEnd, first part: a task that is not over can go on.
THEOREM UrlNeverStalls == Spec => []NeverStalls
<1>1. TypeOK /\ TaskInv => NeverStalls
  BY DEF TypeOK, TaskInv, NeverStalls
<1> QED BY <1>1, UrlInv, PTL

\* The second part: with every step, retries and interrupts included, a task has
\* fewer steps left, of which there are never less than none.  So it ends after
\* 10 * MaxRetries + 9 of them at the latest.
THEOREM UrlStepsRunOut ==
  Spec => StepsRunOut /\ [](\A j \in Jobs : StepsLeft(j) \in 0..(10 * MaxRetries + 9))
<1>1. TypeOK /\ TaskInv => \A j \in Jobs : StepsLeft(j) \in 0..(10 * MaxRetries + 9)
  <2> SUFFICES ASSUME TypeOK, TaskInv, NEW j \in Jobs
               PROVE  StepsLeft(j) \in 0..(10 * MaxRetries + 9)
    OBVIOUS
  <2>1. RetriesAhead(j) \in 0..MaxRetries /\ Distance(pc[j]) \in 0..9
    BY AheadIs, DistanceType DEF TypeOK, TaskInv, RetriesAhead
  <2>2. \A r \in 0..MaxRetries, d \in 0..9 : 10 * r + d \in 0..(10 * MaxRetries + 9)
    BY RetriesAssumption
  <2>3. StepsLeft(j) = 10 * RetriesAhead(j) + Distance(pc[j])
    BY DEF StepsLeft, RetriesAhead, Ahead
  <2> QED BY <2>1, <2>2, <2>3
<1>2. TypeOK /\ TypeOK' /\ TaskInv /\ TaskInv' /\ [Next]_vars =>
        [\A j \in Jobs : Step(j) \/ pc'[j] # pc[j] => StepsLeft(j)' < StepsLeft(j)]_vars
  <2> SUFFICES ASSUME TypeOK, TypeOK', TaskInv, TaskInv', Next, NEW j \in Jobs,
                      Step(j) \/ pc'[j] # pc[j]
               PROVE  StepsLeft(j)' < StepsLeft(j)
    OBVIOUS
  <2>1. CASE Step(j)
    BY <2>1, StepComesNearer
  <2>2. CASE pc'[j] # pc[j]
    <3>1. PICK i \in Jobs : Step(i) \/ Interrupt(i) \/ WorkerLost(i)
      BY <2>2 DEF Next, TtlPasses
    <3>2. \E place : pc' = [pc EXCEPT ![i] = place]
      BY <3>1
      DEF Step, Deliver, Begin, CheckCache, Analyse, SettleSuccess, ReturnResult, MarkSite,
          FailJob, HandleTransient, HandleError, MarkFailure, FailFinally, Republish,
          Interrupt, WorkerLost, Go
    <3>3. i = j
      BY <2>2, <3>2 DEF TypeOK
    <3> QED BY <3>1, <3>3, StepComesNearer
  <2> QED BY <2>1, <2>2
<1>3. Spec => [](TypeOK /\ TaskInv)
  BY UrlInv
<1> QED BY <1>1, <1>2, <1>3, PTL DEF Spec, StepsRunOut

-----------------------------------------------------------------------------
(* How the rows of the jobs move.                                          *)

\* What a step may do to the row of a job.
RowMoves(j) ==
  \/ job'[j] = job[j]
  \/ <<job[j], job'[j]>> \in Lifecycle!Moves
  \/ SetBack(j)

\* A step that changes the row of one job in one of these ways.
LEMMA OneMove ==
  ASSUME TypeOK, NEW j \in Jobs, NEW status, SetJob(j, status),
         \/ status = job[j]
         \/ <<job[j], status>> \in Lifecycle!Moves
         \/ /\ Settled(job[j])
            /\ \/ pc[j] = "error" /\ RetriesLeft(j) /\ status = "pending"
               \/ pc[j] = "fail final" /\ ~RetriesLeft(j) /\ status = "failed"
  PROVE  \A i \in Jobs : RowMoves(i)
<1>1. job'[j] = status /\ \A i \in Jobs : i # j => job'[i] = job[i]
  BY DEF TypeOK, SetJob
<1>2. RowMoves(j)
  BY <1>1 DEF RowMoves, SetBack
<1> QED BY <1>1, <1>2 DEF RowMoves

LEMMA LifecycleStep ==
  ASSUME TypeOK, TaskInv, [Next]_vars
  PROVE  [\A j \in Jobs : RowMoves(j)]_job
<1> SUFFICES ASSUME job' # job PROVE \A j \in Jobs : RowMoves(j)
  OBVIOUS
<1> USE DEF Lifecycle!Moves
<1>a. \A j \in Jobs : job[j] \in JobAt(pc[j])
  BY DEF TaskInv
<1>1. ASSUME NEW j \in Jobs, Begin(j) PROVE \A i \in Jobs : RowMoves(i)
  <2>1. job[j] = "pending" /\ SetJob(j, "processing")
    BY <1>1, <1>a DEF Begin, JobAt
  <2> QED BY <2>1, OneMove
<1>2. ASSUME NEW j \in Jobs, CheckCache(j) PROVE \A i \in Jobs : RowMoves(i)
  <2>1. job[j] = "processing" /\ (SetJob(j, "failed") \/ SetJob(j, "success"))
    BY <1>2, <1>a DEF CheckCache, JobAt
  <2> QED BY <2>1, OneMove
<1>3. ASSUME NEW j \in Jobs, SettleSuccess(j) PROVE \A i \in Jobs : RowMoves(i)
  <2>1. job[j] = "processing" /\ SetJob(j, "success")
    BY <1>3, <1>a DEF SettleSuccess, JobAt
  <2> QED BY <2>1, OneMove
<1>4. ASSUME NEW j \in Jobs, FailJob(j) \/ HandleTransient(j)
      PROVE  \A i \in Jobs : RowMoves(i)
  <2>1. job[j] = "processing" /\ (SetJob(j, "failed") \/ SetJob(j, "pending"))
    BY <1>4, <1>a DEF FailJob, HandleTransient, JobAt
  <2> QED BY <2>1, OneMove
<1>5. ASSUME NEW j \in Jobs, HandleError(j) PROVE \A i \in Jobs : RowMoves(i)
  <2>1. /\ pc[j] = "error" /\ RetriesLeft(j) /\ SetJob(j, "pending")
        /\ job[j] \in {"pending", "processing", "success", "failed"}
    BY <1>5, <1>a DEF HandleError, JobAt, Spoiled
  <2> QED BY <2>1, OneMove DEF Settled
<1>6. ASSUME NEW j \in Jobs, FailFinally(j) PROVE \A i \in Jobs : RowMoves(i)
  <2>1. /\ pc[j] = "fail final" /\ ~RetriesLeft(j) /\ SetJob(j, "failed")
        /\ job[j] \in {"pending", "processing", "success", "failed"}
    BY <1>6, <1>a DEF FailFinally, JobAt, Spoiled, TaskInv, RetriesLeft
  <2> QED BY <2>1, OneMove DEF Settled
<1> QED
  BY <1>1, <1>2, <1>3, <1>4, <1>5, <1>6
  DEF Next, Step, vars, Deliver, Analyse, ReturnResult, MarkSite, MarkFailure,
      Republish, Interrupt, WorkerLost, TtlPasses

\* Wherever the time limit and the errors of the database strike, on either
\* database: a task moves the row of its job as JobLifecycle promises a poller,
\* and sets a settled job back only in the run that settled it, after an exception
\* between the commit and the return.
THEOREM UrlMovesJobs == Spec => JobsFollowLifecycle
<1>1. Init => Lifecycle!Init
  BY DEF Init, Lifecycle!Init
<1>2. TypeOK /\ TaskInv /\ [Next]_vars
      => [\A j \in Jobs : \/ job'[j] = job[j]
                          \/ <<job[j], job'[j]>> \in Lifecycle!Moves
                          \/ SetBack(j)]_job
  BY LifecycleStep DEF RowMoves
<1> QED BY <1>1, <1>2, UrlInv, PTL DEF Spec, JobsFollowLifecycle
=============================================================================
