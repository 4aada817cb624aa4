---------------------------- MODULE BatchFlowProofs ----------------------------
(***************************************************************************)
(* Proofs about BatchFlow, for any number of requests, any lists, any size *)
(* of the pool and any mix of outcomes.                                    *)
(*                                                                         *)
(* The batches share two tables.  Of analysis_job each has a range of its  *)
(* own, given out when the API commits; of ai_site they share the rows,    *)
(* and what makes a job's result lasting is that no mark takes a row's     *)
(* analysis away.                                                          *)
(***************************************************************************)
EXTENDS BatchFlow, TLAPS, FiniteSetTheorems, SequenceTheorems, WellFoundedInduction

-----------------------------------------------------------------------------
(* Sequences, positions and rows                                           *)

LEMMA FunctionIsSeq ==
  ASSUME NEW S, NEW n \in Nat, NEW f \in [1..n -> S]
  PROVE  f \in Seq(S) /\ Len(f) = n
BY SeqDef

LEMMA GreatestPosition ==
  ASSUME NEW n \in Nat, NEW S \in SUBSET (1..n), S # {}
  PROVE  \E x \in S : \A y \in S : y <= x
<1> DEFINE More == {ss \in Nat \X Nat : ss[1] < ss[2]}
<1>1. IsWellFoundedOn(More, Nat)
  BY NatLessThanWellFounded, Zenon DEF OpToRel
<1> HIDE DEF More
<1> DEFINE T == {n - x : x \in S}
<1>2. T \in SUBSET Nat /\ T # {}
  <2>1. ASSUME NEW x \in S PROVE n - x \in Nat
    OBVIOUS
  <2>2. PICK x : x \in S
    OBVIOUS
  <2>3. n - x \in T
    BY <2>2
  <2>4. ASSUME NEW t \in T PROVE t \in Nat
    BY <2>1
  <2> QED BY <2>3, <2>4
<1>3. PICK t \in T : \A y \in T : ~(<<y, t>> \in More)
  <2> HIDE DEF T
  <2> QED BY <1>1, <1>2, WFMin
<1>4. PICK x \in S : t = n - x
  OBVIOUS
<1>5. ASSUME NEW y \in S PROVE y <= x
  <2>1. n - y \in T /\ t \in Nat /\ n - y \in Nat
    BY <1>2
  <2>2. ~(n - y < t)
    BY <1>3, <2>1 DEF More
  <2> QED BY <1>4, <2>1, <2>2
<1> QED BY <1>5

\* job_id_map holds for every URL of the batch the last of its positions.
LEMMA LastIsMapped ==
  ASSUME NEW r \in Requests, pending[r] \in Seq(Urls), NEW i \in Positions(r)
  PROVE  /\ LastOf(r, i) \in Positions(r)
         /\ pending[r][LastOf(r, i)] = pending[r][i]
<1> DEFINE same == {p \in Positions(r) : pending[r][p] = pending[r][i]}
<1>1. Len(pending[r]) \in Nat /\ same \in SUBSET (1..Len(pending[r])) /\ same # {}
  BY DEF Positions
<1>2. PICK p \in same : \A q \in same : q <= p
  <2> HIDE DEF same
  <2> QED BY <1>1, GreatestPosition
<1>3. /\ p \in Positions(r) /\ pending[r][p] = pending[r][i]
      /\ \A q \in Positions(r) : pending[r][q] = pending[r][i] => q <= p
  BY <1>2
<1> QED BY <1>3 DEF LastOf

LEMMA RowType ==
  ASSUME NEW site \in Site, NEW o \in AllOutcomes
  PROVE  SitesAfter(site, o) \subseteq Site
<1>1. \A st \in {"ok", "unreachable", "blocked", "failure", NULL} :
         Mark(site, st) \in Site
  BY DEF Site, Mark
<1>2. Saved("ok", "llm") \in Site /\ Saved("blocked", "llm") \in Site
  BY DEF Site, Saved
<1> QED BY <1>1, <1>2 DEF SitesAfter, AllOutcomes

\* An analysis leaves the row analysed, and a mark leaves it so.
LEMMA AnalysisStays ==
  ASSUME NEW site, NEW o \in AllOutcomes, NEW row \in SitesAfter(site, o),
         o = "saved" \/ site.analyzer = "llm"
  PROVE  row.analyzer = "llm"
<1>1. CASE o = "saved"
  <2>1. Saved("ok", "llm").analyzer = "llm" /\ Saved("blocked", "llm").analyzer = "llm"
    BY DEF Saved
  <2>2. row \in {Saved("ok", "llm"), Saved("blocked", "llm")}
    BY <1>1 DEF SitesAfter
  <2> QED BY <2>1, <2>2
<1>2. CASE o # "saved"
  <2>1. \A st : Mark(site, st).analyzer = site.analyzer
    BY DEF Mark
  <2>2. row = site \/ \E st : row = Mark(site, st)
    BY <1>2 DEF SitesAfter, AllOutcomes
  <2> QED BY <1>2, <2>1, <2>2
<1> QED BY <1>1, <1>2

-----------------------------------------------------------------------------
(* The inductive invariant                                                 *)

NoRepeat(s) == \A i, j \in DOMAIN s : s[i] = s[j] => i = j

Committed(r) == stage[r] \notin {"new", "looking"}
End(r)       == base[r] + Len(pending[r])

\* What is analysed comes from the part of the list gone through, once each.
ScanInv(r) ==
  /\ looked[r] \in 0..Len(list[r])
  /\ \A i \in Positions(r) : \E k \in 1..looked[r] : pending[r][i] = list[r][k]
  /\ NoRepeat(list[r]) => NoRepeat(pending[r])

\* The jobs of a request are rows of the table, in the order of its URLs.
OwnInv(r) ==
  Committed(r) =>
    /\ End(r) <= Len(jobs)
    /\ \A i \in Positions(r) : jobs[JobAt(r, i)].url = pending[r][i]

\* Two requests have no job in common.
Apart ==
  \A r, q \in Requests :
    r # q /\ Committed(r) /\ Committed(q) => End(r) <= base[q] \/ End(q) <= base[r]

\* A batch finds its jobs as it left them.
StatusInv(r) ==
  /\ stage[r] \in {"committed", "queued"} =>
       \A i \in Positions(r) : jobs[JobAt(r, i)].status = "pending"
  /\ stage[r] = "running" =>
       \A i \in Positions(r) : jobs[JobAt(r, i)].status = "processing"
  /\ stage[r] = "done" /\ NoRepeat(list[r]) =>
       \A i \in Positions(r) :
         jobs[JobAt(r, i)].status =
           (IF outcome[r][i] \in {"saved", "silent"} THEN "success" ELSE "failed")

ThreadState == {"submitted", "calling", "finished"}

PoolInv(r) ==
  PoolRuns(r) =>
    /\ thread[r] \in [Positions(r) -> ThreadState]
    /\ outcome[r] \in [Positions(r) -> AllOutcomes \cup {"none"}]
    /\ \A i \in Positions(r) :
         outcome[r][i] = "saved" => sites[pending[r][i]].analyzer = "llm"

RequestInv(r) == ScanInv(r) /\ OwnInv(r) /\ StatusInv(r) /\ PoolInv(r)

\* TypeOK without what it says of the jobs a request owns and of its pool.
Fields ==
  /\ sites \in [Urls -> Site] /\ jobs \in Seq(Job)
  /\ stage \in [Requests -> AtApi \cup AtTask \cup Over]
  /\ list \in [Requests -> Lists] /\ force \in [Requests -> BOOLEAN]
  /\ analysed \in [Requests -> SUBSET Urls] /\ looked \in [Requests -> Nat]
  /\ pending \in [Requests -> Seq(Urls)] /\ base \in [Requests -> Nat]
  /\ DOMAIN thread = Requests /\ DOMAIN outcome = Requests

FlowInv ==
  /\ TypeOK /\ Fields
  /\ \A r \in Requests : RequestInv(r)
  /\ Apart
  /\ ResultIsAnalysis

\* What a step for r leaves to the other requests.
Frame(r) ==
  /\ list' = list
  /\ \A q \in Requests \ {r} :
       /\ stage'[q] = stage[q] /\ looked'[q] = looked[q] /\ pending'[q] = pending[q]
       /\ base'[q] = base[q] /\ thread'[q] = thread[q] /\ outcome'[q] = outcome[q]
  /\ Len(jobs') >= Len(jobs)
  /\ \A j \in DOMAIN jobs : jobs'[j] = jobs[j] \/ (Committed(r) /\ j \in Own(r))
  /\ \A u \in Urls : sites[u].analyzer = "llm" => sites'[u].analyzer = "llm"

LEMMA PositionsType ==
  ASSUME Fields, NEW r \in Requests
  PROVE  /\ pending[r] \in Seq(Urls) /\ Len(pending[r]) \in Nat /\ base[r] \in Nat
         /\ list[r] \in Seq(Urls) /\ Len(list[r]) \in Nat
         /\ Positions(r) = 1..Len(pending[r])
         /\ \A i \in Positions(r) : pending[r][i] \in Urls
         /\ jobs \in Seq(Job) /\ Len(jobs) \in Nat /\ DOMAIN jobs = 1..Len(jobs)
BY ListsAssumption DEF Fields, Positions

LEMMA OthersKeep ==
  ASSUME FlowInv, Fields', NEW r \in Requests, NEW q \in Requests \ {r}, Frame(r)
  PROVE  RequestInv(q)'
<1>1. /\ stage'[q] = stage[q] /\ looked'[q] = looked[q] /\ pending'[q] = pending[q]
      /\ base'[q] = base[q] /\ thread'[q] = thread[q] /\ outcome'[q] = outcome[q]
      /\ list'[q] = list[q]
  BY DEF Frame
<1>2. /\ Len(pending[q]) \in Nat /\ base[q] \in Nat /\ Positions(q) = 1..Len(pending[q])
      /\ Len(jobs) \in Nat /\ Len(jobs') \in Nat /\ DOMAIN jobs = 1..Len(jobs)
      /\ \A i \in Positions(q) : pending[q][i] \in Urls
      /\ Len(pending[r]) \in Nat /\ base[r] \in Nat /\ Positions(r) = 1..Len(pending[r])
  <2>1. Len(jobs') \in Nat
    BY DEF Fields
  <2>2. Fields
    BY DEF FlowInv
  <2> QED BY <2>1, <2>2, PositionsType
<1>3. RequestInv(q)
  BY DEF FlowInv
<1>4. ScanInv(q)'
  BY <1>1, <1>3 DEF RequestInv, ScanInv, Positions, NoRepeat
<1>5. ASSUME Committed(q), NEW i \in Positions(q)
      PROVE  jobs'[JobAt(q, i)] = jobs[JobAt(q, i)]
  <2>1. JobAt(q, i) \in DOMAIN jobs
    BY <1>2, <1>3, <1>5 DEF RequestInv, OwnInv, End, JobAt
  <2>2. ASSUME Committed(r), NEW k \in Positions(r) PROVE JobAt(q, i) # JobAt(r, k)
    <3>1. End(r) <= base[q] \/ End(q) <= base[r]
      BY <1>5, <2>2 DEF FlowInv, Apart
    <3> QED BY <1>2, <3>1 DEF End, JobAt
  <2> QED BY <2>1, <2>2 DEF Frame, Own
<1>6. OwnInv(q)'
  <2> SUFFICES ASSUME Committed(q)
               PROVE  /\ End(q)' <= Len(jobs')
                      /\ \A i \in Positions(q) : jobs'[JobAt(q, i)].url = pending[q][i]
    BY <1>1 DEF OwnInv, Committed, Positions, JobAt
  <2>1. /\ End(q) <= Len(jobs)
        /\ \A i \in Positions(q) : jobs[JobAt(q, i)].url = pending[q][i]
    BY <1>3 DEF RequestInv, OwnInv
  <2>2. End(q)' = End(q) /\ End(q) \in Nat /\ Len(jobs') >= Len(jobs)
    BY <1>1, <1>2 DEF End, Frame
  <2> QED BY <1>2, <1>5, <2>1, <2>2
<1>7. StatusInv(q)'
  <2>1. stage[q] \in {"committed", "queued", "running", "done"} =>
          \A i \in Positions(q) : jobs'[JobAt(q, i)] = jobs[JobAt(q, i)]
    BY <1>5 DEF Committed
  <2>2. StatusInv(q)
    BY <1>3 DEF RequestInv
  <2>3. /\ stage[q] \in {"committed", "queued"} =>
             \A i \in Positions(q) : jobs'[JobAt(q, i)].status = "pending"
        /\ stage[q] = "running" =>
             \A i \in Positions(q) : jobs'[JobAt(q, i)].status = "processing"
        /\ stage[q] = "done" /\ NoRepeat(list[q]) =>
             \A i \in Positions(q) :
               jobs'[JobAt(q, i)].status =
                 (IF outcome[q][i] \in {"saved", "silent"} THEN "success" ELSE "failed")
    BY <2>1, <2>2 DEF StatusInv
  <2>4. /\ Positions(q)' = Positions(q) /\ NoRepeat(list[q])' <=> NoRepeat(list[q])
        /\ \A i \in Positions(q) : JobAt(q, i)' = JobAt(q, i)
    BY <1>1 DEF Positions, NoRepeat, JobAt
  <2> QED BY <1>1, <2>3, <2>4 DEF StatusInv, JobAt, Positions, NoRepeat
<1>8. PoolInv(q)'
  BY <1>1, <1>2, <1>3 DEF RequestInv, PoolInv, PoolRuns, Positions, Frame
<1> QED BY <1>4, <1>6, <1>7, <1>8 DEF RequestInv

\* A step for r that keeps what concerns r keeps the invariant.
LEMMA Assemble ==
  ASSUME FlowInv, Fields', NEW r \in Requests, Frame(r), RequestInv(r)',
         Cardinality(AtWork(r)') <= Concurrency, Apart', ResultIsAnalysis'
  PROVE  FlowInv'
<1>1. ASSUME NEW q \in Requests PROVE RequestInv(q)'
  BY <1>1, OthersKeep
<1>2. ASSUME NEW q \in Requests PROVE Cardinality(AtWork(q)') <= Concurrency
  <2>1. CASE q # r
    <3>1. thread'[q] = thread[q]
      BY <2>1 DEF Frame
    <3>2. AtWork(q)' = AtWork(q)
      BY <3>1 DEF AtWork
    <3> QED BY <3>2 DEF FlowInv, TypeOK
  <2> QED BY <2>1
<1>3. ASSUME NEW q \in Requests, stage'[q] \notin {"new", "looking"}
      PROVE  Own(q)' \subseteq DOMAIN jobs'
  <2>1. End(q)' <= Len(jobs')
    BY <1>1, <1>3 DEF RequestInv, OwnInv, Committed
  <2>2. /\ Len(pending'[q]) \in Nat /\ base'[q] \in Nat
        /\ Positions(q)' = 1..Len(pending'[q])
        /\ Len(jobs') \in Nat /\ DOMAIN jobs' = 1..Len(jobs')
    BY DEF Fields, Positions
  <2>3. ASSUME NEW i \in 1..Len(pending'[q]) PROVE base'[q] + i \in 1..Len(jobs')
    BY <2>1, <2>2 DEF End
  <2> QED BY <2>2, <2>3 DEF Own, JobAt
<1>4. TypeOK'
  BY <1>2, <1>3 DEF Fields, TypeOK
<1> QED BY <1>1, <1>4 DEF FlowInv

\* Where the positions of r and whether it is committed stay as they are.
LEMMA ApartKept ==
  ASSUME FlowInv, NEW r \in Requests, Frame(r),
         base'[r] = base[r], pending'[r] = pending[r], Committed(r)' => Committed(r)
  PROVE  Apart'
<1>1. ASSUME NEW q \in Requests
      PROVE  /\ base'[q] = base[q] /\ pending'[q] = pending[q]
             /\ Committed(q)' => Committed(q)
  BY DEF Frame, Committed
<1>2. \A q \in Requests : End(q)' = End(q)
  BY <1>1 DEF End
<1> QED BY <1>1, <1>2 DEF FlowInv, Apart

\* The statuses and the sites of the jobs stay, and so do the analyses.
LEMMA ResultsKept ==
  ASSUME FlowInv, jobs' = jobs,
         \A u \in Urls : sites[u].analyzer = "llm" => sites'[u].analyzer = "llm"
  PROVE  ResultIsAnalysis'
<1>1. ASSUME NEW j \in DOMAIN jobs PROVE jobs[j].url \in Urls
  <2>1. jobs \in Seq(Job)
    BY DEF FlowInv, TypeOK
  <2>2. jobs[j] \in Job
    BY <2>1
  <2> QED BY <2>2 DEF Job
<1> QED BY <1>1 DEF FlowInv, ResultIsAnalysis, ShowsResult

-----------------------------------------------------------------------------
(* The steps                                                               *)

\* Steps that only move the request on.
LEMMA StageMoves ==
  ASSUME FlowInv, NEW r \in Requests, NEW place \in AtApi \cup AtTask \cup Over,
         Enter(r, place), UNCHANGED <<sites, jobs, request, pool>>,
         place \notin {"new", "looking"} => Committed(r),
         place \notin {"running", "done"},
         place \in {"committed", "queued"} => stage[r] \in {"committed", "queued"},
         place = "aborting" => PoolRuns(r)
  PROVE  FlowInv'
<1> USE DEF request, pool
<1>1. /\ stage' \in [Requests -> AtApi \cup AtTask \cup Over] /\ stage'[r] = place
      /\ \A q \in Requests \ {r} : stage'[q] = stage[q]
  BY DEF FlowInv, TypeOK, Enter
<1>2. Fields'
  BY <1>1 DEF FlowInv, Fields
<1>3. Frame(r)
  <2>1. Len(jobs) \in Nat
    BY PositionsType DEF FlowInv
  <2> QED BY <1>1, <2>1 DEF Frame
<1>4. RequestInv(r)'
  <2>1. RequestInv(r)
    BY DEF FlowInv
  <2>2. ScanInv(r)'
    BY <2>1 DEF RequestInv, ScanInv, Positions
  <2>3. OwnInv(r)'
    BY <1>1, <2>1 DEF RequestInv, OwnInv, Positions, Committed, End, JobAt
  <2>4. StatusInv(r)'
    BY <1>1, <2>1 DEF RequestInv, StatusInv, Positions, JobAt
  <2>5. PoolInv(r)'
    BY <1>1, <2>1 DEF RequestInv, PoolInv, PoolRuns, Positions
  <2> QED BY <2>2, <2>3, <2>4, <2>5 DEF RequestInv
<1>5. Cardinality(AtWork(r)') <= Concurrency
  BY DEF FlowInv, TypeOK, AtWork
<1>6. Apart'
  BY <1>1, <1>3, ApartKept DEF Committed
<1>7. ResultIsAnalysis'
  BY ResultsKept
<1> QED BY <1>2, <1>3, <1>4, <1>5, <1>6, <1>7, Assemble

LEMMA MovesKeep ==
  ASSUME FlowInv, NEW r \in Requests,
         Publish(r) \/ PublishFails(r) \/ CollectRaises(r) \/ Interrupt(r)
           \/ PoolShutDown(r) \/ WorkerLost(r)
  PROVE  FlowInv'
<1>1. CASE Publish(r)
  <2> DEFINE place == IF pending[r] = <<>> THEN "answered" ELSE "queued"
  <2>1. place \in {"answered", "queued"} /\ stage[r] = "committed" /\ Enter(r, place)
    BY <1>1 DEF Publish
  <2>2. UNCHANGED <<sites, jobs, request, pool>>
    BY <1>1 DEF Publish
  <2> HIDE DEF place
  <2> QED BY <2>1, <2>2, StageMoves DEF AtApi, AtTask, Over, Committed
<1>2. CASE PublishFails(r)
  BY <1>2, StageMoves DEF PublishFails, AtApi, AtTask, Over, Committed
<1>3. CASE CollectRaises(r)
  BY <1>3, StageMoves DEF CollectRaises, AtApi, AtTask, Over, Committed, PoolRuns
<1>4. CASE Interrupt(r)
  <2> DEFINE place == IF stage[r] = "running" THEN "aborting" ELSE "raised"
  <2>1. /\ place \in {"aborting", "raised"} /\ stage[r] \in {"queued", "running"}
        /\ place = "aborting" => stage[r] = "running"
    BY <1>4 DEF Interrupt
  <2>2. Enter(r, place) /\ UNCHANGED <<sites, jobs, request, pool>>
    BY <1>4 DEF Interrupt
  <2> HIDE DEF place
  <2> QED BY <2>1, <2>2, StageMoves DEF AtApi, AtTask, Over, Committed, PoolRuns
<1>5. CASE PoolShutDown(r)
  BY <1>5, StageMoves DEF PoolShutDown, AtApi, AtTask, Over, Committed
<1>6. CASE WorkerLost(r)
  BY <1>6, StageMoves DEF WorkerLost, AtApi, AtTask, Over, Committed
<1> QED BY <1>1, <1>2, <1>3, <1>4, <1>5, <1>6

LEMMA ReadKeeps ==
  ASSUME FlowInv, NEW r \in Requests, ReadSites(r)
  PROVE  FlowInv'
<1>1. /\ stage[r] = "new" /\ stage' = [stage EXCEPT ![r] = "looking"]
      /\ UNCHANGED <<sites, jobs, list, force, looked, pending, base, thread, outcome>>
  BY DEF ReadSites, Enter, pool
<1>2. /\ stage' \in [Requests -> AtApi \cup AtTask \cup Over] /\ stage'[r] = "looking"
      /\ \A q \in Requests \ {r} : stage'[q] = stage[q]
  BY <1>1 DEF FlowInv, TypeOK, AtApi
<1>3. analysed' \in [Requests -> SUBSET Urls]
  BY DEF ReadSites, FlowInv, TypeOK
<1>4. Fields'
  BY <1>1, <1>2, <1>3 DEF FlowInv, Fields
<1>5. Frame(r)
  <2>1. Len(jobs) \in Nat
    BY PositionsType DEF FlowInv
  <2> QED BY <1>1, <1>2, <2>1 DEF Frame
<1>6. RequestInv(r)'
  <2>1. ScanInv(r)'
    BY <1>1 DEF FlowInv, RequestInv, ScanInv, Positions
  <2>2. OwnInv(r)' /\ StatusInv(r)' /\ PoolInv(r)'
    BY <1>2 DEF OwnInv, StatusInv, PoolInv, PoolRuns, Committed
  <2> QED BY <2>1, <2>2 DEF RequestInv
<1>7. Cardinality(AtWork(r)') <= Concurrency
  BY <1>1 DEF FlowInv, TypeOK, AtWork
<1>8. Apart'
  BY <1>1, <1>2, <1>5, ApartKept DEF Committed
<1>9. ResultIsAnalysis'
  BY <1>1, ResultsKept
<1> QED BY <1>4, <1>5, <1>6, <1>7, <1>8, <1>9, Assemble

LEMMA LookKeeps ==
  ASSUME FlowInv, NEW r \in Requests, LookUp(r)
  PROVE  FlowInv'
<1> DEFINE u == list[r][looked[r] + 1]
<1>1. /\ stage[r] = "looking" /\ looked[r] < Len(list[r])
      /\ looked' = [looked EXCEPT ![r] = looked[r] + 1]
      /\ pending' = pending \/ pending' = [pending EXCEPT ![r] = Append(pending[r], u)]
      /\ UNCHANGED <<sites, jobs, stage, list, force, analysed, base, thread, outcome>>
  BY DEF LookUp, pool
<1>2. /\ looked[r] \in 0..Len(list[r]) /\ list[r] \in Seq(Urls) /\ Len(list[r]) \in Nat
      /\ pending[r] \in Seq(Urls) /\ Len(pending[r]) \in Nat
      /\ Positions(r) = 1..Len(pending[r])
  BY PositionsType DEF FlowInv, RequestInv, ScanInv
<1>3. u \in Urls /\ looked[r] + 1 \in 1..Len(list[r])
  BY <1>1, <1>2
<1>4. /\ looked' \in [Requests -> Nat] /\ looked'[r] = looked[r] + 1
      /\ \A q \in Requests \ {r} : looked'[q] = looked[q]
  BY <1>1, <1>2 DEF FlowInv, TypeOK
<1>5. /\ pending' \in [Requests -> Seq(Urls)]
      /\ pending'[r] = pending[r] \/ pending'[r] = Append(pending[r], u)
      /\ \A q \in Requests \ {r} : pending'[q] = pending[q]
  <2>1. Append(pending[r], u) \in Seq(Urls) /\ pending \in [Requests -> Seq(Urls)]
    BY <1>2, <1>3 DEF FlowInv, TypeOK
  <2> HIDE DEF u
  <2> QED BY <1>1, <2>1
<1>6. Fields'
  BY <1>1, <1>4, <1>5 DEF FlowInv, Fields
<1>7. Frame(r)
  <2>1. Len(jobs) \in Nat
    BY PositionsType DEF FlowInv
  <2> QED BY <1>1, <1>4, <1>5, <2>1 DEF Frame
<1>8. ScanInv(r)'
  <2>1. /\ \A i \in Positions(r) : \E k \in 1..looked[r] : pending[r][i] = list[r][k]
        /\ NoRepeat(list[r]) => NoRepeat(pending[r])
    BY DEF FlowInv, RequestInv, ScanInv
  <2>2. looked'[r] \in 0..Len(list'[r])
    BY <1>1, <1>2, <1>4
  <2>3. CASE pending'[r] = pending[r]
    <3>1. \A i \in Positions(r)' : \E k \in 1..looked'[r] : pending'[r][i] = list'[r][k]
      <4>1. 1..looked[r] \subseteq 1..looked'[r]
        BY <1>2, <1>4
      <4> QED BY <1>1, <2>1, <2>3, <4>1 DEF Positions
    <3> QED BY <1>1, <2>1, <2>2, <2>3, <3>1 DEF ScanInv
  <2>4. CASE pending'[r] = Append(pending[r], u)
    <3> DEFINE n == Len(pending[r])
    <3>1. /\ Positions(r)' = 1..(n + 1) /\ pending'[r][n + 1] = u
          /\ \A i \in 1..n : pending'[r][i] = pending[r][i]
          /\ DOMAIN pending'[r] = 1..(n + 1) /\ DOMAIN pending[r] = 1..n
      BY <1>2, <1>3, <2>4 DEF Positions
    <3>2. ASSUME NEW i \in 1..(n + 1)
          PROVE  \E k \in 1..looked'[r] : pending'[r][i] = list[r][k]
      <4>1. CASE i = n + 1
        BY <1>2, <1>4, <3>1, <4>1
      <4>2. CASE i # n + 1
        <5>1. i \in 1..n
          BY <1>2, <4>2
        <5>2. PICK k \in 1..looked[r] : pending[r][i] = list[r][k]
          BY <1>2, <2>1, <5>1
        <5>3. k \in 1..looked'[r]
          BY <1>2, <1>4
        <5> QED BY <3>1, <5>1, <5>2, <5>3
      <4> QED BY <4>1, <4>2
    <3>3. ASSUME NoRepeat(list[r]) PROVE NoRepeat(pending'[r])
      <4>1. ASSUME NEW i \in 1..n PROVE pending[r][i] # u
        <5>1. PICK k \in 1..looked[r] : pending[r][i] = list[r][k]
          BY <1>2, <2>1
        <5>2. k \in DOMAIN list[r] /\ looked[r] + 1 \in DOMAIN list[r] /\ k # looked[r] + 1
          BY <1>2, <1>3
        <5> QED BY <3>3, <5>1, <5>2 DEF NoRepeat
      <4>2. \A i, j \in 1..n : pending[r][i] = pending[r][j] => i = j
        BY <2>1, <3>1, <3>3 DEF NoRepeat
      <4>3. \A i \in 1..(n + 1) : i = n + 1 \/ i \in 1..n
        BY <1>2
      <4> HIDE DEF u, n
      <4> QED BY <3>1, <4>1, <4>2, <4>3 DEF NoRepeat
    <3> QED BY <1>1, <2>2, <3>1, <3>2, <3>3 DEF ScanInv
  <2> QED BY <1>5, <2>3, <2>4
<1>9. RequestInv(r)'
  <2>1. OwnInv(r)' /\ StatusInv(r)' /\ PoolInv(r)'
    BY <1>1 DEF OwnInv, StatusInv, PoolInv, PoolRuns, Committed
  <2> QED BY <1>8, <2>1 DEF RequestInv
<1>10. Cardinality(AtWork(r)') <= Concurrency
  BY <1>1 DEF FlowInv, TypeOK, AtWork
<1>11. Apart'
  <2>1. ~Committed(r)' /\ \A q \in Requests : Committed(q)' => Committed(q) /\ q # r
    BY <1>1 DEF Committed
  <2>2. \A q \in Requests : q # r => End(q)' = End(q) /\ base'[q] = base[q]
    BY <1>1, <1>5 DEF End
  <2> QED BY <2>1, <2>2 DEF FlowInv, Apart
<1>12. ResultIsAnalysis'
  BY <1>1, ResultsKept
<1> QED BY <1>6, <1>7, <1>9, <1>10, <1>11, <1>12, Assemble

LEMMA CommitKeeps ==
  ASSUME FlowInv, NEW r \in Requests, CommitJobs(r)
  PROVE  FlowInv'
<1> DEFINE n   == Len(pending[r])
           new == [i \in Positions(r) |-> NewJob(pending[r][i])]
<1>1. /\ stage[r] = "looking" /\ stage' = [stage EXCEPT ![r] = "committed"]
      /\ jobs' = jobs \o new /\ base' = [base EXCEPT ![r] = Len(jobs)]
      /\ UNCHANGED <<sites, list, force, analysed, looked, pending, thread, outcome>>
  BY DEF CommitJobs, Enter, pool
<1>2. /\ pending[r] \in Seq(Urls) /\ n \in Nat /\ Positions(r) = 1..n
      /\ \A i \in Positions(r) : pending[r][i] \in Urls
      /\ jobs \in Seq(Job) /\ Len(jobs) \in Nat /\ DOMAIN jobs = 1..Len(jobs)
  BY PositionsType DEF FlowInv
<1>3. new \in Seq(Job) /\ Len(new) = n /\ \A i \in 1..n : new[i] = NewJob(pending[r][i])
  <2>1. \A v \in Urls : NewJob(v) \in Job
    BY DEF NewJob, Job, JobStatus
  <2>2. new \in [1..n -> Job]
    BY <1>2, <2>1
  <2>3. \A i \in 1..n : new[i] = NewJob(pending[r][i])
    BY <1>2
  <2> HIDE DEF new
  <2> QED BY <1>2, <2>2, <2>3, FunctionIsSeq
<1> HIDE DEF new, n
<1>4. /\ jobs' \in Seq(Job) /\ Len(jobs') = Len(jobs) + n /\ DOMAIN jobs' = 1..(Len(jobs) + n)
      /\ \A j \in 1..Len(jobs) : jobs'[j] = jobs[j]
      /\ \A i \in 1..n : jobs'[Len(jobs) + i] = NewJob(pending[r][i])
  <2>1. jobs' \in Seq(Job) /\ Len(jobs') = Len(jobs) + n
    BY <1>1, <1>2, <1>3, ConcatProperties, Zenon
  <2>2. \A j \in 1..(Len(jobs) + n) :
           jobs'[j] = IF j <= Len(jobs) THEN jobs[j] ELSE new[j - Len(jobs)]
    BY <1>1, <1>2, <1>3, ConcatProperties, Zenon
  <2>3. \A j \in 1..Len(jobs) : jobs'[j] = jobs[j]
    BY <1>2, <2>2
  <2>4. ASSUME NEW i \in 1..n PROVE jobs'[Len(jobs) + i] = NewJob(pending[r][i])
    <3>1. /\ Len(jobs) + i \in 1..(Len(jobs) + n) /\ ~(Len(jobs) + i <= Len(jobs))
          /\ (Len(jobs) + i) - Len(jobs) = i
      BY <1>2
    <3> QED BY <1>3, <2>2, <3>1
  <2> QED BY <2>1, <2>3, <2>4, <1>2
<1>5. /\ stage' \in [Requests -> AtApi \cup AtTask \cup Over] /\ stage'[r] = "committed"
      /\ \A q \in Requests \ {r} : stage'[q] = stage[q]
      /\ base' \in [Requests -> Nat] /\ base'[r] = Len(jobs)
      /\ \A q \in Requests \ {r} : base'[q] = base[q]
  BY <1>1, <1>2 DEF FlowInv, Fields, AtApi
<1>6. Fields'
  BY <1>1, <1>4, <1>5 DEF FlowInv, Fields
<1>7. Frame(r)
  BY <1>1, <1>2, <1>4, <1>5 DEF Frame
<1>8. RequestInv(r)'
  <2>1. ScanInv(r)'
    BY <1>1 DEF FlowInv, RequestInv, ScanInv, Positions
  <2>2. Positions(r)' = 1..n /\ \A i : JobAt(r, i)' = Len(jobs) + i
    BY <1>1, <1>2, <1>5 DEF Positions, JobAt
  <2>3. \A v : NewJob(v).url = v /\ NewJob(v).status = "pending"
    BY DEF NewJob
  <2>4. \A i \in Positions(r)' : /\ jobs'[JobAt(r, i)'].url = pending'[r][i]
                                 /\ jobs'[JobAt(r, i)'].status = "pending"
    <3>1. \A i \in 1..n : /\ jobs'[Len(jobs) + i].url = pending[r][i]
                         /\ jobs'[Len(jobs) + i].status = "pending"
      BY <1>4, <2>3
    <3>2. pending' = pending
      BY <1>1
    <3> QED BY <2>2, <3>1, <3>2
  <2>5. End(r)' <= Len(jobs')
    BY <1>1, <1>2, <1>4, <1>5 DEF End, n
  <2>6. OwnInv(r)' /\ StatusInv(r)'
    BY <1>5, <2>4, <2>5 DEF OwnInv, StatusInv
  <2>7. PoolInv(r)'
    BY <1>5 DEF PoolInv, PoolRuns
  <2> QED BY <2>1, <2>6, <2>7 DEF RequestInv
<1>9. Cardinality(AtWork(r)') <= Concurrency
  BY <1>1 DEF FlowInv, TypeOK, AtWork
<1>10. Apart'
  <2>1. ASSUME NEW q \in Requests, q # r, Committed(q)' PROVE End(q)' <= base'[r]
    <3>1. Committed(q) /\ End(q)' = End(q)
      BY <1>1, <1>5, <2>1 DEF Committed, End
    <3>2. End(q) <= Len(jobs)
      BY <3>1 DEF FlowInv, RequestInv, OwnInv
    <3> QED BY <1>5, <3>1, <3>2
  <2>2. ASSUME NEW p \in Requests, NEW q \in Requests, p # r, q # r, p # q,
               Committed(p)', Committed(q)'
        PROVE  End(p)' <= base'[q] \/ End(q)' <= base'[p]
    BY <1>1, <1>5, <2>2 DEF FlowInv, Apart, Committed, End
  <2> QED BY <2>1, <2>2 DEF Apart
<1>11. ResultIsAnalysis'
  <2> SUFFICES ASSUME NEW j \in DOMAIN jobs', ShowsResult(jobs'[j])
               PROVE  sites[jobs'[j].url].analyzer = "llm"
    BY <1>1 DEF ResultIsAnalysis, ShowsResult
  <2>1. CASE j \in 1..Len(jobs)
    BY <1>2, <1>4, <2>1 DEF FlowInv, ResultIsAnalysis
  <2>2. CASE j \notin 1..Len(jobs)
    <3>1. j - Len(jobs) \in 1..n /\ Len(jobs) + (j - Len(jobs)) = j
      BY <1>2, <1>4, <2>2 DEF n
    <3>2. jobs'[j] = NewJob(pending[r][j - Len(jobs)])
      BY <1>4, <3>1
    <3>3. jobs'[j].status = "pending"
      BY <3>2 DEF NewJob
    <3> QED BY <3>3 DEF ShowsResult
  <2> QED BY <2>1, <2>2
<1> QED BY <1>6, <1>7, <1>8, <1>9, <1>10, <1>11, Assemble

LEMMA BeginKeeps ==
  ASSUME FlowInv, NEW r \in Requests, Begin(r)
  PROVE  FlowInv'
<1>1. CASE ~Postgres
  <2>1. Enter(r, "raised") /\ stage[r] = "queued" /\ UNCHANGED <<sites, jobs, request, pool>>
    BY <1>1 DEF Begin
  <2> QED BY <2>1, StageMoves DEF AtApi, AtTask, Over, Committed
<1>2. CASE Postgres
  <2>1. /\ stage[r] = "queued" /\ stage' = [stage EXCEPT ![r] = "running"]
        /\ jobs' = [j \in DOMAIN jobs |->
                      IF j \in Own(r) THEN [jobs[j] EXCEPT !.status = "processing"]
                      ELSE jobs[j]]
        /\ thread' = [thread EXCEPT ![r] = [i \in Positions(r) |-> "submitted"]]
        /\ outcome' = [outcome EXCEPT ![r] = [i \in Positions(r) |-> "none"]]
        /\ UNCHANGED <<sites, list, force, analysed, looked, pending, base>>
    BY <1>2 DEF Begin, Enter, request
  <2>2. /\ Positions(r) = 1..Len(pending[r]) /\ Len(pending[r]) \in Nat /\ base[r] \in Nat
        /\ jobs \in Seq(Job) /\ Len(jobs) \in Nat /\ DOMAIN jobs = 1..Len(jobs)
    BY PositionsType DEF FlowInv
  <2>3. /\ stage' \in [Requests -> AtApi \cup AtTask \cup Over] /\ stage'[r] = "running"
        /\ \A q \in Requests \ {r} : stage'[q] = stage[q]
    BY <2>1 DEF FlowInv, Fields, AtTask
  <2>4. /\ thread'[r] = [i \in Positions(r) |-> "submitted"]
        /\ outcome'[r] = [i \in Positions(r) |-> "none"]
        /\ DOMAIN thread' = Requests /\ DOMAIN outcome' = Requests
        /\ \A q \in Requests \ {r} : thread'[q] = thread[q] /\ outcome'[q] = outcome[q]
    BY <2>1 DEF FlowInv, Fields
  <2>5. ASSUME NEW j \in DOMAIN jobs
        PROVE  /\ jobs'[j] \in Job /\ jobs'[j].url = jobs[j].url
               /\ j \in Own(r) => jobs'[j].status = "processing"
               /\ j \notin Own(r) => jobs'[j] = jobs[j]
    <3>1. jobs[j] \in Job
      BY <2>2
    <3> QED BY <2>1, <3>1 DEF Job, JobStatus
  <2>6. jobs' \in Seq(Job) /\ Len(jobs') = Len(jobs) /\ DOMAIN jobs' = DOMAIN jobs
    <3>1. jobs' \in [1..Len(jobs) -> Job]
      BY <2>1, <2>2, <2>5
    <3> QED BY <2>2, <3>1, FunctionIsSeq
  <2>7. Fields'
    BY <2>1, <2>3, <2>4, <2>6 DEF FlowInv, Fields
  <2>8. Committed(r)
    BY <2>1 DEF Committed
  <2>9. Frame(r)
    BY <2>1, <2>2, <2>3, <2>4, <2>5, <2>6, <2>8 DEF Frame
  <2>10. RequestInv(r)'
    <3>1. ScanInv(r)'
      BY <2>1 DEF FlowInv, RequestInv, ScanInv, Positions
    <3>2. /\ End(r) <= Len(jobs)
          /\ \A i \in Positions(r) : jobs[JobAt(r, i)].url = pending[r][i]
      BY <2>8 DEF FlowInv, RequestInv, OwnInv
    <3>3. \A i \in Positions(r) : JobAt(r, i) \in DOMAIN jobs /\ JobAt(r, i) \in Own(r)
      BY <2>2, <3>2 DEF End, JobAt, Own
    <3>4. Positions(r)' = Positions(r) /\ End(r)' = End(r) /\ \A i : JobAt(r, i)' = JobAt(r, i)
      BY <2>1 DEF Positions, End, JobAt
    <3>5. \A i \in Positions(r) : /\ jobs'[JobAt(r, i)].url = pending[r][i]
                                  /\ jobs'[JobAt(r, i)].status = "processing"
      BY <2>5, <3>2, <3>3
    <3>6. pending' = pending
      BY <2>1
    <3>7. OwnInv(r)'
      BY <2>6, <3>2, <3>4, <3>5, <3>6 DEF OwnInv
    <3>8. StatusInv(r)'
      BY <2>3, <3>4, <3>5 DEF StatusInv
    <3>9. PoolInv(r)'
      BY <2>4, <3>4 DEF PoolInv, ThreadState
    <3> QED BY <3>1, <3>7, <3>8, <3>9 DEF RequestInv
  <2>11. Cardinality(AtWork(r)') <= Concurrency
    <3>1. AtWork(r)' = {}
      BY <2>4 DEF AtWork
    <3> QED BY <3>1, FS_EmptySet, ConcurrencyAssumption
  <2>12. Apart'
    BY <2>1, <2>8, <2>9, ApartKept
  <2>13. ResultIsAnalysis'
    <3> SUFFICES ASSUME NEW j \in DOMAIN jobs, ShowsResult(jobs'[j])
                 PROVE  sites[jobs'[j].url].analyzer = "llm"
      BY <2>1, <2>6 DEF ResultIsAnalysis, ShowsResult
    <3>1. j \notin Own(r)
      BY <2>5 DEF ShowsResult
    <3> QED BY <2>5, <3>1 DEF FlowInv, ResultIsAnalysis
  <2> QED BY <2>7, <2>9, <2>10, <2>11, <2>12, <2>13, Assemble
<1> QED BY <1>1, <1>2

LEMMA AtWorkFinite ==
  ASSUME FlowInv, NEW r \in Requests, PoolRuns(r)
  PROVE  IsFiniteSet(AtWork(r)) /\ Cardinality(AtWork(r)) \in Nat
<1>1. Positions(r) = 1..Len(pending[r]) /\ Len(pending[r]) \in Nat
  BY PositionsType DEF FlowInv
<1>2. AtWork(r) \subseteq Positions(r)
  BY DEF FlowInv, RequestInv, PoolInv, AtWork
<1>3. IsFiniteSet(Positions(r))
  BY <1>1, FS_Interval
<1> QED BY <1>2, <1>3, FS_Subset, FS_CardinalityType

LEMMA StartKeeps ==
  ASSUME FlowInv, NEW r \in Requests, NEW i \in Positions(r), StartThread(r, i)
  PROVE  FlowInv'
<1>1. /\ PoolRuns(r) /\ thread[r][i] = "submitted" /\ Cardinality(AtWork(r)) < Concurrency
      /\ thread' = [thread EXCEPT ![r][i] = "calling"]
      /\ UNCHANGED <<sites, jobs, stage, list, force, analysed, looked, pending, base, outcome>>
  BY DEF StartThread, request
<1>2. /\ thread[r] \in [Positions(r) -> ThreadState]
      /\ thread'[r] = [thread[r] EXCEPT ![i] = "calling"] /\ DOMAIN thread' = Requests
      /\ \A q \in Requests \ {r} : thread'[q] = thread[q]
  BY <1>1 DEF FlowInv, Fields, RequestInv, PoolInv
<1>3. Fields'
  BY <1>1, <1>2 DEF FlowInv, Fields
<1>4. Frame(r)
  <2>1. Len(jobs) \in Nat
    BY PositionsType DEF FlowInv
  <2> QED BY <1>1, <1>2, <2>1 DEF Frame
<1>5. RequestInv(r)'
  <2>1. ScanInv(r)' /\ OwnInv(r)' /\ StatusInv(r)'
    BY <1>1 DEF FlowInv, RequestInv, ScanInv, OwnInv, StatusInv, Positions, Committed, End, JobAt
  <2>2. thread'[r] \in [Positions(r) -> ThreadState]
    BY <1>2 DEF ThreadState
  <2>3. PoolInv(r)'
    BY <1>1, <2>2 DEF FlowInv, RequestInv, PoolInv, PoolRuns, Positions
  <2> QED BY <2>1, <2>3 DEF RequestInv
<1>6. Cardinality(AtWork(r)') <= Concurrency
  <2>1. AtWork(r)' = AtWork(r) \cup {i} /\ i \notin AtWork(r)
    BY <1>1, <1>2 DEF AtWork
  <2>2. Cardinality(AtWork(r)') = Cardinality(AtWork(r)) + 1
    BY <1>1, <2>1, AtWorkFinite, FS_AddElement
  <2> QED BY <1>1, <2>2, AtWorkFinite, ConcurrencyAssumption
<1>7. Apart'
  BY <1>1, <1>4, ApartKept DEF Committed
<1>8. ResultIsAnalysis'
  BY <1>1, ResultsKept
<1> QED BY <1>3, <1>4, <1>5, <1>6, <1>7, <1>8, Assemble

LEMMA CallKeeps ==
  ASSUME FlowInv, NEW r \in Requests, NEW i \in Positions(r), NEW o \in Outcomes,
         EndCall(r, i, o)
  PROVE  FlowInv'
<1> DEFINE u == pending[r][i]
<1>1. PICK row \in SitesAfter(sites[u], o) : sites' = [sites EXCEPT ![u] = row]
  BY DEF EndCall
<1>2. /\ PoolRuns(r) /\ thread[r][i] = "calling"
      /\ thread' = [thread EXCEPT ![r][i] = "finished"]
      /\ outcome' = [outcome EXCEPT ![r][i] = o]
      /\ UNCHANGED <<jobs, stage, list, force, analysed, looked, pending, base>>
  BY DEF EndCall, request
<1>3. u \in Urls /\ o \in AllOutcomes /\ Positions(r) = 1..Len(pending[r])
      /\ \A k \in Positions(r) : pending[r][k] \in Urls
  BY PositionsType, OutcomesAssumption DEF FlowInv
<1>4. sites \in [Urls -> Site] /\ sites[u] \in Site
  BY <1>3 DEF FlowInv, Fields
<1>5. row \in Site
  BY <1>3, <1>4, RowType
<1>6. o = "saved" \/ sites[u].analyzer = "llm" => row.analyzer = "llm"
  BY <1>3, AnalysisStays
<1> HIDE DEF u
<1>7. /\ sites' \in [Urls -> Site] /\ sites'[u] = row
      /\ \A v \in Urls : sites[v].analyzer = "llm" => sites'[v].analyzer = "llm"
  BY <1>1, <1>3, <1>4, <1>5, <1>6
<1>8. /\ thread[r] \in [Positions(r) -> ThreadState]
      /\ outcome[r] \in [Positions(r) -> AllOutcomes \cup {"none"}]
      /\ \A k \in Positions(r) :
           outcome[r][k] = "saved" => sites[pending[r][k]].analyzer = "llm"
  BY <1>2 DEF FlowInv, RequestInv, PoolInv
<1>9. /\ thread'[r] = [thread[r] EXCEPT ![i] = "finished"] /\ DOMAIN thread' = Requests
      /\ outcome'[r] = [outcome[r] EXCEPT ![i] = o] /\ DOMAIN outcome' = Requests
      /\ \A q \in Requests \ {r} : thread'[q] = thread[q] /\ outcome'[q] = outcome[q]
  BY <1>2 DEF FlowInv, Fields
<1>10. Fields'
  BY <1>2, <1>7, <1>9 DEF FlowInv, Fields
<1>11. Frame(r)
  <2>1. Len(jobs) \in Nat
    BY PositionsType DEF FlowInv
  <2> QED BY <1>2, <1>7, <1>9, <2>1 DEF Frame
<1>12. RequestInv(r)'
  <2>1. ScanInv(r)' /\ OwnInv(r)'
    BY <1>2 DEF FlowInv, RequestInv, ScanInv, OwnInv, Positions, Committed, End, JobAt
  <2>2. StatusInv(r)'
    BY <1>2 DEF FlowInv, RequestInv, StatusInv, Positions, PoolRuns, JobAt
  <2>3. /\ thread'[r] \in [Positions(r) -> ThreadState]
        /\ outcome'[r] \in [Positions(r) -> AllOutcomes \cup {"none"}]
    BY <1>3, <1>8, <1>9 DEF ThreadState
  <2>4. ASSUME NEW k \in Positions(r), outcome'[r][k] = "saved"
        PROVE  sites'[pending[r][k]].analyzer = "llm"
    <3>1. CASE k = i
      BY <1>6, <1>7, <1>8, <1>9, <2>4, <3>1 DEF u
    <3>2. CASE k # i
      BY <1>3, <1>7, <1>8, <1>9, <2>4, <3>2
    <3> QED BY <3>1, <3>2
  <2>5. pending' = pending /\ Positions(r)' = Positions(r)
    BY <1>2 DEF Positions
  <2>6. PoolInv(r)'
    BY <2>3, <2>4, <2>5 DEF PoolInv
  <2> QED BY <2>1, <2>2, <2>6 DEF RequestInv
<1>13. Cardinality(AtWork(r)') <= Concurrency
  <2>1. AtWork(r)' = AtWork(r) \ {i} /\ i \in AtWork(r)
    BY <1>2, <1>8, <1>9 DEF AtWork
  <2>2. Cardinality(AtWork(r)') = Cardinality(AtWork(r)) - 1
    BY <1>2, <2>1, AtWorkFinite, FS_RemoveElement
  <2>3. Cardinality(AtWork(r)) <= Concurrency
    BY DEF FlowInv, TypeOK
  <2> QED BY <1>2, <2>2, <2>3, AtWorkFinite, ConcurrencyAssumption
<1>14. Apart'
  BY <1>2, <1>11, ApartKept DEF Committed
<1>15. ResultIsAnalysis'
  BY <1>2, <1>7, ResultsKept
<1> QED BY <1>10, <1>11, <1>12, <1>13, <1>14, <1>15, Assemble

\* What update_job_statuses writes, job by job.
LEMMA SettledJobs ==
  ASSUME FlowInv, NEW r \in Requests, UpdateJobs(r)
  PROVE  /\ jobs' \in Seq(Job) /\ Len(jobs') = Len(jobs) /\ DOMAIN jobs' = DOMAIN jobs
         /\ Failures(r) \subseteq Positions(r) /\ Successes(r) \subseteq Positions(r)
         /\ \A j \in DOMAIN jobs :
              /\ jobs'[j].url = jobs[j].url
              /\ j \notin Own(r) => jobs'[j] = jobs[j]
              /\ jobs'[j].status = IF j - base[r] \in Failures(r) THEN "failed"
                                   ELSE IF j - base[r] \in Successes(r) THEN "success"
                                   ELSE jobs[j].status
              /\ j - base[r] \notin Successes(r) => jobs'[j].site = jobs[j].site
              /\ j - base[r] \in Successes(r) /\ jobs'[j].site =>
                   \E k \in Positions(r) : LastOf(r, k) = j - base[r] /\ outcome[r][k] = "saved"
<1>1. PICK last \in [Successes(r) -> Positions(r)] :
        /\ \A p \in Successes(r) : LastOf(r, last[p]) = p
        /\ jobs' = [j \in DOMAIN jobs |->
            LET p == j - base[r]
            IN  [jobs[j] EXCEPT
                   !.status = IF p \in Failures(r) THEN "failed"
                              ELSE IF p \in Successes(r) THEN "success" ELSE @,
                   !.site   = IF p \in Successes(r)
                              THEN outcome[r][last[p]] = "saved" ELSE @]]
  BY DEF UpdateJobs
<1>2. /\ Positions(r) = 1..Len(pending[r]) /\ Len(pending[r]) \in Nat /\ base[r] \in Nat
      /\ pending[r] \in Seq(Urls)
      /\ jobs \in Seq(Job) /\ Len(jobs) \in Nat /\ DOMAIN jobs = 1..Len(jobs)
  BY PositionsType DEF FlowInv
<1>3. Failures(r) \subseteq Positions(r) /\ Successes(r) \subseteq Positions(r)
  BY <1>2, LastIsMapped DEF Failures, Successes
<1>4. ASSUME NEW j \in DOMAIN jobs, j - base[r] \in Positions(r) PROVE j \in Own(r)
  <2>1. j = base[r] + (j - base[r])
    BY <1>2
  <2> QED BY <1>4, <2>1 DEF Own, JobAt
<1>5. ASSUME NEW j \in DOMAIN jobs
      PROVE  LET p == j - base[r]
             IN  jobs'[j] = [jobs[j] EXCEPT
                   !.status = IF p \in Failures(r) THEN "failed"
                              ELSE IF p \in Successes(r) THEN "success" ELSE jobs[j].status,
                   !.site   = IF p \in Successes(r)
                              THEN outcome[r][last[p]] = "saved" ELSE jobs[j].site]
  BY <1>1
<1>6. ASSUME NEW j \in DOMAIN jobs
      PROVE  /\ jobs'[j] \in Job /\ jobs'[j].url = jobs[j].url
             /\ j \notin Own(r) => jobs'[j] = jobs[j]
             /\ jobs'[j].status = IF j - base[r] \in Failures(r) THEN "failed"
                                  ELSE IF j - base[r] \in Successes(r) THEN "success"
                                  ELSE jobs[j].status
             /\ j - base[r] \notin Successes(r) => jobs'[j].site = jobs[j].site
             /\ j - base[r] \in Successes(r) /\ jobs'[j].site =>
                  \E k \in Positions(r) : LastOf(r, k) = j - base[r] /\ outcome[r][k] = "saved"
  <2> DEFINE p  == j - base[r]
             st == IF p \in Failures(r) THEN "failed"
                   ELSE IF p \in Successes(r) THEN "success" ELSE jobs[j].status
             si == IF p \in Successes(r) THEN outcome[r][last[p]] = "saved" ELSE jobs[j].site
  <2>1. jobs[j] \in Job
    BY <1>2
  <2>2. jobs'[j] = [jobs[j] EXCEPT !.status = st, !.site = si]
    BY <1>5, Zenon
  <2>3. st \in JobStatus
    BY <2>1 DEF Job, JobStatus
  <2>4. si \in BOOLEAN
    <3>1. jobs[j].site \in BOOLEAN
      BY <2>1 DEF Job
    <3> QED BY <3>1, Zenon
  <2>5. p \notin Successes(r) => si = jobs[j].site
    BY Zenon
  <2>6. p \in Successes(r) => si = (outcome[r][last[p]] = "saved")
    BY Zenon
  <2>7. p \notin Positions(r) => st = jobs[j].status /\ si = jobs[j].site
    BY <1>3, Zenon
  <2> HIDE DEF st, si
  <2>8. jobs'[j] \in Job /\ jobs'[j].url = jobs[j].url /\ jobs'[j].status = st
    BY <2>1, <2>2, <2>3, <2>4 DEF Job
  <2>9. jobs'[j].site = si
    <3>1. jobs[j] = [url |-> jobs[j].url, status |-> jobs[j].status, site |-> jobs[j].site]
      BY <2>1 DEF Job
    <3>2. jobs'[j] = [url |-> jobs[j].url, status |-> st, site |-> si]
      BY <2>2, <3>1, Zenon
    <3> QED BY <3>2
  <2>10. st = jobs[j].status /\ si = jobs[j].site => jobs'[j] = jobs[j]
    <3>1. jobs[j] = [jobs[j] EXCEPT !.status = jobs[j].status, !.site = jobs[j].site]
      BY <2>1 DEF Job
    <3> QED BY <2>2, <3>1, Zenon
  <2>11. p \in Successes(r) => last[p] \in Positions(r) /\ LastOf(r, last[p]) = p
    BY <1>1
  <2>12. p \in Successes(r) /\ jobs'[j].site =>
           LastOf(r, last[p]) = p /\ outcome[r][last[p]] = "saved"
    BY <2>6, <2>9, <2>11, Zenon
  <2>13. j \notin Own(r) => p \notin Positions(r)
    BY <1>4
  <2> QED BY <2>5, <2>7, <2>8, <2>9, <2>10, <2>11, <2>12, <2>13, Zenon DEF st
<1>7. jobs' \in Seq(Job) /\ Len(jobs') = Len(jobs) /\ DOMAIN jobs' = DOMAIN jobs
  <2>1. jobs' \in [1..Len(jobs) -> Job]
    BY <1>1, <1>2, <1>6
  <2> QED BY <1>2, <2>1, FunctionIsSeq
<1> QED BY <1>3, <1>6, <1>7

LEMMA UpdateKeeps ==
  ASSUME FlowInv, NEW r \in Requests, UpdateJobs(r)
  PROVE  FlowInv'
<1>1. /\ stage[r] = "running" /\ stage' = [stage EXCEPT ![r] = "done"]
      /\ UNCHANGED <<sites, list, force, analysed, looked, pending, base, thread, outcome>>
  BY DEF UpdateJobs, Enter, request, pool
<1>2. /\ Positions(r) = 1..Len(pending[r]) /\ Len(pending[r]) \in Nat /\ base[r] \in Nat
      /\ pending[r] \in Seq(Urls)
      /\ jobs \in Seq(Job) /\ Len(jobs) \in Nat /\ DOMAIN jobs = 1..Len(jobs)
  BY PositionsType DEF FlowInv
<1>3. /\ stage' \in [Requests -> AtApi \cup AtTask \cup Over] /\ stage'[r] = "done"
      /\ \A q \in Requests \ {r} : stage'[q] = stage[q]
  BY <1>1 DEF FlowInv, Fields, Over
<1>4. Fields'
  BY <1>1, <1>3, SettledJobs DEF FlowInv, Fields
<1>5. Committed(r) /\ PoolRuns(r)
  BY <1>1 DEF Committed, PoolRuns
<1>6. Frame(r)
  <2>1. \A j \in DOMAIN jobs : jobs'[j] = jobs[j] \/ j \in Own(r)
    BY SettledJobs
  <2>2. Len(jobs') >= Len(jobs)
    BY <1>2, SettledJobs
  <2> QED BY <1>1, <1>3, <1>5, <2>1, <2>2 DEF Frame
<1>7. /\ End(r) <= Len(jobs)
      /\ \A i \in Positions(r) : jobs[JobAt(r, i)].url = pending[r][i]
  BY <1>5 DEF FlowInv, RequestInv, OwnInv
<1>8. \A i \in Positions(r) : JobAt(r, i) \in DOMAIN jobs /\ JobAt(r, i) - base[r] = i
  BY <1>2, <1>7 DEF End, JobAt
<1>9. RequestInv(r)'
  <2>1. ScanInv(r)'
    BY <1>1 DEF FlowInv, RequestInv, ScanInv, Positions
  <2>2. Positions(r)' = Positions(r) /\ End(r)' = End(r) /\ \A i : JobAt(r, i)' = JobAt(r, i)
    BY <1>1 DEF Positions, End, JobAt
  <2>3. OwnInv(r)'
    <3>1. \A i \in Positions(r) : jobs'[JobAt(r, i)].url = pending[r][i]
      BY <1>7, <1>8, SettledJobs
    <3>2. pending' = pending /\ Len(jobs') = Len(jobs)
      BY <1>1, SettledJobs
    <3> QED BY <1>7, <2>2, <3>1, <3>2 DEF OwnInv
  <2>4. ASSUME NoRepeat(list[r]), NEW i \in Positions(r)
        PROVE  jobs'[JobAt(r, i)].status =
                 (IF outcome[r][i] \in {"saved", "silent"} THEN "success" ELSE "failed")
    <3>1. NoRepeat(pending[r])
      BY <2>4 DEF FlowInv, RequestInv, ScanInv
    <3>2. ASSUME NEW k \in Positions(r) PROVE LastOf(r, k) = k
      <4>1. LastOf(r, k) \in Positions(r) /\ pending[r][LastOf(r, k)] = pending[r][k]
        BY <1>2, LastIsMapped
      <4>2. DOMAIN pending[r] = Positions(r)
        BY <1>2
      <4> QED BY <3>1, <4>1, <4>2 DEF NoRepeat
    <3>3. Failures(r) = {k \in Positions(r) : outcome[r][k] \notin {"saved", "silent"}}
      BY <3>2 DEF Failures
    <3>4. Successes(r) = {k \in Positions(r) : outcome[r][k] \in {"saved", "silent"}}
      BY <3>2 DEF Successes
    <3>5. jobs'[JobAt(r, i)].status =
            IF i \in Failures(r) THEN "failed"
            ELSE IF i \in Successes(r) THEN "success" ELSE jobs[JobAt(r, i)].status
      <4>1. JobAt(r, i) \in DOMAIN jobs /\ JobAt(r, i) - base[r] = i
        BY <1>8
      <4> QED BY <4>1, SettledJobs
    <3> QED BY <3>3, <3>4, <3>5
  <2>5. StatusInv(r)'
    BY <1>1, <1>3, <2>2, <2>4 DEF StatusInv
  <2>6. PoolInv(r)'
    BY <1>3 DEF PoolInv, PoolRuns
  <2> QED BY <2>1, <2>3, <2>5, <2>6 DEF RequestInv
<1>10. Cardinality(AtWork(r)') <= Concurrency
  BY <1>1 DEF FlowInv, TypeOK, AtWork
<1>11. Apart'
  BY <1>1, <1>5, <1>6, ApartKept
<1>12. ResultIsAnalysis'
  <2> SUFFICES ASSUME NEW j \in DOMAIN jobs, ShowsResult(jobs'[j])
               PROVE  sites[jobs'[j].url].analyzer = "llm"
    BY <1>1, SettledJobs DEF ResultIsAnalysis, ShowsResult
  <2> DEFINE p == j - base[r]
  <2>1. /\ jobs'[j].url = jobs[j].url /\ p \notin Failures(r)
        /\ jobs'[j].status = "success" /\ jobs'[j].site
    BY SettledJobs DEF ShowsResult
  <2>2. CASE p \in Successes(r)
    <3>1. PICK k \in Positions(r) : LastOf(r, k) = p /\ outcome[r][k] = "saved"
      BY <2>1, <2>2, SettledJobs
    <3>2. p \in Positions(r) /\ pending[r][p] = pending[r][k]
      BY <1>2, <3>1, LastIsMapped
    <3>3. sites[pending[r][k]].analyzer = "llm"
      BY <1>5, <3>1 DEF FlowInv, RequestInv, PoolInv
    <3>4. JobAt(r, p) = j
      BY <1>2 DEF JobAt
    <3> QED BY <1>7, <2>1, <3>2, <3>3, <3>4
  <2>3. CASE p \notin Successes(r)
    <3>1. jobs[j].status = "success" /\ jobs[j].site
      BY <2>1, <2>3, SettledJobs
    <3> QED BY <2>1, <3>1 DEF FlowInv, ResultIsAnalysis, ShowsResult
  <2> QED BY <2>2, <2>3
<1> QED BY <1>4, <1>6, <1>9, <1>10, <1>11, <1>12, Assemble

LEMMA TtlKeeps ==
  ASSUME FlowInv, NEW u \in Urls, TtlPasses(u)
  PROVE  FlowInv'
<1>1. /\ sites' = [sites EXCEPT ![u] = Expired(sites[u])]
      /\ UNCHANGED <<jobs, stage, list, force, analysed, looked, pending, base, thread, outcome>>
  BY DEF TtlPasses, request, pool
<1>2. sites \in [Urls -> Site]
  BY DEF FlowInv, Fields
<1>3. Expired(sites[u]) \in Site /\ Expired(sites[u]).analyzer = sites[u].analyzer
  <2>1. sites[u] \in Site
    BY <1>2
  <2> QED BY <2>1 DEF Expired, Site
<1>4. /\ sites' \in [Urls -> Site]
      /\ \A v \in Urls : sites'[v].analyzer = sites[v].analyzer
  BY <1>1, <1>2, <1>3
<1>5. TypeOK' /\ Fields'
  BY <1>1, <1>4 DEF FlowInv, TypeOK, Fields, Own, Positions, JobAt, AtWork
<1>6. ASSUME NEW r \in Requests PROVE RequestInv(r)'
  <2>1. ScanInv(r)' /\ OwnInv(r)' /\ StatusInv(r)'
    BY <1>1 DEF FlowInv, RequestInv, ScanInv, OwnInv, StatusInv, Positions, Committed, End, JobAt
  <2>2. \A i \in Positions(r) : pending[r][i] \in Urls
    BY PositionsType DEF FlowInv
  <2>3. PoolInv(r)'
    BY <1>1, <1>4, <2>2 DEF FlowInv, RequestInv, PoolInv, PoolRuns, Positions
  <2> QED BY <2>1, <2>3 DEF RequestInv
<1>7. Apart'
  BY <1>1 DEF FlowInv, Apart, Committed, End
<1>8. ResultIsAnalysis'
  BY <1>1, <1>4, ResultsKept
<1> QED BY <1>5, <1>6, <1>7, <1>8 DEF FlowInv

-----------------------------------------------------------------------------
(* The invariant holds                                                     *)

LEMMA InitFlow == Init => FlowInv
<1> SUFFICES ASSUME Init PROVE FlowInv
  OBVIOUS
<1>1. Fields
  BY SitesAssumption, EmptySeq DEF Init, Fields, AtApi
<1>2. ASSUME NEW r \in Requests
      PROVE  RequestInv(r) /\ AtWork(r) = {} /\ stage[r] = "new"
  <2>1. Positions(r) = {} /\ stage[r] = "new" /\ looked[r] = 0 /\ pending[r] = <<>>
        /\ thread[r] = <<>>
    BY <1>2 DEF Init, Positions
  <2>2. Len(list[r]) \in Nat
    BY <1>1, PositionsType
  <2>3. ScanInv(r)
    BY <2>1, <2>2 DEF ScanInv, NoRepeat
  <2>4. OwnInv(r) /\ StatusInv(r) /\ PoolInv(r)
    BY <2>1 DEF OwnInv, StatusInv, PoolInv, PoolRuns, Committed
  <2>5. AtWork(r) = {}
    BY <2>1 DEF AtWork
  <2> QED BY <2>1, <2>3, <2>4, <2>5 DEF RequestInv
<1>3. TypeOK
  <2>1. \A r \in Requests : Cardinality(AtWork(r)) <= Concurrency
    BY <1>2, FS_EmptySet, ConcurrencyAssumption
  <2> QED BY <1>1, <1>2, <2>1 DEF Fields, TypeOK
<1>4. Apart /\ ResultIsAnalysis
  BY <1>2 DEF Init, Apart, Committed, ResultIsAnalysis
<1> QED BY <1>1, <1>2, <1>3, <1>4 DEF FlowInv

LEMMA NextFlow == FlowInv /\ [Next]_vars => FlowInv'
<1> SUFFICES ASSUME FlowInv, [Next]_vars PROVE FlowInv'
  OBVIOUS
<1>1. CASE UNCHANGED vars
  <2>1. UNCHANGED <<sites, jobs, stage, list, force, analysed, looked, pending, base,
                    thread, outcome>>
    BY <1>1 DEF vars, request, pool
  <2> QED BY <2>1 DEF FlowInv, TypeOK, Fields, RequestInv, ScanInv, OwnInv, StatusInv,
                      PoolInv, PoolRuns, Positions, Own, AtWork, Committed, End, JobAt,
                      Apart, ResultIsAnalysis
<1>2. ASSUME NEW r \in Requests, Handler(r) PROVE FlowInv'
  BY <1>2, ReadKeeps, LookKeeps, CommitKeeps, MovesKeep DEF Handler
<1>3. ASSUME NEW r \in Requests, Main(r) PROVE FlowInv'
  BY <1>3, BeginKeeps, UpdateKeeps, MovesKeep DEF Main
<1>4. ASSUME NEW r \in Requests, Thread(r) PROVE FlowInv'
  BY <1>4, StartKeeps, CallKeeps DEF Thread
<1> QED BY <1>1, <1>2, <1>3, <1>4, MovesKeep, TtlKeeps DEF Next

LEMMA FlowAlways == Spec => []FlowInv
BY InitFlow, NextFlow, PTL DEF Spec

\* The variables keep their types, a committed request's jobs are rows of the
\* table, and a pool never has more calls under way than BATCH_CONCURRENCY.
THEOREM BatchTypes == Spec => []TypeOK
<1>1. FlowInv => TypeOK
  BY DEF FlowInv
<1> QED BY <1>1, FlowAlways, PTL

\* A successful job that refers to a site refers to an analysed one, whatever
\* other batches do to the same row before and after (GET /jobs/{job_id}).
THEOREM ResultsAreAnalyses == Spec => []ResultIsAnalysis
<1>1. FlowInv => ResultIsAnalysis
  BY DEF FlowInv
<1> QED BY <1>1, FlowAlways, PTL

-----------------------------------------------------------------------------
(* What a job tells, and how its status moves                              *)

LEMMA DistinctMeansNoRepeat ==
  ASSUME Fields, NEW r \in Requests
  PROVE  DistinctUrls(r) <=> NoRepeat(list[r])
<1> DEFINE urls  == list[r]
           named == {urls[i] : i \in DOMAIN urls}
<1>1. /\ DOMAIN urls = 1..Len(urls) /\ Len(urls) \in Nat
      /\ urls = [i \in 1..Len(urls) |-> urls[i]]
  <2>1. urls \in Seq(Urls)
    BY PositionsType
  <2> HIDE DEF urls
  <2> QED BY <2>1
<1>2. DistinctUrls(r) <=> Cardinality(named) = Len(urls)
  BY DEF DistinctUrls
<1> HIDE DEF urls
<1>3. urls \in Surjection(1..Len(urls), named)
  BY <1>1 DEF Surjection
<1>4. IsFiniteSet(1..Len(urls)) /\ Cardinality(1..Len(urls)) = Len(urls)
  <2>1. 1 \in Int /\ Len(urls) \in Int
    BY <1>1
  <2>2. /\ IsFiniteSet(1..Len(urls))
        /\ Cardinality(1..Len(urls)) = IF 1 > Len(urls) THEN 0 ELSE Len(urls) - 1 + 1
    BY <2>1, FS_Interval, Zenon
  <2> QED BY <2>2, <1>1
<1>5. Cardinality(named) = Len(urls) <=> urls \in Injection(1..Len(urls), named)
  <2>1. Cardinality(named) = Cardinality(1..Len(urls))
          <=> urls \in Injection(1..Len(urls), named)
    BY <1>3, <1>4, FS_Surjection
  <2> QED BY <2>1, <1>4
<1>6. urls \in Injection(1..Len(urls), named) <=> NoRepeat(urls)
  BY <1>1 DEF Injection, IsInjective, NoRepeat
<1> QED BY <1>2, <1>5, <1>6 DEF urls

\* When no URL occurs twice in a request, its batch leaves each job with what
\* became of its own URL, and no other batch or request changes that.
THEOREM JobsTellOutcome == Spec => []JobTellsOutcome
<1>1. FlowInv => JobTellsOutcome
  <2> SUFFICES ASSUME FlowInv, NEW r \in Requests, DistinctUrls(r), stage[r] = "done"
               PROVE  \A i \in Positions(r) :
                        jobs[JobAt(r, i)].status =
                          (IF outcome[r][i] \in {"saved", "silent"} THEN "success"
                           ELSE "failed")
    BY DEF JobTellsOutcome
  <2>1. NoRepeat(list[r])
    BY DistinctMeansNoRepeat DEF FlowInv
  <2> QED BY <2>1 DEF FlowInv, RequestInv, StatusInv
<1> QED BY <1>1, FlowAlways, PTL

\* What a step does to the rows of analysis_job.
JobMoves ==
  /\ DOMAIN jobs \subseteq DOMAIN jobs'
  /\ \A j \in DOMAIN jobs' :
       IF j \in DOMAIN jobs
       THEN \/ <<jobs[j].status, jobs'[j].status>> \in Lifecycle!Moves
            \/ jobs'[j].status = jobs[j].status
       ELSE jobs'[j].status = "pending"

LEMMA OwnPosition ==
  ASSUME FlowInv, NEW r \in Requests, NEW j \in Own(r)
  PROVE  j - base[r] \in Positions(r) /\ JobAt(r, j - base[r]) = j
<1>1. Positions(r) = 1..Len(pending[r]) /\ base[r] \in Nat
  BY PositionsType DEF FlowInv
<1>2. PICK i \in Positions(r) : j = base[r] + i
  BY DEF Own, JobAt
<1>3. j - base[r] = i
  BY <1>1, <1>2
<1> QED BY <1>2, <1>3 DEF JobAt

LEMMA CommitMoves ==
  ASSUME FlowInv, NEW r \in Requests, CommitJobs(r)
  PROVE  JobMoves
<1> DEFINE new == [i \in Positions(r) |-> NewJob(pending[r][i])]
<1>1. jobs' = jobs \o new
  BY DEF CommitJobs
<1>2. /\ Positions(r) = 1..Len(pending[r]) /\ Len(pending[r]) \in Nat
      /\ \A i \in Positions(r) : pending[r][i] \in Urls
      /\ jobs \in Seq(Job) /\ Len(jobs) \in Nat /\ DOMAIN jobs = 1..Len(jobs)
  BY PositionsType DEF FlowInv
<1>3. /\ new \in Seq(Job) /\ Len(new) = Len(pending[r])
      /\ \A i \in 1..Len(new) : new[i].status = "pending"
  <2>1. \A v \in Urls : NewJob(v) \in Job /\ NewJob(v).status = "pending"
    BY DEF NewJob, Job, JobStatus
  <2>2. new \in [1..Len(pending[r]) -> Job]
    BY <1>2, <2>1
  <2>3. \A i \in 1..Len(pending[r]) : new[i].status = "pending"
    BY <1>2, <2>1
  <2> HIDE DEF new
  <2> QED BY <1>2, <2>2, <2>3, FunctionIsSeq
<1> HIDE DEF new
<1>4. /\ jobs' \in Seq(Job) /\ Len(jobs') = Len(jobs) + Len(new)
      /\ \A j \in 1..(Len(jobs) + Len(new)) :
           jobs'[j] = IF j <= Len(jobs) THEN jobs[j] ELSE new[j - Len(jobs)]
  <2>1. jobs \in Seq(Job) /\ new \in Seq(Job)
    BY <1>2, <1>3
  <2>2. /\ jobs \o new \in Seq(Job) /\ Len(jobs \o new) = Len(jobs) + Len(new)
        /\ \A j \in 1..(Len(jobs) + Len(new)) :
             (jobs \o new)[j] = IF j <= Len(jobs) THEN jobs[j] ELSE new[j - Len(jobs)]
    BY <2>1, ConcatProperties, Zenon
  <2>3. jobs' = jobs \o new
    BY <1>1
  <2> QED BY <2>2, <2>3, Zenon
<1>5. DOMAIN jobs' = 1..(Len(jobs) + Len(new)) /\ Len(new) \in Nat
  BY <1>3, <1>4
<1>6. ASSUME NEW j \in DOMAIN jobs', j \notin DOMAIN jobs PROVE jobs'[j].status = "pending"
  <2>1. j - Len(jobs) \in 1..Len(new) /\ ~(j <= Len(jobs))
    BY <1>2, <1>5, <1>6
  <2> QED BY <1>3, <1>4, <1>5, <2>1
<1>7. \A j \in DOMAIN jobs : jobs'[j] = jobs[j] /\ j \in DOMAIN jobs'
  BY <1>2, <1>4, <1>5
<1> QED BY <1>6, <1>7 DEF JobMoves

LEMMA BeginMoves ==
  ASSUME FlowInv, NEW r \in Requests, Begin(r), Postgres
  PROVE  JobMoves
<1>1. /\ stage[r] = "queued"
      /\ jobs' = [j \in DOMAIN jobs |->
                    IF j \in Own(r) THEN [jobs[j] EXCEPT !.status = "processing"]
                    ELSE jobs[j]]
  BY DEF Begin
<1>2. ASSUME NEW j \in DOMAIN jobs, j \in Own(r)
      PROVE  jobs[j].status = "pending" /\ jobs'[j].status = "processing"
  <2>1. jobs[j].status = "pending"
    BY <1>1, <1>2, OwnPosition DEF FlowInv, RequestInv, StatusInv
  <2>2. jobs \in Seq(Job)
    BY DEF FlowInv, TypeOK
  <2>3. jobs[j] \in Job
    BY <2>2
  <2> QED BY <1>1, <1>2, <2>1, <2>3 DEF Job
<1> QED BY <1>1, <1>2 DEF JobMoves, Lifecycle!Moves

LEMMA UpdateMoves ==
  ASSUME FlowInv, NEW r \in Requests, UpdateJobs(r)
  PROVE  JobMoves
<1>1. stage[r] = "running"
  BY DEF UpdateJobs
<1>2. ASSUME NEW j \in DOMAIN jobs, j - base[r] \in Failures(r) \cup Successes(r)
      PROVE  jobs[j].status = "processing" /\ jobs'[j].status \in {"success", "failed"}
  <2>1. j - base[r] \in Positions(r)
    BY <1>2, SettledJobs
  <2>2. jobs \in Seq(Job) /\ base[r] \in Nat
    BY DEF FlowInv, Fields
  <2>3. JobAt(r, j - base[r]) = j
    BY <2>2 DEF JobAt
  <2>4. jobs[j].status = "processing"
    BY <1>1, <2>1, <2>3 DEF FlowInv, RequestInv, StatusInv
  <2>5. jobs'[j].status \in {"success", "failed"}
    BY <1>2, SettledJobs
  <2> QED BY <2>4, <2>5
<1>3. ASSUME NEW j \in DOMAIN jobs, j - base[r] \notin Failures(r) \cup Successes(r)
      PROVE  jobs'[j].status = jobs[j].status
  BY <1>3, SettledJobs
<1>4. DOMAIN jobs' = DOMAIN jobs
  BY SettledJobs
<1> QED BY <1>2, <1>3, <1>4 DEF JobMoves, Lifecycle!Moves

LEMMA StepMoves == FlowInv /\ [Next]_vars => JobMoves
<1> SUFFICES ASSUME FlowInv, [Next]_vars PROVE JobMoves
  OBVIOUS
<1>1. CASE UNCHANGED jobs
  BY <1>1 DEF JobMoves
<1>2. \/ UNCHANGED jobs
      \/ \E r \in Requests : CommitJobs(r) \/ (Begin(r) /\ Postgres) \/ UpdateJobs(r)
  BY DEF Next, Handler, Main, Thread, ReadSites, LookUp, Publish, PublishFails, Begin,
         StartThread, EndCall, CollectRaises, Interrupt, PoolShutDown, WorkerLost,
         TtlPasses, vars
<1> QED BY <1>1, <1>2, CommitMoves, BeginMoves, UpdateMoves

\* The rows of the jobs move as JobLifecycle promises a poller, while any
\* number of requests and batches append to the table and update it.
THEOREM BatchRefinesLifecycle == Spec => JobsFollowLifecycle
<1> DEFINE shown == [j \in 1..MaxJobs |->
                       IF j \in DOMAIN jobs THEN jobs[j].status ELSE "none"]
<1>1. Init => Lifecycle!Init
  BY DEF Init, Lifecycle!Init
<1>2. FlowInv' /\ JobMoves => [Lifecycle!Next]_shown
  <2> SUFFICES ASSUME FlowInv', JobMoves PROVE Lifecycle!Next
    OBVIOUS
  <2>1. \A j \in DOMAIN jobs' : jobs'[j].status \in Lifecycle!JobState
    <3>1. jobs' \in Seq(Job)
      BY DEF FlowInv, Fields
    <3>2. \A j \in DOMAIN jobs' : jobs'[j] \in Job
      BY <3>1
    <3> QED BY <3>2 DEF Job, JobStatus, Lifecycle!JobState
  <2>2. shown' \in [1..MaxJobs -> Lifecycle!JobState]
    BY <2>1 DEF Lifecycle!JobState
  <2>3. ASSUME NEW j \in 1..MaxJobs
        PROVE  <<shown[j], shown'[j]>> \in Lifecycle!Moves \/ shown'[j] = shown[j]
    <3>1. CASE j \in DOMAIN jobs
      BY <3>1 DEF JobMoves
    <3>2. CASE j \notin DOMAIN jobs /\ j \in DOMAIN jobs'
      BY <3>2 DEF JobMoves, Lifecycle!Moves
    <3>3. CASE j \notin DOMAIN jobs /\ j \notin DOMAIN jobs'
      BY <3>3
    <3> QED BY <3>1, <3>2, <3>3
  <2> QED BY <2>2, <2>3 DEF Lifecycle!Next
<1>3. FlowInv /\ FlowInv' /\ [Next]_vars => [Lifecycle!Next]_shown
  BY <1>2, StepMoves
<1> QED BY <1>1, <1>3, FlowAlways, PTL DEF Spec, JobsFollowLifecycle, Lifecycle!Spec
-----------------------------------------------------------------------------
(* A task never stalls and runs out of steps: the safety half of TasksEnd  *)

LEMMA PoolSets ==
  ASSUME FlowInv, NEW r \in Requests, PoolRuns(r)
  PROVE  /\ IsFiniteSet(AtWork(r)) /\ Cardinality(AtWork(r)) \in Nat
         /\ IsFiniteSet(Submitted(r)) /\ Cardinality(Submitted(r)) \in Nat
         /\ thread[r] \in [Positions(r) -> ThreadState]
<1>1. Positions(r) = 1..Len(pending[r]) /\ Len(pending[r]) \in Nat
  BY PositionsType DEF FlowInv
<1>2. thread[r] \in [Positions(r) -> ThreadState]
  BY DEF FlowInv, RequestInv, PoolInv
<1>3. Submitted(r) \subseteq Positions(r)
  BY <1>2 DEF Submitted
<1>4. IsFiniteSet(Positions(r))
  BY <1>1, FS_Interval
<1>5. IsFiniteSet(Submitted(r)) /\ Cardinality(Submitted(r)) \in Nat
  BY <1>3, <1>4, FS_Subset, FS_CardinalityType
<1> QED BY <1>2, <1>5, AtWorkFinite

\* While its threads are not all through, one of them has a call under way, or
\* none has and the pool has a place for one that waits.
THEOREM BatchNeverStalls == Spec => []NeverStalls
<1>1. FlowInv => NeverStalls
  <2> SUFFICES ASSUME FlowInv, NEW r \in Requests, stage[r] \in AtTask
               PROVE  CanGo(r)
    BY DEF NeverStalls
  <2>1. CASE stage[r] = "queued"
    BY <2>1 DEF CanGo
  <2>2. CASE stage[r] # "queued"
    <3>1. PoolRuns(r)
      BY <2>2 DEF AtTask, PoolRuns
    <3>2. CASE Finished(r) \/ AtWork(r) # {}
      BY <3>1, <3>2 DEF CanGo
    <3>3. CASE ~Finished(r) /\ AtWork(r) = {}
      <4>1. thread[r] \in [Positions(r) -> ThreadState]
        BY <3>1, PoolSets
      <4>2. PICK i \in Positions(r) : thread[r][i] # "finished"
        BY <3>3 DEF Finished
      <4>3. thread[r][i] = "submitted"
        BY <3>3, <4>1, <4>2 DEF ThreadState, AtWork
      <4>4. i \in Submitted(r)
        BY <4>1, <4>3 DEF Submitted
      <4>5. Cardinality(AtWork(r)) = 0
        BY <3>3, FS_EmptySet
      <4>6. Cardinality(AtWork(r)) < Concurrency
        BY <4>5, ConcurrencyAssumption
      <4> QED BY <3>1, <4>4, <4>6 DEF CanGo
    <3> QED BY <3>2, <3>3
  <2> QED BY <2>1, <2>2
<1> QED BY <1>1, FlowAlways, PTL

LEMMA TaskLeft ==
  ASSUME NEW r \in Requests
  PROVE  /\ stage[r] = "queued" => StepsLeft(r) = 2 * Len(pending[r]) + 3
         /\ stage[r] = "running" =>
              StepsLeft(r) = 2 * Cardinality(Submitted(r)) + Cardinality(AtWork(r)) + 2
         /\ stage[r] = "aborting" =>
              StepsLeft(r) = 2 * Cardinality(Submitted(r)) + Cardinality(AtWork(r)) + 1
         /\ stage[r] \in Over => StepsLeft(r) = 0
         /\ stage'[r] = "running" =>
              StepsLeft(r)' = 2 * Cardinality(Submitted(r)') + Cardinality(AtWork(r)') + 2
         /\ stage'[r] = "aborting" =>
              StepsLeft(r)' = 2 * Cardinality(Submitted(r)') + Cardinality(AtWork(r)') + 1
         /\ stage'[r] \in Over => StepsLeft(r)' = 0
BY DEF StepsLeft, Over

LEMMA TaskHasSteps ==
  ASSUME FlowInv, NEW r \in Requests, stage[r] \in AtTask
  PROVE  StepsLeft(r) \in Nat \ {0}
<1>1. Len(pending[r]) \in Nat
  BY PositionsType DEF FlowInv
<1>2. CASE stage[r] = "queued"
  BY <1>1, <1>2, TaskLeft
<1>3. CASE stage[r] # "queued"
  <2>1. PoolRuns(r) /\ stage[r] \in {"running", "aborting"}
    BY <1>3 DEF AtTask, PoolRuns
  <2>2. Cardinality(Submitted(r)) \in Nat /\ Cardinality(AtWork(r)) \in Nat
    BY <2>1, PoolSets
  <2> QED BY <2>1, <2>2, TaskLeft
<1> QED BY <1>2, <1>3

LEMMA OverComesNearer ==
  ASSUME FlowInv, NEW r \in Requests, stage[r] \in AtTask, stage'[r] \in Over
  PROVE  StepsLeft(r)' < StepsLeft(r)
<1>1. StepsLeft(r)' = 0 /\ StepsLeft(r) \in Nat \ {0}
  BY TaskLeft, TaskHasSteps
<1> QED BY <1>1

LEMMA BeginComesNearer ==
  ASSUME FlowInv, NEW r \in Requests, Begin(r)
  PROVE  StepsLeft(r)' < StepsLeft(r)
<1>1. stage[r] = "queued" /\ stage \in [Requests -> AtApi \cup AtTask \cup Over]
      /\ DOMAIN thread = Requests
  BY DEF Begin, FlowInv, Fields
<1>2. CASE Postgres
  <2>1. stage'[r] = "running" /\ thread'[r] = [i \in Positions(r) |-> "submitted"]
    BY <1>1, <1>2 DEF Begin, Enter
  <2>2. Submitted(r)' = Positions(r) /\ AtWork(r)' = {}
    BY <2>1 DEF Submitted, AtWork
  <2>3. PICK n \in Nat : n = Len(pending[r]) /\ Positions(r) = 1..n
    BY PositionsType DEF FlowInv
  <2>4. Cardinality(1..n) = n
    BY FS_Interval
  <2>5. Cardinality(Submitted(r)') = n /\ Cardinality(AtWork(r)') = 0
    BY <2>2, <2>3, <2>4, FS_EmptySet
  <2>6. StepsLeft(r)' = 2 * n + 0 + 2
    BY <2>1, <2>5, TaskLeft
  <2>7. StepsLeft(r) = 2 * n + 3
    BY <1>1, <2>3, TaskLeft
  <2> QED BY <2>6, <2>7
<1>3. CASE ~Postgres
  <2>1. stage'[r] \in Over /\ stage[r] \in AtTask
    BY <1>1, <1>3 DEF Begin, Enter, Over, AtTask
  <2> QED BY <2>1, OverComesNearer
<1> QED BY <1>2, <1>3

\* A thread takes one of those submitted, or finishes one of those at work.
LEMMA ThreadComesNearer ==
  ASSUME FlowInv, NEW r \in Requests, Thread(r)
  PROVE  StepsLeft(r)' < StepsLeft(r)
<1>1. PICK i \in Positions(r) : StartThread(r, i) \/ \E o \in Outcomes : EndCall(r, i, o)
  BY DEF Thread
<1>2. PoolRuns(r) /\ stage' = stage /\ stage[r] \in {"running", "aborting"}
  BY <1>1 DEF StartThread, EndCall, PoolRuns
<1>3. /\ IsFiniteSet(AtWork(r)) /\ IsFiniteSet(Submitted(r))
      /\ thread[r] \in [Positions(r) -> ThreadState] /\ DOMAIN thread = Requests
  BY <1>2, PoolSets DEF FlowInv, Fields
<1>4. PICK s \in Nat, w \in Nat : s = Cardinality(Submitted(r)) /\ w = Cardinality(AtWork(r))
  BY <1>2, PoolSets
<1>5. PICK s2 \in Nat, w2 \in Nat :
        /\ s2 = Cardinality(Submitted(r)') /\ w2 = Cardinality(AtWork(r)')
        /\ 2 * s2 + w2 < 2 * s + w
  <2>1. CASE StartThread(r, i)
    <3>1. thread[r][i] = "submitted" /\ thread'[r] = [thread[r] EXCEPT ![i] = "calling"]
      BY <1>3, <2>1 DEF StartThread
    <3>2. /\ i \in Submitted(r) /\ Submitted(r)' = Submitted(r) \ {i}
          /\ i \notin AtWork(r) /\ AtWork(r)' = AtWork(r) \cup {i}
      BY <1>3, <3>1 DEF Submitted, AtWork
    <3>3. Cardinality(Submitted(r)') = s - 1
      BY <1>3, <1>4, <3>2, FS_RemoveElement
    <3>4. Cardinality(AtWork(r)') = w + 1
      BY <1>3, <1>4, <3>2, FS_AddElement
    <3>5. s # 0
      BY <1>3, <1>4, <3>2, FS_EmptySet
    <3> QED BY <3>3, <3>4, <3>5
  <2>2. CASE \E o \in Outcomes : EndCall(r, i, o)
    <3>1. thread[r][i] = "calling" /\ thread'[r] = [thread[r] EXCEPT ![i] = "finished"]
      BY <1>3, <2>2 DEF EndCall
    <3>2. /\ Submitted(r)' = Submitted(r)
          /\ i \in AtWork(r) /\ AtWork(r)' = AtWork(r) \ {i}
      BY <1>3, <3>1 DEF Submitted, AtWork
    <3>3. Cardinality(Submitted(r)') = s
      BY <1>4, <3>2
    <3>4. Cardinality(AtWork(r)') = w - 1
      BY <1>3, <1>4, <3>2, FS_RemoveElement
    <3>5. w # 0
      BY <1>3, <1>4, <3>2, FS_EmptySet
    <3> QED BY <3>3, <3>4, <3>5
  <2> QED BY <1>1, <2>1, <2>2
<1>6. CASE stage[r] = "running"
  <2>1. StepsLeft(r) = 2 * s + w + 2 /\ StepsLeft(r)' = 2 * s2 + w2 + 2
    BY <1>2, <1>4, <1>5, <1>6, TaskLeft
  <2> QED BY <1>5, <2>1
<1>7. CASE stage[r] = "aborting"
  <2>1. StepsLeft(r) = 2 * s + w + 1 /\ StepsLeft(r)' = 2 * s2 + w2 + 1
    BY <1>2, <1>4, <1>5, <1>7, TaskLeft
  <2> QED BY <1>5, <2>1
<1> QED BY <1>2, <1>6, <1>7

\* An exception in the main thread leaves the threads to be waited for.
LEMMA AbortComesNearer ==
  ASSUME FlowInv, NEW r \in Requests, CollectRaises(r) \/ Interrupt(r), stage[r] = "running"
  PROVE  StepsLeft(r)' < StepsLeft(r)
<1>1. stage'[r] = "aborting" /\ thread' = thread /\ PoolRuns(r)
  BY DEF CollectRaises, Interrupt, Enter, FlowInv, Fields, pool, PoolRuns
<1>2. PICK s \in Nat, w \in Nat : s = Cardinality(Submitted(r)) /\ w = Cardinality(AtWork(r))
  BY <1>1, PoolSets
<1>3. Submitted(r)' = Submitted(r) /\ AtWork(r)' = AtWork(r)
  BY <1>1 DEF Submitted, AtWork
<1>4. StepsLeft(r) = 2 * s + w + 2
  BY <1>2, TaskLeft
<1>5. StepsLeft(r)' = 2 * s + w + 1
  BY <1>1, <1>2, <1>3, TaskLeft
<1> QED BY <1>4, <1>5

LEMMA TaskComesNearer ==
  ASSUME FlowInv, NEW r \in Requests, stage[r] \in AtTask,
         Main(r) \/ Thread(r) \/ Interrupt(r) \/ WorkerLost(r)
  PROVE  StepsLeft(r)' < StepsLeft(r)
<1>1. stage \in [Requests -> AtApi \cup AtTask \cup Over]
  BY DEF FlowInv, Fields
<1>2. CASE Begin(r) \/ Thread(r)
  BY <1>2, BeginComesNearer, ThreadComesNearer
<1>3. CASE (CollectRaises(r) \/ Interrupt(r)) /\ stage[r] = "running"
  BY <1>3, AbortComesNearer
<1>4. CASE \/ UpdateJobs(r) \/ PoolShutDown(r) \/ WorkerLost(r)
           \/ (Interrupt(r) /\ stage[r] # "running")
  <2>1. stage'[r] \in Over
    BY <1>1, <1>4 DEF UpdateJobs, PoolShutDown, WorkerLost, Interrupt, Enter, Over
  <2> QED BY <2>1, OverComesNearer
<1>5. CollectRaises(r) => stage[r] = "running"
  BY DEF CollectRaises
<1> QED BY <1>2, <1>3, <1>4, <1>5 DEF Main

\* What is not of request r leaves its task where it was.
LEMMA TaskStays ==
  ASSUME NEW r \in Requests, stage'[r] = stage[r], thread'[r] = thread[r],
         pending'[r] = pending[r]
  PROVE  StepsLeft(r)' = StepsLeft(r)
BY DEF StepsLeft, Submitted, AtWork

\* With the theorem before, the safety half of TasksEnd: a task has at most twice
\* as many steps before it as URLs, and three, and each step is one of them.
THEOREM BatchStepsRunOut ==
  Spec => /\ StepsRunOut
          /\ [](\A r \in Requests : stage[r] \in AtTask => StepsLeft(r) \in Nat \ {0})
<1>1. FlowInv /\ FlowInv' /\ [Next]_vars =>
        [\A r \in Requests :
           stage[r] \in AtTask =>
             \/ StepsLeft(r)' < StepsLeft(r)
             \/ StepsLeft(r)' = StepsLeft(r) /\ UNCHANGED <<stage[r], thread[r]>>]_vars
  <2> SUFFICES ASSUME FlowInv, Next, NEW r \in Requests, stage[r] \in AtTask
               PROVE  \/ StepsLeft(r)' < StepsLeft(r)
                      \/ /\ StepsLeft(r)' = StepsLeft(r)
                         /\ stage'[r] = stage[r] /\ thread'[r] = thread[r]
    OBVIOUS
  <2>1. stage \in [Requests -> AtApi \cup AtTask \cup Over] /\ pending \in [Requests -> Seq(Urls)]
        /\ DOMAIN thread = Requests
    BY DEF FlowInv, Fields
  <2>2. CASE \E u \in Urls : TtlPasses(u)
    <3>1. stage'[r] = stage[r] /\ thread'[r] = thread[r] /\ pending'[r] = pending[r]
      BY <2>2 DEF TtlPasses, request, pool
    <3> QED BY <3>1, TaskStays
  <2>3. ASSUME NEW q \in Requests, Handler(q) \/ PublishFails(q) \/ Main(q) \/ Thread(q)
                                   \/ Interrupt(q) \/ WorkerLost(q)
        PROVE  \/ StepsLeft(r)' < StepsLeft(r)
               \/ /\ StepsLeft(r)' = StepsLeft(r)
                  /\ stage'[r] = stage[r] /\ thread'[r] = thread[r]
    <3>1. CASE q = r
      <4>1. ~(Handler(q) \/ PublishFails(q))
        BY <3>1 DEF Handler, ReadSites, LookUp, CommitJobs, Publish, PublishFails, AtTask
      <4> QED BY <2>3, <3>1, <4>1, TaskComesNearer
    <3>2. CASE q # r
      <4>1. stage'[r] = stage[r] /\ pending'[r] = pending[r] /\ thread'[r] = thread[r]
        <5>1. CASE Handler(q) \/ PublishFails(q)
          BY <2>1, <3>2, <5>1 DEF Handler, ReadSites, LookUp, CommitJobs, Publish,
             PublishFails, Enter, request, pool
        <5>2. CASE Main(q)
          BY <2>1, <3>2, <5>2 DEF Main, Begin, CollectRaises, UpdateJobs, PoolShutDown,
             Enter, request, pool
        <5>3. CASE Thread(q) \/ Interrupt(q) \/ WorkerLost(q)
          BY <2>1, <3>2, <5>3 DEF Thread, StartThread, EndCall, Interrupt, WorkerLost,
             Enter, request, pool
        <5> QED BY <2>3, <5>1, <5>2, <5>3
      <4> QED BY <4>1, TaskStays
    <3> QED BY <3>1, <3>2
  <2> QED BY <2>2, <2>3 DEF Next
<1>2. FlowInv => \A r \in Requests : stage[r] \in AtTask => StepsLeft(r) \in Nat \ {0}
  BY TaskHasSteps
<1> QED BY <1>1, <1>2, FlowAlways, PTL DEF Spec, StepsRunOut

=============================================================================
