--------------------------- MODULE PageFetcherProofs ---------------------------
(***************************************************************************)
(* Proofs about PageFetcher, for any number of threads and candidates and  *)
(* any pages.                                                              *)
(*                                                                         *)
(* The threads step on each other: whoever meets a failure that concerns   *)
(* all takes the whole shared list and voids browsers other threads are    *)
(* using.  What saves the fetcher is that a browser enters the list with   *)
(* the step that makes it whole, that a thread which takes the list still  *)
(* has every entry of it to shut down, and that a void dict is a failure   *)
(* like any other to its owner.                                            *)
(***************************************************************************)
EXTENDS PageFetcher, TLAPS, FiniteSetTheorems, SequenceTheorems

-----------------------------------------------------------------------------
(* The inductive invariant                                                 *)

\* What a thread holds, by the place it is at.
PlaceInv(t) ==
  /\ pc[t] \notin {"shut", "close"} => closing[t] = {}
  /\ pc[t] = "launch" => own[t] # 0 /\ browsers[own[t]].dict = "half"
  /\ pc[t] = "open" => own[t] # 0
  /\ own[t] # 0 => browsers[own[t]].owner = t
  /\ pc[t] # "choose" => pw[t] = NoPage
  /\ \A i \in closing[t] : browsers[i].dict # "half"
  /\ pc[t] = "close" => t = Main /\ phase = "closing"

\* Only launched browsers are listed, none is forgotten, and one that was shut
\* down in vain was not shut down by its owner.
SharedInv ==
  /\ \A i \in registered : browsers[i].dict # "half"
  /\ BrowsersAreAttended
  /\ \A i \in DOMAIN browsers :
       browsers[i].running /\ browsers[i].dict = "void" =>
         browsers[i].voidedBy # browsers[i].owner

\* Once the main thread closes the fetcher, nobody else is at work.
PhaseInv ==
  /\ phase = "closing" =>
       pc[Main] = "close" /\ registered = {} /\ (\A t \in Workers : pc[t] = "idle")
  /\ phase = "closed" =>
       registered = {} /\ (\A t \in Threads : pc[t] = "idle" /\ sessions[t] # "open")

FetchInv ==
  /\ TypeOK
  /\ \A t \in Threads : PlaceInv(t)
  /\ SharedInv
  /\ PhaseInv
  /\ RenderingNeverWorsens

-----------------------------------------------------------------------------
(* Pages and browsers                                                      *)

LEMMA ChooseType ==
  ASSUME NEW r \in Page, NEW p \in Page
  PROVE  Choose(r, p) \in Page
BY DEF Choose

\* _choose_better_result prefers the page that is ok, and to a missing page
\* every page but a challenge that is not ok.
LEMMA ChooseKeeps ==
  ASSUME NEW r \in Page, NEW p \in Page
  PROVE  /\ r.ok \/ p.ok => Choose(r, p).ok
         /\ p = NoPage /\ (r.challenge => r.ok) => Choose(r, p) = r
<1>1. r.ok \in BOOLEAN /\ r.challenge \in BOOLEAN /\ r.rich \in 0..1
  BY DEF Page
<1>2. p.ok \in BOOLEAN /\ p.challenge \in BOOLEAN /\ p.rich \in 0..1
  BY DEF Page
<1>3. r.ok \/ p.ok => Choose(r, p).ok
  BY <1>1, <1>2 DEF Choose
<1>4. p = NoPage => ~p.ok /\ ~p.challenge /\ p.rich = 0
  BY DEF NoPage
<1>5. p = NoPage /\ (r.challenge => r.ok) => Choose(r, p) = r
  BY <1>1, <1>2, <1>4 DEF Choose
<1> QED BY <1>3, <1>5

LEMMA FunctionIsSeq ==
  ASSUME NEW S, NEW n \in Nat, NEW f \in [1..n -> S]
  PROVE  f \in Seq(S) /\ Len(f) = n
BY SeqDef

\* An assignment to one browser.
LEMMA OneBrowser ==
  ASSUME NEW bs \in Seq(Browser), NEW i \in DOMAIN bs, NEW b \in Browser,
         NEW new, new = [bs EXCEPT ![i] = b]
  PROVE  /\ new \in Seq(Browser) /\ DOMAIN new = DOMAIN bs /\ new[i] = b
         /\ \A k \in DOMAIN bs : k # i => new[k] = bs[k]
<1>1. bs \in [1..Len(bs) -> Browser] /\ Len(bs) \in Nat /\ DOMAIN bs = 1..Len(bs)
  BY LenProperties
<1>2. new \in [1..Len(bs) -> Browser]
  BY <1>1
<1>3. new \in Seq(Browser)
  BY <1>1, <1>2, FunctionIsSeq
<1> QED BY <1>1, <1>2, <1>3

LEMMA ShutBrowser ==
  ASSUME TypeOK, NEW i \in DOMAIN browsers, NEW t \in Threads, NEW bs \in Shutdown(i, t)
  PROVE  /\ bs \in Seq(Browser) /\ DOMAIN bs = DOMAIN browsers
         /\ bs[i].dict = "void" /\ bs[i].owner = browsers[i].owner
         /\ bs = browsers \/ (bs[i].running => bs[i].voidedBy # bs[i].owner)
         /\ \A k \in DOMAIN browsers : k # i => bs[k] = browsers[k]
<1>1. browsers \in Seq(Browser) /\ browsers[i] \in Browser
  <2>1. browsers \in Seq(Browser)
    BY DEF TypeOK
  <2> QED BY <2>1
<1>2. CASE browsers[i].dict = "void"
  BY <1>1, <1>2 DEF Shutdown
<1>3. CASE browsers[i].dict # "void"
  <2>1. PICK running \in BOOLEAN :
          /\ bs = [browsers EXCEPT ![i].dict = "void", ![i].voidedBy = t,
                                   ![i].running = running]
          /\ browsers[i].owner = t => running = FALSE
    <3>1. bs \in {[browsers EXCEPT ![i].dict = "void", ![i].voidedBy = t,
                                   ![i].running = running] :
                    running \in IF browsers[i].owner = t THEN {FALSE} ELSE BOOLEAN}
      BY <1>3 DEF Shutdown
    <3>2. CASE browsers[i].owner = t
      BY <3>1, <3>2, Zenon
    <3>3. CASE browsers[i].owner # t
      BY <3>1, <3>3, Zenon
    <3> QED BY <3>2, <3>3, Zenon
  <2> DEFINE b == [browsers[i] EXCEPT !.dict = "void", !.voidedBy = t, !.running = running]
  <2>2. /\ b \in Browser /\ b.dict = "void" /\ b.voidedBy = t
        /\ b.owner = browsers[i].owner
    BY <1>1 DEF Browser
  <2>3. b.running = running
    BY <1>1 DEF Browser
  <2>4. bs = [browsers EXCEPT ![i] = b]
    BY <1>1, <2>1
  <2> HIDE DEF b
  <2>5. /\ bs \in Seq(Browser) /\ DOMAIN bs = DOMAIN browsers /\ bs[i] = b
        /\ \A k \in DOMAIN browsers : k # i => bs[k] = browsers[k]
    BY <1>1, <2>2, <2>4, OneBrowser
  <2>6. b.running => b.voidedBy # b.owner
    <3>1. CASE browsers[i].owner = t
      BY <2>1, <2>3, <3>1, Zenon
    <3>2. CASE browsers[i].owner # t
      BY <2>2, <3>2
    <3> QED BY <3>1, <3>2
  <2> QED BY <2>2, <2>5, <2>6
<1> QED BY <1>2, <1>3

-----------------------------------------------------------------------------
(* What a step of one thread leaves to the others                          *)

Frame(t) ==
  /\ phase' = phase
  /\ \A q \in Threads \ {t} : /\ pc'[q] = pc[q] /\ own'[q] = own[q]
                               /\ closing'[q] = closing[q] /\ pw'[q] = pw[q]
  /\ \A i \in DOMAIN browsers :
       /\ i \in DOMAIN browsers' /\ browsers'[i].owner = browsers[i].owner
       /\ browsers[i].dict # "half" => browsers'[i].dict # "half"
       /\ browsers[i].dict = "half" /\ i # own[t] => browsers'[i].dict = "half"

LEMMA Assemble ==
  ASSUME FetchInv, TypeOK', NEW t \in Threads, Frame(t), PlaceInv(t)', SharedInv',
         PhaseInv', RenderingNeverWorsens'
  PROVE  FetchInv'
<1>1. ASSUME NEW q \in Threads, q # t PROVE PlaceInv(q)'
  <2>1. /\ pc'[q] = pc[q] /\ own'[q] = own[q] /\ closing'[q] = closing[q]
        /\ pw'[q] = pw[q] /\ phase' = phase
    BY <1>1 DEF Frame
  <2>2. PlaceInv(q) /\ PlaceInv(t)
    BY DEF FetchInv
  <2>3. own[q] \in {0} \cup DOMAIN browsers /\ closing[q] \subseteq DOMAIN browsers
    BY DEF FetchInv, TypeOK
  <2>4. own[q] # 0 => own[q] \in DOMAIN browsers /\ own[q] # own[t]
    BY <1>1, <2>2, <2>3 DEF PlaceInv
  <2>5. own'[q] # 0 => browsers'[own'[q]].owner = q
    BY <2>1, <2>2, <2>4 DEF PlaceInv, Frame
  <2>6. pc'[q] = "launch" => own'[q] # 0 /\ browsers'[own'[q]].dict = "half"
    BY <2>1, <2>2, <2>4 DEF PlaceInv, Frame
  <2>7. \A i \in closing'[q] : browsers'[i].dict # "half"
    BY <2>1, <2>2, <2>3 DEF PlaceInv, Frame
  <2> QED BY <2>1, <2>2, <2>5, <2>6, <2>7 DEF PlaceInv
<1> QED BY <1>1 DEF FetchInv

LEMMA NobodyCloses ==
  ASSUME FetchInv, NEW t \in Threads, pc[t] \notin {"idle", "close"}
  PROVE  phase \in {"home", "candidates"}
<1>1. phase # "closing"
  BY DEF FetchInv, PhaseInv, Threads
<1>2. phase # "closed"
  BY DEF FetchInv, PhaseInv
<1> QED BY <1>1, <1>2 DEF FetchInv, TypeOK

\* Steps that touch no browser.
LEMMA QuietStep ==
  ASSUME FetchInv, TypeOK', NEW t \in Threads, NEW place,
         UNCHANGED <<browsers, registered, own, closing, phase>>, Go(t, place),
         pc[t] \notin {"shut", "close"}, phase \in {"home", "candidates"},
         place \notin {"launch", "shut", "close"}, place = "open" => own[t] # 0,
         \A q \in Threads : pw'[q] = pw[q] \/ (q = t /\ (place = "choose" \/ pw'[t] = NoPage)),
         place # "choose" => pw'[t] = NoPage,
         RenderingNeverWorsens'
  PROVE  FetchInv'
<1>1. pc'[t] = place /\ \A q \in Threads \ {t} : pc'[q] = pc[q]
  BY DEF Go, FetchInv, TypeOK
<1>2. Frame(t)
  BY <1>1 DEF Frame
<1>3. PlaceInv(t)'
  BY <1>1 DEF FetchInv, PlaceInv
<1>4. SharedInv'
  BY DEF FetchInv, SharedInv, BrowsersAreAttended
<1>5. PhaseInv'
  BY DEF PhaseInv
<1> QED BY <1>2, <1>3, <1>4, <1>5, Assemble

\* The results after a page is returned.
LEMMA ReturnIsGood ==
  ASSUME FetchInv, NEW t \in Threads, NEW page \in Page, Return(t, page),
         req[t].ok \/ pw[t].ok => page.ok,
         pw[t] = NoPage /\ (req[t].challenge => req[t].ok) => page = req[t]
  PROVE  /\ RenderingNeverWorsens'
         /\ results' \subseteq [page : Page, req : Page, pw : Page]
         /\ req' \in [Threads -> Page] /\ pw' \in [Threads -> Page] /\ pw'[t] = NoPage
         /\ \A q \in Threads \ {t} : pw'[q] = pw[q]
<1>1. /\ req \in [Threads -> Page] /\ pw \in [Threads -> Page]
      /\ results \subseteq [page : Page, req : Page, pw : Page]
  BY DEF FetchInv, TypeOK
<1>2. NoPage \in Page
  BY DEF NoPage, Page
<1> DEFINE new == [page |-> page, req |-> req[t], pw |-> pw[t]]
<1>3. results' = results \cup {new}
  BY DEF Return
<1>4. new \in [page : Page, req : Page, pw : Page]
  BY <1>1
<1>5. /\ new.req.ok \/ new.pw.ok => new.page.ok
      /\ new.pw = NoPage /\ (new.req.challenge => new.req.ok) => new.page = new.req
  <2>1. new.req = req[t] /\ new.pw = pw[t] /\ new.page = page
    OBVIOUS
  <2> HIDE DEF new
  <2> QED BY <2>1
<1> HIDE DEF new
<1>6. RenderingNeverWorsens'
  BY <1>3, <1>5 DEF FetchInv, RenderingNeverWorsens
<1>7. /\ req' = [req EXCEPT ![t] = NoPage] /\ pw' = [pw EXCEPT ![t] = NoPage]
  BY DEF Return
<1> QED BY <1>1, <1>2, <1>3, <1>4, <1>6, <1>7

LEMMA ReturnPlainly ==
  ASSUME FetchInv, NEW t \in Threads, Return(t, req[t]), pc[t] # "choose"
  PROVE  /\ RenderingNeverWorsens'
         /\ results' \subseteq [page : Page, req : Page, pw : Page]
         /\ req' \in [Threads -> Page] /\ pw' \in [Threads -> Page] /\ pw'[t] = NoPage
         /\ \A q \in Threads \ {t} : pw'[q] = pw[q]
<1>1. pw[t] = NoPage /\ ~pw[t].ok
  BY DEF FetchInv, PlaceInv, NoPage
<1>2. req[t] \in Page
  BY DEF FetchInv, TypeOK
<1> QED BY <1>1, <1>2, ReturnIsGood

LEMMA GoType ==
  ASSUME TypeOK, NEW t \in Threads,
         NEW place \in {"idle", "request", "decide", "acquire", "launch", "open",
                         "shut", "choose", "close"},
         Go(t, place)
  PROVE  pc' \in [Threads -> {"idle", "request", "decide", "acquire", "launch", "open",
                              "shut", "choose", "close"}]
BY DEF TypeOK, Go

-----------------------------------------------------------------------------
(* The steps                                                               *)

LEMMA TakeKeeps == ASSUME FetchInv, NEW t \in Threads, Take(t) PROVE FetchInv'
<1>1. /\ pc[t] = "idle" /\ phase = "candidates" /\ todo > 0 /\ todo' = todo - 1
      /\ Go(t, "request")
      /\ UNCHANGED <<enabled, browsers, registered, own, closing, sessions, req, pw,
                     phase, results>>
  BY DEF Take, resources, pages
<1>2. todo' \in 0..Candidates
  BY <1>1, CandidatesAssumption DEF FetchInv, TypeOK
<1>3. TypeOK'
  BY <1>1, <1>2, GoType DEF FetchInv, TypeOK
<1>4. RenderingNeverWorsens'
  BY <1>1 DEF FetchInv, RenderingNeverWorsens
<1>5. pw'[t] = NoPage
  BY <1>1 DEF FetchInv, PlaceInv
<1> QED BY <1>1, <1>3, <1>4, <1>5, QuietStep

LEMMA RequestKeeps ==
  ASSUME FetchInv, NEW t \in Threads, NEW page \in Answers, Request(t, page)
  PROVE  FetchInv'
<1>1. /\ pc[t] = "request" /\ Go(t, "decide")
      /\ sessions' = [sessions EXCEPT ![t] = "open"] /\ req' = [req EXCEPT ![t] = page]
      /\ UNCHANGED <<enabled, browsers, registered, own, closing, pw, todo, phase, results>>
  BY DEF Request, resources, pool
<1>2. page \in Page
  BY PagesAssumption
<1>3. /\ sessions' \in [Threads -> {"none", "open", "closed"}]
      /\ req' \in [Threads -> Page]
  BY <1>1, <1>2 DEF FetchInv, TypeOK
<1>4. TypeOK'
  BY <1>1, <1>3, GoType DEF FetchInv, TypeOK
<1>5. RenderingNeverWorsens'
  BY <1>1 DEF FetchInv, RenderingNeverWorsens
<1>6. pw'[t] = NoPage
  BY <1>1 DEF FetchInv, PlaceInv
<1> QED BY <1>1, <1>4, <1>5, <1>6, NobodyCloses, QuietStep

\* A page returned without a rendering, or with the better of the two.
LEMMA ReturnsKeep ==
  ASSUME FetchInv, NEW t \in Threads, Plain(t) \/ Unavailable(t) \/ ChoosePage(t)
  PROVE  FetchInv'
<1>1. /\ pc[t] \in {"decide", "acquire", "choose"} /\ Go(t, "idle")
      /\ UNCHANGED <<enabled, browsers, registered, own, closing, sessions, todo, phase>>
  BY DEF Plain, Unavailable, ChoosePage, Return, resources
<1>2. /\ RenderingNeverWorsens'
      /\ results' \subseteq [page : Page, req : Page, pw : Page]
      /\ req' \in [Threads -> Page] /\ pw' \in [Threads -> Page] /\ pw'[t] = NoPage
      /\ \A q \in Threads \ {t} : pw'[q] = pw[q]
  <2>1. CASE Plain(t)
    BY <2>1, ReturnPlainly DEF Plain
  <2>2. CASE Unavailable(t)
    BY <2>2, ReturnPlainly DEF Unavailable
  <2>3. CASE ChoosePage(t)
    <3>1. req[t] \in Page /\ pw[t] \in Page
      BY DEF FetchInv, TypeOK
    <3>2. Return(t, Choose(req[t], pw[t]))
      BY <2>3 DEF ChoosePage
    <3> QED BY <3>1, <3>2, ChooseType, ChooseKeeps, ReturnIsGood
  <2> QED BY <2>1, <2>2, <2>3
<1>3. TypeOK'
  BY <1>1, <1>2, GoType DEF FetchInv, TypeOK
<1> QED BY <1>1, <1>2, <1>3, NobodyCloses, QuietStep

\* Steps towards a rendering, and its end when the page is there or too late.
LEMMA MovesKeep ==
  ASSUME FetchInv, NEW t \in Threads, Render(t) \/ Reuse(t) \/ TimesOut(t)
  PROVE  FetchInv'
<1>1. PICK place \in {"acquire", "open", "choose"} :
        /\ pc[t] \in {"decide", "acquire", "open"} /\ Go(t, place)
        /\ place = "open" => own[t] # 0
        /\ UNCHANGED <<enabled, browsers, registered, own, closing, sessions, req, pw, todo,
                       phase, results>>
  BY DEF Render, Reuse, TimesOut, Whole, resources, pages, pool
<1>2. TypeOK'
  BY <1>1, GoType DEF FetchInv, TypeOK
<1>3. RenderingNeverWorsens'
  BY <1>1 DEF FetchInv, RenderingNeverWorsens
<1>4. pw'[t] = NoPage
  BY <1>1 DEF FetchInv, PlaceInv
<1> QED BY <1>1, <1>2, <1>3, <1>4, NobodyCloses, QuietStep

LEMMA OpenKeeps ==
  ASSUME FetchInv, NEW t \in Threads, NEW page \in Renderings, Open(t, page)
  PROVE  FetchInv'
<1>1. /\ pc[t] = "open" /\ Go(t, "choose") /\ pw' = [pw EXCEPT ![t] = page]
      /\ UNCHANGED <<enabled, browsers, registered, own, closing, sessions, req, todo,
                     phase, results>>
  BY DEF Open, resources, pool
<1>2. page \in Page
  BY PagesAssumption DEF Rendered
<1>3. pw' \in [Threads -> Page] /\ \A q \in Threads \ {t} : pw'[q] = pw[q]
  BY <1>1, <1>2 DEF FetchInv, TypeOK
<1>4. TypeOK'
  BY <1>1, <1>3, GoType DEF FetchInv, TypeOK
<1>5. RenderingNeverWorsens'
  BY <1>1 DEF FetchInv, RenderingNeverWorsens
<1> QED BY <1>1, <1>3, <1>4, <1>5, NobodyCloses, QuietStep

LEMMA StartKeeps ==
  ASSUME FetchInv, NEW t \in Threads, StartDriver(t)
  PROVE  FetchInv'
<1> DEFINE b == [owner |-> t, dict |-> "half", running |-> TRUE, voidedBy |-> "none"]
           n == Len(browsers) + 1
<1>1. /\ pc[t] = "acquire" /\ Go(t, "launch") /\ browsers' = Append(browsers, b)
      /\ own' = [own EXCEPT ![t] = Len(browsers')]
      /\ UNCHANGED <<enabled, registered, closing, sessions, req, pw, todo, phase, results>>
  BY DEF StartDriver, pages, pool
<1>2. b \in Browser /\ b.owner = t /\ b.dict = "half"
  BY DEF Browser
<1> HIDE DEF b
<1>3. browsers \in Seq(Browser) /\ DOMAIN browsers = 1..Len(browsers) /\ Len(browsers) \in Nat
  BY DEF FetchInv, TypeOK
<1>4. /\ browsers' \in Seq(Browser) /\ Len(browsers') = n /\ DOMAIN browsers' = 1..n
      /\ browsers'[n] = b /\ \A k \in DOMAIN browsers : browsers'[k] = browsers[k]
  BY <1>1, <1>2, <1>3
<1>5. DOMAIN browsers \subseteq DOMAIN browsers' /\ n \in DOMAIN browsers' /\ n # 0
  BY <1>3, <1>4
<1>6. \A k \in DOMAIN browsers' : k \in DOMAIN browsers \/ k = n
  BY <1>3, <1>4
<1>7. /\ own' \in [Threads -> {0} \cup DOMAIN browsers'] /\ own'[t] = n
      /\ \A q \in Threads \ {t} : own'[q] = own[q]
  BY <1>1, <1>4, <1>5 DEF FetchInv, TypeOK
<1> HIDE DEF n
<1>8. TypeOK'
  <2>1. registered' \subseteq DOMAIN browsers' /\ closing' \in [Threads -> SUBSET DOMAIN browsers']
    BY <1>1, <1>5 DEF FetchInv, TypeOK
  <2> QED BY <1>1, <1>4, <1>7, <2>1, GoType DEF FetchInv, TypeOK
<1>9. pc'[t] = "launch" /\ \A q \in Threads \ {t} : pc'[q] = pc[q]
  BY <1>1 DEF Go, FetchInv, TypeOK
<1>10. Frame(t)
  BY <1>1, <1>4, <1>5, <1>7, <1>9 DEF Frame
<1>11. PlaceInv(t)'
  <2>1. closing'[t] = {} /\ pw'[t] = NoPage
    BY <1>1 DEF FetchInv, PlaceInv
  <2> QED BY <1>2, <1>4, <1>5, <1>7, <1>9, <2>1 DEF PlaceInv
<1>12. SharedInv'
  <2>1. \A k \in registered : k \in DOMAIN browsers
    BY DEF FetchInv, TypeOK
  <2>2. BrowsersAreAttended'
    BY <1>1, <1>2, <1>4, <1>6 DEF FetchInv, SharedInv, BrowsersAreAttended
  <2> QED BY <1>1, <1>2, <1>4, <1>6, <2>1, <2>2 DEF FetchInv, SharedInv
<1>13. PhaseInv'
  BY <1>1, NobodyCloses DEF PhaseInv
<1>14. RenderingNeverWorsens'
  BY <1>1 DEF FetchInv, RenderingNeverWorsens
<1> QED BY <1>8, <1>10, <1>11, <1>12, <1>13, <1>14, Assemble

LEMMA LaunchKeeps ==
  ASSUME FetchInv, NEW t \in Threads, Launch(t)
  PROVE  FetchInv'
<1> DEFINE i == own[t]
           b == [browsers[i] EXCEPT !.dict = "whole"]
<1>1. /\ pc[t] = "launch" /\ Go(t, "open") /\ browsers' = [browsers EXCEPT ![i] = b]
      /\ registered' = registered \cup {i}
      /\ UNCHANGED <<enabled, own, closing, sessions, req, pw, todo, phase, results>>
  BY DEF Launch, pages, pool
<1>2. i \in DOMAIN browsers /\ i # 0 /\ browsers[i].dict = "half" /\ browsers[i].owner = t
  BY <1>1 DEF FetchInv, TypeOK, PlaceInv
<1>3. browsers \in Seq(Browser) /\ browsers[i] \in Browser
  <2>1. browsers \in Seq(Browser)
    BY DEF FetchInv, TypeOK
  <2> HIDE DEF i
  <2> QED BY <1>2, <2>1
<1>4. b \in Browser /\ b.owner = browsers[i].owner /\ b.dict = "whole"
  BY <1>3 DEF Browser
<1> HIDE DEF b, i
<1>5. /\ browsers' \in Seq(Browser) /\ DOMAIN browsers' = DOMAIN browsers /\ browsers'[i] = b
      /\ \A k \in DOMAIN browsers : k # i => browsers'[k] = browsers[k]
  BY <1>1, <1>2, <1>3, <1>4, OneBrowser
<1>6. TypeOK'
  BY <1>1, <1>2, <1>5, GoType DEF FetchInv, TypeOK
<1>7. pc'[t] = "open" /\ \A q \in Threads \ {t} : pc'[q] = pc[q]
  BY <1>1 DEF Go, FetchInv, TypeOK
<1>8. Frame(t)
  BY <1>1, <1>2, <1>4, <1>5, <1>7 DEF Frame, i
<1>9. PlaceInv(t)'
  <2>1. closing'[t] = {} /\ pw'[t] = NoPage /\ own'[t] = i
    BY <1>1 DEF FetchInv, PlaceInv, i
  <2> QED BY <1>2, <1>4, <1>5, <1>7, <2>1 DEF PlaceInv
<1>10. SharedInv'
  <2>1. \A k \in registered : k \in DOMAIN browsers
    BY DEF FetchInv, TypeOK
  <2>2. BrowsersAreAttended'
    BY <1>1, <1>5 DEF FetchInv, SharedInv, BrowsersAreAttended
  <2> QED BY <1>1, <1>2, <1>4, <1>5, <2>1, <2>2 DEF FetchInv, SharedInv
<1>11. PhaseInv'
  BY <1>1, NobodyCloses DEF PhaseInv
<1>12. RenderingNeverWorsens'
  BY <1>1 DEF FetchInv, RenderingNeverWorsens
<1> QED BY <1>6, <1>8, <1>9, <1>10, <1>11, <1>12, Assemble

\* A failure that concerns all: the list changes hands with no gap between.
LEMMA TakeAllKeeps ==
  ASSUME FetchInv, NEW t \in Threads, LaunchFails(t) \/ BreaksForAll(t)
  PROVE  FetchInv'
<1>1. /\ pc[t] \in {"launch", "open"} /\ Go(t, "shut") /\ enabled' \in {enabled, FALSE}
      /\ closing' = [closing EXCEPT ![t] = registered] /\ registered' = {}
      /\ own' = [own EXCEPT ![t] = 0] \/ own' = own
      /\ UNCHANGED <<browsers, sessions, req, pw, todo, phase, results>>
  BY DEF LaunchFails, BreaksForAll, TakeAll, pages, pool
<1>2. /\ closing' \in [Threads -> SUBSET DOMAIN browsers] /\ closing'[t] = registered
      /\ \A q \in Threads \ {t} : closing'[q] = closing[q]
  BY <1>1 DEF FetchInv, TypeOK
<1>3. /\ own' \in [Threads -> {0} \cup DOMAIN browsers] /\ own'[t] \in {0, own[t]}
      /\ \A q \in Threads \ {t} : own'[q] = own[q]
  BY <1>1 DEF FetchInv, TypeOK
<1>4. enabled' \in BOOLEAN
  <2>1. enabled \in BOOLEAN
    BY DEF FetchInv, TypeOK
  <2> QED BY <1>1, <2>1
<1>5. TypeOK'
  BY <1>1, <1>2, <1>3, <1>4, GoType DEF FetchInv, TypeOK
<1>6. pc'[t] = "shut" /\ \A q \in Threads \ {t} : pc'[q] = pc[q]
  BY <1>1 DEF Go, FetchInv, TypeOK
<1>7. Frame(t)
  BY <1>1, <1>2, <1>3, <1>6 DEF Frame
<1>8. closing[t] = {} /\ pw[t] = NoPage
  BY <1>1 DEF FetchInv, PlaceInv
<1>9. PlaceInv(t)'
  BY <1>1, <1>2, <1>3, <1>6, <1>8 DEF FetchInv, PlaceInv, SharedInv
<1>10. BrowsersAreAttended'
  <2> SUFFICES ASSUME NEW i \in DOMAIN browsers, browsers[i].dict = "whole"
               PROVE  \E q \in Threads : i \in closing'[q]
    BY <1>1 DEF BrowsersAreAttended
  <2>1. CASE i \in registered
    BY <1>2, <2>1
  <2>2. CASE i \notin registered
    <3>1. PICK q \in Threads : i \in closing[q]
      BY <2>2 DEF FetchInv, SharedInv, BrowsersAreAttended
    <3> QED BY <1>2, <1>8, <3>1
  <2> QED BY <2>1, <2>2
<1>11. SharedInv'
  BY <1>1, <1>10 DEF FetchInv, SharedInv
<1>12. PhaseInv'
  BY <1>1, NobodyCloses DEF PhaseInv
<1>13. RenderingNeverWorsens'
  BY <1>1 DEF FetchInv, RenderingNeverWorsens
<1> QED BY <1>5, <1>7, <1>9, <1>11, <1>12, <1>13, Assemble

\* Shutting one browser down leaves the others attended, and itself void.
LEMMA ShutShares ==
  ASSUME FetchInv, NEW i \in DOMAIN browsers, NEW t \in Threads,
         browsers' \in Shutdown(i, t), registered' \subseteq registered,
         registered \ {i} \subseteq registered',
         \A q \in Threads : closing[q] \ {i} \subseteq closing'[q]
  PROVE  SharedInv'
<1>1. /\ DOMAIN browsers' = DOMAIN browsers /\ browsers'[i].dict = "void"
      /\ browsers' = browsers \/ (browsers'[i].running => browsers'[i].voidedBy # browsers'[i].owner)
      /\ \A k \in DOMAIN browsers : k # i => browsers'[k] = browsers[k]
  BY ShutBrowser DEF FetchInv
<1>2. \A k \in registered' : k \in DOMAIN browsers
  BY DEF FetchInv, TypeOK
<1>3. \A k \in registered' : browsers'[k].dict # "half"
  BY <1>1, <1>2 DEF FetchInv, SharedInv
<1>4. BrowsersAreAttended'
  <2> SUFFICES ASSUME NEW k \in DOMAIN browsers, browsers'[k].dict = "whole"
               PROVE  k \in registered' \/ \E q \in Threads : k \in closing'[q]
    BY <1>1 DEF BrowsersAreAttended
  <2>1. k # i /\ browsers[k].dict = "whole"
    BY <1>1
  <2> QED BY <2>1 DEF FetchInv, SharedInv, BrowsersAreAttended
<1>5. ASSUME NEW k \in DOMAIN browsers', browsers'[k].running, browsers'[k].dict = "void"
      PROVE  browsers'[k].voidedBy # browsers'[k].owner
  <2>1. CASE k # i \/ browsers' = browsers
    BY <1>1, <1>5, <2>1 DEF FetchInv, SharedInv
  <2>2. CASE k = i /\ browsers' # browsers
    BY <1>1, <1>5, <2>2
  <2> QED BY <2>1, <2>2
<1> QED BY <1>3, <1>4, <1>5 DEF SharedInv

LEMMA ShutKeeps ==
  ASSUME FetchInv, NEW t \in Threads, NEW i, ShutOne(t, i)
  PROVE  FetchInv'
<1>1. /\ pc[t] \in {"shut", "close"} /\ i \in closing[t] /\ browsers' \in Shutdown(i, t)
      /\ closing' = [closing EXCEPT ![t] = closing[t] \ {i}]
      /\ UNCHANGED <<enabled, registered, own, sessions, pc, req, pw, todo, phase, results>>
  BY DEF ShutOne, pages, pool
<1>2. i \in DOMAIN browsers /\ browsers[i].dict # "half"
  BY <1>1 DEF FetchInv, TypeOK, PlaceInv
<1>3. /\ browsers' \in Seq(Browser) /\ DOMAIN browsers' = DOMAIN browsers
      /\ browsers'[i].dict = "void" /\ browsers'[i].owner = browsers[i].owner
      /\ \A k \in DOMAIN browsers : k # i => browsers'[k] = browsers[k]
  BY <1>1, <1>2, ShutBrowser DEF FetchInv
<1>4. /\ closing' \in [Threads -> SUBSET DOMAIN browsers] /\ closing'[t] = closing[t] \ {i}
      /\ \A q \in Threads \ {t} : closing'[q] = closing[q]
  BY <1>1 DEF FetchInv, TypeOK
<1>5. TypeOK'
  BY <1>1, <1>3, <1>4 DEF FetchInv, TypeOK
<1>6. Frame(t)
  BY <1>1, <1>2, <1>3, <1>4 DEF Frame
<1>7. PlaceInv(t)'
  <2>1. PlaceInv(t) /\ closing[t] \subseteq DOMAIN browsers
        /\ own[t] \in {0} \cup DOMAIN browsers
    BY DEF FetchInv, TypeOK
  <2>2. \A k \in closing'[t] : browsers'[k].dict # "half"
    BY <1>3, <1>4, <2>1 DEF PlaceInv
  <2>3. own'[t] # 0 => browsers'[own'[t]].owner = t
    BY <1>1, <1>3, <2>1 DEF PlaceInv
  <2> QED BY <1>1, <1>4, <2>1, <2>2, <2>3 DEF PlaceInv
<1>8. SharedInv'
  BY <1>1, <1>2, <1>4, ShutShares
<1>9. PhaseInv' /\ RenderingNeverWorsens'
  BY <1>1 DEF FetchInv, PhaseInv, RenderingNeverWorsens
<1> QED BY <1>5, <1>6, <1>7, <1>8, <1>9, Assemble

LEMMA ShutEndsKeeps ==
  ASSUME FetchInv, NEW t \in Threads, ShutEnds(t)
  PROVE  FetchInv'
<1>1. /\ pc[t] = "shut" /\ closing[t] = {} /\ own' = [own EXCEPT ![t] = 0]
      /\ Return(t, req[t]) /\ Go(t, "idle")
      /\ UNCHANGED <<enabled, browsers, registered, closing, sessions, todo, phase>>
  BY DEF ShutEnds, Return
<1>2. /\ RenderingNeverWorsens'
      /\ results' \subseteq [page : Page, req : Page, pw : Page]
      /\ req' \in [Threads -> Page] /\ pw' \in [Threads -> Page] /\ pw'[t] = NoPage
      /\ \A q \in Threads \ {t} : pw'[q] = pw[q]
  BY <1>1, ReturnPlainly
<1>3. /\ own' \in [Threads -> {0} \cup DOMAIN browsers] /\ own'[t] = 0
      /\ \A q \in Threads \ {t} : own'[q] = own[q]
  BY <1>1 DEF FetchInv, TypeOK
<1>4. TypeOK'
  BY <1>1, <1>2, <1>3, GoType DEF FetchInv, TypeOK
<1>5. pc'[t] = "idle" /\ \A q \in Threads \ {t} : pc'[q] = pc[q]
  BY <1>1 DEF Go, FetchInv, TypeOK
<1>6. Frame(t)
  BY <1>1, <1>2, <1>3, <1>5 DEF Frame
<1>7. PlaceInv(t)'
  BY <1>1, <1>2, <1>3, <1>5 DEF FetchInv, PlaceInv
<1>8. SharedInv'
  BY <1>1 DEF FetchInv, SharedInv, BrowsersAreAttended
<1>9. PhaseInv'
  BY <1>1, NobodyCloses DEF PhaseInv
<1> QED BY <1>2, <1>4, <1>6, <1>7, <1>8, <1>9, Assemble

LEMMA BreaksKeeps ==
  ASSUME FetchInv, NEW t \in Threads, Breaks(t)
  PROVE  FetchInv'
<1> DEFINE i == own[t]
<1>1. /\ pc[t] = "open" /\ Go(t, "choose") /\ registered' = registered \ {i}
      /\ browsers' \in Shutdown(i, t) /\ own' = [own EXCEPT ![t] = 0]
      /\ UNCHANGED <<enabled, closing, sessions, req, pw, todo, phase, results>>
  BY DEF Breaks, pages, pool
<1>2. i \in DOMAIN browsers
  BY <1>1 DEF FetchInv, TypeOK, PlaceInv
<1>3. /\ browsers' \in Seq(Browser) /\ DOMAIN browsers' = DOMAIN browsers
      /\ browsers'[i].dict = "void" /\ browsers'[i].owner = browsers[i].owner
      /\ \A k \in DOMAIN browsers : k # i => browsers'[k] = browsers[k]
  BY <1>1, <1>2, ShutBrowser DEF FetchInv
<1>4. /\ own' \in [Threads -> {0} \cup DOMAIN browsers] /\ own'[t] = 0
      /\ \A q \in Threads \ {t} : own'[q] = own[q]
  BY <1>1 DEF FetchInv, TypeOK
<1>5. TypeOK'
  BY <1>1, <1>3, <1>4, GoType DEF FetchInv, TypeOK
<1>6. pc'[t] = "choose" /\ \A q \in Threads \ {t} : pc'[q] = pc[q]
  BY <1>1 DEF Go, FetchInv, TypeOK
<1>7. Frame(t)
  <2>1. \A k \in DOMAIN browsers :
          /\ k \in DOMAIN browsers' /\ browsers'[k].owner = browsers[k].owner
          /\ browsers[k].dict # "half" => browsers'[k].dict # "half"
          /\ k # i => browsers'[k].dict = browsers[k].dict
    BY <1>2, <1>3
  <2> QED BY <1>1, <1>4, <1>6, <2>1 DEF Frame
<1>8. PlaceInv(t)'
  BY <1>1, <1>4, <1>6 DEF FetchInv, PlaceInv
<1>9. SharedInv'
  BY <1>1, <1>2, ShutShares
<1>10. PhaseInv'
  BY <1>1, NobodyCloses DEF PhaseInv
<1>11. RenderingNeverWorsens'
  BY <1>1 DEF FetchInv, RenderingNeverWorsens
<1> QED BY <1>5, <1>7, <1>8, <1>9, <1>10, <1>11, Assemble

LEMMA CandidatesKeep == ASSUME FetchInv, StartCandidates PROVE FetchInv'
<1>1. /\ phase = "home" /\ phase' = "candidates"
      /\ UNCHANGED <<enabled, browsers, registered, own, closing, sessions, pc, req, pw, todo,
                     results>>
  BY DEF StartCandidates, resources, pages
<1>2. TypeOK'
  BY <1>1 DEF FetchInv, TypeOK
<1>3. \A t \in Threads : PlaceInv(t)'
  BY <1>1 DEF FetchInv, PlaceInv
<1>4. SharedInv' /\ PhaseInv' /\ RenderingNeverWorsens'
  BY <1>1 DEF FetchInv, SharedInv, BrowsersAreAttended, PhaseInv, RenderingNeverWorsens
<1> QED BY <1>2, <1>3, <1>4 DEF FetchInv

LEMMA CloseKeeps == ASSUME FetchInv, BeginClose PROVE FetchInv'
<1>1. /\ \A t \in Threads : pc[t] = "idle"
      /\ phase' = "closing" /\ Go(Main, "close")
      /\ closing' = [closing EXCEPT ![Main] = registered] /\ registered' = {}
      /\ UNCHANGED <<enabled, browsers, own, sessions, req, pw, todo, results>>
  BY DEF BeginClose, TakeAll, pages
<1>2. Main \in Threads /\ Workers \subseteq Threads /\ Main \notin Workers
  BY WorkersAssumption DEF Threads
<1>3. /\ closing' \in [Threads -> SUBSET DOMAIN browsers] /\ closing'[Main] = registered
      /\ \A q \in Threads \ {Main} : closing'[q] = closing[q]
  BY <1>1, <1>2 DEF FetchInv, TypeOK
<1>4. pc'[Main] = "close" /\ \A q \in Threads \ {Main} : pc'[q] = pc[q]
  BY <1>1, <1>2 DEF Go, FetchInv, TypeOK
<1>5. TypeOK'
  BY <1>1, <1>2, <1>3, GoType DEF FetchInv, TypeOK
<1>6. ASSUME NEW t \in Threads PROVE PlaceInv(t)'
  <2>1. CASE t = Main
    BY <1>1, <1>2, <1>3, <1>4, <2>1 DEF FetchInv, PlaceInv, SharedInv
  <2>2. CASE t # Main
    BY <1>1, <1>3, <1>4, <2>2 DEF FetchInv, PlaceInv
  <2> QED BY <2>1, <2>2
<1>7. BrowsersAreAttended'
  <2>1. \A t \in Threads : closing[t] = {}
    BY <1>1 DEF FetchInv, PlaceInv
  <2> QED BY <1>1, <1>2, <1>3, <2>1 DEF FetchInv, SharedInv, BrowsersAreAttended
<1>8. SharedInv'
  BY <1>1, <1>7 DEF FetchInv, SharedInv
<1>9. PhaseInv'
  BY <1>1, <1>2, <1>4 DEF PhaseInv
<1>10. RenderingNeverWorsens'
  BY <1>1 DEF FetchInv, RenderingNeverWorsens
<1> QED BY <1>5, <1>6, <1>8, <1>9, <1>10 DEF FetchInv

LEMMA ClosedKeeps == ASSUME FetchInv, CloseEnds PROVE FetchInv'
<1>1. /\ pc[Main] = "close" /\ closing[Main] = {} /\ phase' = "closed" /\ Go(Main, "idle")
      /\ own' = [own EXCEPT ![Main] = 0]
      /\ sessions' = [t \in Threads |-> IF sessions[t] = "open" THEN "closed"
                                        ELSE sessions[t]]
      /\ UNCHANGED <<enabled, browsers, registered, closing, req, pw, todo, results>>
  BY DEF CloseEnds, pages
<1>2. Main \in Threads /\ Threads = {Main} \cup Workers
  BY DEF Threads
<1>3. phase = "closing"
  BY <1>1, <1>2 DEF FetchInv, PlaceInv
<1>4. registered = {} /\ \A t \in Workers : pc[t] = "idle"
  BY <1>3 DEF FetchInv, PhaseInv
<1>5. /\ own' \in [Threads -> {0} \cup DOMAIN browsers] /\ own'[Main] = 0
      /\ \A q \in Threads \ {Main} : own'[q] = own[q]
  BY <1>1, <1>2 DEF FetchInv, TypeOK
<1>6. /\ sessions' \in [Threads -> {"none", "open", "closed"}]
      /\ \A t \in Threads : sessions'[t] # "open"
  BY <1>1 DEF FetchInv, TypeOK
<1>7. TypeOK'
  BY <1>1, <1>2, <1>5, <1>6, GoType DEF FetchInv, TypeOK
<1>8. \A t \in Threads : pc'[t] = "idle"
  BY <1>1, <1>2, <1>4 DEF Go, FetchInv, TypeOK
<1>9. ASSUME NEW t \in Threads PROVE PlaceInv(t)'
  <2>1. CASE t = Main
    BY <1>1, <1>2, <1>5, <1>8, <2>1 DEF FetchInv, PlaceInv
  <2>2. CASE t # Main
    BY <1>1, <1>2, <1>4, <1>5, <1>8, <2>2 DEF FetchInv, PlaceInv
  <2> QED BY <2>1, <2>2
<1>10. SharedInv'
  BY <1>1 DEF FetchInv, SharedInv, BrowsersAreAttended
<1>11. PhaseInv'
  BY <1>1, <1>4, <1>6, <1>8 DEF PhaseInv
<1>12. RenderingNeverWorsens'
  BY <1>1 DEF FetchInv, RenderingNeverWorsens
<1> QED BY <1>7, <1>9, <1>10, <1>11, <1>12 DEF FetchInv

-----------------------------------------------------------------------------
(* The invariant holds                                                     *)

LEMMA InitFetch == Init => FetchInv
<1> SUFFICES ASSUME Init PROVE FetchInv
  OBVIOUS
<1>1. NoPage \in Page
  BY DEF NoPage, Page
<1>2. TypeOK
  <2>1. enabled \in BOOLEAN
    BY Zenon DEF Init
  <2>2. browsers \in Seq(Browser) /\ DOMAIN browsers = {}
    BY EmptySeq DEF Init
  <2>3. pc \in [Threads -> {"idle", "request", "decide", "acquire", "launch", "open",
                            "shut", "choose", "close"}]
    BY DEF Init
  <2>4. todo \in 0..Candidates
    BY CandidatesAssumption DEF Init
  <2>5. /\ registered \subseteq DOMAIN browsers /\ own \in [Threads -> {0} \cup DOMAIN browsers]
        /\ sessions \in [Threads -> {"none", "open", "closed"}]
        /\ closing \in [Threads -> SUBSET DOMAIN browsers]
        /\ phase \in {"home", "candidates", "closing", "closed"}
    BY <2>2 DEF Init
  <2>6. /\ req \in [Threads -> Page] /\ pw \in [Threads -> Page]
        /\ results \subseteq [page : Page, req : Page, pw : Page]
    BY <1>1 DEF Init
  <2> QED BY <2>1, <2>2, <2>3, <2>4, <2>5, <2>6 DEF TypeOK
<1>3. ASSUME NEW t \in Threads PROVE PlaceInv(t)
  BY DEF Init, PlaceInv
<1>4. SharedInv /\ PhaseInv /\ RenderingNeverWorsens
  BY DEF Init, SharedInv, BrowsersAreAttended, PhaseInv, RenderingNeverWorsens
<1> QED BY <1>2, <1>3, <1>4 DEF FetchInv

LEMMA NextFetch == FetchInv /\ [Next]_vars => FetchInv'
<1> SUFFICES ASSUME FetchInv, [Next]_vars PROVE FetchInv'
  OBVIOUS
<1>1. CASE UNCHANGED vars
  <2>1. UNCHANGED <<enabled, browsers, registered, own, closing, sessions, pc, req, pw, todo,
                    phase, results>>
    BY <1>1 DEF vars, resources, pages, pool
  <2>2. TypeOK' /\ SharedInv' /\ PhaseInv' /\ RenderingNeverWorsens'
    BY <2>1 DEF FetchInv, TypeOK, SharedInv, BrowsersAreAttended, PhaseInv,
                RenderingNeverWorsens
  <2>3. \A t \in Threads : PlaceInv(t)'
    BY <2>1 DEF FetchInv, PlaceInv
  <2> QED BY <2>2, <2>3 DEF FetchInv
<1>2. ASSUME NEW t \in Threads, Step(t) PROVE FetchInv'
  BY <1>2, TakeKeeps, RequestKeeps, ReturnsKeep, MovesKeep, OpenKeeps, StartKeeps,
     LaunchKeeps, TakeAllKeeps, ShutKeeps, ShutEndsKeeps, BreaksKeeps DEF Step
<1> QED BY <1>1, <1>2, CandidatesKeep, CloseKeeps, ClosedKeeps DEF Next

LEMMA FetchAlways == Spec => []FetchInv
BY InitFetch, NextFetch, PTL DEF Spec

\* The variables keep their types; no position leads outside the browsers.
THEOREM FetcherTypes == Spec => []TypeOK
<1>1. FetchInv => TypeOK
  BY DEF FetchInv
<1> QED BY <1>1, FetchAlways, PTL

\* No browser that was launched is ever forgotten, however many threads close
\* everything at once while others launch theirs (_get_or_create_..., line 317,
\* and _close_playwright_resources, line 401).
THEOREM NoBrowserIsForgotten == Spec => []BrowsersAreAttended
<1>1. FetchInv => BrowsersAreAttended
  BY DEF FetchInv, SharedInv
<1> QED BY <1>1, FetchAlways, PTL

\* After close every session is closed, and a process that is left is a driver
\* whose launch failed or was shut down by another thread than its own.
THEOREM CloseLeavesForeign == Spec => []OnlyForeignClosedRemain
<1>1. FetchInv => OnlyForeignClosedRemain
  <2> SUFFICES ASSUME FetchInv, phase = "closed"
               PROVE  /\ \A t \in Threads : sessions[t] # "open"
                      /\ \A i \in DOMAIN browsers :
                           browsers[i].running =>
                             \/ browsers[i].dict = "half"
                             \/ browsers[i].voidedBy # browsers[i].owner
    BY DEF OnlyForeignClosedRemain
  <2>1. registered = {} /\ \A t \in Threads : pc[t] = "idle" /\ sessions[t] # "open"
    BY DEF FetchInv, PhaseInv
  <2>2. \A t \in Threads : closing[t] = {}
    BY <2>1 DEF FetchInv, PlaceInv
  <2>3. \A i \in DOMAIN browsers : browsers[i].dict # "whole"
    BY <2>1, <2>2 DEF FetchInv, SharedInv, BrowsersAreAttended
  <2>4. ASSUME NEW i \in DOMAIN browsers PROVE browsers[i].dict \in {"half", "whole", "void"}
    <3>1. browsers \in Seq(Browser)
      BY DEF FetchInv, TypeOK
    <3>2. browsers[i] \in Browser
      BY <3>1
    <3> QED BY <3>2 DEF Browser
  <2> QED BY <2>1, <2>3, <2>4 DEF FetchInv, SharedInv
<1> QED BY <1>1, FetchAlways, PTL

\* A page that is ok is not lost to its rendering, and a rendering that failed
\* under the thread leaves the page of requests.
THEOREM RenderingKeepsPages == Spec => []RenderingNeverWorsens
<1>1. FetchInv => RenderingNeverWorsens
  BY DEF FetchInv
<1> QED BY <1>1, FetchAlways, PTL

-----------------------------------------------------------------------------
(* Nobody is left waiting.                                                 *)

\* A fetch that may still start a browser.
Fetching == {t \in Threads : pc[t] \in {"request", "decide", "acquire"}}

\* Each fetch starts one browser at most, so that there are never more of them
\* than pages asked for: the home page and the candidates taken so far.
BrowsersCounted ==
  Len(browsers) + Cardinality(Fetching) <= Candidates + 1 - todo

LEMMA SomeFetch ==
  ASSUME NEW S \in SUBSET Threads
  PROVE  IsFiniteSet(S) /\ Cardinality(S) \in Nat
<1>1. IsFiniteSet(Threads)
  BY WorkersAssumption, FS_AddElement DEF Threads
<1> QED BY <1>1, FS_Subset, FS_CardinalityType

LEMMA FewerFetch ==
  ASSUME NEW S \in SUBSET Threads, NEW T \in SUBSET S
  PROVE  Cardinality(T) <= Cardinality(S)
BY SomeFetch, FS_Subset

LEMMA OneMoreFetch ==
  ASSUME NEW S \in SUBSET Threads, NEW t \in Threads, NEW T \in SUBSET (S \cup {t})
  PROVE  Cardinality(T) <= Cardinality(S) + 1
<1>1. S \cup {t} \in SUBSET Threads
  OBVIOUS
<1>2. Cardinality(S \cup {t}) \in {Cardinality(S), Cardinality(S) + 1}
  BY SomeFetch, FS_AddElement
<1>3. Cardinality(T) <= Cardinality(S \cup {t})
  BY <1>1, FewerFetch
<1>4. Cardinality(T) \in Nat /\ Cardinality(S) \in Nat
  BY SomeFetch
<1> QED BY <1>2, <1>3, <1>4

\* A step by which nobody begins a fetch and no browser is started.
LEMMA NothingStarted ==
  ASSUME TypeOK, BrowsersCounted, todo' = todo, Len(browsers') = Len(browsers),
         Fetching' \subseteq Fetching
  PROVE  BrowsersCounted'
<1>1. Cardinality(Fetching') <= Cardinality(Fetching)
  BY FewerFetch DEF Fetching
<1>2. Cardinality(Fetching') \in Nat /\ Cardinality(Fetching) \in Nat
  BY SomeFetch DEF Fetching
<1>3. Len(browsers) \in Nat /\ todo \in Int /\ Candidates \in Nat
  BY CandidatesAssumption DEF TypeOK
<1> QED BY <1>1, <1>2, <1>3 DEF BrowsersCounted

LEMMA TakeCounts ==
  ASSUME TypeOK, BrowsersCounted, NEW t \in Threads, Take(t)
  PROVE  BrowsersCounted'
<1>1. /\ Fetching' \subseteq Fetching \cup {t}
      /\ todo' = todo - 1 /\ browsers' = browsers
  BY DEF Take, Go, Fetching, TypeOK, resources
<1>2. Cardinality(Fetching') <= Cardinality(Fetching) + 1
  BY <1>1, OneMoreFetch DEF Fetching
<1>3. Cardinality(Fetching') \in Nat /\ Cardinality(Fetching) \in Nat
  BY SomeFetch DEF Fetching
<1>4. Len(browsers) \in Nat /\ todo \in Int /\ Candidates \in Nat
  BY CandidatesAssumption DEF TypeOK
<1> QED BY <1>1, <1>2, <1>3, <1>4 DEF BrowsersCounted

LEMMA StartCounts ==
  ASSUME TypeOK, BrowsersCounted, NEW t \in Threads, StartDriver(t)
  PROVE  BrowsersCounted'
<1>1. /\ t \in Fetching /\ Fetching' = Fetching \ {t} /\ todo' = todo
  BY DEF StartDriver, Go, Fetching, TypeOK, pool
<1>2. Len(browsers') = Len(browsers) + 1
  BY DEF StartDriver, TypeOK
<1>3. Cardinality(Fetching \ {t}) = Cardinality(Fetching) - 1
  BY <1>1, SomeFetch, FS_RemoveElement DEF Fetching
<1>4. Cardinality(Fetching) \in Nat
  BY SomeFetch DEF Fetching
<1>5. Len(browsers) \in Nat /\ todo \in Int /\ Candidates \in Nat
  BY CandidatesAssumption DEF TypeOK
<1>6. Cardinality(Fetching') = Cardinality(Fetching) - 1
  BY <1>1, <1>3
<1> QED BY <1>1, <1>2, <1>4, <1>5, <1>6 DEF BrowsersCounted

LEMMA CountedStep ==
  FetchInv /\ BrowsersCounted /\ [Next]_vars => BrowsersCounted'
<1> SUFFICES ASSUME FetchInv, BrowsersCounted, [Next]_vars PROVE BrowsersCounted'
  OBVIOUS
<1>0. TypeOK /\ Main \in Threads
  BY DEF FetchInv, Threads
<1>1. ASSUME NEW t \in Threads, NEW place, Go(t, place),
             place \in {"request", "decide", "acquire"} => t \in Fetching,
             todo' = todo, Len(browsers') = Len(browsers)
      PROVE  BrowsersCounted'
  <2>1. Fetching' \subseteq Fetching
    BY <1>0, <1>1 DEF Fetching, Go, TypeOK
  <2> QED BY <1>0, <1>1, <2>1, NothingStarted
<1>2. ASSUME pc' = pc, todo' = todo, Len(browsers') = Len(browsers)
      PROVE  BrowsersCounted'
  BY <1>0, <1>2, NothingStarted DEF Fetching
<1>3. ASSUME NEW t \in Threads, NEW i \in DOMAIN browsers, browsers' \in Shutdown(i, t)
      PROVE  Len(browsers') = Len(browsers)
  <2>1. browsers' \in Seq(Browser) /\ DOMAIN browsers' = DOMAIN browsers
    BY <1>0, <1>3, ShutBrowser
  <2> QED BY <1>0, <2>1 DEF TypeOK
<1>4. ASSUME NEW t \in Threads, Step(t)
      PROVE  BrowsersCounted'
  <2>1. CASE Take(t)
    BY <1>0, <2>1, TakeCounts
  <2>2. CASE StartDriver(t)
    BY <1>0, <2>2, StartCounts
  <2>3. CASE (\E page \in Answers : Request(t, page)) \/ Render(t)
    <3>1. \E place : Go(t, place) /\ t \in Fetching
      BY <2>3 DEF Request, Render, Fetching
    <3>2. todo' = todo /\ browsers' = browsers
      BY <2>3 DEF Request, Render, resources, pool
    <3> QED BY <1>1, <3>1, <3>2
  <2>4. CASE Plain(t) \/ Unavailable(t) \/ ShutEnds(t) \/ ChoosePage(t)
    <3>1. Go(t, "idle")
      BY <2>4 DEF Plain, Unavailable, ShutEnds, ChoosePage, Return
    <3>2. todo' = todo /\ browsers' = browsers
      BY <2>4 DEF Plain, Unavailable, ShutEnds, ChoosePage, resources
    <3> QED BY <1>1, <3>1, <3>2
  <2>5. CASE \/ Reuse(t) \/ LaunchFails(t) \/ TimesOut(t) \/ BreaksForAll(t)
             \/ \E page \in Renderings : Open(t, page)
    <3>1. Go(t, "open") \/ Go(t, "shut") \/ Go(t, "choose")
      BY <2>5 DEF Reuse, LaunchFails, TimesOut, BreaksForAll, Open, TakeAll
    <3>2. todo' = todo /\ browsers' = browsers
      BY <2>5 DEF Reuse, LaunchFails, TimesOut, BreaksForAll, Open, TakeAll,
                  resources, pool
    <3> QED BY <1>1, <3>1, <3>2
  <2>6. CASE Launch(t)
    <3>1. Len(browsers') = Len(browsers)
      <4>1. browsers' = [browsers EXCEPT ![own[t]].dict = "whole"]
        BY <2>6 DEF Launch
      <4>2. browsers \in Seq(Browser) /\ browsers' \in Seq(Browser)
        BY <1>0, <2>6, LaunchKeeps DEF FetchInv, TypeOK
      <4>3. DOMAIN browsers' = DOMAIN browsers
        BY <4>1
      <4> QED BY <4>2, <4>3
    <3>2. Go(t, "open") /\ todo' = todo
      BY <2>6 DEF Launch, pool
    <3> QED BY <1>1, <3>1, <3>2
  <2>7. CASE \E i \in 1..Candidates + 1 : ShutOne(t, i)
    <3>1. PICK i : ShutOne(t, i)
      BY <2>7
    <3>2. i \in DOMAIN browsers /\ browsers' \in Shutdown(i, t)
      BY <1>0, <3>1 DEF ShutOne, TypeOK
    <3>3. pc' = pc /\ todo' = todo
      BY <3>1 DEF ShutOne, pool
    <3> QED BY <1>2, <1>3, <3>2, <3>3
  <2>8. CASE Breaks(t)
    <3>1. own[t] \in DOMAIN browsers /\ browsers' \in Shutdown(own[t], t)
      BY <1>0, <2>8 DEF Breaks, FetchInv, PlaceInv, TypeOK
    <3>2. Go(t, "choose") /\ todo' = todo
      BY <2>8 DEF Breaks, pool
    <3> QED BY <1>1, <1>3, <3>1, <3>2
  <2> QED BY <1>4, <2>1, <2>2, <2>3, <2>4, <2>5, <2>6, <2>7, <2>8 DEF Step
<1>5. CASE StartCandidates
  BY <1>2, <1>5 DEF StartCandidates, resources
<1>6. CASE BeginClose \/ CloseEnds
  <2>1. Go(Main, "close") \/ Go(Main, "idle")
    BY <1>6 DEF BeginClose, CloseEnds, TakeAll
  <2>2. todo' = todo /\ browsers' = browsers
    BY <1>6 DEF BeginClose, CloseEnds
  <2> QED BY <1>0, <1>1, <2>1, <2>2
<1>7. CASE UNCHANGED vars
  BY <1>2, <1>7 DEF vars, resources, pool
<1> QED BY <1>4, <1>5, <1>6, <1>7 DEF Next

LEMMA InitCounted == Init => BrowsersCounted
<1> SUFFICES ASSUME Init PROVE BrowsersCounted
  OBVIOUS
<1>1. Fetching \subseteq {Main}
  BY DEF Init, Fetching, Threads
<1>2. Cardinality(Fetching) <= Cardinality({Main})
  BY <1>1, FewerFetch DEF Threads
<1>3. Cardinality({Main}) = 1
  BY FS_Singleton
<1>4. Cardinality(Fetching) \in Nat
  BY SomeFetch DEF Fetching
<1>5. Len(browsers) = 0 /\ todo = Candidates /\ Candidates \in Nat
  BY CandidatesAssumption DEF Init
<1> QED BY <1>2, <1>3, <1>4, <1>5 DEF BrowsersCounted

\* However many threads fetch, and whatever they do to each other's browsers,
\* never more drivers are started than pages were asked for
\* (_get_or_create_playwright_resource).
THEOREM DriversAreBounded == Spec => []OneDriverPerPage
<1>1. FetchInv /\ BrowsersCounted => OneDriverPerPage
  <2> SUFFICES ASSUME FetchInv, BrowsersCounted PROVE OneDriverPerPage
    OBVIOUS
  <2>1. Cardinality(Fetching) \in Nat
    BY SomeFetch DEF Fetching
  <2>2. Len(browsers) \in Nat /\ todo \in Nat /\ Candidates \in Nat
    BY CandidatesAssumption DEF FetchInv, TypeOK
  <2> QED BY <2>1, <2>2 DEF BrowsersCounted, OneDriverPerPage
<1> QED BY <1>1, FetchAlways, InitCounted, CountedStep, PTL DEF Spec

\* No browser has a number ShutOne does not know.
LEMMA BrowsersKnown ==
  ASSUME TypeOK, BrowsersCounted
  PROVE  DOMAIN browsers \subseteq 1..Candidates + 1
<1>1. Cardinality(Fetching) \in Nat
  BY SomeFetch DEF Fetching
<1>2. /\ Len(browsers) \in Nat /\ todo \in 0..Candidates /\ Candidates \in Nat
      /\ DOMAIN browsers = 1..Len(browsers)
  BY CandidatesAssumption DEF TypeOK
<1>3. Len(browsers) <= Candidates + 1
  BY <1>1, <1>2 DEF BrowsersCounted
<1> QED BY <1>2, <1>3

LEMMA BusyCanGo ==
  ASSUME FetchInv, BrowsersCounted, NEW t \in Threads, pc[t] \notin {"idle", "close"}
  PROVE  CanGo(t)
<1>1. closing[t] \subseteq 1..Candidates + 1
  BY BrowsersKnown DEF FetchInv, TypeOK
<1>2. pc[t] \in {"request", "decide", "acquire", "launch", "open", "shut", "choose"}
  BY DEF FetchInv, TypeOK
<1> QED BY <1>1, <1>2 DEF CanGo

\* The safety half of PipelineEnds, and with it that the numbers over which
\* ShutOne is quantified leave out no browser.
THEOREM FetcherNeverStalls == Spec => []NeverStalls
<1>1. FetchInv /\ BrowsersCounted => NeverStalls
  <2> SUFFICES ASSUME FetchInv, BrowsersCounted, phase # "closed", ~PhaseCanEnd
               PROVE  \E t \in Threads : CanGo(t)
    BY DEF NeverStalls
  <2>0. Main \in Threads /\ Workers \subseteq Threads
    BY DEF Threads
  <2>1. CASE phase = "home"
    <3>1. pc[Main] # "idle"
      BY <2>1 DEF PhaseCanEnd
    <3>2. pc[Main] # "close"
      BY <2>0, <2>1 DEF FetchInv, PlaceInv
    <3> QED BY <2>0, <3>1, <3>2, BusyCanGo
  <2>2. CASE phase = "candidates"
    <3>1. \A t \in Threads : pc[t] # "close"
      BY <2>2 DEF FetchInv, PlaceInv
    <3>2. CASE \E t \in Threads : pc[t] # "idle"
      BY <3>1, <3>2, BusyCanGo
    <3>3. CASE \A t \in Threads : pc[t] = "idle"
      <4>1. todo > 0
        <5>1. todo # 0
          BY <2>2, <3>3 DEF PhaseCanEnd
        <5> QED BY <5>1, CandidatesAssumption DEF FetchInv, TypeOK
      <4>2. PICK t \in Threads :
              IF Candidates > 1 /\ Workers # {} THEN t \in Workers ELSE t = Main
        BY <2>0
      <4> QED BY <2>2, <3>3, <4>1, <4>2 DEF CanGo
    <3> QED BY <3>2, <3>3
  <2>3. CASE phase = "closing"
    <3>1. pc[Main] = "close" /\ closing[Main] # {}
      BY <2>3 DEF FetchInv, PhaseInv, PhaseCanEnd
    <3>2. closing[Main] \subseteq 1..Candidates + 1
      BY <2>0, BrowsersKnown DEF FetchInv, TypeOK
    <3> QED BY <2>0, <3>1, <3>2 DEF CanGo
  <2> QED BY <2>1, <2>2, <2>3 DEF FetchInv, TypeOK
<1> QED BY <1>1, FetchAlways, InitCounted, CountedStep, PTL DEF Spec

-----------------------------------------------------------------------------
(* There is an end to going on.                                            *)

\* What a thread has to shut down is no more than the browsers there can be.
LEMMA ListShort ==
  ASSUME FetchInv, BrowsersCounted, NEW S \in SUBSET DOMAIN browsers
  PROVE  IsFiniteSet(S) /\ Cardinality(S) \in Nat /\ Cardinality(S) <= Candidates + 1
<1>1. Candidates + 1 \in Nat
  BY CandidatesAssumption
<1>2. IsFiniteSet(1..Candidates + 1) /\ Cardinality(1..Candidates + 1) = Candidates + 1
  BY <1>1, FS_Interval
<1>3. S \subseteq 1..Candidates + 1
  BY BrowsersKnown DEF FetchInv
<1>4. IsFiniteSet(S) /\ Cardinality(S) <= Cardinality(1..Candidates + 1)
  BY <1>2, <1>3, FS_Subset
<1> QED BY <1>2, <1>4, FS_CardinalityType

\* The turns left at each place, before a step and after it.
LEMMA PlaceTurns ==
  ASSUME NEW t
  PROVE  /\ pc[t] = "request" => TurnsLeft(t) = Candidates + 7
         /\ pc[t] = "decide" => TurnsLeft(t) = Candidates + 6
         /\ pc[t] = "acquire" => TurnsLeft(t) = Candidates + 5
         /\ pc[t] = "launch" => TurnsLeft(t) = Candidates + 4
         /\ pc[t] = "open" => TurnsLeft(t) = Candidates + 3
         /\ pc[t] = "choose" => TurnsLeft(t) = 1
         /\ pc[t] \in {"shut", "close"} => TurnsLeft(t) = Cardinality(closing[t]) + 1
         /\ pc[t] = "idle" => TurnsLeft(t) = 0
BY DEF TurnsLeft

LEMMA NextPlaceTurns ==
  ASSUME NEW t
  PROVE  /\ pc'[t] = "decide" => TurnsLeft(t)' = Candidates + 6
         /\ pc'[t] = "acquire" => TurnsLeft(t)' = Candidates + 5
         /\ pc'[t] = "launch" => TurnsLeft(t)' = Candidates + 4
         /\ pc'[t] = "open" => TurnsLeft(t)' = Candidates + 3
         /\ pc'[t] = "choose" => TurnsLeft(t)' = 1
         /\ pc'[t] \in {"shut", "close"} => TurnsLeft(t)' = Cardinality(closing'[t]) + 1
         /\ pc'[t] = "idle" => TurnsLeft(t)' = 0
BY DEF TurnsLeft

LEMMA TurnsType ==
  ASSUME FetchInv, BrowsersCounted, NEW t \in Threads
  PROVE  TurnsLeft(t) \in Nat
<1>1. Cardinality(closing[t]) \in Nat
  BY ListShort DEF FetchInv, TypeOK
<1>2. pc[t] \in {"idle", "request", "decide", "acquire", "launch", "open",
                 "shut", "choose", "close"}
  BY DEF FetchInv, TypeOK
<1> QED BY <1>1, <1>2, PlaceTurns, CandidatesAssumption

\* A step of thread t that is neither the end of a phase nor the take of a page.
Nearer(t) ==
  /\ phase' = phase /\ todo' = todo
  /\ TurnsLeft(t)' < TurnsLeft(t)
  /\ \A u \in Threads \ {t} : TurnsLeft(u)' = TurnsLeft(u)

LEMMA OthersWait ==
  ASSUME NEW t \in Threads,
         \A u \in Threads \ {t} : pc'[u] = pc[u] /\ closing'[u] = closing[u]
  PROVE  \A u \in Threads \ {t} : TurnsLeft(u)' = TurnsLeft(u)
BY DEF TurnsLeft

\* A step to a later place with an unchanged list of browsers to shut down.
LEMMA LaterPlace ==
  ASSUME FetchInv, NEW t \in Threads, NEW place, Go(t, place),
         UNCHANGED <<phase, todo, closing>>,
         \/ pc[t] = "request" /\ place = "decide"
         \/ pc[t] = "decide" /\ place \in {"acquire", "idle"}
         \/ pc[t] = "acquire" /\ place \in {"launch", "open", "idle"}
         \/ pc[t] = "launch" /\ place = "open"
         \/ pc[t] = "open" /\ place = "choose"
         \/ pc[t] = "choose" /\ place = "idle"
  PROVE  Nearer(t)
<1>1. pc'[t] = place /\ \A u \in Threads \ {t} : pc'[u] = pc[u]
  BY DEF Go, FetchInv, TypeOK
<1>2. \A u \in Threads \ {t} : TurnsLeft(u)' = TurnsLeft(u)
  BY <1>1, OthersWait
<1>3. TurnsLeft(t)' < TurnsLeft(t)
  BY <1>1, PlaceTurns, NextPlaceTurns, CandidatesAssumption
<1> QED BY <1>2, <1>3 DEF Nearer

\* A failure that closes all leaves no more than the browsers there are.
LEMMA TakeAllNearer ==
  ASSUME FetchInv, BrowsersCounted, NEW t \in Threads, TakeAll(t, "shut"),
         UNCHANGED <<phase, todo>>, pc[t] \in {"launch", "open"}
  PROVE  Nearer(t)
<1>1. /\ pc'[t] = "shut" /\ closing'[t] = registered
      /\ \A u \in Threads \ {t} : pc'[u] = pc[u] /\ closing'[u] = closing[u]
  BY DEF TakeAll, Go, FetchInv, TypeOK
<1>2. \A u \in Threads \ {t} : TurnsLeft(u)' = TurnsLeft(u)
  BY <1>1, OthersWait
<1>3. PICK c \in Nat : c = Cardinality(registered) /\ c <= Candidates + 1
  BY ListShort DEF FetchInv, TypeOK
<1>4. TurnsLeft(t)' = c + 1
  BY <1>1, <1>3, NextPlaceTurns
<1>5. TurnsLeft(t) = Candidates + 4 \/ TurnsLeft(t) = Candidates + 3
  BY PlaceTurns
<1> QED BY <1>2, <1>3, <1>4, <1>5, CandidatesAssumption DEF Nearer

LEMMA ShutNearer ==
  ASSUME FetchInv, BrowsersCounted, NEW t \in Threads, NEW i, ShutOne(t, i)
  PROVE  Nearer(t)
<1>1. /\ pc[t] \in {"shut", "close"} /\ i \in closing[t] /\ pc' = pc
      /\ closing'[t] = closing[t] \ {i}
      /\ \A u \in Threads \ {t} : closing'[u] = closing[u]
      /\ phase' = phase /\ todo' = todo
  BY DEF ShutOne, FetchInv, TypeOK, pool
<1>2. \A u \in Threads \ {t} : TurnsLeft(u)' = TurnsLeft(u)
  BY <1>1, OthersWait
<1>3. IsFiniteSet(closing[t])
  BY ListShort DEF FetchInv, TypeOK
<1>4. PICK c \in Nat : c = Cardinality(closing[t])
  BY <1>3, FS_CardinalityType
<1>5. Cardinality(closing'[t]) = c - 1
  BY <1>1, <1>3, <1>4, FS_RemoveElement
<1>6. TurnsLeft(t) = c + 1 /\ TurnsLeft(t)' = (c - 1) + 1
  BY <1>1, <1>4, <1>5, PlaceTurns, NextPlaceTurns
<1> QED BY <1>1, <1>2, <1>6 DEF Nearer

LEMMA ShutEndsNearer ==
  ASSUME FetchInv, NEW t \in Threads, ShutEnds(t)
  PROVE  Nearer(t)
<1>1. /\ pc[t] = "shut" /\ closing[t] = {} /\ closing' = closing /\ pc'[t] = "idle"
      /\ \A u \in Threads \ {t} : pc'[u] = pc[u]
      /\ phase' = phase /\ todo' = todo
  BY DEF ShutEnds, Return, Go, FetchInv, TypeOK
<1>2. \A u \in Threads \ {t} : TurnsLeft(u)' = TurnsLeft(u)
  BY <1>1, OthersWait
<1>3. Cardinality(closing[t]) = 0
  BY <1>1, FS_EmptySet
<1>4. TurnsLeft(t) = 0 + 1 /\ TurnsLeft(t)' = 0
  BY <1>1, <1>3, PlaceTurns, NextPlaceTurns
<1> QED BY <1>1, <1>2, <1>4 DEF Nearer

LEMMA ThreadNearer ==
  ASSUME FetchInv, BrowsersCounted, NEW t \in Threads, Step(t), ~Take(t)
  PROVE  Nearer(t)
<1>1. CASE (\E page \in Answers : Request(t, page))
  <2>1. pc[t] = "request" /\ Go(t, "decide") /\ UNCHANGED <<phase, todo, closing>>
    BY <1>1 DEF Request, resources, pool
  <2> QED BY <2>1, LaterPlace
<1>2. CASE Plain(t) \/ Unavailable(t) \/ ChoosePage(t)
  <2>1. /\ pc[t] \in {"decide", "acquire", "choose"} /\ Go(t, "idle")
        /\ UNCHANGED <<phase, todo, closing>>
    BY <1>2 DEF Plain, Unavailable, ChoosePage, Return, resources
  <2> QED BY <2>1, LaterPlace
<1>3. CASE Render(t)
  <2>1. pc[t] = "decide" /\ Go(t, "acquire") /\ UNCHANGED <<phase, todo, closing>>
    BY <1>3 DEF Render, resources, pool
  <2> QED BY <2>1, LaterPlace
<1>4. CASE Reuse(t)
  <2>1. pc[t] = "acquire" /\ Go(t, "open") /\ UNCHANGED <<phase, todo, closing>>
    BY <1>4 DEF Reuse, resources, pool
  <2> QED BY <2>1, LaterPlace
<1>5. CASE StartDriver(t)
  <2>1. pc[t] = "acquire" /\ Go(t, "launch") /\ UNCHANGED <<phase, todo, closing>>
    BY <1>5 DEF StartDriver, pool
  <2> QED BY <2>1, LaterPlace
<1>6. CASE Launch(t)
  <2>1. pc[t] = "launch" /\ Go(t, "open") /\ UNCHANGED <<phase, todo, closing>>
    BY <1>6 DEF Launch, pool
  <2> QED BY <2>1, LaterPlace
<1>7. CASE LaunchFails(t) \/ BreaksForAll(t)
  <2>1. /\ pc[t] \in {"launch", "open"} /\ TakeAll(t, "shut") /\ UNCHANGED <<phase, todo>>
    BY <1>7 DEF LaunchFails, BreaksForAll, pool
  <2> QED BY <2>1, TakeAllNearer
<1>8. CASE \/ (\E page \in Renderings : Open(t, page)) \/ TimesOut(t) \/ Breaks(t)
  <2>1. pc[t] = "open" /\ Go(t, "choose") /\ UNCHANGED <<phase, todo, closing>>
    BY <1>8 DEF Open, TimesOut, Breaks, resources, pool
  <2> QED BY <2>1, LaterPlace
<1>9. CASE \E i \in 1..Candidates + 1 : ShutOne(t, i)
  BY <1>9, ShutNearer
<1>10. CASE ShutEnds(t)
  BY <1>10, ShutEndsNearer
<1> QED BY <1>1, <1>2, <1>3, <1>4, <1>5, <1>6, <1>7, <1>8, <1>9, <1>10 DEF Step

\* With FetcherNeverStalls the safety half of PipelineEnds: three phases, as
\* many pages as candidates, and a bounded number of steps for each page.
THEOREM FetcherStepsRunOut ==
  Spec => StepsRunOut /\ [](\A t \in Threads : TurnsLeft(t) \in Nat)
<1>1. FetchInv /\ BrowsersCounted /\ [Next]_vars =>
        [\/ PhasesLeft' < PhasesLeft
         \/ PhasesLeft' = PhasesLeft /\ todo' < todo
         \/ /\ PhasesLeft' = PhasesLeft /\ todo' = todo
            /\ \E t \in Threads :
                 /\ TurnsLeft(t)' < TurnsLeft(t)
                 /\ \A u \in Threads \ {t} : TurnsLeft(u)' = TurnsLeft(u)]_vars
  <2> SUFFICES ASSUME FetchInv, BrowsersCounted, Next
               PROVE  \/ PhasesLeft' < PhasesLeft
                      \/ PhasesLeft' = PhasesLeft /\ todo' < todo
                      \/ /\ PhasesLeft' = PhasesLeft /\ todo' = todo
                         /\ \E t \in Threads :
                              /\ TurnsLeft(t)' < TurnsLeft(t)
                              /\ \A u \in Threads \ {t} : TurnsLeft(u)' = TurnsLeft(u)
    OBVIOUS
  <2>1. ASSUME phase' = phase PROVE PhasesLeft' = PhasesLeft
    BY <2>1 DEF PhasesLeft
  <2>2. CASE StartCandidates
    <3>1. phase = "home" /\ phase' = "candidates"
      BY <2>2 DEF StartCandidates
    <3> QED BY <3>1 DEF PhasesLeft
  <2>3. CASE BeginClose
    <3>1. phase = "candidates" /\ phase' = "closing"
      BY <2>3 DEF BeginClose
    <3> QED BY <3>1 DEF PhasesLeft
  <2>4. CASE CloseEnds
    <3>1. phase = "closing" /\ phase' = "closed"
      BY <2>4 DEF CloseEnds, FetchInv, PlaceInv, Threads
    <3> QED BY <3>1 DEF PhasesLeft
  <2>5. ASSUME NEW t \in Threads, Take(t)
        PROVE  PhasesLeft' = PhasesLeft /\ todo' < todo
    <3>1. phase' = phase /\ todo' = todo - 1 /\ todo \in Int
      BY <2>5, CandidatesAssumption DEF Take, FetchInv, TypeOK
    <3> QED BY <2>1, <3>1
  <2>6. ASSUME NEW t \in Threads, Step(t), ~Take(t)
        PROVE  /\ PhasesLeft' = PhasesLeft /\ todo' = todo
               /\ TurnsLeft(t)' < TurnsLeft(t)
               /\ \A u \in Threads \ {t} : TurnsLeft(u)' = TurnsLeft(u)
    <3>1. Nearer(t)
      BY <2>6, ThreadNearer
    <3> QED BY <2>1, <3>1 DEF Nearer
  <2> QED BY <2>2, <2>3, <2>4, <2>5, <2>6 DEF Next
<1>2. FetchInv /\ BrowsersCounted => \A t \in Threads : TurnsLeft(t) \in Nat
  BY TurnsType
<1> QED BY <1>1, <1>2, FetchAlways, InitCounted, CountedStep, PTL DEF Spec, StepsRunOut
=============================================================================
