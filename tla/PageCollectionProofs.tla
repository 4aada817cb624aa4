------------------------- MODULE PageCollectionProofs -------------------------
(***************************************************************************)
(* Proofs about PageCollection, for any links, limits, redirects and any   *)
(* size of the pool.                                                       *)
(*                                                                         *)
(* Each loop owes the next what it has gone through so far: the merge that *)
(* the first URLs of the kinds before are planned and that no others are   *)
(* planned but those of the kind at hand, the pool that each candidate     *)
(* begun is under way or fetched, the last loop that a URL shows the last  *)
(* page that ended there.                                                  *)
(***************************************************************************)
EXTENDS PageCollection, TLAPS, FunctionTheorems, FiniteSetTheorems, SequenceTheorems

Choosing == {"home", "links", "seeds", "probes"}

MergeInv ==
  /\ phase \in Choosing => planned = <<>> /\ turn = 1
  /\ IsInjective(planned) /\ Len(planned) <= MaxTotal
  /\ phase = "merge" =>
       /\ \A t \in 1..Len(PageKinds) : t < turn => First(t) \subseteq Range(planned)
       /\ at <= Len(Offered) /\ \A i \in 1..at : Offered[i] \in Range(planned)
       /\ turn <= Len(PageKinds) => Range(planned) \subseteq UNION {First(s) : s \in 1..turn}

\* Each candidate begun is in a thread or fetched.
PoolInv ==
  /\ phase \in Choosing \cup {"merge"} => running = {} /\ fetched = <<>>
  /\ phase = "fetch" =>
       /\ IsFiniteSet(running) /\ at = Len(fetched) + Cardinality(running)
       /\ at <= Len(planned) /\ running \subseteq {planned[i] : i \in 1..at}
  /\ phase \in {"keep", "done"} => Len(fetched) = Len(planned)

\* Of the home page and the first n pages fetched, the last of a URL is kept.
LastAt(u, i, n) ==
  /\ PageAt(i).url = u /\ pages[u] = PageAt(i).outcome
  /\ \A j \in i + 1..n : PageAt(j).url # u

KeptUpTo(n) ==
  /\ \A i \in 0..n : pages[PageAt(i).url] # "none"
  /\ \A u \in Urls : pages[u] # "none" => \E i \in 0..n : LastAt(u, i, n)

KeepInv ==
  /\ phase \notin {"keep", "done"} => pages = [u \in Urls |-> "none"]
  /\ phase = "keep" => at <= Len(fetched) /\ KeptUpTo(at)
  /\ phase = "done" => KeptUpTo(Len(fetched))

CollectInv == TypeOK /\ MergeInv /\ EveryKindIsSampled /\ PoolInv /\ KeepInv

-----------------------------------------------------------------------------
(* The operators.                                                          *)

LEMMA KindNames ==
  /\ Len(PageKinds) = 4
  /\ \A t \in 1..4 : PageKinds[t] \in Range(PageKinds)
  /\ Range(PageKinds) \subseteq Kinds /\ "probe" \in Kinds
  /\ \A k \in Range(PageKinds) : \E t \in 1..4 : k = PageKinds[t]
<1>1. Len(PageKinds) = 4
  BY DEF PageKinds
<1>2. DOMAIN PageKinds = 1..4
  BY DEF PageKinds
<1>3. \A t \in 1..4 : PageKinds[t] \in Range(PageKinds)
  BY <1>2 DEF Range
<1>4. \A k \in Range(PageKinds) : \E t \in 1..4 : k = PageKinds[t]
  BY <1>2 DEF Range
<1> QED  BY <1>1, <1>3, <1>4 DEF Kinds

\* add_url and merge append a URL that is not there yet.
LEMMA AddUrlFacts ==
  ASSUME NEW S, NEW s \in Seq(S), NEW u \in S
  PROVE  /\ AddUrl(s, u) \in Seq(S)
         /\ Len(AddUrl(s, u)) \in {Len(s), Len(s) + 1}
         /\ u \in Range(AddUrl(s, u)) /\ Range(s) \subseteq Range(AddUrl(s, u))
         /\ Range(AddUrl(s, u)) \subseteq Range(s) \cup {u}
         /\ IsInjective(s) => IsInjective(AddUrl(s, u))
<1>1. CASE u \in Range(s)
  BY <1>1 DEF AddUrl
<1>2. CASE u \notin Range(s)
  <2> DEFINE t == Append(s, u)
  <2>1. AddUrl(s, u) = t
    BY <1>2 DEF AddUrl
  <2>2. t \in Seq(S) /\ Len(t) = Len(s) + 1 /\ t[Len(s) + 1] = u
    OBVIOUS
  <2>3. \A i \in 1..Len(s) : t[i] = s[i]
    OBVIOUS
  <2>4. DOMAIN s = 1..Len(s) /\ DOMAIN t = 1..Len(s) + 1 /\ Len(s) \in Nat
    BY <2>2
  <2>5. u \in Range(t)
    <3>1. Len(s) + 1 \in DOMAIN t
      BY <2>4
    <3> QED  BY <3>1, <2>2 DEF Range
  <2>6. Range(s) \subseteq Range(t)
    <3> SUFFICES ASSUME NEW i \in DOMAIN s PROVE s[i] \in Range(t)
      BY DEF Range
    <3>1. i \in DOMAIN t /\ t[i] = s[i]
      BY <2>3, <2>4
    <3> QED  BY <3>1 DEF Range
  <2>7. ASSUME IsInjective(s) PROVE IsInjective(t)
    <3> SUFFICES ASSUME NEW i \in DOMAIN t, NEW j \in DOMAIN t, t[i] = t[j]
                 PROVE  i = j
      BY DEF IsInjective
    <3>1. \A m \in 1..Len(s) : t[m] # u
      BY <1>2, <2>3, <2>4 DEF Range
    <3>2. i = Len(s) + 1 <=> j = Len(s) + 1
      BY <3>1, <2>2, <2>4
    <3>3. CASE i \in 1..Len(s) /\ j \in 1..Len(s)
      BY <3>3, <2>3, <2>4, <2>7 DEF IsInjective
    <3> QED  BY <3>2, <3>3, <2>4
  <2>8. Range(t) \subseteq Range(s) \cup {u}
    BY <2>2, <2>3, <2>4 DEF Range
  <2> HIDE DEF t
  <2> QED  BY <2>1, <2>2, <2>5, <2>6, <2>7, <2>8
<1> QED  BY <1>1, <1>2

LEMMA SampleFacts ==
  ASSUME NEW S, NEW s \in Seq(S)
  PROVE  /\ Sample(s) \in Seq(S)
         /\ Len(Sample(s)) = IF Len(s) < MaxPerKind THEN Len(s) ELSE MaxPerKind
         /\ \A i \in 1..Len(Sample(s)) : Sample(s)[i] = s[i]
<1> DEFINE n == IF Len(s) < MaxPerKind THEN Len(s) ELSE MaxPerKind
<1>1. n \in 0..Len(s) /\ Sample(s) = SubSeq(s, 1, n)
  BY LimitsAssumption DEF Sample
<1> HIDE DEF n
<1>2. \A i \in 1..n : s[i] \in S
  BY <1>1
<1>3. SubSeq(s, 1, n) = [i \in 1..n |-> s[i]]
  BY <1>1
<1>4. SubSeq(s, 1, n) \in Seq(S) /\ Len(SubSeq(s, 1, n)) = n
  BY <1>1
<1> QED  BY <1>1, <1>3, <1>4 DEF n

LEMMA OfferedFacts ==
  ASSUME TypeOK
  PROVE  /\ Offered \in Seq(Urls)
         /\ turn <= 4 => First(turn) = {Offered[i] : i \in 1..Len(Offered)}
<1>1. turn \in 1..5 /\ kinds \in [Kinds -> Seq(Urls)]
  BY KindNames DEF TypeOK
<1>2. CASE turn = 5
  BY <1>1, <1>2, KindNames DEF Offered
<1>3. CASE turn \in 1..4
  <2>1. kinds[PageKinds[turn]] \in Seq(Urls)
    BY <1>1, <1>3, KindNames
  <2>2. Offered = Sample(kinds[PageKinds[turn]])
    BY <1>3, KindNames DEF Offered
  <2>3. /\ Offered \in Seq(Urls)
        /\ Len(Offered) = IF Len(kinds[PageKinds[turn]]) < MaxPerKind
                          THEN Len(kinds[PageKinds[turn]]) ELSE MaxPerKind
        /\ \A i \in 1..Len(Offered) : Offered[i] = kinds[PageKinds[turn]][i]
    BY <2>1, <2>2, SampleFacts
  <2>4. Len(kinds[PageKinds[turn]]) \in Nat /\ MaxPerKind \in Nat
    BY <2>1, LimitsAssumption
  <2>5. {j \in 1..MaxPerKind : j <= Len(kinds[PageKinds[turn]])} = 1..Len(Offered)
    BY <2>3, <2>4
  <2>6. First(turn) = {Offered[i] : i \in 1..Len(Offered)}
    BY <2>3, <2>5 DEF First
  <2> QED  BY <2>3, <2>6
<1> QED  BY <1>1, <1>2, <1>3

LEMMA AnswersType == ASSUME NEW u \in Urls PROVE Answers(u) \subseteq Page
<1>1. EndsAt[u] \subseteq Urls
  BY HomeAssumption
<1> QED BY <1>1 DEF Answers, Page

-----------------------------------------------------------------------------
(* What a step leaves alone.                                               *)

LEMMA MergeFrame ==
  ASSUME MergeInv, EveryKindIsSampled, UNCHANGED <<phase, at, choice>>
  PROVE  MergeInv' /\ EveryKindIsSampled'
<1>1. phase' = phase /\ at' = at /\ kinds' = kinds /\ turn' = turn /\ planned' = planned
  BY DEF choice
<1>2. Offered' = Offered
  BY <1>1 DEF Offered
<1>3. \A t : First(t)' = First(t)
  BY <1>1 DEF First
<1> QED  BY <1>1, <1>2, <1>3 DEF MergeInv, EveryKindIsSampled

LEMMA PoolFrame ==
  ASSUME PoolInv, UNCHANGED <<planned, fetches>>,
         \/ phase' = phase /\ at' = at
         \/ {phase, phase'} \subseteq Choosing \cup {"merge"}
         \/ {phase, phase'} \subseteq {"keep", "done"}
  PROVE  PoolInv'
<1>1. planned' = planned /\ running' = running /\ fetched' = fetched
  BY DEF fetches
<1> QED  BY <1>1 DEF PoolInv, Choosing

LEMMA KeepFrame ==
  ASSUME KeepInv, UNCHANGED <<home, fetched, pages>>,
         \/ phase' = phase /\ at' = at
         \/ {phase, phase'} \cap {"keep", "done"} = {}
  PROVE  KeepInv'
<1>1. home' = home /\ fetched' = fetched /\ pages' = pages
  OBVIOUS
<1>2. \A i : PageAt(i)' = PageAt(i)
  BY <1>1 DEF PageAt
<1>3. \A n : KeptUpTo(n)' = KeptUpTo(n)
  BY <1>1, <1>2 DEF KeptUpTo, LastAt
<1>4. CASE phase' = phase /\ at' = at
  BY <1>1, <1>3, <1>4 DEF KeepInv
<1>5. CASE {phase, phase'} \cap {"keep", "done"} = {}
  BY <1>1, <1>5 DEF KeepInv
<1> QED  BY <1>4, <1>5

\* A loop that only sorts URLs into kinds plans nothing.
LEMMA BeforeMerge ==
  ASSUME MergeInv, phase \in Choosing, phase' \in Choosing,
         UNCHANGED <<turn, planned>>
  PROVE  MergeInv' /\ EveryKindIsSampled'
<1>1. phase' # "merge" /\ phase' \notin {"fetch", "keep", "done"}
  BY DEF Choosing
<1> QED  BY <1>1 DEF MergeInv, EveryKindIsSampled

LEMMA AfterMerge ==
  ASSUME MergeInv, EveryKindIsSampled, UNCHANGED choice,
         phase \in {"fetch", "keep", "done"}, phase' \in {"fetch", "keep", "done"}
  PROVE  MergeInv' /\ EveryKindIsSampled'
<1>1. kinds' = kinds /\ turn' = turn /\ planned' = planned
  BY DEF choice
<1>2. phase' \notin Choosing /\ phase' # "merge"
  BY DEF Choosing
<1>3. \A t : First(t)' = First(t)
  BY <1>1 DEF First
<1> QED  BY <1>1, <1>2, <1>3 DEF MergeInv, EveryKindIsSampled

-----------------------------------------------------------------------------
(* The steps.                                                              *)

LEMMA HomeKeeps == ASSUME CollectInv, FetchHome PROVE CollectInv'
<1>1. phase = "home" /\ phase' = "links" /\ at' = 0 /\ home' \in Answers(Home)
  BY DEF FetchHome, Enter
<1>2. UNCHANGED <<kinds, turn, planned, running, fetched, pages>>
  BY DEF FetchHome, choice, fetches
<1>3. home' \in Page
  BY <1>1, AnswersType, HomeAssumption
<1>4. links' \in Seq(Link)
  <2>1. CASE links' \in LinkLists
    BY <2>1, LinksAssumption
  <2>2. CASE links' = <<>>
    BY <2>2
  <2> QED  BY <2>1, <2>2 DEF FetchHome
<1>5. TypeOK'
  BY <1>1, <1>2, <1>3, <1>4 DEF CollectInv, TypeOK, Phases
<1>6. MergeInv' /\ EveryKindIsSampled'
  BY <1>1, <1>2, BeforeMerge DEF CollectInv, Choosing
<1>7. PoolInv'
  BY <1>1, <1>2 DEF CollectInv, PoolInv, Choosing
<1>8. KeepInv'
  BY <1>1, <1>2 DEF CollectInv, KeepInv
<1> QED  BY <1>5, <1>6, <1>7, <1>8 DEF CollectInv

LEMMA KindsKeep ==
  ASSUME CollectInv, phase \in Choosing, phase' = phase, at' = at + 1,
         kinds' \in [Kinds -> Seq(Urls)], UNCHANGED <<found, turn, planned, fetches, pages>>
  PROVE  CollectInv'
<1>1. UNCHANGED <<home, links, turn, planned, running, fetched, pages>>
  BY DEF found, fetches
<1>2. TypeOK'
  BY <1>1 DEF CollectInv, TypeOK
<1>3. MergeInv' /\ EveryKindIsSampled'
  BY <1>1, BeforeMerge DEF CollectInv
<1>4. PoolInv'
  BY <1>1 DEF CollectInv, PoolInv, Choosing
<1>5. KeepInv'
  BY <1>1 DEF CollectInv, KeepInv, Choosing
<1> QED  BY <1>2, <1>3, <1>4, <1>5 DEF CollectInv

LEMMA ReadKeeps == ASSUME CollectInv, ReadLink PROVE CollectInv'
<1>1. phase = "links" /\ phase' = phase /\ at' = at + 1 /\ at < Len(links)
  BY DEF ReadLink, Take
<1>2. UNCHANGED <<found, turn, planned, fetches, pages>>
  BY DEF ReadLink
<1>3. kinds \in [Kinds -> Seq(Urls)] /\ at \in Nat /\ links \in Seq(Link)
  BY DEF CollectInv, TypeOK
<1>4. at + 1 \in 1..Len(links)
  BY <1>1, <1>3
<1>5. links[at + 1].url \in Urls
  <2>1. links[at + 1] \in Link
    BY <1>3, <1>4
  <2> QED  BY <2>1 DEF Link
<1> DEFINE link == links[at + 1]
           t(k) == IF k \in link.kinds THEN AddUrl(kinds[k], link.url) ELSE kinds[k]
<1>6. kinds' = [k \in Kinds |-> t(k)]
  BY DEF ReadLink
<1>7. ASSUME NEW k \in Kinds PROVE t(k) \in Seq(Urls)
  <2>1. kinds[k] \in Seq(Urls)
    BY <1>3
  <2>2. AddUrl(kinds[k], link.url) \in Seq(Urls)
    BY <2>1, <1>5, AddUrlFacts
  <2> QED  BY <2>1, <2>2
<1>8. kinds' \in [Kinds -> Seq(Urls)]
  <2> HIDE DEF t
  <2> QED  BY <1>6, <1>7
<1> QED  BY <1>1, <1>2, <1>8, KindsKeep DEF Choosing

LEMMA AddKeeps ==
  ASSUME CollectInv, phase \in Choosing, phase' = phase, at' = at + 1,
         NEW k \in Kinds, NEW u \in Urls, AddTo(k, u)
  PROVE  CollectInv'
<1>1. kinds \in [Kinds -> Seq(Urls)]
  BY DEF CollectInv, TypeOK
<1>2. AddUrl(kinds[k], u) \in Seq(Urls)
  BY <1>1, AddUrlFacts
<1>3. kinds' = [kinds EXCEPT ![k] = AddUrl(kinds[k], u)]
  BY DEF AddTo
<1>4. kinds' \in [Kinds -> Seq(Urls)]
  BY <1>1, <1>2, <1>3
<1>5. UNCHANGED <<found, turn, planned, fetches, pages>>
  BY DEF AddTo
<1> QED  BY <1>4, <1>5, KindsKeep

LEMMA SeedKeeps == ASSUME CollectInv, AddSeed PROVE CollectInv'
<1>1. phase = "seeds" /\ phase' = phase /\ at' = at + 1 /\ at < Len(Seeds)
  BY DEF AddSeed, Take
<1>2. at \in Nat
  BY DEF CollectInv, TypeOK
<1>3. at + 1 \in 1..Len(Seeds)
  BY <1>1, <1>2, SeedsAssumption
<1>4. Seeds[at + 1] \in [url : Urls, kind : Kinds]
  BY <1>3, SeedsAssumption, ElementOfSeq
<1>5. Seeds[at + 1].url \in Urls /\ Seeds[at + 1].kind \in Kinds
  BY <1>4
<1>6. AddTo(Seeds[at + 1].kind, Seeds[at + 1].url)
  BY DEF AddSeed
<1> QED  BY <1>1, <1>5, <1>6, AddKeeps DEF Choosing

LEMMA ProbeKeeps == ASSUME CollectInv, AddProbe PROVE CollectInv'
<1>1. phase = "probes" /\ phase' = phase /\ at' = at + 1 /\ at < Len(Probes)
  BY DEF AddProbe, Take
<1>2. at \in Nat
  BY DEF CollectInv, TypeOK
<1>3. at + 1 \in 1..Len(Probes)
  BY <1>1, <1>2, SeedsAssumption
<1>4. Probes[at + 1] \in Urls
  BY <1>3, SeedsAssumption
<1>5. AddTo("probe", Probes[at + 1])
  BY DEF AddProbe
<1> QED  BY <1>1, <1>4, <1>5, KindNames, AddKeeps DEF Choosing

LEMMA LoopKeeps == ASSUME CollectInv, NextLoop PROVE CollectInv'
<1>1. phase \in Choosing /\ phase' \in {"seeds", "probes", "merge"} /\ at' = 0
  BY DEF NextLoop, Passed, Enter, Choosing
<1>2. UNCHANGED <<home, links, kinds, turn, planned, running, fetched, pages>>
  BY DEF NextLoop, found, choice, fetches
<1>3. TypeOK'
  BY <1>1, <1>2 DEF CollectInv, TypeOK, Phases
<1>4. planned = <<>> /\ turn = 1 /\ IsInjective(planned)
  BY <1>1 DEF CollectInv, MergeInv
<1>5. Offered' = Offered /\ Len(Offered) \in Nat
  <2>1. Offered \in Seq(Urls)
    BY OfferedFacts DEF CollectInv
  <2> QED  BY <1>2, <2>1 DEF Offered
<1>6. Len(planned) = 0 /\ MaxTotal \in Nat
  BY <1>4, LimitsAssumption
<1>7. Range(planned) = {}
  BY <1>4 DEF Range
<1>8. MergeInv'
  BY <1>1, <1>2, <1>4, <1>5, <1>6, <1>7, KindNames DEF MergeInv
<1>9. EveryKindIsSampled'
  BY <1>1 DEF EveryKindIsSampled
<1>10. PoolInv' /\ KeepInv'
  BY <1>1, <1>2 DEF CollectInv, PoolInv, KeepInv, Choosing
<1> QED  BY <1>3, <1>8, <1>9, <1>10 DEF CollectInv

\* The merge touches neither the pool nor the pages.
LEMMA MergePhase ==
  ASSUME CollectInv, phase = "merge", phase' = "merge",
         UNCHANGED <<running, fetched, pages>>
  PROVE  PoolInv' /\ KeepInv' /\ EveryKindIsSampled'
BY DEF CollectInv, PoolInv, KeepInv, EveryKindIsSampled, Choosing

LEMMA MergeKeeps == ASSUME CollectInv, MergeUrl PROVE CollectInv'
<1> DEFINE u == Offered[at + 1]
<1>1. phase = "merge" /\ phase' = "merge" /\ at' = at + 1 /\ at < Len(Offered)
  BY DEF MergeUrl, Take
<1>2. UNCHANGED <<home, links, kinds, turn, running, fetched, pages>>
  BY DEF MergeUrl, found, fetches
<1>3. TypeOK /\ at \in Nat /\ planned \in Seq(Urls) /\ turn \in 1..5 /\ MaxPerKind \in Nat /\ MaxTotal \in Nat
  BY KindNames, LimitsAssumption DEF CollectInv, TypeOK
<1>4. Offered \in Seq(Urls) /\ Offered' = Offered
  BY <1>2, <1>3, OfferedFacts DEF Offered
<1>5. at + 1 \in 1..Len(Offered)
  BY <1>1, <1>3, <1>4
<1>6. u \in Urls
  BY <1>4, <1>5, ElementOfSeq
<1>7. planned' = AddUrl(planned, u)
  BY DEF MergeUrl
<1> HIDE DEF u
<1>8. /\ planned' \in Seq(Urls) /\ Len(planned') \in {Len(planned), Len(planned) + 1}
      /\ u \in Range(planned') /\ Range(planned) \subseteq Range(planned')
      /\ Range(planned') \subseteq Range(planned) \cup {u}
      /\ IsInjective(planned) => IsInjective(planned')
  BY <1>3, <1>6, <1>7, AddUrlFacts
<1>9. TypeOK'
  BY <1>1, <1>2, <1>3, <1>8 DEF TypeOK
<1>10. MergeInv'
  <2>1. /\ IsInjective(planned) /\ Len(planned) <= MaxTotal
        /\ \A t \in 1..4 : t < turn => First(t) \subseteq Range(planned)
        /\ \A i \in 1..at : Offered[i] \in Range(planned)
        /\ turn <= 4 => Range(planned) \subseteq UNION {First(s) : s \in 1..turn}
    BY <1>1, KindNames DEF CollectInv, MergeInv
  <2>2. Len(planned) \in Nat /\ Len(planned) < MaxTotal
    BY <1>3 DEF MergeUrl, Full
  <2>3. IsInjective(planned') /\ Len(planned') <= MaxTotal
    BY <2>1, <2>2, <1>8, <1>3
  <2>0. \A t : First(t)' = First(t)
    BY <1>2 DEF First
  <2>4. \A t \in 1..4 : t < turn => First(t)' \subseteq Range(planned')
    BY <2>0, <2>1, <1>8
  <2>5. \A i \in 1..at + 1 : Offered[i] \in Range(planned')
    <3> SUFFICES ASSUME NEW i \in 1..at + 1 PROVE Offered[i] \in Range(planned')
      OBVIOUS
    <3>1. CASE i \in 1..at
      BY <3>1, <2>1, <1>8
    <3>2. CASE i = at + 1
      BY <3>2, <1>8 DEF u
    <3> QED  BY <3>1, <3>2, <1>3
  <2>6. turn <= 4 => Range(planned') \subseteq UNION {First(s) : s \in 1..turn}
    <3> SUFFICES ASSUME turn <= 4 PROVE Range(planned') \subseteq UNION {First(s) : s \in 1..turn}
      OBVIOUS
    <3>1. u \in First(turn)
      BY <1>3, <1>5, OfferedFacts DEF u
    <3>2. turn \in 1..turn
      BY <1>3
    <3> QED  BY <3>1, <3>2, <2>1, <1>8
  <2>7. at + 1 <= Len(Offered)
    BY <1>5
  <2>8. phase' = "merge" /\ phase' \notin Choosing
    BY <1>1 DEF Choosing
  <2> QED  BY <1>1, <1>2, <1>4, <2>0, <2>3, <2>4, <2>5, <2>6, <2>7, <2>8, KindNames DEF MergeInv
<1> QED  BY <1>1, <1>2, <1>9, <1>10, MergePhase DEF CollectInv

LEMMA NextKindKeeps == ASSUME CollectInv, MergeNextKind PROVE CollectInv'
<1>1. /\ phase = "merge" /\ phase' = "merge" /\ at' = 0 /\ at = Len(Offered)
      /\ turn <= 4 /\ turn' = turn + 1
  BY KindNames DEF MergeNextKind, Passed, Enter
<1>2. UNCHANGED <<home, links, kinds, planned, running, fetched, pages>>
  BY DEF MergeNextKind, found, fetches
<1>3. TypeOK /\ at \in Nat /\ planned \in Seq(Urls) /\ turn \in 1..4 /\ MaxPerKind \in Nat
  BY <1>1, KindNames, LimitsAssumption DEF CollectInv, TypeOK
<1>4. turn' \in 1..5
  BY <1>1, <1>3
<1>5. TypeOK'
  BY <1>1, <1>2, <1>3, <1>4, KindNames DEF TypeOK
<1>6. First(turn) = {Offered[i] : i \in 1..Len(Offered)}
  BY <1>1, <1>3, OfferedFacts
<1>7. \A t : First(t)' = First(t)
  BY <1>2 DEF First
<1>8. /\ IsInjective(planned) /\ Len(planned) <= MaxTotal
      /\ \A t \in 1..4 : t < turn => First(t) \subseteq Range(planned)
      /\ \A i \in 1..at : Offered[i] \in Range(planned)
      /\ Range(planned) \subseteq UNION {First(s) : s \in 1..turn}
  BY <1>1, KindNames DEF CollectInv, MergeInv
<1>9. First(turn) \subseteq Range(planned)
  BY <1>1, <1>6, <1>8
<1>10. \A t \in 1..4 : t < turn' => First(t)' \subseteq Range(planned)
  <2>1. \A t \in 1..4 : t < turn + 1 => t < turn \/ t = turn
    BY <1>3
  <2> QED  BY <2>1, <1>1, <1>7, <1>8, <1>9
<1>11. Range(planned) \subseteq UNION {First(s)' : s \in 1..turn'}
  <2>1. \A s \in 1..turn : s \in 1..turn'
    BY <1>1, <1>3
  <2> QED  BY <2>1, <1>7, <1>8
<1>13. Len(Offered') \in Nat
  <2>1. CASE turn' = 5
    <3>1. Offered' = kinds["probe"]
      BY <2>1, <1>2, KindNames DEF Offered
    <3> QED  BY <3>1, <1>3, KindNames DEF TypeOK
  <2>2. CASE turn' \in 1..4
    <3>1. Offered' = Sample(kinds[PageKinds[turn']])
      BY <2>2, <1>2, KindNames DEF Offered
    <3>2. kinds[PageKinds[turn']] \in Seq(Urls)
      BY <2>2, <1>3, KindNames DEF TypeOK
    <3>3. Sample(kinds[PageKinds[turn']]) \in Seq(Urls)
      BY <3>2, SampleFacts
    <3> QED  BY <3>1, <3>3
  <2> QED  BY <2>1, <2>2, <1>4
<1>14. MergeInv'
  <2>1. phase' \notin Choosing
    BY <1>1 DEF Choosing
  <2> QED  BY <2>1, <1>1, <1>2, <1>8, <1>10, <1>11, <1>13, KindNames DEF MergeInv
<1> QED  BY <1>1, <1>2, <1>5, <1>14, MergePhase DEF CollectInv

\* The merge that is full has taken nothing of the kinds it has not come to.
LEMMA FullMergeSampled ==
  ASSUME CollectInv, EndMerge, NEW t \in 1..4
  PROVE  \/ First(t) \subseteq Range(planned)
         \/ /\ Len(planned) = MaxTotal
            /\ Range(planned) \subseteq UNION {First(s) : s \in 1..t}
<1>1. /\ phase = "merge"
      /\ Len(planned) >= MaxTotal \/ turn > 4
  BY KindNames DEF EndMerge, Full
<1>2. turn \in 1..5 /\ MaxTotal \in Nat /\ Len(planned) \in Nat
  BY KindNames, LimitsAssumption DEF CollectInv, TypeOK
<1>3. /\ \A k \in 1..4 : k < turn => First(k) \subseteq Range(planned)
      /\ turn <= 4 => Range(planned) \subseteq UNION {First(s) : s \in 1..turn}
      /\ Len(planned) <= MaxTotal
  BY <1>1, KindNames DEF CollectInv, MergeInv
<1>4. CASE t < turn
  BY <1>3, <1>4
<1>5. CASE ~(t < turn)
  <2>1. turn <= 4 /\ Len(planned) = MaxTotal
    BY <1>1, <1>2, <1>3, <1>5
  <2>2. \A s \in 1..turn : s \in 1..t
    BY <1>2, <1>5
  <2> QED  BY <2>1, <2>2, <1>3
<1> QED  BY <1>4, <1>5

LEMMA EndMergeKeeps == ASSUME CollectInv, EndMerge PROVE CollectInv'
<1>1. phase = "merge" /\ phase' = "fetch" /\ at' = 0
  BY DEF EndMerge, Enter
<1>2. UNCHANGED <<home, links, kinds, turn, planned, running, fetched, pages>>
  BY DEF EndMerge, found, choice, fetches
<1>3. TypeOK'
  BY <1>1, <1>2 DEF CollectInv, TypeOK, Phases
<1>4. MergeInv'
  BY <1>1, <1>2 DEF CollectInv, MergeInv, Choosing
<1>5. EveryKindIsSampled'
  <2>1. IsInjective(planned) /\ Len(planned) <= MaxTotal
    BY DEF CollectInv, MergeInv
  <2>2. \A t : First(t)' = First(t)
    BY <1>2 DEF First
  <2> QED  BY <1>1, <1>2, <2>1, <2>2, FullMergeSampled, KindNames DEF EveryKindIsSampled
<1>6. PoolInv'
  <2>1. running' = {} /\ fetched' = <<>> /\ Len(planned') \in Nat
    BY <1>1, <1>2 DEF CollectInv, PoolInv, TypeOK
  <2>2. IsFiniteSet(running') /\ Cardinality(running') = 0 /\ Len(fetched') = 0
    BY <2>1, FS_EmptySet
  <2>3. phase' \notin Choosing \cup {"merge"}
    BY <1>1 DEF Choosing
  <2> QED  BY <1>1, <2>1, <2>2, <2>3 DEF PoolInv
<1>7. KeepInv'
  BY <1>1, <1>2 DEF CollectInv, KeepInv
<1> QED  BY <1>3, <1>4, <1>5, <1>6, <1>7 DEF CollectInv

LEMMA StartKeeps == ASSUME CollectInv, StartFetch PROVE CollectInv'
<1> DEFINE u == planned[at + 1]
<1>1. phase = "fetch" /\ phase' = "fetch" /\ at' = at + 1 /\ at < Len(planned)
  BY DEF StartFetch, Take
<1>2. UNCHANGED <<home, links, choice, kinds, turn, planned, fetched, pages>>
  BY DEF StartFetch, found, choice
<1>3. planned \in Seq(Urls) /\ at \in Nat /\ fetched \in Seq(Page)
  BY DEF CollectInv, TypeOK
<1>4. at + 1 \in 1..Len(planned)
  BY <1>1, <1>3
<1>5. u \in Urls
  BY <1>3, <1>4, ElementOfSeq
<1>6. running' = running \cup {u}
  BY DEF StartFetch
<1>7. /\ IsFiniteSet(running) /\ at = Len(fetched) + Cardinality(running)
      /\ running \subseteq {planned[i] : i \in 1..at}
  BY <1>1 DEF CollectInv, PoolInv
<1>8. u \notin running
  <2>1. \A i \in 1..at : planned[i] # u
    BY <1>3, <1>4 DEF CollectInv, MergeInv, IsInjective
  <2> QED  BY <2>1, <1>7
<1>9. TypeOK'
  BY <1>1, <1>2, <1>3, <1>5, <1>6 DEF CollectInv, TypeOK
<1>10. MergeInv' /\ EveryKindIsSampled'
  BY <1>1, <1>2, AfterMerge DEF CollectInv
<1>11. PoolInv'
  <2>1. IsFiniteSet(running') /\ Cardinality(running') = Cardinality(running) + 1
    BY <1>6, <1>7, <1>8, FS_AddElement
  <2>2. Cardinality(running) \in Nat /\ Len(fetched) \in Nat
    BY <1>3, <1>7, FS_CardinalityType
  <2>3. at + 1 = Len(fetched) + Cardinality(running')
    BY <2>1, <2>2, <1>7
  <2>4. running' \subseteq {planned[i] : i \in 1..at + 1}
    <3>1. \A i \in 1..at : i \in 1..at + 1
      BY <1>3
    <3>2. at + 1 \in 1..at + 1
      BY <1>3
    <3> QED  BY <3>1, <3>2, <1>6, <1>7
  <2>5. at + 1 <= Len(planned)
    BY <1>4
  <2>6. phase' \notin Choosing \cup {"merge"}
    BY <1>1 DEF Choosing
  <2> QED  BY <1>1, <1>2, <2>1, <2>3, <2>4, <2>5, <2>6 DEF PoolInv
<1>12. KeepInv'
  BY <1>1, <1>2 DEF CollectInv, KeepInv
<1> QED  BY <1>9, <1>10, <1>11, <1>12 DEF CollectInv

LEMMA EndKeeps ==
  ASSUME CollectInv, NEW u \in Urls, NEW page \in Answers(u), EndFetch(u, page)
  PROVE  CollectInv'
<1>1. phase = "fetch" /\ phase' = "fetch" /\ at' = at
  BY DEF EndFetch
<1>2. UNCHANGED <<home, links, choice, kinds, turn, planned, pages>>
  BY DEF EndFetch, found, choice
<1>3. u \in running /\ running' = running \ {u} /\ fetched' = Append(fetched, page)
  BY DEF EndFetch
<1>4. page \in Page /\ fetched \in Seq(Page) /\ at \in Nat
  BY AnswersType DEF CollectInv, TypeOK
<1>5. fetched' \in Seq(Page) /\ Len(fetched') = Len(fetched) + 1
  BY <1>3, <1>4
<1>6. TypeOK'
  BY <1>1, <1>2, <1>3, <1>5 DEF CollectInv, TypeOK
<1>7. MergeInv' /\ EveryKindIsSampled'
  BY <1>1, <1>2, AfterMerge DEF CollectInv
<1>8. PoolInv'
  <2>1. /\ IsFiniteSet(running) /\ at = Len(fetched) + Cardinality(running)
        /\ at <= Len(planned) /\ running \subseteq {planned[i] : i \in 1..at}
    BY <1>1 DEF CollectInv, PoolInv
  <2>2. IsFiniteSet(running') /\ Cardinality(running') = Cardinality(running) - 1
    BY <1>3, <2>1, FS_RemoveElement
  <2>3. Cardinality(running) \in Nat /\ Len(fetched) \in Nat
    BY <1>4, <2>1, FS_CardinalityType
  <2>4. at = Len(fetched') + Cardinality(running')
    BY <2>1, <2>2, <2>3, <1>5
  <2>5. phase' \notin Choosing \cup {"merge"}
    BY <1>1 DEF Choosing
  <2> QED  BY <1>1, <1>2, <1>3, <2>1, <2>2, <2>4, <2>5 DEF PoolInv
<1>9. KeepInv'
  BY <1>1, <1>2 DEF CollectInv, KeepInv
<1> QED  BY <1>6, <1>7, <1>8, <1>9 DEF CollectInv

LEMMA KeepHomeKeeps == ASSUME CollectInv, KeepHome PROVE CollectInv'
<1>1. phase = "fetch" /\ phase' = "keep" /\ at' = 0 /\ at = Len(planned) /\ running = {}
  BY DEF KeepHome, Passed, Enter
<1>2. UNCHANGED <<home, links, choice, kinds, turn, planned, running, fetched>>
  BY DEF KeepHome, found, choice, fetches
<1>3. home \in Page /\ fetched \in Seq(Page)
  BY DEF CollectInv, TypeOK
<1>4. home.url \in Urls /\ home.outcome \in Outcomes
  BY <1>3 DEF Page
<1>5. pages = [v \in Urls |-> "none"]
  BY <1>1 DEF CollectInv, KeepInv
<1>6. pages' = [v \in Urls |-> IF v = home.url THEN home.outcome ELSE "none"]
  BY <1>5 DEF KeepHome, Keep
<1>7. TypeOK'
  BY <1>1, <1>2, <1>4, <1>6 DEF CollectInv, TypeOK, Phases
<1>8. MergeInv' /\ EveryKindIsSampled'
  BY <1>1, <1>2, AfterMerge DEF CollectInv
<1>9. PoolInv'
  <2>1. at = Len(fetched) + Cardinality(running)
    BY <1>1 DEF CollectInv, PoolInv
  <2>2. Cardinality(running) = 0
    BY <1>1, FS_EmptySet
  <2>3. Len(fetched) = Len(planned)
    BY <2>1, <2>2, <1>1, <1>3
  <2>4. phase' \notin Choosing \cup {"merge", "fetch"}
    BY <1>1 DEF Choosing
  <2> QED  BY <2>3, <2>4, <1>2 DEF PoolInv
<1>10. KeepInv'
  <2>1. PageAt(0)' = home
    BY <1>2 DEF PageAt
  <2>2. home.outcome # "none"
    BY <1>4 DEF Outcomes
  <2>3. pages'[home.url] # "none"
    BY <1>4, <1>6, <2>2
  <2>4. \A i \in 0..0 : i = 0
    OBVIOUS
  <2>5. ASSUME NEW v \in Urls, pages'[v] # "none" PROVE LastAt(v, 0, 0)'
    <3>1. v = home.url /\ pages'[v] = home.outcome
      BY <2>5, <1>6
    <3>2. \A j \in 0 + 1..0 : FALSE
      OBVIOUS
    <3> QED  BY <3>1, <3>2, <2>1 DEF LastAt
  <2>6. KeptUpTo(0)'
    BY <2>1, <2>3, <2>4, <2>5 DEF KeptUpTo
  <2>7. Len(fetched') \in Nat
    BY <1>2, <1>3
  <2> QED  BY <1>1, <2>6, <2>7 DEF KeepInv
<1> QED  BY <1>7, <1>8, <1>9, <1>10 DEF CollectInv

LEMMA KeepPageKeeps == ASSUME CollectInv, KeepPage PROVE CollectInv'
<1> DEFINE page == fetched[at + 1]
<1>1. phase = "keep" /\ phase' = "keep" /\ at' = at + 1 /\ at < Len(fetched)
  BY DEF KeepPage, Take
<1>2. UNCHANGED <<home, links, choice, kinds, turn, planned, running, fetched>>
  BY DEF KeepPage, found, choice, fetches
<1>3. /\ fetched \in Seq(Page) /\ at \in Nat /\ home \in Page
      /\ pages \in [Urls -> Outcomes \cup {"none"}]
  BY DEF CollectInv, TypeOK
<1>4. at + 1 \in 1..Len(fetched)
  BY <1>1, <1>3
<1>5. page \in Page
  BY <1>3, <1>4, ElementOfSeq
<1>6. page.url \in Urls /\ page.outcome \in Outcomes
  BY <1>5 DEF Page
<1>7. pages' = [pages EXCEPT ![page.url] = page.outcome]
  BY DEF KeepPage, Keep
<1>8. PageAt(at + 1) = page /\ \A i : PageAt(i)' = PageAt(i)
  BY <1>2, <1>3 DEF PageAt
<1> HIDE DEF page
<1>9. pages'[page.url] = page.outcome /\ \A v \in Urls : v # page.url => pages'[v] = pages[v]
  BY <1>3, <1>6, <1>7
<1>10. TypeOK'
  <2>1. pages' \in [Urls -> Outcomes \cup {"none"}]
    BY <1>3, <1>6, <1>7
  <2> QED  BY <2>1, <1>1, <1>2, <1>3 DEF CollectInv, TypeOK
<1>11. MergeInv' /\ EveryKindIsSampled'
  BY <1>1, <1>2, AfterMerge DEF CollectInv
<1>12. PoolInv'
  BY <1>1, <1>2 DEF CollectInv, PoolInv, Choosing
<1>13. KeptUpTo(at)
  BY <1>1 DEF CollectInv, KeepInv
<1>14. page.outcome # "none"
  BY <1>6 DEF Outcomes
<1>15. PICK n \in Nat : n = at + 1
  BY <1>3
<1>16. \A i \in 0..n : pages'[PageAt(i).url] # "none"
  <2> SUFFICES ASSUME NEW i \in 0..n PROVE pages'[PageAt(i).url] # "none"
    OBVIOUS
  <2>1. CASE PageAt(i).url = page.url
    BY <2>1, <1>9, <1>14
  <2>2. CASE PageAt(i).url # page.url
    <3>1. i \in 0..at
      BY <2>2, <1>3, <1>8, <1>15
    <3>2. PageAt(i) \in Page
      <4>1. CASE i = 0
        BY <4>1, <1>3 DEF PageAt
      <4>2. CASE i # 0
        <5>1. i \in 1..Len(fetched) /\ PageAt(i) = fetched[i]
          BY <3>1, <4>2, <1>1, <1>3 DEF PageAt
        <5> QED  BY <5>1, <1>3, ElementOfSeq
      <4> QED  BY <4>1, <4>2
    <3>3. PageAt(i).url \in Urls
      BY <3>2 DEF Page
    <3> QED  BY <2>2, <3>1, <3>3, <1>9, <1>13 DEF KeptUpTo
  <2> QED  BY <2>1, <2>2
<1>17. ASSUME NEW v \in Urls, pages'[v] # "none"
       PROVE  \E i \in 0..n : LastAt(v, i, n)'
  <2>1. CASE v = page.url
    <3>1. n \in 0..n /\ \A j \in n + 1..n : FALSE
      BY <1>15
    <3>2. LastAt(v, n, n)'
      BY <2>1, <3>1, <1>2, <1>8, <1>9, <1>15 DEF LastAt
    <3> QED  BY <3>1, <3>2
  <2>2. CASE v # page.url
    <3>1. pages'[v] = pages[v]
      BY <2>2, <1>9
    <3>2. PICK i \in 0..at : LastAt(v, i, at)
      BY <3>1, <1>13, <1>17 DEF KeptUpTo
    <3>3. i \in 0..n /\ \A j \in i + 1..n : j \in i + 1..at \/ j = n
      BY <1>3, <1>15
    <3>4. \A j \in i + 1..n : PageAt(j).url # v
      BY <3>2, <3>3, <2>2, <1>8, <1>15 DEF LastAt
    <3>5. LastAt(v, i, n)'
      BY <3>1, <3>2, <3>4, <1>8 DEF LastAt
    <3> QED  BY <3>3, <3>5
  <2> QED  BY <2>1, <2>2
<1>18. KeptUpTo(n)'
  BY <1>8, <1>16, <1>17 DEF KeptUpTo
<1>19. KeepInv'
  <2>1. at' = n /\ n <= Len(fetched')
    BY <1>1, <1>2, <1>4, <1>15
  <2>2. KeptUpTo(at)'
    BY <2>1, <1>18
  <2> QED  BY <2>1, <2>2, <1>1 DEF KeepInv
<1> QED  BY <1>10, <1>11, <1>12, <1>19 DEF CollectInv

LEMMA KeptKeeps == ASSUME CollectInv, PagesKept PROVE CollectInv'
<1>1. phase = "keep" /\ phase' = "done" /\ at' = 0 /\ at = Len(fetched)
  BY DEF PagesKept, Passed, Enter
<1>2. UNCHANGED <<home, links, choice, kinds, turn, planned, fetches, running, fetched, pages>>
  BY DEF PagesKept, found, choice, fetches
<1>3. TypeOK'
  BY <1>1, <1>2 DEF CollectInv, TypeOK, Phases
<1>4. MergeInv' /\ EveryKindIsSampled'
  BY <1>1, <1>2, AfterMerge DEF CollectInv
<1>5. PoolInv'
  BY <1>1, <1>2 DEF CollectInv, PoolInv, Choosing
<1>6. KeepInv'
  <2>1. KeptUpTo(Len(fetched))
    BY <1>1 DEF CollectInv, KeepInv
  <2>2. \A i : PageAt(i)' = PageAt(i)
    BY <1>2 DEF PageAt
  <2>3. KeptUpTo(Len(fetched))'
    BY <1>2, <2>1, <2>2 DEF KeptUpTo, LastAt
  <2> QED  BY <1>1, <2>3 DEF KeepInv
<1> QED  BY <1>3, <1>4, <1>5, <1>6 DEF CollectInv

LEMMA InitCollect == Init => CollectInv
<1> SUFFICES ASSUME Init PROVE CollectInv
  OBVIOUS
<1>1. TypeOK
  <2>1. home \in Page
    BY HomeAssumption DEF Init, Page, Outcomes
  <2>2. kinds \in [Kinds -> Seq(Urls)] /\ links \in Seq(Link)
    BY DEF Init
  <2>3. turn \in 1..Len(PageKinds) + 1
    BY KindNames DEF Init
  <2> QED  BY <2>1, <2>2, <2>3 DEF Init, TypeOK, Phases
<1>2. MergeInv
  <2>1. IsInjective(<<>>) /\ Len(planned) = 0
    BY DEF IsInjective, Init
  <2> QED  BY <2>1, LimitsAssumption DEF Init, MergeInv
<1>3. EveryKindIsSampled /\ PoolInv /\ KeepInv
  BY DEF Init, EveryKindIsSampled, PoolInv, KeepInv
<1> QED  BY <1>1, <1>2, <1>3 DEF CollectInv

LEMMA NextCollect == CollectInv /\ [Next]_vars => CollectInv'
<1> SUFFICES ASSUME CollectInv, [Next]_vars PROVE CollectInv'
  OBVIOUS
<1>1. CASE UNCHANGED vars
  <2>1. UNCHANGED <<phase, at, home, links, choice, kinds, turn, planned, fetches, running, fetched, pages>>
    BY <1>1 DEF vars, found, choice, fetches
  <2>2. TypeOK'
    BY <2>1 DEF CollectInv, TypeOK
  <2>3. MergeInv' /\ EveryKindIsSampled'
    BY <2>1, MergeFrame DEF CollectInv
  <2>4. PoolInv'
    BY <2>1, PoolFrame DEF CollectInv
  <2>5. KeepInv'
    BY <2>1, KeepFrame DEF CollectInv
  <2> QED  BY <2>2, <2>3, <2>4, <2>5 DEF CollectInv
<1>2. CASE Step
  BY <1>2, HomeKeeps, ReadKeeps, SeedKeeps, ProbeKeeps, LoopKeeps, MergeKeeps, NextKindKeeps,
     EndMergeKeeps, StartKeeps, EndKeeps, KeepHomeKeeps, KeepPageKeeps, KeptKeeps DEF Step
<1> QED  BY <1>1, <1>2 DEF Next, Finished

LEMMA CollectAlways == Spec => []CollectInv
BY InitCollect, NextCollect, PTL DEF Spec

-----------------------------------------------------------------------------
(* The theorems.                                                           *)

\* The collection of pages is well typed.
THEOREM CollectTypes == Spec => []TypeOK
<1>1. CollectInv => TypeOK
  BY DEF CollectInv
<1> QED  BY <1>1, CollectAlways, PTL

\* Whatever the limits, the order of the home page's links and the kinds a link
\* is of: the first URLs of a kind are among the candidates, each once, unless the
\* limit in all is reached with first URLs of kinds that are not behind it.
THEOREM KindsAreSampled == Spec => []EveryKindIsSampled
<1>1. CollectInv => EveryKindIsSampled
  BY DEF CollectInv
<1> QED  BY <1>1, CollectAlways, PTL

\* The pool leaves no candidate out and fetches none twice: what is kept is
\* chosen from as many pages as there are candidates.
THEOREM CandidatesAreFetched ==
  Spec => [](phase \in {"keep", "done"} => Len(fetched) = Len(planned))
<1>1. CollectInv => (phase \in {"keep", "done"} => Len(fetched) = Len(planned))
  BY DEF CollectInv, PoolInv
<1> QED  BY <1>1, CollectAlways, PTL

\* Whatever the order in which the threads of the pool end, a page is lost to
\* a later one of its own URL only.
THEOREM LostToOwnUrl == Spec => []LostOnlyToOwnUrl
<1>1. CollectInv => LostOnlyToOwnUrl
  <2> SUFFICES ASSUME CollectInv, phase = "done", NEW i \in 0..Len(fetched),
                      pages[PageAt(i).url] # PageAt(i).outcome
               PROVE  \E j \in i + 1..Len(fetched) : PageAt(j).url = PageAt(i).url
    BY DEF LostOnlyToOwnUrl, CollectInv, KeepInv, KeptUpTo
  <2>1. KeptUpTo(Len(fetched)) /\ fetched \in Seq(Page) /\ home \in Page
    BY DEF CollectInv, KeepInv, TypeOK
  <2>2. PageAt(i) \in Page
    <3>1. CASE i = 0
      BY <3>1, <2>1 DEF PageAt
    <3>2. CASE i \in 1..Len(fetched)
      BY <3>2, <2>1, ElementOfSeq DEF PageAt
    <3> QED  BY <3>1, <3>2, <2>1
  <2>3. PageAt(i).url \in Urls /\ pages[PageAt(i).url] # "none"
    BY <2>1, <2>2 DEF Page, KeptUpTo
  <2>4. PICK j \in 0..Len(fetched) : LastAt(PageAt(i).url, j, Len(fetched))
    BY <2>1, <2>3 DEF KeptUpTo
  <2>5. j # i
    BY <2>4 DEF LastAt
  <2>6. ~(i \in j + 1..Len(fetched))
    BY <2>4 DEF LastAt
  <2>7. j \in i + 1..Len(fetched)
    BY <2>1, <2>5, <2>6
  <2> QED  BY <2>4, <2>7 DEF LastAt
<1> QED  BY <1>1, CollectAlways, PTL

\* The outcomes of pages at URLs of their own, counted by URL and by fetch.
LEMMA CountsByUrl ==
  ASSUME CollectInv, phase = "done", NEW o \in Outcomes,
         \A i, j \in DOMAIN fetched : fetched[i].url = fetched[j].url => i = j,
         \A i \in DOMAIN fetched : fetched[i].url # home.url
  PROVE  /\ IsFiniteSet({i \in DOMAIN fetched : fetched[i].outcome = o})
         /\ Count(o) = Cardinality({i \in DOMAIN fetched : fetched[i].outcome = o})
<1> DEFINE D == {i \in DOMAIN fetched : fetched[i].outcome = o}
           U == {u \in OtherUrls : pages[u] = o}
           f == [i \in D |-> fetched[i].url]
<1>1. fetched \in Seq(Page) /\ KeptUpTo(Len(fetched)) /\ DOMAIN fetched = 1..Len(fetched)
  BY DEF CollectInv, TypeOK, KeepInv
<1>2. \A i \in DOMAIN fetched : fetched[i] \in Page /\ fetched[i].url \in Urls /\ PageAt(i) = fetched[i]
  <2>1. \A i \in 1..Len(fetched) : fetched[i] \in Page
    BY <1>1, ElementOfSeq
  <2>2. \A i \in 1..Len(fetched) : PageAt(i) = fetched[i]
    BY DEF PageAt
  <2>3. \A page \in Page : page.url \in Urls
    BY DEF Page
  <2> QED  BY <2>1, <2>2, <2>3, <1>1
<1>3. IsFiniteSet(D)
  <2>1. IsFiniteSet(DOMAIN fetched)
    BY <1>1, FS_Interval
  <2> QED  BY <2>1, FS_Subset
<1>4. \A i \in DOMAIN fetched : pages[fetched[i].url] = fetched[i].outcome
  <2> SUFFICES ASSUME NEW i \in DOMAIN fetched PROVE pages[fetched[i].url] = fetched[i].outcome
    OBVIOUS
  <2>1. i \in 0..Len(fetched) /\ PageAt(i).url = fetched[i].url
    BY <1>1, <1>2
  <2>2. pages[fetched[i].url] # "none"
    BY <2>1, <1>1 DEF KeptUpTo
  <2>3. PICK j \in 0..Len(fetched) : LastAt(fetched[i].url, j, Len(fetched))
    BY <2>2, <1>1, <1>2 DEF KeptUpTo
  <2>4. PageAt(j).url = fetched[i].url /\ pages[fetched[i].url] = PageAt(j).outcome
    BY <2>3 DEF LastAt
  <2>5. j # 0
    BY <2>4 DEF PageAt
  <2>6. j \in DOMAIN fetched
    BY <2>5, <1>1
  <2>7. fetched[j].url = fetched[i].url
    BY <2>4, <2>6, <1>2
  <2>8. j = i
    BY <2>6, <2>7
  <2> QED  BY <2>4, <2>8, <1>2
<1>5. \A i \in D : fetched[i].url \in U
  <2> SUFFICES ASSUME NEW i \in D PROVE fetched[i].url \in U
    OBVIOUS
  <2>1. i \in DOMAIN fetched /\ pages[fetched[i].url] = o
    BY <1>4
  <2> QED  BY <2>1, <1>2 DEF OtherUrls, Outcomes
<1>6. \A u \in U : \E i \in D : fetched[i].url = u
  <2> SUFFICES ASSUME NEW u \in U PROVE \E i \in D : fetched[i].url = u
    OBVIOUS
  <2>1. u \in Urls /\ u # home.url /\ pages[u] = o /\ pages[u] # "none"
    BY DEF OtherUrls
  <2>2. PICK i \in 0..Len(fetched) : LastAt(u, i, Len(fetched))
    BY <2>1, <1>1 DEF KeptUpTo
  <2>3. PageAt(i).url = u /\ pages[u] = PageAt(i).outcome
    BY <2>2 DEF LastAt
  <2>4. i # 0
    BY <2>1, <2>3 DEF PageAt
  <2>5. i \in DOMAIN fetched
    BY <2>4, <1>1
  <2> QED  BY <2>1, <2>3, <2>5, <1>2
<1>7. f \in Bijection(D, U)
  <2>1. f \in [D -> U]
    BY <1>5
  <2>2. \A i, j \in D : f[i] = f[j] => i = j
    OBVIOUS
  <2>3. \A u \in U : \E i \in D : f[i] = u
    BY <1>6
  <2> HIDE DEF f, D, U
  <2> QED  BY <2>1, <2>2, <2>3, Fun_IsBij
<1>8. Cardinality(U) = Cardinality(D)
  <2> HIDE DEF f, D, U
  <2>1. ExistsBijection(D, U)
    BY <1>7 DEF ExistsBijection
  <2> QED  BY <2>1, <1>3, FS_Bijection
<1> QED  BY <1>3, <1>8 DEF Count

LEMMA ThreeParts ==
  ASSUME NEW A, NEW B, NEW C, IsFiniteSet(A), IsFiniteSet(B), IsFiniteSet(C),
         A \cap B = {}, (A \cup B) \cap C = {}
  PROVE  Cardinality(A) + Cardinality(B) + Cardinality(C) = Cardinality((A \cup B) \cup C)
<1>1. Cardinality({}) = 0
  BY FS_EmptySet
<1>2. Cardinality(A) \in Nat /\ Cardinality(B) \in Nat /\ Cardinality(C) \in Nat
  BY FS_CardinalityType
<1>3. /\ IsFiniteSet(A \cup B)
      /\ Cardinality(A \cup B) = Cardinality(A) + Cardinality(B) - Cardinality(A \cap B)
  BY FS_Union
<1>4. Cardinality((A \cup B) \cup C)
        = Cardinality(A \cup B) + Cardinality(C) - Cardinality((A \cup B) \cap C)
  BY <1>3, FS_Union
<1>5. Cardinality(A \cup B) = Cardinality(A) + Cardinality(B)
  <2>1. Cardinality(A \cap B) = 0
    BY <1>1, Zenon
  <2> QED  BY <2>1, <1>2, <1>3
<1>6. Cardinality((A \cup B) \cap C) = 0
  BY <1>1, Zenon
<1> QED  BY <1>2, <1>4, <1>5, <1>6

\* Refused candidates at URLs of their own are told from one another in the
\* pages that are kept, so a share of 60% of the fetches is 60% of those pages
\* and the site counts as blocked.
THEOREM RefusalsCount == Spec => []RefusalsAreCounted
<1>1. CollectInv => RefusalsAreCounted
  <2> DEFINE D(o) == {i \in DOMAIN fetched : fetched[i].outcome = o}
  <2> SUFFICES ASSUME CollectInv, phase = "done", home.outcome = "denied", Len(fetched) >= 4,
                      IsInjective([i \in DOMAIN fetched |-> fetched[i].url]),
                      \A i \in DOMAIN fetched : fetched[i].url # home.url,
                      10 * Cardinality(D("denied")) >= 6 * Len(fetched)
               PROVE  Blocked
    BY DEF RefusalsAreCounted
  <2>1. fetched \in Seq(Page) /\ DOMAIN fetched = 1..Len(fetched) /\ Len(fetched) \in Nat
    BY DEF CollectInv, TypeOK
  <2>2. \A i, j \in DOMAIN fetched : fetched[i].url = fetched[j].url => i = j
    BY DEF IsInjective
  <2>3. \A o \in Outcomes : IsFiniteSet(D(o)) /\ Count(o) = Cardinality(D(o))
    BY <2>2, CountsByUrl
  <2>4. {"ok", "denied", "failed"} = Outcomes
    BY DEF Outcomes
  <2>5. \A i \in DOMAIN fetched : fetched[i].outcome \in Outcomes
    <3>1. \A i \in 1..Len(fetched) : fetched[i] \in Page
      BY <2>1, ElementOfSeq
    <3>2. \A page \in Page : page.outcome \in Outcomes
      BY DEF Page
    <3> QED  BY <3>1, <3>2, <2>1
  <2>6. /\ D("ok") \cap D("denied") = {}
        /\ (D("ok") \cup D("denied")) \cap D("failed") = {}
        /\ (D("ok") \cup D("denied")) \cup D("failed") = 1..Len(fetched)
    BY <2>1, <2>4, <2>5
  <2>7. Cardinality(1..Len(fetched)) = Len(fetched)
    <3>1. PICK n \in Nat : n = Len(fetched)
      BY <2>1
    <3>2. Cardinality(1..n) = IF 1 > n THEN 0 ELSE n - 1 + 1
      BY FS_Interval
    <3> QED  BY <3>1, <3>2
  <2>8. IsFiniteSet(D("ok")) /\ IsFiniteSet(D("denied")) /\ IsFiniteSet(D("failed"))
    BY <2>3, <2>4
  <2> HIDE DEF D
  <2>9. Cardinality(D("ok")) + Cardinality(D("denied")) + Cardinality(D("failed")) = Len(fetched)
    BY <2>6, <2>7, <2>8, ThreeParts
  <2>10. Count("ok") + Count("denied") + Count("failed") = Len(fetched)
    BY <2>3, <2>4, <2>9
  <2>11. 10 * Count("denied") >= 6 * Len(fetched)
    BY <2>3, <2>4 DEF D
  <2> QED  BY <2>10, <2>11 DEF Blocked, MassDenied, PageCount
<1> QED  BY <1>1, CollectAlways, PTL

-----------------------------------------------------------------------------
(* The step never stalls, part of the safety half of CollectionEnds.       *)

\* The loops CollectInv says nothing of stay within their sequences, too.
LoopInv ==
  /\ phase = "links" => at <= Len(links)
  /\ phase = "seeds" => at <= Len(Seeds)
  /\ phase = "probes" => at <= Len(Probes)

LEMMA LoopStep ==
  ASSUME TypeOK, LoopInv, [Next]_vars
  PROVE  LoopInv'
<1>1. Len(links) \in Nat /\ Len(Seeds) \in Nat /\ Len(Probes) \in Nat /\ at \in Nat
  BY SeedsAssumption DEF TypeOK
<1>2. CASE UNCHANGED vars
  BY <1>2 DEF LoopInv, vars, found
<1>3. CASE FetchHome
  <2>1. phase' = "links" /\ at' = 0 /\ (links' \in LinkLists \/ links' = <<>>)
    BY <1>3 DEF FetchHome, Enter
  <2>2. Len(links') \in Nat
    BY <2>1, LinksAssumption, EmptySeq
  <2> QED BY <2>1, <2>2 DEF LoopInv
<1>4. CASE ReadLink \/ AddSeed \/ AddProbe
  BY <1>1, <1>4 DEF ReadLink, AddSeed, AddProbe, AddTo, Take, found, LoopInv
<1>5. CASE NextLoop
  BY <1>1, <1>5 DEF NextLoop, Passed, Enter, found, LoopInv
<1>6. CASE MergeUrl \/ MergeNextKind \/ EndMerge
  BY <1>6 DEF MergeUrl, MergeNextKind, EndMerge, Take, Enter, LoopInv
<1>7. CASE StartFetch \/ KeepHome \/ KeepPage \/ PagesKept
  BY <1>7 DEF StartFetch, KeepHome, KeepPage, PagesKept, Passed, Take, Enter, LoopInv
<1>8. CASE \E u \in Urls : \E page \in Answers(u) : EndFetch(u, page)
  BY <1>8 DEF EndFetch, LoopInv
<1> QED BY <1>2, <1>3, <1>4, <1>5, <1>6, <1>7, <1>8 DEF Next, Step, Finished

\* No loop runs past what it goes through, and while candidates are left the
\* pool has a fetch under way or a place for one.
THEOREM CollectionNeverStalls == Spec => []NeverStalls
<1>1. Init => LoopInv
  BY DEF Init, LoopInv
<1>2. CollectInv /\ LoopInv => NeverStalls
  <2> SUFFICES ASSUME CollectInv, LoopInv, phase # "done" PROVE CanGo
    BY DEF NeverStalls
  <2>1. CASE phase \in {"home", "links", "seeds", "probes", "merge", "keep"}
    BY <2>1 DEF CollectInv, MergeInv, KeepInv, LoopInv, CanGo
  <2>2. CASE phase = "fetch"
    <3>1. CASE running # {}
      BY <2>2, <3>1 DEF CanGo
    <3>2. CASE running = {}
      <4>1. at <= Len(planned) /\ Len(planned) \in Nat /\ at \in Nat
        BY <2>2 DEF CollectInv, PoolInv, TypeOK
      <4>2. Cardinality(running) = 0
        BY <3>2, FS_EmptySet
      <4>3. Cardinality(running) < PoolSize
        BY <4>2, LimitsAssumption
      <4> QED BY <2>2, <3>2, <4>1, <4>3 DEF CanGo
    <3> QED BY <3>1, <3>2
  <2>3. phase \in Phases
    BY DEF CollectInv, TypeOK
  <2> QED BY <2>1, <2>2, <2>3 DEF Phases
<1>3. CollectInv => TypeOK
  BY DEF CollectInv
<1>4. TypeOK /\ LoopInv /\ [Next]_vars => LoopInv'
  BY LoopStep
<1> QED BY <1>1, <1>2, <1>3, <1>4, CollectAlways, PTL DEF Spec

LEMMA LoopType ==
  ASSUME CollectInv, LoopInv
  PROVE  /\ at \in Nat /\ turn \in 1..5 /\ Len(links) \in Nat /\ Len(planned) \in Nat
         /\ Len(fetched) \in Nat /\ Len(Seeds) \in Nat /\ Len(Probes) \in Nat
         /\ Len(PageKinds) = 4 /\ Len(Offered) \in Nat /\ MaxTotal \in Nat
<1>1. TypeOK
  BY DEF CollectInv
<1>2. /\ links \in Seq(Link) /\ planned \in Seq(Urls) /\ at \in Nat
      /\ turn \in 1..Len(PageKinds) + 1
  BY <1>1 DEF TypeOK
<1>3. Len(PageKinds) = 4
  BY KindNames
<1>4. turn \in 1..5
  BY <1>2, <1>3
<1>5. Len(fetched) \in Nat
  BY <1>1 DEF TypeOK
<1>6. Len(links) \in Nat /\ Len(planned) \in Nat
  BY <1>2
<1>7. Len(Seeds) \in Nat /\ Len(Probes) \in Nat
  BY SeedsAssumption
<1>8. Len(Offered) \in Nat
  BY <1>1, OfferedFacts
<1> QED BY <1>2, <1>3, <1>4, <1>5, <1>6, <1>7, <1>8, LimitsAssumption

\* The number of turns left is never less than none.
LEMMA TurnsType ==
  ASSUME CollectInv, LoopInv
  PROVE  LoopsLeft \in Nat /\ TurnsLeft \in Nat
<1>0. /\ at \in Nat /\ turn \in 1..5 /\ Len(links) \in Nat /\ Len(planned) \in Nat
      /\ Len(fetched) \in Nat /\ Len(Seeds) \in Nat /\ Len(Probes) \in Nat
      /\ Len(PageKinds) = 4 /\ Len(Offered) \in Nat /\ MaxTotal \in Nat
  BY LoopType
<1>1. LoopsLeft \in Nat
  <2>1. phase = "home" => LoopsLeft = 11
    BY <1>0 DEF LoopsLeft
  <2>2. phase = "links" => LoopsLeft = 10
    BY <1>0 DEF LoopsLeft
  <2>3. phase = "seeds" => LoopsLeft = 9
    BY <1>0 DEF LoopsLeft
  <2>4. phase = "probes" => LoopsLeft = 8
    BY <1>0 DEF LoopsLeft
  <2>5. phase = "merge" => LoopsLeft = 8 - turn
    BY <1>0 DEF LoopsLeft
  <2>6. phase = "fetch" => LoopsLeft = 2
    BY DEF LoopsLeft
  <2>7. phase = "keep" => LoopsLeft = 1
    BY DEF LoopsLeft
  <2>8. phase = "done" => LoopsLeft = 0
    BY DEF LoopsLeft
  <2>9. phase \in Phases
    BY DEF CollectInv, TypeOK
  <2> QED BY <1>0, <2>1, <2>2, <2>3, <2>4, <2>5, <2>6, <2>7, <2>8, <2>9 DEF Phases
<1>2. CASE phase \in {"links", "seeds", "probes"}
  <2>1. /\ phase = "links" => at <= Len(links)
        /\ phase = "seeds" => at <= Len(Seeds)
        /\ phase = "probes" => at <= Len(Probes)
    BY DEF LoopInv
  <2>2. /\ phase = "links" => TurnsLeft = Len(links) - at
        /\ phase = "seeds" => TurnsLeft = Len(Seeds) - at
        /\ phase = "probes" => TurnsLeft = Len(Probes) - at
    BY DEF TurnsLeft
  <2> QED BY <1>0, <1>1, <1>2, <2>1, <2>2
<1>3. CASE phase = "merge"
  <2>1. at <= Len(Offered)
    BY <1>3 DEF CollectInv, MergeInv
  <2>2. TurnsLeft = Len(Offered) - at
    BY <1>3 DEF TurnsLeft
  <2> QED BY <1>0, <1>1, <2>1, <2>2
<1>4. CASE phase = "fetch"
  <2>1. Cardinality(running) \in Nat /\ at <= Len(planned)
    BY <1>4, FS_CardinalityType DEF CollectInv, PoolInv
  <2>2. TurnsLeft = 2 * (Len(planned) - at) + Cardinality(running)
    BY <1>4 DEF TurnsLeft
  <2> QED BY <1>0, <1>1, <2>1, <2>2
<1>5. CASE phase = "keep"
  <2>1. at <= Len(fetched)
    BY <1>5 DEF CollectInv, KeepInv
  <2>2. TurnsLeft = Len(fetched) - at
    BY <1>5 DEF TurnsLeft
  <2> QED BY <1>0, <1>1, <2>1, <2>2
<1>6. CASE phase \in {"home", "done"}
  <2>1. TurnsLeft = 0
    BY <1>6 DEF TurnsLeft
  <2> QED BY <1>1, <2>1
<1>7. phase \in Phases
  BY DEF CollectInv, TypeOK
<1> QED BY <1>1, <1>2, <1>3, <1>4, <1>5, <1>6, <1>7 DEF Phases

\* With the theorem before and CandidatesAreFetched, the safety half of
\* CollectionEnds.
THEOREM CollectionStepsRunOut ==
  Spec => StepsRunOut /\ [](LoopsLeft \in Nat /\ TurnsLeft \in Nat)
<1>1. Init => LoopInv
  BY DEF Init, LoopInv
<1>2. TypeOK /\ LoopInv /\ [Next]_vars => LoopInv'
  BY LoopStep
<1>3. CollectInv /\ LoopInv => LoopsLeft \in Nat /\ TurnsLeft \in Nat
  BY TurnsType
<1>4. CollectInv => TypeOK
  BY DEF CollectInv
<1>5. CollectInv /\ LoopInv /\ [Next]_vars =>
        [phase # "done" =>
           \/ LoopsLeft' < LoopsLeft
           \/ LoopsLeft' = LoopsLeft /\ TurnsLeft' < TurnsLeft]_vars
  <2> SUFFICES ASSUME CollectInv, LoopInv, Step
               PROVE  \/ LoopsLeft' < LoopsLeft
                      \/ LoopsLeft' = LoopsLeft /\ TurnsLeft' < TurnsLeft
    BY DEF Next, Finished
  <2>0. /\ at \in Nat /\ turn \in 1..5 /\ Len(links) \in Nat /\ Len(planned) \in Nat
        /\ Len(fetched) \in Nat /\ Len(Seeds) \in Nat /\ Len(Probes) \in Nat
        /\ Len(PageKinds) = 4 /\ Len(Offered) \in Nat /\ MaxTotal \in Nat
    BY LoopType
  <2>1. CASE FetchHome
    BY <2>1, <2>0 DEF FetchHome, Enter, LoopsLeft
  <2>2. CASE NextLoop
    <3>1. turn' = turn
      BY <2>2 DEF NextLoop, choice
    <3> QED BY <2>2, <3>1, <2>0 DEF NextLoop, Passed, Enter, LoopsLeft
  <2>3. CASE ReadLink \/ AddSeed \/ AddProbe
    <3>1. /\ phase' = phase /\ at' = at + 1 /\ links' = links
          /\ phase \in {"links", "seeds", "probes"}
      BY <2>3 DEF ReadLink, AddSeed, AddProbe, AddTo, Take, found
    <3>2. LoopsLeft' = LoopsLeft
      BY <3>1 DEF LoopsLeft
    <3>3. TurnsLeft' < TurnsLeft
      <4>1. PICK n \in Nat : TurnsLeft = n - at /\ TurnsLeft' = n - (at + 1)
        <5>1. CASE phase = "links"
          BY <2>0, <3>1, <5>1 DEF TurnsLeft
        <5>2. CASE phase = "seeds"
          BY <2>0, <3>1, <5>2 DEF TurnsLeft
        <5>3. CASE phase = "probes"
          BY <2>0, <3>1, <5>3 DEF TurnsLeft
        <5> QED BY <3>1, <5>1, <5>2, <5>3
      <4> QED BY <2>0, <4>1
    <3> QED BY <3>2, <3>3
  <2>4. CASE MergeUrl
    <3>1. /\ phase = "merge" /\ phase' = "merge" /\ at' = at + 1
          /\ turn' = turn /\ kinds' = kinds
      BY <2>4 DEF MergeUrl, Take
    <3>2. Offered' = Offered
      BY <3>1 DEF Offered
    <3>3. TurnsLeft = Len(Offered) - at /\ TurnsLeft' = Len(Offered) - (at + 1)
      BY <3>1, <3>2 DEF TurnsLeft
    <3>4. LoopsLeft' = LoopsLeft
      BY <3>1 DEF LoopsLeft
    <3> QED BY <3>3, <3>4, <2>0
  <2>5. CASE MergeNextKind \/ EndMerge
    BY <2>5, <2>0 DEF MergeNextKind, EndMerge, Passed, Enter, LoopsLeft
  <2>6. CASE StartFetch
    <3>1. /\ phase = "fetch" /\ phase' = "fetch" /\ at' = at + 1 /\ planned' = planned
          /\ running' = running \cup {planned[at + 1]} /\ IsFiniteSet(running)
      BY <2>6 DEF StartFetch, Take, choice, CollectInv, PoolInv
    <3>2. PICK c \in Nat : c = Cardinality(running)
      BY <3>1, FS_CardinalityType
    <3>3. Cardinality(running') = c \/ Cardinality(running') = c + 1
      BY <3>1, <3>2, FS_AddElement
    <3>4. PICK d \in Nat : d = Cardinality(running') /\ d <= c + 1
      BY <3>3
    <3>5. /\ TurnsLeft = 2 * (Len(planned) - at) + c
          /\ TurnsLeft' = 2 * (Len(planned) - (at + 1)) + d
      BY <3>1, <3>2, <3>4 DEF TurnsLeft
    <3>6. LoopsLeft' = LoopsLeft
      BY <3>1 DEF LoopsLeft
    <3> QED BY <3>4, <3>5, <3>6, <2>0
  <2>7. ASSUME NEW u \in Urls, NEW page \in Answers(u), EndFetch(u, page)
        PROVE  LoopsLeft' = LoopsLeft /\ TurnsLeft' < TurnsLeft
    <3>1. /\ phase = "fetch" /\ phase' = "fetch" /\ at' = at /\ planned' = planned
          /\ running' = running \ {u} /\ u \in running /\ IsFiniteSet(running)
      BY <2>7 DEF EndFetch, choice, CollectInv, PoolInv
    <3>2. PICK c \in Nat : c = Cardinality(running)
      BY <3>1, FS_CardinalityType
    <3>3. Cardinality(running') = c - 1
      BY <3>1, <3>2, FS_RemoveElement
    <3>4. /\ TurnsLeft = 2 * (Len(planned) - at) + c
          /\ TurnsLeft' = 2 * (Len(planned) - at) + (c - 1)
      BY <3>1, <3>2, <3>3 DEF TurnsLeft
    <3>5. LoopsLeft' = LoopsLeft
      BY <3>1 DEF LoopsLeft
    <3> QED BY <3>4, <3>5, <2>0
  <2>8. CASE KeepHome \/ PagesKept
    BY <2>8 DEF KeepHome, PagesKept, Passed, Enter, LoopsLeft
  <2>9. CASE KeepPage
    <3>1. phase = "keep" /\ phase' = "keep" /\ at' = at + 1 /\ fetched' = fetched
      BY <2>9 DEF KeepPage, Take, fetches
    <3>2. LoopsLeft' = LoopsLeft
      BY <3>1 DEF LoopsLeft
    <3>3. TurnsLeft = Len(fetched) - at /\ TurnsLeft' = Len(fetched) - (at + 1)
      BY <3>1 DEF TurnsLeft
    <3> QED BY <3>2, <3>3, <2>0
  <2> QED BY <2>1, <2>2, <2>3, <2>4, <2>5, <2>6, <2>7, <2>8, <2>9 DEF Step
<1> QED BY <1>1, <1>2, <1>3, <1>4, <1>5, CollectAlways, PTL DEF Spec, StepsRunOut

=============================================================================
