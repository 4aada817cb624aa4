---------------------------- MODULE LlmCallProofs ----------------------------
(***************************************************************************)
(* Proofs about LlmCall and ErrorPolicy, for every set of exceptions the   *)
(* SDK may raise, every set of keywords a URL may contain and every number *)
(* of attempts.                                                            *)
(***************************************************************************)
EXTENDS LlmCall, TLAPS, WellFoundedInduction, SequenceTheorems

-----------------------------------------------------------------------------
(* The classification                                                      *)

LEMMA LeastNat ==
  ASSUME NEW S \in SUBSET Nat, S # {}
  PROVE  Min(S) \in S /\ \A y \in S : Min(S) <= y
<1> DEFINE Less == {ss \in Nat \X Nat : ss[1] < ss[2]}
<1>1. IsWellFoundedOn(Less, Nat)
  BY NatLessThanWellFounded, Zenon DEF OpToRel
<1> HIDE DEF Less
<1>2. PICK x \in S : \A y \in S : ~(<<y, x>> \in Less)
  BY <1>1, WFMin
<1>3. ASSUME NEW y \in S PROVE x <= y
  <2>1. y < x => <<y, x>> \in Less
    BY DEF Less
  <2> QED BY <2>1, <1>2
<1> QED BY <1>3 DEF Min

LEMMA MessagePositions ==
  /\ DOMAIN MessageRules = {1, 2, 3, 4, 5, 6, 7, 8, 9, 10}
  /\ DOMAIN MessageRules \subseteq Nat
<1>1. DOMAIN MessageRules = 1..10
  BY DEF MessageRules
<1> QED BY <1>1

LEMMA MessageTexts ==
  /\ MessageRules[1].words = {"precondition"}
  /\ MessageRules[2].words = {"invalid_argument"}
  /\ MessageRules[3].words = {"not_found", "404"}
  /\ MessageRules[4].words = {"unauthenticated", "401"}
  /\ MessageRules[5].words = {"permission_denied", "403"}
  /\ MessageRules[6].words = {"resource_exhausted", "429"}
  /\ MessageRules[7].words = {"deadline_exceeded", "504", "timed out", "timeout"}
  /\ MessageRules[8].words = {"unavailable", "503"}
  /\ MessageRules[9].words = {"internal", "500"}
  /\ MessageRules[10].words = {"400"}
<1>1. /\ MessageRules[1].words = {"precondition"}
      /\ MessageRules[2].words = {"invalid_argument"}
      /\ MessageRules[3].words = {"not_found", "404"}
      /\ MessageRules[4].words = {"unauthenticated", "401"}
      /\ MessageRules[5].words = {"permission_denied", "403"}
  BY DEF MessageRules
<1>2. /\ MessageRules[6].words = {"resource_exhausted", "429"}
      /\ MessageRules[8].words = {"unavailable", "503"}
      /\ MessageRules[9].words = {"internal", "500"}
      /\ MessageRules[10].words = {"400"}
  BY DEF MessageRules
<1>3. MessageRules[7].words = {"deadline_exceeded", "504", "timed out", "timeout"}
  BY DEF MessageRules
<1> QED BY <1>1, <1>2, <1>3

LEMMA MessageKinds ==
  /\ MessageRules[1].kind = "precondition" /\ MessageRules[2].kind = "unreachable"
  /\ MessageRules[3].kind = "not_found"    /\ MessageRules[4].kind = "auth_error"
  /\ MessageRules[5].kind = "permission"   /\ MessageRules[6].kind = "rate_limited"
  /\ MessageRules[7].kind = "timeout"      /\ MessageRules[8].kind = "unavailable"
  /\ MessageRules[9].kind = "internal"     /\ MessageRules[10].kind = "unreachable"
BY DEF MessageRules

\* The first rule that applies decides, and there is one as soon as any does.
LEMMA FirstOfIsAKind ==
  ASSUME NEW rules, NEW applies \in SUBSET DOMAIN rules, DOMAIN rules \subseteq Nat,
         \A i \in DOMAIN rules : rules[i].kind \in ApiErrorKind,
         NEW default \in ApiErrorKind
  PROVE  FirstOf(rules, applies, default) \in ApiErrorKind
<1>1. applies # {} => Min(applies) \in applies
  BY LeastNat
<1> QED BY <1>1 DEF FirstOf

LEMMA MessageKind ==
  ASSUME NEW words
  PROVE  ClassifyByMessage(words) \in ApiErrorKind
<1>1. \A i \in DOMAIN MessageRules : MessageRules[i].kind \in ApiErrorKind
  BY MessagePositions, MessageKinds DEF ApiErrorKind
<1>2. DOMAIN MessageRules \subseteq Nat
  BY MessagePositions
<1> DEFINE hits == {i \in DOMAIN MessageRules : MessageRules[i].words \cap words # {}}
<1>3. hits \in SUBSET DOMAIN MessageRules /\ "unknown" \in ApiErrorKind
  BY DEF ApiErrorKind
<1>4. FirstOf(MessageRules, hits, "unknown") \in ApiErrorKind
  <2> HIDE DEF hits
  <2> QED BY <1>1, <1>2, <1>3, FirstOfIsAKind
<1> QED BY <1>4 DEF ClassifyByMessage

\* Whatever an exception carries, its kind is one of the policy's.
LEMMA KindOfError ==
  ASSUME NEW e
  PROVE  ClassifyApiError(e) \in ApiErrorKind
<1>1. ClassifyClientError(e) \in ApiErrorKind
  <2>1. DOMAIN ClientRules = {1, 2, 3, 4, 5, 6}
    <3>1. DOMAIN ClientRules = 1..6
      BY DEF ClientRules
    <3> QED BY <3>1
  <2>2. \A i \in DOMAIN ClientRules : ClientRules[i].kind \in ApiErrorKind
    <3>1. /\ ClientRules[1].kind = "unreachable" /\ ClientRules[2].kind = "precondition"
          /\ ClientRules[3].kind = "not_found"   /\ ClientRules[4].kind = "auth_error"
          /\ ClientRules[5].kind = "permission"  /\ ClientRules[6].kind = "rate_limited"
      BY DEF ClientRules
    <3> QED BY <2>1, <3>1 DEF ApiErrorKind
  <2> DEFINE rule == Applies(ClientRules, e)
             other == IF e.code \in 400..499 THEN ClassifyByMessage(e.words) ELSE "unknown"
  <2>3. rule \in SUBSET DOMAIN ClientRules
    BY DEF Applies
  <2>4. other \in ApiErrorKind /\ "precondition" \in ApiErrorKind
    BY MessageKind DEF ApiErrorKind
  <2> HIDE DEF rule, other
  <2>5. FirstOf(ClientRules, rule, other) \in ApiErrorKind
    BY <2>1, <2>2, <2>3, <2>4, FirstOfIsAKind
  <2> QED BY <2>4, <2>5 DEF ClassifyClientError, rule, other
<1>2. ClassifyServerError(e) \in ApiErrorKind
  <2>1. DOMAIN ServerRules = {1, 2, 3}
    <3>1. DOMAIN ServerRules = 1..3
      BY DEF ServerRules
    <3> QED BY <3>1
  <2>2. \A i \in DOMAIN ServerRules : ServerRules[i].kind \in ApiErrorKind
    <3>1. /\ ServerRules[1].kind = "timeout" /\ ServerRules[2].kind = "unavailable"
          /\ ServerRules[3].kind = "internal"
      BY DEF ServerRules
    <3> QED BY <2>1, <3>1 DEF ApiErrorKind
  <2> DEFINE rule == Applies(ServerRules, e)
             other == IF e.code \in 500..599 THEN "internal" ELSE "unknown"
  <2>3. rule \in SUBSET DOMAIN ServerRules
    BY DEF Applies
  <2>4. other \in ApiErrorKind
    BY DEF ApiErrorKind
  <2> HIDE DEF rule, other
  <2>5. FirstOf(ServerRules, rule, other) \in ApiErrorKind
    BY <2>1, <2>2, <2>3, <2>4, FirstOfIsAKind
  <2> QED BY <2>5 DEF ClassifyServerError, rule, other
<1> QED BY <1>1, <1>2, MessageKind DEF ClassifyApiError

\* One rule alone applies to a message that holds nothing but a code.
LEMMA CodeDecides ==
  ASSUME NEW word, NEW n \in DOMAIN MessageRules,
         \A i \in DOMAIN MessageRules : word \in MessageRules[i].words <=> i = n
  PROVE  ClassifyByMessage({word}) = MessageRules[n].kind
<1>1. {i \in DOMAIN MessageRules : MessageRules[i].words \cap {word} # {}} = {n}
  OBVIOUS
<1>2. Min({n}) = n
  <2>1. n \in Nat
    BY MessagePositions
  <2> QED BY <2>1, LeastNat
<1> QED BY <1>1, <1>2 DEF ClassifyByMessage, FirstOf

\* The message of a site that is gone or of a denied access is read back as
\* the kind it was raised for, all but the unfulfilled precondition.
LEMMA CodesReadBack ==
  ASSUME NEW kind \in {"unreachable", "not_found", "auth_error", "permission"}
  PROVE  ClassifyByMessage({MessageCode[kind]}) = kind
<1>1. ClassifyByMessage({"400"}) = "unreachable"
  <2>1. /\ "400" \notin MessageRules[1].words /\ "400" \notin MessageRules[2].words
        /\ "400" \notin MessageRules[3].words /\ "400" \notin MessageRules[4].words
        /\ "400" \notin MessageRules[5].words /\ "400" \notin MessageRules[6].words
        /\ "400" \notin MessageRules[7].words /\ "400" \notin MessageRules[8].words
        /\ "400" \notin MessageRules[9].words /\ "400" \in MessageRules[10].words
    BY MessageTexts
  <2>2. \A i \in DOMAIN MessageRules : "400" \in MessageRules[i].words <=> i = 10
    BY <2>1, MessagePositions
  <2> QED BY <2>2, MessagePositions, MessageKinds, CodeDecides
<1>2. ClassifyByMessage({"404"}) = "not_found"
  <2>1. /\ "404" \notin MessageRules[1].words /\ "404" \notin MessageRules[2].words
        /\ "404" \in MessageRules[3].words /\ "404" \notin MessageRules[4].words
        /\ "404" \notin MessageRules[5].words /\ "404" \notin MessageRules[6].words
        /\ "404" \notin MessageRules[7].words /\ "404" \notin MessageRules[8].words
        /\ "404" \notin MessageRules[9].words /\ "404" \notin MessageRules[10].words
    BY MessageTexts
  <2>2. \A i \in DOMAIN MessageRules : "404" \in MessageRules[i].words <=> i = 3
    BY <2>1, MessagePositions
  <2> QED BY <2>2, MessagePositions, MessageKinds, CodeDecides
<1>3. ClassifyByMessage({"401"}) = "auth_error"
  <2>1. /\ "401" \notin MessageRules[1].words /\ "401" \notin MessageRules[2].words
        /\ "401" \notin MessageRules[3].words /\ "401" \in MessageRules[4].words
        /\ "401" \notin MessageRules[5].words /\ "401" \notin MessageRules[6].words
        /\ "401" \notin MessageRules[7].words /\ "401" \notin MessageRules[8].words
        /\ "401" \notin MessageRules[9].words /\ "401" \notin MessageRules[10].words
    BY MessageTexts
  <2>2. \A i \in DOMAIN MessageRules : "401" \in MessageRules[i].words <=> i = 4
    BY <2>1, MessagePositions
  <2> QED BY <2>2, MessagePositions, MessageKinds, CodeDecides
<1>4. ClassifyByMessage({"403"}) = "permission"
  <2>1. /\ "403" \notin MessageRules[1].words /\ "403" \notin MessageRules[2].words
        /\ "403" \notin MessageRules[3].words /\ "403" \notin MessageRules[4].words
        /\ "403" \in MessageRules[5].words /\ "403" \notin MessageRules[6].words
        /\ "403" \notin MessageRules[7].words /\ "403" \notin MessageRules[8].words
        /\ "403" \notin MessageRules[9].words /\ "403" \notin MessageRules[10].words
    BY MessageTexts
  <2>2. \A i \in DOMAIN MessageRules : "403" \in MessageRules[i].words <=> i = 5
    BY <2>1, MessagePositions
  <2> QED BY <2>2, MessagePositions, MessageKinds, CodeDecides
<1> QED BY <1>1, <1>2, <1>3, <1>4 DEF MessageCode

-----------------------------------------------------------------------------
(* The classes of the domain exceptions                                    *)

GoneKinds   == {"unreachable", "not_found"}
DeniedKinds == {"auth_error", "permission", "precondition"}

LEMMA ClassOfKind ==
  /\ DOMAIN DomainClass = ApiErrorKind \ {"unknown"}
  /\ \A kind \in ApiErrorKind \ {"unknown"} :
       /\ DomainClass[kind] \in DomainClasses
       /\ DomainClass[kind] \in Gone <=> kind \in GoneKinds
       /\ DomainClass[kind] \in Denied <=> kind \in DeniedKinds
       /\ DomainClass[kind] = "RateLimitError" <=> kind = "rate_limited"
       /\ DomainClass[kind] \notin {"ClientError", "ServerError", "TypeError", "none"}
<1>1. DOMAIN DomainClass = ApiErrorKind \ {"unknown"}
  BY DEF DomainClass, ApiErrorKind
<1>2. \A kind \in DOMAIN DomainClass : DomainClass[kind] \in DomainClasses
  BY DEF DomainClasses
<1>3. /\ DomainClass["unreachable"]  = "SiteUnreachableError"
      /\ DomainClass["precondition"] = "ApiPreconditionError"
      /\ DomainClass["not_found"]    = "ApiNotFoundError"
      /\ DomainClass["auth_error"]   = "ApiUnauthenticatedError"
      /\ DomainClass["permission"]   = "ApiPermissionDeniedError"
      /\ DomainClass["rate_limited"] = "RateLimitError"
      /\ DomainClass["timeout"]      = "ApiTimeoutError"
      /\ DomainClass["unavailable"]  = "ApiServerUnavailableError"
      /\ DomainClass["internal"]     = "ApiServerInternalError"
  BY DEF DomainClass
<1> QED BY <1>1, <1>2, <1>3 DEF ApiErrorKind, Gone, Denied, GoneKinds, DeniedKinds

LEMMA CodesAreWords ==
  ASSUME NEW kind \in ApiErrorKind \ {"unknown"}
  PROVE  MessageCode[kind] \in Words
<1>1. MessageCode[kind] \in {"400", "404", "401", "403", "429", "504", "503", "500"}
  BY DEF MessageCode, ApiErrorKind
<1>2. \A i \in {3, 4, 5, 6, 7, 8, 9, 10} : MessageRules[i].words \subseteq Words
  BY MessagePositions DEF Words
<1>3. /\ "404" \in MessageRules[3].words /\ "401" \in MessageRules[4].words
      /\ "403" \in MessageRules[5].words /\ "429" \in MessageRules[6].words
      /\ "504" \in MessageRules[7].words /\ "503" \in MessageRules[8].words
      /\ "500" \in MessageRules[9].words /\ "400" \in MessageRules[10].words
  BY MessageTexts
<1> QED BY <1>1, <1>2, <1>3

LEMMA PolicyOfKind ==
  ASSUME NEW kind \in ApiErrorKind
  PROVE  /\ POLICIES[kind].retryable = (kind \in Transient \cup {"unknown"})
         /\ POLICIES[kind].site_status = PolicyStatus(kind)
         /\ PolicyStatus(kind) \in SiteStatus \cup {NULL}
BY DEF POLICIES, PolicyStatus, ApiErrorKind, Transient, SiteStatus

\* What the second pass reads is a status of the policy, whatever the text.
LEMMA RereadType == RereadStatus \in SiteStatus \cup {NULL}
BY KindOfError, PolicyOfKind DEF RereadStatus, GetPolicy

-----------------------------------------------------------------------------
(* The invariant: what the exception in flight says of the call that       *)
(* failed, frame by frame.                                                 *)

Untouched ==
  /\ analysis = "none" /\ marked = Unmarked /\ quotaHit = FALSE
  /\ result = "none" /\ error = NoError

\* The domain exception for a kind; the kind without a class keeps the SDK's.
DomainError(kind) ==
  [type |-> DomainClass[kind], code |-> 0, status |-> "",
   words |-> {MessageCode[kind]} \cup urlWords]

LEMMA DomainErrorType == \A kind : DomainError(kind).type = DomainClass[kind]
BY DEF DomainError

CarriesKind ==
  /\ seen # <<>>
  /\ IF Kind = "unknown" THEN exc \in RawErrors ELSE exc = DomainError(Kind)

Malformed == exc = [NoExc EXCEPT !.type = "TypeError"]

\* How a call ends that no failure of the API ended.
EndsUnfailed ==
  /\ exc = NoExc \/ Malformed \/ analysis # "none"
  /\ marked = Unmarked /\ quotaHit = FALSE
  /\ result = "none" => error # NoError

EndsFailed ==
  /\ CarriesKind /\ analysis = "none" /\ result = "none"
  /\ marked = IF Kind \in GoneKinds \cup DeniedKinds THEN RereadStatus ELSE Unmarked
  /\ quotaHit = (Kind = "rate_limited")
  /\ error = NoError => Kind \in GoneKinds /\ RereadStatus = NULL

CallInv ==
  /\ pc = "generate" => /\ exc = NoExc /\ Untouched /\ Len(seen) < Attempts
  /\ pc = "typed"    => /\ seen # <<>> /\ exc \in RawErrors /\ Untouched
                        /\ Kind = ClassifyApiError(exc)
  /\ pc = "detect"   => (CarriesKind \/ Malformed) /\ Untouched
  /\ pc = "validate" => /\ exc = NoExc /\ analysis \in Answers /\ marked = Unmarked
                        /\ quotaHit = FALSE
  /\ pc = "handle"   => CarriesKind /\ Kind # "unknown" /\ Untouched
  /\ pc = "raised"   => CarriesKind /\ Untouched
  /\ pc = "returned" => EndsUnfailed \/ EndsFailed

LEMMA LastKind ==
  ASSUME NEW s \in Seq(ApiErrorKind), s # <<>>
  PROVE  Last(s) \in ApiErrorKind
BY DEF Last

\* Without keywords in the URL the text of a domain exception is its code.
LEMMA PlainReread ==
  ASSUME urlWords = {}, exc = DomainError(Kind),
         Kind \in {"unreachable", "not_found", "auth_error", "permission"}
  PROVE  ClassifyApiError(exc) = Kind
<1>1. exc.words = {MessageCode[Kind]} /\ exc.type = DomainClass[Kind]
  BY DEF DomainError
<1>2. exc.type \notin {"ClientError", "ServerError"}
  BY <1>1, ClassOfKind DEF ApiErrorKind
<1> QED BY <1>1, <1>2, CodesReadBack DEF ClassifyApiError

LEMMA InitCall == Init => TypeOK /\ CallInv
<1> SUFFICES ASSUME Init PROVE TypeOK /\ CallInv
  OBVIOUS
<1>1. /\ seen \in Seq(ApiErrorKind) /\ Len(seen) = 0 /\ Len(seen) < Attempts
      /\ Len(seen) <= Attempts
  <2>1. seen = <<>>
    BY DEF Init
  <2> QED BY <2>1, AttemptsAssumption
<1>2. exc = NoExc /\ exc.words \subseteq Words /\ pc = "generate" /\ Untouched
  BY DEF Init, NoExc, Untouched
<1>3. TypeOK
  BY <1>1, <1>2 DEF Init, TypeOK, Untouched
<1>4. CallInv
  BY <1>1, <1>2 DEF CallInv
<1> QED BY <1>3, <1>4

\* A failed call adds its kind and leaves the earlier ones.
LEMMA AppendKind ==
  ASSUME NEW s \in Seq(ApiErrorKind), NEW kind \in ApiErrorKind, NEW t, t = Append(s, kind)
  PROVE  /\ t \in Seq(ApiErrorKind) /\ Len(t) = Len(s) + 1 /\ t # <<>>
         /\ Last(t) = kind /\ \A i \in 1..Len(s) : t[i] = s[i]
BY DEF Last

LEMMA FailStep ==
  ASSUME TypeOK, CallInv, NEW e \in RawErrors, CallFails(e)
  PROVE  TypeOK' /\ CallInv'
<1> DEFINE kind == ClassifyApiError(e)
<1>1. kind \in ApiErrorKind
  BY KindOfError
<1>2. /\ pc = "generate" /\ seen' = Append(seen, kind) /\ seen \in Seq(ApiErrorKind)
      /\ UNCHANGED <<urlWords, analysis, marked, quotaHit, result, error>>
      /\ exc = NoExc /\ Untouched /\ Len(seen) < Attempts /\ Len(seen) \in Nat
  <2>1. /\ pc = "generate" /\ seen' = Append(seen, kind)
        /\ UNCHANGED <<urlWords, analysis, marked, quotaHit, result, error>>
    BY DEF CallFails
  <2>2. seen \in Seq(ApiErrorKind)
    BY DEF TypeOK
  <2>3. Len(seen) \in Nat
    BY <2>2, LenProperties
  <2> QED BY <2>1, <2>2, <2>3 DEF CallInv
<1>3. /\ seen' \in Seq(ApiErrorKind) /\ Len(seen') = Len(seen) + 1 /\ seen' # <<>>
      /\ Kind' = kind /\ \A i \in 1..Len(seen) : seen'[i] = seen[i]
  BY <1>1, <1>2, AppendKind DEF Kind
<1>4. \/ /\ POLICIES[kind].retryable /\ Len(seen') < Attempts
         /\ UNCHANGED <<pc, exc>>
      \/ pc' = "typed" /\ exc' = e
  BY <1>2, <1>3 DEF CallFails, GetPolicy
<1>5. Untouched' /\ Len(seen') <= Attempts
  BY <1>2, <1>3, AttemptsAssumption DEF Untouched
<1>6. exc'.words \subseteq Words
  BY <1>4, RawErrorsAssumption DEF TypeOK
<1>7. TypeOK'
  BY <1>2, <1>3, <1>4, <1>5, <1>6 DEF TypeOK
<1>8. CASE UNCHANGED <<pc, exc>> /\ Len(seen') < Attempts
  BY <1>2, <1>5, <1>7, <1>8 DEF CallInv
<1>9. CASE pc' = "typed" /\ exc' = e
  BY <1>3, <1>5, <1>7, <1>9 DEF CallInv
<1> QED BY <1>4, <1>8, <1>9

LEMMA CallStep ==
  ASSUME TypeOK, CallInv, [Next]_vars
  PROVE  TypeOK' /\ CallInv'
<1>a. seen \in Seq(ApiErrorKind) /\ (seen # <<>> => Kind \in ApiErrorKind)
  BY LastKind DEF TypeOK, Kind
<1>1. CASE AnalyzerMissing
  <2>1. EndsUnfailed'
    BY <1>1 DEF AnalyzerMissing, Return, CallInv, EndsUnfailed, Untouched, NoError
  <2> QED BY <1>1, <2>1 DEF AnalyzerMissing, Return, TypeOK, CallInv
<1>2. ASSUME NEW e \in RawErrors, CallFails(e) PROVE TypeOK' /\ CallInv'
  BY <1>2, FailStep
<1>3. ASSUME NEW a \in Answers, CallAnswers(a) PROVE TypeOK' /\ CallInv'
  <2>1. CASE a = "malformed"
    <3>1. /\ pc' = "detect" /\ exc' = [NoExc EXCEPT !.type = "TypeError"]
          /\ UNCHANGED <<urlWords, seen, analysis, marked, quotaHit, result, error>>
          /\ Untouched
      BY <1>3, <2>1 DEF CallAnswers, CallInv
    <3>2. Malformed' /\ Untouched' /\ exc'.words = {}
      BY <3>1 DEF Malformed, Untouched, NoExc
    <3> QED BY <3>1, <3>2 DEF TypeOK, CallInv
  <2>2. CASE a # "malformed"
    <3>1. /\ pc' = "validate" /\ analysis' = a /\ exc = NoExc
          /\ UNCHANGED <<urlWords, seen, exc, marked, quotaHit, result, error>>
          /\ Untouched
      BY <1>3, <2>2 DEF CallAnswers, CallInv
    <3> QED BY <3>1 DEF TypeOK, CallInv, Untouched
  <2> QED BY <2>1, <2>2
<1>4. CASE RaiseTyped
  <2>1. /\ seen # <<>> /\ exc \in RawErrors /\ Kind = ClassifyApiError(exc)
        /\ exc' = TypedError(exc, urlWords) /\ pc' = "detect" /\ Untouched
        /\ UNCHANGED <<urlWords, seen, analysis, marked, quotaHit, result, error>>
    BY <1>4 DEF RaiseTyped, CallInv
  <2>2. CarriesKind' /\ exc'.words \subseteq Words
    <3>1. CASE Kind = "unknown"
      <4>1. exc' = exc
        BY <2>1, <3>1, ClassOfKind DEF TypedError
      <4> QED BY <2>1, <3>1, <4>1 DEF CarriesKind, Kind, TypeOK
    <3>2. CASE Kind # "unknown"
      <4>1. Kind \in DOMAIN DomainClass
        BY <1>a, <2>1, <3>2, ClassOfKind
      <4>2. exc' = DomainError(Kind)
        BY <2>1, <4>1 DEF TypedError, DomainError
      <4>3. exc'.words \subseteq Words
        <5>1. MessageCode[Kind] \in Words
          BY <1>a, <2>1, <3>2, CodesAreWords
        <5>2. urlWords \subseteq Words
          BY UrlWordsAssumption DEF TypeOK
        <5> QED BY <4>2, <5>1, <5>2 DEF DomainError
      <4> QED BY <2>1, <3>2, <4>2, <4>3 DEF CarriesKind, DomainError, Kind
    <3> QED BY <3>1, <3>2
  <2>3. Untouched'
    BY <2>1 DEF Untouched
  <2> QED BY <2>1, <2>2, <2>3 DEF TypeOK, CallInv
<1>5. ASSUME NEW committed \in BOOLEAN, Save(committed) PROVE TypeOK' /\ CallInv'
  <2>1. /\ pc = "validate" /\ pc' = "returned"
        /\ (result' = "saved" /\ error' = NoError) \/ (result' = "none" /\ error' = "not saved")
        /\ UNCHANGED <<urlWords, seen, exc, analysis, marked, quotaHit>>
    BY <1>5 DEF Save, Return
  <2>2. EndsUnfailed'
    BY <2>1 DEF CallInv, EndsUnfailed, NoError
  <2> QED BY <2>1, <2>2 DEF TypeOK, CallInv
<1>6. CASE DetectFails
  <2>1. /\ CarriesKind \/ Malformed
        /\ Untouched /\ UNCHANGED <<urlWords, seen, exc, analysis, marked, quotaHit>>
    BY <1>6 DEF DetectFails, CallInv
  <2>2. CASE exc.type \in DomainClasses
    <3>1. ~Malformed
      <4>1. "TypeError" \notin DomainClasses
        BY ClassOfKind DEF DomainClasses
      <4> QED BY <2>2, <4>1 DEF Malformed, NoExc
    <3>2. CarriesKind /\ Kind # "unknown"
      BY <2>1, <2>2, <3>1, RawErrorsAssumption DEF CarriesKind
    <3>3. pc' = "handle" /\ UNCHANGED <<result, error>>
      BY <1>6, <2>2 DEF DetectFails
    <3>4. CarriesKind' /\ Kind' # "unknown" /\ Untouched'
      BY <2>1, <3>2, <3>3 DEF CarriesKind, DomainError, Kind, Untouched
    <3> QED BY <2>1, <3>3, <3>4 DEF TypeOK, CallInv
  <2>3. CASE exc.type \notin DomainClasses
    <3>1. pc' = "returned" /\ result' = "none" /\ error' = "not saved"
      BY <1>6, <2>3 DEF DetectFails, Return
    <3>2. CASE Malformed
      <4>1. EndsUnfailed'
        BY <2>1, <3>1, <3>2 DEF EndsUnfailed, Malformed, Untouched, NoError
      <4> QED BY <2>1, <3>1, <4>1 DEF TypeOK, CallInv
    <3>3. CASE CarriesKind
      <4>1. Kind = "unknown"
        <5>1. seen # <<>> /\ Kind \in ApiErrorKind
          BY <1>a, <3>3 DEF CarriesKind
        <5>2. Kind # "unknown" => exc.type = DomainClass[Kind]
          BY <3>3, DomainErrorType DEF CarriesKind
        <5> QED BY <5>1, <5>2, <2>3, ClassOfKind
      <4>2. EndsFailed'
        BY <2>1, <3>1, <3>3, <4>1
        DEF EndsFailed, CarriesKind, DomainError, Kind, Untouched, GoneKinds, DeniedKinds, NoError
      <4> QED BY <2>1, <3>1, <4>2 DEF TypeOK, CallInv
    <3> QED BY <2>1, <3>2, <3>3
  <2> QED BY <2>2, <2>3
<1>7. CASE HandleGone \/ HandleDenied \/ MarkFails \/ HandleRateLimit \/ HandleTransient
  <2>1. /\ pc = "handle" /\ CarriesKind /\ Kind # "unknown" /\ Untouched
        /\ UNCHANGED <<urlWords, seen, exc, analysis>>
    BY <1>7
    DEF CallInv, HandleGone, HandleDenied, MarkFails, HandleRateLimit, HandleTransient
  <2>2. /\ Kind \in ApiErrorKind \ {"unknown"} /\ exc.type = DomainClass[Kind]
        /\ CarriesKind' /\ Kind' = Kind /\ RereadStatus' = RereadStatus
    <3>1. Kind \in ApiErrorKind \ {"unknown"} /\ exc = DomainError(Kind)
      BY <1>a, <2>1 DEF CarriesKind
    <3>2. Kind' = Kind /\ RereadStatus' = RereadStatus
      BY <2>1 DEF Kind, RereadStatus
    <3>3. CarriesKind'
      BY <2>1, <3>2 DEF CarriesKind, DomainError
    <3> QED BY <3>1, <3>2, <3>3 DEF DomainError
  <2>3. CASE MarkFails
    <3>1. pc' = "raised" /\ Untouched'
      BY <2>1, <2>3 DEF MarkFails, Untouched
    <3> QED BY <2>1, <2>2, <3>1 DEF TypeOK, CallInv, Untouched
  <2>4. CASE HandleGone \/ HandleDenied \/ HandleRateLimit \/ HandleTransient
    <3>1. EndsFailed'
      <4>1. CASE HandleGone
        <5>1. Kind \in GoneKinds
          BY <2>2, <4>1, ClassOfKind DEF HandleGone
        <5>2. /\ marked' = RereadStatus /\ result' = "none" /\ UNCHANGED quotaHit
              /\ error' = NoError => RereadStatus = NULL
          BY <4>1, RereadType DEF HandleGone, Return, SiteStatus, NoError
        <5> QED BY <2>1, <2>2, <5>1, <5>2 DEF EndsFailed, Untouched, GoneKinds
      <4>2. CASE HandleDenied
        <5>1. Kind \in DeniedKinds
          BY <2>2, <4>2, ClassOfKind DEF HandleDenied
        <5>2. /\ marked' = RereadStatus /\ result' = "none" /\ UNCHANGED quotaHit
              /\ error' # NoError
          BY <4>2 DEF HandleDenied, Return, NoError
        <5> QED BY <2>1, <2>2, <5>1, <5>2 DEF EndsFailed, Untouched, DeniedKinds
      <4>3. CASE HandleRateLimit
        <5>1. Kind = "rate_limited"
          BY <2>2, <4>3, ClassOfKind DEF HandleRateLimit
        <5> QED BY <2>1, <2>2, <4>3, <5>1
                DEF HandleRateLimit, Return, EndsFailed, Untouched, GoneKinds, DeniedKinds, NoError
      <4>4. CASE HandleTransient
        <5>1. Kind \notin GoneKinds \cup DeniedKinds \cup {"rate_limited"}
          BY <2>2, <4>4, ClassOfKind DEF HandleTransient
        <5> QED BY <2>1, <2>2, <4>4, <5>1
                DEF HandleTransient, Return, EndsFailed, Untouched, NoError
      <4> QED BY <2>4, <4>1, <4>2, <4>3, <4>4
    <3>2. /\ pc' = "returned" /\ result' = "none" /\ quotaHit' \in BOOLEAN
          /\ marked' \in SiteStatus \cup {NULL, Unmarked}
          /\ error' \in {NoError, "message"} \cup SiteStatus
      BY <2>1, <2>4, RereadType
      DEF HandleGone, HandleDenied, HandleRateLimit, HandleTransient, Return, Untouched
    <3> QED BY <2>1, <3>1, <3>2 DEF TypeOK, CallInv
  <2> QED BY <1>7, <2>3, <2>4
<1>8. CASE UNCHANGED vars
  <2>1. /\ CarriesKind' = CarriesKind /\ Malformed' = Malformed /\ Untouched' = Untouched
        /\ EndsUnfailed' = EndsUnfailed /\ EndsFailed' = EndsFailed /\ Kind' = Kind
    BY <1>8
    DEF vars, CarriesKind, DomainError, Malformed, Untouched, EndsUnfailed, EndsFailed, Kind,
        RereadStatus
  <2>2. TypeOK'
    BY <1>8 DEF vars, TypeOK
  <2> QED BY <1>8, <2>1, <2>2 DEF vars, CallInv
<1> QED BY <1>1, <1>2, <1>3, <1>4, <1>5, <1>6, <1>7, <1>8 DEF Next

LEMMA CallInvariant == Spec => [](TypeOK /\ CallInv)
<1>1. TypeOK /\ CallInv /\ [Next]_vars => TypeOK' /\ CallInv'
  BY CallStep
<1> QED BY <1>1, InitCall, PTL DEF Spec

-----------------------------------------------------------------------------
(* Theorems                                                                *)

\* Every reachable state of a call is well typed; it makes no more attempts
\* than GEMINI_RETRY_ATTEMPTS.
THEOREM CallTypes == Spec => []TypeOK
BY CallInvariant, PTL

\* What a failure means for the states in which it is over.
LEMMA FailedState ==
  ASSUME TypeOK, CallInv, Failed
  PROVE  /\ Kind \in ApiErrorKind
         /\ pc = "returned" => EndsFailed
         /\ pc # "returned" => marked = Unmarked
<1>1. Kind \in ApiErrorKind
  BY LastKind DEF TypeOK, Failed, Kind
<1>2. ~EndsUnfailed
  BY DEF Failed, EndsUnfailed, Malformed, NoExc
<1>3. pc # "returned" => marked = Unmarked
  BY DEF TypeOK, CallInv, Untouched
<1> QED BY <1>1, <1>2, <1>3 DEF CallInv

\* A failure that may pass never writes to the row of the site, whatever the
\* URL spells and whichever failures came before it.
THEOREM TransientSpares == Spec => []TransientLeavesSite
<1>1. TypeOK /\ CallInv => TransientLeavesSite
  <2> SUFFICES ASSUME TypeOK, CallInv, Failed, Kind \in Transient
               PROVE  marked = Unmarked
    BY DEF TransientLeavesSite
  <2> QED BY FailedState DEF EndsFailed, Transient, GoneKinds, DeniedKinds
<1> QED BY <1>1, CallInvariant, PTL

\* The event that ends a bulk run is set for the quota error of the API alone,
\* whatever other text mentions one.
THEOREM EventIsQuota == Spec => []QuotaEventIsQuotaError
<1>1. TypeOK /\ CallInv => QuotaEventIsQuotaError
  <2> SUFFICES ASSUME TypeOK, CallInv, Returned
               PROVE  quotaHit <=> Failed /\ Kind = "rate_limited"
    BY DEF QuotaEventIsQuotaError
  <2>1. CASE Failed
    BY <2>1, FailedState DEF Returned, EndsFailed
  <2>2. CASE ~Failed
    <3>1. ~EndsFailed \/ Kind = "unknown"
      <4> SUFFICES ASSUME EndsFailed, Kind # "unknown" PROVE FALSE
        OBVIOUS
      <4>1. seen # <<>> /\ analysis = "none" /\ exc.type = DomainClass[Kind]
        BY DomainErrorType DEF EndsFailed, CarriesKind
      <4>2. Kind \in ApiErrorKind \ {"unknown"}
        BY <4>1, LastKind DEF TypeOK, Kind
      <4>3. exc.type \notin {"TypeError", "none"}
        BY <4>1, <4>2, ClassOfKind
      <4>4. exc # NoExc
        <5>1. NoExc.type = "none"
          BY DEF NoExc
        <5> QED BY <4>3, <5>1
      <4> QED BY <2>2, <4>1, <4>3, <4>4 DEF Failed
    <3> QED BY <2>2, <3>1 DEF CallInv, Returned, EndsUnfailed, EndsFailed
  <2> QED BY <2>1, <2>2
<1> QED BY <1>1, CallInvariant, PTL

\* For a URL without keywords the second classification writes the status the
\* policy gives the API's own error, precondition and unknown apart.
THEOREM PlainUrlStatus == Spec => []PlainUrlKeepsStatus
<1>1. TypeOK /\ CallInv => PlainUrlKeepsStatus
  <2> SUFFICES ASSUME TypeOK, CallInv, Returned, Failed, urlWords = {},
                      Kind \notin {"precondition", "unknown"}
               PROVE  marked = (IF POLICIES[Kind].site_status = NULL THEN Unmarked
                                ELSE POLICIES[Kind].site_status)
    BY DEF PlainUrlKeepsStatus
  <2>1. Kind \in ApiErrorKind \ {"precondition", "unknown"} /\ EndsFailed
    BY FailedState DEF Returned
  <2>2. CASE Kind \in GoneKinds \cup DeniedKinds
    <3>1. Kind \in {"unreachable", "not_found", "auth_error", "permission"}
      BY <2>1, <2>2 DEF GoneKinds, DeniedKinds
    <3>2. ClassifyApiError(exc) = Kind
      BY <2>1, <3>1, PlainReread DEF EndsFailed, CarriesKind
    <3>3. POLICIES[Kind].site_status # NULL
      BY <2>1, <3>1, PolicyOfKind DEF PolicyStatus, NULL, Transient
    <3> QED BY <2>1, <2>2, <3>2, <3>3 DEF EndsFailed, RereadStatus, GetPolicy
  <2>3. CASE Kind \notin GoneKinds \cup DeniedKinds
    <3>1. POLICIES[Kind].site_status = NULL
      BY <2>1, <2>3, PolicyOfKind
      DEF PolicyStatus, ApiErrorKind, GoneKinds, DeniedKinds, Transient
    <3> QED BY <2>1, <2>3, <3>1 DEF EndsFailed
  <2> QED BY <2>2, <2>3
<1> QED BY <1>1, CallInvariant, PTL

\* A failure that its caller cannot see is that of a gone site whose URL holds
\* a keyword, and no other.
THEOREM OnlyKeywordsHide == Spec => []OnlyKeywordUrlHidesFailure
<1>1. TypeOK /\ CallInv => OnlyKeywordUrlHidesFailure
  <2> SUFFICES ASSUME TypeOK, CallInv, Returned, result = "none", error = NoError
               PROVE  urlWords # {} /\ exc.type \in Gone
    BY DEF OnlyKeywordUrlHidesFailure
  <2>1. EndsFailed /\ Kind \in GoneKinds /\ RereadStatus = NULL /\ Kind \in ApiErrorKind
    BY DEF CallInv, Returned, EndsUnfailed, EndsFailed, GoneKinds, ApiErrorKind
  <2>2. Kind # "unknown" /\ exc = DomainError(Kind)
    BY <2>1 DEF EndsFailed, CarriesKind, GoneKinds
  <2>3. exc.type \in Gone
    BY <2>1, <2>2, ClassOfKind DEF DomainError
  <2>4. ASSUME urlWords = {} PROVE FALSE
    <3>1. ClassifyApiError(exc) = Kind
      BY <2>1, <2>2, <2>4, PlainReread DEF GoneKinds
    <3>2. POLICIES[Kind].site_status = "unreachable"
      <4>1. PolicyStatus(Kind) = "unreachable"
        BY <2>1 DEF PolicyStatus, GoneKinds, Transient
      <4> QED BY <2>1, <4>1, PolicyOfKind
    <3> QED BY <2>1, <3>1, <3>2 DEF RereadStatus, GetPolicy, NULL
  <2> QED BY <2>3, <2>4
<1> QED BY <1>1, CallInvariant, PTL
=============================================================================
