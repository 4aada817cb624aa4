------------------------------- MODULE LlmCall -------------------------------
(***************************************************************************)
(* One URL on its way through a worker thread: _analyze_one               *)
(* (workers/analyze_task.py) calls AIDetector.detect_and_save              *)
(* (db/site_service.py), which calls GeminiAnalyzer.analyze_website        *)
(* (ai/gemini_analyzer.py), which calls the SDK and retries.               *)
(*                                                                         *)
(* An exception climbs the same frames: tenacity re-raises the last one,   *)
(* _raise_typed_error turns it into a domain exception, detect_and_save    *)
(* lets domain exceptions through and swallows every other one, and the    *)
(* except clauses of _analyze_one choose by class what happens to the      *)
(* site, and by the re-read policy what status is written.                 *)
(***************************************************************************)
EXTENDS ErrorPolicy, SequencesExt

CONSTANTS RawErrors,   \* the exceptions a call of the SDK may raise
          UrlWords,    \* the sets of policy keywords a URL may contain
          Attempts     \* GEMINI_RETRY_ATTEMPTS

ASSUME AttemptsAssumption == Attempts \in Nat \ {0}
ASSUME UrlWordsAssumption == UrlWords \subseteq SUBSET Words

\* The SDK does not know the domain's exceptions, and "TypeError" stands for
\* what completing an answer of another shape raises.
ASSUME RawErrorsAssumption ==
  \A e \in RawErrors :
    /\ e \in [type : STRING, status : STRING, code : Nat \ {NoCode}, words : SUBSET Words]
    /\ e.type \notin DomainClasses \cup {"none", "TypeError"}

VARIABLES
  pc,         \* the frame that runs next
  urlWords,   \* the keywords in the URL being analysed
  seen,       \* the kinds of the failed SDK calls, in order
  exc,        \* the exception in flight
  analysis,   \* what parse_single returned
  marked,     \* the argument of mark_site_status, "unmarked" if not called
  quotaHit,   \* rate_limit_event.set() was called
  result,     \* what _analyze_one returns: was the analysis saved?
  error       \* and its error, NoError for a falsy one

vars == <<pc, urlWords, seen, exc, analysis, marked, quotaHit, result, error>>

NoExc == [type |-> "none", code |-> 0, status |-> "", words |-> {}]
NoError == "no error"
Unmarked == "unmarked"

Init ==
  /\ pc = "generate" /\ seen = <<>> /\ exc = NoExc
  /\ urlWords \in UrlWords
  /\ analysis = "none" /\ marked = Unmarked /\ quotaHit = FALSE
  /\ result = "none" /\ error = NoError

Return(r, e) == pc' = "returned" /\ result' = r /\ error' = e

-----------------------------------------------------------------------------
(* ai/gemini_analyzer.py                                                   *)

\* The factory raises when LLM_PROVIDER, the key or the model is not
\* configured, before any call.
AnalyzerMissing ==
  /\ pc = "generate" /\ seen = <<>>
  /\ Return("none", "message")
  /\ UNCHANGED <<urlWords, seen, exc, analysis, marked, quotaHit>>

\* A call fails: tenacity calls again while the kind is retryable and
\* attempts are left, and re-raises the last exception otherwise.
CallFails(e) ==
  /\ pc = "generate"
  /\ seen' = Append(seen, ClassifyApiError(e))
  /\ IF GetPolicy(e).retryable /\ Len(seen) + 1 < Attempts
     THEN UNCHANGED <<pc, exc>>
     ELSE pc' = "typed" /\ exc' = e
  /\ UNCHANGED <<urlWords, analysis, marked, quotaHit, result, error>>

\* A call answers.  Without a candidate the site is taken to block crawlers;
\* a text that is not JSON gives the default answer, marked parse_failed.  A
\* JSON value of another shape makes the code that completes it raise.
CallAnswers(a) ==
  /\ pc = "generate"
  /\ IF a = "malformed"
     THEN /\ pc' = "detect"
          /\ exc' = [NoExc EXCEPT !.type = "TypeError"]
          /\ UNCHANGED analysis
     ELSE pc' = "validate" /\ analysis' = a /\ UNCHANGED exc
  /\ UNCHANGED <<urlWords, seen, marked, quotaHit, result, error>>

Answers == {"blocked", "parse failed", "invalid", "valid", "malformed"}

RaiseTyped ==
  /\ pc = "typed"
  /\ exc' = TypedError(exc, urlWords)
  /\ pc' = "detect"
  /\ UNCHANGED <<urlWords, seen, analysis, marked, quotaHit, result, error>>

-----------------------------------------------------------------------------
(* db/site_service.py                                                      *)

\* A blocked site needs no further fields; any other answer must be complete
\* and in range.
Validated == analysis \in {"blocked", "valid"}

\* Saving may fail (a constraint, the connection): rolled back, None.
Save(committed) ==
  /\ pc = "validate"
  /\ IF Validated /\ committed THEN Return("saved", NoError)
                               ELSE Return("none", "not saved")
  /\ UNCHANGED <<urlWords, seen, exc, analysis, marked, quotaHit>>

\* Domain exceptions are re-raised; all others end here as None.
DetectFails ==
  /\ pc = "detect"
  /\ IF exc.type \in DomainClasses
     THEN pc' = "handle" /\ UNCHANGED <<result, error>>
     ELSE Return("none", "not saved")
  /\ UNCHANGED <<urlWords, seen, exc, analysis, marked, quotaHit>>

-----------------------------------------------------------------------------
(* The except clauses of _analyze_one                                      *)

\* Faulty variant: a timeout counts as an unreachable site.
GoneOrLate == {"SiteUnreachableError", "ApiNotFoundError", "ApiTimeoutError"}

Gone   == {"SiteUnreachableError", "ApiNotFoundError"}
Denied == {"ApiUnauthenticatedError", "ApiPermissionDeniedError",
           "ApiPreconditionError"}

\* The status written is the policy's for the domain exception, read back
\* from its message.
RereadStatus == GetPolicy(exc).site_status

\* The error of a site that is gone is the status itself, and a policy
\* without a status makes it None: the caller then sees no error at all.
HandleGone ==
  /\ pc = "handle" /\ exc.type \in Gone
  /\ marked' = RereadStatus
  /\ Return("none", IF RereadStatus = NULL THEN NoError ELSE RereadStatus)
  /\ UNCHANGED <<urlWords, seen, exc, analysis, quotaHit>>

\* Faulty variant: the error is the status, as for a site that is gone.
HandleDeniedAsGone ==
  /\ pc = "handle" /\ exc.type \in Denied
  /\ marked' = RereadStatus
  /\ Return("none", IF RereadStatus = NULL THEN NoError ELSE RereadStatus)
  /\ UNCHANGED <<urlWords, seen, exc, analysis, quotaHit>>

HandleDenied ==
  /\ pc = "handle" /\ exc.type \in Denied
  /\ marked' = RereadStatus
  /\ Return("none", "message")
  /\ UNCHANGED <<urlWords, seen, exc, analysis, quotaHit>>

\* mark_site_status raises: it read no site, and another session inserted
\* one before it did.  The exception leaves the except clause and the thread.
MarkFails ==
  /\ pc = "handle" /\ exc.type \in Gone \cup Denied
  /\ pc' = "raised"
  /\ UNCHANGED <<urlWords, seen, exc, analysis, marked, quotaHit, result, error>>

\* Faulty variant: the event is not set.
HandleRateLimitSilently ==
  /\ pc = "handle" /\ exc.type = "RateLimitError"
  /\ Return("none", "message")
  /\ UNCHANGED <<urlWords, seen, exc, analysis, marked, quotaHit>>

HandleRateLimit ==
  /\ pc = "handle" /\ exc.type = "RateLimitError"
  /\ quotaHit' = TRUE
  /\ Return("none", "message")
  /\ UNCHANGED <<urlWords, seen, exc, analysis, marked>>

HandleTransient ==
  /\ pc = "handle"
  /\ exc.type \notin Gone \cup Denied \cup {"RateLimitError"}
  /\ Return("none", "message")
  /\ UNCHANGED <<urlWords, seen, exc, analysis, marked, quotaHit>>

Next ==
  \/ AnalyzerMissing
  \/ \E e \in RawErrors : CallFails(e)
  \/ \E a \in Answers : CallAnswers(a)
  \/ RaiseTyped
  \/ \E committed \in BOOLEAN : Save(committed)
  \/ DetectFails
  \/ HandleGone \/ HandleDenied \/ MarkFails
  \/ HandleRateLimit \/ HandleTransient

Spec == Init /\ [][Next]_vars

-----------------------------------------------------------------------------
Returned == pc = "returned"
Kind == Last(seen)              \* the kind of the failure that was final
Failed == seen # <<>> /\ analysis = "none" /\ exc # NoExc
                      /\ exc.type # "TypeError"

\* The frames and values stay within their ranges.
TypeOK ==
  /\ pc \in {"generate", "typed", "detect", "validate", "handle", "returned",
            "raised"}
  /\ urlWords \in UrlWords
  /\ seen \in Seq(ApiErrorKind) /\ Len(seen) <= Attempts
  /\ exc.words \subseteq Words
  /\ analysis \in Answers \cup {"none"}
  /\ marked \in SiteStatus \cup {NULL, Unmarked}
  /\ quotaHit \in BOOLEAN
  /\ result \in {"none", "saved"}
  /\ error \in {NoError, "not saved", "message"} \cup SiteStatus

\* However the two classifications interact and whatever the URL spells, a
\* transient failure never writes to the site: its analysis, if it has one,
\* and its TTL survive a bad minute of the API.
TransientLeavesSite ==
  Failed /\ Kind \in Transient => marked = Unmarked

\* For a URL free of keywords, the second classification writes the status
\* the policy gives the API's error, except for the two kinds whose text or
\* missing class loses the kind (see the violated properties below).
PlainUrlKeepsStatus ==
  Returned /\ Failed /\ urlWords = {} /\ Kind \notin {"precondition", "unknown"}
    => marked = (IF POLICIES[Kind].site_status = NULL THEN Unmarked
                 ELSE POLICIES[Kind].site_status)

\* The event that stops a bulk run is raised for the API's quota error and
\* for no other, also when the URL or an earlier attempt mentions one.
QuotaEventIsQuotaError ==
  Returned => (quotaHit <=> Failed /\ Kind = "rate_limited")

\* The only failure a caller cannot see is that of a gone site whose URL
\* contains a keyword.
OnlyKeywordUrlHidesFailure ==
  Returned /\ result = "none" /\ error = NoError
    => urlWords # {} /\ exc.type \in Gone

-----------------------------------------------------------------------------
(* What the documents say and the code does not do.                        *)

\* ARCHITECTURE.md, the table of API errors: PRECONDITION_FAILED -> blocked.
PreconditionIsBlocked ==
  Returned /\ Failed /\ Kind = "precondition" => marked = "blocked"

\* The same table: UNKNOWN -> failure.
UnknownIsFailure ==
  Returned /\ Failed /\ Kind = "unknown" => marked = "failure"

\* ARCHITECTURE.md, step 4 of the batch: a failure enters failure_map, which
\* the caller does for an error that is not falsy.
FailureIsReported ==
  Returned /\ result = "none" => error # NoError
=============================================================================
