----------------------------- MODULE ErrorPolicy -----------------------------
(***************************************************************************)
(* core/error_policy.py and the exception table of ai/gemini_analyzer.py.  *)
(*                                                                         *)
(* An exception is classified twice on its way through the program: once   *)
(* by the analyzer, which sees the SDK's exception and raises a domain     *)
(* exception for its kind, and once by the worker, which sees only the     *)
(* domain exception and reads its kind back from the text of its message.  *)
(* That message ends in the URL, so the second pass also reads the URL.    *)
(*                                                                         *)
(* A message is abstracted to the set of the policy's keywords that occur  *)
(* in it; nothing else about it is ever looked at.                         *)
(***************************************************************************)
EXTENDS Naturals, Sequences, FiniteSets, FiniteSetsExt

ApiErrorKind ==
  {"unreachable", "precondition", "not_found", "auth_error", "permission",
   "rate_limited", "timeout", "unavailable", "internal", "unknown"}

\* The values of ai_site.status; NULL is the column's SQL NULL.
NULL == "null"
SiteStatus == {"ok", "unreachable", "blocked", "failure"}

-----------------------------------------------------------------------------
(* The policy table.                                                       *)

Transient == {"rate_limited", "timeout", "unavailable", "internal"}

PolicyStatus(kind) ==
  CASE kind \in {"unreachable", "not_found"}                  -> "unreachable"
    [] kind \in {"precondition", "auth_error", "permission"}  -> "blocked"
    [] kind \in Transient                                     -> NULL
    [] kind = "unknown"                                       -> "failure"

POLICIES ==
  [kind \in ApiErrorKind |->
     [retryable        |-> kind \in Transient \cup {"unknown"},
      mark_unreachable |-> kind \in {"unreachable", "not_found"},
      site_status      |-> PolicyStatus(kind)]]

-----------------------------------------------------------------------------
(* Classification.  Rules are tried in order and the first that applies    *)
(* decides; `applies' is the set of the positions of the rules that do.    *)

FirstOf(rules, applies, default) ==
  IF applies = {} THEN default ELSE rules[Min(applies)].kind

MessageRules ==
  << [words |-> {"precondition"},                  kind |-> "precondition"],
     [words |-> {"invalid_argument"},              kind |-> "unreachable"],
     [words |-> {"not_found", "404"},              kind |-> "not_found"],
     [words |-> {"unauthenticated", "401"},        kind |-> "auth_error"],
     [words |-> {"permission_denied", "403"},      kind |-> "permission"],
     [words |-> {"resource_exhausted", "429"},     kind |-> "rate_limited"],
     [words |-> {"deadline_exceeded", "504", "timed out", "timeout"},
                                                   kind |-> "timeout"],
     [words |-> {"unavailable", "503"},            kind |-> "unavailable"],
     [words |-> {"internal", "500"},               kind |-> "internal"],
     [words |-> {"400"},                           kind |-> "unreachable"] >>

Words == UNION {MessageRules[i].words : i \in DOMAIN MessageRules}

ClassifyByMessage(words) ==
  FirstOf(MessageRules,
          {i \in DOMAIN MessageRules : MessageRules[i].words \cap words # {}},
          "unknown")

\* An SDK exception carries a gRPC status, an HTTP code (0 when it has none)
\* and a message; no exception has the code NoCode.
NoCode == 1

ClientRules ==
  << [status |-> "INVALID_ARGUMENT",    code |-> 400, kind |-> "unreachable"],
     [status |-> "FAILED_PRECONDITION", code |-> NoCode, kind |-> "precondition"],
     [status |-> "NOT_FOUND",           code |-> 404, kind |-> "not_found"],
     [status |-> "UNAUTHENTICATED",     code |-> 401, kind |-> "auth_error"],
     [status |-> "PERMISSION_DENIED",   code |-> 403, kind |-> "permission"],
     [status |-> "RESOURCE_EXHAUSTED",  code |-> 429, kind |-> "rate_limited"] >>

ServerRules ==
  << [status |-> "DEADLINE_EXCEEDED", code |-> 504, kind |-> "timeout"],
     [status |-> "UNAVAILABLE",       code |-> 503, kind |-> "unavailable"],
     [status |-> "INTERNAL",          code |-> 500, kind |-> "internal"] >>

Applies(rules, e) ==
  {i \in DOMAIN rules : rules[i].status = e.status \/ rules[i].code = e.code}

\* The first client rule is the only one that also reads the message: a 400
\* is an unfulfilled precondition when the message says so.
ClassifyClientError(e) ==
  LET rule == Applies(ClientRules, e)
  IN  IF 1 \in rule /\ "precondition" \in e.words THEN "precondition"
      ELSE FirstOf(ClientRules, rule,
                   IF e.code \in 400..499 THEN ClassifyByMessage(e.words)
                   ELSE "unknown")

ClassifyServerError(e) ==
  FirstOf(ServerRules, Applies(ServerRules, e),
          IF e.code \in 500..599 THEN "internal" ELSE "unknown")

ClassifyApiError(e) ==
  CASE e.type = "ClientError" -> ClassifyClientError(e)
    [] e.type = "ServerError" -> ClassifyServerError(e)
    [] OTHER                  -> ClassifyByMessage(e.words)

GetPolicy(e) == POLICIES[ClassifyApiError(e)]

-----------------------------------------------------------------------------
(* The domain exceptions the analyzer raises: a class and a message, whose *)
(* keywords are the code in its fixed text and whatever the URL contains.  *)
(* A kind without a class (`unknown') lets the SDK's exception through.    *)

DomainClass ==
  [unreachable  |-> "SiteUnreachableError",
   precondition |-> "ApiPreconditionError",
   not_found    |-> "ApiNotFoundError",
   auth_error   |-> "ApiUnauthenticatedError",
   permission   |-> "ApiPermissionDeniedError",
   rate_limited |-> "RateLimitError",
   timeout      |-> "ApiTimeoutError",
   unavailable  |-> "ApiServerUnavailableError",
   internal     |-> "ApiServerInternalError"]

\* Faulty variant: the text of the authentication error carries a 400.
MessageCodeWrong ==
  [unreachable  |-> "400", precondition |-> "400", not_found |-> "404",
   auth_error   |-> "400", permission   |-> "403", rate_limited |-> "429",
   timeout      |-> "504", unavailable  |-> "503", internal |-> "500"]

MessageCode ==
  [unreachable  |-> "400", precondition |-> "400", not_found |-> "404",
   auth_error   |-> "401", permission   |-> "403", rate_limited |-> "429",
   timeout      |-> "504", unavailable  |-> "503", internal |-> "500"]

DomainClasses == {DomainClass[k] : k \in DOMAIN DomainClass}

TypedError(e, urlWords) ==
  LET kind == ClassifyApiError(e)
  IN  IF kind \in DOMAIN DomainClass
      THEN [type |-> DomainClass[kind], code |-> 0, status |-> "",
            words |-> {MessageCode[kind]} \cup urlWords]
      ELSE e
=============================================================================
