------------------------------ MODULE MCLlmCall ------------------------------
(***************************************************************************)
(* The exceptions and URLs TLC tries.  The text of an SDK exception is     *)
(* "<code> <status>. <details>", so its keywords are those of its code and *)
(* status and those in the details.                                        *)
(***************************************************************************)
EXTENDS LlmCall

Sdk(type, status, code, words) ==
  [type |-> type, status |-> status, code |-> code, words |-> words]

MCRawErrors ==
  { Sdk("ClientError", "INVALID_ARGUMENT", 400, {"invalid_argument", "400"}),
    Sdk("ClientError", "FAILED_PRECONDITION", 400, {"precondition", "400"}),
    Sdk("ClientError", "NOT_FOUND", 404, {"not_found", "404"}),
    Sdk("ClientError", "UNAUTHENTICATED", 401, {"unauthenticated", "401"}),
    Sdk("ClientError", "PERMISSION_DENIED", 403, {"permission_denied", "403"}),
    Sdk("ClientError", "RESOURCE_EXHAUSTED", 429, {"resource_exhausted", "429"}),
    Sdk("ClientError", "", 408, {"timeout"}),
    Sdk("ClientError", "", 409, {}),
    Sdk("ServerError", "DEADLINE_EXCEEDED", 504, {"deadline_exceeded", "504"}),
    Sdk("ServerError", "UNAVAILABLE", 503, {"unavailable", "503"}),
    Sdk("ServerError", "INTERNAL", 500, {"internal", "500", "not_found"}),
    Sdk("ServerError", "", 502, {}),
    Sdk("OSError", "", 0, {"timed out"}),
    Sdk("OSError", "", 0, {}) }

\* https://internal.tools, https://api.example/v1/timeout, a path of /404, ...
MCUrlWords ==
  {{}, {"internal"}, {"timeout"}, {"404"}, {"429"}, {"precondition"},
   {"unavailable", "503"}}
=============================================================================
