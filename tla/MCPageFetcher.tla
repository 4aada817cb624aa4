---------------------------- MODULE MCPageFetcher ----------------------------
(***************************************************************************)
(* Small instances of PageFetcher: the pages that tell its branches apart. *)
(***************************************************************************)
EXTENDS PageFetcher

CONSTANTS w1, w2

Rich == [ok |-> TRUE, challenge |-> FALSE, rich |-> 1]
\* The content of an error page.
Error == [ok |-> FALSE, challenge |-> FALSE, rich |-> 1]
Challenge == [ok |-> FALSE, challenge |-> TRUE, rich |-> 1]

AllAnswers == Page
AllRenderings == Rendered
SomeAnswers == {Rich, Error, Challenge}
SomeRenderings == {Rich, Challenge}

===============================================================================
