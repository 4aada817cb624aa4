----------------------------- MODULE MCResultFile -----------------------------
(***************************************************************************)
(* Small instances of ResultFile.                                          *)
(***************************************************************************)
EXTENDS ResultFile

CONSTANTS a, b, c

New(kind, l) == [kind |-> kind, link |-> l, mark |-> "new"]

\* Two spellings of one site beside its finished entry; behind the cap of two
\* URLs, an entry that failed.
Twice == <<Entry(a, "ok"), New("link", a), New("link", a), Entry(b, "error")>>
\* The three shapes of an entry, past the cap again.
Mixed == <<New("url", a), New("string", b), New("link", c)>>

AllSources == {Twice, Mixed}
NoneAnalysed == {{}}
SomeAnalysed == {{}, {a}, {a, b}}

===============================================================================
