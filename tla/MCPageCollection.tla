--------------------------- MODULE MCPageCollection ---------------------------
(***************************************************************************)
(* Instances of PageCollection: a host of seven URLs.  The home page has   *)
(* up to three links of a few kinds or, where all are of all kinds, more   *)
(* than the limits take; a refused one is probed at five paths, the least  *)
(* number at which 60% is a whole number of candidates.                    *)
(***************************************************************************)
EXTENDS PageCollection

MCUrls == 0..6
MCHome == 0

All == Range(PageKinds)

MCLinkLists ==
  {<<>>} \cup
  {<<[url |-> u, kinds |-> ks], [url |-> 1, kinds |-> {"pricing"}], [url |-> v, kinds |-> {"docs"}]>> :
     u \in {0, 1, 2}, ks \in {{"pricing"}, {"docs", "pricing"}, All}, v \in {1, 3}}
  \cup
  {<<[url |-> 1, kinds |-> {"pricing"}], [url |-> 2, kinds |-> {"pricing"}],
     [url |-> 3, kinds |-> ks], [url |-> 4, kinds |-> {"docs"}],
     [url |-> 5, kinds |-> {"policy"}], [url |-> 6, kinds |-> {"product"}]>> :
     ks \in {{"pricing"}, {"pricing", "docs"}}}

MCSeeds == <<[url |-> 5, kind |-> "policy"]>>
MCProbes == <<1, 2, 3, 4>>

\* Some URLs redirect to the home page or to one another.
MCEndsAt == [u \in MCUrls |-> CASE u = 1 -> {0, 2} [] u = 2 -> {1} [] OTHER -> {}]
=============================================================================
