----------------------------- MODULE MCFeedSwipe -----------------------------
(***************************************************************************)
(* Instances of FeedSwipe for TLC: two filters, under the first of which   *)
(* the backend finds two users, or one of them once the other was swiped,  *)
(* and under the second a third user or nobody.                            *)
(***************************************************************************)
EXTENDS FeedSwipe

CONSTANTS p1, p2, p3, near, far

MCPeople == {p1, p2, p3}
MCFilters == {near, far}
MCFound == [f \in MCFilters |->
              IF f = near THEN {<<p1, p2>>, <<p2>>} ELSE {<<p3>>, <<>>}]
=============================================================================
