--------------------------- MODULE MCApplications ---------------------------
(* Instances of Applications for TLC.                                      *)
EXTENDS Applications, TLC

CONSTANTS m1, m2, r1, r2

OneMatch   == {m1}
TwoMatches == {m1, m2}
TwoRequests == {r1, r2}
AllKinds == {"apply", "move", "swipe"}
AllEnv == {"net", "server", "late"}
Symmetric == Permutations(Match) \cup Permutations(Request)
=============================================================================
