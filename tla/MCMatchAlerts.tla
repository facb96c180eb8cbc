---------------------------- MODULE MCMatchAlerts ---------------------------
(* Instances of MatchAlerts for TLC.                                       *)
EXTENDS MatchAlerts, TLC

CONSTANTS m1, s1, s2

OneMatch == {m1}
TwoScans == {s1, s2}
AllEnv == {"kill", "redis", "net"}
=============================================================================
