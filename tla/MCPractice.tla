----------------------------- MODULE MCPractice -----------------------------
(* Instances of Practice for TLC.                                          *)
EXTENDS Practice, TLC

CONSTANTS r1, r2

TwoRequests == {r1, r2}
AllEnv == {"timeout", "redis", "kill", "net", "reload"}
=============================================================================
