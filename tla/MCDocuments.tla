---------------------------- MODULE MCDocuments -----------------------------
(* Instances of Documents for TLC.                                         *)
EXTENDS Documents, TLC

CONSTANTS u1, u2, r1

TwoUploads   == {u1, u2}
OneReprocess == {r1}
Mixes        == {{u1, u2}, {u1, r1}}
AllEnv       == EnvKind
=============================================================================
