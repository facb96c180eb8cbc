---------------------------- MODULE MCJobEvents -----------------------------
(* Instances of JobEvents for TLC.                                         *)
EXTENDS JobEvents, TLC

CONSTANT t1

OneTab  == {t1}
AllEnv  == EnvKind
=============================================================================
