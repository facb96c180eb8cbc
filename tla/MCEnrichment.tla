---------------------------- MODULE MCEnrichment ----------------------------
(* Instances of Enrichment for TLC.                                        *)
EXTENDS EnrichmentForkJoin, TLC

CONSTANTS p1, c1, c234, s1, s2, base

OneSplit   == {p1}
OneTier1   == p1 :> c1
OneTier234 == p1 :> c234
NoSplit    == {}
NoTier     == [p \in {} |-> p1]
OneSingle  == {s1}
OneSync    == {s2}

Nothing     == {}
Faults      == {"enqueue", "crash", "raise", "db", "kill"}
Disturbed   == {"enqueue", "raise", "kill", "cleanup", "optout"}
=============================================================================
