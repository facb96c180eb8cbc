------------------------------ MODULE MCCvChat ------------------------------
(* Instances of CvChat for TLC.                                            *)
EXTENDS CvChat, TLC

CONSTANTS phone, weeks, t1, t2, c1, c2

OneRequired == {phone}
OneOptional == {weeks}
TwoTabs  == {t1, t2}
TwoChats == {c1, c2}

Symmetry == Permutations(TwoTabs) \cup Permutations(TwoChats)
=============================================================================
