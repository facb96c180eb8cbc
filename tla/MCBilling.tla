----------------------------- MODULE MCBilling ------------------------------
(* Instances of Billing for TLC.                                           *)
EXTENDS Billing, TLC

CONSTANTS k1, k2, h1, h2

TwoClicks     == {k1, k2}
TwoDeliveries == {h1, h2}
=============================================================================
