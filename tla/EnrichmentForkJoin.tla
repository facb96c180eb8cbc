------------------------- MODULE EnrichmentForkJoin -------------------------
(***************************************************************************)
(* The jobs table and its workers implement ForkJoin.  A part is a child   *)
(* job; it is closed once its row is terminal, or once the request that    *)
(* would have inserted the row is over without it.  The findings of an     *)
(* open part are not final, so they count as nothing.                      *)
(***************************************************************************)
EXTENDS Enrichment

Closed(k) == \/ row[k].status \in Terminal
             \/ ~Exists(k) /\ api[ParentOf(k)] \in {"done", "dead"}

FJ == INSTANCE ForkJoin WITH
        Whole   <- Parent,
        PartsOf <- [p \in Parent |-> Kids(p)],
        closed  <- {k \in Child : Closed(k)},
        found   <- [k \in Child |-> IF Closed(k) THEN Findings(row[k]) ELSE {}],
        whole   <- [p \in Parent |-> Findings(row[p])]

(* Whatever fails, is killed or is enqueued twice, a split job without     *)
(* cleanup and opt-out is a fork and a join: nothing reaches the parent    *)
(* before both children are final, and what reaches it is all they found.  *)
ImplementsForkJoin == FJ!Spec
=============================================================================
