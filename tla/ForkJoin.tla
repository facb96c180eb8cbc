------------------------------ MODULE ForkJoin ------------------------------
(***************************************************************************)
(* What a split job promises, without workers, queue or table: the parts   *)
(* of a whole are closed, each once and for good, with what was found for  *)
(* them or with nothing; the whole stays empty until all its parts are     *)
(* closed and is then the union of their findings.                         *)
(***************************************************************************)
CONSTANTS
  Whole,
  PartsOf      \* [Whole -> set of parts]

Part == UNION {PartsOf[w] : w \in Whole}

VARIABLES
  closed,      \* parts that will not change any more
  found,       \* [Part -> what was found for it: itself or nothing]
  whole        \* [Whole -> findings joined so far]

vars == <<closed, found, whole>>

Init ==
  /\ closed = {}
  /\ found = [k \in Part |-> {}]
  /\ whole = [w \in Whole |-> {}]

(* Some open parts close, each with its findings or empty-handed.          *)
Close ==
  \E some \in SUBSET (Part \ closed) :
    /\ closed' = closed \cup some
    /\ \E lucky \in SUBSET some :
         found' = [k \in Part |-> IF k \in lucky THEN {k} ELSE found[k]]
    /\ UNCHANGED whole

Join(w) ==
  /\ PartsOf[w] \subseteq closed
  /\ whole' = [whole EXCEPT ![w] = UNION {found[k] : k \in PartsOf[w]}]
  /\ UNCHANGED <<closed, found>>

Next == Close \/ \E w \in Whole : Join(w)

Spec == Init /\ [][Next]_vars
=============================================================================
