------------------------------ MODULE Reporter ------------------------------
(***************************************************************************)
(* What the status stream promises, without channels, streams or retries:  *)
(* each listener hears one outcome at most, one that came about before it  *)
(* heard of it, and with that it leaves; who has left hears nothing more.  *)
(***************************************************************************)
CONSTANTS
  Listener,
  Fact,        \* what may come about
  Outcome,     \* what a listener waits for
  Nothing

VARIABLES
  had,         \* what has come about
  present,     \* listeners that have not left
  heard        \* [Listener -> the outcome it heard]

vars == <<had, present, heard>>

Init ==
  /\ had \subseteq Fact
  /\ present = Listener
  /\ heard = [l \in Listener |-> Nothing]

Happen ==
  /\ \E f \in Fact : had' = had \cup {f}
  /\ UNCHANGED <<present, heard>>

Hear(l) ==
  /\ l \in present
  /\ \E o \in had \cap Outcome : heard' = [heard EXCEPT ![l] = o]
  /\ present' = present \ {l}
  /\ UNCHANGED had

Leave(l) ==
  /\ l \in present
  /\ present' = present \ {l}
  /\ UNCHANGED <<had, heard>>

Next == Happen \/ \E l \in Listener : Hear(l) \/ Leave(l)

Spec == Init /\ [][Next]_vars
=============================================================================
